--------------------------- MODULE MCWebCheckout ---------------------------
(* One page, two clicks on "Pagar agora". *)
EXTENDS WebCheckout
=============================================================================
