------------------------------- MODULE MCPayment -------------------------------
(* Small instances of PaymentGateway: the payments of one call. *)
EXTENDS PaymentGateway, TLC
=============================================================================
