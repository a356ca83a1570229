-------------------------- MODULE MCPaymentGateways --------------------------
(* A small instance of PaymentGateways. *)
EXTENDS PaymentGateways, TLC

Symmetry == Permutations(Call)
===============================================================================
