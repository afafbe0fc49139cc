----------------------------- MODULE MCPayments -----------------------------
(* TLC instance of Payments; the requests are interchangeable.             *)
EXTENDS PaymentProperties, TLC

RequestSymmetry == Permutations(Requests)
=============================================================================
