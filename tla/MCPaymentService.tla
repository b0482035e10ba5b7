-------------------------- MODULE MCPaymentService --------------------------
(* Instances of PaymentService. *)
EXTENDS PaymentService, TLC

CONSTANTS r1, r2, r3, r4, n1, n2

MCRequests == {r1, r2, r3, r4}
MCPaymentIds == {n1, n2}
Symmetry == Permutations(MCRequests) \cup Permutations(MCPaymentIds)

AskedStatuses == {"pending", "completed", "failed", "other"}
=============================================================================
