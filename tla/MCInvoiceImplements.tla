------------------------- MODULE MCInvoiceImplements -------------------------
(* A small instance of InvoiceImplements: one number, one line-item list.   *)
EXTENDS InvoiceImplements, TLC

CONSTANTS r1, r2, r3, r4, r5, n1

FiveRequests == {r1, r2, r3, r4, r5}
OneNumber == {n1}
OneLine == {<<[quantity |-> 1, unitPrice |-> 2]>>}

Symmetry == Permutations(FiveRequests)

=============================================================================
