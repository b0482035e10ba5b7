-------------------------- MODULE MCInvoiceService --------------------------
(* A small instance of InvoiceService: two numbers, two line-item lists.    *)
EXTENDS InvoiceService, TLC

CONSTANTS r1, r2, r3, r4, n1, n2

FourRequests == {r1, r2, r3, r4}
TwoRequests == {r1, r2}
TwoNumbers == {n1, n2}
OneNumber == {n1}

TwoLines == {<<[quantity |-> 1, unitPrice |-> 2]>>,
             <<[quantity |-> 2, unitPrice |-> 1], [quantity |-> 1, unitPrice |-> 1]>>}
OneLine == {<<[quantity |-> 1, unitPrice |-> 2]>>}

(* Requests are interchangeable, and so are numbers.                        *)
Symmetry == Permutations(FourRequests) \cup Permutations(TwoNumbers)

=============================================================================
