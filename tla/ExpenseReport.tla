---------------------------- MODULE ExpenseReport ----------------------------
(***************************************************************************)
(* The expense report aggregate of services/expenses: the review of an     *)
(* expense from draft to payment, its receipt, and the OCR results that    *)
(* arrive for the receipt.  A call whose guard fails throws and changes    *)
(* nothing, so it is no step.  Amounts are whole; 0 stands for an omitted  *)
(* amount, which is all that || and && tell of it.                         *)
(***************************************************************************)
EXTENDS Integers

CONSTANTS
    Amounts,     \* amounts the methods are called with, valid or not
    Currencies,  \* valid currency codes
    Reviewers,
    Nobody       \* an empty reviewer id, reason or currency

VARIABLES
    status,
    amount, currency,
    receipt,    \* whether a receipt is attached
    reviewer,   \* reviewedBy
    approved,   \* approvedAmount; 0 is undefined
    emitted,    \* history: what the events said of the money
    rewritten   \* history: an OCR result changed the money of a submitted report

vars == <<status, amount, currency, receipt, reviewer, approved, emitted, rewritten>>

Statuses == {"DRAFT", "SUBMITTED", "UNDER_REVIEW", "APPROVED", "REJECTED", "PAID"}
Silent == [submitted |-> 0, in |-> Nobody, approved |-> 0, verdicts |-> 0]

(* create *)
Init ==
    /\ status = "DRAFT"
    /\ amount \in {a \in Amounts : a > 0}
    /\ currency \in Currencies
    /\ receipt = FALSE
    /\ reviewer = Nobody
    /\ approved = 0
    /\ emitted = Silent
    /\ rewritten = FALSE

AttachReceipt ==
    /\ status = "DRAFT"
    /\ receipt' = TRUE
    /\ UNCHANGED <<status, amount, currency, reviewer, approved, emitted, rewritten>>

(* The amount is taken from the OCR result only if it is confident.            *)
Bug_AnyConfidence(a, confident) == a # 0
Taken(a, confident) == a > 0 /\ confident

UpdateFromOcr(a, confident, cur) ==
    /\ receipt
    /\ amount' = IF Taken(a, confident) THEN a ELSE amount
    /\ currency' = IF cur = Nobody THEN currency ELSE cur
    /\ rewritten' = (rewritten \/ (status # "DRAFT" /\ <<amount', currency'>> # <<amount, currency>>))
    /\ UNCHANGED <<status, receipt, reviewer, approved, emitted>>

Bug_ReceiptNotNeeded == status = "DRAFT"
Submittable == status = "DRAFT" /\ receipt

Submit ==
    /\ Submittable
    /\ status' = "SUBMITTED"
    /\ emitted' = [emitted EXCEPT !.submitted = amount, !.in = currency]
    /\ UNCHANGED <<amount, currency, receipt, reviewer, approved, rewritten>>

StartReview(r) ==
    /\ status = "SUBMITTED" /\ r # Nobody
    /\ status' = "UNDER_REVIEW"
    /\ reviewer' = r
    /\ UNCHANGED <<amount, currency, receipt, approved, emitted, rewritten>>

Bug_VerdictRepeated == {"UNDER_REVIEW", "APPROVED"}
Reviewable == {"UNDER_REVIEW"}

(* approvedAmount || amount, which may not be more than the amount.            *)
Bug_Unbounded(final) == final > 0
Acceptable(final) == final > 0 /\ final <= amount

Approve(r, a) ==
    LET final == IF a = 0 THEN amount ELSE a IN
    /\ status \in Reviewable /\ r # Nobody
    /\ Acceptable(final)
    /\ status' = "APPROVED"
    /\ reviewer' = r
    /\ approved' = final
    /\ emitted' = [emitted EXCEPT !.approved = final, !.verdicts = @ + 1]
    /\ UNCHANGED <<amount, currency, receipt, rewritten>>

Reject(r) ==
    /\ status \in Reviewable /\ r # Nobody
    /\ status' = "REJECTED"
    /\ reviewer' = r
    /\ emitted' = [emitted EXCEPT !.verdicts = @ + 1]
    /\ UNCHANGED <<amount, currency, receipt, approved, rewritten>>

MarkAsPaid ==
    /\ status = "APPROVED"
    /\ status' = "PAID"
    /\ UNCHANGED <<amount, currency, receipt, reviewer, approved, emitted, rewritten>>

Bug_AlwaysEditable == TRUE
Editable == status = "DRAFT"

UpdateDetails(a) ==
    /\ Editable
    /\ amount' = IF a > 0 THEN a ELSE amount
    /\ UNCHANGED <<status, currency, receipt, reviewer, approved, emitted, rewritten>>

Next ==
    \/ AttachReceipt \/ Submit \/ MarkAsPaid
    \/ \E a \in Amounts, confident \in BOOLEAN, cur \in Currencies \cup {Nobody} : UpdateFromOcr(a, confident, cur)
    \/ \E r \in Reviewers \cup {Nobody} : StartReview(r) \/ Reject(r) \/ \E a \in Amounts : Approve(r, a)
    \/ \E a \in Amounts : UpdateDetails(a)

Spec == Init /\ [][Next]_vars

-----------------------------------------------------------------------------
(* Properties *)

TypeOK ==
    /\ status \in Statuses
    /\ amount \in Nat \ {0} /\ approved \in Nat
    /\ currency \in Currencies /\ receipt \in BOOLEAN /\ rewritten \in BOOLEAN
    /\ reviewer \in Reviewers \cup {Nobody}
    /\ emitted \in [submitted : Nat, in : Currencies \cup {Nobody}, approved : Nat, verdicts : Nat]

(* What is paid was submitted with a receipt, reviewed by somebody, approved   *)
(* by exactly one verdict, and is the amount the approval announced; nothing   *)
(* that was rejected is approved or paid later, nor the other way round.       *)
PaidIsApproved ==
    /\ emitted.verdicts <= 1
    /\ status \in {"APPROVED", "PAID"} =>
          /\ receipt /\ reviewer # Nobody
          /\ approved > 0 /\ approved = emitted.approved
          /\ emitted.submitted > 0 /\ emitted.verdicts = 1
    /\ status = "REJECTED" => approved = 0

(* No more is approved than was asked for, in the currency it was asked for:   *)
(* what the submission announced still holds when it is approved and paid,     *)
(* unless an OCR result that came late replaced it.                            *)
ApprovedAsSubmitted ==
    approved > 0 /\ ~rewritten => approved <= emitted.submitted /\ currency = emitted.in

=============================================================================
