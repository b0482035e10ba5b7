-------------------------- MODULE PaymentAggregate --------------------------
(***************************************************************************)
(* The payment aggregate of services/payments: its status machine, its     *)
(* refund ledger and the domain events it emits.  A call whose guard fails *)
(* throws and changes nothing, so it is no step.                           *)
(*                                                                         *)
(* Amounts are JavaScript numbers.  A sum of two of them may be off by a   *)
(* rounding error of Ulp; Ulp = 0 is arithmetic in whole minor units.      *)
(***************************************************************************)
EXTENDS Integers

CONSTANTS
    Amounts,        \* amounts a payment may be created with, valid or not
    RefundAmounts,  \* amounts a refund may be asked for, valid or not
    Ulp,            \* the rounding error of one addition
    MaxFailures     \* bound: how often markAsFailed is called

ASSUME AmountsAssumption ==
    /\ Ulp \in Nat /\ MaxFailures \in Nat
    /\ Amounts \subseteq Int /\ RefundAmounts \subseteq Int
    /\ \A a \in RefundAmounts : a > 0 => a > Ulp

VARIABLES
    amount,     \* what is to be paid
    status,
    refunded,   \* refundedAmount; 0 stands for undefined too, as the code's || 0 does
    emitted     \* history: how many events of each kind, and the sum of the refunds

vars == <<amount, status, refunded, emitted>>

Statuses == {"PENDING", "PROCESSING", "COMPLETED", "FAILED", "CANCELLED", "REFUNDED"}

(* What refundedAmount + amount may evaluate to. *)
Sums(a, b) == IF a = 0 THEN {b} ELSE (a + b - Ulp) .. (a + b + Ulp)

(* create: the amount must be positive. *)
Bug_ZeroAllowed(a) == a >= 0
Payable(a) == a > 0

Init ==
    /\ amount \in {a \in Amounts : Payable(a)}
    /\ status = "PENDING"
    /\ refunded = 0
    /\ emitted = [processed |-> 0, failed |-> 0, refunds |-> 0, refundSum |-> 0]

MarkAsProcessing ==
    /\ status = "PENDING"
    /\ status' = "PROCESSING"
    /\ UNCHANGED <<amount, refunded, emitted>>

Bug_CompleteTwice == {"PENDING", "PROCESSING", "COMPLETED"}
Bug_RetryAfterFailure == {"PENDING", "PROCESSING", "FAILED"}
Completable == {"PENDING", "PROCESSING"}

MarkAsCompleted ==
    /\ status \in Completable
    /\ status' = "COMPLETED"
    /\ emitted' = [emitted EXCEPT !.processed = @ + 1]
    /\ UNCHANGED <<amount, refunded>>

(* Refused to completed payments only. *)
MarkAsFailed ==
    /\ status # "COMPLETED"
    /\ emitted.failed < MaxFailures
    /\ status' = "FAILED"
    /\ emitted' = [emitted EXCEPT !.failed = @ + 1]
    /\ UNCHANGED <<amount, refunded>>

(* The total a refund of a leads to may not exceed the payment. *)
Bug_TotalUnchecked(a, total) == a <= amount
Allowed(a, total) == a <= amount /\ (refunded > 0 => total <= amount)

(* What is recorded as refunded after a refund of a brought the total to s. *)
Bug_Overwritten(a, total) == a
Recorded(a, total) == total

Bug_AlwaysRefunded(total) == "REFUNDED"
AfterRefund(total) == IF total = amount THEN "REFUNDED" ELSE status

Refund(a) ==
    /\ status = "COMPLETED"
    /\ a > 0
    /\ \E total \in Sums(refunded, a) :
         /\ Allowed(a, total)
         /\ refunded' = Recorded(a, total)
         /\ status' = AfterRefund(total)
    /\ emitted' = [emitted EXCEPT !.refunds = @ + 1, !.refundSum = @ + a]
    /\ UNCHANGED amount

Cancel ==
    /\ status \notin {"COMPLETED", "CANCELLED"}
    /\ status' = "CANCELLED"
    /\ UNCHANGED <<amount, refunded, emitted>>

Next ==
    \/ MarkAsProcessing \/ MarkAsCompleted \/ MarkAsFailed \/ Cancel
    \/ \E a \in RefundAmounts : Refund(a)

Spec == Init /\ [][Next]_vars

-----------------------------------------------------------------------------
(* Properties *)

TypeOK ==
    /\ amount \in Nat \ {0}
    /\ status \in Statuses
    /\ refunded \in Nat
    /\ emitted \in [processed : Nat, failed : Nat, refunds : Nat, refundSum : Nat]

(* No more is refunded than was paid, whatever sequence of partial refunds and *)
(* rounding errors led there, and only payments that were processed.           *)
RefundsWithinPayment ==
    /\ refunded <= amount
    /\ refunded > 0 => emitted.processed > 0

(* The refund events add up to the recorded amount, up to one rounding error   *)
(* per refund: no refund is announced without being recorded.                  *)
LedgerAgrees ==
    /\ emitted.refundSum - refunded <= emitted.refunds * Ulp
    /\ refunded - emitted.refundSum <= emitted.refunds * Ulp

(* A payment is announced as processed at most once, whichever calls follow,   *)
(* and it was announced before it can be found completed or refunded.          *)
ProcessedOnce ==
    /\ emitted.processed <= 1
    /\ status \in {"COMPLETED", "REFUNDED"} => emitted.processed = 1

(* REFUNDED stands for a full refund, and a full refund ends in no other live  *)
(* state: a payment with money left to refund is still refundable.             *)
RefundedIsFull ==
    /\ status = "REFUNDED" => refunded = amount
    /\ status = "COMPLETED" => refunded < amount

(* Refunds are within the payment, recorded as announced, and end it exactly   *)
(* when they reach it, whatever sums and roundings led there.                  *)
RefundsAreSound == RefundsWithinPayment /\ LedgerAgrees /\ RefundedIsFull

(* A payment that failed or was cancelled before it was processed is never     *)
(* processed or refunded later.                                                *)
NoMoneyAfterFailure ==
    [][(status = "FAILED" \/ status = "CANCELLED") =>
          emitted'.processed = emitted.processed /\ emitted'.refunds = emitted.refunds]_vars

=============================================================================
