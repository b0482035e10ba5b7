----------------------- MODULE PaymentAggregateProofs -----------------------
(***************************************************************************)
(* Theorems about PaymentAggregate for any amounts and any rounding error. *)
(***************************************************************************)
EXTENDS PaymentAggregate, TLAPS

(* Nothing is refunded, and nothing was processed, before the payment completes; *)
(* what is refunded stays strictly within the payment until the last refund.     *)
PaymentInv ==
    /\ TypeOK
    /\ RefundsWithinPayment
    /\ ProcessedOnce
    /\ RefundedIsFull
    /\ status \in {"PENDING", "PROCESSING"} => emitted.processed = 0

LEMMA SumsOfRefund ==
    ASSUME AmountsAssumption, NEW a \in RefundAmounts, a > 0, NEW b \in Nat, NEW s \in Sums(b, a)
    PROVE  s \in Nat /\ s > 0 /\ (b > 0 => s - b - a <= Ulp /\ b + a - s <= Ulp) /\ (b = 0 => s = a)
<1>1. a \in Int /\ a > Ulp /\ Ulp \in Nat
  BY DEF AmountsAssumption
<1> QED
  BY <1>1 DEF Sums

LEMMA InitPayment == Init => PaymentInv
BY AmountsAssumption
   DEF Init, PaymentInv, TypeOK, Payable, Statuses, RefundsWithinPayment, ProcessedOnce, RefundedIsFull,
       AmountsAssumption

LEMMA NextPayment == PaymentInv /\ [Next]_vars => PaymentInv'
<1> SUFFICES ASSUME PaymentInv, [Next]_vars
             PROVE  PaymentInv'
  OBVIOUS
<1> USE DEF PaymentInv, TypeOK, Statuses, RefundsWithinPayment, ProcessedOnce, RefundedIsFull
<1>1. CASE MarkAsProcessing
  BY <1>1 DEF MarkAsProcessing
<1>2. CASE MarkAsCompleted
  <2>1. emitted.processed = 0 /\ refunded = 0
    BY <1>2 DEF MarkAsCompleted, Completable
  <2> QED
    BY <1>2, <2>1 DEF MarkAsCompleted
<1>3. CASE MarkAsFailed
  BY <1>3 DEF MarkAsFailed
<1>4. ASSUME NEW a \in RefundAmounts, Refund(a)
      PROVE  PaymentInv'
  <2>1. PICK total \in Sums(refunded, a) :
          Allowed(a, total) /\ refunded' = Recorded(a, total) /\ status' = AfterRefund(total)
    BY <1>4 DEF Refund
  <2>2. total \in Nat /\ total > 0 /\ (refunded = 0 => total = a)
    BY <1>4, <2>1, AmountsAssumption, SumsOfRefund DEF Refund
  <2>3. total <= amount
    BY <2>1, <2>2 DEF Allowed
  <2>4. a \in Nat /\ a > 0
    BY <1>4, AmountsAssumption DEF Refund, AmountsAssumption
  <2>5. emitted' \in [processed : Nat, failed : Nat, refunds : Nat, refundSum : Nat]
        /\ emitted'.processed = emitted.processed
    <3>1. emitted.refunds + 1 \in Nat /\ emitted.refundSum + a \in Nat
      BY <2>4
    <3> QED
      BY <1>4, <3>1 DEF Refund
  <2>6. status = "COMPLETED" /\ amount' = amount /\ refunded' = total /\ emitted.processed = 1
    BY <1>4, <2>1 DEF Refund, Recorded
  <2>7. status' = IF total = amount THEN "REFUNDED" ELSE "COMPLETED"
    BY <2>1, <2>6 DEF AfterRefund
  <2>8. TypeOK'
    BY <2>2, <2>5, <2>6, <2>7
  <2>9. RefundsWithinPayment' /\ ProcessedOnce' /\ RefundedIsFull'
    BY <2>2, <2>3, <2>5, <2>6, <2>7
  <2> QED
    BY <2>7, <2>8, <2>9
<1>5. CASE Cancel
  BY <1>5 DEF Cancel
<1>6. CASE UNCHANGED vars
  BY <1>6 DEF vars
<1> QED
  BY <1>1, <1>2, <1>3, <1>4, <1>5, <1>6 DEF Next

LEMMA PaymentInvariant == Spec => []PaymentInv
BY InitPayment, NextPayment, PTL DEF Spec

(* Type correctness, for any amounts and any rounding error. *)
THEOREM PaymentType == Spec => []TypeOK
<1>1. PaymentInv => TypeOK
  BY DEF PaymentInv
<1> QED
  BY <1>1, PaymentInvariant, PTL

(* A payment is never refunded beyond its amount, however refunds round. *)
THEOREM RefundsAreBounded == Spec => []RefundsWithinPayment
<1>1. PaymentInv => RefundsWithinPayment
  BY DEF PaymentInv
<1> QED
  BY <1>1, PaymentInvariant, PTL

(* A payment is announced as processed once, before it can be refunded. *)
THEOREM IsProcessedOnce == Spec => []ProcessedOnce
<1>1. PaymentInv => ProcessedOnce
  BY DEF PaymentInv
<1> QED
  BY <1>1, PaymentInvariant, PTL

(* A payment that failed or was cancelled is never processed or refunded later. *)
THEOREM FailureIsFinal == Spec => NoMoneyAfterFailure
<1>1. PaymentInv /\ [Next]_vars =>
        [(status = "FAILED" \/ status = "CANCELLED") =>
            emitted'.processed = emitted.processed /\ emitted'.refunds = emitted.refunds]_vars
  <2> SUFFICES ASSUME PaymentInv, [Next]_vars, status = "FAILED" \/ status = "CANCELLED"
               PROVE  emitted'.processed = emitted.processed /\ emitted'.refunds = emitted.refunds
    OBVIOUS
  <2> QED
    BY DEF Next, MarkAsProcessing, MarkAsCompleted, Completable, MarkAsFailed, Refund, Cancel, vars,
           PaymentInv, TypeOK
<1> QED
  BY <1>1, PaymentInvariant, PTL DEF Spec, NoMoneyAfterFailure

LEMMA LedgerStep == PaymentInv /\ LedgerAgrees /\ [Next]_vars => LedgerAgrees'
<1> SUFFICES ASSUME PaymentInv, LedgerAgrees, [Next]_vars
             PROVE  LedgerAgrees'
  OBVIOUS
<1>1. ASSUME NEW a \in RefundAmounts, Refund(a)
      PROVE  LedgerAgrees'
  <2>1. PICK total \in Sums(refunded, a) : refunded' = total
    BY <1>1 DEF Refund, Recorded
  <2> DEFINE sum == emitted.refundSum
             slack == emitted.refunds * Ulp
  <2>2. a \in Nat /\ a > 0 /\ Ulp \in Nat /\ refunded \in Nat /\ sum \in Nat /\ emitted.refunds \in Nat
    BY <1>1, AmountsAssumption DEF Refund, AmountsAssumption, PaymentInv, TypeOK
  <2>3. total \in Nat /\ (refunded > 0 => total - refunded - a <= Ulp /\ refunded + a - total <= Ulp)
        /\ (refunded = 0 => total = a)
    BY <1>1, <2>2, AmountsAssumption, SumsOfRefund
  <2>4. emitted'.refundSum = sum + a /\ emitted'.refunds = emitted.refunds + 1
    BY <1>1 DEF Refund, PaymentInv, TypeOK
  <2>5. (emitted.refunds + 1) * Ulp = slack + Ulp /\ slack \in Nat
    BY <2>2
  <2>6. sum - refunded <= slack /\ refunded - sum <= slack
    BY DEF LedgerAgrees
  <2> HIDE DEF slack, sum
  <2>7. sum + a - total <= slack + Ulp /\ total - (sum + a) <= slack + Ulp
    BY <2>2, <2>3, <2>5, <2>6
  <2>8. emitted'.refunds * Ulp = slack + Ulp
    BY <2>4, <2>5
  <2>9. emitted'.refundSum - refunded' <= emitted'.refunds * Ulp
    BY <2>1, <2>2, <2>3, <2>4, <2>5, <2>7, <2>8
  <2>10. refunded' - emitted'.refundSum <= emitted'.refunds * Ulp
    BY <2>1, <2>2, <2>3, <2>4, <2>5, <2>7, <2>8
  <2> QED
    BY <2>9, <2>10 DEF LedgerAgrees
<1>2. CASE ~ \E a \in RefundAmounts : Refund(a)
  <2>1. refunded' = refunded /\ emitted'.refunds = emitted.refunds
        /\ emitted'.refundSum = emitted.refundSum
    BY <1>2 DEF Next, MarkAsProcessing, MarkAsCompleted, MarkAsFailed, Cancel, vars, PaymentInv, TypeOK
  <2> QED
    BY <2>1 DEF LedgerAgrees
<1> QED
  BY <1>1, <1>2

(* The refund events add up to what is recorded, up to one rounding error each. *)
THEOREM LedgerIsKept == Spec => []LedgerAgrees
<1>1. Init => LedgerAgrees
  BY AmountsAssumption DEF Init, LedgerAgrees, AmountsAssumption
<1> QED
  BY <1>1, LedgerStep, PaymentInvariant, PTL DEF Spec

(* Refunds are bounded, recorded, and end the payment when they reach it. *)
THEOREM RefundsAreKept == Spec => []RefundsAreSound
<1>1. PaymentInv /\ LedgerAgrees => RefundsAreSound
  BY DEF PaymentInv, RefundsAreSound
<1> QED
  BY <1>1, PaymentInvariant, LedgerIsKept, PTL

=============================================================================
