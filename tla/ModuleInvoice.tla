---------------------------- MODULE ModuleInvoice ----------------------------
(***************************************************************************)
(* The invoice aggregate of the billing module: finalized, sent, paid in   *)
(* parts, void, prorated.  Amounts are cents.  A sum of two amounts may be *)
(* a number with more than two decimals (0.1 + 0.2), which Money refuses;  *)
(* Inexact are the sums that are.  A method that throws is no step.        *)
(***************************************************************************)
EXTENDS Integers, Sequences, SequencesExt

CONSTANTS
    Invoices,
    Recurring,   \* the invoices of type RECURRING
    Amounts,     \* what an item amounts to with its tax, and payments
    Inexact,
    MaxItems,    \* bound on the items of an invoice
    FirstNumber,
    LastRefused, \* bound on the numbers refused invoices take
    None

VARIABLES
    status, items, paidAmount, number,
    counter   \* the next number of the process

vars == <<status, items, paidAmount, number, counter>>

Total(s) ==
    LET sum[n \in 0..Len(s)] == IF n = 0 THEN 0 ELSE sum[n - 1] + s[n]
    IN  sum[Len(s)]
Sum(a, b) == IF a # 0 /\ b # 0 /\ a + b \in Inexact THEN None ELSE a + b
calculateTotal(s) == IF Len(s) > 1 /\ Total(s) \in Inexact THEN None ELSE Total(s)

Init ==
    /\ status = [i \in Invoices |-> "none"] /\ items = [i \in Invoices |-> <<>>]
    /\ paidAmount = [i \in Invoices |-> 0] /\ number = [i \in Invoices |-> None]
    /\ counter = FirstNumber

(* A due date that has passed and a recurring invoice without a frequency are    *)
(* refused, but the number is taken before.                                      *)
Generate(i) == counter' = counter + 1 /\ number' = [number EXCEPT ![i] = counter]
create(i) ==
    /\ status[i] = "none" /\ Generate(i)
    /\ status' = [status EXCEPT ![i] = "DRAFT"]
    /\ UNCHANGED <<items, paidAmount>>
Refused ==
    /\ counter < LastRefused /\ counter' = counter + 1
    /\ UNCHANGED <<status, items, paidAmount, number>>

Draft(i, s) ==
    /\ status[i] = "DRAFT" /\ items' = [items EXCEPT ![i] = s]
    /\ UNCHANGED <<status, paidAmount, number, counter>>
addItem(i, amount) == Len(items[i]) < MaxItems /\ Draft(i, Append(items[i], amount))
removeItem(i, n) == n \in DOMAIN items[i] /\ Draft(i, RemoveAt(items[i], n))
updateItem(i, n, amount) == n \in DOMAIN items[i] /\ Draft(i, [items[i] EXCEPT ![n] = amount])

To(i, from, to) ==
    /\ status[i] \in from /\ status' = [status EXCEPT ![i] = to]
    /\ UNCHANGED <<items, paidAmount, number, counter>>
(* Neither of the two looks at the total. *)
finalize(i) == items[i] # <<>> /\ To(i, {"DRAFT"}, "FINALIZED")
send(i) == To(i, {"FINALIZED"}, "SENT")
void(i) == To(i, {"DRAFT", "FINALIZED", "SENT", "PARTIALLY_PAID", "OVERPAID"}, "VOID")

Bug_LastPayment(i, amount) ==
    LET due == calculateTotal(items[i]) IN
    /\ status[i] \in {"SENT", "PARTIALLY_PAID"}
    /\ due # None
    /\ paidAmount' = [paidAmount EXCEPT ![i] = @ + amount]
    /\ status' = [status EXCEPT ![i] =
           IF amount = due THEN "PAID" ELSE IF amount < due THEN "PARTIALLY_PAID" ELSE "OVERPAID"]
    /\ UNCHANGED <<items, number, counter>>
recordPayment(i, amount) ==
    LET new == Sum(paidAmount[i], amount)  due == calculateTotal(items[i]) IN
    /\ status[i] \in {"SENT", "PARTIALLY_PAID"}
    /\ new # None /\ due # None
    /\ paidAmount' = [paidAmount EXCEPT ![i] = new]
    /\ status' = [status EXCEPT ![i] =
           IF new = due THEN "PAID" ELSE IF new < due THEN "PARTIALLY_PAID" ELSE "OVERPAID"]
    /\ UNCHANGED <<items, number, counter>>
markAsPaid(i) ==
    LET due == calculateTotal(items[i]) IN due # None /\ due > 0 /\ recordPayment(i, due)

(* A new draft with every item times the share of a month, rounded to cents; an  *)
(* item that rounds to nothing is refused.                                       *)
prorate(i, j, days) ==
    LET share == [n \in DOMAIN items[i] |-> (2 * items[i][n] * days + 30) \div 60] IN
    /\ i \in Recurring /\ j \notin Recurring /\ status[i] # "none" /\ status[j] = "none"
    /\ \A n \in DOMAIN share : share[n] > 0
    /\ Generate(j)
    /\ status' = [status EXCEPT ![j] = "DRAFT"]
    /\ items' = [items EXCEPT ![j] = share]
    /\ UNCHANGED paidAmount

Next ==
    \/ Refused
    \/ \E i \in Invoices :
        \/ create(i) \/ finalize(i) \/ send(i) \/ void(i) \/ markAsPaid(i)
        \/ \E amount \in Amounts : addItem(i, amount) \/ recordPayment(i, amount)
        \/ \E n \in DOMAIN items[i] : removeItem(i, n) \/ \E amount \in Amounts : updateItem(i, n, amount)
        \/ \E j \in Invoices, days \in {1, 15, 45} : prorate(i, j, days)

Spec == Init /\ [][Next]_vars

-----------------------------------------------------------------------------
TypeOK ==
    /\ status \in [Invoices -> {"none", "DRAFT", "FINALIZED", "SENT", "PARTIALLY_PAID", "PAID", "OVERPAID", "VOID"}]
    /\ items \in [Invoices -> Seq(Nat)] /\ paidAmount \in [Invoices -> Nat]
    /\ counter >= FirstNumber

(* The status tells how the payments together compare with the total, whatever   *)
(* came in which parts; only a void invoice keeps a balance nobody tells.  No    *)
(* two invoices of the process have a number in common.                          *)
StatusTellsBalance ==
    /\ \A i \in Invoices : LET due == calculateTotal(items[i]) IN
        /\ status[i] \in {"none", "DRAFT", "FINALIZED", "SENT"} => paidAmount[i] = 0
        /\ status[i] = "PARTIALLY_PAID" => due # None /\ 0 < paidAmount[i] /\ paidAmount[i] < due
        /\ status[i] = "PAID" => paidAmount[i] = due /\ due > 0
        /\ status[i] = "OVERPAID" => due # None /\ paidAmount[i] > due
    /\ \A i, j \in Invoices : number[i] = number[j] /\ number[i] # None => i = j
=============================================================================
