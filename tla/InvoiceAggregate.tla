-------------------------- MODULE InvoiceAggregate --------------------------
(***************************************************************************)
(* The invoice aggregate of the billing service: line items in currencies, *)
(* a total that need not exist, and a status.  A method that throws leaves *)
(* the invoice as it was, and is no step.                                  *)
(***************************************************************************)
EXTENDS Integers, Sequences, SequencesExt

CONSTANTS
    Currencies, Default,   \* Default is the currency of an amount given without one
    Amounts,               \* the totals and taxes of items, and the payments
    MaxItems,              \* bound on the items of an invoice
    None

VARIABLES
    status, items, paid, events,
    late   \* the due date has passed

vars == <<status, items, paid, events, late>>

(* An item that names a tax rate may still be taxed nothing. *)
Items == [price : Amounts, currency : Currencies, taxed : BOOLEAN, tax : Amounts \cup {0}]
LineItems == {i \in Items : ~i.taxed => i.tax = 0}

CurrenciesOf(s) == {s[n].currency : n \in DOMAIN s}
Taxed(s) == \E n \in DOMAIN s : s[n].taxed
(* The subtotal adds the items, so they need one currency; without a taxed item  *)
(* the tax is nothing in the default currency, and is added to the subtotal.     *)
calculateTotal(s) ==
    IF \A c \in CurrenciesOf(s) : CurrenciesOf(s) = {c} /\ (Taxed(s) \/ c = Default)
    THEN [amount |-> FoldLeft(LAMBDA sum, i : sum + i.price + i.tax, 0, s), currency |-> Head(s).currency]
    ELSE None

Init == status = "none" /\ items = <<>> /\ paid = None /\ events = <<>> /\ late = FALSE

create(s) ==
    /\ status = "none" /\ calculateTotal(s) # None
    /\ status' = "DRAFT" /\ items' = s /\ events' = <<"InvoiceCreated">>
    /\ UNCHANGED <<paid, late>>

markSent ==
    /\ status = "DRAFT"
    /\ status' = "SENT" /\ events' = Append(events, "InvoiceSent")
    /\ UNCHANGED <<items, paid, late>>

Bug_AnyCurrency(amount, currency) ==
    LET total == calculateTotal(items) IN
    /\ status \notin {"none", "PAID", "CANCELLED"}
    /\ total # None /\ amount >= total.amount
    /\ status' = "PAID" /\ paid' = [amount |-> amount, currency |-> currency]
    /\ events' = Append(events, "InvoicePaid")
    /\ UNCHANGED <<items, late>>
markPaid(amount, currency) ==
    LET total == calculateTotal(items) IN
    /\ status \notin {"none", "PAID", "CANCELLED"}
    /\ total # None /\ currency = total.currency /\ amount >= total.amount
    /\ status' = "PAID" /\ paid' = [amount |-> amount, currency |-> currency]
    /\ events' = Append(events, "InvoicePaid")
    /\ UNCHANGED <<items, late>>

markOverdue ==
    /\ status = "SENT" /\ late
    /\ status' = "OVERDUE" /\ events' = Append(events, "InvoiceOverdue")
    /\ UNCHANGED <<items, paid, late>>

cancel ==
    /\ status \notin {"none", "PAID"}
    /\ status' = "CANCELLED"
    /\ UNCHANGED <<items, paid, events, late>>

addLineItem(i) ==
    /\ status = "DRAFT" /\ Len(items) < MaxItems
    /\ items' = Append(items, i)
    /\ UNCHANGED <<status, paid, events, late>>
removeLineItem(n) ==
    /\ status = "DRAFT" /\ Len(items) > 1
    /\ items' = RemoveAt(items, n)
    /\ UNCHANGED <<status, paid, events, late>>

DueDatePasses == ~late /\ late' = TRUE /\ UNCHANGED <<status, items, paid, events>>

Next ==
    \/ \E i \in LineItems : create(<<i>>) \/ addLineItem(i)
    \/ \E i, j \in LineItems : create(<<i, j>>)
    \/ \E n \in DOMAIN items : removeLineItem(n)
    \/ markSent \/ markOverdue \/ cancel \/ DueDatePasses
    \/ \E amount \in Amounts, currency \in Currencies : markPaid(amount, currency)

Spec == Init /\ [][Next]_vars

-----------------------------------------------------------------------------
TypeOK ==
    /\ status \in {"none", "DRAFT", "SENT", "OVERDUE", "PAID", "CANCELLED"}
    /\ items \in Seq(LineItems)
    /\ (status # "none") = (items # <<>>) /\ (status = "none") = (events = <<>>)

(* However the items changed before, a paid invoice was paid in full and in its  *)
(* own currency, and that was announced last and once; an invoice whose total    *)
(* does not exist, which a draft can become and be sent as, is never paid.       *)
PaidInFull ==
    /\ (status = "PAID") = (paid # None)
    /\ paid # None => LET total == calculateTotal(items) IN
           total # None /\ paid.currency = total.currency /\ paid.amount >= total.amount
    /\ \A n \in DOMAIN events : events[n] = "InvoicePaid" => n = Len(events) /\ status = "PAID"
=============================================================================
