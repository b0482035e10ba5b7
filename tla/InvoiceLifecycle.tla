------------------------- MODULE InvoiceLifecycle -------------------------
(***************************************************************************)
(* What the invoice service of services/billing promises its clients: an   *)
(* invoice is created once, as a draft; a draft is deleted for good or     *)
(* sent; a sent invoice stays, and its email is queued at most once.       *)
(***************************************************************************)
CONSTANTS
    Invoices,     \* the invoices that may ever exist
    Requests      \* who may ask for something

VARIABLES
    stage,        \* where each invoice is in its life
    mails         \* the requests that queued an email for it

vars == <<stage, mails>>

Init ==
    /\ stage = [i \in Invoices |-> "none"]
    /\ mails = [i \in Invoices |-> {}]

Move(i, from, to) ==
    /\ stage[i] = from
    /\ stage' = [stage EXCEPT ![i] = to]
    /\ UNCHANGED mails

Create(i) == Move(i, "none", "draft")
Delete(i) == Move(i, "draft", "gone")
Send(i)   == Move(i, "draft", "sent")

Mail(i, r) ==
    /\ stage[i] = "sent"
    /\ mails[i] = {}
    /\ mails' = [mails EXCEPT ![i] = {r}]
    /\ UNCHANGED stage

Next ==
    \E i \in Invoices :
        \/ Create(i) \/ Delete(i) \/ Send(i)
        \/ \E r \in Requests : Mail(i, r)

Spec == Init /\ [][Next]_vars

=============================================================================
