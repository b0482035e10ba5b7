------------------------- MODULE InvoiceImplements -------------------------
(***************************************************************************)
(* The handlers of InvoiceService, run one request at a time, implement    *)
(* InvoiceLifecycle, even if any of them is interrupted at any await.      *)
(***************************************************************************)
EXTENDS InvoiceService

(* A document's status is its stage; an _id that once was stored is gone.  *)
Stage(i) ==
    IF invoices[i] # None THEN invoices[i].status
    ELSE IF i \in known THEN "gone" ELSE "none"

MailedBy(i) == {r \in Requests : [by |-> r, name |-> "send-invoice", invoiceId |-> i] \in jobs}

Lifecycle ==
    INSTANCE InvoiceLifecycle WITH
        Invoices <- Requests,
        stage <- [i \in Requests |-> Stage(i)],
        mails <- [i \in Requests |-> MailedBy(i)]

(* The service keeps the promise: deleting, sending and emailing happen only  *)
(* to drafts, to drafts and once, and deleted invoices do not come back.      *)
KeepsLifecycle == Lifecycle!Spec

-----------------------------------------------------------------------------
(* Why it does, with one request at a time *)

(* At most one request is in flight. *)
OneInFlight == \A q, r \in Requests : InFlight(q) /\ InFlight(r) => q = r

(* What the guard of Find established is still true when its handler writes.  *)
FindStillHolds ==
    \A r \in Requests :
        /\ pc[r] \in {"write", "remove"} => /\ Doc(r) # None
                                            /\ ~Refused(Op(r), Doc(r).status)
        /\ pc[r] \in {"email", "pdf"} /\ Op(r) = "send" =>
              Doc(r) # None /\ Doc(r).status = "sent"

(* Emails are queued for sent invoices, and for one about to be emailed there *)
(* is none yet.                                                               *)
MailsAreForSent ==
    /\ \A i \in Requests : MailedBy(i) # {} => invoices[i] # None /\ invoices[i].status = "sent"
    /\ \A r \in Requests : pc[r] = "email" => MailedBy(Id(r)) = {}

(* An _id is known from its insert on, and a create inserts under its own _id. *)
KnownWereInserted ==
    /\ \A i \in Requests : invoices[i] # None => i \in known
    /\ \A r \in Requests :
         /\ pc[r] \in {"idle", "check", "insert"} => r \notin known
         /\ pc[r] # "idle" /\ Op(r) # "create" => Id(r) \in known

SerialInv == OneInFlight /\ FindStillHolds /\ MailsAreForSent /\ KnownWereInserted

=============================================================================
