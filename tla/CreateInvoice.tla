---------------------------- MODULE CreateInvoice ----------------------------
(***************************************************************************)
(* The create use case of the billing service: look for the number, build  *)
(* the aggregate, save it, publish its event, forget the event.  Calls     *)
(* overlap, a save or a publish may fail, and the process may stop between *)
(* two steps.  The index on the number refuses a second save of it.        *)
(***************************************************************************)
EXTENDS FiniteSets

CONSTANTS Calls, Numbers, None

VARIABLES
    call,    \* where each call is, and the number it was given
    store,   \* the invoices saved, each by the call that made it
    heard    \* the calls whose event reached the bus

vars == <<call, store, heard>>

At(c, step) == call[c].step = step
Go(c, step) == call' = [call EXCEPT ![c].step = step]

Init == call = [c \in Calls |-> [step |-> "idle", number |-> None]] /\ store = {} /\ heard = {}

Free(number) == \A d \in store : call[d].number # number

(* findByInvoiceNumber answers, and the aggregate is built or refused. *)
Find(c, number) ==
    /\ At(c, "idle")
    /\ \E valid \in BOOLEAN : call' = [call EXCEPT ![c] =
           [step |-> IF valid /\ Free(number) THEN "built" ELSE "refused",
            number |-> number]]
    /\ UNCHANGED <<store, heard>>

(* A step may take effect without its caller learning of it.                    *)
Outcome(c, step) == Go(c, step) \/ Go(c, "failed")

Bug_Published(c) == At(c, "built") /\ Outcome(c, "saved") /\ heard' = heard \cup {c} /\ UNCHANGED store
Save(c) ==
    /\ At(c, "built") /\ Free(call[c].number) /\ Outcome(c, "saved")
    /\ store' = store \cup {c}
    /\ UNCHANGED heard

Publish(c) == At(c, "saved") /\ Outcome(c, "published") /\ heard' = heard \cup {c} /\ UNCHANGED store
Answer(c) == At(c, "published") /\ Go(c, "answered") /\ UNCHANGED <<store, heard>>

(* A save or a publish throws, or the process stops. *)
Fail(c) == call[c].step \in {"built", "saved", "published"} /\ Go(c, "failed") /\ UNCHANGED <<store, heard>>

Next == \E c \in Calls :
    (\E n \in Numbers : Find(c, n)) \/ Save(c) \/ Publish(c) \/ Answer(c) \/ Fail(c)

Spec == Init /\ [][Next]_vars

-----------------------------------------------------------------------------
TypeOK == store \subseteq Calls /\ heard \subseteq Calls

(* Only saved invoices are heard of, an answer means both, and a number belongs  *)
(* to one invoice.  A saved invoice nobody heard of is one whose call failed:    *)
(* asking again does not help, the number is taken.                              *)
HeardIsStored ==
    /\ heard \subseteq store
    /\ \A c \in Calls : At(c, "answered") => c \in heard
    /\ \A c, d \in store : call[c].number = call[d].number => c = d
    /\ \A c \in store \ heard : At(c, "saved") \/ At(c, "failed")
=============================================================================
