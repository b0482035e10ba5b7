---------------------------- MODULE EventDelivery ----------------------------
(***************************************************************************)
(* What the event bus promises those who publish and those who subscribe.  *)
(* The events of a batch have their turn one after the other: the turn of  *)
(* an event ends when it is sent to the other processes.  A subscriber of  *)
(* the publisher's process hears an event during its turn, every           *)
(* subscriber may hear it once more when it was sent, and nobody hears     *)
(* anything before he joined or after he left.  A batch that succeeded was *)
(* sent entirely; one that failed is given up for good.                    *)
(***************************************************************************)
EXTENDS Integers, Sequences

CONSTANTS
    Handlers, Home,     \* the subscribers, and the process of each
    Calls, From, Batch  \* the batches, their processes and their events

VARIABLES
    subscribed, left,   \* who listens, and who did
    sent,               \* the events that left their process
    answer,             \* what the publisher of each batch was told
    heard               \* the hearings in their order: who, which event, and whether in his
                        \* process or from another

vars == <<subscribed, left, sent, answer, heard>>

Init ==
    /\ subscribed \subseteq Handlers
    /\ left = {} /\ sent = {} /\ heard = <<>>
    /\ answer = [c \in Calls |-> "none"]

Join(h) ==
    /\ h \notin subscribed \cup left
    /\ subscribed' = subscribed \cup {h}
    /\ UNCHANGED <<left, sent, answer, heard>>

Leave(h) ==
    /\ h \in subscribed
    /\ subscribed' = subscribed \ {h}
    /\ left' = left \cup {h}
    /\ UNCHANGED <<sent, answer, heard>>

(* The first event of the batch that was not sent, unless it was given up.     *)
Turn(c, n) == answer[c] = "none" /\ \A k \in DOMAIN Batch[c] : Batch[c][k] \in sent <=> k < n

Hear(h, e, via) ==
    LET hearing == [handler |-> h, event |-> e, via |-> via] IN
    /\ h \in subscribed
    /\ \A i \in 1..Len(heard) : heard[i] # hearing
    /\ heard' = Append(heard, hearing)
    /\ UNCHANGED <<subscribed, left, sent, answer>>

HearLocally(c, n, h) == Turn(c, n) /\ Home[h] = From[c] /\ Hear(h, Batch[c][n], "local")
HearRemotely(e, h) == e \in sent /\ Hear(h, e, "redis")

Send(c, n) ==
    /\ Turn(c, n)
    /\ sent' = sent \cup {Batch[c][n]}
    /\ UNCHANGED <<subscribed, left, answer, heard>>

Answer(c, told) ==
    /\ answer[c] = "none"
    /\ told = "ok" => \A k \in DOMAIN Batch[c] : Batch[c][k] \in sent
    /\ answer' = [answer EXCEPT ![c] = told]
    /\ UNCHANGED <<subscribed, left, sent, heard>>

Next ==
    \/ \E h \in Handlers : Join(h) \/ Leave(h) \/ \E e \in sent : HearRemotely(e, h)
    \/ \E c \in Calls :
          \/ \E told \in {"ok", "failed"} : Answer(c, told)
          \/ \E n \in DOMAIN Batch[c] : Send(c, n) \/ \E h \in Handlers : HearLocally(c, n, h)

Spec == Init /\ [][Next]_vars

=============================================================================
