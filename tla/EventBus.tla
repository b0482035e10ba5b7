------------------------------ MODULE EventBus ------------------------------
(***************************************************************************)
(* RedisEventBus, in every process that has one: publish calls the         *)
(* handlers of its own process one after the other and then sends the      *)
(* event to Redis; every process, the sender too, is subscribed to Redis   *)
(* and calls its handlers for each message.  Redis keeps nothing: what is  *)
(* sent while a process is not connected is lost to it.                    *)
(*                                                                         *)
(* The model follows the events of one name; names share nothing but the   *)
(* connection.  A handler is an async function: it starts when it is       *)
(* called, and the loop that called it waits for its end.                  *)
(***************************************************************************)
EXTENDS Integers, SequencesExt

CONSTANTS
    Procs,      \* processes with a bus
    Handlers,
    Home,       \* the process of each handler
    Calls,      \* calls of publishMany; publish is one with a single event
    From,       \* the process of each call
    Batch,      \* the events of each call, a sequence
    Initial,    \* the handlers that subscribed at start, in their order
    Leavers,    \* the handlers that may unsubscribe
    Rejecting,  \* whether Redis may reject a publish
    Unstable    \* the processes whose connection to Redis may break

ASSUME BusAssumption ==
    /\ Home \in [Handlers -> Procs] /\ From \in [Calls -> Procs]
    /\ Leavers \subseteq Handlers /\ Unstable \subseteq Procs /\ Rejecting \in BOOLEAN
    /\ Initial \in [Procs -> Seq(Handlers)]
    /\ \A p \in Procs : \A i, j \in 1..Len(Initial[p]) :
          Home[Initial[p][i]] = p /\ (Initial[p][i] = Initial[p][j] => i = j)
    /\ \A c \in Calls : Batch[c] \in Seq({Batch[c][k] : k \in DOMAIN Batch[c]}) \ {<<>>}
    /\ \A c, d \in Calls : \A k \in DOMAIN Batch[c], l \in DOMAIN Batch[d] :
          Batch[c][k] = Batch[d][l] => c = d /\ k = l

Events == UNION {{Batch[c][k] : k \in DOMAIN Batch[c]} : c \in Calls}

VARIABLES
    subs,       \* each process's handlers in the order they subscribed
    gone,       \* handlers that unsubscribed; none subscribes twice
    era,        \* how often each process's Set was dropped, empty, and made anew
    call,       \* where each call is, and its local loop
    sent,       \* the events Redis accepted
    linked,     \* the processes whose subscription to Redis is up
    inbox,      \* the messages on their way to each process
    loop,       \* each process's loop over its handlers for a message
    heard,      \* history: the calls of handlers, in order
    missed      \* history: the messages a broken connection lost, and to whom

vars == <<subs, gone, era, call, sent, linked, inbox, loop, heard, missed>>

(* A for-of loop over the live Set, awaiting each handler; in tells which Set. *)
Idle == [at |-> "idle", done |-> {}, in |-> 0]

Init ==
    /\ subs = Initial /\ gone = {}
    /\ era = [p \in Procs |-> 0]
    /\ call = [c \in Calls |-> [at |-> "idle", n |-> 1, done |-> {}, in |-> 0]]
    /\ sent = {} /\ linked = Procs
    /\ inbox = [p \in Procs |-> <<>>]
    /\ loop = [p \in Procs |-> [e \in Events |-> Idle]]
    /\ heard = <<>> /\ missed = {}

(* The handlers a loop at process p still calls; the next is the oldest.  A    *)
(* loop over a Set that was dropped sees no later handler.                     *)
Left(p, done, in) == {i \in 1..Len(subs[p]) : era[p] = in /\ subs[p][i] \notin done}
Following(p, done, in) == subs[p][CHOOSE i \in Left(p, done, in) : \A j \in Left(p, done, in) : i <= j]

Hear(h, e, via) == heard' = Append(heard, [handler |-> h, event |-> e, via |-> via])

-----------------------------------------------------------------------------
(* A Set keeps one of each.                                                    *)
Bug_ListInstead(h) == h \notin gone
Fresh(h) == h \notin gone /\ \A i \in 1..Len(subs[Home[h]]) : subs[Home[h]][i] # h

Subscribe(h) ==
    /\ Fresh(h)
    /\ subs' = [subs EXCEPT ![Home[h]] = Append(@, h)]
    /\ UNCHANGED <<gone, era, call, sent, linked, inbox, loop, heard, missed>>

Unsubscribe(h) ==
    /\ h \in Leavers
    /\ \E i \in 1..Len(subs[Home[h]]) :
          subs[Home[h]][i] = h /\ subs' = [subs EXCEPT ![Home[h]] = RemoveAt(@, i)]
    /\ gone' = gone \cup {h}
    /\ era' = [era EXCEPT ![Home[h]] = IF Len(subs[Home[h]]) = 1 THEN @ + 1 ELSE @]
    /\ UNCHANGED <<call, sent, linked, inbox, loop, heard, missed>>

-----------------------------------------------------------------------------
(* publish *)

Current(c) == Batch[c][call[c].n]

(* Call the next handler of the process, or go on to Redis.                    *)
LocalNext(c, n, done, in) ==
    LET at(label, seen) == call' = [call EXCEPT ![c] = [at |-> label, n |-> n, done |-> seen, in |-> in]] IN
    IF Left(From[c], done, in) = {} THEN at("redis", done) /\ UNCHANGED heard
    ELSE LET h == Following(From[c], done, in) IN
         at("local", done \cup {h}) /\ Hear(h, Batch[c][n], "local")

Broadcast(e) ==
    /\ sent' = sent \cup {e}
    /\ inbox' = [p \in Procs |-> IF p \in linked THEN Append(inbox[p], e) ELSE inbox[p]]

Bug_RedisFirst(c, n) == LocalNext(c, n, {}, era[From[c]]) /\ Broadcast(Batch[c][n])
Begin(c, n) == LocalNext(c, n, {}, era[From[c]]) /\ UNCHANGED <<sent, inbox>>

Publish(c) ==
    /\ call[c].at = "idle"
    /\ Begin(c, 1)
    /\ UNCHANGED <<subs, gone, era, linked, loop, missed>>

(* The awaited handler ends; whether it throws makes no difference.            *)
LocalStep(c) ==
    /\ call[c].at = "local"
    /\ LocalNext(c, call[c].n, call[c].done, call[c].in)
    /\ UNCHANGED <<subs, gone, era, sent, linked, inbox, loop, missed>>

RedisPublish(c) ==
    /\ call[c].at = "redis"
    /\ call' = [call EXCEPT ![c].at = "sent"]
    /\ \/ Broadcast(Current(c))
       \/ Rejecting /\ UNCHANGED <<sent, inbox>>
    /\ UNCHANGED <<subs, gone, era, linked, loop, heard, missed>>

End(c, at) == call' = [call EXCEPT ![c].at = at] /\ UNCHANGED <<sent, inbox, heard>>

(* publishMany publishes one event after the other.                            *)
More(c) == call[c].n < Len(Batch[c])

NextEvent(c) ==
    IF More(c) THEN Begin(c, call[c].n + 1) ELSE End(c, "ok")

(* A publish that rejects ends it.                                             *)
Bug_FailureSwallowed(c) == End(c, "ok")
Bug_FailureSkipped(c) == NextEvent(c)
AfterFailure(c) == End(c, "failed")

Answered(c) ==
    /\ call[c].at = "sent"
    /\ \/ Current(c) \in sent /\ NextEvent(c)
       \/ Rejecting /\ AfterFailure(c)
    /\ UNCHANGED <<subs, gone, era, linked, loop, missed>>

-----------------------------------------------------------------------------
(* the subscription to Redis *)

LoopNext(p, e, done, in) ==
    LET at(label, seen) == loop' = [loop EXCEPT ![p][e] = [at |-> label, done |-> seen, in |-> in]] IN
    IF Left(p, done, in) = {} THEN at("over", done) /\ UNCHANGED heard
    ELSE LET h == Following(p, done, in) IN at("running", done \cup {h}) /\ Hear(h, e, "redis")

(* The first handler is called before the next message is looked at.           *)
Bug_StartDeferred(p, e) == loop' = [loop EXCEPT ![p][e] = [at |-> "running", done |-> {}, in |-> era[p]]] /\ UNCHANGED heard
Start(p, e) == LoopNext(p, e, {}, era[p])

Receive(p) ==
    /\ inbox[p] # <<>>
    /\ inbox' = [inbox EXCEPT ![p] = Tail(@)]
    /\ Start(p, Head(inbox[p]))
    /\ UNCHANGED <<subs, gone, era, call, sent, linked, missed>>

(* Of the loops of several messages any one goes on, when its handler ends.    *)
Bug_FirstHandlerOnly(p, e) == loop' = [loop EXCEPT ![p][e].at = "over"] /\ UNCHANGED heard
Bug_LoopRestarts(p, e) == LoopNext(p, e, {}, era[p])
Resume(p, e) == LoopNext(p, e, loop[p][e].done, loop[p][e].in)

LoopStep(p, e) ==
    /\ loop[p][e].at = "running"
    /\ Resume(p, e)
    /\ UNCHANGED <<subs, gone, era, call, sent, linked, inbox, missed>>

Unlink(p) ==
    /\ p \in Unstable \cap linked
    /\ linked' = linked \ {p}
    /\ inbox' = [inbox EXCEPT ![p] = <<>>]
    /\ missed' = missed \cup {<<p, inbox[p][i]>> : i \in 1..Len(inbox[p])}
    /\ UNCHANGED <<subs, gone, era, call, sent, loop, heard>>

Relink(p) ==
    /\ p \notin linked
    /\ linked' = linked \cup {p}
    /\ UNCHANGED <<subs, gone, era, call, sent, inbox, loop, heard, missed>>

-----------------------------------------------------------------------------
Next ==
    \/ \E h \in Handlers : Subscribe(h) \/ Unsubscribe(h)
    \/ \E c \in Calls : Publish(c) \/ LocalStep(c) \/ RedisPublish(c) \/ Answered(c)
    \/ \E p \in Procs : Receive(p) \/ Unlink(p) \/ Relink(p)
    \/ \E p \in Procs, e \in Events : LoopStep(p, e)

Spec == Init /\ [][Next]_vars

(* Handlers end, commands are answered and messages arrive.                    *)
FairSpec ==
    /\ Spec
    /\ \A c \in Calls : WF_vars(LocalStep(c) \/ RedisPublish(c) \/ Answered(c))
    /\ \A p \in Procs : WF_vars(Receive(p))
    /\ \A p \in Procs, e \in Events : WF_vars(LoopStep(p, e))

-----------------------------------------------------------------------------
(* Properties *)

Paths == {"local", "redis"}
States == [at : {"idle", "running", "over"}, done : SUBSET Handlers, in : Nat]

TypeOK ==
    /\ subs \in [Procs -> Seq(Handlers)] /\ gone \subseteq Handlers /\ era \in [Procs -> Nat]
    /\ \A p \in Procs : \A i, j \in 1..Len(subs[p]) :
          Home[subs[p][i]] = p /\ subs[p][i] \notin gone /\ (subs[p][i] = subs[p][j] => i = j)
    /\ \A c \in Calls :
         /\ call[c].at \in {"idle", "local", "redis", "sent", "ok", "failed"}
         /\ call[c].n \in DOMAIN Batch[c] /\ call[c].done \subseteq Handlers /\ call[c].in \in Nat
    /\ sent \subseteq Events /\ linked \subseteq Procs
    /\ inbox \in [Procs -> Seq(Events)]
    /\ loop \in [Procs -> [Events -> States]]
    /\ heard \in Seq([handler : Handlers, event : Events, via : Paths])
    /\ missed \subseteq Procs \X Events

(* No handler is called twice for an event on the same path, though handlers   *)
(* come and go during the loops and connections break.                         *)
OncePerPath == \A i, j \in 1..Len(heard) : heard[i] = heard[j] => i = j

(* A process is done with an event before any other process hears of it: no    *)
(* handler is called from Redis before a local one of the same event.          *)
LocalFirst ==
    \A i, j \in 1..Len(heard) :
        heard[i].event = heard[j].event /\ heard[i].via = "redis" /\ heard[j].via = "local" => j < i

(* What reached Redis of a batch is a prefix of it, and all of it if           *)
(* publishMany returned: a failure leaves no gap.                              *)
NoGaps ==
    \A c \in Calls :
        /\ \A k, l \in DOMAIN Batch[c] : k < l /\ Batch[c][l] \in sent => Batch[c][k] \in sent
        /\ call[c].at = "ok" => \A k \in DOMAIN Batch[c] : Batch[c][k] \in sent

(* No event reaches a handler twice on one path, and none is left out of what a  *)
(* batch has sent, whatever fails in between.                                    *)
HeardOnceWithoutGaps == OncePerPath /\ NoGaps

(* The oldest handler of a process that none has left hears the events of a    *)
(* batch in their order, although the loops of several messages overlap.       *)
HeardAt(i, h, e, via) == heard[i] = [handler |-> h, event |-> e, via |-> via]
OldestHearsInOrder ==
    \A c \in Calls : \A k, l \in DOMAIN Batch[c] : \A p \in Procs : \A i, j \in 1..Len(heard) :
        /\ k < l /\ subs[p] # <<>> /\ \A h \in gone : Home[h] # p
        /\ HeardAt(i, Head(subs[p]), Batch[c][k], "redis")
        /\ HeardAt(j, Head(subs[p]), Batch[c][l], "redis")
        => i < j

(* What order the overlapping loops of a process keep.                         *)
HeardInOrder == LocalFirst /\ OldestHearsInOrder

(* Whatever fails, publishMany ends; a handler that stays hears from its own   *)
(* process each event it was subscribed for when the loop began, or joined the *)
(* Set of; and every message on its way to it, unless the connection breaks.   *)
HeardFrom(h, e, via) == \E i \in 1..Len(heard) : HeardAt(i, h, e, via)
Subscribed(h) == \E i \in 1..Len(subs[Home[h]]) : subs[Home[h]][i] = h
OnItsWay(p, e) == \E i \in 1..Len(inbox[p]) : inbox[p][i] = e

EventuallyHeard ==
    /\ \A c \in Calls : call[c].at # "idle" ~> call[c].at \in {"ok", "failed"}
    /\ \A c \in Calls : \A h \in {g \in Handlers \ Leavers : Home[g] = From[c]}, k \in DOMAIN Batch[c] :
         (call[c].at = "local" /\ call[c].n = k /\ Subscribed(h) /\ call[c].in = era[Home[h]])
            ~> HeardFrom(h, Batch[c][k], "local")
    /\ \A h \in Handlers \ Leavers, e \in Events :
         (Subscribed(h) /\ OnItsWay(Home[h], e))
            ~> (HeardFrom(h, e, "redis") \/ <<Home[h], e>> \in missed)

=============================================================================
