--------------------------- MODULE EventBusProofs ---------------------------
(***************************************************************************)
(* What a handler hears of the event bus, for any processes, handlers and  *)
(* batches, while handlers come and go, connections break and Redis        *)
(* rejects what it likes.                                                  *)
(***************************************************************************)
EXTENDS EventBusImplements, TLAPS, WellFoundedInduction

CallStates == [at : {"idle", "local", "redis", "sent", "ok", "failed"}, n : Nat,
               done : SUBSET Handlers, in : Nat]
Hearings == [handler : Handlers, event : Events, via : Paths]

(* TypeOK, and where each call is.                                             *)
Typed == TypeOK /\ call \in [Calls -> CallStates]

(* The events of a batch that Redis has are those before the current one, and  *)
(* the current one no earlier than its call to Redis.                          *)
SentInOrder ==
    \A c \in Calls :
        /\ call[c].at = "idle" => call[c].n = 1
        /\ call[c].at = "ok" => call[c].n = Len(Batch[c]) /\ Current(c) \in sent
        /\ call[c].at \in {"idle", "local", "redis"} => Current(c) \notin sent
        /\ \A k \in DOMAIN Batch[c] : /\ k < call[c].n => Batch[c][k] \in sent
                                      /\ k > call[c].n => Batch[c][k] \notin sent

(* The local handlers that heard an event are those of a loop that is over, or *)
(* that the loop is done with.                                                 *)
HeardFromCall ==
    \A i \in 1..Len(heard), c \in Calls : \A k \in DOMAIN Batch[c] :
        heard[i].via = "local" /\ heard[i].event = Batch[c][k] =>
            /\ call[c].at # "idle" /\ k <= call[c].n
            /\ k = call[c].n => heard[i].handler \in call[c].done

(* A message that is on its way was sent, is there once and has no loop yet.   *)
MessagesOnce ==
    /\ \A p \in Procs, e \in Events :
         /\ loop[p][e].at # "idle" => e \in sent
         /\ loop[p][e].at = "idle" => loop[p][e].done = {}
    /\ \A p \in Procs : \A i \in 1..Len(inbox[p]) :
         /\ inbox[p][i] \in sent /\ loop[p][inbox[p][i]].at = "idle"
         /\ \A j \in 1..Len(inbox[p]) : inbox[p][i] = inbox[p][j] => i = j

(* Whoever heard a message is one its loop is done with, and subscribed once.  *)
DoneBefore(h, e) == h \in loop[Home[h]][e].done /\ (h \in gone \/ Subscribed(h))
HeardFromLoop == \A i \in 1..Len(heard) : heard[i].via = "redis" => DoneBefore(heard[i].handler, heard[i].event)

(* The messages of a batch come to a process in its order: those on their way, *)
(* and after those whose loop has begun.                                       *)
InboxInOrder ==
    \A p \in Procs, c \in Calls : \A k, l \in DOMAIN Batch[c] : \A i \in 1..Len(inbox[p]) :
        k < l /\ inbox[p][i] = Batch[c][k] =>
            /\ loop[p][Batch[c][l]].at = "idle"
            /\ \A j \in 1..Len(inbox[p]) : inbox[p][j] = Batch[c][l] => i < j

(* Where none has left, a loop is done with the oldest handler first.          *)
AllStay(p) == \A h \in gone : Home[h] # p
OldestIsFirst ==
    \A p \in Procs, e \in Events :
        loop[p][e].at = "running" /\ AllStay(p) => subs[p] # <<>> /\ Head(subs[p]) \in loop[p][e].done

Inv ==
    /\ Typed /\ SentInOrder /\ HeardFromCall /\ MessagesOnce /\ HeardFromLoop
    /\ InboxInOrder /\ OldestIsFirst
    /\ OncePerPath /\ LocalFirst /\ OldestHearsInOrder

-----------------------------------------------------------------------------
(* The type of the state in three parts: a step disturbs one of them. *)
SubsTyped(ss, left, eras) ==
    /\ ss \in [Procs -> Seq(Handlers)] /\ left \subseteq Handlers /\ eras \in [Procs -> Nat]
    /\ \A p \in Procs : \A i, j \in 1..Len(ss[p]) :
          Home[ss[p][i]] = p /\ ss[p][i] \notin left /\ (ss[p][i] = ss[p][j] => i = j)
CallsTyped(calls) ==
    \A c \in Calls :
      /\ calls[c].at \in {"idle", "local", "redis", "sent", "ok", "failed"}
      /\ calls[c].n \in DOMAIN Batch[c] /\ calls[c].done \subseteq Handlers /\ calls[c].in \in Nat
MessagesTyped(out, up, boxes, loops, calls, lost) ==
    /\ out \subseteq Events /\ up \subseteq Procs /\ boxes \in [Procs -> Seq(Events)]
    /\ loops \in [Procs -> [Events -> States]]
    /\ calls \in Seq([handler : Handlers, event : Events, via : Paths])
    /\ lost \subseteq Procs \X Events

LEMMA TypeParts ==
    TypeOK <=> /\ SubsTyped(subs, gone, era) /\ CallsTyped(call)
               /\ MessagesTyped(sent, linked, inbox, loop, heard, missed)
BY Zenon DEF TypeOK, SubsTyped, CallsTyped, MessagesTyped

(* Handlers at the end of a list, or without the one at i. *)
IsAppended(s, x, t) ==
    /\ t \in Seq(Handlers) /\ Len(s) \in Nat /\ Len(t) = Len(s) + 1
    /\ \A i \in 1..Len(t) : (i \in 1..Len(s) /\ t[i] = s[i]) \/ (i = Len(s) + 1 /\ t[i] = x)
    /\ \A i \in 1..Len(s) : i \in 1..Len(t) /\ t[i] = s[i]
    /\ s # <<>> => t # <<>> /\ Head(t) = Head(s)
    /\ s = <<>> => Head(t) = x
IsCut(s, i, t) ==
    /\ t \in Seq(Handlers) /\ Len(t) = Len(s) - 1 /\ Len(s) \in Nat
    /\ \A j \in 1..Len(s) - 1 : t[j] = IF j < i THEN s[j] ELSE s[j + 1]

LEMMA AppendedTo == \A s \in Seq(Handlers), x \in Handlers : IsAppended(s, x, Append(s, x))
BY DEF IsAppended

(* What was heard stays explained and in order while nobody hears anything. *)
LEMMA SameHeard == ASSUME HeardFromLoop, UNCHANGED <<subs, gone, loop, heard>> PROVE HeardFromLoop'
BY DEF HeardFromLoop, DoneBefore, Subscribed

LEMMA SameOrder == ASSUME OldestHearsInOrder, UNCHANGED <<subs, gone, heard>> PROVE OldestHearsInOrder'
BY DEF OldestHearsInOrder, HeardAt

LEMMA OrderNow ==
    ASSUME \A c \in Calls : \A k, l \in DOMAIN Batch[c] : \A p \in Procs : \A i, j \in 1..Len(heard') :
             /\ k < l /\ subs'[p] # <<>> /\ \A h \in gone' : Home[h] # p
             /\ HeardAt(i, Head(subs[p]), Batch[c][k], "redis")'
             /\ HeardAt(j, Head(subs[p]), Batch[c][l], "redis")'
             => i < j
    PROVE  OldestHearsInOrder'
BY DEF OldestHearsInOrder

(* A loop goes to the oldest of the handlers that are left. *)
LEMMA LeastOf ==
    ASSUME NEW S, S \subseteq Nat, S # {}
    PROVE  \E i \in S : \A j \in S : i <= j
<1> DEFINE Less == {ss \in Nat \X Nat : ss[1] < ss[2]}
<1>1. IsWellFoundedOn(Less, Nat)
  BY NatLessThanWellFounded, Zenon DEF OpToRel
<1>3. \A j, k \in Nat : j < k => <<j, k>> \in Less
  OBVIOUS
<1> HIDE DEF Less
<1>2. PICK i \in S : \A j \in S : <<j, i>> \notin Less
  BY <1>1, WFMin, Zenon
<1>4. ASSUME NEW j \in S PROVE i <= j
  <2>1. i \in Nat /\ j \in Nat /\ <<j, i>> \notin Less
    BY <1>2
  <2>2. ~(j < i)
    BY <1>3, <2>1, Zenon
  <2> QED
    BY <2>1, <2>2
<1> QED
  BY <1>4

LEMMA FollowingIs ==
    ASSUME NEW p \in Procs, NEW done, NEW in, subs[p] \in Seq(Handlers), Left(p, done, in) # {}
    PROVE  \E i \in Left(p, done, in) : /\ Following(p, done, in) = subs[p][i]
                                        /\ \A j \in Left(p, done, in) : i <= j
<1>1. Left(p, done, in) \subseteq Nat
  BY DEF Left
<1>2. \E i \in Left(p, done, in) : \A j \in Left(p, done, in) : i <= j
  BY <1>1, LeastOf
<1> HIDE DEF Left
<1> QED
  BY <1>2, Zenon DEF Following

(* What a loop of process p does next: it is over, or it calls one of the      *)
(* handlers that are left.                                                     *)
NextHandler(p, done, in, h) ==
    /\ h \in Handlers /\ h \notin done /\ Home[h] = p
    /\ \E i \in 1..Len(subs[p]) : subs[p][i] = h
    /\ done = {} => h = Head(subs[p])

LEMMA FollowingSubscribed ==
    ASSUME BusAssumption, TypeOK, NEW p \in Procs, NEW done, NEW in, Left(p, done, in) # {}
    PROVE  NextHandler(p, done, in, Following(p, done, in))
<1>1. subs[p] \in Seq(Handlers)
  BY DEF TypeOK
<1>2. PICK i \in Left(p, done, in) : /\ Following(p, done, in) = subs[p][i]
                                     /\ \A j \in Left(p, done, in) : i <= j
  BY <1>1, FollowingIs
<1>3. i \in 1..Len(subs[p]) /\ era[p] = in /\ subs[p][i] \notin done
  BY <1>2 DEF Left
<1>6. \A m \in 1..Len(subs[p]) : Home[subs[p][m]] = p
  BY DEF TypeOK
<1>4. subs[p][i] \in Handlers /\ Home[subs[p][i]] = p
  BY <1>1, <1>3, <1>6
<1>5. ASSUME done = {} PROVE subs[p][i] = Head(subs[p])
  <2>1. 1 \in Left(p, done, in)
    BY <1>1, <1>3, <1>5 DEF Left
  <2>2. i = 1
    BY <2>1, <1>2, <1>3
  <2> QED
    BY <2>2, <1>1
<1> QED
  BY <1>2, <1>3, <1>4, <1>5 DEF NextHandler

LEMMA LocalNextIs ==
    ASSUME BusAssumption, TypeOK, NEW c \in Calls, NEW n, NEW done, NEW in, LocalNext(c, n, done, in)
    PROVE  \/ /\ call' = [call EXCEPT ![c] = [at |-> "redis", n |-> n, done |-> done, in |-> in]]
              /\ heard' = heard
           \/ \E h : /\ NextHandler(From[c], done, in, h)
                     /\ call' = [call EXCEPT ![c] = [at |-> "local", n |-> n, done |-> done \cup {h}, in |-> in]]
                     /\ Hear(h, Batch[c][n], "local")
<1>1. From[c] \in Procs
  BY DEF BusAssumption
<1>2. CASE Left(From[c], done, in) = {}
  BY <1>2, Zenon DEF LocalNext
<1>3. CASE Left(From[c], done, in) # {}
  <2>1. NextHandler(From[c], done, in, Following(From[c], done, in))
    BY <1>1, <1>3, FollowingSubscribed
  <2> QED
    BY <2>1, <1>3, Zenon DEF LocalNext
<1> QED
  BY <1>2, <1>3

LEMMA LoopNextIs ==
    ASSUME BusAssumption, TypeOK, NEW p \in Procs, NEW e, NEW done, NEW in, LoopNext(p, e, done, in)
    PROVE  \/ /\ loop' = [loop EXCEPT ![p][e] = [at |-> "over", done |-> done, in |-> in]]
              /\ heard' = heard
           \/ \E h : /\ NextHandler(p, done, in, h)
                     /\ loop' = [loop EXCEPT ![p][e] = [at |-> "running", done |-> done \cup {h}, in |-> in]]
                     /\ Hear(h, e, "redis")
<1>1. CASE Left(p, done, in) = {}
  BY <1>1, Zenon DEF LoopNext
<1>2. CASE Left(p, done, in) # {}
  <2>1. NextHandler(p, done, in, Following(p, done, in))
    BY <1>2, FollowingSubscribed
  <2> QED
    BY <2>1, <1>2, Zenon DEF LoopNext
<1> QED
  BY <1>1, <1>2

(* Another call of a handler at the end of heard. *)
LEMMA Hears ==
    ASSUME TypeOK, NEW h \in Handlers, NEW e \in Events, NEW via \in Paths, Hear(h, e, via)
    PROVE  /\ heard' \in Seq(Hearings) /\ Len(heard') = Len(heard) + 1 /\ Len(heard) \in Nat
           /\ \A i \in 1..Len(heard) : heard'[i] = heard[i] /\ heard[i] \in Hearings
           /\ heard'[Len(heard')] = [handler |-> h, event |-> e, via |-> via]
<1>1. heard \in Seq(Hearings)
  BY DEF TypeOK, Hearings
<1> DEFINE r == [handler |-> h, event |-> e, via |-> via]
<1>2. r \in Hearings
  BY DEF Hearings
<1> HIDE DEF r
<1>3. heard' = Append(heard, r)
  BY DEF Hear, r
<1>4. /\ heard' \in Seq(Hearings) /\ Len(heard') = Len(heard) + 1 /\ Len(heard) \in Nat
      /\ \A i \in 1..Len(heard) : heard'[i] = heard[i] /\ heard[i] \in Hearings
      /\ heard'[Len(heard')] = r
  BY <1>1, <1>2, <1>3
<1> QED
  BY <1>4 DEF r

(* The events of the batches, each at one place. *)
EventsOf(c) == {Batch[c][k] : k \in DOMAIN Batch[c]}

LEMMA EventPlaces ==
    ASSUME BusAssumption
    PROVE  /\ \A e \in Events : \E c \in Calls : \E k \in DOMAIN Batch[c] : e = Batch[c][k]
           /\ \A c \in Calls : /\ Len(Batch[c]) \in Nat \ {0} /\ DOMAIN Batch[c] = 1..Len(Batch[c])
                               /\ \A k \in DOMAIN Batch[c] : Batch[c][k] \in Events
<1>1. ASSUME NEW c \in Calls
      PROVE  Len(Batch[c]) \in Nat \ {0} /\ DOMAIN Batch[c] = 1..Len(Batch[c])
  <2> DEFINE S == {Batch[c][k] : k \in DOMAIN Batch[c]}
  <2>1. Batch[c] \in Seq(S) /\ Batch[c] # <<>>
    BY DEF BusAssumption
  <2> HIDE DEF S
  <2> QED
    BY <2>1
<1>4. Events = UNION {EventsOf(c) : c \in Calls}
  BY Zenon DEF Events, EventsOf
<1>2. ASSUME NEW c \in Calls, NEW k \in DOMAIN Batch[c] PROVE Batch[c][k] \in Events
  <2>1. Batch[c][k] \in EventsOf(c)
    BY DEF EventsOf
  <2>2. EventsOf(c) \in {EventsOf(d) : d \in Calls}
    OBVIOUS
  <2> QED
    BY <2>1, <2>2, <1>4
<1>3. ASSUME NEW e \in Events PROVE \E c \in Calls : \E k \in DOMAIN Batch[c] : e = Batch[c][k]
  <2>1. PICK S \in {EventsOf(c) : c \in Calls} : e \in S
    BY <1>4
  <2>2. PICK c \in Calls : S = EventsOf(c)
    OBVIOUS
  <2> QED
    BY <2>1, <2>2 DEF EventsOf
<1> QED
  BY <1>1, <1>2, <1>3

LEMMA OnePlace ==
    ASSUME BusAssumption
    PROVE  \A c, d \in Calls : \A k \in DOMAIN Batch[c], l \in DOMAIN Batch[d] :
              Batch[c][k] = Batch[d][l] => c = d /\ k = l
BY DEF BusAssumption

(* Where a loop over the local handlers may be taken up. *)
MayCall(c, n, done, in) ==
    /\ n \in DOMAIN Batch[c] /\ done \subseteq Handlers /\ in \in Nat
    /\ \A k \in DOMAIN Batch[c] : k < n <=> Batch[c][k] \in sent
    /\ \A i \in 1..Len(heard) : \A k \in DOMAIN Batch[c] :
          heard[i].via = "local" /\ heard[i].event = Batch[c][k] =>
              k <= n /\ (k = n => heard[i].handler \in done)

LEMMA LocalKeeps ==
    ASSUME BusAssumption, Inv, NEW c \in Calls, NEW n, NEW done, NEW in, MayCall(c, n, done, in),
           LocalNext(c, n, done, in), UNCHANGED <<subs, gone, era, sent, linked, inbox, loop, missed>>
    PROVE  Inv'
<1>a. /\ Typed /\ SentInOrder /\ HeardFromCall /\ MessagesOnce /\ HeardFromLoop
      /\ InboxInOrder /\ OldestIsFirst /\ OncePerPath /\ LocalFirst /\ OldestHearsInOrder
  BY DEF Inv
<1>b. TypeOK /\ n \in 1..Len(Batch[c]) /\ Len(Batch[c]) \in Nat /\ Batch[c][n] \in Events
  BY <1>a, EventPlaces DEF Typed, MayCall
<1>c. /\ done \subseteq Handlers /\ in \in Nat
      /\ Batch[c][n] \notin sent
  <2>1. Batch[c][n] \in sent <=> n < n
    BY DEF MayCall
  <2> QED
    BY <2>1, <1>b DEF MayCall
<1>0. TypeOK /\ Batch[c][n] \in Events /\ Batch[c][n] \notin sent /\ n \in 1..Len(Batch[c]) /\ Len(Batch[c]) \in Nat
  BY <1>b, <1>c
<1>1. PICK r \in CallStates :
          /\ call' = [call EXCEPT ![c] = r]
          /\ r.at \in {"local", "redis"} /\ r.n = n /\ done \subseteq r.done
          /\ \/ heard' = heard
             \/ \E h \in Handlers : /\ Home[h] = From[c] /\ h \notin done /\ h \in r.done
                                    /\ Hear(h, Batch[c][n], "local")
  <2>1. CASE \E h : /\ NextHandler(From[c], done, in, h)
                    /\ call' = [call EXCEPT ![c] = [at |-> "local", n |-> n, done |-> done \cup {h}, in |-> in]]
                    /\ Hear(h, Batch[c][n], "local")
    <3>1. PICK h : /\ NextHandler(From[c], done, in, h)
                   /\ call' = [call EXCEPT ![c] = [at |-> "local", n |-> n, done |-> done \cup {h}, in |-> in]]
                   /\ Hear(h, Batch[c][n], "local")
      BY <2>1
    <3> DEFINE r == [at |-> "local", n |-> n, done |-> done \cup {h}, in |-> in]
    <3>2. h \in Handlers /\ h \notin done /\ Home[h] = From[c]
      BY <3>1 DEF NextHandler
    <3>3. r \in CallStates /\ r.at = "local" /\ r.n = n /\ r.done = done \cup {h}
      BY <3>2, <1>0 DEF MayCall, CallStates
    <3>4. call' = [call EXCEPT ![c] = r]
      BY <3>1
    <3> HIDE DEF r
    <3> QED
      BY <3>1, <3>2, <3>3, <3>4
  <2>2. CASE /\ call' = [call EXCEPT ![c] = [at |-> "redis", n |-> n, done |-> done, in |-> in]]
             /\ heard' = heard
    <3> DEFINE r == [at |-> "redis", n |-> n, done |-> done, in |-> in]
    <3>3. r \in CallStates /\ r.at = "redis" /\ r.n = n /\ r.done = done
      BY <1>0 DEF MayCall, CallStates
    <3>4. call' = [call EXCEPT ![c] = r]
      BY <2>2
    <3> HIDE DEF r
    <3> QED
      BY <2>2, <3>3, <3>4
  <2>3. \/ /\ call' = [call EXCEPT ![c] = [at |-> "redis", n |-> n, done |-> done, in |-> in]]
           /\ heard' = heard
        \/ \E h : /\ NextHandler(From[c], done, in, h)
                  /\ call' = [call EXCEPT ![c] = [at |-> "local", n |-> n, done |-> done \cup {h}, in |-> in]]
                  /\ Hear(h, Batch[c][n], "local")
    <3>1. TypeOK
      BY <1>0
    <3> QED
      BY <3>1, LocalNextIs
  <2> QED
    BY <2>1, <2>2, <2>3, Zenon
<1>2. /\ call' \in [Calls -> CallStates] /\ call'[c] = r
      /\ \A d \in Calls : d # c => call'[d] = call[d]
  BY <1>1, <1>a DEF Typed
<1>3. /\ heard' \in Seq(Hearings) /\ Len(heard) \in Nat
      /\ \A i \in 1..Len(heard') :
            \/ i \in 1..Len(heard) /\ heard'[i] = heard[i] /\ heard[i] \in Hearings
            \/ /\ i = Len(heard) + 1
               /\ heard'[i].via = "local" /\ heard'[i].event = Batch[c][n]
               /\ heard'[i].handler \in r.done \ done /\ heard'[i].handler \in Handlers
  <2>1. CASE heard' = heard
    <3>1. heard \in Seq(Hearings)
      BY <1>0 DEF TypeOK, Hearings
    <3>2. \A i \in 1..Len(heard) : heard[i] \in Hearings
      BY <3>1
    <3> QED
      BY <2>1, <3>1, <3>2
  <2>2. CASE heard' # heard
    <3>1. PICK h \in Handlers : h \notin done /\ h \in r.done /\ Hear(h, Batch[c][n], "local")
      BY <1>1, <2>2
    <3>2. /\ heard' \in Seq(Hearings) /\ Len(heard') = Len(heard) + 1 /\ Len(heard) \in Nat
          /\ \A i \in 1..Len(heard) : heard'[i] = heard[i] /\ heard[i] \in Hearings
          /\ heard'[Len(heard')] = [handler |-> h, event |-> Batch[c][n], via |-> "local"]
      BY <1>0, <3>1, Hears DEF Paths
    <3> QED
      BY <3>1, <3>2
  <2> QED
    BY <2>1, <2>2
<1>d. \A i \in 1..Len(heard') : heard'[i].via = "redis" => i \in 1..Len(heard) /\ heard'[i] = heard[i]
  BY <1>3
<1>e. \A d \in Calls : \A k \in DOMAIN Batch[d] : Batch[d][k] = Batch[c][n] => d = c /\ k = n
  <2>1. n \in DOMAIN Batch[c]
    BY DEF MayCall
  <2> QED
    BY <2>1, OnePlace
<1>4. Typed'
  <2>1. heard' \in Seq([handler : Handlers, event : Events, via : Paths])
    BY <1>3 DEF Hearings
  <2>2. \A d \in Calls :
         /\ call'[d].at \in {"idle", "local", "redis", "sent", "ok", "failed"}
         /\ call'[d].n \in DOMAIN Batch[d] /\ call'[d].done \subseteq Handlers /\ call'[d].in \in Nat
    <3>1. r.n \in DOMAIN Batch[c]
      BY <1>1 DEF MayCall
    <3> QED
      BY <3>1, <1>0, <1>1, <1>2 DEF TypeOK, CallStates
  <2>3. SubsTyped(subs', gone', era') /\ MessagesTyped(sent, linked, inbox, loop, heard, missed)
    BY <1>0, TypeParts
  <2>4. MessagesTyped(sent', linked', inbox', loop', heard', missed')
    BY <2>1, <2>3, Zenon DEF MessagesTyped
  <2>5. CallsTyped(call')
    BY <2>2 DEF CallsTyped
  <2>6. TypeOK'
    BY <2>3, <2>4, <2>5, Zenon DEF TypeOK, SubsTyped, CallsTyped, MessagesTyped
  <2> QED
    BY <2>6, <1>2 DEF Typed
<1>5. SentInOrder'
  BY <1>a, <1>0, <1>1, <1>2 DEF SentInOrder, MayCall, Current
<1>6. HeardFromCall'
  <2> SUFFICES ASSUME NEW i \in 1..Len(heard'), NEW d \in Calls, NEW k \in DOMAIN Batch[d],
                      heard'[i].via = "local", heard'[i].event = Batch[d][k]
               PROVE  /\ call'[d].at # "idle" /\ k <= call'[d].n
                      /\ k = call'[d].n => heard'[i].handler \in call'[d].done
    BY DEF HeardFromCall
  <2>1. CASE i \in 1..Len(heard) /\ heard'[i] = heard[i]
    <3>1. CASE d = c
      <4>1. k <= n /\ (k = n => heard[i].handler \in done)
        BY <3>1, <2>1 DEF MayCall
      <4>2. call'[d] = r /\ r.at # "idle" /\ r.n = n /\ done \subseteq r.done
        BY <3>1, <1>1, <1>2
      <4> QED
        BY <4>1, <4>2, <2>1
    <3>2. CASE d # c
      <4>1. call'[d] = call[d] /\ heard[i].via = "local" /\ heard[i].event = Batch[d][k]
        BY <3>2, <2>1, <1>2
      <4> QED
        BY <4>1, <2>1, <1>a DEF HeardFromCall
    <3> QED
      BY <3>1, <3>2
  <2>2. CASE heard'[i].event = Batch[c][n] /\ heard'[i].handler \in r.done
    <3>1. d = c /\ k = n
      BY <2>2, <1>e
    <3> QED
      BY <3>1, <2>2, <1>0, <1>1, <1>2
  <2> QED
    BY <2>1, <2>2, <1>3
<1>7. MessagesOnce' /\ InboxInOrder' /\ OldestIsFirst'
  BY <1>a DEF MessagesOnce, InboxInOrder, OldestIsFirst, AllStay
<1>8. HeardFromLoop'
  <2>1. \A h, e : DoneBefore(h, e)' = DoneBefore(h, e)
    BY DEF DoneBefore, Subscribed
  <2> QED
    BY <1>a, <1>d, <2>1 DEF HeardFromLoop
<1>9. OncePerPath'
  <2> SUFFICES ASSUME NEW i \in 1..Len(heard'), NEW j \in 1..Len(heard'), heard'[i] = heard'[j]
               PROVE  i = j
    BY DEF OncePerPath
  <2>1. \A m \in 1..Len(heard) : heard[m].via = "local" /\ heard[m].event = Batch[c][n] => heard[m].handler \in done
    BY <1>0 DEF MayCall
  <2> QED
    BY <2>1, <1>a, <1>3 DEF OncePerPath
<1>10. LocalFirst'
  <2> SUFFICES ASSUME NEW i \in 1..Len(heard'), NEW j \in 1..Len(heard'),
                      heard'[i].event = heard'[j].event, heard'[i].via = "redis", heard'[j].via = "local"
               PROVE  j < i
    BY DEF LocalFirst
  <2>1. i \in 1..Len(heard) /\ heard'[i] = heard[i] /\ heard[i] \in Hearings
    BY <1>3
  <2>2. heard[i].event # Batch[c][n]
    <3> DEFINE h == heard[i].handler
    <3>1. h \in loop[Home[h]][heard[i].event].done /\ h \in Handlers /\ heard[i].event \in Events
      BY <1>a, <2>1 DEF HeardFromLoop, DoneBefore, Hearings
    <3>2. loop[Home[h]][heard[i].event].at # "idle"
      BY <3>1, <1>a DEF MessagesOnce, BusAssumption
    <3>3. heard[i].event \in sent
      BY <3>1, <3>2, <1>a DEF MessagesOnce, BusAssumption
    <3> QED
      BY <3>3, <1>0
  <2>3. j \in 1..Len(heard) /\ heard'[j] = heard[j]
    BY <2>1, <2>2, <1>3
  <2> QED
    BY <2>1, <2>3, <1>a DEF LocalFirst
<1>11. OldestHearsInOrder'
  <2> SUFFICES ASSUME NEW d \in Calls, NEW k \in DOMAIN Batch[d], NEW l \in DOMAIN Batch[d], NEW p \in Procs,
                      NEW i \in 1..Len(heard'), NEW j \in 1..Len(heard'),
                      k < l, subs'[p] # <<>>, \A h \in gone' : Home[h] # p,
                      HeardAt(i, Head(subs[p]), Batch[d][k], "redis")',
                      HeardAt(j, Head(subs[p]), Batch[d][l], "redis")'
               PROVE  i < j
    BY OrderNow
  <2>1. i \in 1..Len(heard) /\ heard'[i] = heard[i] /\ j \in 1..Len(heard) /\ heard'[j] = heard[j]
    BY <1>d DEF HeardAt
  <2> QED
    BY <2>1, <1>a DEF OldestHearsInOrder, HeardAt
<1> QED
  BY <1>4, <1>5, <1>6, <1>7, <1>8, <1>9, <1>10, <1>11 DEF Inv

(* Where the loop of process p over its handlers for message e may be taken    *)
(* up, and what is left on its way then.                                       *)
MayLoop(p, e, done, in) ==
    /\ e \in sent /\ done \subseteq Handlers /\ in \in Nat /\ loop[p][e].done \subseteq done
    /\ \A i \in 1..Len(heard) :
          heard[i].via = "redis" /\ heard[i].event = e /\ Home[heard[i].handler] = p => heard[i].handler \in done
    /\ done # {} /\ AllStay(p) => subs[p] # <<>> /\ Head(subs[p]) \in done
    /\ AllStay(p) /\ Head(subs[p]) \notin done =>
          \A c \in Calls : \A k, l \in DOMAIN Batch[c] : k < l /\ Batch[c][k] = e => loop[p][Batch[c][l]].at = "idle"

LeftInInbox(p, e) ==
    /\ inbox' \in [Procs -> Seq(Events)] /\ \A q \in Procs : q # p => inbox'[q] = inbox[q]
    /\ \E o \in {0, 1} : \A i \in 1..Len(inbox'[p]) :
          /\ i + o \in 1..Len(inbox[p]) /\ inbox'[p][i] = inbox[p][i + o] /\ inbox'[p][i] # e
          /\ \A c \in Calls : \A k, l \in DOMAIN Batch[c] : k < l /\ Batch[c][l] = e => inbox'[p][i] # Batch[c][k]

(* The loop goes on, to r: it hears from one handler more, or is over. *)
LoopMoved(p, e, done, r) ==
    /\ loop' = [loop EXCEPT ![p][e] = r]
    /\ r.at \in {"running", "over"} /\ done \subseteq r.done
    /\ r.at = "running" /\ done = {} => subs[p] # <<>> /\ Head(subs[p]) \in r.done
    /\ heard' \in Seq(Hearings) /\ Len(heard) \in Nat
    /\ \A i \in 1..Len(heard') :
          \/ i \in 1..Len(heard) /\ heard'[i] = heard[i] /\ heard[i] \in Hearings
          \/ /\ i = Len(heard) + 1
             /\ heard'[i].via = "redis" /\ heard'[i].event = e
             /\ heard'[i].handler \in r.done \ done /\ heard'[i].handler \in Handlers
             /\ Home[heard'[i].handler] = p /\ Subscribed(heard'[i].handler)

LEMMA LoopMoves ==
    ASSUME BusAssumption, TypeOK, NEW p \in Procs, NEW e \in Events, NEW done, NEW in, MayLoop(p, e, done, in),
           LoopNext(p, e, done, in)
    PROVE  \E r \in States : LoopMoved(p, e, done, r)
<1>1. CASE \E h : /\ NextHandler(p, done, in, h)
                  /\ loop' = [loop EXCEPT ![p][e] = [at |-> "running", done |-> done \cup {h}, in |-> in]]
                  /\ Hear(h, e, "redis")
  <2>1. PICK h : /\ NextHandler(p, done, in, h)
                 /\ loop' = [loop EXCEPT ![p][e] = [at |-> "running", done |-> done \cup {h}, in |-> in]]
                 /\ Hear(h, e, "redis")
    BY <1>1
  <2> DEFINE r == [at |-> "running", done |-> done \cup {h}, in |-> in]
  <2>2. h \in Handlers /\ h \notin done /\ Home[h] = p /\ Subscribed(h) /\ (done = {} => h = Head(subs[p]))
    BY <2>1 DEF NextHandler, Subscribed
  <2>3. r \in States /\ r.at = "running" /\ r.done = done \cup {h}
    BY <2>2 DEF MayLoop, States
  <2>4. loop' = [loop EXCEPT ![p][e] = r]
    BY <2>1
  <2> HIDE DEF r
  <2>5. subs[p] # <<>>
    <3>1. PICK i \in 1..Len(subs[p]) : subs[p][i] = h
      BY <2>2 DEF Subscribed
    <3> QED
      BY <3>1
  <2>6. /\ heard' \in Seq(Hearings) /\ Len(heard') = Len(heard) + 1 /\ Len(heard) \in Nat
        /\ \A i \in 1..Len(heard) : heard'[i] = heard[i] /\ heard[i] \in Hearings
        /\ heard'[Len(heard')] = [handler |-> h, event |-> e, via |-> "redis"]
    BY <2>1, <2>2, Hears DEF Paths
  <2>7. \A i \in 1..Len(heard') :
           \/ i \in 1..Len(heard) /\ heard'[i] = heard[i] /\ heard[i] \in Hearings
           \/ i = Len(heard) + 1 /\ heard'[i] = [handler |-> h, event |-> e, via |-> "redis"]
    BY <2>6
  <2>8. \A i \in 1..Len(heard') : heard'[i] = [handler |-> h, event |-> e, via |-> "redis"] =>
           /\ heard'[i].via = "redis" /\ heard'[i].event = e /\ heard'[i].handler = h
    OBVIOUS
  <2>9. h \in r.done \ done
    BY <2>2, <2>3
  <2>10. \A i \in 1..Len(heard') :
           \/ i \in 1..Len(heard) /\ heard'[i] = heard[i] /\ heard[i] \in Hearings
           \/ /\ i = Len(heard) + 1
              /\ heard'[i].via = "redis" /\ heard'[i].event = e
              /\ heard'[i].handler \in r.done \ done /\ heard'[i].handler \in Handlers
              /\ Home[heard'[i].handler] = p /\ Subscribed(heard'[i].handler)
    <3> SUFFICES ASSUME NEW i \in 1..Len(heard'), i = Len(heard) + 1,
                        heard'[i] = [handler |-> h, event |-> e, via |-> "redis"]
                 PROVE  /\ heard'[i].via = "redis" /\ heard'[i].event = e
                        /\ heard'[i].handler \in r.done \ done /\ heard'[i].handler \in Handlers
                        /\ Home[heard'[i].handler] = p /\ Subscribed(heard'[i].handler)
      BY <2>7
    <3>1. heard'[i].via = "redis" /\ heard'[i].event = e /\ heard'[i].handler = h
      BY <2>8
    <3> QED
      BY <3>1, <2>2, <2>9
  <2> QED
    BY <2>2, <2>3, <2>4, <2>5, <2>6, <2>10 DEF LoopMoved
<1>2. CASE /\ loop' = [loop EXCEPT ![p][e] = [at |-> "over", done |-> done, in |-> in]]
           /\ heard' = heard
  <2> DEFINE r == [at |-> "over", done |-> done, in |-> in]
  <2>1. r \in States /\ r.at = "over" /\ r.done = done
    BY DEF MayLoop, States
  <2>2. loop' = [loop EXCEPT ![p][e] = r]
    BY <1>2
  <2> HIDE DEF r
  <2>3. heard \in Seq(Hearings)
    BY DEF TypeOK, Hearings
  <2>4. Len(heard) \in Nat /\ \A i \in 1..Len(heard) : heard[i] \in Hearings
    BY <2>3
  <2>5. heard' \in Seq(Hearings) /\ \A i \in 1..Len(heard') : i \in 1..Len(heard) /\ heard'[i] = heard[i] /\ heard[i] \in Hearings
    BY <1>2, <2>3, <2>4
  <2>6. r.at # "running" /\ r.at \in {"running", "over"} /\ done \subseteq r.done
    BY <2>1
  <2> QED
    BY <2>1, <2>2, <2>4, <2>5, <2>6, Zenon DEF LoopMoved
<1>3. \/ /\ loop' = [loop EXCEPT ![p][e] = [at |-> "over", done |-> done, in |-> in]]
         /\ heard' = heard
      \/ \E h : /\ NextHandler(p, done, in, h)
                /\ loop' = [loop EXCEPT ![p][e] = [at |-> "running", done |-> done \cup {h}, in |-> in]]
                /\ Hear(h, e, "redis")
  BY LoopNextIs, Zenon
<1> QED
  BY <1>1, <1>2, <1>3, Zenon

LEMMA LoopKeeps ==
    ASSUME BusAssumption, Inv, NEW p \in Procs, NEW e \in Events, NEW done, NEW in, MayLoop(p, e, done, in),
           LoopNext(p, e, done, in), LeftInInbox(p, e), UNCHANGED <<subs, gone, era, call, sent, linked, missed>>
    PROVE  Inv'
<1>a. /\ Typed /\ SentInOrder /\ HeardFromCall /\ MessagesOnce /\ HeardFromLoop
      /\ InboxInOrder /\ OldestIsFirst /\ OncePerPath /\ LocalFirst /\ OldestHearsInOrder
  BY DEF Inv
<1>b. TypeOK
  BY <1>a DEF Typed
<1>1. PICK r \in States : LoopMoved(p, e, done, r)
  BY <1>b, LoopMoves
<1>c. r.at # "idle" /\ done \subseteq r.done
  BY <1>1 DEF LoopMoved
<1>d. /\ heard' \in Seq(Hearings) /\ Len(heard) \in Nat
      /\ \A i \in 1..Len(heard') :
            \/ i \in 1..Len(heard) /\ heard'[i] = heard[i] /\ heard[i] \in Hearings
            \/ /\ i = Len(heard) + 1
               /\ heard'[i].via = "redis" /\ heard'[i].event = e
               /\ heard'[i].handler \in r.done \ done /\ heard'[i].handler \in Handlers
               /\ Home[heard'[i].handler] = p /\ Subscribed(heard'[i].handler)
  BY <1>1 DEF LoopMoved
<1>2. /\ loop' \in [Procs -> [Events -> States]] /\ loop'[p][e] = r
      /\ \A q \in Procs, f \in Events : q # p \/ f # e => loop'[q][f] = loop[q][f]
  BY <1>b, <1>1 DEF TypeOK, LoopMoved
<1>3. /\ e \in sent /\ loop[p][e].done \subseteq done
      /\ \A i \in 1..Len(heard) :
           heard[i].via = "redis" /\ heard[i].event = e /\ Home[heard[i].handler] = p => heard[i].handler \in done
  BY DEF MayLoop
<1>4. ASSUME NEW q \in Procs, NEW f \in Events PROVE loop[q][f].done \subseteq loop'[q][f].done
  <2>1. CASE q = p /\ f = e
    BY <2>1, <1>c, <1>2, <1>3
  <2>2. CASE q # p \/ f # e
    BY <2>2, <1>2
  <2> QED
    BY <2>1, <2>2
<1>5. \A i \in 1..Len(heard') : heard'[i].via = "local" => i \in 1..Len(heard) /\ heard'[i] = heard[i]
  BY <1>d
<1>6. Typed'
  <2>1. heard' \in Seq([handler : Handlers, event : Events, via : Paths])
    BY <1>d DEF Hearings
  <2>2. inbox' \in [Procs -> Seq(Events)]
    BY DEF LeftInInbox
  <2>4. /\ SubsTyped(subs', gone', era') /\ CallsTyped(call')
        /\ MessagesTyped(sent, linked, inbox, loop, heard, missed)
    BY <1>b, TypeParts
  <2>5. MessagesTyped(sent', linked', inbox', loop', heard', missed')
    BY <2>1, <2>2, <2>4, <1>2, Zenon DEF MessagesTyped
  <2>3. TypeOK'
    BY <2>4, <2>5, Zenon DEF TypeOK, SubsTyped, CallsTyped, MessagesTyped
  <2> QED
    BY <2>3, <1>a DEF Typed
<1>7. SentInOrder'
  BY <1>a DEF SentInOrder, Current
<1>8. HeardFromCall'
  <2> SUFFICES ASSUME NEW i \in 1..Len(heard'), NEW c \in Calls, NEW k \in DOMAIN Batch[c],
                      heard'[i].via = "local", heard'[i].event = Batch[c][k]
               PROVE  /\ call[c].at # "idle" /\ k <= call[c].n
                      /\ k = call[c].n => heard'[i].handler \in call[c].done
    BY DEF HeardFromCall
  <2>1. i \in 1..Len(heard) /\ heard'[i] = heard[i]
    BY <1>5
  <2>2. heard[i].via = "local" /\ heard[i].event = Batch[c][k]
    BY <2>1
  <2> QED
    BY <2>1, <2>2, <1>a DEF HeardFromCall
<1>9. HeardFromLoop'
  <2> SUFFICES ASSUME NEW i \in 1..Len(heard'), heard'[i].via = "redis"
               PROVE  DoneBefore(heard[i].handler, heard[i].event)'
    BY Zenon DEF HeardFromLoop
  <2>1. CASE i \in 1..Len(heard) /\ heard'[i] = heard[i] /\ heard[i] \in Hearings
    <3>1. DoneBefore(heard[i].handler, heard[i].event) /\ heard[i].handler \in Handlers /\ heard[i].event \in Events
      BY <2>1, <1>a DEF HeardFromLoop, Hearings
    <3>2. Home[heard[i].handler] \in Procs
      BY <3>1 DEF BusAssumption
    <3> DEFINE g == heard[i].handler
               f == heard[i].event
    <3> HIDE DEF g, f
    <3>4. loop[Home[g]][f].done \subseteq loop'[Home[g]][f].done
      BY <3>1, <3>2, <1>4 DEF g, f
    <3>3. DoneBefore(heard[i].handler, heard[i].event)'
      BY <3>1, <3>4, <2>1 DEF DoneBefore, Subscribed, g, f
    <3> QED
      BY <3>3, <2>1
  <2>2. CASE /\ heard'[i].event = e
             /\ heard'[i].handler \in r.done \ done
             /\ Home[heard'[i].handler] = p /\ Subscribed(heard'[i].handler)
    BY <2>2, <1>2 DEF DoneBefore, Subscribed
  <2> QED
    BY <2>1, <2>2, <1>d
<1>10. MessagesOnce'
  <2>1. ASSUME NEW q \in Procs, NEW f \in Events
        PROVE  (loop'[q][f].at # "idle" => f \in sent') /\ (loop'[q][f].at = "idle" => loop'[q][f].done = {})
    <3>1. CASE q = p /\ f = e
      BY <3>1, <1>c, <1>2, <1>3
    <3>2. CASE q # p \/ f # e
      <4>1. loop'[q][f] = loop[q][f]
        BY <3>2, <1>2
      <4>2. (loop[q][f].at # "idle" => f \in sent) /\ (loop[q][f].at = "idle" => loop[q][f].done = {})
        BY <1>a DEF MessagesOnce
      <4> QED
        BY <4>1, <4>2
    <3> QED
      BY <3>1, <3>2
  <2>2. ASSUME NEW q \in Procs, NEW i \in 1..Len(inbox'[q])
        PROVE  /\ inbox'[q][i] \in sent' /\ loop'[q][inbox'[q][i]].at = "idle"
               /\ \A j \in 1..Len(inbox'[q]) : inbox'[q][i] = inbox'[q][j] => i = j
    <3>1. CASE q = p
      <4>1. PICK o \in {0, 1} : \A m \in 1..Len(inbox'[p]) :
               m + o \in 1..Len(inbox[p]) /\ inbox'[p][m] = inbox[p][m + o] /\ inbox'[p][m] # e
        BY DEF LeftInInbox
      <4>2. i + o \in 1..Len(inbox[p]) /\ inbox'[p][i] = inbox[p][i + o] /\ inbox'[p][i] # e
        BY <4>1, <3>1
      <4>3. inbox[p][i + o] \in sent /\ loop[p][inbox[p][i + o]].at = "idle"
        BY <4>2, <1>a DEF MessagesOnce
      <4>4. loop'[p][inbox[p][i + o]] = loop[p][inbox[p][i + o]]
        BY <4>2, <1>2, <1>b DEF TypeOK
      <4>5. ASSUME NEW j \in 1..Len(inbox'[p]), inbox'[p][i] = inbox'[p][j] PROVE i = j
        <5>1. j + o \in 1..Len(inbox[p]) /\ inbox'[p][j] = inbox[p][j + o]
          BY <4>1
        <5>3. inbox[p][i + o] = inbox[p][j + o]
          BY <4>2, <4>5, <5>1
        <5>2. i + o = j + o
          BY <4>2, <5>1, <5>3, <1>a DEF MessagesOnce
        <5> QED
          BY <5>2, <3>1
      <4> QED
        BY <3>1, <4>2, <4>3, <4>4, <4>5
    <3>2. CASE q # p
      <4>1. inbox'[q] = inbox[q]
        BY <3>2 DEF LeftInInbox
      <4>2. inbox[q] \in Seq(Events)
        BY <1>b DEF TypeOK
      <4>3. inbox[q][i] \in Events
        BY <4>1, <4>2
      <4>4. /\ inbox[q][i] \in sent /\ loop[q][inbox[q][i]].at = "idle"
            /\ \A j \in 1..Len(inbox[q]) : inbox[q][i] = inbox[q][j] => i = j
        BY <4>1, <1>a DEF MessagesOnce
      <4>5. loop'[q][inbox[q][i]] = loop[q][inbox[q][i]]
        BY <4>3, <3>2, <1>2
      <4> QED
        BY <4>1, <4>4, <4>5
    <3> QED
      BY <3>1, <3>2
  <2> QED
    BY <2>1, <2>2 DEF MessagesOnce
<1>11. InboxInOrder'
  <2> SUFFICES ASSUME NEW q \in Procs, NEW c \in Calls, NEW k \in DOMAIN Batch[c], NEW l \in DOMAIN Batch[c],
                      NEW i \in 1..Len(inbox'[q]), k < l, inbox'[q][i] = Batch[c][k]
               PROVE  /\ loop'[q][Batch[c][l]].at = "idle"
                      /\ \A j \in 1..Len(inbox'[q]) : inbox'[q][j] = Batch[c][l] => i < j
    BY DEF InboxInOrder
  <2>0. Batch[c][l] \in Events
    BY EventPlaces
  <2>1. CASE q = p
    <3>1. PICK o \in {0, 1} : \A m \in 1..Len(inbox'[p]) :
             /\ m + o \in 1..Len(inbox[p]) /\ inbox'[p][m] = inbox[p][m + o]
             /\ \A d \in Calls : \A kk, ll \in DOMAIN Batch[d] : kk < ll /\ Batch[d][ll] = e => inbox'[p][m] # Batch[d][kk]
      BY DEF LeftInInbox
    <3>2. i + o \in 1..Len(inbox[p]) /\ inbox[p][i + o] = Batch[c][k] /\ Batch[c][l] # e
      BY <2>1, <3>1
    <3>3. /\ loop[p][Batch[c][l]].at = "idle"
          /\ \A j \in 1..Len(inbox[p]) : inbox[p][j] = Batch[c][l] => i + o < j
      BY <3>2, <1>a DEF InboxInOrder
    <3>4. loop'[p][Batch[c][l]] = loop[p][Batch[c][l]]
      BY <3>2, <2>0, <1>2
    <3>5. ASSUME NEW j \in 1..Len(inbox'[p]), inbox'[p][j] = Batch[c][l] PROVE i < j
      <4>1. j + o \in 1..Len(inbox[p]) /\ inbox[p][j + o] = Batch[c][l]
        BY <3>1, <3>5
      <4>2. i + o < j + o
        BY <3>3, <4>1
      <4> QED
        BY <4>2, <2>1
    <3> QED
      BY <2>1, <3>3, <3>4, <3>5
  <2>2. CASE q # p
    <3>1. inbox'[q] = inbox[q] /\ loop'[q][Batch[c][l]] = loop[q][Batch[c][l]]
      BY <2>2, <2>0, <1>2 DEF LeftInInbox
    <3> QED
      BY <3>1, <1>a DEF InboxInOrder
  <2> QED
    BY <2>1, <2>2
<1>12. OldestIsFirst'
  <2> SUFFICES ASSUME NEW q \in Procs, NEW f \in Events, loop'[q][f].at = "running", AllStay(q)
               PROVE  subs[q] # <<>> /\ Head(subs[q]) \in loop'[q][f].done
    BY DEF OldestIsFirst, AllStay
  <2>1. CASE q = p /\ f = e
    <3>1. r.at = "running" /\ loop'[q][f] = r
      BY <2>1, <1>2
    <3>2. CASE done = {}
      BY <3>1, <3>2, <2>1, <1>1 DEF LoopMoved
    <3>3. CASE done # {}
      BY <3>1, <3>3, <2>1, <1>c DEF MayLoop
    <3> QED
      BY <3>2, <3>3
  <2>2. CASE q # p \/ f # e
    <3>1. loop'[q][f] = loop[q][f]
      BY <2>2, <1>2
    <3> QED
      BY <3>1, <1>a DEF OldestIsFirst
  <2> QED
    BY <2>1, <2>2
<1>13. OncePerPath'
  <2> SUFFICES ASSUME NEW i \in 1..Len(heard'), NEW j \in 1..Len(heard'), heard'[i] = heard'[j]
               PROVE  i = j
    BY DEF OncePerPath
  <2>1. CASE i \in 1..Len(heard) /\ j \in 1..Len(heard)
    <3>1. heard'[i] = heard[i] /\ heard'[j] = heard[j]
      BY <2>1, <1>d
    <3> QED
      BY <2>1, <3>1, <1>a DEF OncePerPath
  <2>2. CASE i = Len(heard) + 1 /\ j = Len(heard) + 1
    BY <2>2
  <2>3. ASSUME NEW m \in 1..Len(heard'), NEW n \in 1..Len(heard'), m \in 1..Len(heard), n = Len(heard) + 1
        PROVE  heard'[m] # heard'[n]
    <3>1. heard'[n].via = "redis" /\ heard'[n].event = e /\ Home[heard'[n].handler] = p /\ heard'[n].handler \notin done
      BY <2>3, <1>d
    <3>2. heard'[m] = heard[m]
      BY <2>3, <1>d
    <3> QED
      BY <3>1, <3>2, <2>3, <1>3
  <2> QED
    BY <2>1, <2>2, <2>3, <1>d
<1>14. LocalFirst'
  <2> SUFFICES ASSUME NEW i \in 1..Len(heard'), NEW j \in 1..Len(heard'),
                      heard'[i].event = heard'[j].event, heard'[i].via = "redis", heard'[j].via = "local"
               PROVE  j < i
    BY DEF LocalFirst
  <2>1. j \in 1..Len(heard) /\ heard'[j] = heard[j]
    BY <1>5
  <2>2. CASE i \in 1..Len(heard) /\ heard'[i] = heard[i]
    BY <2>1, <2>2, <1>a DEF LocalFirst
  <2>3. CASE i = Len(heard) + 1
    BY <2>1, <2>3, <1>d
  <2> QED
    BY <2>2, <2>3, <1>d
<1>15. OldestHearsInOrder'
  <2> SUFFICES ASSUME NEW c \in Calls, NEW k \in DOMAIN Batch[c], NEW l \in DOMAIN Batch[c], NEW q \in Procs,
                      NEW i \in 1..Len(heard'), NEW j \in 1..Len(heard'),
                      k < l, subs'[q] # <<>>, \A h \in gone' : Home[h] # q,
                      HeardAt(i, Head(subs[q]), Batch[c][k], "redis")',
                      HeardAt(j, Head(subs[q]), Batch[c][l], "redis")'
               PROVE  i < j
    BY OrderNow
  <2> DEFINE g == Head(subs[q])
  <2>1. /\ heard'[i].via = "redis" /\ heard'[i].event = Batch[c][k] /\ heard'[i].handler = g
        /\ heard'[j].via = "redis" /\ heard'[j].event = Batch[c][l] /\ heard'[j].handler = g
    BY DEF HeardAt
  <2>2. g \in Handlers /\ Home[g] = q /\ AllStay(q) /\ Batch[c][l] \in Events
    <3>1. subs[q] \in Seq(Handlers) /\ subs[q] # <<>>
      BY <1>b DEF TypeOK
    <3>2. 1 \in 1..Len(subs[q]) /\ g = subs[q][1] /\ g \in Handlers
      BY <3>1
    <3>3. Home[subs[q][1]] = q
      BY <3>2, <1>b DEF TypeOK
    <3>4. AllStay(q)
      BY DEF AllStay
    <3> QED
      BY <3>2, <3>3, <3>4, EventPlaces
  <2>3. CASE i \in 1..Len(heard) /\ heard'[i] = heard[i] /\ j \in 1..Len(heard) /\ heard'[j] = heard[j]
    <3>1. HeardAt(i, g, Batch[c][k], "redis") /\ HeardAt(j, g, Batch[c][l], "redis")
      BY <2>3 DEF HeardAt
    <3> QED
      BY <3>1, <2>3, <1>a DEF OldestHearsInOrder
  <2>4. CASE i \in 1..Len(heard) /\ j = Len(heard) + 1
    BY <2>4, <1>d
  <2>5. CASE i = Len(heard) + 1 /\ heard'[i].event = e /\ heard'[i].handler \notin done /\ Home[heard'[i].handler] = p
    <3>1. q = p /\ g \notin done /\ Batch[c][k] = e
      BY <2>1, <2>2, <2>5
    <3>8. DOMAIN Batch[c] = 1..Len(Batch[c])
      BY EventPlaces
    <3>9. k # l
      BY <3>8
    <3>7. Batch[c][k] # Batch[c][l]
      BY <3>9, OnePlace
    <3>6. Batch[c][l] # e
      BY <3>1, <3>7
    <3>3. loop[p][Batch[c][l]].at = "idle" /\ Batch[c][l] # e
      BY <3>1, <3>6, <2>2 DEF MayLoop
    <3>4. j \in 1..Len(heard) /\ heard[j] = heard'[j]
      BY <3>3, <2>1, <1>d
    <3>5. g \in loop[p][Batch[c][l]].done
      BY <3>1, <3>4, <2>1, <2>2, <1>a DEF HeardFromLoop, DoneBefore
    <3> QED
      BY <3>3, <3>5, <2>2, <1>a DEF MessagesOnce
  <2> QED
    BY <2>3, <2>4, <2>5, <1>d
<1> QED
  BY <1>6, <1>7, <1>8, <1>9, <1>10, <1>11, <1>12, <1>13, <1>14, <1>15 DEF Inv

-----------------------------------------------------------------------------
(* What the operations do to the invariant. *)
LEMMA InitInv == ASSUME BusAssumption, Init PROVE Inv
<1>0. ASSUME NEW c \in Calls PROVE 1 \in DOMAIN Batch[c] /\ DOMAIN Batch[c] \subseteq Nat \ {0}
  <2>1. Len(Batch[c]) \in Nat \ {0} /\ DOMAIN Batch[c] = 1..Len(Batch[c])
    BY EventPlaces
  <2> QED
    BY <2>1
<1>1. TypeOK
  <2>1. subs \in [Procs -> Seq(Handlers)] /\ gone = {} /\ era \in [Procs -> Nat] /\ linked = Procs /\ sent = {} /\ missed = {}
    BY DEF Init, BusAssumption
  <2>2. \A p \in Procs : \A i, j \in 1..Len(subs[p]) :
          Home[subs[p][i]] = p /\ subs[p][i] \notin gone /\ (subs[p][i] = subs[p][j] => i = j)
    BY DEF Init, BusAssumption
  <2>3. \A c \in Calls :
         /\ call[c].at \in {"idle", "local", "redis", "sent", "ok", "failed"}
         /\ call[c].n \in DOMAIN Batch[c] /\ call[c].done \subseteq Handlers /\ call[c].in \in Nat
    BY <1>0 DEF Init
  <2>4. inbox \in [Procs -> Seq(Events)] /\ heard \in Seq([handler : Handlers, event : Events, via : Paths])
    BY DEF Init
  <2>5. loop \in [Procs -> [Events -> States]]
    BY DEF Init, Idle, States
  <2> QED
    BY <2>1, <2>2, <2>3, <2>4, <2>5 DEF TypeOK
<1>2. Typed
  BY <1>1, EventPlaces DEF Typed, Init, CallStates
<1>3. SentInOrder
  <2>1. \A c \in Calls : call[c].at = "idle" /\ call[c].n = 1 /\ sent = {}
    BY DEF Init
  <2>2. \A c \in Calls : \A k \in DOMAIN Batch[c] : ~(k < 1)
    BY <1>0
  <2> QED
    BY <2>1, <2>2 DEF SentInOrder, Current
<1>4. HeardFromCall /\ HeardFromLoop /\ OncePerPath /\ LocalFirst /\ OldestHearsInOrder
  BY DEF Init, HeardFromCall, HeardFromLoop, OncePerPath, LocalFirst, OldestHearsInOrder
<1>5. \A p \in Procs : inbox[p] = <<>> /\ \A e \in Events : loop[p][e].at = "idle" /\ loop[p][e].done = {}
  BY DEF Init, Idle
<1>6. MessagesOnce /\ InboxInOrder /\ OldestIsFirst
  BY <1>5 DEF MessagesOnce, InboxInOrder, OldestIsFirst
<1> QED
  BY <1>2, <1>3, <1>4, <1>6 DEF Inv

(* The handlers of a process, each there once. *)
LEMMA Places ==
    ASSUME TypeOK, NEW p \in Procs
    PROVE  /\ subs[p] \in Seq(Handlers) /\ Len(subs[p]) \in Nat
           /\ \A i \in 1..Len(subs[p]) : Home[subs[p][i]] = p /\ subs[p][i] \notin gone
           /\ \A i, j \in 1..Len(subs[p]) : subs[p][i] = subs[p][j] => i = j
<1>1. subs[p] \in Seq(Handlers)
  BY DEF TypeOK
<1> QED
  BY <1>1 DEF TypeOK

(* Handlers that come and go: the oldest changes only where there was none, or  *)
(* where one has left.                                                          *)
LEMMA SubscribeKeeps ==
    ASSUME BusAssumption, Inv, NEW h \in Handlers, Subscribe(h)
    PROVE  Inv'
<1>a. /\ Typed /\ SentInOrder /\ HeardFromCall /\ MessagesOnce /\ HeardFromLoop
      /\ InboxInOrder /\ OldestIsFirst /\ OncePerPath /\ LocalFirst /\ OldestHearsInOrder
  BY DEF Inv
<1> DEFINE home == Home[h]
<1>b. /\ TypeOK /\ home \in Procs /\ h \notin gone
      /\ \A i \in 1..Len(subs[home]) : subs[home][i] # h
      /\ UNCHANGED <<gone, era, call, sent, linked, inbox, loop, heard, missed>>
  BY <1>a DEF Typed, BusAssumption, Subscribe, Fresh
<1>c. subs' = [subs EXCEPT ![home] = Append(@, h)]
  BY DEF Subscribe
<1> HIDE DEF home
<1>1. /\ subs' \in [Procs -> Seq(Handlers)] /\ \A q \in Procs : q # home => subs'[q] = subs[q]
      /\ subs[home] \in Seq(Handlers) /\ Len(subs[home]) \in Nat
      /\ Len(subs'[home]) = Len(subs[home]) + 1
      /\ \A i \in 1..Len(subs'[home]) : \/ i \in 1..Len(subs[home]) /\ subs'[home][i] = subs[home][i]
                                        \/ i = Len(subs[home]) + 1 /\ subs'[home][i] = h
      /\ \A i \in 1..Len(subs[home]) : i \in 1..Len(subs'[home]) /\ subs'[home][i] = subs[home][i]
      /\ subs[home] # <<>> => subs'[home] # <<>> /\ Head(subs'[home]) = Head(subs[home])
      /\ subs[home] = <<>> => Head(subs'[home]) = h
  <2>1. subs[home] \in Seq(Handlers) /\ subs'[home] = Append(subs[home], h) /\ \A q \in Procs : q # home => subs'[q] = subs[q]
    BY <1>b, <1>c DEF TypeOK
  <2> DEFINE s == subs[home]
             t == subs'[home]
  <2>2. s \in Seq(Handlers) /\ t = Append(s, h)
    BY <2>1
  <2> HIDE DEF s, t
  <2>7. IsAppended(s, h, t)
    BY <2>2, AppendedTo
  <2>3. /\ t \in Seq(Handlers) /\ Len(s) \in Nat /\ Len(t) = Len(s) + 1
        /\ \A i \in 1..Len(t) : (i \in 1..Len(s) /\ t[i] = s[i]) \/ (i = Len(s) + 1 /\ t[i] = h)
        /\ \A i \in 1..Len(s) : i \in 1..Len(t) /\ t[i] = s[i]
    BY <2>7, Zenon DEF IsAppended
  <2>4. s # <<>> => t # <<>> /\ Head(t) = Head(s)
    BY <2>7, Zenon DEF IsAppended
  <2>5. s = <<>> => Head(t) = h
    BY <2>7, Zenon DEF IsAppended
  <2>6. subs' \in [Procs -> Seq(Handlers)]
    BY <1>b, <1>c DEF TypeOK
  <2> QED
    BY <2>1, <2>2, <2>3, <2>4, <2>5, <2>6, Zenon DEF s, t
<1>2. Typed'
  <2>1. ASSUME NEW q \in Procs, NEW i \in 1..Len(subs'[q]), NEW j \in 1..Len(subs'[q])
        PROVE  Home[subs'[q][i]] = q /\ subs'[q][i] \notin gone /\ (subs'[q][i] = subs'[q][j] => i = j)
    <3>1. CASE q # home
      <4>1. subs'[q] = subs[q]
        BY <3>1, <1>1
      <4> QED
        BY <4>1, <1>b, Places
    <3>2. CASE q = home
      <4>1. \A m \in 1..Len(subs[home]) : Home[subs[home][m]] = home /\ subs[home][m] \notin gone
        BY <1>b, Places
      <4>2. Home[h] = home
        BY DEF home
      <4>3. Home[subs'[q][i]] = q /\ subs'[q][i] \notin gone
        <5>1. CASE i \in 1..Len(subs[home]) /\ subs'[home][i] = subs[home][i]
          BY <5>1, <3>2, <4>1
        <5>2. CASE subs'[home][i] = h
          BY <5>2, <3>2, <4>2, <1>b
        <5> QED
          BY <5>1, <5>2, <3>2, <1>1
      <4>4. ASSUME subs'[q][i] = subs'[q][j] PROVE i = j
        <5>1. CASE i \in 1..Len(subs[home]) /\ j \in 1..Len(subs[home])
          <6>1. subs[home][i] = subs[home][j]
            BY <5>1, <4>4, <3>2, <1>1
          <6> QED
            BY <5>1, <6>1, <1>b, Places
        <5>2. CASE i = Len(subs[home]) + 1 /\ subs'[home][i] = h
          BY <5>2, <4>4, <3>2, <1>1, <1>b
        <5>3. CASE j = Len(subs[home]) + 1 /\ subs'[home][j] = h
          BY <5>3, <4>4, <3>2, <1>1, <1>b
        <5> QED
          BY <5>1, <5>2, <5>3, <3>2, <1>1
      <4> QED
        BY <4>3, <4>4
    <3> QED
      BY <3>1, <3>2
  <2> QED
    <3>1. subs' \in [Procs -> Seq(Handlers)]
      BY <1>1
    <3>2. \A q \in Procs : \A i, j \in 1..Len(subs'[q]) :
            Home[subs'[q][i]] = q /\ subs'[q][i] \notin gone' /\ (subs'[q][i] = subs'[q][j] => i = j)
      BY <2>1, <1>b
    <3> QED
      BY <3>1, <3>2, <1>a, <1>b DEF Typed, TypeOK
<1>3. SentInOrder' /\ HeardFromCall' /\ MessagesOnce' /\ InboxInOrder' /\ OncePerPath' /\ LocalFirst'
  BY <1>a, <1>b DEF SentInOrder, HeardFromCall, MessagesOnce, InboxInOrder, OncePerPath, LocalFirst, Current
<1>4. ASSUME NEW g \in Handlers, Subscribed(g) PROVE Subscribed(g)'
  <2>1. CASE Home[g] = home
    BY <2>1, <1>4, <1>1 DEF Subscribed
  <2>2. CASE Home[g] # home
    BY <2>2, <1>4, <1>1 DEF Subscribed, BusAssumption
  <2> QED
    BY <2>1, <2>2
<1>5. \A i \in 1..Len(heard) : heard[i] \in Hearings
  <2>1. heard \in Seq(Hearings)
    BY <1>b DEF TypeOK, Hearings
  <2> QED
    BY <2>1
<1>6. HeardFromLoop'
  <2> SUFFICES ASSUME NEW i \in 1..Len(heard), heard[i].via = "redis"
               PROVE  DoneBefore(heard[i].handler, heard[i].event)'
    BY <1>b DEF HeardFromLoop
  <2>1. heard[i].handler \in Handlers /\ DoneBefore(heard[i].handler, heard[i].event)
    BY <1>5, <1>a DEF HeardFromLoop, Hearings
  <2>2. ASSUME NEW g \in Handlers, NEW f, DoneBefore(g, f) PROVE DoneBefore(g, f)'
    BY <2>2, <1>4, <1>b DEF DoneBefore
  <2> QED
    BY <2>1, <2>2, <1>b
<1>7. OldestIsFirst'
  <2> SUFFICES ASSUME NEW q \in Procs, NEW f \in Events, loop[q][f].at = "running", AllStay(q)
               PROVE  subs'[q] # <<>> /\ Head(subs'[q]) \in loop[q][f].done
    BY <1>b DEF OldestIsFirst, AllStay
  <2>1. subs[q] # <<>> /\ Head(subs[q]) \in loop[q][f].done
    BY <1>a DEF OldestIsFirst
  <2> QED
    BY <2>1, <1>1
<1>8. OldestHearsInOrder'
  <2> SUFFICES ASSUME NEW c \in Calls, NEW k \in DOMAIN Batch[c], NEW l \in DOMAIN Batch[c], NEW q \in Procs,
                      NEW i \in 1..Len(heard'), NEW j \in 1..Len(heard'),
                      k < l, subs'[q] # <<>>, \A g \in gone' : Home[g] # q,
                      HeardAt(i, Head(subs[q]), Batch[c][k], "redis")',
                      HeardAt(j, Head(subs[q]), Batch[c][l], "redis")'
               PROVE  i < j
    BY OrderNow
  <2>1. i \in 1..Len(heard) /\ j \in 1..Len(heard) /\ gone' = gone
    BY <1>b
  <2>2. HeardAt(i, Head(subs'[q]), Batch[c][k], "redis") /\ HeardAt(j, Head(subs'[q]), Batch[c][l], "redis")
    BY <1>b DEF HeardAt
  <2>3. CASE subs[q] # <<>>
    <3>1. Head(subs'[q]) = Head(subs[q])
      BY <2>3, <1>1
    <3> QED
      BY <3>1, <2>1, <2>2, <2>3, <1>a DEF OldestHearsInOrder
  <2>4. CASE subs[q] = <<>>
    <3>1. q = home /\ Head(subs'[q]) = h
      BY <2>4, <1>1
    <3>2. heard[i].via = "redis" /\ heard[i].handler = h
      BY <3>1, <2>2 DEF HeardAt
    <3>3. Subscribed(h)
      BY <3>2, <2>1, <1>a, <1>b DEF HeardFromLoop, DoneBefore
    <3> QED
      BY <3>3, <1>b DEF Subscribed, home
  <2> QED
    BY <2>3, <2>4
<1> QED
  BY <1>2, <1>3, <1>6, <1>7, <1>8 DEF Inv

LEMMA Removed ==
    ASSUME NEW S, NEW s \in Seq(S), NEW i \in 1..Len(s)
    PROVE  /\ RemoveAt(s, i) \in Seq(S) /\ Len(RemoveAt(s, i)) = Len(s) - 1 /\ Len(s) \in Nat
           /\ \A j \in 1..Len(s) - 1 : RemoveAt(s, i)[j] = IF j < i THEN s[j] ELSE s[j + 1]
<1> DEFINE a == SubSeq(s, 1, i - 1)
           b == SubSeq(s, i + 1, Len(s))
<1>1. /\ a \in Seq(S) /\ Len(a) = i - 1 /\ b \in Seq(S) /\ Len(b) = Len(s) - i
      /\ \A j \in 1..(i - 1) : a[j] = s[j]
      /\ \A j \in 1..(Len(s) - i) : b[j] = s[i + j]
  OBVIOUS
<1>2. RemoveAt(s, i) = a \o b
  BY DEF RemoveAt
<1> HIDE DEF a, b
<1>3. a \o b \in Seq(S) /\ Len(a \o b) = Len(s) - 1 /\ Len(s) \in Nat
  BY <1>1
<1>4. ASSUME NEW j \in 1..Len(s) - 1 PROVE (a \o b)[j] = IF j < i THEN s[j] ELSE s[j + 1]
  <2>1. CASE j < i
    BY <2>1, <1>1
  <2>2. CASE j >= i
    <3>1. (a \o b)[j] = b[j - (i - 1)] /\ j - (i - 1) \in 1..(Len(s) - i)
      BY <2>2, <1>1
    <3> QED
      BY <3>1, <2>2, <1>1
  <2> QED
    BY <2>1, <2>2, <1>3
<1> QED
  BY <1>2, <1>3, <1>4

LEMMA RemovedTo == \A s \in Seq(Handlers) : \A i \in 1..Len(s) : IsCut(s, i, RemoveAt(s, i))
BY Removed DEF IsCut

LEMMA UnsubscribeKeeps ==
    ASSUME BusAssumption, Inv, NEW h \in Handlers, Unsubscribe(h)
    PROVE  Inv'
<1>a. /\ Typed /\ SentInOrder /\ HeardFromCall /\ MessagesOnce /\ HeardFromLoop
      /\ InboxInOrder /\ OldestIsFirst /\ OncePerPath /\ LocalFirst /\ OldestHearsInOrder
  BY DEF Inv
<1> DEFINE home == Home[h]
<1>b. /\ TypeOK /\ home \in Procs /\ gone' = gone \cup {h}
      /\ era' = [era EXCEPT ![home] = IF Len(subs[home]) = 1 THEN @ + 1 ELSE @]
      /\ UNCHANGED <<call, sent, linked, inbox, loop, heard, missed>>
  BY <1>a DEF Typed, BusAssumption, Unsubscribe
<1>c. PICK x \in 1..Len(subs[home]) : subs[home][x] = h /\ subs' = [subs EXCEPT ![home] = RemoveAt(@, x)]
  BY DEF Unsubscribe
<1> HIDE DEF home
<1>1. /\ subs[home] \in Seq(Handlers) /\ subs'[home] = RemoveAt(subs[home], x)
      /\ \A q \in Procs : q # home => subs'[q] = subs[q]
  BY <1>b, <1>c DEF TypeOK
<1>2. /\ subs'[home] \in Seq(Handlers) /\ Len(subs'[home]) = Len(subs[home]) - 1 /\ Len(subs[home]) \in Nat
      /\ \A j \in 1..Len(subs[home]) - 1 : subs'[home][j] = IF j < x THEN subs[home][j] ELSE subs[home][j + 1]
  <2>1. IsCut(subs[home], x, subs'[home])
    BY <1>1, RemovedTo
  <2> QED
    BY <2>1, Zenon DEF IsCut
<1>3. subs' \in [Procs -> Seq(Handlers)] /\ era' \in [Procs -> Nat]
  <2>1. RemoveAt(subs[home], x) \in Seq(Handlers)
    BY <1>1, <1>2
  <2>2. subs \in [Procs -> Seq(Handlers)] /\ era \in [Procs -> Nat]
    BY <1>b DEF TypeOK
  <2>3. subs' \in [Procs -> Seq(Handlers)]
    BY <2>1, <2>2, <1>b, <1>c
  <2>4. \A n \in Nat : (IF Len(subs[home]) = 1 THEN n + 1 ELSE n) \in Nat
    OBVIOUS
  <2>5. era' \in [Procs -> Nat]
    BY <2>2, <2>4, <1>b
  <2> QED
    BY <2>3, <2>5
(* each of the others keeps a place of its own *)
<1>4. /\ \A i \in 1..Len(subs'[home]) : \E m \in 1..Len(subs[home]) :
            m # x /\ subs'[home][i] = subs[home][m] /\ m = IF i < x THEN i ELSE i + 1
      /\ \A m \in 1..Len(subs[home]) : m # x => \E i \in 1..Len(subs'[home]) : subs'[home][i] = subs[home][m]
  <2>1. ASSUME NEW i \in 1..Len(subs'[home])
        PROVE  \E m \in 1..Len(subs[home]) : m # x /\ subs'[home][i] = subs[home][m] /\ m = IF i < x THEN i ELSE i + 1
    <3>1. i \in 1..Len(subs[home]) - 1 /\ Len(subs[home]) \in Nat
      BY <1>2
    <3>2. CASE i < x
      <4>1. subs'[home][i] = subs[home][i] /\ i \in 1..Len(subs[home]) /\ i # x
        BY <3>1, <3>2, <1>2, <1>c
      <4> QED
        BY <4>1, <3>2
    <3>3. CASE ~(i < x)
      <4>1. subs'[home][i] = subs[home][i + 1] /\ i + 1 \in 1..Len(subs[home]) /\ i + 1 # x
        BY <3>1, <3>3, <1>2, <1>c
      <4> QED
        BY <4>1, <3>3
    <3> QED
      BY <3>2, <3>3
  <2>2. ASSUME NEW m \in 1..Len(subs[home]), m # x
        PROVE  \E i \in 1..Len(subs'[home]) : subs'[home][i] = subs[home][m]
    <3>1. CASE m < x
      <4>1. m \in 1..Len(subs'[home]) /\ subs'[home][m] = subs[home][m]
        BY <3>1, <1>2, <1>c
      <4> QED
        BY <4>1
    <3>2. CASE m > x
      <4>1. m - 1 \in 1..Len(subs'[home]) /\ subs'[home][m - 1] = subs[home][m]
        BY <3>2, <1>2, <1>c
      <4> QED
        BY <4>1
    <3> QED
      BY <3>1, <3>2, <2>2, <1>2, <1>c
  <2> QED
    BY <2>1, <2>2
<1>5. Typed'
  <2>1. ASSUME NEW q \in Procs, NEW i \in 1..Len(subs'[q]), NEW j \in 1..Len(subs'[q])
        PROVE  Home[subs'[q][i]] = q /\ subs'[q][i] \notin gone' /\ (subs'[q][i] = subs'[q][j] => i = j)
    <3>1. CASE q # home
      <4>1. Home[h] # q
        BY <3>1 DEF home
      <4> QED
        <5>1. subs'[q] = subs[q]
          BY <3>1, <1>1
        <5>2. Home[subs[q][i]] = q /\ subs[q][i] \notin gone /\ (subs[q][i] = subs[q][j] => i = j)
          BY <5>1, <1>b, Places
        <5> QED
          BY <4>1, <5>1, <5>2, <1>b
    <3>2. CASE q = home
      <4>1. PICK m \in 1..Len(subs[home]) : m # x /\ subs'[home][i] = subs[home][m] /\ m = IF i < x THEN i ELSE i + 1
        BY <3>2, <1>4
      <4>2. PICK n \in 1..Len(subs[home]) : n # x /\ subs'[home][j] = subs[home][n] /\ n = IF j < x THEN j ELSE j + 1
        BY <3>2, <1>4
      <4>3. Home[subs[home][m]] = home /\ subs[home][m] \notin gone /\ subs[home][m] # h
        BY <4>1, <1>b, <1>c, Places
      <4>4. subs[home][m] = subs[home][n] => m = n
        BY <1>b, Places
      <4>6. \A a, b, y \in Nat : (IF a < y THEN a ELSE a + 1) = (IF b < y THEN b ELSE b + 1) => a = b
        OBVIOUS
      <4>7. i \in Nat /\ j \in Nat /\ x \in Nat
        OBVIOUS
      <4>5. m = n => i = j
        BY <4>1, <4>2, <4>6, <4>7
      <4> QED
        BY <4>1, <4>2, <4>3, <4>4, <4>5, <3>2, <1>b
    <3> QED
      BY <3>1, <3>2
  <2>2. gone' \subseteq Handlers
    BY <1>b DEF TypeOK
  <2> QED
    BY <2>1, <2>2, <1>a, <1>3, <1>b DEF Typed, TypeOK
<1>6. SentInOrder' /\ HeardFromCall' /\ MessagesOnce' /\ InboxInOrder' /\ OncePerPath' /\ LocalFirst'
  BY <1>a, <1>b DEF SentInOrder, HeardFromCall, MessagesOnce, InboxInOrder, OncePerPath, LocalFirst, Current
<1>7. ASSUME NEW g \in Handlers, Subscribed(g), g # h PROVE Subscribed(g)'
  <2>1. CASE Home[g] = home
    <3>1. PICK m \in 1..Len(subs[home]) : subs[home][m] = g
      BY <2>1, <1>7 DEF Subscribed
    <3>2. \E i \in 1..Len(subs'[home]) : subs'[home][i] = subs[home][m]
      BY <3>1, <1>4, <1>7, <1>c
    <3> QED
      BY <3>1, <3>2, <2>1 DEF Subscribed
  <2>2. CASE Home[g] # home
    BY <2>2, <1>7, <1>1 DEF Subscribed, BusAssumption
  <2> QED
    BY <2>1, <2>2
<1>8. \A i \in 1..Len(heard) : heard[i] \in Hearings
  <2>1. heard \in Seq(Hearings)
    BY <1>b DEF TypeOK, Hearings
  <2> QED
    BY <2>1
<1>9. HeardFromLoop'
  <2> SUFFICES ASSUME NEW i \in 1..Len(heard), heard[i].via = "redis"
               PROVE  DoneBefore(heard[i].handler, heard[i].event)'
    BY <1>b DEF HeardFromLoop
  <2>1. heard[i].handler \in Handlers /\ DoneBefore(heard[i].handler, heard[i].event)
    BY <1>8, <1>a DEF HeardFromLoop, Hearings
  <2>2. ASSUME NEW g \in Handlers, NEW f, DoneBefore(g, f) PROVE DoneBefore(g, f)'
    BY <2>2, <1>7, <1>b DEF DoneBefore
  <2> QED
    BY <2>1, <2>2, <1>b
<1>10. ASSUME NEW q \in Procs, \A g \in gone' : Home[g] # q
       PROVE  AllStay(q) /\ subs'[q] = subs[q]
  BY <1>10, <1>1, <1>b DEF AllStay, home
<1>11. OldestIsFirst'
  <2> SUFFICES ASSUME NEW q \in Procs, NEW f \in Events, loop[q][f].at = "running", \A g \in gone' : Home[g] # q
               PROVE  subs'[q] # <<>> /\ Head(subs'[q]) \in loop[q][f].done
    BY <1>b DEF OldestIsFirst, AllStay
  <2> QED
    BY <1>10, <1>a DEF OldestIsFirst
<1>12. OldestHearsInOrder'
  <2> SUFFICES ASSUME NEW c \in Calls, NEW k \in DOMAIN Batch[c], NEW l \in DOMAIN Batch[c], NEW q \in Procs,
                      NEW i \in 1..Len(heard'), NEW j \in 1..Len(heard'),
                      k < l, subs'[q] # <<>>, \A g \in gone' : Home[g] # q,
                      HeardAt(i, Head(subs[q]), Batch[c][k], "redis")',
                      HeardAt(j, Head(subs[q]), Batch[c][l], "redis")'
               PROVE  i < j
    BY OrderNow
  <2>1. subs'[q] = subs[q] /\ AllStay(q)
    BY <1>10
  <2>2. HeardAt(i, Head(subs[q]), Batch[c][k], "redis") /\ HeardAt(j, Head(subs[q]), Batch[c][l], "redis")
    BY <2>1, <1>b DEF HeardAt
  <2> QED
    BY <2>1, <2>2, <1>a, <1>b DEF OldestHearsInOrder, AllStay
<1> QED
  BY <1>5, <1>6, <1>9, <1>11, <1>12 DEF Inv

(* A loop over the local handlers begins for the first event of a batch, or goes *)
(* on after the handlers it is done with.                                       *)
LEMMA PublishCalls ==
    ASSUME BusAssumption, Inv, NEW c \in Calls, Publish(c)
    PROVE  /\ call[c].at = "idle" /\ MayCall(c, 1, {}, era[From[c]])
           /\ LocalNext(c, 1, {}, era[From[c]]) /\ UNCHANGED <<subs, gone, era, sent, linked, inbox, loop, missed>>
<1>a. Typed /\ SentInOrder /\ HeardFromCall
  BY DEF Inv
<1>b. DOMAIN Batch[c] = 1..Len(Batch[c]) /\ Len(Batch[c]) \in Nat \ {0}
  BY EventPlaces
<1>1. call[c].at = "idle" /\ call[c].n = 1 /\ LocalNext(c, 1, {}, era[From[c]])
  BY <1>a DEF Publish, Begin, SentInOrder
<1>2. era[From[c]] \in Nat
  BY <1>a DEF Typed, TypeOK, BusAssumption
<1>3. \A k \in DOMAIN Batch[c] : k < 1 <=> Batch[c][k] \in sent
  BY <1>1, <1>b, <1>a DEF SentInOrder, Current
<1>4. \A i \in 1..Len(heard) : \A k \in DOMAIN Batch[c] :
        ~(heard[i].via = "local" /\ heard[i].event = Batch[c][k])
  BY <1>1, <1>a DEF HeardFromCall
<1>5. MayCall(c, 1, {}, era[From[c]])
  BY <1>2, <1>3, <1>4, <1>b DEF MayCall
<1> QED
  BY <1>1, <1>5 DEF Publish, Begin

LEMMA LocalStepCalls ==
    ASSUME BusAssumption, Inv, NEW c \in Calls, LocalStep(c)
    PROVE  call[c].at = "local" /\ MayCall(c, call[c].n, call[c].done, call[c].in)
<1>a. Typed /\ SentInOrder /\ HeardFromCall
  BY DEF Inv
<1>b. /\ call[c] \in CallStates /\ call[c].n \in DOMAIN Batch[c] /\ DOMAIN Batch[c] = 1..Len(Batch[c])
      /\ Len(Batch[c]) \in Nat \ {0} /\ call[c].at = "local"
  BY <1>a, EventPlaces DEF Typed, TypeOK, LocalStep
<1>1. call[c].done \subseteq Handlers /\ call[c].in \in Nat
  BY <1>b DEF CallStates
<1>2. \A k \in DOMAIN Batch[c] : k < call[c].n <=> Batch[c][k] \in sent
  BY <1>b, <1>a DEF SentInOrder, Current
<1>3. \A i \in 1..Len(heard) : \A k \in DOMAIN Batch[c] :
        heard[i].via = "local" /\ heard[i].event = Batch[c][k] =>
          k <= call[c].n /\ (k = call[c].n => heard[i].handler \in call[c].done)
  BY <1>a DEF HeardFromCall
<1> QED
  BY <1>1, <1>2, <1>3, <1>b DEF MayCall

LEMMA PublishKeeps ==
    ASSUME BusAssumption, Inv, NEW c \in Calls, Publish(c) \/ LocalStep(c)
    PROVE  Inv'
<1>1. CASE Publish(c)
  BY <1>1, PublishCalls, LocalKeeps
<1>2. CASE LocalStep(c)
  BY <1>2, LocalStepCalls, LocalKeeps DEF LocalStep
<1> QED
  BY <1>1, <1>2

LEMMA OnlyWhere ==
    ASSUME call \in [Calls -> CallStates], NEW c \in Calls, NEW at \in {"sent", "ok", "failed"},
           call' = [call EXCEPT ![c].at = at]
    PROVE  /\ call' \in [Calls -> CallStates] /\ call'[c].at = at
           /\ \A d \in Calls : /\ call'[d].n = call[d].n /\ call'[d].done = call[d].done /\ call'[d].in = call[d].in
                               /\ d # c => call'[d] = call[d]
<1> DEFINE r == [call[c] EXCEPT !.at = at]
<1>1. call[c] \in CallStates
  OBVIOUS
<1>2. r \in CallStates /\ r.at = at /\ r.n = call[c].n /\ r.done = call[c].done /\ r.in = call[c].in
  BY <1>1 DEF CallStates
<1>3. call' = [call EXCEPT ![c] = r]
  OBVIOUS
<1> HIDE DEF r
<1> QED
  BY <1>2, <1>3

(* Where a call is changes, but not what it has sent. *)
LEMMA EndKeeps ==
    ASSUME BusAssumption, Inv, NEW c \in Calls, NEW at,
           \/ at = "failed"
           \/ at = "sent" /\ call[c].at = "redis"
           \/ at = "ok" /\ call[c].n = Len(Batch[c]) /\ Current(c) \in sent,
           call[c].at # "idle",
           call' = [call EXCEPT ![c].at = at],
           UNCHANGED <<subs, gone, era, sent, linked, inbox, loop, heard, missed>>
    PROVE  Inv'
<1>a. /\ Typed /\ SentInOrder /\ HeardFromCall /\ MessagesOnce /\ HeardFromLoop
      /\ InboxInOrder /\ OldestIsFirst /\ OncePerPath /\ LocalFirst /\ OldestHearsInOrder
  BY DEF Inv
<1>1. /\ call' \in [Calls -> CallStates] /\ call'[c].at = at
      /\ \A d \in Calls : /\ call'[d].n = call[d].n /\ call'[d].done = call[d].done /\ call'[d].in = call[d].in
                          /\ d # c => call'[d] = call[d]
  BY <1>a, OnlyWhere DEF Typed
<1>2. Typed'
  <2>1. \A d \in Calls :
         /\ call'[d].at \in {"idle", "local", "redis", "sent", "ok", "failed"}
         /\ call'[d].n \in DOMAIN Batch[d] /\ call'[d].done \subseteq Handlers /\ call'[d].in \in Nat
    BY <1>a, <1>1 DEF Typed, TypeOK, CallStates
  <2>3. SubsTyped(subs', gone', era') /\ MessagesTyped(sent', linked', inbox', loop', heard', missed')
    BY <1>a, TypeParts DEF Typed
  <2>4. CallsTyped(call')
    BY <2>1 DEF CallsTyped
  <2>2. TypeOK'
    BY <2>3, <2>4, Zenon DEF TypeOK, SubsTyped, CallsTyped, MessagesTyped
  <2> QED
    BY <2>2, <1>1 DEF Typed
<1>3. SentInOrder'
  BY <1>a, <1>1 DEF SentInOrder, Current
<1>4. HeardFromCall'
  <2> SUFFICES ASSUME NEW i \in 1..Len(heard), NEW d \in Calls, NEW k \in DOMAIN Batch[d],
                      heard[i].via = "local", heard[i].event = Batch[d][k]
               PROVE  /\ call'[d].at # "idle" /\ k <= call'[d].n
                      /\ k = call'[d].n => heard[i].handler \in call'[d].done
    BY DEF HeardFromCall
  <2>1. /\ call[d].at # "idle" /\ k <= call[d].n
        /\ k = call[d].n => heard[i].handler \in call[d].done
    BY <1>a DEF HeardFromCall
  <2> QED
    BY <2>1, <1>1
<1>5. MessagesOnce' /\ InboxInOrder' /\ OldestIsFirst'
  BY <1>a DEF MessagesOnce, InboxInOrder, OldestIsFirst, AllStay
<1>6. HeardFromLoop' /\ OncePerPath' /\ LocalFirst' /\ OldestHearsInOrder'
  <2>1. HeardFromLoop'
    BY <1>a, SameHeard
  <2>2. OncePerPath' /\ LocalFirst'
    BY <1>a DEF OncePerPath, LocalFirst
  <2>3. OldestHearsInOrder'
    BY <1>a, SameOrder
  <2> QED
    BY <2>1, <2>2, <2>3
<1> QED
  BY <1>2, <1>3, <1>4, <1>5, <1>6 DEF Inv

(* The loop for the next event of a batch begins when the last one was sent.    *)
LEMMA NextEventCalls ==
    ASSUME BusAssumption, Inv, NEW c \in Calls, call[c].at = "sent", Current(c) \in sent, More(c)
    PROVE  MayCall(c, call[c].n + 1, {}, era[From[c]])
<1>a. Typed /\ SentInOrder /\ HeardFromCall
  BY DEF Inv
<1>b. /\ call[c] \in CallStates /\ call[c].n \in DOMAIN Batch[c] /\ DOMAIN Batch[c] = 1..Len(Batch[c])
      /\ Len(Batch[c]) \in Nat \ {0}
  BY <1>a, EventPlaces DEF Typed, TypeOK
<1> DEFINE m == call[c].n + 1
<1>1. m \in DOMAIN Batch[c] /\ call[c].n \in Nat
  BY <1>b DEF More
<1>2. MayCall(c, m, {}, era[From[c]])
  <2>1. era[From[c]] \in Nat
    BY <1>a DEF Typed, TypeOK, BusAssumption
  <2>2. \A k \in DOMAIN Batch[c] : k < m <=> Batch[c][k] \in sent
    <3> SUFFICES ASSUME NEW k \in DOMAIN Batch[c] PROVE k < m <=> Batch[c][k] \in sent
      OBVIOUS
    <3>1. (k < call[c].n => Batch[c][k] \in sent) /\ (k > call[c].n => Batch[c][k] \notin sent)
      BY <1>a DEF SentInOrder
    <3>2. k = call[c].n => Batch[c][k] \in sent
      BY DEF Current
    <3> QED
      BY <3>1, <3>2, <1>1, <1>b
  <2>3. \A i \in 1..Len(heard) : \A k \in DOMAIN Batch[c] :
          heard[i].via = "local" /\ heard[i].event = Batch[c][k] => k < m
    <3>1. \A i \in 1..Len(heard) : \A k \in DOMAIN Batch[c] :
            heard[i].via = "local" /\ heard[i].event = Batch[c][k] => k <= call[c].n
      BY <1>a DEF HeardFromCall
    <3>2. \A k \in DOMAIN Batch[c] : k <= call[c].n => k < m
      BY <1>b, <1>1
    <3> QED
      BY <3>1, <3>2
  <2>4. \A i \in 1..Len(heard) : \A k \in DOMAIN Batch[c] :
          heard[i].via = "local" /\ heard[i].event = Batch[c][k] =>
            k <= m /\ (k = m => heard[i].handler \in {})
    <3>1. \A k \in DOMAIN Batch[c] : k < m => k <= m /\ k # m
      BY <1>1, <1>b
    <3> HIDE DEF m
    <3> QED
      BY <2>3, <3>1
  <2>5. m \in DOMAIN Batch[c] /\ {} \subseteq Handlers
    BY <1>1, <1>b
  <2> QED
    BY <2>1, <2>2, <2>4, <2>5, Zenon DEF MayCall
<1> HIDE DEF m
<1> QED
  BY <1>2 DEF m

LEMMA AnsweredKeeps ==
    ASSUME BusAssumption, Inv, NEW c \in Calls, Answered(c)
    PROVE  Inv'
<1>a. Typed /\ SentInOrder /\ HeardFromCall
  BY DEF Inv
<1>b. /\ call[c] \in CallStates /\ call[c].n \in DOMAIN Batch[c] /\ DOMAIN Batch[c] = 1..Len(Batch[c])
      /\ Len(Batch[c]) \in Nat \ {0} /\ call[c].at = "sent"
  BY <1>a, EventPlaces DEF Typed, TypeOK, Answered
<1>1. CASE Current(c) \in sent /\ More(c) /\ Begin(c, call[c].n + 1)
  <2>1. LocalNext(c, call[c].n + 1, {}, era[From[c]]) /\ UNCHANGED <<subs, gone, era, sent, linked, inbox, loop, missed>>
    BY <1>1, Zenon DEF Begin, Answered
  <2>2. MayCall(c, call[c].n + 1, {}, era[From[c]])
    BY <1>1, <1>b, NextEventCalls
  <2> DEFINE n == call[c].n + 1
             done == {}
             in == era[From[c]]
  <2>3. LocalNext(c, n, done, in) /\ MayCall(c, n, done, in)
    BY <2>1, <2>2
  <2> HIDE DEF n, done, in
  <2> QED
    BY <2>1, <2>3, LocalKeeps
<1>2. CASE Current(c) \in sent /\ ~More(c) /\ End(c, "ok")
  <2>1. call[c].n = Len(Batch[c])
    BY <1>2, <1>b DEF More
  <2> QED
    BY <1>2, <2>1, <1>b, EndKeeps DEF End, Answered
<1>3. CASE AfterFailure(c)
  BY <1>3, <1>b, EndKeeps DEF AfterFailure, End, Answered
<1> QED
  BY <1>1, <1>2, <1>3 DEF Answered, NextEvent

LEMMA RedisPublishKeeps ==
    ASSUME BusAssumption, Inv, NEW c \in Calls, RedisPublish(c)
    PROVE  Inv'
<1>a. /\ Typed /\ SentInOrder /\ HeardFromCall /\ MessagesOnce /\ HeardFromLoop
      /\ InboxInOrder /\ OldestIsFirst /\ OncePerPath /\ LocalFirst /\ OldestHearsInOrder
  BY DEF Inv
<1> DEFINE e == Current(c)
<1>0. CASE UNCHANGED <<sent, inbox>>
  BY <1>0, EndKeeps DEF RedisPublish
<1>b. CASE Broadcast(e)
  <2>1. call[c].at = "redis" /\ e \notin sent /\ call[c].n \in DOMAIN Batch[c] /\ e = Batch[c][call[c].n] /\ e \in Events
    BY <1>a, EventPlaces DEF RedisPublish, SentInOrder, Typed, TypeOK, Current
  <2>2. /\ call' \in [Calls -> CallStates] /\ call'[c].at = "sent"
        /\ \A d \in Calls : /\ call'[d].n = call[d].n /\ call'[d].done = call[d].done /\ call'[d].in = call[d].in
                            /\ d # c => call'[d] = call[d]
    BY <1>a, OnlyWhere DEF Typed, RedisPublish
  <2>3. sent' = sent \cup {e} /\ UNCHANGED <<subs, gone, era, linked, loop, heard, missed>>
    BY <1>b DEF Broadcast, RedisPublish
  <2>4. \A p \in Procs : /\ inbox[p] \in Seq(Events) /\ inbox'[p] \in Seq(Events) /\ Len(inbox[p]) \in Nat
                         /\ inbox'[p] = inbox[p] \/ inbox'[p] = Append(inbox[p], e)
    BY <1>b, <1>a, <2>1 DEF Broadcast, Typed, TypeOK
  <2>5. \A p \in Procs : \A i \in 1..Len(inbox'[p]) :
           \/ i \in 1..Len(inbox[p]) /\ inbox'[p][i] = inbox[p][i]
           \/ i = Len(inbox[p]) + 1 /\ inbox'[p][i] = e
    <3> SUFFICES ASSUME NEW p \in Procs, NEW i \in 1..Len(inbox'[p])
                 PROVE  \/ i \in 1..Len(inbox[p]) /\ inbox'[p][i] = inbox[p][i]
                        \/ i = Len(inbox[p]) + 1 /\ inbox'[p][i] = e
      OBVIOUS
    <3> DEFINE s == inbox[p]
               t == inbox'[p]
    <3>1. s \in Seq(Events) /\ (t = s \/ t = Append(s, e)) /\ e \in Events
      BY <2>1, <2>4
    <3> HIDE DEF s, t
    <3> HIDE DEF e
    <3>2. \A m \in 1..Len(t) : (m \in 1..Len(s) /\ t[m] = s[m]) \/ (m = Len(s) + 1 /\ t[m] = e)
      <4>1. CASE t = s
        BY <4>1
      <4>2. CASE t = Append(s, e)
        BY <3>1, <4>2
      <4> QED
        BY <3>1, <4>1, <4>2
    <3> QED
      BY <3>2 DEF s, t
  <2>6. Typed'
    <3>1. inbox' \in [Procs -> Seq(Events)]
      BY <2>4, <1>b DEF Broadcast
    <3>2. \A d \in Calls :
         /\ call'[d].at \in {"idle", "local", "redis", "sent", "ok", "failed"}
         /\ call'[d].n \in DOMAIN Batch[d] /\ call'[d].done \subseteq Handlers /\ call'[d].in \in Nat
      BY <2>2, <1>a DEF Typed, TypeOK, CallStates
    <3>3. sent' \subseteq Events
      BY <2>1, <2>3, <1>a DEF Typed, TypeOK
    <3> QED
      BY <3>1, <3>2, <3>3, <2>2, <2>3, <1>a DEF Typed, TypeOK
  <2>7. SentInOrder'
    <3> SUFFICES ASSUME NEW d \in Calls
                 PROVE  /\ call'[d].at = "idle" => call'[d].n = 1
                        /\ call'[d].at = "ok" => call'[d].n = Len(Batch[d]) /\ Batch[d][call'[d].n] \in sent'
                        /\ call'[d].at \in {"idle", "local", "redis"} => Batch[d][call'[d].n] \notin sent'
                        /\ \A k \in DOMAIN Batch[d] : /\ k < call'[d].n => Batch[d][k] \in sent'
                                                      /\ k > call'[d].n => Batch[d][k] \notin sent'
      BY DEF SentInOrder, Current
    <3>1. call[d].n \in DOMAIN Batch[d] /\ DOMAIN Batch[d] = 1..Len(Batch[d]) /\ Len(Batch[d]) \in Nat
      BY <1>a, EventPlaces DEF Typed, TypeOK
    <3>2. /\ call[d].at = "idle" => call[d].n = 1
          /\ call[d].at = "ok" => call[d].n = Len(Batch[d]) /\ Batch[d][call[d].n] \in sent
          /\ call[d].at \in {"idle", "local", "redis"} => Batch[d][call[d].n] \notin sent
          /\ \A k \in DOMAIN Batch[d] : /\ k < call[d].n => Batch[d][k] \in sent
                                        /\ k > call[d].n => Batch[d][k] \notin sent
      BY <1>a DEF SentInOrder, Current
    <3>3. \A k \in DOMAIN Batch[d] : Batch[d][k] = e => d = c /\ k = call[c].n
      BY <2>1, OnePlace
    <3>4. CASE d = c
      BY <3>1, <3>2, <3>3, <3>4, <2>1, <2>2, <2>3
    <3>5. CASE d # c
      BY <3>1, <3>2, <3>3, <3>5, <2>1, <2>2, <2>3
    <3> QED
      BY <3>4, <3>5
  <2>8. HeardFromCall'
    <3> SUFFICES ASSUME NEW i \in 1..Len(heard), NEW d \in Calls, NEW k \in DOMAIN Batch[d],
                        heard[i].via = "local", heard[i].event = Batch[d][k]
                 PROVE  /\ call'[d].at # "idle" /\ k <= call'[d].n
                        /\ k = call'[d].n => heard[i].handler \in call'[d].done
      BY <2>3 DEF HeardFromCall
    <3>1. /\ call[d].at # "idle" /\ k <= call[d].n
          /\ k = call[d].n => heard[i].handler \in call[d].done
      BY <1>a DEF HeardFromCall
    <3> QED
      BY <3>1, <2>2
  <2>9. MessagesOnce'
    <3>1. \A p \in Procs : \A i \in 1..Len(inbox[p]) : inbox[p][i] # e
      BY <2>1, <1>a DEF MessagesOnce
    <3>2. \A p \in Procs : loop[p][e].at = "idle"
      BY <2>1, <1>a DEF MessagesOnce
    <3>3. ASSUME NEW p \in Procs, NEW i \in 1..Len(inbox'[p])
          PROVE  /\ inbox'[p][i] \in sent' /\ loop'[p][inbox'[p][i]].at = "idle"
                 /\ \A j \in 1..Len(inbox'[p]) : inbox'[p][i] = inbox'[p][j] => i = j
      <4>1. inbox'[p][i] \in sent' /\ loop'[p][inbox'[p][i]].at = "idle"
        <5>1. CASE i \in 1..Len(inbox[p]) /\ inbox'[p][i] = inbox[p][i]
          BY <5>1, <2>3, <1>a DEF MessagesOnce
        <5>2. CASE inbox'[p][i] = e
          BY <5>2, <2>3, <3>2
        <5> QED
          BY <5>1, <5>2, <2>5
      <4>2. ASSUME NEW j \in 1..Len(inbox'[p]), inbox'[p][i] = inbox'[p][j] PROVE i = j
        <5>1. CASE inbox'[p][i] = e
          <6>1. ASSUME NEW m \in 1..Len(inbox'[p]), inbox'[p][m] = e PROVE m = Len(inbox[p]) + 1
            <7>1. \/ m \in 1..Len(inbox[p]) /\ inbox'[p][m] = inbox[p][m]
                  \/ m = Len(inbox[p]) + 1
              BY <2>5
            <7> QED
              BY <7>1, <6>1, <3>1
          <6>2. i = Len(inbox[p]) + 1
            BY <5>1, <6>1
          <6>3. j = Len(inbox[p]) + 1
            BY <5>1, <4>2, <6>1
          <6> QED
            BY <6>2, <6>3
        <5>2. CASE inbox'[p][i] # e
          <6>1. /\ i \in 1..Len(inbox[p]) /\ inbox'[p][i] = inbox[p][i]
                /\ j \in 1..Len(inbox[p]) /\ inbox'[p][j] = inbox[p][j]
            BY <5>2, <4>2, <2>5
          <6> QED
            BY <6>1, <4>2, <1>a DEF MessagesOnce
        <5> QED
          BY <5>1, <5>2
      <4> QED
        BY <4>1, <4>2
    <3> QED
      BY <3>3, <2>3, <1>a DEF MessagesOnce
  <2>10. InboxInOrder'
    <3> SUFFICES ASSUME NEW p \in Procs, NEW d \in Calls, NEW k \in DOMAIN Batch[d], NEW l \in DOMAIN Batch[d],
                        NEW i \in 1..Len(inbox'[p]), k < l, inbox'[p][i] = Batch[d][k]
                 PROVE  /\ loop'[p][Batch[d][l]].at = "idle"
                        /\ \A j \in 1..Len(inbox'[p]) : inbox'[p][j] = Batch[d][l] => i < j
      BY DEF InboxInOrder
    <3>1. CASE i \in 1..Len(inbox[p]) /\ inbox'[p][i] = inbox[p][i]
      <4>1. /\ loop[p][Batch[d][l]].at = "idle"
            /\ \A j \in 1..Len(inbox[p]) : inbox[p][j] = Batch[d][l] => i < j
        <5>1. inbox[p][i] = Batch[d][k]
          BY <3>1
        <5> QED
          BY <5>1, <3>1, <1>a DEF InboxInOrder
      <4> QED
        <5>1. loop'[p][Batch[d][l]].at = "idle"
          BY <4>1, <2>3
        <5>2. ASSUME NEW j \in 1..Len(inbox'[p]), inbox'[p][j] = Batch[d][l] PROVE i < j
          <6>1. CASE j \in 1..Len(inbox[p]) /\ inbox'[p][j] = inbox[p][j]
            BY <5>2, <6>1, <4>1
          <6>2. CASE j = Len(inbox[p]) + 1
            BY <6>2, <3>1, <2>4
          <6> QED
            BY <6>1, <6>2, <2>5
        <5> QED
          BY <5>1, <5>2
    <3>2. CASE i = Len(inbox[p]) + 1 /\ inbox'[p][i] = e
      <4>1. d = c /\ k = call[c].n
        BY <3>2, <2>1, OnePlace
      <4>2. Batch[d][l] \notin sent /\ Batch[d][l] \in Events
        BY <4>1, <1>a, EventPlaces DEF SentInOrder
      <4>6. DOMAIN Batch[d] = 1..Len(Batch[d])
        BY EventPlaces
      <4>7. k # l
        BY <4>6
      <4>5. Batch[d][k] # Batch[d][l]
        BY <4>7, OnePlace
      <4>3. Batch[d][l] # e
        BY <4>5, <3>2
      <4>8. \A j \in 1..Len(inbox[p]) : inbox[p][j] # Batch[d][l]
        BY <4>2, <1>a DEF MessagesOnce
      <4>4. \A j \in 1..Len(inbox'[p]) : inbox'[p][j] # Batch[d][l]
        BY <4>3, <4>8, <2>5
      <4> QED
        BY <4>2, <4>4, <2>3, <1>a DEF MessagesOnce
    <3> QED
      BY <3>1, <3>2, <2>5
  <2>11. OldestIsFirst' /\ HeardFromLoop' /\ OncePerPath' /\ LocalFirst' /\ OldestHearsInOrder'
    BY <1>a, <2>3 DEF OldestIsFirst, AllStay, HeardFromLoop, DoneBefore, Subscribed, OncePerPath, LocalFirst, OldestHearsInOrder, HeardAt
  <2> QED
    BY <2>6, <2>7, <2>8, <2>9, <2>10, <2>11 DEF Inv
<1> QED
  BY <1>0, <1>b DEF RedisPublish

(* A message whose loop begins is the first of those on their way. *)
LEMMA ReceiveKeeps ==
    ASSUME BusAssumption, Inv, NEW p \in Procs, Receive(p)
    PROVE  Inv'
<1>a. Typed /\ MessagesOnce /\ HeardFromLoop /\ InboxInOrder
  BY DEF Inv
<1> DEFINE e == Head(inbox[p])
           s == inbox[p]
<1>b. inbox \in [Procs -> Seq(Events)] /\ heard \in Seq(Hearings) /\ era \in [Procs -> Nat]
  BY <1>a DEF Typed, TypeOK, Hearings
<1>1. s \in Seq(Events) /\ s # <<>> /\ e = s[1]
  BY <1>b DEF Receive
<1> HIDE DEF s
<1>2. /\ e \in Events /\ Tail(s) \in Seq(Events) /\ Len(s) \in Nat /\ 1 \in 1..Len(s)
      /\ \A i \in 1..Len(Tail(s)) : i + 1 \in 1..Len(s) /\ Tail(s)[i] = s[i + 1] /\ i \in Nat
  BY <1>1
<1>3. e \in sent /\ loop[p][e].at = "idle" /\ loop[p][e].done = {}
  BY <1>1, <1>2, <1>a DEF MessagesOnce, s
<1>4. inbox' = [inbox EXCEPT ![p] = Tail(s)]
  BY DEF Receive, s
<1>5. inbox'[p] = Tail(s) /\ inbox' \in [Procs -> Seq(Events)] /\ \A q \in Procs : q # p => inbox'[q] = inbox[q]
  BY <1>b, <1>2, <1>4
<1>6. LeftInInbox(p, e)
  <2>1. ASSUME NEW i \in 1..Len(inbox'[p])
        PROVE  /\ i + 1 \in 1..Len(inbox[p]) /\ inbox'[p][i] = inbox[p][i + 1] /\ inbox'[p][i] # e
               /\ \A c \in Calls : \A k, l \in DOMAIN Batch[c] : k < l /\ Batch[c][l] = e => inbox'[p][i] # Batch[c][k]
    <3>1. i \in Nat /\ i + 1 \in 1..Len(s) /\ inbox'[p][i] = s[i + 1] /\ i + 1 # 1
      BY <1>2, <1>5
    <3>2. s[i + 1] # s[1]
      BY <3>1, <1>2, <1>a DEF MessagesOnce, s
    <3>3. ASSUME NEW c \in Calls, NEW k \in DOMAIN Batch[c], NEW l \in DOMAIN Batch[c], k < l, Batch[c][l] = e, s[i + 1] = Batch[c][k]
          PROVE  FALSE
      <4>1. i + 1 < 1
        <5>1. i + 1 \in 1..Len(inbox[p]) /\ inbox[p][i + 1] = Batch[c][k]
              /\ 1 \in 1..Len(inbox[p]) /\ inbox[p][1] = Batch[c][l]
          BY <3>1, <3>3, <1>1, <1>2 DEF s
        <5>2. \A m \in 1..Len(inbox[p]), n \in 1..Len(inbox[p]) : inbox[p][m] = Batch[c][k] /\ inbox[p][n] = Batch[c][l] => m < n
          BY <3>3, <1>a DEF InboxInOrder
        <5> QED
          BY <5>1, <5>2
      <4> QED
        BY <4>1, <3>1
    <3> QED
      BY <3>1, <3>2, <3>3, <1>1 DEF s
  <2> QED
    BY <2>1, <1>5 DEF LeftInInbox
<1>7. MayLoop(p, e, {}, era[p])
  <2>1. ASSUME NEW i \in 1..Len(heard), heard[i].via = "redis", heard[i].event = e, Home[heard[i].handler] = p PROVE FALSE
    BY <2>1, <1>3, <1>a DEF HeardFromLoop, DoneBefore
  <2>2. ASSUME NEW c \in Calls, NEW k \in DOMAIN Batch[c], NEW l \in DOMAIN Batch[c], k < l, Batch[c][k] = e
        PROVE  loop[p][Batch[c][l]].at = "idle"
    BY <2>2, <1>1, <1>2, <1>a DEF InboxInOrder, s
  <2>3. era[p] \in Nat /\ loop[p][e].done \subseteq {} /\ {} \subseteq Handlers
    BY <1>3, <1>b
  <2>4. ~({} # {} /\ AllStay(p))
    OBVIOUS
  <2> HIDE DEF e
  <2>5. \A i \in 1..Len(heard) :
          heard[i].via = "redis" /\ heard[i].event = e /\ Home[heard[i].handler] = p => heard[i].handler \in {}
    BY <2>1
  <2>6. \A c \in Calls : \A k, l \in DOMAIN Batch[c] : k < l /\ Batch[c][k] = e => loop[p][Batch[c][l]].at = "idle"
    BY <2>2
  <2>7. e \in sent
    BY <1>3
  <2> QED
    BY <2>3, <2>5, <2>6, <2>7 DEF MayLoop
<1>8. LoopNext(p, e, {}, era[p])
  BY DEF Receive, Start
<1> HIDE DEF e
<1> QED
  BY <1>2, <1>6, <1>7, <1>8, LoopKeeps DEF Receive

LEMMA LoopStepKeeps ==
    ASSUME BusAssumption, Inv, NEW p \in Procs, NEW e \in Events, LoopStep(p, e)
    PROVE  Inv'
<1>a. Typed /\ MessagesOnce /\ HeardFromLoop /\ InboxInOrder /\ OldestIsFirst
  BY DEF Inv
<1>b. inbox \in [Procs -> Seq(Events)] /\ loop \in [Procs -> [Events -> States]]
  BY <1>a DEF Typed, TypeOK
<1> DEFINE done == loop[p][e].done
           in == loop[p][e].in
<1>1. loop[p][e].at = "running" /\ e \in sent /\ done \subseteq Handlers /\ in \in Nat
  BY <1>a, <1>b DEF LoopStep, MessagesOnce, States
<1>2. LeftInInbox(p, e)
  <2>1. ASSUME NEW i \in 1..Len(inbox[p])
        PROVE  /\ inbox[p][i] # e
               /\ \A c \in Calls : \A k, l \in DOMAIN Batch[c] : k < l /\ Batch[c][l] = e => inbox[p][i] # Batch[c][k]
    BY <1>1, <1>a DEF MessagesOnce, InboxInOrder
  <2>2. inbox' = inbox
    BY DEF LoopStep
  <2>3. \A i \in 1..Len(inbox[p]) : i + 0 = i
    OBVIOUS
  <2> QED
    BY <2>1, <2>2, <2>3, <1>b DEF LeftInInbox
<1>3. MayLoop(p, e, done, in)
  <2>1. \A i \in 1..Len(heard) :
          heard[i].via = "redis" /\ heard[i].event = e /\ Home[heard[i].handler] = p => heard[i].handler \in done
    BY <1>a DEF HeardFromLoop, DoneBefore
  <2>2. AllStay(p) => subs[p] # <<>> /\ Head(subs[p]) \in done
    BY <1>1, <1>a DEF OldestIsFirst
  <2> QED
    BY <2>1, <2>2, <1>1 DEF MayLoop
<1>4. LoopNext(p, e, done, in)
  BY DEF LoopStep, Resume
<1> HIDE DEF done, in
<1> QED
  BY <1>2, <1>3, <1>4, LoopKeeps DEF LoopStep

(* A connection that breaks takes the messages on their way with it. *)
LEMMA LinkKeeps ==
    ASSUME BusAssumption, Inv, NEW p \in Procs, Unlink(p) \/ Relink(p)
    PROVE  Inv'
<1>a. /\ Typed /\ SentInOrder /\ HeardFromCall /\ MessagesOnce /\ HeardFromLoop
      /\ InboxInOrder /\ OldestIsFirst /\ OncePerPath /\ LocalFirst /\ OldestHearsInOrder
  BY DEF Inv
<1>b. UNCHANGED <<subs, gone, era, call, sent, loop, heard>> /\ TypeOK
  BY <1>a DEF Unlink, Relink, Typed
<1>1. inbox' \in [Procs -> Seq(Events)] /\ \A q \in Procs : inbox'[q] = inbox[q] \/ inbox'[q] = <<>>
  <2>1. inbox \in [Procs -> Seq(Events)] /\ <<>> \in Seq(Events)
    BY <1>b DEF TypeOK
  <2>2. CASE inbox' = [inbox EXCEPT ![p] = <<>>]
    BY <2>1, <2>2
  <2>3. CASE inbox' = inbox
    BY <2>1, <2>3
  <2> QED
    BY <2>2, <2>3 DEF Unlink, Relink
<1>2. linked' \subseteq Procs /\ missed' \subseteq Procs \X Events
  <2>1. CASE Unlink(p)
    <3>3. inbox[p] \in Seq(Events)
      BY <1>b DEF TypeOK
    <3>1. \A i \in 1..Len(inbox[p]) : inbox[p][i] \in Events
      BY <3>3
    <3>4. \A i \in 1..Len(inbox[p]) : <<p, inbox[p][i]>> \in Procs \X Events
      BY <3>1
    <3>2. {<<p, inbox[p][i]>> : i \in 1..Len(inbox[p])} \subseteq Procs \X Events
      <4> SUFFICES ASSUME NEW x \in {<<p, inbox[p][i]>> : i \in 1..Len(inbox[p])} PROVE x \in Procs \X Events
        OBVIOUS
      <4>1. PICK i \in 1..Len(inbox[p]) : x = <<p, inbox[p][i]>>
        OBVIOUS
      <4> QED
        BY <4>1, <3>4
    <3> QED
      BY <2>1, <3>2, <1>b DEF Unlink, TypeOK
  <2>2. CASE Relink(p)
    BY <2>2, <1>b DEF Relink, TypeOK
  <2> QED
    BY <2>1, <2>2
<1>3. Typed'
  BY <1>a, <1>b, <1>1, <1>2 DEF Typed, TypeOK
<1>4. MessagesOnce'
  <2>1. ASSUME NEW q \in Procs, NEW i \in 1..Len(inbox'[q])
        PROVE  /\ inbox'[q][i] \in sent /\ loop[q][inbox'[q][i]].at = "idle"
               /\ \A j \in 1..Len(inbox'[q]) : inbox'[q][i] = inbox'[q][j] => i = j
    <3>1. CASE inbox'[q] = inbox[q]
      BY <3>1, <1>a DEF MessagesOnce
    <3>2. CASE inbox'[q] = <<>>
      BY <3>2
    <3> QED
      BY <3>1, <3>2, <1>1
  <2> QED
    BY <2>1, <1>a, <1>b DEF MessagesOnce
<1>5. InboxInOrder'
  <2> SUFFICES ASSUME NEW q \in Procs, NEW c \in Calls, NEW k \in DOMAIN Batch[c], NEW l \in DOMAIN Batch[c],
                      NEW i \in 1..Len(inbox'[q]), k < l, inbox'[q][i] = Batch[c][k]
               PROVE  /\ loop'[q][Batch[c][l]].at = "idle"
                      /\ \A j \in 1..Len(inbox'[q]) : inbox'[q][j] = Batch[c][l] => i < j
    BY DEF InboxInOrder
  <2>1. inbox'[q] = inbox[q]
    BY <1>1
  <2> QED
    BY <2>1, <1>a, <1>b DEF InboxInOrder
<1>6. SentInOrder' /\ HeardFromCall' /\ OncePerPath' /\ LocalFirst'
  <2>1. SentInOrder' /\ HeardFromCall'
    BY <1>a, <1>b DEF SentInOrder, HeardFromCall, Current
  <2>2. OncePerPath' /\ LocalFirst'
    BY <1>a, <1>b DEF OncePerPath, LocalFirst
  <2> QED
    BY <2>1, <2>2
<1>7. OldestIsFirst'
  BY <1>a, <1>b DEF OldestIsFirst, AllStay
<1>8. HeardFromLoop'
  BY <1>a, <1>b, SameHeard
<1>9. OldestHearsInOrder'
  BY <1>a, <1>b, SameOrder
<1> QED
  BY <1>8, <1>9, <1>3, <1>4, <1>5, <1>6, <1>7 DEF Inv

LEMMA NextInv == ASSUME BusAssumption, Inv, [Next]_vars PROVE Inv'
<1>1. CASE \E h \in Handlers : Subscribe(h) \/ Unsubscribe(h)
  BY <1>1, SubscribeKeeps, UnsubscribeKeeps
<1>2. CASE \E c \in Calls : Publish(c) \/ LocalStep(c) \/ RedisPublish(c) \/ Answered(c)
  BY <1>2, PublishKeeps, RedisPublishKeeps, AnsweredKeeps
<1>3. CASE \E p \in Procs : Receive(p) \/ Unlink(p) \/ Relink(p)
  BY <1>3, ReceiveKeeps, LinkKeeps
<1>4. CASE \E p \in Procs, e \in Events : LoopStep(p, e)
  BY <1>4, LoopStepKeeps
<1>5. CASE UNCHANGED vars
  <2>a. /\ Typed /\ SentInOrder /\ HeardFromCall /\ MessagesOnce /\ HeardFromLoop
        /\ InboxInOrder /\ OldestIsFirst /\ OncePerPath /\ LocalFirst /\ OldestHearsInOrder
    BY DEF Inv
  <2>1. Typed' /\ SentInOrder' /\ HeardFromCall' /\ MessagesOnce'
    <3>0. UNCHANGED <<subs, gone, era, call, sent, linked, inbox, loop, heard, missed>>
      BY <1>5 DEF vars
    <3>4. TypeOK'
      BY <3>0, <2>a DEF Typed, TypeOK
    <3>1. Typed'
      BY <3>0, <3>4, <2>a DEF Typed
    <3>2. SentInOrder' /\ HeardFromCall'
      BY <1>5, <2>a DEF vars, SentInOrder, Current, HeardFromCall
    <3>3. MessagesOnce'
      BY <1>5, <2>a DEF vars, MessagesOnce
    <3> QED
      BY <3>1, <3>2, <3>3
  <2>2. HeardFromLoop' /\ InboxInOrder' /\ OldestIsFirst'
    <3>1. HeardFromLoop'
      BY <1>5, <2>a, SameHeard DEF vars
    <3>2. InboxInOrder'
      BY <1>5, <2>a DEF vars, InboxInOrder
    <3>3. OldestIsFirst'
      BY <1>5, <2>a DEF vars, OldestIsFirst, AllStay
    <3> QED
      BY <3>1, <3>2, <3>3
  <2>3. OncePerPath' /\ LocalFirst' /\ OldestHearsInOrder'
    BY <1>5, <2>a DEF vars, OncePerPath, LocalFirst, OldestHearsInOrder, HeardAt
  <2> QED
    BY <2>1, <2>2, <2>3 DEF Inv
<1> QED
  BY <1>1, <1>2, <1>3, <1>4, <1>5 DEF Next

LEMMA AlwaysInv == Spec => []Inv
<1>1. Init => Inv
  BY InitInv, BusAssumption
<1>2. Inv /\ [Next]_vars => Inv'
  BY NextInv, BusAssumption
<1> QED
  BY <1>1, <1>2, PTL DEF Spec

-----------------------------------------------------------------------------
(* Calls, loops, messages and what was heard have their types: a loop never     *)
(* runs past the handlers of its Set, and no handler is in a Set twice.         *)
THEOREM TypeCorrect == Spec => []TypeOK
<1>1. Inv => TypeOK
  BY DEF Inv, Typed
<1> QED
  BY <1>1, AlwaysInv, PTL

(* No handler is called twice for an event on the same path, though handlers    *)
(* come and go during the loops; and what Redis has of a batch has no gap,      *)
(* whatever is rejected.                                                        *)
THEOREM EachIsHeardOnce == Spec => []HeardOnceWithoutGaps
<1>1. Inv => HeardOnceWithoutGaps
  <2> SUFFICES ASSUME Inv PROVE HeardOnceWithoutGaps
    OBVIOUS
  <2> USE BusAssumption
  <2>1. ASSUME NEW c \in Calls, NEW k \in DOMAIN Batch[c], NEW l \in DOMAIN Batch[c], k < l, Batch[c][l] \in sent
        PROVE  Batch[c][k] \in sent
    <3>4. DOMAIN Batch[c] = 1..Len(Batch[c])
      BY EventPlaces
    <3>5. call[c] \in CallStates
      BY DEF Inv, Typed
    <3>1. k \in Nat /\ l \in Nat /\ call[c].n \in Nat
      BY <3>4, <3>5 DEF CallStates
    <3>2. ~(l > call[c].n)
      BY <2>1 DEF Inv, SentInOrder
    <3>3. k < call[c].n
      BY <3>1, <3>2, <2>1
    <3> QED
      BY <3>3 DEF Inv, SentInOrder
  <2>2. ASSUME NEW c \in Calls, call[c].at = "ok", NEW k \in DOMAIN Batch[c]
        PROVE  Batch[c][k] \in sent
    <3>1. call[c].n = Len(Batch[c]) /\ Batch[c][call[c].n] \in sent
      BY <2>2 DEF Inv, SentInOrder, Current
    <3>2. k \in 1..Len(Batch[c]) /\ Len(Batch[c]) \in Nat
      BY EventPlaces
    <3>3. k < call[c].n => Batch[c][k] \in sent
      BY DEF Inv, SentInOrder
    <3> QED
      BY <3>1, <3>2, <3>3
  <2> QED
    BY <2>1, <2>2 DEF HeardOnceWithoutGaps, NoGaps, Inv
<1> QED
  BY <1>1, AlwaysInv, PTL

(* No handler hears an event from Redis before a local one of the publisher     *)
(* does, and the oldest handler of a process hears a batch in its order.        *)
THEOREM EachIsHeardInOrder == Spec => []HeardInOrder
<1>1. Inv => HeardInOrder
  BY DEF Inv, HeardInOrder
<1> QED
  BY <1>1, AlwaysInv, PTL

-----------------------------------------------------------------------------
(* Every step is one of EventDelivery, or none. *)

LEMMA SubscribedIs ==
    /\ \A h : h \in SubscribedNow <=> \E p \in Procs : \E i \in 1..Len(subs[p]) : subs[p][i] = h
    /\ \A h : h \in SubscribedNow' <=> \E p \in Procs : \E i \in 1..Len(subs'[p]) : subs'[p][i] = h
BY DEF SubscribedNow

(* The promise's variables change with the bus's.                              *)
LEMMA DeliverySame ==
    /\ UNCHANGED subs => UNCHANGED SubscribedNow
    /\ UNCHANGED call => UNCHANGED Told
BY DEF SubscribedNow, Told

LEMMA DeliveryStutters ==
    ASSUME UNCHANGED <<SubscribedNow, gone, sent, Told, heard>>
    PROVE  [Delivery!Next]_Delivery!vars
BY DEF Delivery!vars

(* A hearing that is new, of a handler that is subscribed.                     *)
LEMMA HearingIsDelivered ==
    ASSUME BusAssumption, TypeOK, NEW p \in Procs, NEW done, NEW in, NEW h, NextHandler(p, done, in, h),
           NEW e \in Events, NEW via \in Paths, Hear(h, e, via),
           \A i \in 1..Len(heard) : heard[i].via = via /\ heard[i].event = e /\ Home[heard[i].handler] = p
                                       => heard[i].handler \in done,
           UNCHANGED <<subs, gone, sent, Told>>
    PROVE  h \in Handlers /\ Home[h] = p /\ Delivery!Hear(h, e, via)
<1> DEFINE r == [handler |-> h, event |-> e, via |-> via]
<1>1. h \in Handlers /\ h \notin done /\ Home[h] = p /\ h \in SubscribedNow
  BY SubscribedIs DEF NextHandler
<1>2. r.handler = h /\ r.event = e /\ r.via = via
  OBVIOUS
<1>3. heard' = Append(heard, r)
  BY DEF Hear
<1> HIDE DEF r
<1>4. \A i \in 1..Len(heard) : heard[i] # r
  BY <1>1, <1>2
<1>5. UNCHANGED SubscribedNow
  BY DeliverySame
<1> QED
  BY <1>1, <1>3, <1>4, <1>5 DEF Delivery!Hear, r

(* It is the turn of the event that a loop may begin or go on with.            *)
LEMMA LocalDelivers ==
    ASSUME BusAssumption, Inv, NEW c \in Calls, NEW n, NEW done, NEW in, MayCall(c, n, done, in),
           LocalNext(c, n, done, in), call[c].at \notin {"ok", "failed"}, UNCHANGED <<subs, gone, sent>>
    PROVE  [Delivery!Next]_Delivery!vars
<1>1. Typed /\ TypeOK /\ n \in DOMAIN Batch[c] /\ Batch[c][n] \in Events /\ From[c] \in Procs
  BY EventPlaces DEF Inv, Typed, MayCall, BusAssumption
<1>2. Told[c] = "none" /\ Delivery!Turn(c, n)
  BY <1>1 DEF Told, Delivery!Turn, MayCall
<1>3. ASSUME NEW r, call' = [call EXCEPT ![c] = r], r.at \in {"local", "redis"}
      PROVE  UNCHANGED Told
  <2>1. call \in [Calls -> CallStates]
    BY <1>1 DEF Typed
  <2>2. \A d \in Calls : Told'[d] = Told[d]
    BY <1>2, <1>3, <2>1 DEF Told
  <2> QED
    BY <2>2 DEF Told
<1>4. CASE /\ call' = [call EXCEPT ![c] = [at |-> "redis", n |-> n, done |-> done, in |-> in]]
           /\ heard' = heard
  <2>1. UNCHANGED Told
    BY <1>3, <1>4
  <2> QED
    BY <1>4, <2>1, DeliverySame, DeliveryStutters
<1>5. ASSUME NEW h, NextHandler(From[c], done, in, h),
             call' = [call EXCEPT ![c] = [at |-> "local", n |-> n, done |-> done \cup {h}, in |-> in]],
             Hear(h, Batch[c][n], "local")
      PROVE  Delivery!Next
  <2>1. UNCHANGED Told
    BY <1>3, <1>5
  <2>2. \A i \in 1..Len(heard) :
          heard[i].via = "local" /\ heard[i].event = Batch[c][n] /\ Home[heard[i].handler] = From[c]
             => heard[i].handler \in done
    BY <1>1 DEF MayCall
  <2>3. h \in Handlers /\ Home[h] = From[c] /\ Delivery!Hear(h, Batch[c][n], "local")
    <3> DEFINE e == Batch[c][n]
               p == From[c]
               via == "local"
    <3>1. e \in Events /\ p \in Procs /\ via \in Paths /\ TypeOK
      BY <1>1 DEF Paths
    <3>2. NextHandler(p, done, in, h) /\ Hear(h, e, via) /\ UNCHANGED <<subs, gone, sent, Told>>
      BY <1>5, <2>1
    <3>3. \A i \in 1..Len(heard) : heard[i].via = via /\ heard[i].event = e /\ Home[heard[i].handler] = p
                                       => heard[i].handler \in done
      BY <2>2
    <3> HIDE DEF e, p, via
    <3>4. h \in Handlers /\ Home[h] = p /\ Delivery!Hear(h, e, via)
      BY <3>1, <3>2, <3>3, HearingIsDelivered
    <3> QED
      BY <3>4 DEF e, p, via
  <2>4. Delivery!HearLocally(c, n, h)
    BY <1>2, <2>3 DEF Delivery!HearLocally
  <2> QED
    BY <1>1, <2>3, <2>4 DEF Delivery!Next
<1>6. \/ /\ call' = [call EXCEPT ![c] = [at |-> "redis", n |-> n, done |-> done, in |-> in]]
         /\ heard' = heard
      \/ \E h : /\ NextHandler(From[c], done, in, h)
                /\ call' = [call EXCEPT ![c] = [at |-> "local", n |-> n, done |-> done \cup {h}, in |-> in]]
                /\ Hear(h, Batch[c][n], "local")
  BY <1>1, LocalNextIs, Zenon
<1> QED
  BY <1>4, <1>5, <1>6, Zenon

(* A handler that hears a message was not called for it before.                *)
LEMMA RemoteDelivers ==
    ASSUME BusAssumption, Inv, NEW p \in Procs, NEW e \in sent, NEW done, NEW in, LoopNext(p, e, done, in),
           \A i \in 1..Len(heard) : heard[i].via = "redis" /\ heard[i].event = e /\ Home[heard[i].handler] = p
                                       => heard[i].handler \in done,
           UNCHANGED <<subs, gone, call, sent>>
    PROVE  [Delivery!Next]_Delivery!vars
<1>1. TypeOK /\ e \in Events
  BY DEF Inv, Typed, TypeOK
<1>2. UNCHANGED Told
  BY DeliverySame
<1>3. CASE heard' = heard
  BY <1>2, <1>3, DeliverySame, DeliveryStutters
<1>4. ASSUME NEW h, NextHandler(p, done, in, h), Hear(h, e, "redis")
      PROVE  Delivery!Next
  <2> DEFINE via == "redis"
  <2>2. /\ via \in Paths /\ Hear(h, e, via)
        /\ \A i \in 1..Len(heard) : heard[i].via = via /\ heard[i].event = e /\ Home[heard[i].handler] = p
                                       => heard[i].handler \in done
    BY <1>4 DEF Paths
  <2> HIDE DEF via
  <2>3. h \in Handlers /\ Delivery!Hear(h, e, via)
    BY <1>1, <1>2, <1>4, <2>2, HearingIsDelivered
  <2>1. h \in Handlers /\ Delivery!Hear(h, e, "redis")
    BY <2>3 DEF via
  <2> QED
    BY <2>1 DEF Delivery!Next, Delivery!HearRemotely
<1>5. heard' = heard \/ \E h : NextHandler(p, done, in, h) /\ Hear(h, e, "redis")
  BY <1>1, LoopNextIs, Zenon
<1> QED
  BY <1>3, <1>4, <1>5, Zenon

LEMMA ReceiveDelivers ==
    ASSUME BusAssumption, Inv, NEW p \in Procs, Receive(p)
    PROVE  [Delivery!Next]_Delivery!vars
<1>1. inbox[p] \in Seq(Events) /\ inbox[p] # <<>>
  BY DEF Inv, Typed, TypeOK, Receive
<1>2. Head(inbox[p]) = inbox[p][1] /\ 1 \in 1..Len(inbox[p]) /\ inbox[p][1] \in Events
  BY <1>1
<1> DEFINE e == Head(inbox[p])
<1>3. e \in sent /\ e \in Events /\ loop[p][e].done = {}
  BY <1>2 DEF Inv, MessagesOnce
<1>4. LoopNext(p, e, {}, era[p]) /\ UNCHANGED <<subs, gone, call, sent>>
  BY DEF Receive, Start
<1> HIDE DEF e
<1>5. \A i \in 1..Len(heard) :
        heard[i].via = "redis" /\ heard[i].event = e /\ Home[heard[i].handler] = p => heard[i].handler \in {}
  BY <1>3 DEF Inv, HeardFromLoop, DoneBefore
<1> QED
  BY <1>3, <1>4, <1>5, RemoteDelivers

LEMMA LoopStepDelivers ==
    ASSUME BusAssumption, Inv, NEW p \in Procs, NEW e \in Events, LoopStep(p, e)
    PROVE  [Delivery!Next]_Delivery!vars
<1>1. e \in sent
  BY DEF Inv, MessagesOnce, LoopStep
<1>2. \A i \in 1..Len(heard) :
        heard[i].via = "redis" /\ heard[i].event = e /\ Home[heard[i].handler] = p
           => heard[i].handler \in loop[p][e].done
  BY DEF Inv, HeardFromLoop, DoneBefore
<1> DEFINE done == loop[p][e].done
           in == loop[p][e].in
<1>3. LoopNext(p, e, done, in) /\ UNCHANGED <<subs, gone, call, sent>>
  BY DEF LoopStep, Resume
<1>4. \A i \in 1..Len(heard) :
        heard[i].via = "redis" /\ heard[i].event = e /\ Home[heard[i].handler] = p => heard[i].handler \in done
  BY <1>2
<1> HIDE DEF done, in
<1> QED
  BY <1>1, <1>3, <1>4, RemoteDelivers

(* An event is sent in its turn.                                               *)
LEMMA RedisPublishDelivers ==
    ASSUME BusAssumption, Inv, NEW c \in Calls, RedisPublish(c)
    PROVE  [Delivery!Next]_Delivery!vars
<1>1. call \in [Calls -> CallStates] /\ call[c].at = "redis" /\ call' = [call EXCEPT ![c].at = "sent"]
  BY DEF Inv, Typed, RedisPublish
<1>2. UNCHANGED Told
  <2>1. \A d \in Calls : Told'[d] = Told[d]
    BY <1>1, OnlyWhere DEF Told
  <2> QED
    BY <2>1 DEF Told
<1>3. UNCHANGED <<SubscribedNow, gone, heard>>
  BY DeliverySame DEF RedisPublish
<1>4. CASE UNCHANGED sent
  BY <1>2, <1>3, <1>4, DeliveryStutters
<1>5. CASE Broadcast(Current(c))
  <2>1. call[c].n \in DOMAIN Batch[c] /\ DOMAIN Batch[c] = 1..Len(Batch[c]) /\ Len(Batch[c]) \in Nat
    BY EventPlaces DEF Inv, Typed, TypeOK
  <2>2. \A k \in DOMAIN Batch[c] : k < call[c].n <=> Batch[c][k] \in sent
    BY <1>1, <2>1 DEF Inv, SentInOrder, Current
  <2>3. Delivery!Turn(c, call[c].n)
    BY <1>1, <2>2 DEF Delivery!Turn, Told
  <2>4. Delivery!Send(c, call[c].n)
    BY <1>2, <1>3, <1>5, <2>3 DEF Delivery!Send, Broadcast, Current
  <2> QED
    BY <2>1, <2>4 DEF Delivery!Next
<1> QED
  BY <1>4, <1>5 DEF RedisPublish

(* A batch that is reported as published was sent entirely.                    *)
LEMMA AnsweredDelivers ==
    ASSUME BusAssumption, Inv, NEW c \in Calls, Answered(c)
    PROVE  [Delivery!Next]_Delivery!vars
<1>1. /\ call \in [Calls -> CallStates] /\ call[c].at = "sent" /\ call[c].n \in DOMAIN Batch[c]
      /\ DOMAIN Batch[c] = 1..Len(Batch[c]) /\ Len(Batch[c]) \in Nat
      /\ UNCHANGED <<subs, gone>>
  BY EventPlaces DEF Inv, Typed, TypeOK, Answered
<1>2. ASSUME NEW told \in {"ok", "failed"}, End(c, told),
             told = "ok" => \A k \in DOMAIN Batch[c] : Batch[c][k] \in sent
      PROVE  Delivery!Next
  <2>1. call'[c].at = told /\ \A d \in Calls : d # c => call'[d] = call[d]
    BY <1>1, <1>2, OnlyWhere DEF End
  <2>2. \A d \in Calls : Told'[d] = IF d = c THEN told ELSE Told[d]
    BY <2>1 DEF Told
  <2>3. Told' = [Told EXCEPT ![c] = told]
    BY <2>2 DEF Told
  <2>4. Told[c] = "none"
    BY <1>1 DEF Told
  <2>5. UNCHANGED <<SubscribedNow, gone, sent, heard>>
    BY <1>1, <1>2, DeliverySame DEF End
  <2>6. Delivery!Answer(c, told)
    BY <1>2, <2>3, <2>4, <2>5 DEF Delivery!Answer
  <2> QED
    BY <2>6 DEF Delivery!Next
<1>3. CASE Current(c) \in sent /\ More(c) /\ Begin(c, call[c].n + 1)
  <2>1. MayCall(c, call[c].n + 1, {}, era[From[c]])
    BY <1>1, <1>3, NextEventCalls
  <2>2. LocalNext(c, call[c].n + 1, {}, era[From[c]]) /\ UNCHANGED sent
    BY <1>3 DEF Begin
  <2>3. call[c].at \notin {"ok", "failed"} /\ UNCHANGED <<subs, gone, sent>>
    BY <1>1, <2>2
  <2> QED
    BY <2>1, <2>2, <2>3, LocalDelivers, Zenon
<1>4. CASE Current(c) \in sent /\ ~More(c) /\ End(c, "ok")
  <2>1. call[c].n = Len(Batch[c])
    BY <1>1, <1>4 DEF More
  <2>2. \A k \in DOMAIN Batch[c] : k < call[c].n \/ k = call[c].n
    BY <1>1, <2>1
  <2>3. \A k \in DOMAIN Batch[c] : Batch[c][k] \in sent
    BY <1>4, <2>2 DEF Inv, SentInOrder, Current
  <2> QED
    BY <1>2, <1>4, <2>3
<1>5. CASE AfterFailure(c)
  BY <1>2, <1>5 DEF AfterFailure
<1> QED
  BY <1>3, <1>4, <1>5 DEF Answered, NextEvent

(* A handler joins the Set of its process and leaves it.                       *)
LEMMA SubscribeDelivers ==
    ASSUME BusAssumption, Inv, NEW h \in Handlers, Subscribe(h)
    PROVE  [Delivery!Next]_Delivery!vars
<1> DEFINE home == Home[h]
<1>1. /\ subs \in [Procs -> Seq(Handlers)] /\ home \in Procs /\ h \notin gone
      /\ \A i \in 1..Len(subs[home]) : subs[home][i] # h
      /\ \A q \in Procs : \A i \in 1..Len(subs[q]) : Home[subs[q][i]] = q
  BY DEF Inv, Typed, TypeOK, BusAssumption, Subscribe, Fresh
<1>2. subs' = [subs EXCEPT ![home] = Append(@, h)] /\ UNCHANGED <<gone, call, sent, heard>>
  BY DEF Subscribe
<1>3. h \notin SubscribedNow
  <2>1. ASSUME NEW q \in Procs, NEW i \in 1..Len(subs[q]), subs[q][i] = h PROVE FALSE
    <3>1. q = home
      BY <1>1, <2>1
    <3> QED
      BY <1>1, <2>1, <3>1
  <2> QED
    BY <2>1, SubscribedIs
<1> HIDE DEF home
<1>4. IsAppended(subs[home], h, subs'[home]) /\ \A q \in Procs : q # home => subs'[q] = subs[q]
  BY <1>1, <1>2, AppendedTo
<1>5. \A g : g \in SubscribedNow' <=> g \in SubscribedNow \/ g = h
  <2>1. ASSUME NEW g, g \in SubscribedNow' PROVE g \in SubscribedNow \/ g = h
    <3>0. PICK q \in Procs : \E i \in 1..Len(subs'[q]) : subs'[q][i] = g
      BY <2>1, SubscribedIs
    <3>1. PICK i \in 1..Len(subs'[q]) : subs'[q][i] = g
      BY <3>0
    <3>2. CASE q = home
      <4>1. (i \in 1..Len(subs[home]) /\ g = subs[home][i]) \/ g = h
        BY <3>1, <3>2, <1>4, Zenon DEF IsAppended
      <4> QED
        BY <4>1, <1>1, SubscribedIs
    <3>3. CASE q # home
      BY <3>1, <3>3, <1>4, SubscribedIs
    <3> QED
      BY <3>2, <3>3
  <2>2. ASSUME NEW g, g \in SubscribedNow PROVE g \in SubscribedNow'
    <3>0. PICK q \in Procs : \E i \in 1..Len(subs[q]) : subs[q][i] = g
      BY <2>2, SubscribedIs
    <3>1. PICK i \in 1..Len(subs[q]) : subs[q][i] = g
      BY <3>0
    <3>2. i \in 1..Len(subs'[q]) /\ subs'[q][i] = g
      BY <3>1, <1>4 DEF IsAppended
    <3> QED
      BY <3>2, SubscribedIs
  <2>3. h \in SubscribedNow'
    <3>1. Len(subs'[home]) \in 1..Len(subs'[home]) /\ subs'[home][Len(subs'[home])] = h
      <4>1. Len(subs'[home]) = Len(subs[home]) + 1 /\ Len(subs[home]) \in Nat
        BY <1>4 DEF IsAppended
      <4>2. Len(subs'[home]) \in 1..Len(subs'[home]) /\ Len(subs'[home]) \notin 1..Len(subs[home])
        BY <4>1
      <4> QED
        BY <4>2, <1>4 DEF IsAppended
    <3> QED
      BY <3>1, <1>1, SubscribedIs
  <2> QED
    BY <2>1, <2>2, <2>3
<1>6. UNCHANGED <<heard, Told>>
  BY <1>2, DeliverySame
<1>7. SubscribedNow' = SubscribedNow \cup {h}
  BY <1>5
<1>8. Delivery!Join(h)
  BY <1>1, <1>2, <1>3, <1>6, <1>7 DEF Delivery!Join
<1> QED
  BY <1>8 DEF Delivery!Next

LEMMA UnsubscribeDelivers ==
    ASSUME BusAssumption, Inv, NEW h \in Handlers, Unsubscribe(h)
    PROVE  [Delivery!Next]_Delivery!vars
<1> DEFINE home == Home[h]
<1>1. /\ subs \in [Procs -> Seq(Handlers)] /\ home \in Procs
      /\ \A q \in Procs : \A i, j \in 1..Len(subs[q]) :
            Home[subs[q][i]] = q /\ (subs[q][i] = subs[q][j] => i = j)
  BY DEF Inv, Typed, TypeOK, BusAssumption
<1>2. PICK x \in 1..Len(subs[home]) : subs[home][x] = h /\ subs' = [subs EXCEPT ![home] = RemoveAt(@, x)]
  BY DEF Unsubscribe
<1>3. gone' = gone \cup {h} /\ UNCHANGED <<call, sent, heard>>
  BY DEF Unsubscribe
<1>9. Home[h] = home
  BY DEF home
<1> HIDE DEF home
<1>4. IsCut(subs[home], x, subs'[home]) /\ \A q \in Procs : q # home => subs'[q] = subs[q]
  BY <1>1, <1>2, RemovedTo
<1>5. h \in SubscribedNow
  BY <1>1, <1>2, SubscribedIs
<1>6. \A g : g \in SubscribedNow' <=> g \in SubscribedNow /\ g # h
  <2>1. ASSUME NEW g, g \in SubscribedNow' PROVE g \in SubscribedNow /\ g # h
    <3>0. PICK q \in Procs : \E i \in 1..Len(subs'[q]) : subs'[q][i] = g
      BY <2>1, SubscribedIs
    <3>1. PICK i \in 1..Len(subs'[q]) : subs'[q][i] = g
      BY <3>0
    <3>2. PICK j \in 1..Len(subs[q]) : subs[q][j] = g /\ (q = home => j # x)
      <4>1. CASE q = home
        <5>1. i \in 1..Len(subs[q]) - 1 /\ Len(subs[q]) \in Nat /\ x \in 1..Len(subs[q])
              /\ g = IF i < x THEN subs[q][i] ELSE subs[q][i + 1]
          <6>1. Len(subs'[q]) = Len(subs[q]) - 1 /\ x \in 1..Len(subs[q]) /\ Len(subs[q]) \in Nat
            BY <4>1, <1>4, <1>2 DEF IsCut
          <6>2. i \in 1..Len(subs[q]) - 1
            BY <3>1, <6>1
          <6>3. subs'[q][i] = IF i < x THEN subs[q][i] ELSE subs[q][i + 1]
            BY <4>1, <6>2, <1>4 DEF IsCut
          <6> QED
            BY <3>1, <6>1, <6>2, <6>3, Zenon
        <5>2. CASE i < x
          <6>1. i \in 1..Len(subs[q]) /\ i # x /\ subs[q][i] = g
            BY <5>1, <5>2
          <6> QED
            BY <6>1
        <5>3. CASE ~(i < x)
          <6>1. i + 1 \in 1..Len(subs[q]) /\ i + 1 # x /\ subs[q][i + 1] = g
            BY <5>1, <5>3
          <6> QED
            BY <6>1
        <5> QED
          BY <5>2, <5>3
      <4>2. CASE q # home
        <5>1. subs'[q] = subs[q]
          BY <4>2, <1>4
        <5> QED
          BY <3>1, <4>2, <5>1
      <4> QED
        BY <4>1, <4>2
    <3>3. g # h
      <4>1. CASE q = home
        <5>1. j # x /\ subs[home][j] # subs[home][x]
          BY <3>2, <4>1, <1>1
        <5> QED
          BY <5>1, <3>2, <4>1, <1>2
      <4>2. CASE q # home
        <5>1. Home[g] = q
          BY <3>2, <1>1
        <5> QED
          BY <5>1, <4>2, <1>9
      <4> QED
        BY <4>1, <4>2
    <3> QED
      BY <3>2, <3>3, SubscribedIs
  <2>2. ASSUME NEW g, g \in SubscribedNow, g # h PROVE g \in SubscribedNow'
    <3>0. PICK q \in Procs : \E j \in 1..Len(subs[q]) : subs[q][j] = g
      BY <2>2, SubscribedIs
    <3>1. PICK j \in 1..Len(subs[q]) : subs[q][j] = g
      BY <3>0
    <3>2. \E i \in 1..Len(subs'[q]) : subs'[q][i] = g
      <4>1. CASE q = home
        <5>1. j # x /\ Len(subs'[q]) = Len(subs[q]) - 1 /\ Len(subs[q]) \in Nat /\ x \in 1..Len(subs[q])
              /\ \A i \in 1..Len(subs[q]) - 1 : subs'[q][i] = IF i < x THEN subs[q][i] ELSE subs[q][i + 1]
          BY <3>1, <4>1, <2>2, <1>2, <1>4 DEF IsCut
        <5>2. CASE j < x
          <6>1. j \in 1..Len(subs[q]) - 1
            BY <5>1, <5>2, <3>1
          <6>2. j \in 1..Len(subs'[q]) /\ subs'[q][j] = subs[q][j]
            BY <5>1, <5>2, <6>1
          <6> QED
            BY <6>2, <3>1
        <5>3. CASE ~(j < x)
          <6>1. j - 1 \in 1..Len(subs[q]) - 1 /\ ~(j - 1 < x) /\ (j - 1) + 1 = j
            BY <5>1, <5>3
          <6>2. j - 1 \in 1..Len(subs'[q]) /\ subs'[q][j - 1] = subs[q][j]
            BY <5>1, <6>1
          <6> QED
            BY <6>2, <3>1
        <5> QED
          BY <5>2, <5>3
      <4>2. CASE q # home
        BY <3>1, <4>2, <1>4
      <4> QED
        BY <4>1, <4>2
    <3> QED
      BY <3>2, SubscribedIs
  <2> QED
    BY <2>1, <2>2
<1>7. UNCHANGED <<heard, Told>>
  BY <1>3, DeliverySame
<1>8. SubscribedNow' = SubscribedNow \ {h}
  BY <1>6
<1>10. Delivery!Leave(h)
  BY <1>3, <1>5, <1>7, <1>8 DEF Delivery!Leave
<1> QED
  BY <1>10 DEF Delivery!Next

LEMMA DeliveryInit == ASSUME BusAssumption, Init PROVE Delivery!Init
<1>1. ASSUME NEW h \in SubscribedNow PROVE h \in Handlers
  <2>0. PICK p \in Procs : \E i \in 1..Len(subs[p]) : subs[p][i] = h
    BY SubscribedIs
  <2>1. PICK i \in 1..Len(subs[p]) : subs[p][i] = h
    BY <2>0
  <2>2. subs[p] \in Seq(Handlers)
    BY DEF Init, BusAssumption
  <2> QED
    BY <2>1, <2>2
<1>2. Told = [c \in Calls |-> "none"]
  BY DEF Told, Init
<1> QED
  BY <1>1, <1>2 DEF Delivery!Init, Init

LEMMA DeliveryNext == ASSUME BusAssumption, Inv, [Next]_vars PROVE [Delivery!Next]_Delivery!vars
<1>1. ASSUME NEW h \in Handlers, Subscribe(h) \/ Unsubscribe(h) PROVE [Delivery!Next]_Delivery!vars
  BY <1>1, SubscribeDelivers, UnsubscribeDelivers
<1>2. ASSUME NEW c \in Calls, Publish(c) PROVE [Delivery!Next]_Delivery!vars
  BY <1>2, PublishCalls, LocalDelivers
<1>3. ASSUME NEW c \in Calls, LocalStep(c) PROVE [Delivery!Next]_Delivery!vars
  BY <1>3, LocalStepCalls, LocalDelivers DEF LocalStep
<1>4. ASSUME NEW c \in Calls, RedisPublish(c) \/ Answered(c) PROVE [Delivery!Next]_Delivery!vars
  BY <1>4, RedisPublishDelivers, AnsweredDelivers
<1>5. ASSUME NEW p \in Procs, Receive(p) PROVE [Delivery!Next]_Delivery!vars
  BY <1>5, ReceiveDelivers
<1>6. ASSUME NEW p \in Procs, Unlink(p) \/ Relink(p) PROVE [Delivery!Next]_Delivery!vars
  <2>1. UNCHANGED <<subs, gone, call, sent, heard>>
    BY <1>6 DEF Unlink, Relink
  <2> QED
    BY <2>1, DeliverySame, DeliveryStutters
<1>7. ASSUME NEW p \in Procs, NEW e \in Events, LoopStep(p, e) PROVE [Delivery!Next]_Delivery!vars
  BY <1>7, LoopStepDelivers
<1>8. CASE UNCHANGED vars
  BY <1>8, DeliverySame, DeliveryStutters DEF vars
<1> QED
  BY <1>1, <1>2, <1>3, <1>4, <1>5, <1>6, <1>7, <1>8 DEF Next

(* The buses and Redis implement EventDelivery: each hearing is of a subscribed  *)
(* handler, new, and in its event's turn or after it was sent; batches are sent  *)
(* in order without gaps, and not after they were reported as failed.            *)
THEOREM DeliveryIsKept == Spec => KeepsDelivery
<1>1. Init => Delivery!Init
  BY DeliveryInit, BusAssumption
<1>2. Inv /\ [Next]_vars => [Delivery!Next]_Delivery!vars
  BY DeliveryNext, BusAssumption
<1> QED
  BY <1>1, <1>2, AlwaysInv, PTL DEF Spec, KeepsDelivery, Delivery!Spec

=============================================================================
