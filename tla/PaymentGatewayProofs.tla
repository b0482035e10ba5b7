------------------------ MODULE PaymentGatewayProofs ------------------------
(***************************************************************************)
(* The payment gateway, proved for any calls, requests, fallbacks and      *)
(* faults.  The invariant has four parts: what the state looks like        *)
(* (Shaped), which providers a call has tried and which intents are its    *)
(* own (ChargedInv), how the refunds add up (MoneyInv), and that what is   *)
(* announced or about to be is so (TruthInv).  The first is inductive by   *)
(* itself, each of the others with it.                                     *)
(***************************************************************************)
EXTENDS PaymentGateway, TLAPS

(* The shape of the state. *)
EventNames == {"none", "payment.created", "payment.captured", "refund.created",
               "payment.succeeded", "payment.failed", "payment.canceled", "refund.updated"}
HookNames == {"charge.succeeded", "payment_intent.succeeded", "charge.failed",
              "payment_intent.payment_failed", "payment_intent.canceled", "refund.updated"}
Labels == {"idle", "charging", "confirming", "announcing", "capturing", "checking", "refunding",
           "ok", "failed"}
KnownOrNone == Known \cup {"none"}

CallRecord ==
    [at : Labels, kind : {"none", "pay", "capture", "refund", "hook"}, request : Requests,
     selected : KnownOrNone, provider : KnownOrNone, next : 1..(Len(Fallbacks) + 1), amount : Nat,
     event : [name : EventNames, of : Nat]]
Intent ==
    [call : Calls, key : {r.key : r \in Requests}, amount : Nat \ {0},
     manual : {r.manual : r \in Requests},
     status : {"requires_confirmation", "requires_payment_method", "requires_capture",
               "processing", "succeeded", "canceled"},
     received : Nat, refunded : Int]
RefundRecord ==
    [call : Calls, intent : Nat, amount : Nat, status : {"pending", "succeeded", "failed"}]

Located(c) ==
    /\ call[c].at = "charging" => call[c].provider \in Elements(registered)
    /\ call[c].at \in {"confirming", "capturing", "checking", "refunding"} =>
          call[c].event.of \in 1..Len(intents)

Shaped ==
    /\ setup \in 0..Len(Listed) /\ registered \in Seq(Known)
    /\ call \in [Calls -> CallRecord]
    /\ intents \in Seq(Intent) /\ refunds \in Seq(RefundRecord)
    /\ hooks \subseteq [name : HookNames, of : Nat]
    /\ published \subseteq [name : EventNames, of : Nat]
    /\ \A n \in 1..Len(refunds) : refunds[n].intent \in 1..Len(intents)
    /\ \A c \in Calls : Located(c)

(* A call tries the provider it selected, then each fallback from left to      *)
(* right; it never comes back to one.  It is the call, as a record, that is    *)
(* asked here which providers it has tried.                                    *)
Tried(r, p) ==
    \/ r.selected = p
    \/ \E m \in 1..Len(Fallbacks) : m < r.next /\ Fallbacks[m] = p
HasCharged(c) == \E i \in 1..Len(intents) : intents[i].call = c

Charging(c) ==
    /\ Tried(call[c], call[c].provider)
    /\ HasCharged(c) => Tried(call[c], "stripe")
    /\ call[c].at = "charging" /\ call[c].provider = "stripe" => ~HasCharged(c)

(* An intent has its call's key, and no two share a call or a key.             *)
ChargedInv ==
    /\ \A c \in Calls : Charging(c)
    /\ \A i \in 1..Len(intents) : intents[i].key = RequestKey(i)
    /\ \A i, j \in 1..Len(intents) :
          intents[i].call = intents[j].call \/ (intents[i].key = intents[j].key /\ intents[i].key # NoKey)
              => i = j

(* A running total of the refunds of intent i in list that have not failed: no *)
(* higher than held, the amount Stripe counts as refunded.                     *)
Accounts(list, i, held, total) ==
    /\ total \in [0..Len(list) -> Nat]
    /\ total[Len(list)] <= held
    /\ \A m, n \in 0..Len(list) : m <= n => total[m] <= total[n]
    /\ \A n \in 1..Len(list) :
          list[n].intent = i /\ list[n].status # "failed" =>
             total[n - 1] + list[n].amount <= total[n]

(* Money is received when the intent succeeds, and only then.                  *)
Balanced(x) ==
    /\ x.refunded <= x.received /\ x.received <= x.amount
    /\ IF x.status = "succeeded" THEN x.received > 0 ELSE x.received = 0

MoneyInv ==
    \A i \in 1..Len(intents) :
        /\ Balanced(intents[i])
        /\ \E total : Accounts(refunds, i, intents[i].refunded, total)

(* What an event says is so, and what a notification says: of these intents    *)
(* and refunds.                                                                *)
Succeeded(i, ints) == i \in 1..Len(ints) /\ ints[i].status = "succeeded"
Canceled(i, ints) == i \in 1..Len(ints) /\ ints[i].status = "canceled"
Authorized(i, ints) ==
    i \in 1..Len(ints) /\ (ints[i].status = "succeeded" \/ HeldOnly(ints[i]))

IsTrue(e, ints, list) ==
    /\ e.name = "payment.created" => e.of \in 1..Len(ints)
    /\ e.name = "payment.succeeded" => Authorized(e.of, ints)
    /\ e.name = "payment.captured" => Succeeded(e.of, ints)
    /\ e.name = "payment.canceled" => Canceled(e.of, ints)
    /\ e.name = "refund.created" => e.of \in 1..Len(list)

Tells(name, i, ints) ==
    /\ name = "charge.succeeded" => Authorized(i, ints)
    /\ name = "payment_intent.succeeded" => Succeeded(i, ints)
    /\ name = "payment_intent.canceled" => Canceled(i, ints)

TruthInv ==
    /\ \A c \in Calls :
          call[c].at \in {"confirming", "announcing"} => IsTrue(call[c].event, intents, refunds)
    /\ \A e \in published : IsTrue(e, intents, refunds)
    /\ \A h \in hooks : Tells(h.name, h.of, intents)
    /\ AnsweredIsPublished

IInv == Shaped /\ ChargedInv /\ MoneyInv /\ TruthInv

-----------------------------------------------------------------------------
(* What the assignments of the actions do to a call and to an intent. *)

LEMMA GotoType ==
    ASSUME Shaped, NEW c \in Calls, NEW r \in CallRecord, Goto(c, r)
    PROVE  /\ call' \in [Calls -> CallRecord] /\ call'[c] = r
           /\ \A d \in Calls : d # c => call'[d] = call[d]
  BY DEF Shaped, Goto

(* What stays of a call that goes on. *)
Same(c, r) ==
    /\ r.kind = call[c].kind /\ r.request = call[c].request
    /\ r.selected = call[c].selected /\ r.amount = call[c].amount

LEMMA AtType ==
    ASSUME Shaped, NEW c \in Calls, NEW at \in Labels
    PROVE  /\ [call[c] EXCEPT !.at = at] \in CallRecord
           /\ Same(c, [call[c] EXCEPT !.at = at])
           /\ [call[c] EXCEPT !.at = at].at = at
           /\ [call[c] EXCEPT !.at = at].event = call[c].event
           /\ [call[c] EXCEPT !.at = at].next = call[c].next
           /\ [call[c] EXCEPT !.at = at].provider = call[c].provider
<1>1. call[c] \in CallRecord
  BY DEF Shaped
<1> QED
  BY <1>1 DEF CallRecord, Same

LEMMA EventType ==
    ASSUME NEW name \in EventNames, NEW of \in Nat
    PROVE  /\ Event(name, of) \in [name : EventNames, of : Nat]
           /\ Event(name, of).name = name /\ Event(name, of).of = of
  BY DEF Event

(* A call that is about to publish e. *)
Announces(c, r, e) ==
    /\ r \in CallRecord /\ Same(c, r) /\ r.event = e
    /\ r.next = call[c].next /\ r.provider = call[c].provider

LEMMA AnnouncingType ==
    ASSUME Shaped, NEW c \in Calls, NEW e \in [name : EventNames, of : Nat]
    PROVE  Announces(c, Announcing(c, e), e) /\ Announcing(c, e).at = "announcing"
<1>1. call[c] \in CallRecord
  BY DEF Shaped
<1>2. "announcing" \in Labels
  BY DEF Labels
<1> QED
  BY <1>1, <1>2 DEF CallRecord, Same, Announces, Announcing

LEMMA AfterCreateType ==
    ASSUME Shaped, NEW c \in Calls, NEW i \in Nat
    PROVE  /\ Announces(c, AfterCreate(c, i), Event("payment.created", i))
           /\ AfterCreate(c, i).at \in {"confirming", "announcing"}
           /\ AfterCreate(c, i).event.name = "payment.created"
           /\ AfterCreate(c, i).event.of = i
<1> DEFINE e == Event("payment.created", i)
<1>1. e \in [name : EventNames, of : Nat] /\ e.name = "payment.created" /\ e.of = i
  <2>1. "payment.created" \in EventNames
    BY DEF EventNames
  <2> QED
    BY <2>1, EventType
<1> HIDE DEF e
<1>2. Announces(c, Announcing(c, e), e) /\ Announcing(c, e).at = "announcing"
  BY <1>1, AnnouncingType
<1> DEFINE r == Announcing(c, e)
           at == IF call[c].request.confirm THEN "confirming" ELSE r.at
<1>3. r \in CallRecord /\ at \in {"confirming", "announcing"}
  BY <1>2 DEF Announces
<1>4. at \in Labels
  BY <1>3 DEF Labels
<1>5. AfterCreate(c, i) = [r EXCEPT !.at = at]
  BY DEF AfterCreate, e
<1> HIDE DEF r, at
<1>6. Announces(c, r, e)
  BY <1>2 DEF r
<1>7. /\ [r EXCEPT !.at = at] \in CallRecord
      /\ [r EXCEPT !.at = at].at = at
      /\ Announces(c, [r EXCEPT !.at = at], e)
  BY <1>3, <1>4, <1>6 DEF CallRecord, Announces, Same
<1>8. [r EXCEPT !.at = at].event = e
  BY <1>7 DEF Announces
<1> QED
  BY <1>1, <1>3, <1>5, <1>7, <1>8 DEF e

(* A call that goes on after an error: it gives up, or it turns to a fallback  *)
(* it has not passed yet.                                                      *)
Retried(c, r) ==
    /\ r \in CallRecord /\ Same(c, r) /\ r.event = call[c].event
    /\ \/ r.at = "failed" /\ r.next = call[c].next /\ r.provider = call[c].provider
       \/ /\ r.at = "charging" /\ Usable(r.provider, r.selected)
          /\ \E i \in 1..Len(Fallbacks) :
                call[c].next <= i /\ r.provider = Fallbacks[i] /\ r.next = i + 1

LEMMA AfterErrorType ==
    ASSUME Shaped, NEW c \in Calls, AfterError(c)
    PROVE  \E r \in CallRecord : Goto(c, r) /\ Retried(c, r)
<1>0. call[c] \in CallRecord /\ call[c].next \in Nat /\ call[c].next >= 1
  BY GatewayAssumption DEF Shaped, CallRecord
<1>1. CASE Goto(c, [call[c] EXCEPT !.at = "failed"])
  <2>1. "failed" \in Labels
    BY DEF Labels
  <2> QED
    BY <1>1, <2>1, AtType DEF Retried
<1>2. CASE \E i \in {i \in call[c].next..Len(Fallbacks) : Usable(Fallbacks[i], call[c].selected)} :
               Goto(c, [call[c] EXCEPT !.at = "charging", !.provider = Fallbacks[i], !.next = Following(i)])
  <2> PICK i \in call[c].next..Len(Fallbacks) :
             /\ Usable(Fallbacks[i], call[c].selected)
             /\ Goto(c, [call[c] EXCEPT !.at = "charging", !.provider = Fallbacks[i], !.next = Following(i)])
    BY <1>2
  <2>1. i \in 1..Len(Fallbacks) /\ call[c].next <= i /\ Len(Fallbacks) \in Nat
    BY <1>0, GatewayAssumption
  <2> DEFINE p == Fallbacks[i]
             r == [call[c] EXCEPT !.at = "charging", !.provider = p, !.next = i + 1]
  <2>2. p \in KnownOrNone /\ Usable(p, call[c].selected)
    BY <2>1, GatewayAssumption DEF KnownOrNone
  <2>3. "charging" \in Labels /\ i + 1 \in 1..(Len(Fallbacks) + 1)
    BY <2>1 DEF Labels
  <2>4. Goto(c, r)
    BY DEF Following
  <2>5. p = Fallbacks[i]
    OBVIOUS
  <2> HIDE DEF p
  <2>6. r \in CallRecord /\ Same(c, r) /\ r.event = call[c].event
    BY <1>0, <2>2, <2>3 DEF CallRecord, Same
  <2>7. r.at = "charging" /\ r.provider = p /\ r.next = i + 1 /\ r.selected = call[c].selected
    BY <1>0 DEF CallRecord
  <2> HIDE DEF r
  <2> QED
    BY <2>1, <2>2, <2>4, <2>5, <2>6, <2>7 DEF Retried
<1> QED
  BY <1>1, <1>2 DEF AfterError

LEMMA IdleType == Idle \in CallRecord
<1>1. (CHOOSE r \in Requests : TRUE) \in Requests
  BY GatewayAssumption
<1>2. 1 \in 1..(Len(Fallbacks) + 1)
  BY GatewayAssumption
<1>3. NoEvent \in [name : EventNames, of : Nat]
  BY DEF NoEvent, Event, EventNames
<1>4. "none" \in KnownOrNone
  BY DEF KnownOrNone
<1>5. "idle" \in Labels
  BY DEF Labels
<1> QED
  BY <1>1, <1>2, <1>3, <1>4, <1>5 DEF Idle, CallRecord

(* An intent that changes keeps whose it is and what it is for. *)
IntentStatuses == {"requires_confirmation", "requires_payment_method", "requires_capture",
                   "processing", "succeeded", "canceled"}

Became(i, status, received, refunded) ==
    /\ intents' \in Seq(Intent) /\ Len(intents') = Len(intents)
    /\ intents'[i].call = intents[i].call /\ intents'[i].key = intents[i].key
    /\ intents'[i].amount = intents[i].amount /\ intents'[i].manual = intents[i].manual
    /\ intents'[i].status = status /\ intents'[i].received = received
    /\ intents'[i].refunded = refunded
    /\ \A j \in 1..Len(intents) : j # i => intents'[j] = intents[j]

LEMMA SeqUpdate ==
    ASSUME NEW S, NEW s \in Seq(S), NEW i \in 1..Len(s), NEW x \in S, NEW t,
           t = [s EXCEPT ![i] = x]
    PROVE  /\ t \in Seq(S) /\ Len(t) = Len(s) /\ t[i] = x
           /\ \A j \in 1..Len(s) : j # i => t[j] = s[j]
  OBVIOUS

LEMMA IntentFacts ==
    ASSUME Shaped, NEW i \in 1..Len(intents)
    PROVE  /\ intents \in Seq(Intent) /\ intents[i] \in Intent
           /\ intents[i].received \in Nat /\ intents[i].refunded \in Int
           /\ intents[i].amount \in Nat /\ intents[i].amount > 0
           /\ intents[i].status \in IntentStatuses /\ intents[i].call \in Calls
<1>1. intents \in Seq(Intent)
  BY DEF Shaped
<1>2. intents[i] \in Intent
  BY <1>1
<1>3. \A x \in Intent : /\ x.received \in Nat /\ x.refunded \in Int /\ x.amount \in Nat /\ x.amount > 0
                         /\ x.status \in IntentStatuses /\ x.call \in Calls
  BY DEF Intent, IntentStatuses
<1> QED
  BY <1>1, <1>2, <1>3

LEMMA MoveType ==
    ASSUME Shaped, NEW i \in 1..Len(intents), NEW status \in IntentStatuses,
           NEW received \in Nat, NEW refunded \in Int,
           intents' = [intents EXCEPT ![i] =
                         [@ EXCEPT !.status = status, !.received = received, !.refunded = refunded]]
    PROVE  Became(i, status, received, refunded)
<1> DEFINE y == [intents[i] EXCEPT !.status = status, !.received = received, !.refunded = refunded]
<1>1. intents \in Seq(Intent) /\ intents[i] \in Intent
  BY IntentFacts
<1>2. /\ y \in Intent /\ y.call = intents[i].call /\ y.key = intents[i].key
      /\ y.amount = intents[i].amount /\ y.manual = intents[i].manual /\ y.status = status
      /\ y.received = received /\ y.refunded = refunded
  BY <1>1 DEF Intent, IntentStatuses
<1>3. intents' = [intents EXCEPT ![i] = y]
  OBVIOUS
<1> HIDE DEF y
<1>4. /\ intents' \in Seq(Intent) /\ Len(intents') = Len(intents) /\ intents'[i] = y
      /\ \A j \in 1..Len(intents) : j # i => intents'[j] = intents[j]
  <2>1. y \in Intent
    BY <1>2
  <2>2. intents \in Seq(Intent) /\ i \in 1..Len(intents)
    BY <1>1
  <2> HIDE DEF y
  <2>3. intents' = [intents EXCEPT ![i] = y]
    BY <1>3
  <2>4. Len(intents') = Len(intents)
    BY <2>2, <2>3
  <2>8. i \in DOMAIN intents
    BY <2>2
  <2>5. intents'[i] = y
    BY <2>3, <2>8, Zenon
  <2>6. intents' \in Seq(Intent)
    BY <2>1, <2>2, <2>3
  <2>7. \A j \in 1..Len(intents) : j # i => intents'[j] = intents[j]
    BY <2>1, <2>2, <2>3
  <2> QED
    BY <2>4, <2>5, <2>6, <2>7
<1> QED
  BY <1>2, <1>4 DEF Became

LEMMA StatusMove ==
    ASSUME Shaped, NEW i \in 1..Len(intents), NEW status \in IntentStatuses,
           intents' = [intents EXCEPT ![i].status = status]
    PROVE  Became(i, status, intents[i].received, intents[i].refunded)
<1>1. intents[i] \in Intent /\ intents[i].received \in Nat /\ intents[i].refunded \in Int
  BY IntentFacts
<1>2. [intents[i] EXCEPT !.status = status] =
         [intents[i] EXCEPT !.status = status, !.received = intents[i].received,
                            !.refunded = intents[i].refunded]
  BY <1>1 DEF Intent
<1> QED
  BY <1>1, <1>2, MoveType

LEMMA RefundedMove ==
    ASSUME Shaped, NEW i \in 1..Len(intents), NEW refunded \in Int,
           intents' = [intents EXCEPT ![i].refunded = refunded]
    PROVE  Became(i, intents[i].status, intents[i].received, refunded)
<1>1. /\ intents[i] \in Intent /\ intents[i].received \in Nat
      /\ intents[i].status \in IntentStatuses
  BY IntentFacts
<1>2. [intents[i] EXCEPT !.refunded = refunded] =
         [intents[i] EXCEPT !.status = intents[i].status, !.received = intents[i].received,
                            !.refunded = refunded]
  BY <1>1 DEF Intent
<1> QED
  BY <1>1, <1>2, MoveType

LEMMA ReceivedMove ==
    ASSUME Shaped, NEW i \in 1..Len(intents), NEW received \in Nat,
           intents' = [intents EXCEPT ![i].status = "succeeded", ![i].received = received]
    PROVE  Became(i, "succeeded", received, intents[i].refunded)
<1>0. intents \in Seq(Intent)
  BY DEF Shaped
<1>1. intents[i] \in Intent /\ intents[i].refunded \in Int /\ "succeeded" \in IntentStatuses
  BY IntentFacts DEF IntentStatuses
<1>2. [intents[i] EXCEPT !.status = "succeeded", !.received = received] =
         [intents[i] EXCEPT !.status = "succeeded", !.received = received,
                            !.refunded = intents[i].refunded]
  BY <1>1 DEF Intent
<1>3. intents' = [intents EXCEPT ![i] = [@ EXCEPT !.status = "succeeded", !.received = received]]
  BY <1>0, <1>1
<1> QED
  BY <1>1, <1>2, <1>3, MoveType

(* Accepting the money of intent i: it is held or received in full. *)
Taken(i) ==
    \/ /\ intents[i].manual
       /\ Became(i, "requires_capture", intents[i].received, intents[i].refunded)
       /\ Notify({"charge.succeeded"}, i)
    \/ /\ Became(i, "succeeded", intents[i].amount, intents[i].refunded)
       /\ Notify({"charge.succeeded", "payment_intent.succeeded"}, i)

(* Declining it, and giving up what is held. *)
Declined(i) ==
    /\ Became(i, "requires_payment_method", intents[i].received, intents[i].refunded)
    /\ Notify({"charge.failed", "payment_intent.payment_failed"}, i)
Lapsed(i) ==
    /\ intents[i].status = "requires_capture"
    /\ Became(i, "canceled", intents[i].received, intents[i].refunded)
    /\ Notify({"payment_intent.canceled"}, i)

LEMMA AcceptType ==
    ASSUME Shaped, NEW i \in 1..Len(intents), Accept(i)
    PROVE  Taken(i)
<1>0. intents \in Seq(Intent) /\ intents[i] \in Intent /\ intents[i].amount \in Nat
  BY IntentFacts
<1>1. CASE intents[i].manual
  <2>1. intents' = [intents EXCEPT ![i].status = "requires_capture"]
    BY <1>1 DEF Accept, Confirmed
  <2>2. "requires_capture" \in IntentStatuses
    BY DEF IntentStatuses
  <2>3. Notify({"charge.succeeded"}, i)
    <3>1. {"charge.succeeded"} \cup {} = {"charge.succeeded"}
      OBVIOUS
    <3> QED
      BY <1>1, <3>1 DEF Accept
  <2> QED
    BY <1>1, <2>1, <2>2, <2>3, StatusMove DEF Taken
<1>2. CASE ~intents[i].manual
  <2>1. intents' = [intents EXCEPT ![i] = [@ EXCEPT !.status = "succeeded",
                                                    !.received = intents[i].amount]]
    BY <1>2 DEF Accept, Confirmed
  <2>2. intents' = [intents EXCEPT ![i].status = "succeeded", ![i].received = intents[i].amount]
    BY <1>0, <2>1
  <2>3. Notify({"charge.succeeded", "payment_intent.succeeded"}, i)
    <3>1. {"charge.succeeded"} \cup {"payment_intent.succeeded"} =
             {"charge.succeeded", "payment_intent.succeeded"}
      OBVIOUS
    <3> QED
      BY <1>2, <3>1 DEF Accept
  <2> QED
    BY <1>0, <2>2, <2>3, ReceivedMove DEF Taken
<1> QED
  BY <1>1, <1>2

LEMMA DeclineType ==
    ASSUME Shaped, NEW i \in 1..Len(intents), Decline(i)
    PROVE  Declined(i)
<1>1. "requires_payment_method" \in IntentStatuses
  BY DEF IntentStatuses
<1> QED
  BY <1>1, StatusMove DEF Decline, Declined

LEMMA NotifyType ==
    ASSUME Shaped, NEW names \in SUBSET HookNames, NEW i \in Nat, Notify(names, i)
    PROVE  /\ hooks' \subseteq [name : HookNames, of : Nat]
           /\ \A h \in hooks' : h \in hooks \/ (h.name \in names /\ h.of = i)
<1> DEFINE S == [name : HookNames, of : Nat]
           told == {Event(name, i) : name \in names}
<1>1. PICK sent \in SUBSET told : hooks' = hooks \cup sent
  BY DEF Notify
<1>2. \A h \in told : h \in S /\ h.name \in names /\ h.of = i
  BY DEF Event
<1>3. hooks \subseteq S
  BY DEF Shaped
<1> HIDE DEF S, told
<1>4. hooks' \subseteq S /\ \A h \in hooks' : h \in hooks \/ (h.name \in names /\ h.of = i)
  BY <1>1, <1>2, <1>3
<1> QED
  BY <1>4 DEF S

(* The names in a notification's set are names of notifications. *)
LEMMA HookSets ==
    /\ {"charge.succeeded"} \in SUBSET HookNames
    /\ {"payment_intent.succeeded"} \in SUBSET HookNames
    /\ {"charge.succeeded", "payment_intent.succeeded"} \in SUBSET HookNames
    /\ {"charge.failed", "payment_intent.payment_failed"} \in SUBSET HookNames
    /\ {"payment_intent.canceled"} \in SUBSET HookNames
    /\ {"refund.updated"} \in SUBSET HookNames
  BY DEF HookNames
-----------------------------------------------------------------------------
(* Shaped is inductive. *)

LEMMA ShapedInit == Init => Shaped
<1> SUFFICES ASSUME Init PROVE Shaped
  OBVIOUS
<1>1. /\ setup = 0 /\ registered = <<>> /\ call = [c \in Calls |-> Idle] /\ intents = <<>>
      /\ refunds = <<>> /\ hooks = {} /\ published = {}
  BY DEF Init
<1>2. Len(Listed) \in Nat
  BY GatewayAssumption
<1>3. \A c \in Calls : Located(c)
  BY <1>1 DEF Located, Idle
<1>4. call \in [Calls -> CallRecord]
  BY <1>1, IdleType
<1> QED
  BY <1>1, <1>2, <1>3, <1>4 DEF Shaped

LEMMA Remains ==
    ASSUME Shaped, NEW d \in Calls, call'[d] = call[d], intents' \in Seq(Intent),
           Len(intents) <= Len(intents'), \/ registered' = registered
                                          \/ \E p \in Known : registered' = Append(registered, p)
    PROVE  Located(d)'
<1>1. Elements(registered) \subseteq Elements(registered')
  <2>1. registered \in Seq(Known)
    BY DEF Shaped
  <2>2. CASE registered' = registered
    BY <2>2
  <2>3. ASSUME NEW p \in Known, registered' = Append(registered, p) PROVE Elements(registered) \subseteq Elements(registered')
    <3>1. \A i \in 1..Len(registered) : i \in 1..Len(registered') /\ registered'[i] = registered[i]
      BY <2>1, <2>3
    <3> QED
      BY <3>1, Zenon DEF Elements
  <2> QED
    BY <2>2, <2>3
<1>2. Len(intents) \in Nat /\ Len(intents') \in Nat /\ Located(d)
  BY DEF Shaped
<1>3. \A i \in 1..Len(intents) : i \in 1..Len(intents')
  BY <1>2
<1> DEFINE Old == Elements(registered)
           New == Elements(registered')
<1>4. /\ call'[d].at = "charging" => call'[d].provider \in Old
      /\ call'[d].at \in {"confirming", "capturing", "checking", "refunding"} =>
            call'[d].event.of \in 1..Len(intents)
  BY <1>2 DEF Located
<1>5. Old \subseteq New
  BY <1>1
<1>6. Located(d)' <=>
        /\ call'[d].at = "charging" => call'[d].provider \in New
        /\ call'[d].at \in {"confirming", "capturing", "checking", "refunding"} =>
              call'[d].event.of \in 1..Len(intents')
  BY DEF Located, Elements
<1> HIDE DEF Old, New
<1> QED
  BY <1>3, <1>4, <1>5, <1>6

(* Where a call can go: to a registered provider, and on with an intent there is. *)
Reachable(r, regs, ints) ==
    /\ r.at = "charging" => r.provider \in Elements(regs)
    /\ r.at \in {"confirming", "capturing", "checking", "refunding"} => r.event.of \in 1..Len(ints)

LEMMA CallMoves ==
    ASSUME Shaped, NEW c \in Calls, NEW r \in CallRecord, Goto(c, r),
           UNCHANGED <<setup, registered>>, intents' \in Seq(Intent),
           Len(intents) <= Len(intents'), refunds' \in Seq(RefundRecord),
           \A n \in 1..Len(refunds') : refunds'[n].intent \in 1..Len(intents'),
           hooks' \subseteq [name : HookNames, of : Nat],
           published' \subseteq [name : EventNames, of : Nat],
           Reachable(r, registered, intents')
    PROVE  Shaped'
<1>1. /\ call' \in [Calls -> CallRecord] /\ call'[c] = r
      /\ \A d \in Calls : d # c => call'[d] = call[d]
  BY GotoType
<1>2. Located(c)'
  BY <1>1 DEF Located, Reachable
<1>3. \A d \in Calls : Located(d)'
  <2> TAKE d \in Calls
  <2>1. CASE d = c
    BY <1>2, <2>1
  <2>2. CASE d # c
    BY <1>1, <2>2, Remains
  <2> QED
    BY <2>1, <2>2
<1> QED
  BY <1>1, <1>3 DEF Shaped

LEMMA RetriedReach ==
    ASSUME Shaped, NEW c \in Calls, NEW r, Retried(c, r)
    PROVE  \A ints : Reachable(r, registered, ints)
  BY DEF Retried, Reachable, Usable

LEMMA NewIntentType ==
    ASSUME Shaped, NEW c \in Calls
    PROVE  LET new == NewIntent(c) IN
           /\ new \in Intent /\ new.call = c /\ new.key = call[c].request.key
           /\ new.status = "requires_confirmation"
           /\ new.received = 0 /\ new.refunded = 0
<1>1. call[c].request \in Requests
  BY DEF Shaped, CallRecord
<1>2. call[c].request.amount \in Nat \ {0}
  BY <1>1, GatewayAssumption
<1>3. /\ call[c].request.key \in {r.key : r \in Requests}
      /\ call[c].request.manual \in {r.manual : r \in Requests}
  BY <1>1
<1> DEFINE q == call[c].request
           amount == q.amount
           key == q.key
           manual == q.manual
<1>4. NewIntent(c) = [call |-> c, key |-> key, amount |-> amount, manual |-> manual,
                      status |-> "requires_confirmation", received |-> 0, refunded |-> 0]
  BY DEF NewIntent, KeyOf
<1>5. /\ amount \in Nat \ {0} /\ key \in {r.key : r \in Requests}
      /\ manual \in {r.manual : r \in Requests}
  BY <1>2, <1>3
<1>6. key = call[c].request.key
  OBVIOUS
<1> HIDE DEF q, amount, key, manual
<1> QED
  BY <1>4, <1>5, <1>6 DEF Intent

LEMMA AppendType ==
    ASSUME NEW S, NEW s \in Seq(S), NEW x \in S
    PROVE  /\ Append(s, x) \in Seq(S) /\ Len(Append(s, x)) = Len(s) + 1
           /\ Append(s, x)[Len(s) + 1] = x /\ Len(s) \in Nat
           /\ \A i \in 1..Len(s) : Append(s, x)[i] = s[i]
  OBVIOUS

(* A call whose intent is made: it announces it, perhaps after confirming it. *)
Made(c, r, i) ==
    /\ Announces(c, r, Event("payment.created", i)) /\ r.at \in {"confirming", "announcing"}
    /\ r.event.name = "payment.created" /\ r.event.of = i

LEMMA MadeType ==
    ASSUME Shaped, NEW c \in Calls, NEW i \in Nat, Goto(c, AfterCreate(c, i))
    PROVE  \E r \in CallRecord : Goto(c, r) /\ Made(c, r, i)
  BY AfterCreateType DEF Made, Announces

(* What createPayment does: nothing to Stripe, or a new intent, or the one the *)
(* key names already.                                                          *)
NewMade(c) ==
    /\ call[c].provider = "stripe" /\ SameKey(KeyOf(call[c].request)) = {}
    /\ intents' = Append(intents, NewIntent(c))

LEMMA CreateEffect ==
    ASSUME Shaped, NEW c \in Calls, Create(c)
    PROVE  /\ UNCHANGED <<setup, registered, refunds, hooks, published>>
           /\ call[c].at = "charging"
           /\ \E r \in CallRecord :
                 /\ Goto(c, r)
                 /\ \/ UNCHANGED intents /\ Retried(c, r)
                    \/ NewMade(c) /\ (Made(c, r, Len(intents) + 1) \/ Retried(c, r))
                    \/ UNCHANGED intents /\ \E i \in 1..Len(intents) : Made(c, r, i)
<1>0. /\ UNCHANGED <<setup, registered, refunds, hooks, published>>
      /\ call[c].at = "charging" /\ Len(intents) + 1 \in Nat
  BY DEF Create, At, Shaped
<1>1. CASE AfterError(c) /\ UNCHANGED intents
  BY <1>0, <1>1, AfterErrorType
<1>2. CASE NewMade(c) /\ (Goto(c, AfterCreate(c, Len(intents) + 1)) \/ AfterError(c))
  BY <1>0, <1>2, AfterErrorType, MadeType
<1>3. CASE /\ \E i \in SameKey(KeyOf(call[c].request)) : Goto(c, AfterCreate(c, i))
           /\ UNCHANGED intents
  <2>1. PICK i \in 1..Len(intents) : Goto(c, AfterCreate(c, i))
    BY <1>3 DEF SameKey
  <2>2. i \in Nat
    OBVIOUS
  <2> QED
    BY <1>0, <1>3, <2>1, <2>2, MadeType
<1> QED
  BY <1>1, <1>2, <1>3 DEF Create, NewMade, Implemented

LEMMA NewMadeType ==
    ASSUME Shaped, NEW c \in Calls, NewMade(c)
    PROVE  /\ intents' \in Seq(Intent) /\ Len(intents') = Len(intents) + 1
           /\ \A i \in 1..Len(intents) : intents'[i] = intents[i]
           /\ LET new == intents'[Len(intents) + 1] IN
              /\ new.call = c /\ new.key = call[c].request.key
              /\ new.amount \in Nat /\ new.amount > 0
              /\ new.status = "requires_confirmation"
              /\ new.received = 0 /\ new.refunded = 0
<1> DEFINE x == NewIntent(c)
<1>1. /\ x \in Intent /\ x.call = c /\ x.key = call[c].request.key
      /\ x.status = "requires_confirmation" /\ x.received = 0 /\ x.refunded = 0
  BY NewIntentType
<1>2. x.amount \in Nat /\ x.amount > 0
  BY <1>1 DEF Intent
<1>3. intents' = Append(intents, x) /\ intents \in Seq(Intent) /\ x \in Intent
  BY <1>1 DEF NewMade, Shaped
<1> HIDE DEF x
<1>4. /\ intents' \in Seq(Intent) /\ Len(intents') = Len(intents) + 1
      /\ intents'[Len(intents) + 1] = x
      /\ \A i \in 1..Len(intents) : intents'[i] = intents[i]
  BY <1>3, AppendType
<1> QED
  BY <1>1, <1>2, <1>4

LEMMA ShapedCreate ==
    ASSUME Shaped, NEW c \in Calls, Create(c)
    PROVE  Shaped'
<1>0. /\ UNCHANGED <<setup, registered, refunds, hooks, published>>
      /\ intents \in Seq(Intent) /\ Len(intents) \in Nat /\ refunds \in Seq(RefundRecord)
      /\ hooks \subseteq [name : HookNames, of : Nat]
      /\ published \subseteq [name : EventNames, of : Nat]
      /\ \A n \in 1..Len(refunds) : refunds[n].intent \in 1..Len(intents)
  BY DEF Shaped, Create
<1>1. PICK r \in CallRecord :
             /\ Goto(c, r)
             /\ \/ UNCHANGED intents /\ Retried(c, r)
                \/ NewMade(c) /\ (Made(c, r, Len(intents) + 1) \/ Retried(c, r))
                \/ UNCHANGED intents /\ \E i \in 1..Len(intents) : Made(c, r, i)
  BY CreateEffect
<1>2. intents' \in Seq(Intent) /\ (UNCHANGED intents \/ Len(intents') = Len(intents) + 1)
  BY <1>0, <1>1, NewMadeType
<1>3. Reachable(r, registered, intents')
  <2>1. CASE Retried(c, r)
    BY <2>1, RetriedReach
  <2>2. CASE NewMade(c) /\ Made(c, r, Len(intents) + 1)
    <3>1. Len(intents') = Len(intents) + 1
      BY <2>2, NewMadeType
    <3> QED
      BY <1>0, <2>2, <3>1 DEF Made, Reachable
  <2>3. CASE UNCHANGED intents /\ \E i \in 1..Len(intents) : Made(c, r, i)
    BY <2>3 DEF Made, Reachable
  <2> QED
    BY <1>1, <2>1, <2>2, <2>3
<1> QED
  BY <1>0, <1>1, <1>2, <1>3, CallMoves

(* What confirm does to intent i. *)
Confirming(i) ==
    /\ intents[i].status \in {"requires_confirmation", "requires_payment_method"}
    /\ \/ Taken(i)
       \/ Declined(i)
       \/ /\ Became(i, "processing", intents[i].received, intents[i].refunded)
          /\ UNCHANGED hooks

LEMMA ConfirmEffect ==
    ASSUME Shaped, NEW c \in Calls, Confirm(c)
    PROVE  /\ UNCHANGED <<setup, registered, refunds, published>>
           /\ call[c].at = "confirming"
           /\ \E r \in CallRecord :
                 /\ Goto(c, r)
                 /\ \/ UNCHANGED <<intents, hooks>> /\ Retried(c, r)
                    \/ /\ \E i \in 1..Len(intents) : Confirming(i)
                       /\ \/ Announces(c, r, call[c].event) /\ r.at = "announcing"
                          \/ Retried(c, r)
<1>0. UNCHANGED <<setup, registered, refunds, published>> /\ call[c].at = "confirming"
  BY DEF Confirm, At
<1> DEFINE i == call[c].event.of
<1>1. i \in 1..Len(intents) /\ call[c].event \in [name : EventNames, of : Nat]
  BY <1>0 DEF Shaped, Located, CallRecord
<1>2. CASE AfterError(c) /\ UNCHANGED <<intents, hooks>>
  BY <1>0, <1>2, AfterErrorType
<1>4. CASE /\ intents[i].status \in {"requires_confirmation", "requires_payment_method"}
           /\ Decline(i) /\ AfterError(c)
  <2> HIDE DEF i
  <2>1. Confirming(i)
    BY <1>1, <1>4, DeclineType DEF Confirming
  <2> QED
    BY <1>0, <1>1, <1>4, <2>1, AfterErrorType
<1>3. CASE /\ intents[i].status \in {"requires_confirmation", "requires_payment_method"}
           /\ \/ Accept(i)
              \/ intents' = [intents EXCEPT ![i].status = "processing"] /\ UNCHANGED hooks
           /\ \/ Goto(c, Announcing(c, call[c].event))
              \/ AfterError(c)
  <2> HIDE DEF i
  <2>1. Confirming(i)
    <3>1. CASE Accept(i)
      BY <1>1, <1>3, <3>1, AcceptType DEF Confirming
    <3>2. CASE intents' = [intents EXCEPT ![i].status = "processing"] /\ UNCHANGED hooks
      <4>1. "processing" \in IntentStatuses
        BY DEF IntentStatuses
      <4> QED
        BY <1>1, <1>3, <3>2, <4>1, StatusMove DEF Confirming
    <3> QED
      BY <1>3, <3>1, <3>2
  <2>2. CASE AfterError(c)
    BY <1>0, <1>1, <2>1, <2>2, AfterErrorType
  <2>3. CASE Goto(c, Announcing(c, call[c].event))
    <3>1. /\ Announces(c, Announcing(c, call[c].event), call[c].event)
          /\ Announcing(c, call[c].event).at = "announcing"
      BY <1>1, AnnouncingType
    <3> QED
      BY <1>0, <1>1, <2>1, <2>3, <3>1 DEF Announces
  <2> QED
    BY <1>3, <2>2, <2>3
<1> QED
  BY <1>2, <1>3, <1>4 DEF Confirm

(* What is notified of a change is so after it. *)
LEMMA NotifiedHooks ==
    ASSUME Shaped, NEW names \in SUBSET HookNames, NEW i \in Nat, Notify(names, i),
           \A name \in names : Tells(name, i, intents')
    PROVE  /\ hooks' \subseteq [name : HookNames, of : Nat]
           /\ \A h \in hooks' : h \in hooks \/ Tells(h.name, h.of, intents')
  BY NotifyType

LEMMA TakenType ==
    ASSUME Shaped, NEW i \in 1..Len(intents), Taken(i)
    PROVE  /\ intents' \in Seq(Intent) /\ Len(intents') = Len(intents)
           /\ hooks' \subseteq [name : HookNames, of : Nat]
           /\ \A h \in hooks' : h \in hooks \/ Tells(h.name, h.of, intents')
<1>0. i \in Nat
  OBVIOUS
<1>1. CASE /\ intents[i].manual
           /\ Became(i, "requires_capture", intents[i].received, intents[i].refunded)
           /\ Notify({"charge.succeeded"}, i)
  <2>1. Authorized(i, intents')
    BY <1>1 DEF Became, Authorized, HeldOnly
  <2>2. \A name \in {"charge.succeeded"} : Tells(name, i, intents')
    BY <2>1 DEF Tells
  <2> QED
    BY <1>0, <1>1, <2>2, HookSets, NotifiedHooks DEF Became
<1>2. CASE /\ Became(i, "succeeded", intents[i].amount, intents[i].refunded)
           /\ Notify({"charge.succeeded", "payment_intent.succeeded"}, i)
  <2>1. Authorized(i, intents') /\ Succeeded(i, intents')
    BY <1>2 DEF Became, Authorized, Succeeded
  <2>2. \A name \in {"charge.succeeded", "payment_intent.succeeded"} : Tells(name, i, intents')
    BY <2>1 DEF Tells
  <2> QED
    BY <1>0, <1>2, <2>2, HookSets, NotifiedHooks DEF Became
<1> QED
  BY <1>1, <1>2 DEF Taken

LEMMA DeclinedType ==
    ASSUME Shaped, NEW i \in 1..Len(intents), Declined(i)
    PROVE  /\ intents' \in Seq(Intent) /\ Len(intents') = Len(intents)
           /\ hooks' \subseteq [name : HookNames, of : Nat]
           /\ \A h \in hooks' : h \in hooks \/ Tells(h.name, h.of, intents')
<1>1. \A name \in {"charge.failed", "payment_intent.payment_failed"} : Tells(name, i, intents')
  BY DEF Tells
<1>2. i \in Nat /\ Notify({"charge.failed", "payment_intent.payment_failed"}, i)
  BY DEF Declined
<1>3. intents' \in Seq(Intent) /\ Len(intents') = Len(intents)
  BY DEF Declined, Became
<1> QED
  BY <1>1, <1>2, <1>3, HookSets, NotifiedHooks

LEMMA LapsedType ==
    ASSUME Shaped, NEW i \in 1..Len(intents), Lapsed(i)
    PROVE  /\ intents' \in Seq(Intent) /\ Len(intents') = Len(intents)
           /\ hooks' \subseteq [name : HookNames, of : Nat]
           /\ \A h \in hooks' : h \in hooks \/ Tells(h.name, h.of, intents')
<1>1. Canceled(i, intents')
  BY DEF Lapsed, Became, Canceled
<1>2. \A name \in {"payment_intent.canceled"} : Tells(name, i, intents')
  BY <1>1 DEF Tells
<1>3. i \in Nat /\ Notify({"payment_intent.canceled"}, i)
  BY DEF Lapsed
<1>4. intents' \in Seq(Intent) /\ Len(intents') = Len(intents)
  BY DEF Lapsed, Became
<1> QED
  BY <1>2, <1>3, <1>4, HookSets, NotifiedHooks

LEMMA ShapedConfirm ==
    ASSUME Shaped, NEW c \in Calls, Confirm(c)
    PROVE  Shaped'
<1>0. /\ UNCHANGED <<setup, registered, refunds, published>>
      /\ intents \in Seq(Intent) /\ Len(intents) \in Nat /\ refunds \in Seq(RefundRecord)
      /\ hooks \subseteq [name : HookNames, of : Nat]
      /\ published \subseteq [name : EventNames, of : Nat]
      /\ \A n \in 1..Len(refunds) : refunds[n].intent \in 1..Len(intents)
  BY DEF Shaped, Confirm
<1>1. PICK r \in CallRecord :
             /\ Goto(c, r)
             /\ \/ UNCHANGED <<intents, hooks>> /\ Retried(c, r)
                \/ /\ \E i \in 1..Len(intents) : Confirming(i)
                   /\ \/ Announces(c, r, call[c].event) /\ r.at = "announcing"
                      \/ Retried(c, r)
  BY ConfirmEffect
<1>2. Reachable(r, registered, intents')
  BY <1>1, RetriedReach DEF Reachable
<1>3. /\ intents' \in Seq(Intent) /\ Len(intents') = Len(intents)
      /\ hooks' \subseteq [name : HookNames, of : Nat]
  BY <1>0, <1>1, TakenType, DeclinedType DEF Confirming, Became
<1> QED
  BY <1>0, <1>1, <1>2, <1>3, CallMoves

(* A call that only changes its place. *)
Ended(c, r, at) ==
    /\ r \in CallRecord /\ Same(c, r) /\ r.at = at /\ r.event = call[c].event
    /\ r.next = call[c].next /\ r.provider = call[c].provider

LEMMA EndType ==
    ASSUME Shaped, NEW c \in Calls, NEW at \in Labels, Goto(c, [call[c] EXCEPT !.at = at])
    PROVE  \E r \in CallRecord : Goto(c, r) /\ Ended(c, r, at)
<1> DEFINE r == [call[c] EXCEPT !.at = at]
<1>1. Ended(c, r, at)
  BY AtType DEF Ended
<1>2. Goto(c, r)
  OBVIOUS
<1> HIDE DEF r
<1> QED
  BY <1>1, <1>2 DEF Ended

LEMMA EndReach ==
    ASSUME NEW c \in Calls, NEW r, NEW at \in {"ok", "failed", "announcing"}, Ended(c, r, at)
    PROVE  \A regs, ints : Reachable(r, regs, ints)
  BY DEF Ended, Reachable

LEMMA ShapedPublish ==
    ASSUME Shaped, NEW c \in Calls, Publish(c)
    PROVE  Shaped'
<1>0. /\ UNCHANGED <<setup, registered, intents, refunds, hooks>>
      /\ intents \in Seq(Intent) /\ Len(intents) \in Nat /\ refunds \in Seq(RefundRecord)
      /\ hooks \subseteq [name : HookNames, of : Nat]
      /\ published \subseteq [name : EventNames, of : Nat]
      /\ \A n \in 1..Len(refunds) : refunds[n].intent \in 1..Len(intents)
      /\ call[c].event \in [name : EventNames, of : Nat]
  BY DEF Shaped, Publish, CallRecord
<1>1. CASE published' = published \cup {call[c].event} /\ Goto(c, [call[c] EXCEPT !.at = "ok"])
  <2>1. published' \subseteq [name : EventNames, of : Nat]
    BY <1>0, <1>1
  <2> QED
    <3>1. PICK r \in CallRecord : Goto(c, r) /\ Ended(c, r, "ok")
      BY <1>1, EndType DEF Labels
    <3> QED
      BY <1>0, <1>1, <2>1, <3>1, EndReach, CallMoves
<1>2. CASE AfterError(c) /\ UNCHANGED published
  BY <1>0, <1>2, AfterErrorType, RetriedReach, CallMoves
<1>3. CASE Goto(c, [call[c] EXCEPT !.at = "failed"]) /\ UNCHANGED published
  <2>1. PICK r \in CallRecord : Goto(c, r) /\ Ended(c, r, "failed")
    BY <1>3, EndType DEF Labels
  <2> QED
    BY <1>0, <1>3, <2>1, EndReach, CallMoves
<1> QED
  BY <1>1, <1>2, <1>3 DEF Publish, Unpublished

(* A call that has done its work with the provider: it is about to publish e,  *)
(* or the answer was lost.                                                     *)
Answered(c, r, e) == (Announces(c, r, e) /\ r.at = "announcing") \/ Ended(c, r, "failed")

LEMMA AnsweredType ==
    ASSUME Shaped, NEW c \in Calls, NEW name \in EventNames, NEW of \in Nat,
           \/ Goto(c, Announcing(c, Event(name, of)))
           \/ Goto(c, [call[c] EXCEPT !.at = "failed"])
    PROVE  \E r \in CallRecord : Goto(c, r) /\ Answered(c, r, Event(name, of))
<1> DEFINE e == Event(name, of)
<1>0. e \in [name : EventNames, of : Nat]
  BY EventType
<1>1. CASE Goto(c, Announcing(c, e))
  <2>1. Announces(c, Announcing(c, e), e) /\ Announcing(c, e).at = "announcing"
    BY <1>0, AnnouncingType
  <2> QED
    BY <1>1, <2>1 DEF Announces, Answered
<1>2. CASE Goto(c, [call[c] EXCEPT !.at = "failed"])
  <2>1. "failed" \in Labels
    BY DEF Labels
  <2> QED
    BY <1>2, <2>1, EndType DEF Answered
<1> QED
  BY <1>1, <1>2

LEMMA AnsweredReach ==
    ASSUME NEW c \in Calls, NEW r, NEW e, Answered(c, r, e)
    PROVE  \A regs, ints : Reachable(r, regs, ints)
  BY DEF Answered, Ended, Reachable

(* What a capture that Stripe accepts does. *)
Captured(c, i, amount) ==
    /\ i \in 1..Len(intents) /\ intents[i].status = "requires_capture"
    /\ amount \in Nat /\ amount > 0 /\ amount <= intents[i].amount
    /\ Became(i, "succeeded", amount, intents[i].refunded)
    /\ Notify({"payment_intent.succeeded"}, i)
    /\ \E r \in CallRecord : Goto(c, r) /\ Answered(c, r, Event("payment.captured", i))

LEMMA CaptureEffect ==
    ASSUME Shaped, NEW c \in Calls, Capture(c)
    PROVE  /\ UNCHANGED <<setup, registered, refunds, published>>
           /\ \/ /\ \E r \in CallRecord : Goto(c, r) /\ Ended(c, r, "failed")
                 /\ UNCHANGED <<intents, hooks>>
              \/ \E i \in 1..Len(intents), amount \in Nat : Captured(c, i, amount)
<1> DEFINE i == call[c].event.of
           amount == IF call[c].amount = 0 THEN intents[i].amount ELSE call[c].amount
<1>1. UNCHANGED <<setup, registered, refunds, published>>
  BY DEF Capture
<1>2. CASE Goto(c, [call[c] EXCEPT !.at = "failed"]) /\ UNCHANGED <<intents, hooks>>
  <2>1. "failed" \in Labels
    BY DEF Labels
  <2> QED
    BY <1>1, <1>2, <2>1, EndType
<1>3. CASE /\ intents[i].status = "requires_capture" /\ amount <= intents[i].amount
           /\ intents' = [intents EXCEPT ![i].status = "succeeded", ![i].received = amount]
           /\ Notify({"payment_intent.succeeded"}, i)
           /\ \/ Goto(c, Announcing(c, Event("payment.captured", i)))
              \/ Goto(c, [call[c] EXCEPT !.at = "failed"])
  <2>1. i \in 1..Len(intents) /\ call[c].amount \in Nat
    BY DEF Capture, At, Shaped, Located, CallRecord
  <2>2. intents[i].amount \in Nat /\ intents[i].amount > 0
    BY <2>1, IntentFacts
  <2>3. amount \in Nat /\ amount > 0
    BY <2>1, <2>2
  <2> HIDE DEF i, amount
  <2>4. Became(i, "succeeded", amount, intents[i].refunded)
    BY <1>3, <2>1, <2>3, ReceivedMove
  <2>5. "payment.captured" \in EventNames /\ i \in Nat
    BY <2>1 DEF EventNames
  <2>6. \E r \in CallRecord : Goto(c, r) /\ Answered(c, r, Event("payment.captured", i))
    BY <1>3, <2>5, AnsweredType
  <2> QED
    BY <1>1, <1>3, <2>1, <2>3, <2>4, <2>6 DEF Captured
<1> QED
  BY <1>2, <1>3 DEF Capture

LEMMA ShapedCapture ==
    ASSUME Shaped, NEW c \in Calls, Capture(c)
    PROVE  Shaped'
<1>0. /\ UNCHANGED <<setup, registered, refunds, published>>
      /\ intents \in Seq(Intent) /\ Len(intents) \in Nat /\ refunds \in Seq(RefundRecord)
      /\ hooks \subseteq [name : HookNames, of : Nat]
      /\ published \subseteq [name : EventNames, of : Nat]
      /\ \A n \in 1..Len(refunds) : refunds[n].intent \in 1..Len(intents)
  BY CaptureEffect DEF Shaped
<1>1. CASE /\ \E r \in CallRecord : Goto(c, r) /\ Ended(c, r, "failed")
           /\ UNCHANGED <<intents, hooks>>
  BY <1>0, <1>1, EndReach, CallMoves
<1>2. CASE \E i \in 1..Len(intents), amount \in Nat : Captured(c, i, amount)
  <2> PICK i \in 1..Len(intents), amount \in Nat : Captured(c, i, amount)
    BY <1>2
  <2>1. intents' \in Seq(Intent) /\ Len(intents') = Len(intents)
    BY DEF Captured, Became
  <2>2. i \in Nat /\ Notify({"payment_intent.succeeded"}, i)
    BY DEF Captured
  <2>3. hooks' \subseteq [name : HookNames, of : Nat]
    BY <2>2, HookSets, NotifyType
  <2> QED
    BY <1>0, <2>1, <2>3, AnsweredReach, CallMoves DEF Captured
<1> QED
  BY <1>1, <1>2, CaptureEffect

(* What a refund that Stripe accepts does. *)
Refunded(c, i, amount) ==
    /\ i \in 1..Len(intents) /\ amount \in Nat /\ amount > 0
    /\ amount <= intents[i].received - intents[i].refunded
    /\ Became(i, intents[i].status, intents[i].received, intents[i].refunded + amount)
    /\ \E new \in RefundRecord : /\ refunds' = Append(refunds, new)
                                 /\ new.intent = i /\ new.amount = amount
    /\ \E r \in CallRecord : Goto(c, r) /\ Answered(c, r, Event("refund.created", Len(refunds) + 1))

LEMMA RefundEffect ==
    ASSUME Shaped, NEW c \in Calls, Refund(c)
    PROVE  /\ UNCHANGED <<setup, registered, hooks, published>>
           /\ \/ /\ \E r \in CallRecord : Goto(c, r) /\ Ended(c, r, "failed")
                 /\ UNCHANGED <<intents, refunds>>
              \/ \E i \in 1..Len(intents), amount \in Nat : Refunded(c, i, amount)
<1> DEFINE i == call[c].event.of
           left == intents[i].received - intents[i].refunded
           amount == IF call[c].amount = 0 THEN left ELSE call[c].amount
<1>1. UNCHANGED <<setup, registered, hooks, published>>
  BY DEF Refund
<1>2. CASE Goto(c, [call[c] EXCEPT !.at = "failed"]) /\ UNCHANGED <<intents, refunds>>
  <2>1. "failed" \in Labels
    BY DEF Labels
  <2> QED
    BY <1>1, <1>2, <2>1, EndType
<1>3. CASE /\ 0 < amount /\ amount <= left
           /\ intents' = [intents EXCEPT ![i].refunded = @ + amount]
           /\ \E status \in {"pending", "succeeded"} :
                 refunds' = Append(refunds, [call |-> c, intent |-> i, amount |-> amount, status |-> status])
           /\ \/ Goto(c, Announcing(c, Event("refund.created", Len(refunds) + 1)))
              \/ Goto(c, [call[c] EXCEPT !.at = "failed"])
  <2>1. i \in 1..Len(intents) /\ call[c].amount \in Nat /\ Len(refunds) \in Nat
    BY DEF Refund, At, Shaped, Located, CallRecord
  <2>2. intents[i].received \in Nat /\ intents[i].refunded \in Int
    BY <2>1, IntentFacts
  <2>3. left \in Int
    BY <2>2
  <2> HIDE DEF left
  <2>4. amount \in Nat /\ amount > 0
    BY <1>3, <2>1, <2>3
  <2> HIDE DEF i, amount
  <2>5. intents' = [intents EXCEPT ![i].refunded = intents[i].refunded + amount]
    BY <1>3
  <2>6. intents[i].refunded + amount \in Int
    BY <2>2, <2>4
  <2>7. Became(i, intents[i].status, intents[i].received, intents[i].refunded + amount)
    BY <2>1, <2>5, <2>6, RefundedMove
  <2>8. \E new \in RefundRecord : refunds' = Append(refunds, new) /\ new.intent = i /\ new.amount = amount
    <3> PICK status \in {"pending", "succeeded"} :
               refunds' = Append(refunds, [call |-> c, intent |-> i, amount |-> amount, status |-> status])
      BY <1>3
    <3> DEFINE new == [call |-> c, intent |-> i, amount |-> amount, status |-> status]
    <3>1. new \in RefundRecord /\ new.intent = i /\ new.amount = amount
      BY <2>1, <2>4 DEF RefundRecord
    <3> QED
      BY <3>1
  <2>9. "refund.created" \in EventNames /\ Len(refunds) + 1 \in Nat
    BY <2>1 DEF EventNames
  <2>10. \E r \in CallRecord : Goto(c, r) /\ Answered(c, r, Event("refund.created", Len(refunds) + 1))
    BY <1>3, <2>9, AnsweredType
  <2> QED
    BY <1>1, <1>3, <2>1, <2>4, <2>7, <2>8, <2>10 DEF Refunded, left
<1> QED
  BY <1>2, <1>3 DEF Refund

LEMMA ShapedRefund ==
    ASSUME Shaped, NEW c \in Calls, Refund(c)
    PROVE  Shaped'
<1>0. /\ UNCHANGED <<setup, registered, hooks, published>>
      /\ intents \in Seq(Intent) /\ Len(intents) \in Nat /\ refunds \in Seq(RefundRecord)
      /\ hooks \subseteq [name : HookNames, of : Nat]
      /\ published \subseteq [name : EventNames, of : Nat]
      /\ \A n \in 1..Len(refunds) : refunds[n].intent \in 1..Len(intents)
  BY RefundEffect DEF Shaped
<1>1. CASE /\ \E r \in CallRecord : Goto(c, r) /\ Ended(c, r, "failed")
           /\ UNCHANGED <<intents, refunds>>
  BY <1>0, <1>1, EndReach, CallMoves
<1>2. CASE \E i \in 1..Len(intents), amount \in Nat : Refunded(c, i, amount)
  <2> PICK i \in 1..Len(intents), amount \in Nat : Refunded(c, i, amount)
    BY <1>2
  <2>1. intents' \in Seq(Intent) /\ Len(intents') = Len(intents)
    BY DEF Refunded, Became
  <2>2. PICK new \in RefundRecord : refunds' = Append(refunds, new) /\ new.intent = i
    BY DEF Refunded
  <2>3. refunds' \in Seq(RefundRecord) /\ Len(refunds') = Len(refunds) + 1
    BY <1>0, <2>2, AppendType
  <2>4. \A n \in 1..Len(refunds') : refunds'[n].intent \in 1..Len(intents')
    BY <1>0, <2>1, <2>2, AppendType
  <2>5. PICK r \in CallRecord : Goto(c, r) /\ Answered(c, r, Event("refund.created", Len(refunds) + 1))
    BY Zenon DEF Refunded
  <2>6. Reachable(r, registered, intents')
    BY <2>5, AnsweredReach
  <2>7. /\ UNCHANGED <<setup, registered>> /\ Len(intents) <= Len(intents')
        /\ hooks' \subseteq [name : HookNames, of : Nat] /\ published' \subseteq [name : EventNames, of : Nat]
    BY <1>0, <2>1
  <2> QED
    BY <1>0, <2>1, <2>3, <2>4, <2>5, <2>6, <2>7, CallMoves
<1> QED
  BY <1>1, <1>2, RefundEffect

(* The remaining handlers change the call alone. *)
Alone == UNCHANGED <<setup, registered, intents, refunds, hooks, published>>

LEMMA ShapedAlone ==
    ASSUME Shaped, NEW c \in Calls, NEW r \in CallRecord, Goto(c, r), Alone,
           Reachable(r, registered, intents)
    PROVE  Shaped'
<1>1. /\ UNCHANGED <<setup, registered, intents, refunds, hooks, published>>
      /\ intents \in Seq(Intent) /\ Len(intents) \in Nat /\ refunds \in Seq(RefundRecord)
      /\ hooks \subseteq [name : HookNames, of : Nat]
      /\ published \subseteq [name : EventNames, of : Nat]
      /\ \A n \in 1..Len(refunds) : refunds[n].intent \in 1..Len(intents)
  BY DEF Alone, Shaped
<1>2. Reachable(r, registered, intents')
  BY <1>1
<1> QED
  BY <1>1, <1>2, CallMoves

LEMMA CheckEffect ==
    ASSUME Shaped, NEW c \in Calls, Check(c)
    PROVE  /\ Alone
           /\ \E r \in CallRecord :
                 /\ Goto(c, r) /\ Reachable(r, registered, intents)
                 /\ Ended(c, r, "failed") \/ Ended(c, r, "refunding")
<1>1. Alone /\ call[c].event.of \in 1..Len(intents)
  BY DEF Check, At, Alone, Shaped, Located
<1>2. "failed" \in Labels /\ "refunding" \in Labels
  BY DEF Labels
<1>3. CASE Goto(c, [call[c] EXCEPT !.at = "failed"])
  BY <1>1, <1>2, <1>3, EndType, EndReach
<1>4. CASE Goto(c, [call[c] EXCEPT !.at = "refunding"])
  <2>1. PICK r \in CallRecord : Goto(c, r) /\ Ended(c, r, "refunding")
    BY <1>2, <1>4, EndType
  <2> QED
    BY <1>1, <2>1 DEF Ended, Reachable
<1> QED
  BY <1>3, <1>4 DEF Check

(* A call that starts, of which nothing is known before. *)
Began(c, r) == call[c] = Idle /\ r \in CallRecord /\ r.provider = r.selected /\ r.next = 1

LEMMA PayEffect ==
    ASSUME Shaped, NEW c \in Calls, NEW q \in Requests, Pay(c, q)
    PROVE  /\ Alone
           /\ \E r \in CallRecord : /\ Goto(c, r) /\ Began(c, r) /\ Reachable(r, registered, intents)
                                    /\ r.at \in {"failed", "charging"}
<1> DEFINE asked == [Idle EXCEPT !.kind = "pay", !.request = q]
<1>1. Alone /\ call[c] = Idle
  BY DEF Pay, Alone
<1>2. /\ asked \in CallRecord /\ asked.provider = "none" /\ asked.selected = "none"
      /\ asked.next = 1
  <2>1. /\ Idle \in CallRecord /\ Idle.provider = "none" /\ Idle.selected = "none" /\ Idle.next = 1
    BY IdleType DEF Idle
  <2> HIDE DEF Idle
  <2> QED
    BY <2>1 DEF CallRecord
<1>3. \/ Goto(c, [asked EXCEPT !.at = "failed"])
      \/ \E p \in Best(registered, q) :
            Goto(c, [asked EXCEPT !.at = "charging", !.selected = p, !.provider = p])
  BY DEF Pay
<1> HIDE DEF asked
<1>4. CASE Goto(c, [asked EXCEPT !.at = "failed"])
  <2> DEFINE r == [asked EXCEPT !.at = "failed"]
  <2>1. "failed" \in Labels
    BY DEF Labels
  <2>2. r \in CallRecord /\ r.provider = r.selected /\ r.next = 1 /\ r.at = "failed"
    BY <1>2, <2>1 DEF CallRecord
  <2>3. Goto(c, r)
    BY <1>4
  <2> HIDE DEF r
  <2> QED
    BY <1>1, <2>2, <2>3 DEF Began, Reachable
<1>5. CASE \E p \in Best(registered, q) :
              Goto(c, [asked EXCEPT !.at = "charging", !.selected = p, !.provider = p])
  <2> PICK p \in Best(registered, q) :
               Goto(c, [asked EXCEPT !.at = "charging", !.selected = p, !.provider = p])
    BY <1>5
  <2> DEFINE r == [asked EXCEPT !.at = "charging", !.selected = p, !.provider = p]
  <2>1. p \in Elements(registered) /\ p \in KnownOrNone /\ "charging" \in Labels
    <3>1. registered \in Seq(Known)
      BY DEF Shaped
    <3>2. PICK i \in 1..Len(registered) : p = registered[i]
      BY DEF Best
    <3> QED
      BY <3>1, <3>2 DEF Elements, KnownOrNone, Labels
  <2>2. /\ r \in CallRecord /\ r.provider = p /\ r.selected = p /\ r.next = 1
        /\ r.at = "charging"
    BY <1>2, <2>1 DEF CallRecord
  <2>3. Goto(c, r)
    OBVIOUS
  <2> HIDE DEF r
  <2> QED
    BY <1>1, <2>1, <2>2, <2>3 DEF Began, Reachable
<1> QED
  BY <1>1, <1>3, <1>4, <1>5

(* The record of a call that starts with something to look at. *)
Asked(kind, amount, e, at) ==
    [Idle EXCEPT !.kind = kind, !.amount = amount, !.event = e, !.at = at]

LEMMA AskedType ==
    ASSUME NEW kind \in {"capture", "refund", "hook"}, NEW at \in Labels, NEW amount \in Nat,
           NEW e \in [name : EventNames, of : Nat]
    PROVE  /\ Asked(kind, amount, e, at) \in CallRecord
           /\ Asked(kind, amount, e, at).provider = Asked(kind, amount, e, at).selected
           /\ Asked(kind, amount, e, at).next = 1 /\ Asked(kind, amount, e, at).at = at
           /\ Asked(kind, amount, e, at).event = e /\ Asked(kind, amount, e, at).kind = kind
<1>1. /\ Idle \in CallRecord /\ Idle.provider = Idle.selected /\ Idle.next = 1
  BY IdleType DEF Idle
<1> HIDE DEF Idle
<1> QED
  BY <1>1 DEF CallRecord, Asked

LEMMA FindEffect ==
    ASSUME Shaped, NEW c \in Calls, NEW i \in 1..Len(intents), NEW amount \in Parts,
           NEW kind \in {"capture", "refund"}, Find(c, kind, i, amount)
    PROVE  /\ Alone
           /\ \E r \in CallRecord : /\ Goto(c, r) /\ Began(c, r) /\ Reachable(r, registered, intents)
                                    /\ r.at \in {"failed", "capturing", "checking"}
<1>1. Alone /\ call[c] = Idle /\ amount \in Nat
  BY GatewayAssumption DEF Find, Alone
<1> DEFINE e == Event("none", i)
           asked == [Idle EXCEPT !.kind = kind, !.amount = amount, !.event = e]
<1>2. e \in [name : EventNames, of : Nat] /\ e.of = i
  BY EventType DEF EventNames
<1>3. PICK at \in {"failed", "capturing", "checking"} : Goto(c, [asked EXCEPT !.at = at])
  BY DEF Find
<1>4. at \in Labels
  BY <1>3 DEF Labels
<1> DEFINE r == Asked(kind, amount, e, at)
<1>5. Goto(c, r)
  BY <1>3 DEF Asked
<1> HIDE DEF e
<1>6. /\ r \in CallRecord /\ r.provider = r.selected /\ r.next = 1
      /\ r.at = at /\ r.event = e
  BY <1>1, <1>2, <1>4, AskedType
<1> HIDE DEF r
<1> QED
  BY <1>1, <1>2, <1>3, <1>5, <1>6 DEF Began, Reachable

LEMMA DeliverEffect ==
    ASSUME Shaped, NEW c \in Calls, NEW h \in hooks, Deliver(c, h)
    PROVE  /\ Alone
           /\ \E r \in CallRecord :
                 /\ Goto(c, r) /\ Began(c, r) /\ Reachable(r, registered, intents)
                 /\ r.event.name = Mapped(h.name) /\ r.event.of = h.of /\ r.kind = "hook"
                 /\ r.at \in {"failed", "announcing", "ok"}
                 /\ r.at = "ok" => r.event.name \notin Handled
<1>1. Alone /\ call[c] = Idle /\ h.name \in HookNames /\ h.of \in Nat
  BY DEF Deliver, Alone, Shaped
<1> DEFINE e == Event(Mapped(h.name), h.of)
           asked == [Idle EXCEPT !.kind = "hook", !.event = e]
<1>2. Mapped(h.name) \in EventNames
  BY <1>1 DEF Mapped, EventNames, HookNames
<1>3. /\ e \in [name : EventNames, of : Nat] /\ e.of = h.of /\ e.name = Mapped(h.name)
  BY <1>1, <1>2, EventType
<1>4. PICK at \in {"failed", "announcing", "ok"} :
             Goto(c, [asked EXCEPT !.at = at]) /\ (at = "ok" => e.name \notin Handled)
  BY DEF Deliver
<1>5. at \in Labels /\ Idle.amount = 0
  BY <1>4 DEF Labels, Idle
<1> DEFINE r == Asked("hook", 0, e, at)
<1>6. Goto(c, r)
  <2>1. [asked EXCEPT !.at = at] = r
    <3>1. Idle \in CallRecord
      BY IdleType
    <3> HIDE DEF Idle, e
    <3> QED
      BY <1>5, <3>1 DEF CallRecord, Asked
  <2> QED
    BY <1>4, <2>1
<1> HIDE DEF e
<1>7. /\ r \in CallRecord /\ r.provider = r.selected /\ r.next = 1
      /\ r.at = at /\ r.event = e /\ r.kind = "hook"
  <2>1. "hook" \in {"capture", "refund", "hook"} /\ 0 \in Nat
    OBVIOUS
  <2>2. e \in [name : EventNames, of : Nat] /\ at \in Labels
    BY <1>3, <1>5
  <2> QED
    BY <2>1, <2>2, AskedType
<1> HIDE DEF r
<1> QED
  BY <1>1, <1>3, <1>4, <1>6, <1>7 DEF Began, Reachable

(* The steps outside the calls. *)
LEMMA ShapedSetup ==
    ASSUME Shaped, Setup
    PROVE  Shaped'
<1>1. /\ UNCHANGED <<call, intents, refunds, hooks, published>>
      /\ setup \in 0..Len(Listed) /\ Len(Listed) \in Nat /\ setup < Len(Listed)
      /\ setup' = setup + 1 /\ registered \in Seq(Known)
      /\ registered' = registered \/ registered' = Append(registered, Listed[setup + 1])
  BY GatewayAssumption DEF Shaped, Setup
<1>2. setup + 1 \in 1..Len(Listed)
  BY <1>1
<1>3. Listed[setup + 1] \in Known
  BY <1>2, GatewayAssumption
<1>4. registered' \in Seq(Known)
  BY <1>1, <1>3
<1>5. \A d \in Calls : Located(d)'
  <2> TAKE d \in Calls
  <2>1. intents' \in Seq(Intent) /\ Len(intents) <= Len(intents') /\ call'[d] = call[d]
    BY <1>1 DEF Shaped
  <2> QED
    BY <1>1, <1>3, <2>1, Remains
<1> QED
  BY <1>1, <1>2, <1>4, <1>5 DEF Shaped

(* Stripe changes intents by itself, and the calls stay where they are. *)
LEMMA ShapedOutside ==
    ASSUME Shaped, UNCHANGED <<setup, registered, call, published>>,
           intents' \in Seq(Intent), Len(intents') = Len(intents),
           refunds' \in Seq(RefundRecord),
           \A n \in 1..Len(refunds') : refunds'[n].intent \in 1..Len(intents),
           hooks' \subseteq [name : HookNames, of : Nat]
    PROVE  Shaped'
<1>1. \A d \in Calls : Located(d)'
  <2> TAKE d \in Calls
  <2>1. intents' \in Seq(Intent) /\ Len(intents) <= Len(intents') /\ call'[d] = call[d]
    BY DEF Shaped
  <2> QED
    BY <2>1, Remains
<1> QED
  BY <1>1 DEF Shaped

(* What settles outside. *)
Settled(i) ==
    \/ intents[i].status = "processing" /\ (Taken(i) \/ Declined(i))
    \/ Lapsed(i)

LEMMA SettleEffect ==
    ASSUME Shaped, Settle
    PROVE  /\ UNCHANGED <<setup, registered, call, refunds, published>>
           /\ \E i \in 1..Len(intents) : Settled(i)
<1>1. PICK i \in 1..Len(intents) :
             /\ \/ intents[i].status = "processing" /\ (Accept(i) \/ Decline(i))
                \/ intents[i].status = "requires_capture" /\ Expire(i)
             /\ UNCHANGED <<setup, registered, call, refunds, published>>
  BY DEF Settle
<1>2. Expire(i) /\ intents[i].status = "requires_capture" => Lapsed(i)
  <2>1. "canceled" \in IntentStatuses
    BY DEF IntentStatuses
  <2> QED
    BY <2>1, StatusMove DEF Expire, Lapsed
<1> QED
  BY <1>1, <1>2, AcceptType, DeclineType DEF Settled

LEMMA ShapedSettle ==
    ASSUME Shaped, Settle
    PROVE  Shaped'
<1>1. PICK i \in 1..Len(intents) : Settled(i)
  BY SettleEffect
<1>2. /\ UNCHANGED <<setup, registered, call, refunds, published>>
      /\ refunds \in Seq(RefundRecord)
      /\ \A n \in 1..Len(refunds) : refunds[n].intent \in 1..Len(intents)
  BY SettleEffect DEF Shaped
<1>4. /\ intents' \in Seq(Intent) /\ Len(intents') = Len(intents)
      /\ hooks' \subseteq [name : HookNames, of : Nat]
  BY <1>1, TakenType, DeclinedType, LapsedType DEF Settled
<1> QED
  BY <1>2, <1>4, ShapedOutside

(* A refund that failed in the end. *)
Returned(n) ==
    /\ n \in 1..Len(refunds) /\ refunds[n].status = "pending"
    /\ refunds' \in Seq(RefundRecord) /\ Len(refunds') = Len(refunds)
    /\ refunds'[n].status = "failed" /\ refunds'[n].intent = refunds[n].intent
    /\ refunds'[n].amount = refunds[n].amount
    /\ \A m \in 1..Len(refunds) : m # n => refunds'[m] = refunds[m]
    /\ LET i == refunds[n].intent IN
       Became(i, intents[i].status, intents[i].received, intents[i].refunded - refunds[n].amount)
    /\ Notify({"refund.updated"}, n)

LEMMA RefundFailsEffect ==
    ASSUME Shaped, RefundFails
    PROVE  /\ UNCHANGED <<setup, registered, call, published>>
           /\ \E n \in 1..Len(refunds) : Returned(n)
<1>1. PICK n \in 1..Len(refunds) :
             /\ refunds[n].status = "pending"
             /\ refunds' = [refunds EXCEPT ![n].status = "failed"]
             /\ intents' = [intents EXCEPT ![refunds[n].intent].refunded = @ - refunds[n].amount]
             /\ Notify({"refund.updated"}, n)
             /\ UNCHANGED <<setup, registered, call, published>>
  BY DEF RefundFails
<1>2. refunds \in Seq(RefundRecord) /\ refunds[n].intent \in 1..Len(intents)
  BY DEF Shaped
<1>3. refunds[n] \in RefundRecord
  BY <1>2
<1>4. refunds[n].amount \in Nat
  BY <1>3 DEF RefundRecord
<1> DEFINE i == refunds[n].intent
           new == [refunds[n] EXCEPT !.status = "failed"]
<1>5. i \in 1..Len(intents) /\ intents[i].refunded \in Int
  BY <1>2, IntentFacts
<1>6. intents' = [intents EXCEPT ![i].refunded = intents[i].refunded - refunds[n].amount]
  BY <1>1
<1>7. new \in RefundRecord /\ new.status = "failed" /\ new.intent = i /\ new.amount = refunds[n].amount
  BY <1>3 DEF RefundRecord
<1>8. refunds' = [refunds EXCEPT ![n] = new]
  BY <1>1
<1> HIDE DEF new
<1>9. /\ refunds' \in Seq(RefundRecord) /\ Len(refunds') = Len(refunds) /\ refunds'[n] = new
      /\ \A m \in 1..Len(refunds) : m # n => refunds'[m] = refunds[m]
  <2>1. new \in RefundRecord
    BY <1>7
  <2> QED
    BY <1>2, <1>8, <2>1, SeqUpdate
<1>10. refunds'[n].intent = i /\ refunds'[n].status = "failed" /\ refunds'[n].amount = refunds[n].amount
  BY <1>7, <1>9
<1> HIDE DEF i
<1>11. intents[i].refunded - refunds[n].amount \in Int
  BY <1>4, <1>5
<1>12. Became(i, intents[i].status, intents[i].received, intents[i].refunded - refunds[n].amount)
  BY <1>5, <1>6, <1>11, RefundedMove
<1> QED
  BY <1>1, <1>9, <1>10, <1>12 DEF Returned, i

LEMMA ShapedRefundFails ==
    ASSUME Shaped, RefundFails
    PROVE  Shaped'
<1>1. PICK n \in 1..Len(refunds) : Returned(n)
  BY RefundFailsEffect
<1>2. /\ UNCHANGED <<setup, registered, call, published>>
      /\ \A m \in 1..Len(refunds) : refunds[m].intent \in 1..Len(intents)
  BY RefundFailsEffect DEF Shaped
<1>3. n \in Nat
  OBVIOUS
<1>4. /\ intents' \in Seq(Intent) /\ Len(intents') = Len(intents)
      /\ refunds' \in Seq(RefundRecord) /\ Len(refunds') = Len(refunds)
      /\ hooks' \subseteq [name : HookNames, of : Nat]
  BY <1>1, <1>3, HookSets, NotifyType DEF Returned, Became
<1>5. \A m \in 1..Len(refunds') : refunds'[m].intent \in 1..Len(intents)
  BY <1>1, <1>2, <1>4 DEF Returned
<1> QED
  BY <1>2, <1>4, <1>5, ShapedOutside

LEMMA ShapedNext == Shaped /\ [Next]_vars => Shaped'
<1> SUFFICES ASSUME Shaped, [Next]_vars PROVE Shaped'
  OBVIOUS
<1>1. CASE Setup
  BY <1>1, ShapedSetup
<1>2. CASE Settle
  BY <1>2, ShapedSettle
<1>3. CASE RefundFails
  BY <1>3, ShapedRefundFails
<1>4. ASSUME NEW c \in Calls, Step(c)
      PROVE  Shaped'
  <2>1. CASE Check(c)
    BY <2>1, CheckEffect, ShapedAlone
  <2> QED
    BY <1>4, <2>1, ShapedCreate, ShapedConfirm, ShapedPublish, ShapedCapture, ShapedRefund DEF Step
<1>5. ASSUME NEW c \in Calls, NEW r \in Requests, Pay(c, r)
      PROVE  Shaped'
  BY <1>5, PayEffect, ShapedAlone
<1>6. ASSUME NEW c \in Calls, NEW i \in 1..Len(intents), NEW amount \in Parts,
             NEW kind \in {"capture", "refund"}, Find(c, kind, i, amount)
      PROVE  Shaped'
  BY <1>6, FindEffect, ShapedAlone
<1>7. ASSUME NEW c \in Calls, NEW h \in hooks, Deliver(c, h)
      PROVE  Shaped'
  BY <1>7, DeliverEffect, ShapedAlone
<1>8. CASE UNCHANGED vars
  <2>1. \A d \in Calls : Located(d)'
    <3>1. call' = call /\ intents' = intents /\ registered' = registered
      BY <1>8 DEF vars
    <3>2. \A d \in Calls : Located(d)
      BY DEF Shaped
    <3> QED
      BY <3>1, <3>2 DEF Located, Elements
  <2> QED
    BY <1>8, <2>1 DEF vars, Shaped
<1> QED
  BY <1>1, <1>2, <1>3, <1>4, <1>5, <1>6, <1>7, <1>8 DEF Next
-----------------------------------------------------------------------------
(* One call and one key make one intent at most. *)

(* How a call that was started goes on. *)
Advances(c, r) ==
    /\ r \in CallRecord /\ r.request = call[c].request /\ r.selected = call[c].selected
    /\ \/ r.next = call[c].next /\ r.provider = call[c].provider /\ r.at # "charging"
       \/ Retried(c, r)

LEMMA AdvanceTries ==
    ASSUME Shaped, NEW c \in Calls, NEW r, Charging(c), Advances(c, r)
    PROVE  /\ Tried(r, r.provider)
           /\ \A p : Tried(call[c], p) => Tried(r, p)
           /\ r.at = "charging" /\ r.provider = "stripe" => ~Tried(call[c], "stripe")
<1>0. call[c].next \in Nat /\ Len(Fallbacks) \in Nat /\ r.selected = call[c].selected
  BY GatewayAssumption DEF Shaped, CallRecord, Advances
<1>1. CASE r.next = call[c].next /\ r.provider = call[c].provider /\ r.at # "charging"
  BY <1>0, <1>1 DEF Tried, Charging
<1>2. CASE r.at = "failed" /\ r.next = call[c].next /\ r.provider = call[c].provider
  BY <1>0, <1>2 DEF Tried, Charging
<1>3. CASE /\ r.at = "charging" /\ Usable(r.provider, r.selected)
           /\ \E i \in 1..Len(Fallbacks) :
                 call[c].next <= i /\ r.provider = Fallbacks[i] /\ r.next = i + 1
  <2> PICK i \in 1..Len(Fallbacks) :
             call[c].next <= i /\ r.provider = Fallbacks[i] /\ r.next = i + 1
    BY <1>3
  <2>1. r.provider # r.selected
    BY <1>3 DEF Usable
  <2>2. i < r.next /\ \A m \in 1..Len(Fallbacks) : m < call[c].next => m < r.next /\ m # i
    BY <1>0
  <2>3. Tried(r, r.provider)
    BY <2>2 DEF Tried
  <2>4. \A p : Tried(call[c], p) => Tried(r, p)
    BY <1>0, <2>2 DEF Tried
  <2>5. ~Tried(call[c], r.provider)
    BY <1>0, <2>1, <2>2, GatewayAssumption DEF Tried
  <2> QED
    BY <2>3, <2>4, <2>5
<1> QED
  BY <1>1, <1>2, <1>3 DEF Advances, Retried

LEMMA IdleUncharged ==
    ASSUME Shaped, NEW c \in Calls, Charging(c), call[c] = Idle
    PROVE  ~HasCharged(c)
<1>1. Idle.selected = "none" /\ Idle.next = 1
  BY DEF Idle
<1>2. ~Tried(Idle, "stripe")
  BY <1>1, GatewayAssumption DEF Tried
<1> QED
  BY <1>2 DEF Charging

(* Whose the intents are does not change. *)
NamesKept ==
    /\ Len(intents') = Len(intents)
    /\ \A i \in 1..Len(intents) : intents'[i].call = intents[i].call /\ intents'[i].key = intents[i].key

LEMMA ChargedOutside ==
    ASSUME Shaped, ChargedInv, NamesKept, UNCHANGED call
    PROVE  ChargedInv'
<1>1. \A c \in Calls : HasCharged(c)' <=> HasCharged(c)
  BY DEF NamesKept, HasCharged
<1>2. \A c \in Calls : Charging(c)'
  BY <1>1 DEF ChargedInv, Charging, Tried
<1> QED
  BY <1>2 DEF ChargedInv, NamesKept, RequestKey

LEMMA ChargedMoves ==
    ASSUME Shaped, ChargedInv, NamesKept, NEW c \in Calls, NEW r \in CallRecord, Goto(c, r),
           Advances(c, r) \/ Began(c, r)
    PROVE  ChargedInv'
<1>0. /\ call' \in [Calls -> CallRecord] /\ call'[c] = r
      /\ \A d \in Calls : d # c => call'[d] = call[d]
  BY GotoType
<1>1. \A d \in Calls : HasCharged(d)' <=> HasCharged(d)
  BY DEF NamesKept, HasCharged
<1>2. Charging(c) /\ \A d \in Calls : Charging(d)
  BY DEF ChargedInv
<1>3. /\ Tried(r, r.provider) /\ (HasCharged(c) => Tried(r, "stripe"))
      /\ r.at = "charging" /\ r.provider = "stripe" => ~HasCharged(c)
      /\ HasCharged(c) => r.request = call[c].request
  <2>1. CASE Advances(c, r)
    BY <1>2, <2>1, AdvanceTries DEF Charging, Advances
  <2>2. CASE Began(c, r)
    BY <1>2, <2>2, IdleUncharged DEF Began, Tried
  <2> QED
    BY <2>1, <2>2
<1>4. Charging(c)'
  BY <1>0, <1>1, <1>3 DEF Charging, Tried
<1>5. \A d \in Calls : Charging(d)'
  <2> TAKE d \in Calls
  <2>1. CASE d = c
    BY <1>4, <2>1
  <2>2. CASE d # c
    BY <1>0, <1>1, <1>2, <2>2 DEF Charging, Tried
  <2> QED
    BY <2>1, <2>2
<1>6. \A i \in 1..Len(intents') : intents'[i].key = RequestKey(i)'
  <2> TAKE i \in 1..Len(intents')
  <2>1. i \in 1..Len(intents) /\ intents'[i].call = intents[i].call /\ intents'[i].key = intents[i].key
    BY DEF NamesKept
  <2>2. intents[i].key = call[intents[i].call].request.key /\ intents[i].call \in Calls
    BY <2>1, IntentFacts DEF ChargedInv, RequestKey
  <2>3. CASE intents[i].call = c
    <3>1. r.request = call[c].request
      BY <1>3, <2>1, <2>3 DEF HasCharged
    <3> QED
      BY <1>0, <2>1, <2>2, <2>3, <3>1 DEF RequestKey
  <2>4. CASE intents[i].call # c
    BY <1>0, <2>1, <2>2, <2>4 DEF RequestKey
  <2> QED
    BY <2>3, <2>4
<1>7. \A i, j \in 1..Len(intents') :
         intents'[i].call = intents'[j].call
            \/ (intents'[i].key = intents'[j].key /\ intents'[i].key # NoKey) => i = j
  BY DEF ChargedInv, NamesKept
<1> QED
  BY <1>5, <1>6, <1>7 DEF ChargedInv

LEMMA ChargedMade ==
    ASSUME Shaped, ChargedInv, NEW c \in Calls, NEW r \in CallRecord, Goto(c, r),
           call[c].at = "charging", NewMade(c), Advances(c, r), r.at = "charging" => Retried(c, r)
    PROVE  ChargedInv'
<1> DEFINE n == Len(intents)
<1>0. /\ call' \in [Calls -> CallRecord] /\ call'[c] = r /\ n \in Nat
      /\ \A d \in Calls : d # c => call'[d] = call[d]
  BY GotoType DEF Shaped
<1>1. /\ Len(intents') = n + 1 /\ \A i \in 1..n : intents'[i] = intents[i]
      /\ intents'[n + 1].call = c /\ intents'[n + 1].key = call[c].request.key
  BY NewMadeType
<1>2. Charging(c) /\ \A d \in Calls : Charging(d)
  BY DEF ChargedInv
<1>3. call[c].provider = "stripe" /\ ~HasCharged(c) /\ Tried(call[c], "stripe")
  BY <1>2 DEF NewMade, Charging
<1>4. /\ Tried(r, r.provider) /\ Tried(r, "stripe") /\ r.request = call[c].request
      /\ ~(r.at = "charging" /\ r.provider = "stripe")
  BY <1>2, <1>3, AdvanceTries DEF Advances
<1>5. \A d \in Calls : d # c => (HasCharged(d)' <=> HasCharged(d))
  BY <1>0, <1>1 DEF HasCharged
<1>6. \A d \in Calls : Charging(d)'
  <2> TAKE d \in Calls
  <2>1. CASE d = c
    BY <1>0, <1>4, <2>1 DEF Charging, Tried
  <2>2. CASE d # c
    BY <1>0, <1>2, <1>5, <2>2 DEF Charging, Tried
  <2> QED
    BY <2>1, <2>2
<1>7. \A i \in 1..Len(intents') : intents'[i].key = RequestKey(i)'
  <2> TAKE i \in 1..Len(intents')
  <2>1. CASE i = n + 1
    BY <1>0, <1>1, <1>4, <2>1 DEF RequestKey
  <2>2. CASE i \in 1..n
    <3>1. intents[i].key = call[intents[i].call].request.key /\ intents[i].call \in Calls
      BY <2>2, IntentFacts DEF ChargedInv, RequestKey
    <3>2. intents[i].call # c /\ intents'[i] = intents[i]
      BY <1>1, <1>3, <2>2 DEF HasCharged
    <3> QED
      BY <1>0, <3>1, <3>2 DEF RequestKey
  <2> QED
    BY <1>0, <1>1, <2>1, <2>2
<1>8. \A i \in 1..n : /\ intents'[i].call # c
                      /\ intents'[i].key = call[c].request.key => intents'[i].key = NoKey
  <2> TAKE i \in 1..n
  <2>1. i \notin SameKey(call[c].request.key)
    BY DEF NewMade, KeyOf
  <2> QED
    BY <1>1, <1>3, <2>1 DEF SameKey, HasCharged
<1>9. \A i, j \in 1..Len(intents') :
         intents'[i].call = intents'[j].call
            \/ (intents'[i].key = intents'[j].key /\ intents'[i].key # NoKey) => i = j
  <2> TAKE i, j \in 1..Len(intents')
  <2>1. CASE i \in 1..n /\ j \in 1..n
    BY <1>1, <2>1 DEF ChargedInv
  <2>2. CASE i = n + 1 /\ j \in 1..n
    BY <1>1, <1>8, <2>2
  <2>3. CASE i \in 1..n /\ j = n + 1
    BY <1>1, <1>8, <2>3
  <2>4. CASE i = n + 1 /\ j = n + 1
    BY <2>4
  <2> QED
    BY <1>0, <1>1, <2>1, <2>2, <2>3, <2>4
<1> QED
  BY <1>6, <1>7, <1>9 DEF ChargedInv

LEMMA BecameKept ==
    ASSUME NEW i \in 1..Len(intents), NEW status, NEW received, NEW refunded,
           Became(i, status, received, refunded)
    PROVE  NamesKept
  BY DEF Became, NamesKept

LEMMA TakenKept ==
    ASSUME NEW i \in 1..Len(intents), Taken(i)
    PROVE  NamesKept
  BY BecameKept DEF Taken

LEMMA SettledKept ==
    ASSUME NEW i \in 1..Len(intents), Settled(i)
    PROVE  NamesKept
  BY TakenKept, BecameKept DEF Settled, Declined, Lapsed

LEMMA AnsweredAdvances ==
    ASSUME NEW c \in Calls, NEW r, NEW e, Answered(c, r, e)
    PROVE  Advances(c, r)
  BY DEF Answered, Announces, Ended, Advances, Same

LEMMA ChargedNext == Shaped /\ ChargedInv /\ [Next]_vars => ChargedInv'
<1> SUFFICES ASSUME Shaped, ChargedInv, [Next]_vars PROVE ChargedInv'
  OBVIOUS
<1>0. UNCHANGED intents => NamesKept
  BY DEF NamesKept
<1>1. CASE Setup
  BY <1>0, <1>1, ChargedOutside DEF Setup
<1>2. CASE Settle
  BY <1>2, SettleEffect, SettledKept, ChargedOutside
<1>3. CASE RefundFails
  <2>1. PICK n \in 1..Len(refunds) : Returned(n)
    BY <1>3, RefundFailsEffect
  <2>2. refunds[n].intent \in 1..Len(intents)
    BY DEF Shaped
  <2>3. NamesKept
    BY <2>1, <2>2, BecameKept DEF Returned
  <2> QED
    BY <1>3, <2>3, RefundFailsEffect, ChargedOutside
<1>4. ASSUME NEW c \in Calls, Create(c)
      PROVE  ChargedInv'
  <2>1. PICK r \in CallRecord :
               /\ Goto(c, r)
               /\ \/ UNCHANGED intents /\ Retried(c, r)
                  \/ NewMade(c) /\ (Made(c, r, Len(intents) + 1) \/ Retried(c, r))
                  \/ UNCHANGED intents /\ \E i \in 1..Len(intents) : Made(c, r, i)
    BY <1>4, CreateEffect
  <2>2. Advances(c, r) /\ (r.at = "charging" => Retried(c, r))
    BY <2>1 DEF Made, Announces, Retried, Same, Advances
  <2>3. call[c].at = "charging"
    BY <1>4, CreateEffect
  <2> QED
    BY <1>0, <2>1, <2>2, <2>3, ChargedMade, ChargedMoves
<1>5. ASSUME NEW c \in Calls, Confirm(c)
      PROVE  ChargedInv'
  <2>1. PICK r \in CallRecord :
               /\ Goto(c, r)
               /\ \/ UNCHANGED <<intents, hooks>> /\ Retried(c, r)
                  \/ /\ \E i \in 1..Len(intents) : Confirming(i)
                     /\ \/ Announces(c, r, call[c].event) /\ r.at = "announcing"
                        \/ Retried(c, r)
    BY <1>5, ConfirmEffect
  <2>2. Advances(c, r)
    BY <2>1 DEF Announces, Retried, Same, Advances
  <2>3. NamesKept
    BY <1>0, <2>1, TakenKept, BecameKept DEF Confirming, Declined
  <2> QED
    BY <2>1, <2>2, <2>3, ChargedMoves
<1>6. ASSUME NEW c \in Calls, Publish(c)
      PROVE  ChargedInv'
  <2>1. NamesKept /\ "ok" \in Labels /\ "failed" \in Labels
    BY <1>0, <1>6 DEF Publish, Labels
  <2>2. PICK r \in CallRecord :
               Goto(c, r) /\ (Retried(c, r) \/ Ended(c, r, "ok") \/ Ended(c, r, "failed"))
    BY <1>6, <2>1, AfterErrorType, EndType DEF Publish, Unpublished
  <2>3. Advances(c, r)
    BY <2>2 DEF Ended, Retried, Same, Advances
  <2> QED
    BY <2>1, <2>2, <2>3, ChargedMoves
<1>7. ASSUME NEW c \in Calls, Capture(c)
      PROVE  ChargedInv'
  <2>1. CASE UNCHANGED intents /\ \E r \in CallRecord : Goto(c, r) /\ Ended(c, r, "failed")
    BY <1>0, <2>1, ChargedMoves, AnsweredAdvances DEF Answered
  <2>2. CASE \E i \in 1..Len(intents), amount \in Nat : Captured(c, i, amount)
    <3> PICK i \in 1..Len(intents), amount \in Nat : Captured(c, i, amount)
      BY <2>2
    <3>1. NamesKept
      BY BecameKept DEF Captured
    <3> QED
      BY <3>1, AnsweredAdvances, ChargedMoves DEF Captured
  <2> QED
    BY <1>7, <2>1, <2>2, CaptureEffect
<1>8. ASSUME NEW c \in Calls, Refund(c)
      PROVE  ChargedInv'
  <2>1. CASE UNCHANGED intents /\ \E r \in CallRecord : Goto(c, r) /\ Ended(c, r, "failed")
    BY <1>0, <2>1, ChargedMoves, AnsweredAdvances DEF Answered
  <2>2. CASE \E i \in 1..Len(intents), amount \in Nat : Refunded(c, i, amount)
    <3> PICK i \in 1..Len(intents), amount \in Nat : Refunded(c, i, amount)
      BY <2>2
    <3>1. NamesKept
      BY BecameKept DEF Refunded
    <3> QED
      BY <3>1, AnsweredAdvances, ChargedMoves DEF Refunded
  <2> QED
    BY <1>8, <2>1, <2>2, RefundEffect
<1>9. ASSUME NEW c \in Calls, Check(c)
      PROVE  ChargedInv'
  <2>1. PICK r \in CallRecord : Goto(c, r) /\ (Ended(c, r, "failed") \/ Ended(c, r, "refunding"))
    BY <1>9, CheckEffect
  <2>2. Advances(c, r)
    BY <2>1 DEF Ended, Same, Advances
  <2>3. NamesKept
    BY <1>0, <1>9, CheckEffect DEF Alone
  <2> QED
    BY <2>1, <2>2, <2>3, ChargedMoves
<1>10. ASSUME NEW c \in Calls, \/ \E r \in Requests : Pay(c, r)
                               \/ \E i \in 1..Len(intents), amount \in Parts, kind \in {"capture", "refund"} :
                                     Find(c, kind, i, amount)
                               \/ \E h \in hooks : Deliver(c, h)
       PROVE  ChargedInv'
  <2>1. Alone /\ \E r \in CallRecord : Goto(c, r) /\ Began(c, r)
    BY <1>10, PayEffect, FindEffect, DeliverEffect
  <2> QED
    BY <1>0, <2>1, ChargedMoves DEF Alone
<1>11. CASE UNCHANGED vars
  BY <1>0, <1>11, ChargedOutside DEF vars
<1> QED
  BY <1>1, <1>2, <1>3, <1>4, <1>5, <1>6, <1>7, <1>8, <1>9, <1>10, <1>11 DEF Next, Step

LEMMA ChargedInit == Init => ChargedInv
<1> SUFFICES ASSUME Init PROVE ChargedInv
  OBVIOUS
<1>1. call = [c \in Calls |-> Idle] /\ intents = <<>> /\ Idle.selected = Idle.provider /\ Idle.at = "idle"
  BY DEF Init, Idle
<1> QED
  BY <1>1 DEF ChargedInv, Charging, Tried, HasCharged
-----------------------------------------------------------------------------
(* Stripe never gives back more than it received. *)

LEMMA AccountsAppend ==
    ASSUME NEW list \in Seq(RefundRecord), NEW new \in RefundRecord, NEW i, NEW held \in Int,
           NEW more \in Nat, NEW total, Accounts(list, i, held, total),
           new.intent = i => new.amount <= more
    PROVE  \E t : Accounts(Append(list, new), i, held + more, t)
<1> DEFINE L == Len(list)
           amount == new.amount
           longer == Append(list, new)
           t == [k \in 0..(L + 1) |-> IF k = L + 1 THEN total[L] + more ELSE total[k]]
<1>1. /\ L \in Nat /\ longer \in Seq(RefundRecord) /\ Len(longer) = L + 1
      /\ longer[L + 1] = new /\ \A n \in 1..L : longer[n] = list[n]
  BY AppendType
<1>2. /\ total \in [0..L -> Nat] /\ total[L] <= held
      /\ \A m, n \in 0..L : m <= n => total[m] <= total[n]
      /\ \A n \in 1..L : list[n].intent = i /\ list[n].status # "failed" =>
            total[n - 1] + list[n].amount <= total[n]
  BY DEF Accounts
<1>3. amount \in Nat /\ (new.intent = i => amount <= more)
  BY DEF RefundRecord
<1>4. total[L] \in Nat /\ \A k \in 0..L : total[k] \in Nat
  BY <1>1, <1>2
<1> HIDE DEF L, amount, longer
<1>5. t \in [0..(L + 1) -> Nat]
  BY <1>1, <1>4
<1>6. t[L + 1] = total[L] + more /\ \A k \in 0..L : t[k] = total[k]
  BY <1>1
<1> HIDE DEF t
<1>7. \A m, n \in 0..(L + 1) : m <= n => t[m] <= t[n]
  <2> TAKE m, n \in 0..(L + 1)
  <2> HAVE m <= n
  <2>1. CASE n \in 0..L
    <3>1. m \in 0..L
      BY <1>1, <2>1
    <3>2. total[m] <= total[n] /\ t[m] = total[m] /\ t[n] = total[n]
      BY <1>2, <1>6, <2>1, <3>1
    <3> QED
      BY <3>2
  <2>2. CASE n = L + 1 /\ m \in 0..L
    <3>1. total[m] <= total[L]
      BY <1>1, <1>2, <2>2
    <3> QED
      BY <1>1, <1>4, <1>6, <2>2, <3>1
  <2>3. CASE n = L + 1 /\ m = L + 1
    BY <1>1, <1>4, <1>6, <2>3
  <2> QED
    BY <1>1, <2>1, <2>2, <2>3
<1>8. \A n \in 1..(L + 1) : longer[n].intent = i /\ longer[n].status # "failed" =>
         t[n - 1] + longer[n].amount <= t[n]
  <2> TAKE n \in 1..(L + 1)
  <2>1. CASE n \in 1..L
    <3>1. n - 1 \in 0..L /\ n \in 0..L /\ longer[n] = list[n]
      BY <1>1, <2>1
    <3> QED
      BY <1>2, <1>6, <2>1, <3>1
  <2>2. CASE n = L + 1
    <3>1. n - 1 = L /\ L \in 0..L /\ longer[n] = new
      BY <1>1, <2>2
    <3>2. t[n - 1] = total[L] /\ t[n] = total[L] + more
      BY <1>6, <2>2, <3>1
    <3> QED
      BY <1>3, <1>4, <3>1, <3>2 DEF amount
  <2> QED
    BY <1>1, <2>1, <2>2
<1>9. t[L + 1] <= held + more
  BY <1>2, <1>4, <1>6
<1> QED
  BY <1>1, <1>5, <1>7, <1>8, <1>9 DEF Accounts, longer

(* The refund that fails was counted: it can be taken off from where it is on. *)
LEMMA AccountsReturn ==
    ASSUME NEW list \in Seq(RefundRecord), NEW after \in Seq(RefundRecord), NEW n \in 1..Len(list),
           Len(after) = Len(list), list[n].status # "failed", after[n].status = "failed",
           \A m \in 1..Len(list) : m # n => after[m] = list[m],
           NEW i, list[n].intent = i, NEW held \in Int, NEW total, Accounts(list, i, held, total)
    PROVE  \E t : Accounts(after, i, held - list[n].amount, t)
<1> DEFINE L == Len(list)
           amount == list[n].amount
           t == [k \in 0..L |-> IF n <= k THEN total[k] - amount ELSE total[k]]
<1>1. L \in Nat /\ n \in 1..L /\ n - 1 \in 0..L /\ n \in 0..L /\ Len(after) = L
  OBVIOUS
<1>2. /\ total \in [0..L -> Nat] /\ total[L] <= held
      /\ \A m, k \in 0..L : m <= k => total[m] <= total[k]
      /\ \A k \in 1..L : list[k].intent = i /\ list[k].status # "failed" =>
            total[k - 1] + list[k].amount <= total[k]
  BY DEF Accounts
<1>3. amount \in Nat
  <2>1. list[n] \in RefundRecord
    BY <1>1
  <2> QED
    BY <2>1 DEF RefundRecord
<1>4. total[n - 1] + amount <= total[n]
  BY <1>1, <1>2
<1>5. \A k \in 0..L : total[k] \in Nat
  BY <1>2
<1> HIDE DEF L, amount
<1>6. \A k \in 0..L : n <= k => total[n - 1] + amount <= total[k]
  BY <1>1, <1>2, <1>3, <1>4, <1>5
<1>7. t \in [0..L -> Nat]
  <2>1. \A k \in 0..L : n <= k => total[k] - amount \in Nat
    BY <1>1, <1>3, <1>5, <1>6
  <2> QED
    BY <1>5, <2>1
<1>8. \A k \in 0..L : (n <= k => t[k] = total[k] - amount) /\ (~(n <= k) => t[k] = total[k])
  OBVIOUS
<1> HIDE DEF t
<1>9. \A m, k \in 0..L : m <= k => t[m] <= t[k]
  <2> TAKE m, k \in 0..L
  <2> HAVE m <= k
  <2>0. total[m] <= total[k] /\ total[m] \in Nat /\ total[k] \in Nat
    BY <1>2, <1>5
  <2>1. CASE n <= m
    BY <1>1, <1>3, <1>8, <2>0, <2>1
  <2>2. CASE ~(n <= m) /\ n <= k
    <3>1. m <= n - 1
      BY <1>1, <2>2
    <3>2. total[m] <= total[n - 1] /\ total[n - 1] \in Nat
      BY <1>1, <1>2, <1>5, <3>1
    <3> QED
      BY <1>3, <1>6, <1>8, <2>0, <2>2, <3>2
  <2>3. CASE ~(n <= k)
    BY <1>1, <1>8, <2>0, <2>3
  <2> QED
    BY <2>1, <2>2, <2>3
<1>10. \A k \in 1..L : after[k].intent = i /\ after[k].status # "failed" =>
         t[k - 1] + after[k].amount <= t[k]
  <2> TAKE k \in 1..L
  <2> HAVE after[k].intent = i /\ after[k].status # "failed"
  <2>1. k # n
    OBVIOUS
  <2>2. after[k] = list[k]
    BY <1>1, <2>1 DEF L
  <2>3. k \in 0..L /\ k - 1 \in 0..L
    BY <1>1
  <2>4. list[k].amount \in Nat
    <3>1. list[k] \in RefundRecord
      BY <1>1 DEF L
    <3> QED
      BY <3>1 DEF RefundRecord
  <2>5. total[k - 1] + list[k].amount <= total[k] /\ total[k] \in Nat /\ total[k - 1] \in Nat
    BY <1>2, <1>5, <2>2, <2>3
  <2>6. CASE n <= k
    <3>1. n <= k - 1
      BY <1>1, <2>1, <2>6
    <3>2. t[k] = total[k] - amount /\ t[k - 1] = total[k - 1] - amount
      BY <1>8, <2>3, <2>6, <3>1
    <3>3. \A x, y, z, a \in Nat : x + z <= y => (x - a) + z <= y - a
      OBVIOUS
    <3>4. (total[k - 1] - amount) + list[k].amount <= total[k] - amount
      BY <1>3, <2>4, <2>5, <3>3
    <3> QED
      BY <2>2, <3>2, <3>4
  <2>7. CASE ~(n <= k)
    <3>1. ~(n <= k - 1)
      BY <1>1, <2>7
    <3> QED
      BY <1>8, <2>2, <2>3, <2>5, <2>7, <3>1
  <2> QED
    BY <2>6, <2>7
<1>11. t[L] <= held - amount
  <2>1. L \in 0..L /\ n <= L
    BY <1>1
  <2> QED
    BY <1>2, <1>3, <1>5, <1>8, <2>1
<1> QED
  BY <1>1, <1>7, <1>9, <1>10, <1>11 DEF Accounts, amount

(* A failed refund of another intent changes nothing in the accounts of i. *)
LEMMA AccountsSpare ==
    ASSUME NEW list \in Seq(RefundRecord), NEW after \in Seq(RefundRecord), NEW n \in 1..Len(list),
           Len(after) = Len(list), NEW i, after[n].intent # i,
           \A m \in 1..Len(list) : m # n => after[m] = list[m],
           NEW held \in Int, NEW total, Accounts(list, i, held, total)
    PROVE  Accounts(after, i, held, total)
  BY DEF Accounts

LEMMA AccountsFresh ==
    ASSUME NEW list \in Seq(RefundRecord), NEW i,
           \A n \in 1..Len(list) : list[n].intent # i
    PROVE  \E total : Accounts(list, i, 0, total)
<1> DEFINE t == [k \in 0..Len(list) |-> 0]
<1>1. Accounts(list, i, 0, t)
  BY DEF Accounts
<1> QED
  BY <1>1

LEMMA MoneyInit == Init => MoneyInv
<1> SUFFICES ASSUME Init PROVE MoneyInv
  OBVIOUS
<1>1. intents = <<>>
  BY DEF Init
<1> QED
  BY <1>1 DEF MoneyInv

LEMMA MoneySame ==
    ASSUME MoneyInv, UNCHANGED <<intents, refunds>>
    PROVE  MoneyInv'
<1>1. intents' = intents /\ refunds' = refunds
  OBVIOUS
<1> QED
  BY <1>1 DEF MoneyInv

(* Only the status and what was received change. *)
LEMMA MoneyBecame ==
    ASSUME Shaped, MoneyInv, UNCHANGED refunds, NEW i \in 1..Len(intents),
           NEW status, NEW received \in Nat, Became(i, status, received, intents[i].refunded),
           intents[i].refunded <= received, received <= intents[i].amount,
           status = "succeeded" => received > 0, status # "succeeded" => received = 0
    PROVE  MoneyInv'
<1>0. refunds' = refunds /\ Len(intents') = Len(intents)
  BY DEF Became
<1>1. Balanced(intents'[i]) /\ intents'[i].refunded = intents[i].refunded
  BY DEF Became, Balanced
<1>2. \A j \in 1..Len(intents) : j # i => intents'[j] = intents[j]
  BY DEF Became
<1>3. ASSUME NEW j \in 1..Len(intents)
      PROVE  Balanced(intents'[j]) /\ \E total : Accounts(refunds, j, intents'[j].refunded, total)
  <2>1. Balanced(intents[j]) /\ \E total : Accounts(refunds, j, intents[j].refunded, total)
    BY DEF MoneyInv
  <2> QED
    BY <1>1, <1>2, <2>1
<1> QED
  BY <1>0, <1>3 DEF MoneyInv

LEMMA MoneyTaken ==
    ASSUME Shaped, MoneyInv, UNCHANGED refunds, NEW i \in 1..Len(intents), Taken(i),
           intents[i].status # "succeeded"
    PROVE  MoneyInv'
<1>1. /\ intents[i].received = 0 /\ intents[i].refunded <= 0
      /\ intents[i].amount \in Nat /\ intents[i].amount > 0 /\ intents[i].refunded \in Int
  BY IntentFacts DEF MoneyInv, Balanced
<1>2. CASE Became(i, "requires_capture", intents[i].received, intents[i].refunded)
  <2>1. intents[i].received \in Nat /\ intents[i].refunded <= intents[i].received
    BY <1>1
  <2>2. intents[i].received <= intents[i].amount
    BY <1>1
  <2> DEFINE status == "requires_capture"
             received == intents[i].received
  <2>3. /\ status = "succeeded" => received > 0
        /\ status # "succeeded" => received = 0
    BY <1>1
  <2>4. Became(i, status, received, intents[i].refunded)
    BY <1>2
  <2>5. received \in Nat /\ intents[i].refunded <= received /\ received <= intents[i].amount
    BY <2>1, <2>2
  <2> HIDE DEF status, received
  <2> QED
    BY <2>3, <2>4, <2>5, MoneyBecame
<1>3. CASE Became(i, "succeeded", intents[i].amount, intents[i].refunded)
  <2>1. intents[i].refunded <= intents[i].amount
    BY <1>1
  <2> DEFINE status == "succeeded"
             received == intents[i].amount
  <2>2. /\ status = "succeeded" => received > 0
        /\ status # "succeeded" => received = 0
    BY <1>1
  <2>3. Became(i, status, received, intents[i].refunded)
    BY <1>3
  <2>4. received \in Nat /\ intents[i].refunded <= received /\ received <= intents[i].amount
    BY <1>1, <2>1
  <2> HIDE DEF status, received
  <2> QED
    BY <2>2, <2>3, <2>4, MoneyBecame
<1> QED
  BY <1>2, <1>3 DEF Taken

LEMMA MoneyUnpaid ==
    ASSUME Shaped, MoneyInv, UNCHANGED refunds, NEW i \in 1..Len(intents),
           NEW status \in {"processing", "requires_payment_method", "canceled"},
           Became(i, status, intents[i].received, intents[i].refunded),
           intents[i].status # "succeeded"
    PROVE  MoneyInv'
<1>1. /\ intents[i].received = 0 /\ intents[i].refunded <= 0 /\ intents[i].received \in Nat
      /\ intents[i].amount \in Nat
  BY IntentFacts DEF MoneyInv, Balanced
<1>2. intents[i].refunded <= intents[i].received /\ intents[i].received <= intents[i].amount
  BY <1>1
<1>3. status # "succeeded"
  OBVIOUS
<1> QED
  BY <1>1, <1>2, <1>3, MoneyBecame

LEMMA MoneyMade ==
    ASSUME Shaped, MoneyInv, UNCHANGED refunds, NEW c \in Calls, NewMade(c)
    PROVE  MoneyInv'
<1> DEFINE n == Len(intents) + 1
<1>0. refunds' = refunds /\ Len(intents) \in Nat /\ refunds \in Seq(RefundRecord)
  BY DEF Shaped
<1>1. /\ Len(intents') = n /\ \A i \in 1..Len(intents) : intents'[i] = intents[i]
      /\ Balanced(intents'[n]) /\ intents'[n].refunded = 0
  BY NewMadeType DEF Balanced
<1>2. \A m \in 1..Len(refunds) : refunds[m].intent # n
  BY <1>0 DEF Shaped
<1> HIDE DEF n
<1>3. \E total : Accounts(refunds, n, intents'[n].refunded, total)
  BY <1>0, <1>1, <1>2, AccountsFresh
<1>4. \A i \in 1..Len(intents) :
         Balanced(intents'[i]) /\ \E total : Accounts(refunds, i, intents'[i].refunded, total)
  BY <1>1 DEF MoneyInv
<1>5. \A i \in 1..Len(intents') : i = n \/ i \in 1..Len(intents)
  BY <1>0, <1>1 DEF n
<1> QED
  BY <1>0, <1>1, <1>3, <1>4, <1>5 DEF MoneyInv

LEMMA MoneyRefunded ==
    ASSUME Shaped, MoneyInv, NEW c \in Calls, NEW i \in 1..Len(intents), NEW amount \in Nat,
           Refunded(c, i, amount)
    PROVE  MoneyInv'
<1>0. refunds \in Seq(RefundRecord)
  BY DEF Shaped
<1>1. PICK new \in RefundRecord : refunds' = Append(refunds, new) /\ new.intent = i /\ new.amount = amount
  BY DEF Refunded
<1>2. /\ intents[i].refunded \in Int /\ intents[i].received \in Nat /\ Balanced(intents[i])
      /\ amount <= intents[i].received - intents[i].refunded
  BY IntentFacts DEF MoneyInv, Refunded
<1>3. /\ Len(intents') = Len(intents) /\ intents'[i].refunded = intents[i].refunded + amount
      /\ intents'[i].received = intents[i].received /\ intents'[i].status = intents[i].status
      /\ intents'[i].amount = intents[i].amount
      /\ \A j \in 1..Len(intents) : j # i => intents'[j] = intents[j]
  BY DEF Refunded, Became
<1>4. Balanced(intents'[i])
  BY <1>2, <1>3 DEF Balanced
<1>5. ASSUME NEW j \in 1..Len(intents)
      PROVE  Balanced(intents'[j]) /\ \E total : Accounts(refunds', j, intents'[j].refunded, total)
  <2>1. PICK total : Balanced(intents[j]) /\ Accounts(refunds, j, intents[j].refunded, total)
    BY DEF MoneyInv
  <2>2. intents[j].refunded \in Int
    BY IntentFacts
  <2>3. CASE j = i
    <3>1. \E t : Accounts(Append(refunds, new), j, intents[j].refunded + amount, t)
      <4>1. Accounts(refunds, j, intents[j].refunded, total) /\ amount \in Nat
        BY <2>1
      <4>2. new \in RefundRecord /\ (new.intent = j => new.amount <= amount)
        BY <1>1
      <4> QED
        BY <1>0, <2>2, <4>1, <4>2, AccountsAppend
    <3> QED
      BY <1>1, <1>3, <1>4, <2>3, <3>1
  <2>4. CASE j # i
    <3>1. \E t : Accounts(Append(refunds, new), j, intents[j].refunded + 0, t)
      BY <1>0, <1>1, <2>1, <2>2, <2>4, AccountsAppend
    <3>2. intents[j].refunded + 0 = intents[j].refunded /\ intents'[j] = intents[j]
      BY <1>3, <2>2, <2>4
    <3> QED
      BY <1>1, <2>1, <3>1, <3>2
  <2> QED
    BY <2>3, <2>4
<1> QED
  BY <1>3, <1>5 DEF MoneyInv

LEMMA MoneyReturned ==
    ASSUME Shaped, MoneyInv, NEW n \in 1..Len(refunds), Returned(n)
    PROVE  MoneyInv'
<1> DEFINE i == refunds[n].intent
           amount == refunds[n].amount
<1>0. /\ refunds \in Seq(RefundRecord) /\ i \in 1..Len(intents)
      /\ refunds' \in Seq(RefundRecord) /\ Len(refunds') = Len(refunds)
      /\ refunds[n].status = "pending" /\ refunds'[n].status = "failed" /\ refunds'[n].intent = i
      /\ \A m \in 1..Len(refunds) : m # n => refunds'[m] = refunds[m]
  BY DEF Shaped, Returned
<1>1. amount \in Nat
  <2>1. refunds[n] \in RefundRecord
    BY <1>0
  <2> QED
    BY <2>1 DEF RefundRecord
<1>2. intents[i].refunded \in Int /\ intents[i].received \in Nat /\ Balanced(intents[i])
  BY <1>0, IntentFacts DEF MoneyInv
<1>3. /\ Len(intents') = Len(intents) /\ intents'[i].refunded = intents[i].refunded - amount
      /\ intents'[i].received = intents[i].received /\ intents'[i].status = intents[i].status
      /\ intents'[i].amount = intents[i].amount
      /\ \A j \in 1..Len(intents) : j # i => intents'[j] = intents[j]
  BY DEF Returned, Became
<1>i. i = refunds[n].intent /\ amount = refunds[n].amount
  OBVIOUS
<1> HIDE DEF i, amount
<1>4. Balanced(intents'[i])
  BY <1>1, <1>2, <1>3 DEF Balanced
<1>5. ASSUME NEW j \in 1..Len(intents)
      PROVE  Balanced(intents'[j]) /\ \E total : Accounts(refunds', j, intents'[j].refunded, total)
  <2>1. PICK total : Balanced(intents[j]) /\ Accounts(refunds, j, intents[j].refunded, total)
    BY DEF MoneyInv
  <2>2. intents[j].refunded \in Int
    BY IntentFacts
  <2>3. CASE j = i
    <3>1. \E t : Accounts(refunds', j, intents[j].refunded - refunds[n].amount, t)
      BY <1>0, <1>i, <2>1, <2>2, <2>3, AccountsReturn
    <3> QED
      BY <1>3, <1>4, <1>i, <2>3, <3>1
  <2>4. CASE j # i
    <3>1. Accounts(refunds', j, intents[j].refunded, total)
      BY <1>0, <2>1, <2>2, <2>4, AccountsSpare
    <3> QED
      BY <1>3, <2>1, <2>4, <3>1
  <2> QED
    BY <2>3, <2>4
<1> QED
  BY <1>3, <1>5 DEF MoneyInv

LEMMA MoneyNext == Shaped /\ MoneyInv /\ [Next]_vars => MoneyInv'
<1> SUFFICES ASSUME Shaped, MoneyInv, [Next]_vars PROVE MoneyInv'
  OBVIOUS
<1>1. CASE Setup
  BY <1>1, MoneySame DEF Setup
<1>2. CASE Settle
  <2>1. PICK i \in 1..Len(intents) : Settled(i)
    BY <1>2, SettleEffect
  <2>2. UNCHANGED refunds
    BY <1>2, SettleEffect
  <2> QED
    BY <2>1, <2>2, MoneyTaken, MoneyUnpaid DEF Settled, Declined, Lapsed
<1>3. CASE RefundFails
  BY <1>3, RefundFailsEffect, MoneyReturned
<1>4. ASSUME NEW c \in Calls, Create(c)
      PROVE  MoneyInv'
  BY <1>4, CreateEffect, MoneyMade, MoneySame
<1>5. ASSUME NEW c \in Calls, Confirm(c)
      PROVE  MoneyInv'
  <2>1. UNCHANGED refunds /\ (UNCHANGED intents \/ \E i \in 1..Len(intents) : Confirming(i))
    BY <1>5, ConfirmEffect
  <2>2. ASSUME NEW i \in 1..Len(intents), Confirming(i)
        PROVE  MoneyInv'
    BY <2>1, <2>2, MoneyTaken, MoneyUnpaid DEF Confirming, Declined
  <2> QED
    BY <2>1, <2>2, MoneySame
<1>6. ASSUME NEW c \in Calls, Publish(c)
      PROVE  MoneyInv'
  BY <1>6, MoneySame DEF Publish
<1>7. ASSUME NEW c \in Calls, Capture(c)
      PROVE  MoneyInv'
  <2>1. /\ UNCHANGED refunds
        /\ UNCHANGED intents \/ \E i \in 1..Len(intents), amount \in Nat : Captured(c, i, amount)
    BY <1>7, CaptureEffect
  <2>2. ASSUME NEW i \in 1..Len(intents), NEW amount \in Nat, Captured(c, i, amount)
        PROVE  MoneyInv'
    <3>1. intents[i].received = 0 /\ intents[i].refunded <= 0 /\ intents[i].refunded \in Int
      BY <2>2, IntentFacts DEF Captured, MoneyInv, Balanced
    <3>2. /\ Became(i, "succeeded", amount, intents[i].refunded) /\ amount > 0
          /\ amount <= intents[i].amount /\ intents[i].refunded <= amount
      BY <2>2, <3>1 DEF Captured
    <3> QED
      BY <2>1, <3>2, MoneyBecame
  <2> QED
    BY <2>1, <2>2, MoneySame
<1>8. ASSUME NEW c \in Calls, Check(c)
      PROVE  MoneyInv'
  BY <1>8, CheckEffect, MoneySame DEF Alone
<1>9. ASSUME NEW c \in Calls, Refund(c)
      PROVE  MoneyInv'
  BY <1>9, RefundEffect, MoneyRefunded, MoneySame
<1>10. ASSUME NEW c \in Calls, \/ \E r \in Requests : Pay(c, r)
                               \/ \E i \in 1..Len(intents), amount \in Parts, kind \in {"capture", "refund"} :
                                     Find(c, kind, i, amount)
                               \/ \E h \in hooks : Deliver(c, h)
       PROVE  MoneyInv'
  BY <1>10, MoneySame DEF Pay, Find, Deliver
<1>11. CASE UNCHANGED vars
  BY <1>11, MoneySame DEF vars
<1> QED
  BY <1>1, <1>2, <1>3, <1>4, <1>5, <1>6, <1>7, <1>8, <1>9, <1>10, <1>11 DEF Next, Step
-----------------------------------------------------------------------------
(* What is announced is so, and stays so. *)

(* Held money may be received or given up; what is received or given up stays. *)
Onward(from, to) ==
    /\ from = "requires_capture" => to \in {"requires_capture", "succeeded", "canceled"}
    /\ from \in {"succeeded", "canceled"} => to = from

Lasts ==
    /\ Len(intents) \in Nat /\ Len(intents') \in Nat /\ Len(intents) <= Len(intents')
    /\ Len(refunds) \in Nat /\ Len(refunds') \in Nat /\ Len(refunds) <= Len(refunds')
    /\ \A i \in 1..Len(intents) :
          Onward(intents[i].status, intents'[i].status) /\ intents'[i].manual = intents[i].manual

LEMMA BecameLasts ==
    ASSUME Shaped, NEW i \in 1..Len(intents), NEW status, NEW received, NEW refunded,
           Became(i, status, received, refunded), Onward(intents[i].status, status),
           Len(refunds') \in Nat, Len(refunds) <= Len(refunds')
    PROVE  Lasts
  BY DEF Shaped, Became, Lasts, Onward

LEMMA TakenLasts ==
    ASSUME Shaped, NEW i \in 1..Len(intents), Taken(i) \/ Declined(i), UNCHANGED refunds,
           intents[i].status \in {"requires_confirmation", "requires_payment_method", "processing"}
    PROVE  Lasts
<1>1. Len(refunds') \in Nat /\ Len(refunds) <= Len(refunds')
  BY DEF Shaped
<1>2. \A status : Onward(intents[i].status, status)
  BY DEF Onward
<1> QED
  BY <1>1, <1>2, BecameLasts DEF Taken, Declined

LEMMA SameLasts ==
    ASSUME Shaped, UNCHANGED <<intents, refunds>>
    PROVE  Lasts
  BY DEF Shaped, Lasts, Onward

LEMMA TrueLasts ==
    ASSUME Lasts
    PROVE  /\ \A e : IsTrue(e, intents, refunds) => IsTrue(e, intents', refunds')
           /\ \A name, i : Tells(name, i, intents) => Tells(name, i, intents')
<1>1. /\ \A i \in 1..Len(intents) : i \in 1..Len(intents')
      /\ \A i \in 1..Len(refunds) : i \in 1..Len(refunds')
  BY DEF Lasts
<1>2. /\ \A i : Succeeded(i, intents) => Succeeded(i, intents')
      /\ \A i : Canceled(i, intents) => Canceled(i, intents')
  BY <1>1 DEF Succeeded, Canceled, Lasts, Onward
<1>3. \A i : Authorized(i, intents) => Authorized(i, intents')
  BY <1>1 DEF Authorized, HeldOnly, Lasts, Onward
<1> QED
  BY <1>1, <1>2, <1>3 DEF IsTrue, Tells

(* A call may be where r puts it. *)
Honest(r, ints, list, told) ==
    /\ r.at \in {"confirming", "announcing"} => IsTrue(r.event, ints, list)
    /\ r.at = "ok" /\ (r.kind = "hook" => r.event.name \in Handled) => r.event \in told

LEMMA TruthOutside ==
    ASSUME Shaped, TruthInv, Lasts, UNCHANGED <<call, published>>,
           \A h \in hooks' : h \in hooks \/ Tells(h.name, h.of, intents')
    PROVE  TruthInv'
<1>1. \A c \in Calls :
         call[c].at \in {"confirming", "announcing"} => IsTrue(call[c].event, intents', refunds')
  BY TrueLasts DEF TruthInv
<1>2. \A e \in published : IsTrue(e, intents', refunds')
  BY TrueLasts DEF TruthInv
<1>3. \A h \in hooks' : Tells(h.name, h.of, intents')
  BY TrueLasts DEF TruthInv
<1>4. call' = call /\ published' = published /\ AnsweredIsPublished
  BY DEF TruthInv
<1> QED
  BY <1>1, <1>2, <1>3, <1>4 DEF TruthInv, AnsweredIsPublished

LEMMA TruthMoves ==
    ASSUME Shaped, TruthInv, Lasts, NEW c \in Calls, NEW r \in CallRecord, Goto(c, r),
           Honest(r, intents', refunds', published'), published \subseteq published',
           \A e \in published' : e \in published \/ IsTrue(e, intents', refunds'),
           \A h \in hooks' : h \in hooks \/ Tells(h.name, h.of, intents')
    PROVE  TruthInv'
<1>1. /\ call' \in [Calls -> CallRecord] /\ call'[c] = r
      /\ \A d \in Calls : d # c => call'[d] = call[d]
  BY GotoType
<1>2. \A d \in Calls :
         call'[d].at \in {"confirming", "announcing"} => IsTrue(call'[d].event, intents', refunds')
  <2> TAKE d \in Calls
  <2>1. CASE d = c
    BY <1>1, <2>1 DEF Honest
  <2>2. CASE d # c
    BY <1>1, <2>2, TrueLasts DEF TruthInv
  <2> QED
    BY <2>1, <2>2
<1>3. \A e \in published' : IsTrue(e, intents', refunds')
  BY TrueLasts DEF TruthInv
<1>4. \A h \in hooks' : Tells(h.name, h.of, intents')
  BY TrueLasts DEF TruthInv
<1>5. AnsweredIsPublished'
  <2> SUFFICES ASSUME NEW d \in Calls, call'[d].at = "ok",
                      call'[d].kind = "hook" => call'[d].event.name \in Handled
               PROVE  call'[d].event \in published'
    BY DEF AnsweredIsPublished
  <2>1. CASE d = c
    BY <1>1, <2>1 DEF Honest
  <2>2. CASE d # c
    BY <1>1, <2>2 DEF TruthInv, AnsweredIsPublished
  <2> QED
    BY <2>1, <2>2
<1> QED
  BY <1>2, <1>3, <1>4, <1>5 DEF TruthInv

LEMMA TruthInit == Init => TruthInv
<1> SUFFICES ASSUME Init PROVE TruthInv
  OBVIOUS
<1>1. call = [c \in Calls |-> Idle] /\ Idle.at = "idle" /\ published = {} /\ hooks = {}
  BY DEF Init, Idle
<1> QED
  BY <1>1 DEF TruthInv, AnsweredIsPublished

LEMMA RetriedHonest ==
    ASSUME NEW c \in Calls, NEW r, Retried(c, r)
    PROVE  \A ints, list, told : Honest(r, ints, list, told)
  BY DEF Retried, Honest

LEMMA AnsweredHonest ==
    ASSUME NEW c \in Calls, NEW r, NEW e, NEW ints, NEW list, Answered(c, r, e),
           IsTrue(e, ints, list)
    PROVE  \A told : Honest(r, ints, list, told)
  BY DEF Answered, Announces, Ended, Honest

LEMMA TruthCreate ==
    ASSUME Shaped, TruthInv, NEW c \in Calls, Create(c)
    PROVE  TruthInv'
<1>0. Len(intents) \in Nat /\ Len(refunds) \in Nat /\ UNCHANGED <<refunds, hooks, published>>
  BY CreateEffect DEF Shaped
<1>1. PICK r \in CallRecord :
             /\ Goto(c, r)
             /\ \/ UNCHANGED intents /\ Retried(c, r)
                \/ NewMade(c) /\ (Made(c, r, Len(intents) + 1) \/ Retried(c, r))
                \/ UNCHANGED intents /\ \E i \in 1..Len(intents) : Made(c, r, i)
  BY CreateEffect
<1>2. Lasts
  <2>1. CASE NewMade(c)
    BY <1>0, <2>1, NewMadeType DEF Lasts, Onward
  <2> QED
    BY <1>0, <1>1, <2>1, SameLasts
<1>3. Honest(r, intents', refunds', published')
  <2>1. CASE Retried(c, r)
    BY <2>1, RetriedHonest
  <2>2. CASE \E i \in 1..Len(intents') : Made(c, r, i)
    BY <2>2 DEF Made, Honest, IsTrue
  <2>3. NewMade(c) => Len(intents) + 1 \in 1..Len(intents')
    BY <1>0, NewMadeType
  <2> QED
    BY <1>1, <2>1, <2>2, <2>3
<1> QED
  BY <1>0, <1>1, <1>2, <1>3, TruthMoves

LEMMA TruthConfirm ==
    ASSUME Shaped, TruthInv, NEW c \in Calls, Confirm(c)
    PROVE  TruthInv'
<1>0. /\ UNCHANGED <<refunds, published>> /\ call[c].at = "confirming"
      /\ Len(refunds') \in Nat /\ Len(refunds) <= Len(refunds')
  BY ConfirmEffect DEF Shaped
<1>1. PICK r \in CallRecord :
             /\ Goto(c, r)
             /\ \/ UNCHANGED <<intents, hooks>> /\ Retried(c, r)
                \/ /\ \E i \in 1..Len(intents) : Confirming(i)
                   /\ \/ Announces(c, r, call[c].event) /\ r.at = "announcing"
                      \/ Retried(c, r)
  BY ConfirmEffect
<1>2. Lasts /\ \A h \in hooks' : h \in hooks \/ Tells(h.name, h.of, intents')
  <2>1. CASE UNCHANGED <<intents, hooks>>
    BY <1>0, <2>1, SameLasts
  <2>2. CASE \E i \in 1..Len(intents) : Confirming(i)
    <3> PICK i \in 1..Len(intents) : Confirming(i)
      BY <2>2
    <3>1. CASE Taken(i) \/ Declined(i)
      BY <1>0, <3>1, TakenLasts, TakenType, DeclinedType DEF Confirming
    <3>2. CASE Became(i, "processing", intents[i].received, intents[i].refunded) /\ UNCHANGED hooks
      <4>1. Onward(intents[i].status, "processing")
        BY DEF Confirming, Onward
      <4> QED
        BY <1>0, <3>2, <4>1, BecameLasts
    <3> QED
      BY <3>1, <3>2 DEF Confirming
  <2> QED
    BY <1>1, <2>1, <2>2
<1>3. Honest(r, intents', refunds', published')
  <2>1. CASE Retried(c, r)
    BY <2>1, RetriedHonest
  <2>2. CASE Announces(c, r, call[c].event) /\ r.at = "announcing"
    <3>1. IsTrue(call[c].event, intents', refunds')
      BY <1>0, <1>2, TrueLasts DEF TruthInv
    <3> QED
      BY <2>2, <3>1 DEF Announces, Honest
  <2> QED
    BY <1>1, <2>1, <2>2
<1> QED
  BY <1>0, <1>1, <1>2, <1>3, TruthMoves

LEMMA TruthPublish ==
    ASSUME Shaped, TruthInv, NEW c \in Calls, Publish(c)
    PROVE  TruthInv'
<1>0. UNCHANGED <<intents, refunds, hooks>> /\ "ok" \in Labels /\ "failed" \in Labels
  BY DEF Publish, Labels
<1>1. Lasts
  BY <1>0, SameLasts
<1>2. IsTrue(call[c].event, intents', refunds')
  BY <1>1, TrueLasts DEF TruthInv, Publish
<1>3. CASE published' = published \cup {call[c].event} /\ Goto(c, [call[c] EXCEPT !.at = "ok"])
  <2>1. PICK r \in CallRecord : Goto(c, r) /\ Ended(c, r, "ok")
    BY <1>0, <1>3, EndType
  <2>2. Honest(r, intents', refunds', published')
    BY <1>3, <2>1 DEF Ended, Honest
  <2> QED
    BY <1>0, <1>1, <1>2, <1>3, <2>1, <2>2, TruthMoves
<1>4. CASE Unpublished(c) /\ UNCHANGED published
  <2>1. PICK r \in CallRecord : Goto(c, r) /\ (Retried(c, r) \/ Ended(c, r, "failed"))
    BY <1>0, <1>4, AfterErrorType, EndType DEF Unpublished
  <2>2. Honest(r, intents', refunds', published')
    BY <2>1, RetriedHonest DEF Ended, Honest
  <2> QED
    BY <1>0, <1>1, <1>4, <2>1, <2>2, TruthMoves
<1> QED
  BY <1>3, <1>4 DEF Publish

LEMMA TruthCapture ==
    ASSUME Shaped, TruthInv, NEW c \in Calls, Capture(c)
    PROVE  TruthInv'
<1>0. /\ UNCHANGED <<refunds, published>>
      /\ Len(refunds') \in Nat /\ Len(refunds) <= Len(refunds')
  BY CaptureEffect DEF Shaped
<1>1. CASE /\ \E r \in CallRecord : Goto(c, r) /\ Ended(c, r, "failed")
           /\ UNCHANGED <<intents, hooks>>
  <2>1. PICK r \in CallRecord : Goto(c, r) /\ Ended(c, r, "failed")
    BY <1>1
  <2>2. Honest(r, intents', refunds', published')
    BY <2>1 DEF Ended, Honest
  <2> QED
    BY <1>0, <1>1, <2>1, <2>2, SameLasts, TruthMoves
<1>2. CASE \E i \in 1..Len(intents), amount \in Nat : Captured(c, i, amount)
  <2> PICK i \in 1..Len(intents), amount \in Nat : Captured(c, i, amount)
    BY <1>2
  <2>1. Became(i, "succeeded", amount, intents[i].refunded)
    BY DEF Captured
  <2>2. Lasts
    <3>1. Onward(intents[i].status, "succeeded")
      BY DEF Captured, Onward
    <3> QED
      BY <1>0, <2>1, <3>1, BecameLasts
  <2>3. Succeeded(i, intents')
    BY <2>1 DEF Became, Succeeded
  <2>4. "payment.captured" \in EventNames /\ i \in Nat
    BY DEF EventNames
  <2>5. \A h \in hooks' : h \in hooks \/ Tells(h.name, h.of, intents')
    <3>1. \A name \in {"payment_intent.succeeded"} : Tells(name, i, intents')
      BY <2>3 DEF Tells
    <3>2. Notify({"payment_intent.succeeded"}, i)
      BY DEF Captured
    <3> QED
      BY <2>4, <3>1, <3>2, HookSets, NotifiedHooks
  <2>6. IsTrue(Event("payment.captured", i), intents', refunds')
    BY <2>3, <2>4, EventType DEF IsTrue
  <2>7. PICK r \in CallRecord : Goto(c, r) /\ Answered(c, r, Event("payment.captured", i))
    BY DEF Captured
  <2>8. Honest(r, intents', refunds', published')
    BY <2>6, <2>7, AnsweredHonest
  <2> QED
    BY <1>0, <2>2, <2>5, <2>7, <2>8, TruthMoves
<1> QED
  BY <1>1, <1>2, CaptureEffect

LEMMA TruthRefund ==
    ASSUME Shaped, TruthInv, NEW c \in Calls, Refund(c)
    PROVE  TruthInv'
<1>0. /\ UNCHANGED <<hooks, published>> /\ Len(refunds) \in Nat /\ refunds \in Seq(RefundRecord)
  BY RefundEffect DEF Shaped
<1>1. CASE /\ \E r \in CallRecord : Goto(c, r) /\ Ended(c, r, "failed")
           /\ UNCHANGED <<intents, refunds>>
  <2>1. PICK r \in CallRecord : Goto(c, r) /\ Ended(c, r, "failed")
    BY <1>1
  <2>2. Honest(r, intents', refunds', published')
    BY <2>1 DEF Ended, Honest
  <2> QED
    BY <1>0, <1>1, <2>1, <2>2, SameLasts, TruthMoves
<1>2. CASE \E i \in 1..Len(intents), amount \in Nat : Refunded(c, i, amount)
  <2> PICK i \in 1..Len(intents), amount \in Nat : Refunded(c, i, amount)
    BY <1>2
  <2>1. Became(i, intents[i].status, intents[i].received, intents[i].refunded + amount)
    BY DEF Refunded
  <2>2. Len(refunds') = Len(refunds) + 1
    BY <1>0, AppendType DEF Refunded
  <2>3. Lasts
    <3>1. Onward(intents[i].status, intents[i].status)
      BY DEF Onward
    <3> QED
      BY <1>0, <2>1, <2>2, <3>1, BecameLasts
  <2>4. "refund.created" \in EventNames /\ Len(refunds) + 1 \in Nat
    BY <1>0 DEF EventNames
  <2>5. IsTrue(Event("refund.created", Len(refunds) + 1), intents', refunds')
    BY <1>0, <2>2, <2>4, EventType DEF IsTrue
  <2>6. PICK r \in CallRecord : Goto(c, r) /\ Answered(c, r, Event("refund.created", Len(refunds) + 1))
    BY DEF Refunded
  <2>7. Honest(r, intents', refunds', published')
    BY <2>5, <2>6, AnsweredHonest
  <2> QED
    BY <1>0, <2>3, <2>6, <2>7, TruthMoves
<1> QED
  BY <1>1, <1>2, RefundEffect

LEMMA TruthAlone ==
    ASSUME Shaped, TruthInv, NEW c \in Calls, NEW r \in CallRecord, Goto(c, r), Alone,
           Honest(r, intents, refunds, published)
    PROVE  TruthInv'
<1>1. /\ intents' = intents /\ refunds' = refunds /\ hooks' = hooks /\ published' = published
  BY DEF Alone
<1>2. Honest(r, intents', refunds', published')
  BY <1>1
<1> QED
  BY <1>1, <1>2, SameLasts, TruthMoves

(* A webhook is passed on under the name Stripe's notification maps to. *)
LEMMA TruthDeliver ==
    ASSUME Shaped, TruthInv, NEW c \in Calls, NEW h \in hooks, Deliver(c, h)
    PROVE  TruthInv'
<1>1. PICK r \in CallRecord :
             /\ Goto(c, r)
             /\ r.event.name = Mapped(h.name) /\ r.event.of = h.of /\ r.kind = "hook"
             /\ r.at \in {"failed", "announcing", "ok"}
             /\ r.at = "ok" => r.event.name \notin Handled
  BY DeliverEffect
<1>2. h.name \in HookNames /\ Tells(h.name, h.of, intents)
  BY DEF Shaped, TruthInv
<1>3. IsTrue(r.event, intents, refunds)
  <2>1. \A i : Succeeded(i, intents) => Authorized(i, intents)
    BY DEF Succeeded, Authorized
  <2> QED
    BY <1>1, <1>2, <2>1 DEF Mapped, HookNames, IsTrue, Tells
<1>4. Honest(r, intents, refunds, published)
  BY <1>1, <1>3 DEF Honest
<1> QED
  BY <1>1, <1>4, DeliverEffect, TruthAlone

LEMMA TruthNext == Shaped /\ TruthInv /\ [Next]_vars => TruthInv'
<1> SUFFICES ASSUME Shaped, TruthInv, [Next]_vars PROVE TruthInv'
  OBVIOUS
<1>0. Len(refunds) \in Nat
  BY DEF Shaped
<1>1. CASE Setup
  BY <1>1, SameLasts, TruthOutside DEF Setup
<1>2. CASE Settle
  <2>1. PICK i \in 1..Len(intents) : Settled(i)
    BY <1>2, SettleEffect
  <2>2. UNCHANGED <<call, refunds, published>>
    BY <1>2, SettleEffect
  <2>3. Len(refunds') \in Nat /\ Len(refunds) <= Len(refunds')
    BY <1>0, <2>2
  <2>4. CASE intents[i].status = "processing" /\ (Taken(i) \/ Declined(i))
    BY <2>2, <2>4, TakenLasts, TakenType, DeclinedType, TruthOutside
  <2>5. CASE Lapsed(i)
    <3>1. Onward(intents[i].status, "canceled")
      BY <2>5 DEF Lapsed, Onward
    <3>2. Lasts
      BY <2>3, <2>5, <3>1, BecameLasts DEF Lapsed
    <3> QED
      BY <2>2, <2>5, <3>2, LapsedType, TruthOutside
  <2> QED
    BY <2>1, <2>4, <2>5 DEF Settled
<1>3. CASE RefundFails
  <2>1. PICK n \in 1..Len(refunds) : Returned(n)
    BY <1>3, RefundFailsEffect
  <2> DEFINE i == refunds[n].intent
  <2>2. /\ i \in 1..Len(intents) /\ Len(refunds') \in Nat /\ Len(refunds) <= Len(refunds')
        /\ Became(i, intents[i].status, intents[i].received, intents[i].refunded - refunds[n].amount)
    BY <1>0, <2>1 DEF Shaped, Returned
  <2>3. Lasts
    <3>1. Onward(intents[i].status, intents[i].status)
      BY DEF Onward
    <3> QED
      BY <2>2, <3>1, BecameLasts
  <2>5. \A h \in hooks' : h \in hooks \/ Tells(h.name, h.of, intents')
    <3>1. \A name \in {"refund.updated"} : Tells(name, n, intents')
      BY DEF Tells
    <3> QED
      BY <2>1, <3>1, HookSets, NotifiedHooks DEF Returned
  <2> QED
    BY <1>3, <2>3, <2>5, RefundFailsEffect, TruthOutside
<1>4. ASSUME NEW c \in Calls, Check(c)
      PROVE  TruthInv'
  <2>1. PICK r \in CallRecord : Goto(c, r) /\ (Ended(c, r, "failed") \/ Ended(c, r, "refunding"))
    BY <1>4, CheckEffect
  <2>2. Honest(r, intents, refunds, published)
    BY <2>1 DEF Ended, Honest
  <2> QED
    BY <1>4, <2>1, <2>2, CheckEffect, TruthAlone
<1>5. ASSUME NEW c \in Calls, \/ \E r \in Requests : Pay(c, r)
                              \/ \E i \in 1..Len(intents), amount \in Parts, kind \in {"capture", "refund"} :
                                    Find(c, kind, i, amount)
      PROVE  TruthInv'
  <2>1. Alone /\ \E r \in CallRecord :
                    Goto(c, r) /\ r.at \in {"failed", "charging", "capturing", "checking"}
    BY <1>5, PayEffect, FindEffect
  <2> QED
    BY <2>1, TruthAlone DEF Honest
<1>6. ASSUME NEW c \in Calls, NEW h \in hooks, Deliver(c, h)
      PROVE  TruthInv'
  BY <1>6, TruthDeliver
<1>7. CASE UNCHANGED vars
  BY <1>7, SameLasts, TruthOutside DEF vars
<1> QED
  BY <1>1, <1>2, <1>3, <1>4, <1>5, <1>6, <1>7,
     TruthCreate, TruthConfirm, TruthPublish, TruthCapture, TruthRefund DEF Next, Step

-----------------------------------------------------------------------------
(* The invariants of the specification. *)

LEMMA IInvAlways == Spec => []IInv
<1>1. Init => IInv
  BY ShapedInit, ChargedInit, MoneyInit, TruthInit DEF IInv
<1>2. IInv /\ [Next]_vars => IInv'
  BY ShapedNext, ChargedNext, MoneyNext, TruthNext DEF IInv
<1> QED
  BY <1>1, <1>2, PTL DEF Spec

(* The gateway's state is what its methods take it for: a provider that is     *)
(* called is registered, a call holds an intent there is, and Stripe never     *)
(* refunded more than it received nor received more than was asked.            *)
THEOREM AlwaysTyped == Spec => []TypeOK
<1>1. IInv => TypeOK
  <2> SUFFICES ASSUME IInv PROVE TypeOK
    OBVIOUS
  <2>1. Shaped /\ MoneyInv
    BY DEF IInv
  <2>2. ASSUME NEW c \in Calls
        PROVE  /\ call[c].at \in Labels /\ call[c].kind \in {"none", "pay", "capture", "refund", "hook"}
               /\ call[c].request \in Requests /\ call[c].next \in 1..(Len(Fallbacks) + 1)
               /\ Located(c)
    BY <2>1 DEF Shaped, CallRecord
  <2>3. ASSUME NEW i \in 1..Len(intents)
        PROVE  /\ intents[i].refunded \in 0..intents[i].received
               /\ intents[i].received \in 0..intents[i].amount
    <3>1. /\ intents[i].refunded \in Int /\ intents[i].received \in Nat
          /\ intents[i].amount \in Nat /\ Balanced(intents[i])
      BY <2>1, IntentFacts DEF MoneyInv
    <3>2. PICK total : Accounts(refunds, i, intents[i].refunded, total)
      BY <2>1 DEF MoneyInv
    <3>3. total[Len(refunds)] \in Nat /\ total[Len(refunds)] <= intents[i].refunded
      BY <2>1, <3>2 DEF Accounts, Shaped
    <3> QED
      BY <3>1, <3>3 DEF Balanced
  <2> QED
    BY <2>1, <2>2, <2>3 DEF TypeOK, Shaped, Located, Labels
<1> QED
  BY <1>1, IInvAlways, PTL

(* A payment is charged once: whatever fails or gets lost, a call moves on to  *)
(* another provider and never tries one twice, and a repeated key names the    *)
(* payment that was made with it.                                              *)
THEOREM AlwaysChargedOnce == Spec => []ChargedOnce
<1>1. IInv => ChargedOnce
  BY DEF IInv, ChargedInv, ChargedOnce
<1> QED
  BY <1>1, IInvAlways, PTL

(* What the gateway publishes has happened at Stripe -- money announced as     *)
(* succeeded is received, or held for a capture by hand --, and what it        *)
(* answers with success has been published.                                    *)
THEOREM EventsAreAlwaysTrue == Spec => []EventsAreTrue
<1>1. IInv => EventsAreTrue
  <2> SUFFICES ASSUME IInv PROVE EventsAreTrue
    OBVIOUS
  <2>1. AnsweredIsPublished /\ \A e \in published : IsTrue(e, intents, refunds)
    BY DEF IInv, TruthInv
  <2>2. \A i : Succeeded(i, intents) => Received(intents[i])
    BY DEF IInv, MoneyInv, Balanced, Succeeded, Received
  <2>3. \A i : Authorized(i, intents) => Received(intents[i]) \/ HeldOnly(intents[i])
    BY <2>2 DEF Authorized, Succeeded
  <2>4. \A i : Canceled(i, intents) => intents[i].status = "canceled"
    BY DEF Canceled
  <2> QED
    BY <2>1, <2>2, <2>3, <2>4 DEF EventsAreTrue, PublishedIsTrue, IsTrue
<1> QED
  BY <1>1, IInvAlways, PTL
=============================================================================
