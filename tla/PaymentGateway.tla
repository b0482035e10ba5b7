--------------------------- MODULE PaymentGateway ---------------------------
(***************************************************************************)
(* PaymentGatewayService with its providers: payment with fallback,        *)
(* capture, refund and webhooks, one step per await, any number of calls   *)
(* at once.  The state outside the process is Stripe's: payment intents    *)
(* and refunds.  The other providers are stubs that throw.                 *)
(*                                                                         *)
(* The service publishes a domain event after each provider call; a call   *)
(* whose publish fails is treated like one whose provider failed.          *)
(***************************************************************************)
EXTENDS PaymentRouting, FiniteSets

CONSTANTS
    Calls,          \* calls of the service's methods
    Requests,       \* what processPayment is called with
    Listed,         \* PAYMENT_PROVIDERS, a sequence
    Fallbacks,      \* PAYMENT_FALLBACK_PROVIDERS, a sequence
    NoKey,          \* a request without idempotencyKey
    Parts,          \* amounts captured or refunded; 0 is an omitted amount
    Faults,         \* what may fail: "publish", "lost" (a provider's answer), "setup"
    MaxHooks        \* bound: webhook notifications Stripe makes

Implemented == {"stripe"}

(* No fallback is named twice, and what is to be paid is positive: Stripe      *)
(* refuses to make an intent of anything else.                                 *)
ASSUME GatewayAssumption ==
    /\ Listed \in Seq(Known) /\ Fallbacks \in Seq(Known)
    /\ \A i, j \in 1..Len(Fallbacks) : Fallbacks[i] = Fallbacks[j] => i = j
    /\ Requests # {} /\ \A r \in Requests : r.amount \in Nat \ {0}
    /\ Parts \subseteq Nat /\ MaxHooks \in Nat

VARIABLES
    setup,      \* how many of Listed initializeProviders has dealt with
    registered, \* the providers Map: its keys in insertion order
    call,       \* the state of every call
    intents,    \* Stripe's payment intents
    refunds,    \* Stripe's refunds
    hooks,      \* notifications Stripe has to deliver
    published   \* the domain events handed to the event bus

vars == <<setup, registered, call, intents, refunds, hooks, published>>

Event(name, of) == [name |-> name, of |-> of]
NoEvent == Event("none", 0)

Idle == [at |-> "idle", kind |-> "none", request |-> CHOOSE r \in Requests : TRUE,
         selected |-> "none", provider |-> "none", next |-> 1, amount |-> 0, event |-> NoEvent]

Init ==
    /\ setup = 0
    /\ registered = <<>>
    /\ call = [c \in Calls |-> Idle]
    /\ intents = <<>> /\ refunds = <<>>
    /\ hooks = {} /\ published = {}

Elements(s) == {s[i] : i \in 1..Len(s)}
Goto(c, r) == call' = [call EXCEPT ![c] = r]
At(c, kind, label) == call[c].at = label /\ call[c].kind = kind

(* initializeProviders, started by the constructor and awaited by nobody: one  *)
(* provider at a time; one that throws, for want of its key, is left out.      *)
Setup ==
    /\ setup < Len(Listed)
    /\ setup' = setup + 1
    /\ \/ registered' = Append(registered, Listed[setup + 1])
       \/ "setup" \in Faults /\ Listed[setup + 1] \in Implemented /\ UNCHANGED registered
    /\ UNCHANGED <<call, intents, refunds, hooks, published>>

-----------------------------------------------------------------------------
(* Stripe *)

(* A request that repeats an idempotency key gets the intent the key made.     *)
SameKey(key) == {i \in 1..Len(intents) : key # NoKey /\ intents[i].key = key}

Bug_KeyNotPassed(r) == NoKey
KeyOf(r) == r.key

(* A new intent of call c.                                                     *)
NewIntent(c) ==
    [call |-> c, key |-> KeyOf(call[c].request), amount |-> call[c].request.amount,
     manual |-> call[c].request.manual, status |-> "requires_confirmation",
     received |-> 0, refunded |-> 0]

Confirmed(i) == IF i.manual THEN [i EXCEPT !.status = "requires_capture"]
                ELSE [i EXCEPT !.status = "succeeded", !.received = i.amount]

(* Of the notifications of a change Stripe sends those the endpoint enabled.   *)
Notify(names, of) ==
    \E sent \in SUBSET {Event(name, of) : name \in names} :
        /\ Cardinality(hooks \cup sent) <= MaxHooks
        /\ hooks' = hooks \cup sent

(* The charge succeeds when the money is held already; the payment when it is  *)
(* received.                                                                   *)
Accept(i) ==
    /\ intents' = [intents EXCEPT ![i] = Confirmed(@)]
    /\ Notify({"charge.succeeded"} \cup IF intents[i].manual THEN {} ELSE {"payment_intent.succeeded"}, i)

Decline(i) ==
    /\ intents' = [intents EXCEPT ![i].status = "requires_payment_method"]
    /\ Notify({"charge.failed", "payment_intent.payment_failed"}, i)

(* A hold that is not captured in time is given up.                            *)
Expire(i) ==
    /\ intents' = [intents EXCEPT ![i].status = "canceled"]
    /\ Notify({"payment_intent.canceled"}, i)

(* What is left to settle outside: a payment in process succeeds or fails, and *)
(* held money may never be captured.                                           *)
Settle ==
    \E i \in 1..Len(intents) :
        /\ \/ intents[i].status = "processing" /\ (Accept(i) \/ Decline(i))
           \/ intents[i].status = "requires_capture" /\ Expire(i)
        /\ UNCHANGED <<setup, registered, call, refunds, published>>

(* A refund that was accepted may still fail; the money goes back.             *)
RefundFails ==
    \E n \in 1..Len(refunds) :
        /\ refunds[n].status = "pending"
        /\ refunds' = [refunds EXCEPT ![n].status = "failed"]
        /\ intents' = [intents EXCEPT ![refunds[n].intent].refunded = @ - refunds[n].amount]
        /\ Notify({"refund.updated"}, n)
        /\ UNCHANGED <<setup, registered, call, published>>

-----------------------------------------------------------------------------
(* processPayment *)

Pay(c, r) ==
    /\ call[c] = Idle
    /\ LET asked == [Idle EXCEPT !.kind = "pay", !.request = r] IN
       \/ Best(registered, r) = {} /\ Goto(c, [asked EXCEPT !.at = "failed"])
       \/ \E p \in Best(registered, r) :
             Goto(c, [asked EXCEPT !.at = "charging", !.selected = p, !.provider = p])
    /\ UNCHANGED <<setup, registered, intents, refunds, hooks, published>>

(* After a failure: the next fallback that is registered and was not selected. *)
Bug_SelectedNotSkipped(p, selected) == p \in Elements(registered)
Bug_NotRegistered(p, selected) == p # selected
Usable(p, selected) == p # selected /\ p \in Elements(registered)

Bug_FallbacksRestart(i) == 1
Following(i) == i + 1

AfterError(c) ==
    LET left == {i \in call[c].next..Len(Fallbacks) : Usable(Fallbacks[i], call[c].selected)} IN
    \/ left = {} /\ Goto(c, [call[c] EXCEPT !.at = "failed"])
    \/ \E i \in left :
          /\ \A j \in left : i <= j
          /\ Goto(c, [call[c] EXCEPT !.at = "charging", !.provider = Fallbacks[i], !.next = Following(i)])

(* Before its event is published a call knows what the event will be about.    *)
Announcing(c, event) == [call[c] EXCEPT !.at = "announcing", !.event = event]

(* confirm is a second call, made only if confirmationMethod asks for it.      *)
AfterCreate(c, i) ==
    [Announcing(c, Event("payment.created", i)) EXCEPT
        !.at = IF call[c].request.confirm THEN "confirming" ELSE @]

(* createPayment; an answer may be lost after Stripe has made the intent.      *)
Create(c) ==
    /\ At(c, "pay", "charging")
    /\ \/ AfterError(c) /\ UNCHANGED intents
       \/ /\ call[c].provider \in Implemented
          /\ SameKey(KeyOf(call[c].request)) = {}
          /\ intents' = Append(intents, NewIntent(c))
          /\ \/ Goto(c, AfterCreate(c, Len(intents) + 1))
             \/ "lost" \in Faults /\ AfterError(c)
       \/ /\ call[c].provider \in Implemented
          /\ \E i \in SameKey(KeyOf(call[c].request)) : Goto(c, AfterCreate(c, i))
          /\ UNCHANGED intents
    /\ UNCHANGED <<setup, registered, refunds, hooks, published>>

(* confirm: declined, accepted at once, or left in process; not carried out, or *)
(* refused for an intent that is confirmed already.                            *)
Confirm(c) ==
    /\ At(c, "pay", "confirming")
    /\ \/ AfterError(c) /\ UNCHANGED <<intents, hooks>>
       \/ LET i == call[c].event.of IN
          /\ intents[i].status \in {"requires_confirmation", "requires_payment_method"}
          /\ \/ Decline(i) /\ AfterError(c)
             \/ /\ \/ Accept(i)
                   \/ intents' = [intents EXCEPT ![i].status = "processing"] /\ UNCHANGED hooks
                /\ \/ Goto(c, Announcing(c, call[c].event))
                   \/ "lost" \in Faults /\ AfterError(c)
    /\ UNCHANGED <<setup, registered, refunds, published>>

(* The publish that ends every method.  processPayment makes it in the same    *)
(* try as the charge, so that a publish that fails moves on to the next        *)
(* fallback; the others answer with an error.                                  *)
Bug_ErrorSwallowed(c) == Goto(c, [call[c] EXCEPT !.at = "ok"])
Unpublished(c) ==
    IF call[c].kind = "pay" THEN AfterError(c) ELSE Goto(c, [call[c] EXCEPT !.at = "failed"])

Publish(c) ==
    /\ call[c].at = "announcing"
    /\ \/ published' = published \cup {call[c].event} /\ Goto(c, [call[c] EXCEPT !.at = "ok"])
       \/ "publish" \in Faults /\ Unpublished(c) /\ UNCHANGED published
    /\ UNCHANGED <<setup, registered, intents, refunds, hooks>>

-----------------------------------------------------------------------------
(* capturePayment and refundPayment *)

(* getProviderForPayment asks every provider in turn and takes any error for   *)
(* "not found".                                                                *)
Find(c, kind, i, amount) ==
    /\ call[c] = Idle
    /\ LET asked == [Idle EXCEPT !.kind = kind, !.amount = amount, !.event = Event("none", i)] IN
       \/ Goto(c, [asked EXCEPT !.at = "failed"])
       \/ /\ Elements(registered) \cap Implemented # {}
          /\ Goto(c, [asked EXCEPT !.at = IF kind = "capture" THEN "capturing" ELSE "checking"])
    /\ UNCHANGED <<setup, registered, intents, refunds, hooks, published>>

Capture(c) ==
    LET i == call[c].event.of  amount == IF call[c].amount = 0 THEN intents[i].amount ELSE call[c].amount IN
    /\ At(c, "capture", "capturing")
    /\ \/ Goto(c, [call[c] EXCEPT !.at = "failed"]) /\ UNCHANGED <<intents, hooks>>
       \/ /\ intents[i].status = "requires_capture" /\ amount <= intents[i].amount
          /\ intents' = [intents EXCEPT ![i].status = "succeeded", ![i].received = amount]
          /\ Notify({"payment_intent.succeeded"}, i)
          /\ \/ Goto(c, Announcing(c, Event("payment.captured", i)))
             \/ "lost" \in Faults /\ Goto(c, [call[c] EXCEPT !.at = "failed"])
    /\ UNCHANGED <<setup, registered, refunds, published>>

(* validateRefundEligibility, on the payment as it was read.                   *)
Eligible(payment, amount) ==
    payment.status = "succeeded" /\ (amount > 0 => amount <= payment.amount - payment.refunded)

Check(c) ==
    /\ At(c, "refund", "checking")
    /\ \/ Goto(c, [call[c] EXCEPT !.at = "failed"])
       \/ /\ Eligible(intents[call[c].event.of], call[c].amount)
          /\ Goto(c, [call[c] EXCEPT !.at = "refunding"])
    /\ UNCHANGED <<setup, registered, intents, refunds, hooks, published>>

(* Stripe refunds no more than it received and has not refunded.               *)
Refund(c) ==
    LET i == call[c].event.of
        left == intents[i].received - intents[i].refunded
        amount == IF call[c].amount = 0 THEN left ELSE call[c].amount IN
    /\ At(c, "refund", "refunding")
    /\ \/ Goto(c, [call[c] EXCEPT !.at = "failed"]) /\ UNCHANGED <<intents, refunds>>
       \/ /\ 0 < amount /\ amount <= left
          /\ intents' = [intents EXCEPT ![i].refunded = @ + amount]
          /\ \E status \in {"pending", "succeeded"} :
                refunds' = Append(refunds, [call |-> c, intent |-> i, amount |-> amount, status |-> status])
          /\ \/ Goto(c, Announcing(c, Event("refund.created", Len(refunds) + 1)))
             \/ "lost" \in Faults /\ Goto(c, [call[c] EXCEPT !.at = "failed"])
    /\ UNCHANGED <<setup, registered, hooks, published>>

-----------------------------------------------------------------------------
(* processWebhookEvent *)

(* mapStripeEventType, for the notifications above.                            *)
Bug_FailureMappedToSuccess(name) ==
    CASE name \in {"payment_intent.succeeded", "charge.succeeded", "charge.failed"} -> "payment.succeeded"
      [] name = "payment_intent.payment_failed" -> "payment.failed"
      [] name = "payment_intent.canceled"       -> "payment.canceled"
      [] OTHER                                  -> name

Mapped(name) ==
    CASE name \in {"payment_intent.succeeded", "charge.succeeded"}   -> "payment.succeeded"
      [] name \in {"payment_intent.payment_failed", "charge.failed"} -> "payment.failed"
      [] name = "payment_intent.canceled"                            -> "payment.canceled"
      [] OTHER                                                       -> name

Handled == {"payment.succeeded", "payment.failed", "payment.canceled", "refund.succeeded", "refund.failed"}

(* Stripe delivers a notification until it is acknowledged, and perhaps again. *)
Deliver(c, h) ==
    /\ call[c] = Idle
    /\ LET event == Event(Mapped(h.name), h.of)
           asked == [Idle EXCEPT !.kind = "hook", !.event = event] IN
       Goto(c, [asked EXCEPT !.at = IF "stripe" \notin Elements(registered) THEN "failed"
                                    ELSE IF event.name \in Handled THEN "announcing" ELSE "ok"])
    /\ UNCHANGED <<setup, registered, intents, refunds, hooks, published>>

-----------------------------------------------------------------------------
Step(c) == Create(c) \/ Confirm(c) \/ Publish(c) \/ Capture(c) \/ Check(c) \/ Refund(c)

Next ==
    \/ Setup \/ Settle \/ RefundFails
    \/ \E c \in Calls :
         \/ Step(c)
         \/ \E r \in Requests : Pay(c, r)
         \/ \E i \in 1..Len(intents), amount \in Parts, kind \in {"capture", "refund"} :
               Find(c, kind, i, amount)
         \/ \E h \in hooks : Deliver(c, h)

Spec == Init /\ [][Next]_vars

(* Awaits settle: the clients of Stripe and of the bus time out.               *)
FairSpec == Spec /\ \A c \in Calls : WF_vars(Step(c))

-----------------------------------------------------------------------------
(* Properties *)

TypeOK ==
    /\ setup \in 0..Len(Listed) /\ registered \in Seq(Known)
    /\ \A c \in Calls :
         /\ call[c].at \in {"idle", "charging", "confirming", "announcing", "capturing", "checking",
                            "refunding", "ok", "failed"}
         /\ call[c].kind \in {"none", "pay", "capture", "refund", "hook"}
         /\ call[c].request \in Requests
         /\ call[c].next \in 1..(Len(Fallbacks) + 1)
         /\ call[c].at = "charging" => call[c].provider \in Elements(registered)
         /\ call[c].at \in {"confirming", "capturing", "checking", "refunding"} =>
               call[c].event.of \in 1..Len(intents)
    /\ \A i \in 1..Len(intents) :
         intents[i].refunded \in 0..intents[i].received /\ intents[i].received \in 0..intents[i].amount
    /\ \A n \in 1..Len(refunds) : refunds[n].intent \in 1..Len(intents)

(* However often answers are lost, publishes fail and requests are retried     *)
(* with their key, one call makes at most one payment, and so does one key.    *)
RequestKey(i) == call[intents[i].call].request.key

ChargedOnce ==
    \A i, j \in 1..Len(intents) :
        intents[i].call = intents[j].call \/ (RequestKey(i) = RequestKey(j) /\ RequestKey(i) # NoKey)
            => i = j

(* A call is answered with success only after its event was published: a       *)
(* payment, capture or refund that is reported done is known to the rest of    *)
(* the system, and a notification is acknowledged only once it was passed on.  *)
AnsweredIsPublished ==
    \A c \in Calls : call[c].at = "ok" /\ (call[c].kind = "hook" => call[c].event.name \in Handled)
        => call[c].event \in published

(* What was published is so: payments announced as captured, canceled or       *)
(* created, and refunds, are what Stripe has, whatever happened since.  A      *)
(* payment announced as succeeded was received, except that one to be captured *)
(* by hand may be no more than held, or given up since.                        *)
Received(i) == i.status = "succeeded" /\ i.received > 0
HeldOnly(i) == i.manual /\ i.status \in {"requires_capture", "canceled"}

PublishedIsTrue ==
    \A e \in published :
        /\ e.name = "payment.created" => e.of \in 1..Len(intents)
        /\ e.name = "payment.succeeded" => Received(intents[e.of]) \/ HeldOnly(intents[e.of])
        /\ e.name = "payment.captured" => Received(intents[e.of])
        /\ e.name = "payment.canceled" => intents[e.of].status = "canceled"
        /\ e.name = "refund.created" => e.of \in 1..Len(refunds)

(* Success and its event go together: neither is seen without the other.      *)
EventsAreTrue == AnsweredIsPublished /\ PublishedIsTrue

(* Every call ends: the fallbacks are tried once each.                         *)
EveryCallEnds == \A c \in Calls : call[c].at # "idle" ~> call[c].at \in {"ok", "failed"}

(* "All payment providers failed": a call that is refused for that reason, and *)
(* every other call with its key too, has charged nothing.                     *)
FailedIsUncharged ==
    \A i \in 1..Len(intents) :
        (\A c \in Calls : c = intents[i].call \/ call[c].request.key = RequestKey(i) => call[c].at = "failed")
            => intents[i].status \notin {"succeeded", "processing", "requires_capture"}

=============================================================================
