---------------------------- MODULE EmailDelivery ----------------------------
(***************************************************************************)
(* The shared email service: a message is tracked as sent, rendered, sent  *)
(* and tracked again; if that fails it is tracked as failed, queued for    *)
(* another try, and the caller gets the error.  A bulk call sends a batch  *)
(* at once and looks at the share of failures after each.  The transport   *)
(* may fail, before or after the message went out; tracker and queue are   *)
(* placeholders that always answer.                                        *)
(***************************************************************************)
EXTENDS Integers, Sequences, FiniteSets

CONSTANTS
    Mails,
    Templated,    \* the messages whose body comes from a template
    Unretried,    \* the messages with retryAttempts 0
    Batches,      \* what the bulk call is given, cut into batches
    Threshold,    \* percentage of failures that stops the bulk call
    Events,       \* what the providers call that which became of a message
    None

VARIABLES
    stage,      \* where the sending of each message is
    tracked,    \* what the tracker was told last of each message
    delivered,  \* the messages that went out
    queue,      \* the messages queued for later, with their bodies
    bulk,       \* the batch the bulk call is at, its failures so far, and its results
    reported    \* history: the messages a provider said had failed, under our id

vars == <<stage, tracked, delivered, queue, bulk, reported>>

InBulk == UNION {Batches[n] : n \in DOMAIN Batches}
Over(m) == stage[m] \in {"sent", "thrown"}

Init ==
    /\ stage = [m \in Mails |-> "idle"] /\ tracked = [m \in Mails |-> None]
    /\ delivered = {} /\ queue = {} /\ reported = {}
    /\ bulk = [batch |-> 0, results |-> {}, state |-> "idle"]

To(m, from, to) == stage[m] = from /\ stage' = [stage EXCEPT ![m] = to]
Track(m, what) == tracked' = [tracked EXCEPT ![m] = what]

sendEmail(m) ==
    /\ m \notin InBulk /\ To(m, "idle", "sending") /\ Track(m, "sent")
    /\ UNCHANGED <<delivered, queue, bulk, reported>>
Sent(m) ==
    /\ To(m, "sending", "recording") /\ delivered' = delivered \cup {m}
    /\ UNCHANGED <<tracked, queue, bulk, reported>>
Recorded(m) ==
    /\ To(m, "recording", "sent") /\ Track(m, "sent")
    /\ UNCHANGED <<delivered, queue, bulk, reported>>
Failed(m) ==
    /\ To(m, "sending", "failing")
    /\ delivered' \in {delivered, delivered \cup {m}}
    /\ UNCHANGED <<tracked, queue, bulk, reported>>

(* A body that came from a template is not the one that is queued. *)
Body(m) == IF m \in Templated THEN "empty" ELSE "own"
Bug_NeverQueued(m) ==
    /\ To(m, "failing", "thrown") /\ Track(m, "failed")
    /\ UNCHANGED <<delivered, queue, bulk, reported>>
Requeued(m) ==
    /\ To(m, "failing", "thrown") /\ Track(m, "failed")
    /\ queue' = IF m \in Unretried THEN queue ELSE queue \cup {[mail |-> m, body |-> Body(m)]}
    /\ UNCHANGED <<delivered, bulk, reported>>

(* The delay is worked out and not passed on. *)
queueEmail(m) ==
    /\ m \notin InBulk /\ To(m, "idle", "queued") /\ Track(m, "pending")
    /\ queue' = queue \cup {[mail |-> m, body |-> Body(m)]}
    /\ UNCHANGED <<delivered, bulk, reported>>

(* The provider tells what became of a message, perhaps before its sender knows, *)
(* and the tracker is told under the id found in what it sent: ours comes back   *)
(* in a header, but SendGrid's events carry an argument that is never set.  The  *)
(* event is stored as the provider names it: Mailgun calls a bounce 'failed'.    *)
parseSESWebhook(m) == m
parseMailgunWebhook(m) == m
parseSendGridWebhook(m) == None
parseWebhookPayload(provider, m) ==
    CASE provider = "ses" -> parseSESWebhook(m)
      [] provider = "sendgrid" -> parseSendGridWebhook(m)
      [] provider = "mailgun" -> parseMailgunWebhook(m)
handleWebhookEvent(m, provider, event) ==
    /\ m \in delivered
    /\ tracked' = [t \in Mails |-> IF t = parseWebhookPayload(provider, m) THEN event ELSE tracked[t]]
    /\ reported' = IF event = "failed" THEN reported \cup ({parseWebhookPayload(provider, m)} \cap Mails) ELSE reported
    /\ UNCHANGED <<stage, delivered, queue, bulk>>

Start(n) ==
    /\ stage' = [m \in Mails |-> IF m \in Batches[n] THEN "sending" ELSE stage[m]]
    /\ tracked' = [m \in Mails |-> IF m \in Batches[n] THEN "sent" ELSE tracked[m]]
sendBulkEmails ==
    /\ bulk.state = "idle" /\ Start(1)
    /\ bulk' = [bulk EXCEPT !.state = "running", !.batch = 1]
    /\ UNCHANGED <<delivered, queue, reported>>
(* Failures of this batch are counted against the results of the batches before. *)
Failures == Cardinality({m \in InBulk : stage[m] = "thrown"})
TooMany == Failures * 100 > Threshold * Cardinality(bulk.results)
Settled == bulk.state = "running" /\ \A m \in Batches[bulk.batch] : Over(m)
Stop ==
    /\ Settled /\ TooMany
    /\ bulk' = [bulk EXCEPT !.state = "stopped"]
    /\ UNCHANGED <<stage, tracked, delivered, queue, reported>>
Proceed ==
    /\ Settled /\ ~TooMany
    /\ LET results == bulk.results \cup {m \in Batches[bulk.batch] : stage[m] = "sent"} IN
       IF bulk.batch = Len(Batches)
       THEN /\ bulk' = [bulk EXCEPT !.state = "returned", !.results = results]
            /\ UNCHANGED <<stage, tracked>>
       ELSE /\ bulk' = [bulk EXCEPT !.batch = @ + 1, !.results = results]
            /\ Start(bulk.batch + 1)
    /\ UNCHANGED <<delivered, queue, reported>>

Next ==
    \/ \E m \in Mails :
        \/ sendEmail(m) \/ Sent(m) \/ Recorded(m) \/ Failed(m) \/ Requeued(m) \/ queueEmail(m)
        \/ \E provider \in {"ses", "sendgrid", "mailgun"}, event \in Events :
               handleWebhookEvent(m, provider, event)
    \/ sendBulkEmails \/ Stop \/ Proceed

Spec == Init /\ [][Next]_vars

-----------------------------------------------------------------------------
TypeOK ==
    /\ stage \in [Mails -> {"idle", "sending", "recording", "failing", "sent", "thrown", "queued"}]
    /\ delivered \subseteq Mails /\ bulk.results \subseteq InBulk

(* A message whose sending failed is queued, without its body if that came from  *)
(* a template; one answered as sent went out and is not queued; one is tracked   *)
(* as failed only if its sending failed or its provider said so; the bulk call   *)
(* returns exactly what was sent and has tried everything, and one failure in    *)
(* its first batch is enough to stop it, with the messages of later batches      *)
(* never tried.                                                                  *)
FailedMailIsRetried ==
    /\ \A m \in Mails :
        /\ stage[m] = "thrown" /\ m \notin Unretried => [mail |-> m, body |-> Body(m)] \in queue
        /\ stage[m] = "sent" => m \in delivered /\ \A q \in queue : q.mail # m
        /\ tracked[m] = "failed" => stage[m] = "thrown" \/ m \in reported
    /\ bulk.state = "returned" => bulk.results = {m \in InBulk : stage[m] = "sent"} /\ \A m \in InBulk : Over(m)
    /\ bulk.batch > 1 => \A m \in Batches[1] : stage[m] = "sent"
    /\ \A n \in DOMAIN Batches : n > bulk.batch => \A m \in Batches[n] : stage[m] = "idle"
=============================================================================
