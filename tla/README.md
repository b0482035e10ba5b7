# Finvoice in TLA+

A verification project kept beside the code of Finvoice: TLA+ modules of the
parts that carry its money, its events, its accounts and its records, TLC configurations that check them
on small instances, and TLAPS proofs of the results that hold for every
instance. `PROJECT.json` is its index: which module models which part, which
lines each definition stands for, what each run checks, which change of the
code would break each property, and where the code is exposed to what.

    tlc -config inv_safety.cfg MCInvoiceService.tla      # one run
    tlapm InvoiceServiceProofs.tla                       # one proof

## 1. The system

Finvoice is a NestJS monorepo: services (`services/*`), an application with
modules of its own (`src/modules/*`, which repeats some of them in another
form), and an infrastructure they share (`shared/`). Every part is a Node
process or a part of one. Within a process code is interrupted only at an
`await`; between two awaits of a handler every other handler of the process may
run, and other processes run all the time. What is shared lies outside: MongoDB
documents, Redis channels, BullMQ queues, Stripe.

| Part | State it keeps | Operations | Talks to |
|---|---|---|---|
| billing service, HTTP (`services/billing/src`: controller, use cases, repository) | documents of the collection `invoices` | create, update, send, delete, download pdf | MongoDB; BullMQ queue `invoice-processing` |
| billing service, aggregate and create use case | status, lines, totals, recorded events | markSent, markPaid, cancel, add and remove lines | repository, event bus |
| payments service, aggregate | status, refunded amount, recorded events | processing, completed, failed, refund, cancel | event bus, through its caller |
| payments service, HTTP | documents of `payments` | create, update status, delete | MongoDB; queue `payment-processing` |
| expenses service, aggregate | status, amount, receipt, reviewer, approved amount | receipt, OCR result, submit, review, approve, reject, pay, edit | events |
| payment gateway (`shared/infrastructure/payment`) | the Map of providers; nothing else | pay, capture, refund, webhook | Stripe; event bus |
| event bus (`shared/infrastructure/event-bus`) | a Map of Sets of handlers per process | publish, publishMany, subscribe, unsubscribe | Redis pub/sub |
| enterprise jobs (`shared/infrastructure/jobs`) | definitions, workers, executions | registerJob, addJob, executeWorkflow, bulk operations | BullMQ |
| billing module (`src/modules/billing`) | a second invoice aggregate | items, finalize, send, record payment, void, prorate | its repository, which never stores anything (section 4) |
| admin: roles, permissions, users (`src/modules/admin`) | documents of `users`, `roles`, `permissions`; log entries | create, update, assign, delete, in bulk, clean up | MongoDB |
| admin: settings, logs, backups, profiles | one settings document, log entries, backup directories, a profile per user | update, configure, clean up, back up, restore | MongoDB, the file system |
| authentication (`src/modules/auth`) | fields of the user document | register, login, refresh, reset | MongoDB, JWT |
| compliance audit (`shared/infrastructure/audit`) | the hash of the last linked entry | record, classify, encrypt, verify | a placeholder for a store |
| blockchain service (`services/blockchain`) | an array of audit entries | payment, contract, signature, verify | a chain's node |
| dashboard gateway (`services/analytics`), admin gateway | Maps of clients, subscriptions, users' sockets; a timer | connect, subscribe, disconnect, broadcast | socket.io |
| email (`shared/infrastructure/email`) | none of its own | send, send in bulk, provider's webhooks | SMTP; placeholders for queue and tracker |
| the rest (analytics, security monitor, clients, pdf, API gateway) | caches, constants | | |

What makes each of them correct:

* **billing HTTP**: numbers are unique; the total shown is that of the lines
  shown; a sent invoice is not a draft again; an email is queued once, for an
  invoice that is sent, and a success that was answered is queued.
* **payment aggregate**: no more is refunded than was paid, also in decimal
  arithmetic; a payment is announced as processed at most once; a payment that
  failed moves no money.
* **payments HTTP**: ids are unique, a status has its date, a stored payment has
  its job.
* **expense report**: one verdict; what is paid was submitted with a receipt,
  reviewed, approved, and is not more than was submitted.
* **gateway**: a call, and a key, charges once; success means published; what is
  published is so; every call ends.
* **event bus**: a handler is called once per path; local handlers come before
  remote ones; a batch has no gaps and its order is kept where the code can keep
  it; every handler is reached.
* **jobs**: outcomes of executions agree with their steps; dependencies are
  respected; a completed step has its job; tries are bounded; executions end.
* **accounts**: what is held exists; a pair of resource and action belongs to one
  permission; a removal is in the log; only an active account is let in.
* **audit trails**: a trail nobody tampered with verifies; what is sensitive is
  encrypted; what was answered is on the chain once.
* **gateways**: the maps kept from two sides say the same; who left is not kept; all
  subscribers of a metric see the same value; a timer can be stopped.
* **the two aggregates**: the status tells what was paid, in which currency, and
  whether that is the total; numbers are not given twice.
* **email**: a message is either out or queued; the bulk call tells what it sent.
* **settings, logs, profiles**: saving what was read before loses nothing that another
  call saved; a log that is gone was due or asked for; logins are counted.

### Hard behaviours

* *Check, await, act.* Every HTTP handler reads a document, awaits, decides, and
  then writes to whatever the document has become. `save` with an id is
  `findByIdAndUpdate` with `upsert`, so a write may also bring back a deleted
  document, without its required fields.
* *Save, await, queue.* Jobs and events follow a write without a transaction. A
  process that dies between the two leaves one without the other.
* *Lost answers.* An await that rejects says nothing of whether the effect took
  place: MongoDB, BullMQ and Stripe may have done it.
* *Two paths of an event.* A publisher calls its handlers itself and then hears
  its own message from Redis; loops of several messages overlap, because the
  listener is async and nobody awaits it.
* *Start-up without an await.* The gateway takes calls while its providers are
  still being registered.
* *Chaining across an await.* The audit service takes the last hash before it awaits
  the store and sets it after. The blockchain service does both in one go.
* *Two maps for one relation.* Subscriptions by client and by metric; sockets by user
  and by room.
* *Numbers.* Amounts are JavaScript doubles; refunds add them up and compare
  with equality, and the billing module's `Money` refuses a sum with a third decimal.

`PROJECT.json` lists the hazards at their lines.

## 2. Modules

| Module | Models | Built on |
|---|---|---|
| `InvoiceService` | billing HTTP: handlers, use cases, repository, indexes | |
| `InvoiceLifecycle` | abstract: what the service promises of an invoice | |
| `InvoiceImplements` | the mapping of the first to the second | both |
| `InvoiceServiceProofs` | theorems about the three | TLAPS |
| `PaymentAggregate`, `PaymentAggregateProofs` | payment aggregate | |
| `PaymentService`, `PaymentServiceProofs` | payments HTTP | |
| `PaymentRouting` | choice of a provider: tables and scores, no state | |
| `PaymentGateway`, `PaymentGatewayProofs` | gateway, Stripe provider, Stripe | `PaymentRouting` |
| `EventBus` | RedisEventBus in several processes, Redis | |
| `EventDelivery` | abstract: what the bus promises publishers and subscribers | |
| `EventBusImplements` | the mapping of the first to the second | both |
| `EventBusProofs` | theorems about the three | TLAPS |
| `WorkflowEngine`, `WorkflowEngineProofs` | EnterpriseJobService, BullMQ | |
| `AccessControl`, `AccessControlProofs` | the services and controllers of roles, permissions and users; authentication | |
| `ComplianceAudit` | the shared audit service | |
| `BlockchainLedger` | the blockchain service's chain | |
| `DashboardGateway` | the analytics service's socket gateway | |
| `AdminGateway` | the admin module's socket gateway, metrics timer and event service | |
| `InvoiceAggregate` | the aggregate of the billing service | |
| `CreateInvoice` | its create use case | |
| `ModuleInvoice` | the aggregate of the billing module | |
| `EmailDelivery` | the shared email service | |
| `AdminRecords` | settings, logs and backups of the admin module | |
| `UserProfile` | user profiles of the admin module | |
| `ExpenseReport` | the expense report aggregate | |
| `Records` | the eleven modules before this row side by side: a step is a step of one of them | `INSTANCE` of each |
| `RecordsProofs` | theorems about the eleven | `Records`, TLAPS |
| other `MC*` | values for the constants, for TLC | the module of that name |

Definitions named `Bug_...` are not part of any specification: each is a variant
of the definition that follows it, with a plausible mistake, and shows that the
property `PROJECT.json` pairs it with would notice.

### InvoiceService

One request is one process of the model; `pc[r]` is the await it is about to
perform, or the reply it ended with. One action is the code from one await to
the next: `CheckNumber`, `Insert` (create), `Find` (the `findById` of the
others, with the use case's guard), `Write` (the save with an id), `DeleteDoc`,
`QueueEmail`, `QueuePdf`, `Fetch` (the read for the answer). `Interrupt` stops a
handler at any await: the process dies or the await rejects. `Write` then
`Interrupt` is a write whose answer was lost. MongoDB does one operation on one
document atomically, and keeps unique indexes; a missing `invoiceNumber` is
indexed as null, so one document without a number may exist and not two.
Documents are reduced to number, presence of the customer, status, lines and
total; dates, addresses and tax are left out. The body of an update may leave the
customer and the lines out, give them, or give null (`nulls`), which `@IsOptional`
lets through; totals are computed anew for lines that are given and for nothing else, so
an update that nulls the lines leaves the total as it was. A request names an `_id` that was
stored at some time; the model has no request for an id that never existed,
which ends at `findById`.

*Abstract specification.* `InvoiceLifecycle` knows stages and emails: created
once as a draft; a draft is deleted for good or sent; a sent invoice stays; one
email. `InvoiceImplements` maps a document's status to its stage, an id that
is known and not stored to "gone", and the queue to the emails. With
one request at a time (`SerialSpec`) the handlers implement it, wherever they are
interrupted. With overlapping requests they do not; see *Disagreements*.

### PaymentAggregate

One action per method, its guards in its first conjuncts; a method that throws is
no step. Nothing is concurrent here: the hard part is arithmetic. The sum
`refundedAmount + amount` is any number within `Ulp` of the exact one, the first
refund (`|| 0`) is exact. With `Ulp = 0` this is arithmetic in minor units. The
theorems hold for every `Ulp`, provided a refund is larger than a rounding error.

### PaymentService

Built like `InvoiceService`, over the payments controller, which has its guards
inline. `body` stands for the fields an answer dereferences; `valid` for whether
mongoose accepts the document at insert.

### PaymentRouting and PaymentGateway

`PaymentRouting` has the tables of `selectProvider` and its score, made whole by
multiplication by ten times the amount. `PaymentGateway` runs the methods of the
service, one step per await: `Pay` (selection), `Create` and `Confirm` (Stripe),
`Publish` (the event that ends every method), `Find`, `Capture`, `Check`,
`Refund`, `Deliver` (webhook). `Setup` registers the providers while calls
arrive. Stripe is external and modelled by what the provider relies on: intents
with idempotency keys, captures and refunds bounded by what was received,
payments in process that settle later, holds that lapse (`Expire`), refunds that fail
later, notifications delivered at least once. Of the notifications of a change Stripe
sends any of those an endpoint can enable (`Notify`), the charge's as well as the
payment intent's. A charge succeeds as soon as its money is held, and the provider maps
`charge.succeeded` to `payment.succeeded`: the gateway announces a payment that is to be
captured by hand before anything was received, and the hold may lapse after that
(`HeldOnly`). The module assumes that amounts are positive and that no
provider is listed as a fallback twice: `PAYMENT_FALLBACK_PROVIDERS` is split at its
commas and not de-duplicated, and the loop would try a repeated one again. Only Stripe is implemented; the other providers throw
in every method, and `ChargedOnce` rests on that: the fallback loop gives the
next provider no knowledge of what the last one did.

### EventBus

The events of one name, in any number of processes. `subs[p]` is the Set of
handlers in insertion order. A JavaScript Set that is iterated while handlers
leave or join shows the joined and not the left; a Set that became empty is
deleted from the Map and a new one made later, which a running loop does not see:
`era` tells the Sets of a process apart. `Publish`, `LocalStep`,
`RedisPublish`, `Answered` are `publish` and `publishMany`; `Receive` and
`LoopStep` the listener. Redis is external: it sends a message to every linked
process in order and keeps nothing.

*Abstract specification.* `EventDelivery` knows who is subscribed and who left, which
events were sent, what each publisher was told and who heard what; no loops, Sets, messages
or connections. The events of a batch have their turn one after the other; in its turn an
event may be heard by the subscribers of its process, and its turn ends when it is sent.
After that any subscriber may hear it, once. A batch that was given up sends nothing more;
one reported as published was sent entirely. `EventBusImplements` maps the Sets of all
processes to one set of subscribers and a call's state to what its publisher knows; the
history of hearings is the same sequence on both sides, so that a handler called a second
time on a path is a step the promise does not have. `KeepsDelivery` says that every step of the bus is one of
these, or none: the parts of `OncePerPath`, `LocalFirst` and `NoGaps` that a caller can
rely on, in one machine, and in addition that nobody hears anything before he subscribed or
after he left.

### WorkflowEngine

`Enter` is one iteration of `executeWorkflowSteps` up to its await, `AddJob` and
`Waited` the two awaits; the rest is BullMQ seen from the outside: a worker takes
a job of its queue, finishes it, throws, or stalls, and an operator retries or
removes it. A step of type job is over when the job is queued, so jobs and
executions go their own ways afterwards.

### AccessControl

Three admin services and the authentication service share three collections and the same
few kinds of awaits: find by id, look for a rival, check that references exist, count
holders, insert, update, remove, log. A permission has a resource and an action, fields of
their own; `Blanks` are the falsy values that validation lets through. `updatePermission`
writes the fields it was given, and looks for a rival only if one of the two is given and not
blank (`Asks`), by what was given and for the rest what it found in the document before
(`Sought`). A method is written as the sequence of *blocks* it
performs. A block is the awaits of one `try`, by name, with the documents they are
about. One action per await (`Find`, `Absent`, `Save`, `Write`, `Remove`, `Log` ...)
performs the next one of a request; a refusal drops the rest of its block. A bulk method
is one block per element where the code has its `try` inside the loop. Any two requests
interleave between awaits; `Crash` drops every request, and `Interrupt` is an await that
rejects, with or without its effect. Passwords, second factors and locks are left out; a
method that writes only those writes nothing the properties see. `loose`, `raced`,
`unlogged`, `cleaned` and `granted` are history and name the exceptions the properties
admit; each is set where the code lets it happen. `raced` has the permissions put on a
pair that was in use: by a request that had found its pair free, which was taken since or is
another than the one it wrote (a field given blank, or changed after it was found); by an
update that gave only blanks, which looks for nothing; or by a bulk update, which never
looks. A write whose request looked and found a rival is never made, so it
needs no exception. The module assumes that the ids of users, roles and permissions are
different ones, that there is a key, and a resource and an action that are not blank, and of
the initial documents what a
database filled by these services would satisfy: they refer to what is there, roles to
permissions and users to both, and their permissions are of different pairs.

### ComplianceAudit and BlockchainLedger

Both link entries by hash; a hash is modelled by what it is of, as an entry's position or
the call that made it. `ComplianceAudit` has the classification tables (event type,
data class, legal basis, retention, frameworks) as sets of words, encryption of what is
not internal, `Handed` for an entry that takes the last hash and is given to the store,
`Linked` for the answer of the store, and `verifyAuditIntegrity` over everything stored. The store is a placeholder in the code; the
model keeps what it was handed. `BlockchainLedger` links and pushes in one step.

### DashboardGateway and AdminGateway

Handlers do not wait, so each is one action. The dashboard keeps subscriptions from both
sides and a cached sample per metric; a sample is the number of the tick that made it.
The admin gateway keeps sockets by user and socket.io rooms; one collection of metrics
reads the number of users before its awaits and broadcasts it after them; starting the
collection twice leaves a timer (`timers`, `outlived`). The service that turns events
into broadcasts is `emit...`, one action per event.

### InvoiceAggregate, CreateInvoice and ModuleInvoice

One action per method of an aggregate; a method that throws is no step. A total is
`None` where the code throws working it out: lines in two currencies, or an untaxed
invoice that is not in the default currency, whose tax of nothing is in dollars. In
`ModuleInvoice` amounts are cents and `Inexact` is the set of sums that `Money` refuses
because the double has a third decimal. `CreateInvoice` is the use case: look for the
number, save, publish, clear; a save or a publish may take effect and throw.

### EmailDelivery

One message goes tracked, rendered, sent, tracked again, or tracked as failed and
queued; a bulk call starts a batch at once, waits for all of it and looks at the share of
failures among the results so far. The transport may fail before or after the message
went out; the provider's webhooks come in any order, and what they say is stored under the
name the provider has for it. Mailgun calls a bounce 'failed', which is also what the service
tracks for a message it could not send; `reported` is history and tells the two apart.

### AdminRecords and UserProfile

A call reads, decides, saves and logs in steps of its own. Saving a mongoose document
writes the paths whose assigned value differs from the one that was read, and not the whole
document; that is what `SettingsAreKept` and `LoginsAreCounted` rest on. The body of a settings
request is any assignment of fields, several at once and null among the values (`Bodies`); its
values are kinds, two of which may be the same or not (`MaybeSame`), and a value with a date in it
never is. `assigned` is what each field was given last, and `skipped` the fields where that was
not written, being what its call had read, though another call had changed them. A body that
replaces the alerts starts `asked` and `crossed` anew. A period of 0 or null is no period
to the audit service (`Or`), while the system service defaults only one that is undefined and
deletes every log for 0 or null. Any save, deletion or backup may fail (`Refused`).
`SystemRequests`, `AuditRequests` and
`AdminRequests` are what the endpoints of the three controllers ask for.

### ExpenseReport

One action per method. An OCR result (`UpdateFromOcr`) may come at any time after
the receipt: the code has no guard on the status. `rewritten` is history and
records that one changed the money of a report already submitted.

### Records

The eleven components from `ComplianceAudit` on share no state with one another. `Records`
has the variables of all, instantiates each module, and lets one of them act at a time;
its properties are the conjunctions of theirs, by theme. Its four assumptions say that
counts are natural numbers, periods and the amounts of an expense integers, that a
message is in one batch of the bulk call, that the settings in a body are of the kinds a
document has, and that `None`, which stands for what is absent,
is no number, reviewer, currency, set or document.

## 3. Runs

| Run | Question | Instance |
|---|---|---|
| `inv_safety` | what stays true of invoices and jobs when requests overlap | 4 requests, 2 numbers, 2 line lists |
| `inv_serial` | do the handlers implement the lifecycle one at a time | 5 requests, 1 number, 1 list |
| `inv_claim_customer` | does every invoice have the customer its schema requires (no: violation) | 2 requests, one at a time |
| `pay_ledger` | refunds, announcements and rounding | 6 amounts, refunds of 9 sizes, errors of a hundredth |
| `psv_safety` | what stays true of payments and jobs when requests overlap | 4 requests, 2 ids, 4 statuses, one unknown to the schema |
| `gw_safety` | charges, events and webhooks when everything may fail, and does every call end | 2 calls, 2 providers, 2 notifications at a time, one key |
| `gw_claim_failed` | has a payment reported as failed charged nothing (no: violation) | 2 calls, the default providers |
| `bus_safety` | order, gaps and repetition, handlers leaving, links breaking, publishes rejected; is every handler reached; does the bus implement `EventDelivery` | 2 processes, 3 handlers, a batch of 2 |
| `wf_safety` | outcomes, dependencies, jobs, tries, and does it end | 3 workflows, 3 definitions, all faults, 2 retries |
| `admin_access` | do accounts, roles and permissions stay consistent | 2 requests at once of any method; 2 users, 3 roles, 3 permissions |
| `admin_claim_cleanup` | does the clean-up take only what nobody holds (no: violation) | the same |
| `records` | what each of eleven components by itself promises | 2 to 4 calls, sockets or messages each; expenses of -1..4 |

Why these bounds: the worst interference of the HTTP services takes a request
that creates, one that holds a stale read, one that deletes and one that
reads or writes after that: four. `inv_serial` takes a fifth, because without
overlap a violation takes a complete second send. Two numbers are needed for
uniqueness to be about something, and the lists differ in length and in their
total. Two gateway calls are a payment and a second with its key, or an operation
on it. A batch of two is the least that has an order, two handlers in a process the
least whose loops can be cut between them. The workflows are the built-in one and two
that have a skipped step, a failure action and a dependency on a later step. In
`admin_access` every race is between two requests, over a user with a role with a
permission, a role and a permission nobody holds, the latter without an action, and one id
of each kind to make; two resources and two actions, one of them blank, make pairs that differ in
either. In
`records` a fork of the audit trail takes two calls and shows at the third entry; the
bulk mail has a batch that can fail in part and one after it; logs have an age within,
between and beyond the retention periods, one of which is 0, and bodies of settings give one
field, several, or null. Requests and numbers are interchangeable and
are reduced by symmetry in `inv_safety`, `inv_serial` and `psv_safety`, and requests in
`admin_access`; a run with a liveness property uses none.

`records` checks `Records`. Since its components share no state, `MCRecords` adds `focus`,
the component a behaviour is about; the others keep their initial state, so that TLC does
not multiply their states. Each of its properties is the conjunction of those of the
components it names, which the component's module defines and comments.

Bounds in guards: `MaxFailures` (calls of `markAsFailed`), `MaxHooks`
(notifications), `MaxRetries` (retries of one job), `MaxRequests` (requests of the admin
services), `MaxEntries` (audit entries), `MaxItems` (lines of an invoice), `MaxTicks`,
`MaxTimers`, `LastRefused` (invoice numbers used up by refused creations). All runs
switch the deadlock check off: requests, calls and events of a behaviour are finitely
many, and when they are over nothing has to happen.

*What the runs show beyond the invariants' names.* `UniqueNumbers` holds only by
the unique index: the check in the controller and the insert are two awaits.
`SentIsNotUndone` holds because an update never writes a status.
`MailAgrees` says that an email and the status agree up to the requests that were
interrupted between the write and the queue: such an invoice stays sent without an
email, and the guard refuses to send it again. `StoredIsSound` of the invoices holds as far
as no update nulled the customer or the lines (`Cleared`), which is as much as the code keeps;
that of the payments says of them and their jobs what `MailAgrees` says of emails. `ChargedOnce` holds because the selected provider is skipped in the
fallback list and the key is passed on. Of `HeardInOrder` the part about the oldest
handler is what is left of order: later handlers of a process may hear a batch out of
order, since the loops of its messages overlap. `HeldExists` and `PairsAreDistinct` hold
but for the requests that crossed, which are named; without the names TLC shows each
race. `TrailsVerify` says of the shared audit service that its trail verifies *exactly*
if no two recordings overlapped and nothing was encrypted. `FailedMailIsRetried` says
that a failed message is queued, that a templated one is queued without its body, and that one
is tracked as failed only if its sending failed or a provider said so. `RecordsAreKept` says
of the settings *exactly* which fields differ from what they were given last.

### Fairness

Safety alone assumes none. Three liveness properties do:

* `EveryCallEnds` (`gw_safety`): weak fairness of the next step of each call. A step
  ends an await of Stripe or of the bus, and both clients have time-outs. All faults
  are allowed; whether an await resolves or rejects is never fair.
* `EventuallyHeard` (`bus_safety`): weak fairness of each publish, of the receipt of
  messages and of each loop. Handlers end, Redis answers. What a disconnected process
  misses, or a rejected publish drops, is excepted: Redis pub/sub keeps nothing and nothing
  in the code repeats it. No fairness for `Subscribe` and `Unsubscribe`.
* `EveryExecutionEnds` (`wf_safety`): weak fairness of each execution's own loop.
  Nothing is assumed of workers: an execution does not wait for its jobs.

## 4. Disagreements between the code and what it says

Three are shown by runs that TLC ends with a counterexample:

* `inv_claim_customer`: the schema of an invoice says that `customerId` is required, but an
  update whose body has a null there passes `@IsOptional` and is written by
  `findByIdAndUpdate`, which runs no validators.
* `gw_claim_failed`: "All payment providers failed" is logged and thrown for a payment
  that Stripe took, when the publish of its event fails.
* `admin_claim_cleanup`: "Cannot delete permission that is assigned to roles"; the
  clean-up of orphans joins an ObjectId with strings, finds every permission orphaned, and
  deletes those roles hold.

The models also show these, which no run states as a property:

* "only draft invoices can be sent", but two overlapping sends both read the draft and
  both queue an email (`Find`, `Write`, `QueueEmail` of `InvoiceService`);
* an invoice that is sent after a delete read it as a draft is deleted, although "only
  draft invoices can be deleted" (`Find`, `Write`, `DeleteDoc` of `InvoiceService`);
* an update that nulls the lines of an invoice leaves its total (`LinesAfter`);
* an update or a send that races with a delete upserts an invoice without its required
  number and customer (`Blank`); `StoredIsSound` says that no *numbered* invoice is
  ever broken so, but by an explicit null; the same with payments;
* `deletePayment` refuses completed and processing payments by name, so a refunded one
  is deleted; `updatePaymentStatus` stores statuses that the schema does not list, as
  `findByIdAndUpdate` runs no validators;
* a payment that was refunded in full can be marked as failed and cancelled:
  the guards name COMPLETED only;
* an OCR result replaces the amount and currency of a report that was submitted,
  approved or paid;
* the gateway tries the selected provider and the fallback list, not every provider:
  with the defaults a dollar payment is answered by stubs and Stripe is never asked;
* the failure of an accepted refund arrives as `refund.updated`, for which there is no
  case, and is acknowledged and dropped;
* the publisher's own handlers hear an event twice, once on each path;
* a worker's processor does not look at the name of a job, so definitions that share a
  queue get each other's jobs; and the built-in workflow adds a job nobody defines;
* money that is only held is announced as `payment.succeeded`, as the provider maps
  `charge.succeeded` to it, and the hold may lapse without ever being captured (`HeldOnly`);
* `handleWebhookEvent` of the gateway has cases for names other than those its provider maps
  notifications to;
* two audit events that overlap chain to the same entry, and an encrypted entry never
  verifies, as its hash is taken before it is encrypted (`ComplianceAudit`);
* a second start of the admin gateway's collection of metrics loses the first interval,
  which nothing stops any more (`outlived` of `AdminGateway`);
* an untaxed invoice in another currency than dollars cannot be made, because the tax of
  nothing is made without a currency (`calculateTotal` of `InvoiceAggregate`); a draft can
  become one by removing its taxed line and can be sent, but never be paid;
* `finalize` and `send` of the billing module's aggregate do not look at the total, and
  decimal sums that are no doubles of two decimals are refused (`Inexact`);
* a stored invoice whose publish failed is never announced: a retry is refused for its
  number (`CreateInvoice`);
* one failure in the first batch of a bulk mail stops it, since the failures are divided
  by the results of the batches before, which are none; a queued retry of a templated mail
  has no body; an email is tracked as sent before it is, and a bounce reported before its sender
  tracks the message as sent again is forgotten; SendGrid's notifications carry an
  argument that is never set and match no message (`EmailDelivery`);
* a settings field given the value its call read is not written, although another call has
  changed it since and both are answered as saved (`skipped` of `AdminRecords`);
* a clean-up of the system's logs with `olderThanDays` 0 or null deletes every log; the audit
  service's takes the same for "by the policy" (`Limit` and `Or`);
* `toggleMaintenanceMode` writes its own document under a key, with `value.enabled`, while
  `isMaintenanceMode` reads `maintenance.enabled`; making the default settings is always
  refused for the missing key; a backup whose call died stays "in progress" and can be
  restored (`AdminRecords`);
* two configurations of alerts that cross lose one of them (`crossed` of `AdminRecords`);
* a role or permission can be given to somebody between the count and the delete, and the
  other way round; `deletePermission` does not count the users it is granted to; resource
  and action have no unique index, and an update that gives a blank one looks for no rival, or
  for one of another pair (`loose` and `raced` of `AccessControl`).

Met while reading, and outside the models: the billing module's repository stores nothing,
because `save` updates by an id that the aggregate made up and that is no ObjectId, and
reading a document back would construct the invoice anew, which refuses a due date that has
passed.

## 5. Proofs

All for any values of the constants that satisfy the named assumptions.

**InvoiceServiceProofs** (assumption: `None` is no number, list, total or
document).

* `TypeCorrect`: `TypeOK` is inductive. Its last conjunct, that the await of a
  request is one of its handler's path, carries the other proofs.
* `NumbersAreUnique`: inductive with `TypeOK`; the case that matters is `Insert`,
  guarded by the index, and an upsert, whose document has no number.
* `StoreIsSound`: `TotalsMatchLines` and `NumberedRenders` follow from a property of
  single documents, `SoundStore`, which every write keeps since it starts from a sound
  document or from the blank one, and what it nulls makes its request one that `Cleared` names.
  A request never leaves the places where it is named.
* `SentStays`: the action property, by cases on the write; needs
  `KnownWereInserted`, that only an id never stored before is inserted.
* `MailFollowsSent`: `MailIsAfterSent` is not inductive: nothing says that a request about
  to queue its email has written. `MailInv` adds that its invoice is sent or was deleted.
* `SendIsQueued`: `QueueInv` adds which jobs are queued at each await of a send.
* `SentIsOwed`: `SentIsMailed`. A step that writes "sent" leaves its sender at the
  email, and the sender leaves that place by queueing it or by being interrupted.
* `MailAlwaysAgrees`: the three together are `MailAgrees`.
* `SerialInvariant`, `SerialImplements`: with one request at a time, what `Find` saw is
  still so when its handler writes (`FindStillHolds`); with it, every step is a
  step of the lifecycle or none.

**PaymentAggregateProofs** (amounts are integers, `Ulp` a natural number smaller than any
refund). `PaymentInv` relates status, ledger and announcements: money was refunded only if
the payment was processed, a processed payment is completed, refunded, or left
those states after a full refund, and the refunded amount is below the payment while it is
completed. `RefundsAreBounded`, `IsProcessedOnce`, `FailureIsFinal` follow;
`LedgerIsKept` is proved on top by counting one rounding error per refund event, and
`RefundsAreKept` puts the parts together as `RefundsAreSound`.

**PaymentServiceProofs** (assumption: `None` is no id or request, and clients may ask for
"pending"). `TypeOK` is inductive with `CallsAreMade` (a request on its way to create has an
id, one on its way to change something names a known payment) and `CreatorsAreKnown`.
`IdsAreUnique` rests on the index at an insert and on an upsert's missing id;
`StoredStaysSound` on every write starting from a sound document or the schema's defaults,
and on only `Insert` adding to `known`, leaving its request at the queue.

**WorkflowEngineProofs** (workflows are not empty and depend on steps they have; names of
definitions are unique; a definition has an attempt or more). `Going` says of a started
execution that the steps before the current one are settled and those after it untouched.
With it, what `DependenciesMet` asks of any step comes down to earlier ones (`MetIsBefore`),
which never change again (`OthersKept`); `WorkflowsEndSettled` and
`DependenciesAreRespected` follow, for any number of executions, definitions and faults,
since an execution reads nothing a worker does. The jobs come on top. `Accounted`: a job
that may still run has a try left, of its definition's attempts or of an operator's
retries. `SlotMatches`: a completed step of type job has its job, and a job's step is
completed or failed, which it is where the add took effect and its answer was lost. A
worker's step changes a job's record and no execution, and the step that adds a job finds
its definition because `AddsDefined` says it was there when the step was entered.
`JobsAreKept` and `TypeCorrect` follow.

**EventBusProofs** (handlers and calls live in one process each, handlers subscribe once at
the start, an event is in one batch, once). For either path there is an invariant of what is
on the way and one of what was heard: `SentInOrder` (what Redis has of a batch is what came
before the current event) and `HeardFromCall` for the publisher's own loop; `MessagesOnce`
(a message on its way was sent, is there once, and has no loop yet) and `HeardFromLoop` for
the listener's. With them a handler hears an event once per path, the local ones before the
remote ones, and a batch leaves no gap: `EachIsHeardOnce`. For the order, `InboxInOrder`
says that messages reach a process as they were sent, and `OldestIsFirst` that in a process
nobody leaves a loop reaches the oldest handler before any await; `EachIsHeardInOrder`
follows for that handler, and for no other. The loop's choice, the first handler in the Set
it has not called, is the least element of a set of numbers. `DeliveryIsKept` is the
refinement, a lemma per action: a call of a handler is `HearLocally` or `HearRemotely`,
where `NextHandler` says it is subscribed and not done, `MayCall` or `MessagesOnce` that the
event is in its turn or was sent, and `HeardFromCall` or `HeardFromLoop` that who is not
done has not heard it; `RedisPublish` is `Send` or, rejected, no step; `Answered` is
`Answer` at the end of a batch or after a failure, else the first call of the next event.

**PaymentGatewayProofs** (amounts are positive, fallbacks are not repeated). The invariant
has four parts. `Shaped` is the type of the state, with which await of a call has a provider
or an intent. `ChargedInv` is why a call and a key charge once: a call that has charged has
tried Stripe (`Tried` asks its record: the provider it selected and the fallbacks before the
next), it never returns to a provider it tried, and an intent of a key another call used is
the other call's. `MoneyInv` is why Stripe never returns more than it received. The sum of
the refunds of an intent would need induction over their list; instead there *is* a running
total (`Accounts`) that every refund not failed fits into and that stays below what Stripe
counts, and a step shows how the next one is made from the last. `TruthInv` is that a notification or an event is so when it is made and from then on,
because an intent that succeeded or was canceled does not change its status, one that is held
is received or canceled next, and lists only grow. TLC checked the
conjunction on the instance of `gw_safety` before it was proved. `AlwaysChargedOnce` and
`EventsAreAlwaysTrue` follow, whichever awaits reject, with or without their effect.

**RecordsProofs** (the four assumptions of `Records`). A step of one component leaves the
variables of the others alone, hence what they promise (`OthersStutter`), so each has an
invariant by itself and a section with four lemmas. What carries each:

* audit: an entry is linked once, and by the call that awaits its store (`Chained`,
  `AuditPending`); recordings one after the other leave a trail in order (`Serial`), and once two
  overlapped some entry does not name the one before it (`Forked`), which nothing repairs. Ledger:
  an entry that is read off the last and pushed in the same step follows it.
* dashboard: `WithoutReads` says what the code that deletes empty sets leaves for a reader.
  Admin gateway: whoever follows a user is an admin, so an event about one reaches the admins
  too; a timer other than the current one was outlived.
* billing service: a status past the draft has lines, and a paid invoice changes neither lines nor
  status. Billing module: `Balance` gives for each status how what was paid compares with the
  total, and a number is below the counter. Create: `Progress` says which steps a stored and an
  announced invoice can be at.
* email: where a message is tells whether it went out, whether it is queued, and whether it is
  tracked as failed, unless a provider reported it so (`Mail`); the bulk
  call's results are what the batches before the current one sent (`Bulk`).
* settings: each field is as it was given last, but for those skipped and for configurations
  of alerts that crossed (`Kept`); every log that is gone was old enough for, or named by, a call (`Explained`). Profiles:
  a document's logins are those counted since it was made, and a call that has read one may write
  to a later one.
* expense report: `Story` says for each status what the events have told; `PaidWasApproved` follows.
  `Frozen` says that a submitted report shows the money it was submitted with until a late OCR result
  rewrites it; `ApprovalIsBounded` follows.

**AccessControlProofs** (the two assumptions of `AccessControl`). Any of sixty methods may be in
flight, so the invariant is not about methods but about blocks. `Plan` lists the sequences of
awaits a block can have left, and with each what its block may write, make, delete or give;
one lemma per service shows that its methods consist of blocks with a plan, and from there on no
proof mentions a method. `AccessInv` is the conjunction of

* `Typed`, the shapes, and that what is stored was inserted;
* `Blocks`: every block in flight is `Good`. It has a plan; what it is to save was never inserted;
  and a deletion is at one of three places: before its count, after it (`Covered`: everybody who
  holds what it is to remove is excused, because `loose` or `cleaned` names the reference or because
  it is a user's permission, which nothing counts), or after the removal;
* `Apart`, that no two blocks save the same new document, and `InTurn`, that only the
  first block of a request has counted, so that what it counted is what it removes;
* `LogIsTrue` and `Accounted`: what is logged as deleted is gone, and what is gone is logged, lost or
  owed by the request that removed it;
* `Covered` for what is not stored, `PairsAreDistinct` and `GrantedWereActive`.

There is one lemma per await, for any block at it, and one per way a request loses blocks
(refusal, error with or without effect, crash). `HeldAlwaysExists`, for instance, comes down to two cases: a reference
that is given while a delete has passed its count is put into `loose` by `Put`, and every reference
there was before the count is seen by it. `PairsStayDistinct` needs the exact set `raced`: a write that puts a permission on a pair in use is one whose block
found its pair free (`clear`), never looked (`Asks`), or is a bulk update; a block that asks has no
other way to its write than the look-up. All other writes leave both fields alone. The proof is what
showed that `raced` had to be about the write and not about the look.

Where a component's operator works through a list (the total of its lines, the verification
of a trail), the lemmas about it argue by a least counterexample (`NatMin`) or use a
function whose value is fixed by an existence lemma (`SumExists`), as the prover has no
induction with an operator for its hypothesis.

*Only model-checked*: every liveness property
(`EveryCallEnds`, `EventuallyHeard`, `EveryExecutionEnds`), since TLAPS has no support here
for fairness and ENABLED. Every other property of a passing run is a theorem. What `Subtotal` of the invoices computes is used in the proofs only as some
function of the lines.

## 6. Not modelled

* *billing module: repository and use cases*: nothing is ever stored (section 4); several
  handlers of the controller are stubs, one use case throws "not fully implemented yet".
* *webhook controller of the payments service*: verifies, logs, and ends in TODOs.
* *job handlers*: they log and wait; nobody registers them with a worker.
* *security monitor*: stores, actions and detectors are placeholders that return constants.
* *analytics and machine learning*: numbers from `Math.random` behind a cache.
* *clients, pdf, API gateway, BullMQ service, health*: setters without guards, layout,
  proxy tables, configuration, and an `addJob` that the services' modules have as a step.
* *of the modelled parts*: read-only endpoints; of the gateway `voidPayment`
  (nobody calls it), customers and payment methods at Stripe (their errors are
  swallowed) and disputes; of the jobs recurring jobs, metrics and health; of
  authentication passwords, the life of a token and the guard that compares role names; of
  the audit service the report over a period and a restart, which loses the last hash it
  keeps in memory; of the event bus a handler that leaves and subscribes again while a loop
  over its Set runs, which that loop would call a second time (`Fresh`); of the jobs a step of
  type job without a name, which is completed without adding one; of settings and alerts
  everything but the kind of value they have.
* *the repository behind `CreateInvoice`*: the use case asks for a repository that the one in
  the billing service does not fit; the module takes it by its interface.

## 7. What is left

1. Compositions: the events of `CreateInvoice` through `EventBus`, the jobs of
   `InvoiceService` through the queue of `WorkflowEngine`. Each side is modelled with the
   other as one step that may fail; the product is out of TLC's reach at these bounds.
2. Abstract specifications worth stating: a chain without forks for `ComplianceAudit`.
