--------------------------- MODULE PaymentService ---------------------------
(***************************************************************************)
(* The HTTP payment service of services/payments: the controller and its   *)
(* Mongo repository.  Several requests are in flight at once; a handler is *)
(* a sequence of steps, one per await, and pc[r] names the await request r *)
(* is about to perform, or the reply it ended with.                        *)
(***************************************************************************)
EXTENDS FiniteSets

CONSTANTS
    Requests,     \* the HTTP requests of a behaviour; each is made at most once
    PaymentIds,   \* paymentId, chosen by the client
    Statuses,     \* the statuses clients ask for, the schema's or others
    None          \* a missing field, an absent document, a request not yet made

SchemaStatuses == {"pending", "processing", "completed", "failed", "refunded"}

ASSUME PaymentServiceAssumption ==
    None \notin PaymentIds /\ None \notin Requests /\ "pending" \in Statuses

VARIABLES
    payments,     \* the document under each _id (the creating request), or None
    known,        \* history: the _ids that were inserted
    jobs,         \* the paymentIds in the queue 'payment-processing'
    call,         \* the parameters of each request
    pc

vars == <<payments, known, jobs, call, pc>>

Awaits == {"insert", "queue", "fetch", "find", "write", "reread", "remove"}
Replies == {"ok", "notFound", "badRequest", "error", "lost"}

(* The fields some step tells apart: body stands for the invoice, customer,    *)
(* amount and method, processedAt and failedAt for whether they are set.       *)
Documents == [paymentId : PaymentIds \cup {None}, body : BOOLEAN, status : Statuses,
              processedAt : BOOLEAN, failedAt : BOOLEAN]

Call(op, id, paymentId, status, valid) ==
    [op |-> op, id |-> id, paymentId |-> paymentId, status |-> status, valid |-> valid]
AnyCall == [op : {"create", "update", "delete"}, id : Requests, paymentId : PaymentIds \cup {None},
            status : Statuses, valid : BOOLEAN]

Id(r) == call[r].id
Doc(r) == payments[Id(r)]

-----------------------------------------------------------------------------
Init ==
    /\ payments = [i \in Requests |-> None]
    /\ known = {} /\ jobs = {}
    /\ call = [r \in Requests |-> None]
    /\ pc = [r \in Requests |-> "idle"]

Goto(r, place) == pc' = [pc EXCEPT ![r] = place]

Arrive(r) ==
    /\ pc[r] = "idle"
    /\ \/ \E n \in PaymentIds, valid \in BOOLEAN :
             call' = [call EXCEPT ![r] = Call("create", r, n, "pending", valid)] /\ Goto(r, "insert")
       \/ \E i \in known, s \in Statuses, op \in {"update", "delete"} :
             call' = [call EXCEPT ![r] = Call(op, i, None, s, TRUE)] /\ Goto(r, "find")
    /\ UNCHANGED <<payments, known, jobs>>

WithId(n) == {i \in Requests : payments[i] # None /\ payments[i].paymentId = n}

(* The unique index on paymentId; a missing one is indexed as null.            *)
Bug_NoUniqueIndex(n) == FALSE
Indexed(n) == WithId(n) # {}

(* createPayment: save without an _id validates and inserts.                   *)
Insert(r) ==
    /\ pc[r] = "insert"
    /\ \/ /\ ~call[r].valid \/ Indexed(call[r].paymentId)
          /\ Goto(r, "error")
          /\ UNCHANGED <<payments, known>>
       \/ /\ call[r].valid /\ ~Indexed(call[r].paymentId)
          /\ payments' = [payments EXCEPT ![r] =
                [paymentId |-> call[r].paymentId, body |-> TRUE, status |-> "pending",
                 processedAt |-> FALSE, failedAt |-> FALSE]]
          /\ known' = known \cup {r}
          /\ Goto(r, "queue")
    /\ UNCHANGED <<jobs, call>>

(* createPayment: addJob 'process-payment'.                                    *)
Bug_NotQueued(r) == jobs
Bug_QueuedByDocumentId(r) == jobs \cup {Id(r)}
WithJob(r) == jobs \cup {call[r].paymentId}

Queue(r) ==
    /\ pc[r] = "queue"
    /\ jobs' = WithJob(r)
    /\ Goto(r, "fetch")
    /\ UNCHANGED <<payments, known, call>>

(* createPayment reads the payment back by its paymentId.                      *)
Fetch(r) ==
    /\ pc[r] = "fetch"
    /\ Goto(r, IF WithId(call[r].paymentId) # {} THEN "ok" ELSE "error")
    /\ UNCHANGED <<payments, known, jobs, call>>

(* findById, and deletePayment's check of the status it read.                  *)
Undeletable == {"completed", "processing"}

Find(r) ==
    /\ pc[r] = "find"
    /\ Goto(r, IF Doc(r) = None THEN "notFound"
               ELSE IF call[r].op = "update" THEN "write"
               ELSE IF Doc(r).status \in Undeletable THEN "badRequest" ELSE "remove")
    /\ UNCHANGED <<payments, known, jobs, call>>

(* What upsert starts from when the document is gone: the schema's defaults.   *)
Blank == [paymentId |-> None, body |-> FALSE, status |-> "pending",
          processedAt |-> FALSE, failedAt |-> FALSE]

(* updatePaymentStatus: the status that was asked for and the time it implies. *)
(* findByIdAndUpdate checks no enum.                                           *)
Bug_NoTimestamps(doc, s) == [doc EXCEPT !.status = s]
Bug_BodyReplaced(doc, s) == [Blank EXCEPT !.paymentId = doc.paymentId, !.status = s,
                                          !.processedAt = s = "completed", !.failedAt = s = "failed"]
Updated(doc, s) ==
    [doc EXCEPT !.status = s, !.processedAt = @ \/ s = "completed", !.failedAt = @ \/ s = "failed"]

Write(r) ==
    /\ pc[r] = "write"
    /\ \/ Doc(r) = None /\ Indexed(None) /\ Goto(r, "error") /\ UNCHANGED payments
       \/ /\ Doc(r) # None \/ ~Indexed(None)
          /\ payments' = [payments EXCEPT ![Id(r)] =
                Updated(IF Doc(r) = None THEN Blank ELSE Doc(r), call[r].status)]
          /\ Goto(r, "reread")
    /\ UNCHANGED <<known, jobs, call>>

(* The answer dereferences the document and its invoice and amount.            *)
Reread(r) ==
    /\ pc[r] = "reread"
    /\ Goto(r, IF Doc(r) # None /\ Doc(r).body THEN "ok" ELSE "error")
    /\ UNCHANGED <<payments, known, jobs, call>>

(* findByIdAndDelete, whatever the document has become.                        *)
DeleteDoc(r) ==
    /\ pc[r] = "remove"
    /\ payments' = [payments EXCEPT ![Id(r)] = None]
    /\ Goto(r, "ok")
    /\ UNCHANGED <<known, jobs, call>>

(* The process dies or an await rejects.                                       *)
Interrupt(r) ==
    /\ pc[r] \in Awaits
    /\ Goto(r, "lost")
    /\ UNCHANGED <<payments, known, jobs, call>>

Advance(r) == Insert(r) \/ Queue(r) \/ Fetch(r) \/ Find(r) \/ Write(r) \/ Reread(r) \/ DeleteDoc(r)

Next == \E r \in Requests : Arrive(r) \/ Advance(r) \/ Interrupt(r)
Spec == Init /\ [][Next]_vars

-----------------------------------------------------------------------------
(* Properties *)

Stored == {i \in Requests : payments[i] # None}

TypeOK ==
    /\ payments \in [Requests -> Documents \cup {None}]
    /\ known \subseteq Requests /\ jobs \subseteq PaymentIds
    /\ call \in [Requests -> AnyCall \cup {None}]
    /\ pc \in [Requests -> {"idle"} \cup Awaits \cup Replies]
    /\ \A r \in Requests : pc[r] \in {"write", "reread", "remove"} => Id(r) \in known

(* No two stored payments carry the same paymentId, and at most one carries    *)
(* none: the document an update brings back after a delete.                    *)
UniquePaymentIds == \A i, j \in Stored : payments[i].paymentId = payments[j].paymentId => i = j

(* A payment that still has its paymentId has everything an answer needs.      *)
IdentifiedRenders == \A i \in Stored : payments[i].paymentId # None => payments[i].body

(* A payment found completed or failed carries the time of it, whatever        *)
(* updates, deletes and upserts overlapped.                                    *)
StatusIsDated ==
    \A i \in Stored : /\ payments[i].status = "completed" => payments[i].processedAt
                      /\ payments[i].status = "failed" => payments[i].failedAt

(* What is stored can be shown, and its status has its time.                   *)
StoredIsComplete == IdentifiedRenders /\ StatusIsDated

(* Every payment that was stored is queued, or its creator still owes the job: *)
(* it is about to queue it or was interrupted.  No answer drops the job.       *)
StoredIsQueued == \A i \in known : call[i].paymentId \in jobs \/ pc[i] \in {"queue", "lost"}

(* A stored payment is complete and dated as its status says, and has its job    *)
(* unless the request that made it is still to queue it, or was interrupted.     *)
StoredIsSound == StoredIsComplete /\ StoredIsQueued

=============================================================================
