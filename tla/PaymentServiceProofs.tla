------------------------ MODULE PaymentServiceProofs ------------------------
(***************************************************************************)
(* Theorems about PaymentService for any sets of requests, payment ids and *)
(* statuses, with any number of requests in parallel.                      *)
(***************************************************************************)
EXTENDS PaymentService, TLAPS

(* What TypeOK needs to be inductive: a request that was made has a call; one on *)
(* the way to create a payment has chosen its id; what was stored was created.   *)
CallsAreMade == \A r \in Requests : pc[r] # "idle" =>
    /\ call[r] \in AnyCall
    /\ pc[r] \in {"insert", "queue"} => call[r].paymentId \in PaymentIds
    /\ pc[r] = "find" => Id(r) \in known
CreatorsAreKnown == \A i \in known : pc[i] # "idle"

PaymentType == TypeOK /\ CallsAreMade /\ CreatorsAreKnown

(* The documents a handler writes are documents of the schema; each is complete  *)
(* and dated if the one it was made from is.                                     *)
Complete(doc) == doc.paymentId # None => doc.body
Dated(doc) == /\ doc.status = "completed" => doc.processedAt
              /\ doc.status = "failed" => doc.failedAt
Sound(doc) == Complete(doc) /\ Dated(doc)

New(n) == [paymentId |-> n, body |-> TRUE, status |-> "pending", processedAt |-> FALSE, failedAt |-> FALSE]

LEMMA NewIsSound == ASSUME NEW n \in PaymentIds PROVE New(n) \in Documents /\ Sound(New(n)) /\ New(n).paymentId = n
BY PaymentServiceAssumption DEF New, Documents, Sound, Complete, Dated

LEMMA BlankIsSound == Blank \in Documents /\ Sound(Blank) /\ Blank.paymentId = None
BY PaymentServiceAssumption DEF Blank, Documents, Sound, Complete, Dated

LEMMA UpdatedIsSound ==
    ASSUME NEW doc \in Documents, NEW s \in Statuses
    PROVE  /\ Updated(doc, s) \in Documents
           /\ Updated(doc, s).paymentId = doc.paymentId
           /\ Sound(doc) => Sound(Updated(doc, s))
<1> DEFINE u == Updated(doc, s)
           processed == doc.processedAt \/ s = "completed"
           failed == doc.failedAt \/ s = "failed"
<1>1. u = [doc EXCEPT !.status = s, !.processedAt = processed, !.failedAt = failed]
  BY Zenon DEF Updated
<1>2. processed \in BOOLEAN /\ failed \in BOOLEAN
  OBVIOUS
<1>3. (s = "completed" => processed) /\ (s = "failed" => failed)
  OBVIOUS
<1> HIDE DEF processed, failed, u
<1>4. u \in Documents /\ u.paymentId = doc.paymentId
  BY <1>1, <1>2 DEF Documents
<1>5. u.body = doc.body /\ u.status = s /\ u.processedAt = processed /\ u.failedAt = failed
  BY <1>1 DEF Documents
<1>6. Complete(doc) => Complete(u)
  BY <1>4, <1>5 DEF Complete
<1>7. Dated(u)
  BY <1>3, <1>5 DEF Dated
<1> QED
  BY <1>4, <1>6, <1>7 DEF Sound, u

-----------------------------------------------------------------------------
(* Type correctness *)

LEMMA InitType == Init => PaymentType
BY DEF Init, PaymentType, TypeOK, CallsAreMade, CreatorsAreKnown

(* A step of a request that was made, which stores documents only and keeps the  *)
(* calls, is type correct if the request's next place is.                        *)
LEMMA StepType ==
    ASSUME PaymentType, NEW r \in Requests, pc[r] # "idle", call' = call,
           payments' \in [Requests -> Documents \cup {None}],
           known \subseteq known', known' \subseteq known \cup {r}, jobs' \subseteq PaymentIds,
           NEW place \in (Awaits \cup Replies) \ {"insert", "find"}, Goto(r, place),
           place = "queue" => call[r].paymentId \in PaymentIds,
           place \in {"write", "reread", "remove"} => Id(r) \in known
    PROVE  PaymentType'
<1>1. pc' = [pc EXCEPT ![r] = place] /\ pc \in [Requests -> {"idle"} \cup Awaits \cup Replies]
  BY DEF Goto, PaymentType, TypeOK
<1>2. pc' \in [Requests -> {"idle"} \cup Awaits \cup Replies] /\ place # "idle"
  BY <1>1 DEF Awaits, Replies
<1>3. \A q \in Requests : pc'[q] \in {"write", "reread", "remove"} => Id(q)' \in known'
  BY <1>1 DEF PaymentType, TypeOK, Id
<1>4. TypeOK'
  BY <1>2, <1>3 DEF PaymentType, TypeOK
<1>5. CallsAreMade'
  BY <1>1, <1>2 DEF PaymentType, CallsAreMade, Id
<1>6. CreatorsAreKnown'
  BY <1>1, <1>2 DEF PaymentType, TypeOK, CreatorsAreKnown
<1> QED
  BY <1>4, <1>5, <1>6 DEF PaymentType

LEMMA IdType ==
    ASSUME PaymentType, NEW r \in Requests, pc[r] # "idle"
    PROVE  Id(r) \in Requests /\ call[r].status \in Statuses
BY DEF PaymentType, CallsAreMade, AnyCall, Id

(* Only these steps write a document: an insert, a status update, a delete. *)
LEMMA Writers ==
    ASSUME [Next]_vars, payments' # payments
    PROVE  \E r \in Requests : Insert(r) \/ Write(r) \/ DeleteDoc(r)
BY DEF Next, Advance, Arrive, Queue, Fetch, Find, Reread, Interrupt, vars

LEMMA InsertStores ==
    ASSUME PaymentType, NEW r \in Requests, Insert(r), payments' # payments
    PROVE  /\ call[r].paymentId \in PaymentIds /\ ~Indexed(call[r].paymentId)
           /\ payments' = [payments EXCEPT ![r] = New(call[r].paymentId)]
BY DEF Insert, New, PaymentType, CallsAreMade

LEMMA WriteStores ==
    ASSUME PaymentType, NEW r \in Requests, Write(r), payments' # payments
    PROVE  \E doc \in Documents :
               /\ (doc = Doc(r) /\ Doc(r) # None) \/ (doc = Blank /\ ~Indexed(None))
               /\ Updated(doc, call[r].status) \in Documents
               /\ payments' = [payments EXCEPT ![Id(r)] = Updated(doc, call[r].status)]
<1> DEFINE doc == IF Doc(r) = None THEN Blank ELSE Doc(r)
<1>1. /\ Doc(r) # None \/ ~Indexed(None)
      /\ payments' = [payments EXCEPT ![Id(r)] = Updated(doc, call[r].status)]
  BY DEF Write
<1>2. Id(r) \in Requests /\ call[r].status \in Statuses
  BY IdType DEF Write
<1>3. doc \in Documents
  BY <1>2, BlankIsSound DEF PaymentType, TypeOK, Doc
<1>4. Updated(doc, call[r].status) \in Documents
  BY <1>2, <1>3, UpdatedIsSound
<1> QED
  BY <1>1, <1>3, <1>4

LEMMA NextType == PaymentType /\ [Next]_vars => PaymentType'
<1> SUFFICES ASSUME PaymentType, [Next]_vars PROVE PaymentType'
  OBVIOUS
<1> USE DEF Awaits, Replies
<1>1. ASSUME NEW r \in Requests, Arrive(r) PROVE PaymentType'
  <2>1. PICK c \in AnyCall, place \in {"insert", "find"} :
           /\ call' = [call EXCEPT ![r] = c] /\ pc' = [pc EXCEPT ![r] = place]
           /\ place = "insert" => c.paymentId \in PaymentIds
           /\ place = "find" => c.id \in known
    <3>1. CASE \E n \in PaymentIds, valid \in BOOLEAN :
               call' = [call EXCEPT ![r] = Call("create", r, n, "pending", valid)] /\ Goto(r, "insert")
      <4>1. PICK n \in PaymentIds, valid \in BOOLEAN :
               call' = [call EXCEPT ![r] = Call("create", r, n, "pending", valid)] /\ Goto(r, "insert")
        BY <3>1
      <4>2. Call("create", r, n, "pending", valid) \in AnyCall
            /\ Call("create", r, n, "pending", valid).paymentId = n
        BY PaymentServiceAssumption DEF Call, AnyCall
      <4> QED
        BY <4>1, <4>2 DEF Goto
    <3>2. CASE \E i \in known, s \in Statuses, op \in {"update", "delete"} :
               call' = [call EXCEPT ![r] = Call(op, i, None, s, TRUE)] /\ Goto(r, "find")
      <4>1. PICK i \in known, s \in Statuses, op \in {"update", "delete"} :
               call' = [call EXCEPT ![r] = Call(op, i, None, s, TRUE)] /\ Goto(r, "find")
        BY <3>2
      <4>2. Call(op, i, None, s, TRUE) \in AnyCall /\ Call(op, i, None, s, TRUE).id = i
        BY DEF Call, AnyCall, PaymentType, TypeOK
      <4> QED
        BY <4>1, <4>2 DEF Goto
    <3> QED
      BY <1>1, <3>1, <3>2 DEF Arrive
  <2>2. UNCHANGED <<payments, known, jobs>> /\ pc[r] = "idle"
    BY <1>1 DEF Arrive
  <2>3. TypeOK'
    <3>1. /\ call' \in [Requests -> AnyCall \cup {None}]
          /\ pc' \in [Requests -> {"idle"} \cup Awaits \cup Replies]
      BY <2>1 DEF PaymentType, TypeOK
    <3>2. \A q \in Requests : pc'[q] \in {"write", "reread", "remove"} => Id(q)' \in known'
      BY <2>1, <2>2 DEF PaymentType, TypeOK, Id
    <3> QED
      BY <2>2, <3>1, <3>2 DEF PaymentType, TypeOK
  <2>4. CallsAreMade'
    BY <2>1, <2>2 DEF PaymentType, TypeOK, CallsAreMade, Id
  <2>5. CreatorsAreKnown'
    BY <2>1, <2>2 DEF PaymentType, TypeOK, CreatorsAreKnown
  <2> QED
    BY <2>3, <2>4, <2>5 DEF PaymentType
<1>2. ASSUME NEW r \in Requests, Insert(r) PROVE PaymentType'
  <2>1. pc[r] = "insert" /\ call' = call /\ jobs' = jobs
    BY <1>2 DEF Insert
  <2>2. call[r].paymentId \in PaymentIds
    BY <2>1 DEF PaymentType, CallsAreMade
  <2>3. payments' \in [Requests -> Documents \cup {None}]
    BY <1>2, <2>2, InsertStores, NewIsSound DEF PaymentType, TypeOK
  <2>4. known \subseteq known' /\ known' \subseteq known \cup {r}
    BY <1>2 DEF Insert
  <2>5. \E place \in {"error", "queue"} : Goto(r, place)
    BY <1>2 DEF Insert
  <2> QED
    BY <2>1, <2>2, <2>3, <2>4, <2>5, StepType DEF PaymentType, TypeOK
<1>3. ASSUME NEW r \in Requests, Queue(r) PROVE PaymentType'
  <2>1. pc[r] = "queue" /\ Goto(r, "fetch") /\ call' = call /\ payments' = payments /\ known' = known
    BY <1>3 DEF Queue
  <2>2. jobs' \subseteq PaymentIds
    BY <1>3, <2>1 DEF Queue, WithJob, PaymentType, TypeOK, CallsAreMade
  <2> QED
    BY <2>1, <2>2, StepType DEF PaymentType, TypeOK
<1>4. ASSUME NEW r \in Requests, Fetch(r) \/ Reread(r) \/ Interrupt(r) PROVE PaymentType'
  <2>1. \E place \in {"ok", "error", "lost"} : Goto(r, place)
    BY <1>4 DEF Fetch, Reread, Interrupt
  <2>2. pc[r] # "idle" /\ UNCHANGED <<payments, known, jobs, call>>
    BY <1>4 DEF Fetch, Reread, Interrupt
  <2> QED
    BY <2>1, <2>2, StepType DEF PaymentType, TypeOK
<1>5. ASSUME NEW r \in Requests, Find(r) PROVE PaymentType'
  <2>1. pc[r] = "find" /\ UNCHANGED <<payments, known, jobs, call>>
    BY <1>5 DEF Find
  <2>2. \E place \in {"notFound", "badRequest", "write", "remove"} : Goto(r, place)
    BY <1>5 DEF Find
  <2>3. Id(r) \in known
    BY <2>1 DEF PaymentType, CallsAreMade
  <2> QED
    BY <2>1, <2>2, <2>3, StepType DEF PaymentType, TypeOK
<1>6. ASSUME NEW r \in Requests, Write(r) PROVE PaymentType'
  <2>1. pc[r] = "write" /\ UNCHANGED <<known, jobs, call>>
    BY <1>6 DEF Write
  <2>2. Id(r) \in known
    BY <2>1 DEF PaymentType, TypeOK
  <2>3. payments' \in [Requests -> Documents \cup {None}]
    <3>1. CASE payments' = payments
      BY <3>1 DEF PaymentType, TypeOK
    <3>2. CASE payments' # payments
      BY <1>6, <3>2, WriteStores DEF PaymentType, TypeOK
    <3> QED
      BY <3>1, <3>2
  <2>4. \E place \in {"error", "reread"} : Goto(r, place)
    BY <1>6 DEF Write
  <2> QED
    BY <2>1, <2>2, <2>3, <2>4, StepType DEF PaymentType, TypeOK
<1>7. ASSUME NEW r \in Requests, DeleteDoc(r) PROVE PaymentType'
  <2>1. pc[r] = "remove" /\ Goto(r, "ok") /\ UNCHANGED <<known, jobs, call>>
    BY <1>7 DEF DeleteDoc
  <2>2. payments' \in [Requests -> Documents \cup {None}]
    BY <1>7 DEF DeleteDoc, PaymentType, TypeOK
  <2> QED
    BY <2>1, <2>2, StepType DEF PaymentType, TypeOK
<1>8. CASE UNCHANGED vars
  BY <1>8 DEF vars, PaymentType, TypeOK, CallsAreMade, CreatorsAreKnown, Id
<1> QED
  BY <1>1, <1>2, <1>3, <1>4, <1>5, <1>6, <1>7, <1>8 DEF Next, Advance

LEMMA AlwaysTyped == Spec => []PaymentType
BY InitType, NextType, PTL DEF Spec

(* TypeOK is inductive with CallsAreMade and CreatorsAreKnown. *)
THEOREM TypeCorrect == Spec => []TypeOK
<1>1. PaymentType => TypeOK
  BY DEF PaymentType
<1> QED
  BY <1>1, AlwaysTyped, PTL

-----------------------------------------------------------------------------
(* Unique payment ids: an insert asks the index, and an upsert writes none.       *)
LEMMA UniqueStep ==
    ASSUME PaymentType, UniquePaymentIds, [Next]_vars
    PROVE  UniquePaymentIds'
<1>1. CASE payments' = payments
  BY <1>1 DEF UniquePaymentIds, Stored
<1>2. ASSUME NEW r \in Requests, Insert(r), payments' # payments PROVE UniquePaymentIds'
  <2>1. /\ call[r].paymentId \in PaymentIds /\ ~Indexed(call[r].paymentId)
        /\ payments' = [payments EXCEPT ![r] = New(call[r].paymentId)]
    BY <1>2, InsertStores
  <2>2. \A i \in Requests : payments[i] # None => payments[i].paymentId # call[r].paymentId
    BY <2>1 DEF Indexed, WithId
  <2> QED
    BY <2>1, <2>2, NewIsSound DEF UniquePaymentIds, Stored, PaymentType, TypeOK
<1>3. ASSUME NEW r \in Requests, Write(r), payments' # payments PROVE UniquePaymentIds'
  <2>1. Id(r) \in Requests /\ call[r].status \in Statuses
    BY <1>3, IdType DEF Write
  <2>2. PICK doc \in Documents :
            /\ (doc = Doc(r) /\ Doc(r) # None) \/ (doc = Blank /\ ~Indexed(None))
            /\ payments' = [payments EXCEPT ![Id(r)] = Updated(doc, call[r].status)]
    BY <1>3, WriteStores
  <2>3. Updated(doc, call[r].status).paymentId = doc.paymentId
    BY <2>1, UpdatedIsSound
  <2>4. \A i \in Requests : payments[i] # None /\ payments[i].paymentId = doc.paymentId => i = Id(r)
    <3>1. CASE doc = Doc(r) /\ Doc(r) # None
      BY <2>1, <3>1 DEF UniquePaymentIds, Stored, Doc
    <3>2. CASE doc = Blank /\ ~Indexed(None)
      BY <3>2, BlankIsSound DEF Indexed, WithId
    <3> QED
      BY <2>2, <3>1, <3>2
  <2> QED
    BY <2>1, <2>2, <2>3, <2>4 DEF UniquePaymentIds, Stored, PaymentType, TypeOK
<1>4. ASSUME NEW r \in Requests, DeleteDoc(r) PROVE UniquePaymentIds'
  BY <1>4 DEF DeleteDoc, UniquePaymentIds, Stored, PaymentType, TypeOK
<1> QED
  BY <1>1, <1>2, <1>3, <1>4, Writers

(* No two stored payments share a paymentId, however creates overlap updates and *)
(* deletes: the controller looks for none before it saves.                       *)
THEOREM IdsAreUnique == Spec => []UniquePaymentIds
<1>1. Init => UniquePaymentIds
  BY DEF Init, UniquePaymentIds, Stored
<1>2. PaymentType /\ UniquePaymentIds /\ [Next]_vars => UniquePaymentIds'
  BY UniqueStep
<1> QED
  BY <1>1, <1>2, AlwaysTyped, PTL DEF Spec

-----------------------------------------------------------------------------
(* Every write starts from a sound document, of the store or of the schema's     *)
(* defaults, and makes a sound one of it.                                        *)
LEMMA CompleteStep ==
    ASSUME PaymentType, StoredIsComplete, [Next]_vars
    PROVE  StoredIsComplete'
<1>1. \A i \in Requests : payments[i] # None => Sound(payments[i])
  BY DEF StoredIsComplete, IdentifiedRenders, StatusIsDated, Stored, Sound, Complete, Dated
<1> SUFFICES \A i \in Requests : payments'[i] # None => Sound(payments'[i])
  BY DEF StoredIsComplete, IdentifiedRenders, StatusIsDated, Stored, Sound, Complete, Dated
<1>2. CASE payments' = payments
  BY <1>1, <1>2
<1>3. ASSUME NEW r \in Requests, Insert(r), payments' # payments, NEW i \in Requests, payments'[i] # None
      PROVE  Sound(payments'[i])
  BY <1>1, <1>3, InsertStores, NewIsSound DEF PaymentType, TypeOK
<1>4. ASSUME NEW r \in Requests, Write(r), payments' # payments, NEW i \in Requests, payments'[i] # None
      PROVE  Sound(payments'[i])
  <2>1. Id(r) \in Requests /\ call[r].status \in Statuses
    BY <1>4, IdType DEF Write
  <2>2. PICK doc \in Documents :
            /\ (doc = Doc(r) /\ Doc(r) # None) \/ (doc = Blank /\ ~Indexed(None))
            /\ payments' = [payments EXCEPT ![Id(r)] = Updated(doc, call[r].status)]
    BY <1>4, WriteStores
  <2>3. Sound(doc)
    BY <1>1, <2>1, <2>2, BlankIsSound DEF Doc
  <2>4. Sound(Updated(doc, call[r].status))
    BY <2>1, <2>3, UpdatedIsSound
  <2> QED
    BY <1>1, <1>4, <2>1, <2>2, <2>4 DEF PaymentType, TypeOK
<1>5. ASSUME NEW r \in Requests, DeleteDoc(r), NEW i \in Requests, payments'[i] # None
      PROVE  Sound(payments'[i])
  BY <1>1, <1>5 DEF DeleteDoc, PaymentType, TypeOK
<1> QED
  BY <1>2, <1>3, <1>4, <1>5, Writers

(* Only Insert adds to known, and it leaves its request at the queue; only Queue *)
(* and Interrupt leave that place.                                               *)
LEMMA QueuedStep ==
    ASSUME PaymentType, StoredIsQueued, [Next]_vars
    PROVE  StoredIsQueued'
<1> SUFFICES ASSUME NEW i \in known'
             PROVE  call'[i].paymentId \in jobs' \/ pc'[i] \in {"queue", "lost"}
  BY DEF StoredIsQueued
<1>1. i \in known => pc[i] # "idle" /\ i \in Requests
  BY DEF PaymentType, TypeOK, CreatorsAreKnown
<1>2. ASSUME NEW r \in Requests, Arrive(r) PROVE call'[i] = call[i] /\ pc'[i] = pc[i] /\ i \in known /\ jobs' = jobs
  BY <1>1, <1>2 DEF Arrive, Goto, PaymentType, TypeOK
<1>3. ASSUME NEW r \in Requests, Insert(r)
      PROVE  call'[i].paymentId \in jobs' \/ pc'[i] \in {"queue", "lost"}
  <2>1. CASE i = r
    BY <1>3, <2>1 DEF Insert, Goto, PaymentType, TypeOK, StoredIsQueued
  <2>2. CASE i # r
    BY <1>3, <2>2 DEF Insert, Goto, PaymentType, TypeOK, StoredIsQueued
  <2> QED
    BY <2>1, <2>2
<1>4. ASSUME NEW r \in Requests, Queue(r)
      PROVE  call'[i].paymentId \in jobs' \/ pc'[i] \in {"queue", "lost"}
  BY <1>4 DEF Queue, WithJob, Goto, PaymentType, TypeOK, StoredIsQueued
<1>5. ASSUME NEW r \in Requests, Fetch(r) \/ Find(r) \/ Write(r) \/ Reread(r) \/ DeleteDoc(r)
      PROVE  call' = call /\ jobs' = jobs /\ i \in known /\ (pc[i] = "queue" => pc'[i] = pc[i])
                 /\ (pc[i] = "lost" => pc'[i] = pc[i])
  BY <1>5 DEF Fetch, Find, Write, Reread, DeleteDoc, Goto, PaymentType, TypeOK
<1>6. ASSUME NEW r \in Requests, Interrupt(r)
      PROVE  call' = call /\ jobs' = jobs /\ i \in known /\ (pc[i] \in {"queue", "lost"} => pc'[i] \in {"queue", "lost"})
  BY <1>6 DEF Interrupt, Goto, PaymentType, TypeOK
<1>7. CASE UNCHANGED vars
  BY <1>7 DEF vars, StoredIsQueued
<1> QED
  BY <1>2, <1>3, <1>4, <1>5, <1>6, <1>7 DEF Next, Advance, StoredIsQueued

(* What is stored is complete and dated, and is queued unless its creator is     *)
(* still to queue it or was interrupted: between save and addJob nothing else    *)
(* can drop the job.                                                             *)
THEOREM StoredStaysSound == Spec => []StoredIsSound
<1>1. Init => StoredIsComplete /\ StoredIsQueued
  BY DEF Init, StoredIsComplete, IdentifiedRenders, StatusIsDated, Stored, StoredIsQueued
<1>2. PaymentType /\ StoredIsComplete /\ StoredIsQueued /\ [Next]_vars => StoredIsComplete' /\ StoredIsQueued'
  BY CompleteStep, QueuedStep
<1>3. StoredIsComplete /\ StoredIsQueued => StoredIsSound
  BY DEF StoredIsSound
<1> QED
  BY <1>1, <1>2, <1>3, AlwaysTyped, PTL DEF Spec

=============================================================================
