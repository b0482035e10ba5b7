------------------------ MODULE InvoiceServiceProofs ------------------------
(***************************************************************************)
(* Theorems about InvoiceService for any sets of requests, numbers and     *)
(* line-item lists: what holds with requests in parallel, then (with       *)
(* InvoiceImplements) what holds with one request at a time.               *)
(***************************************************************************)
EXTENDS InvoiceImplements, TLAPS

(* Every call a client makes is one of Calls(r, Requests), known being a set of requests. *)
LEMMA CallsMonotonic ==
    ASSUME NEW r, NEW ids, ids \subseteq Requests
    PROVE  Calls(r, ids) \subseteq Calls(r, Requests)
BY DEF Calls, UpdateCalls, OtherCalls

(* The data of a write is a document of the schema. *)
LEMMA WithDataType ==
    ASSUME NEW r \in Requests, NEW c \in Calls(r, Requests), NEW doc \in Documents
    PROVE  WithData(doc, c) \in Documents
<1>1. c.lines \in Lines \cup {None} /\ c.customer \in BOOLEAN
  BY DEF Calls, CreateCalls, UpdateCalls, OtherCalls
<1>2. c.lines \in Lines => Subtotal(c.lines) \in Totals
  BY DEF Totals
<1>3. CustomerAfter(doc, c) \in BOOLEAN /\ LinesAfter(doc, c) \in Lines \cup {None}
  BY <1>1 DEF CustomerAfter, LinesAfter, Documents
<1> QED
  BY <1>1, <1>2, <1>3 DEF WithData, Edited, Documents, Statuses

LEMMA BlankType == Blank \in Documents
BY DEF Blank, Documents, Statuses

LEMMA NewDocumentType ==
    ASSUME NEW r \in Requests, NEW c \in Calls(r, Requests), c.op = "create"
    PROVE  NewDocument(c) \in Documents /\ c.id = r
<1>1. c \in CreateCalls(r)
  BY DEF Calls, UpdateCalls, OtherCalls
<1>2. c.number \in Numbers /\ c.lines \in Lines /\ c.id = r
  BY <1>1 DEF CreateCalls
<1> QED
  BY <1>2 DEF NewDocument, Documents, Statuses, Totals

-----------------------------------------------------------------------------
(* Type correctness *)

LEMMA InitType == Init => TypeOK
BY DEF Init, TypeOK

LEMMA CallType ==
    ASSUME TypeOK, NEW r \in Requests, pc[r] # "idle"
    PROVE  /\ call[r] \in Calls(r, Requests)
           /\ Id(r) \in Requests
           /\ Op(r) \in {"create", "update", "send", "delete", "pdf"}
           /\ Op(r) = "create" => Id(r) = r /\ call[r].number \in Numbers
           /\ call[r].lines \in Lines \cup {None}
<1>1. call[r] \in Calls(r, Requests)
  BY DEF TypeOK
<1> QED
  BY <1>1 DEF Op, Id, Calls, CreateCalls, UpdateCalls, OtherCalls

(* A step that moves r along its handler and stores only documents is type correct. *)
LEMMA StepType ==
    ASSUME TypeOK, NEW r \in Requests, pc[r] # "idle", call' = call,
           invoices' \in [Requests -> Documents \cup {None}],
           known' \subseteq Requests,
           jobs' \subseteq [by : Requests, name : JobNames, invoiceId : Requests],
           NEW place \in Path(Op(r)) \cup Replies, Goto(r, place)
    PROVE  TypeOK'
<1>1. Path(Op(r)) \subseteq Awaits
  <2>1. Op(r) \in {"create", "update", "send", "delete", "pdf"}
    BY CallType
  <2> QED
    BY <2>1 DEF Path, Awaits
<1>2. pc' \in [Requests -> {"idle"} \cup Awaits \cup Replies]
  BY <1>1 DEF TypeOK, Goto
<1>3. ASSUME NEW q \in Requests, pc'[q] # "idle"
      PROVE  call'[q] \in Calls(q, Requests) /\ pc'[q] \in Path(Op(q)') \cup Replies
  <2>1. Op(q)' = Op(q)
    BY DEF Op
  <2>2. CASE q = r
    BY <2>1, <2>2, CallType DEF TypeOK, Goto
  <2>3. CASE q # r
    BY <2>1, <2>3, <1>3 DEF TypeOK, Goto
  <2> QED
    BY <2>2, <2>3
<1> QED
  BY <1>2, <1>3 DEF TypeOK

LEMMA NextType == TypeOK /\ [Next]_vars => TypeOK'
<1> SUFFICES ASSUME TypeOK, [Next]_vars
             PROVE  TypeOK'
  OBVIOUS
<1> USE DEF Replies
<1>1. ASSUME NEW r \in Requests, Arrive(r)
      PROVE  TypeOK'
  <2>1. PICK c \in Calls(r, known) :
           /\ call' = [call EXCEPT ![r] = c]
           /\ Goto(r, IF c.op = "create" THEN "check" ELSE "find")
    BY <1>1 DEF Arrive
  <2>2. c \in Calls(r, Requests)
    BY CallsMonotonic DEF TypeOK
  <2>3. c.op \in {"create", "update", "send", "delete", "pdf"}
    BY <2>2 DEF Calls, CreateCalls, UpdateCalls, OtherCalls
  <2> DEFINE place == IF c.op = "create" THEN "check" ELSE "find"
  <2>4. place \in Path(c.op) /\ place \in Awaits
    BY <2>3 DEF Path, Awaits
  <2>5. pc' = [pc EXCEPT ![r] = place]
    BY <2>1 DEF Goto
  <2> HIDE DEF place
  <2>6. \A q \in Requests : pc'[q] # "idle" =>
            call'[q] \in Calls(q, Requests) /\ pc'[q] \in Path(call'[q].op) \cup Replies
    <3> TAKE q \in Requests
    <3>1. CASE q = r
      BY <3>1, <2>1, <2>2, <2>4, <2>5 DEF TypeOK
    <3>2. CASE q # r
      BY <3>2, <2>1, <2>5 DEF TypeOK, Op
    <3> QED
      BY <3>1, <3>2
  <2>7. call' \in [Requests -> AnyCall \cup {None}]
    BY <2>1, <2>2 DEF TypeOK, AnyCall
  <2>8. pc' \in [Requests -> {"idle"} \cup Awaits \cup Replies]
    BY <2>4, <2>5 DEF TypeOK
  <2> QED
    BY <1>1, <2>6, <2>7, <2>8 DEF Arrive, TypeOK, Op
<1>2. ASSUME NEW r \in Requests, CheckNumber(r)
      PROVE  TypeOK'
  BY <1>2, StepType, CallType DEF CheckNumber, TypeOK, Path
<1>3. ASSUME NEW r \in Requests, Insert(r)
      PROVE  TypeOK'
  <2>1. pc[r] = "insert" /\ pc[r] # "idle"
    BY <1>3 DEF Insert
  <2>2. Op(r) = "create"
    BY <2>1, CallType DEF TypeOK, Path
  <2>3. NewDocument(call[r]) \in Documents /\ Id(r) \in Requests
    BY <2>1, <2>2, CallType, NewDocumentType DEF Op
  <2>4. invoices' \in [Requests -> Documents \cup {None}] /\ known' \subseteq Requests
    BY <1>3, <2>3 DEF Insert, TypeOK
  <2>5. \E place \in {"badRequest", "fetch"} : Goto(r, place)
    BY <1>3 DEF Insert
  <2>6. call' = call /\ jobs' = jobs
    BY <1>3 DEF Insert
  <2>7. {"badRequest", "fetch"} \subseteq Path(Op(r)) \cup Replies
    BY <2>2 DEF Path
  <2> QED
    BY <2>1, <2>4, <2>5, <2>6, <2>7, StepType DEF TypeOK
<1>4. ASSUME NEW r \in Requests, Find(r)
      PROVE  TypeOK'
  BY <1>4, StepType, CallType DEF Find, AfterFind, TypeOK, Path
<1>5. ASSUME NEW r \in Requests, Write(r)
      PROVE  TypeOK'
  <2>1. pc[r] = "write" /\ pc[r] # "idle"
    BY <1>5 DEF Write
  <2>2. Op(r) \in {"update", "send"} /\ Id(r) \in Requests /\ call[r] \in Calls(r, Requests)
    BY <2>1, CallType DEF TypeOK, Path
  <2> DEFINE base == IF Doc(r) = None THEN Blank ELSE Doc(r)
  <2>3. base \in Documents
    BY <2>2, BlankType DEF Doc, TypeOK
  <2>4. WithData(base, call[r]) \in Documents
    BY <2>2, <2>3, WithDataType
  <2>5. invoices' = invoices \/ invoices' = [invoices EXCEPT ![Id(r)] = WithData(base, call[r])]
    BY <1>5 DEF Write
  <2>6. invoices' \in [Requests -> Documents \cup {None}]
    BY <2>2, <2>4, <2>5 DEF TypeOK
  <2>7. \E place \in {"error", AfterWrite(Op(r))} : Goto(r, place)
    BY <1>5 DEF Write
  <2>8. {"error", AfterWrite(Op(r))} \subseteq Path(Op(r)) \cup Replies
    BY <2>2 DEF AfterWrite, Path
  <2>9. call' = call /\ known' = known /\ jobs' = jobs
    BY <1>5 DEF Write
  <2> QED
    BY <2>1, <2>6, <2>7, <2>8, <2>9, StepType DEF TypeOK
<1>6. ASSUME NEW r \in Requests, DeleteDoc(r)
      PROVE  TypeOK'
  BY <1>6, StepType, CallType DEF DeleteDoc, TypeOK, Path
<1>7. ASSUME NEW r \in Requests, QueueEmail(r)
      PROVE  TypeOK'
  <2>1. pc[r] = "email" /\ pc[r] # "idle"
    BY <1>7 DEF QueueEmail
  <2>2. Op(r) = "send" /\ Id(r) \in Requests
    BY <2>1, CallType DEF TypeOK, Path
  <2>3. jobs' \subseteq [by : Requests, name : JobNames, invoiceId : Requests]
    BY <1>7, <2>2 DEF QueueEmail, Queued, JobNames, TypeOK
  <2>4. "pdf" \in Path(Op(r)) \cup Replies
    BY <2>2 DEF Path
  <2> QED
    BY <1>7, <2>1, <2>3, <2>4, StepType DEF QueueEmail, TypeOK
<1>8. ASSUME NEW r \in Requests, QueuePdf(r)
      PROVE  TypeOK'
  <2>1. pc[r] = "pdf" /\ pc[r] # "idle"
    BY <1>8 DEF QueuePdf
  <2>2. Op(r) \in {"send", "pdf"} /\ Id(r) \in Requests
    BY <2>1, CallType DEF TypeOK, Path
  <2>3. jobs' \subseteq [by : Requests, name : JobNames, invoiceId : Requests]
    BY <1>8, <2>2 DEF QueuePdf, Queued, JobNames, TypeOK
  <2>4. (IF Op(r) = "send" THEN "fetch" ELSE "ok") \in Path(Op(r)) \cup Replies
    BY <2>2 DEF Path
  <2> QED
    BY <1>8, <2>1, <2>3, <2>4, StepType DEF QueuePdf, TypeOK
<1>9. ASSUME NEW r \in Requests, Fetch(r)
      PROVE  TypeOK'
  BY <1>9, StepType, CallType DEF Fetch, TypeOK, Path
<1>10. ASSUME NEW r \in Requests, Interrupt(r)
       PROVE  TypeOK'
  BY <1>10, StepType, CallType DEF Interrupt, InFlight, Awaits, TypeOK
<1>11. CASE UNCHANGED vars
  BY <1>11 DEF vars, TypeOK, Op
<1> QED
  BY <1>1, <1>2, <1>3, <1>4, <1>5, <1>6, <1>7, <1>8, <1>9, <1>10, <1>11
     DEF Next, Advance

(* TypeOK is an invariant of the service, whatever the requests. *)
THEOREM TypeCorrect == Spec => []TypeOK
BY InitType, NextType, PTL DEF Spec

-----------------------------------------------------------------------------
(* The collection *)

(* The three ways a step changes the collection: it inserts a document under an *)
(* unused number, rewrites or resurrects one, or deletes one.                   *)
LEMMA StoreStep ==
    ASSUME TypeOK, NEW r \in Requests, Arrive(r) \/ Advance(r) \/ Interrupt(r)
    PROVE  \/ invoices' = invoices
           \/ /\ pc[r] = "insert" /\ Op(r) = "create" /\ Id(r) = r /\ ~Indexed(call[r].number)
              /\ invoices' = [invoices EXCEPT ![r] = NewDocument(call[r])]
           \/ /\ pc[r] = "write" /\ Op(r) # "create" /\ Id(r) \in Requests
              /\ call[r] \in Calls(r, Requests)
              /\ pc' = [pc EXCEPT ![r] = AfterWrite(Op(r))] /\ call' = call
              /\ \/ Doc(r) \in Documents
                    /\ invoices' = [invoices EXCEPT ![Id(r)] = WithData(Doc(r), call[r])]
                 \/ Doc(r) = None /\ ~Indexed(None)
                    /\ invoices' = [invoices EXCEPT ![Id(r)] = WithData(Blank, call[r])]
           \/ /\ pc[r] = "remove" /\ Op(r) = "delete" /\ Id(r) \in Requests
              /\ invoices' = [invoices EXCEPT ![Id(r)] = None]
              /\ pc' = [pc EXCEPT ![r] = "ok"] /\ call' = call
<1>1. CASE Insert(r)
  <2>1. pc[r] = "insert" /\ Op(r) = "create" /\ Id(r) = r
    BY <1>1, CallType DEF Insert, TypeOK, Path, Replies
  <2> QED
    BY <1>1, <2>1 DEF Insert
<1>2. CASE Write(r)
  <2>1. /\ pc[r] = "write" /\ Op(r) # "create" /\ Id(r) \in Requests
        /\ call[r] \in Calls(r, Requests)
    BY <1>2, CallType DEF Write, TypeOK, Path, Replies
  <2>2. Doc(r) = None \/ Doc(r) \in Documents
    BY <2>1 DEF Doc, TypeOK
  <2> QED
    BY <1>2, <2>1, <2>2, NoneAssumption DEF Write, Goto
<1>3. CASE DeleteDoc(r)
  <2>1. pc[r] = "remove" /\ Op(r) = "delete" /\ Id(r) \in Requests
    BY <1>3, CallType DEF DeleteDoc, TypeOK, Path, Replies
  <2> QED
    BY <1>3, <2>1 DEF DeleteDoc, Goto
<1> QED
  BY <1>1, <1>2, <1>3
     DEF Advance, Arrive, CheckNumber, Find, QueueEmail, QueuePdf, Fetch, Interrupt

LEMMA NumberKept ==
    ASSUME NEW doc \in Documents, NEW c
    PROVE  WithData(doc, c).number = doc.number
BY DEF WithData, Edited, Documents

(* The documents of one collection, taken one by one, with what was nulled. *)
Sound(doc, linesNulled, customerNulled) ==
    /\ IF doc.lines = None THEN doc.total = None \/ linesNulled ELSE doc.total = Subtotal(doc.lines)
    /\ doc.number # None => doc.total # None /\ (doc.customer \/ customerNulled)

SoundStore ==
    \A i \in Requests : invoices[i] # None =>
        Sound(invoices[i], Cleared(i, "lines"), Cleared(i, "customer"))

LEMMA SoundImplies == SoundStore => StoredIsSound
BY DEF StoredIsSound, SoundStore, Sound, TotalsMatchLines, NumberedRenders, Stored

(* What an update nulled stays nulled by it. *)
LEMMA ClearedStays ==
    ASSUME TypeOK, [Next]_vars, NEW i \in Requests, NEW field, Cleared(i, field)
    PROVE  Cleared(i, field)'
<1> DEFINE Past == {"fetch", "ok", "error", "lost"}
<1>1. PICK u \in Requests : pc[u] \in Past /\ Op(u) = "update" /\ Id(u) = i /\ field \in call[u].nulls
  BY DEF Cleared
<1>2. ASSUME NEW r \in Requests, Arrive(r) \/ Advance(r) \/ Interrupt(r)
      PROVE  pc'[u] \in Past /\ call'[u] = call[u]
  <2>1. CASE r # u
    BY <1>1, <1>2, <2>1 DEF TypeOK, Arrive, Advance, CheckNumber, Insert, Find, Write, DeleteDoc,
                            QueueEmail, QueuePdf, Fetch, Interrupt, Goto
  <2>2. CASE r = u
    <3>1. Fetch(u) \/ Interrupt(u)
      BY <1>1, <1>2, <2>2 DEF Arrive, Advance, CheckNumber, Insert, Find, Write, DeleteDoc,
                              QueueEmail, QueuePdf
    <3>2. \E place \in Past : pc' = [pc EXCEPT ![u] = place]
      BY <1>1, <3>1 DEF Fetch, Interrupt, Goto
    <3> QED
      BY <3>1, <3>2 DEF Fetch, Interrupt, TypeOK
  <2> QED
    BY <2>1, <2>2
<1>3. pc'[u] \in Past /\ call'[u] = call[u]
  BY <1>1, <1>2 DEF Next, vars
<1> QED
  BY <1>1, <1>3 DEF Cleared, Op, Id

(* A write keeps a document sound that was, if what it nulls is counted. *)
LEMMA WithDataSound ==
    ASSUME NEW r \in Requests, NEW c \in Calls(r, Requests), NEW doc \in Documents,
           NEW l, NEW k, NEW m \in BOOLEAN, NEW n \in BOOLEAN, Sound(doc, l, k), l => m, k => n,
           c.op = "update" => ("lines" \in c.nulls => m) /\ ("customer" \in c.nulls => n)
    PROVE  Sound(WithData(doc, c), m, n)
<1>1. /\ c.lines \in Lines \cup {None} /\ c.customer \in BOOLEAN
      /\ c.op # "update" => c.nulls = {}
      /\ "lines" \in c.nulls => c.lines = None
  BY DEF Calls, CreateCalls, UpdateCalls, OtherCalls
<1>2. c.lines # None => Subtotal(c.lines) # None
  BY <1>1, NoneAssumption DEF Totals
<1>3. CASE c.op = "send"
  BY <1>3 DEF WithData, Documents, Sound
<1>4. CASE c.op # "send"
  <2> DEFINE new == WithData(doc, c)
  <2>1. /\ new.number = doc.number
        /\ new.customer = CustomerAfter(doc, c) /\ new.lines = LinesAfter(doc, c)
        /\ new.total = IF c.lines = None THEN doc.total ELSE Subtotal(c.lines)
    BY <1>4 DEF WithData, Edited, Documents
  <2> HIDE DEF new
  <2>2. IF new.lines = None THEN new.total = None \/ m ELSE new.total = Subtotal(new.lines)
    BY <1>1, <2>1 DEF LinesAfter, Sound
  <2>3. new.number # None => new.total # None /\ (new.customer \/ n)
    BY <1>1, <1>2, <2>1 DEF CustomerAfter, Sound
  <2> QED
    BY <2>2, <2>3 DEF Sound, new
<1> QED
  BY <1>3, <1>4

LEMMA BlankSound == Sound(Blank, FALSE, FALSE)
BY DEF Sound, Blank

LEMMA NewDocumentSound ==
    ASSUME NEW r \in Requests, NEW c \in Calls(r, Requests), c.op = "create"
    PROVE  Sound(NewDocument(c), FALSE, FALSE)
<1>1. c \in CreateCalls(r)
  BY DEF Calls, UpdateCalls, OtherCalls
<1>2. c.lines \in Lines
  BY <1>1 DEF CreateCalls
<1>3. c.lines # None /\ Subtotal(c.lines) # None
  BY <1>2, NoneAssumption DEF Totals
<1> QED
  BY <1>3 DEF Sound, NewDocument

LEMMA SoundStep == TypeOK /\ SoundStore /\ [Next]_vars => SoundStore'
<1> SUFFICES ASSUME TypeOK, SoundStore, [Next]_vars
             PROVE  SoundStore'
  OBVIOUS
<1>1. ASSUME NEW i \in Requests, Sound(invoices[i], Cleared(i, "lines"), Cleared(i, "customer"))
      PROVE  Sound(invoices[i], Cleared(i, "lines")', Cleared(i, "customer")')
  BY <1>1, ClearedStays DEF Sound
<1>2. ASSUME NEW i \in Requests, NEW doc, invoices' = [invoices EXCEPT ![i] = doc],
             Sound(doc, Cleared(i, "lines")', Cleared(i, "customer")')
      PROVE  SoundStore'
  BY <1>1, <1>2 DEF SoundStore, TypeOK
<1>3. ASSUME NEW r \in Requests, Arrive(r) \/ Advance(r) \/ Interrupt(r)
      PROVE  SoundStore'
  <2>1. CASE invoices' = invoices
    BY <1>1, <2>1 DEF SoundStore
  <2>2. CASE /\ pc[r] = "insert" /\ Op(r) = "create" /\ Id(r) = r
             /\ invoices' = [invoices EXCEPT ![r] = NewDocument(call[r])]
    <3>1. Sound(NewDocument(call[r]), FALSE, FALSE)
      BY <2>2, CallType, NewDocumentSound DEF Op
    <3>2. Sound(NewDocument(call[r]), Cleared(r, "lines")', Cleared(r, "customer")')
      BY <3>1 DEF Sound
    <3> QED
      BY <1>2, <2>2, <3>2
  <2>3. ASSUME pc[r] = "write", Op(r) # "create", NEW i \in Requests, i = Id(r),
               pc' = [pc EXCEPT ![r] = AfterWrite(Op(r))], call' = call
        PROVE  \A field : Op(r) = "update" /\ field \in call[r].nulls => Cleared(i, field)'
    <3>1. Op(r) = "update" => pc'[r] = "fetch"
      BY <2>3 DEF TypeOK, AfterWrite
    <3> QED
      BY <2>3, <3>1 DEF Cleared, Op, Id
  <2>4. ASSUME pc[r] = "write", Op(r) # "create", NEW i \in Requests, i = Id(r),
               call[r] \in Calls(r, Requests),
               pc' = [pc EXCEPT ![r] = AfterWrite(Op(r))], call' = call,
               NEW doc \in Documents, invoices' = [invoices EXCEPT ![i] = WithData(doc, call[r])],
               NEW l, NEW k, Sound(doc, l, k),
               l => Cleared(i, "lines")', k => Cleared(i, "customer")'
        PROVE  SoundStore'
    <3> DEFINE m == Cleared(i, "lines")'
               n == Cleared(i, "customer")'
               new == WithData(doc, call[r])
    <3>1. m \in BOOLEAN /\ n \in BOOLEAN
      BY DEF Cleared
    <3>2. call[r].op = "update" => ("lines" \in call[r].nulls => m) /\ ("customer" \in call[r].nulls => n)
      BY <2>3, <2>4 DEF Op
    <3>3. (l => m) /\ (k => n)
      BY <2>4
    <3> HIDE DEF m, n
    <3>4. Sound(new, m, n)
      BY <2>4, <3>1, <3>2, <3>3, WithDataSound
    <3>5. invoices' = [invoices EXCEPT ![i] = new]
      BY <2>4
    <3> HIDE DEF new
    <3>6. Sound(new, Cleared(i, "lines")', Cleared(i, "customer")')
      BY <3>4 DEF m, n
    <3> QED
      BY <1>2, <3>5, <3>6
  <2>5. CASE /\ pc[r] = "write" /\ Op(r) # "create" /\ Id(r) \in Requests
             /\ call[r] \in Calls(r, Requests) /\ Doc(r) \in Documents
             /\ pc' = [pc EXCEPT ![r] = AfterWrite(Op(r))] /\ call' = call
             /\ invoices' = [invoices EXCEPT ![Id(r)] = WithData(Doc(r), call[r])]
    <3>1. PICK i \in Requests : i = Id(r)
      BY <2>5
    <3>2. PICK doc \in Documents : doc = Doc(r)
      BY <2>5
    <3>3. Sound(doc, Cleared(i, "lines"), Cleared(i, "customer"))
      BY <2>5, <3>1, <3>2, NoneAssumption DEF SoundStore, Doc
    <3>4. /\ Cleared(i, "lines") => Cleared(i, "lines")'
          /\ Cleared(i, "customer") => Cleared(i, "customer")'
      BY ClearedStays
    <3>5. invoices' = [invoices EXCEPT ![i] = WithData(doc, call[r])]
      BY <2>5, <3>1, <3>2
    <3> DEFINE l == Cleared(i, "lines")
               k == Cleared(i, "customer")
    <3>6. Sound(doc, l, k) /\ (l => Cleared(i, "lines")') /\ (k => Cleared(i, "customer")')
      BY <3>3, <3>4
    <3> HIDE DEF l, k
    <3> QED
      BY <2>4, <2>5, <3>1, <3>5, <3>6
  <2>6. CASE /\ pc[r] = "write" /\ Op(r) # "create" /\ Id(r) \in Requests
             /\ call[r] \in Calls(r, Requests)
             /\ pc' = [pc EXCEPT ![r] = AfterWrite(Op(r))] /\ call' = call
             /\ invoices' = [invoices EXCEPT ![Id(r)] = WithData(Blank, call[r])]
    <3>1. PICK i \in Requests : i = Id(r)
      BY <2>6
    <3>2. invoices' = [invoices EXCEPT ![i] = WithData(Blank, call[r])]
      BY <2>6, <3>1
    <3> QED
      BY <2>4, <2>6, <3>1, <3>2, BlankType, BlankSound
  <2>7. CASE Id(r) \in Requests /\ invoices' = [invoices EXCEPT ![Id(r)] = None]
    BY <1>1, <2>7 DEF SoundStore, TypeOK
  <2> QED
    BY <1>3, <2>1, <2>2, <2>5, <2>6, <2>7, StoreStep
<1>4. CASE UNCHANGED vars
  BY <1>1, <1>4 DEF vars, SoundStore
<1> QED
  BY <1>3, <1>4 DEF Next

(* Amounts match lines, and numbered invoices can be answered with, whatever the *)
(* overlap of creates, updates, sends, deletes and interruptions, as far as no   *)
(* update nulled what is missing.                                                *)
THEOREM StoreIsSound == Spec => []StoredIsSound
<1>1. Init => SoundStore
  BY DEF Init, SoundStore
<1> QED
  BY <1>1, SoundStep, SoundImplies, TypeCorrect, PTL DEF Spec

LEMMA UniqueStep == TypeOK /\ UniqueNumbers /\ [Next]_vars => UniqueNumbers'
<1> SUFFICES ASSUME TypeOK, UniqueNumbers, [Next]_vars
             PROVE  UniqueNumbers'
  OBVIOUS
<1>1. ASSUME NEW i \in Requests, NEW doc, invoices' = [invoices EXCEPT ![i] = doc],
             ~Indexed(doc.number) \/ (invoices[i] # None /\ invoices[i].number = doc.number)
      PROVE  UniqueNumbers'
  BY <1>1 DEF WithNumber, UniqueNumbers, Stored, Indexed, TypeOK
<1>2. ASSUME NEW r \in Requests, Arrive(r) \/ Advance(r) \/ Interrupt(r)
      PROVE  UniqueNumbers'
  <2>1. CASE invoices' = invoices
    BY <2>1 DEF UniqueNumbers, Stored
  <2>2. CASE ~Indexed(call[r].number) /\ invoices' = [invoices EXCEPT ![r] = NewDocument(call[r])]
    BY <1>1, <2>2 DEF NewDocument
  <2>3. CASE /\ Id(r) \in Requests /\ Doc(r) \in Documents
             /\ invoices' = [invoices EXCEPT ![Id(r)] = WithData(Doc(r), call[r])]
    BY <1>1, <2>3, NumberKept, NoneAssumption DEF Doc
  <2>4. CASE /\ Id(r) \in Requests /\ ~Indexed(None)
             /\ invoices' = [invoices EXCEPT ![Id(r)] = WithData(Blank, call[r])]
    <3>1. WithData(Blank, call[r]).number = None
      BY NumberKept, BlankType DEF Blank
    <3> QED
      BY <1>1, <2>4, <3>1
  <2>5. CASE Id(r) \in Requests /\ invoices' = [invoices EXCEPT ![Id(r)] = None]
    BY <2>5 DEF UniqueNumbers, Stored, TypeOK
  <2> QED
    BY <1>2, <2>1, <2>2, <2>3, <2>4, <2>5, StoreStep
<1>3. CASE UNCHANGED vars
  BY <1>3 DEF vars, UniqueNumbers, Stored
<1> QED
  BY <1>2, <1>3 DEF Next

(* No two stored invoices share a number, for any number of overlapping creates. *)
THEOREM NumbersAreUnique == Spec => []UniqueNumbers
<1>1. Init => UniqueNumbers
  BY DEF Init, UniqueNumbers, Stored
<1> QED
  BY <1>1, UniqueStep, TypeCorrect, PTL DEF Spec

-----------------------------------------------------------------------------
(* Sending *)

LEMMA KnownStep == TypeOK /\ KnownWereInserted /\ [Next]_vars => KnownWereInserted'
<1> SUFFICES ASSUME TypeOK, KnownWereInserted, [Next]_vars
             PROVE  KnownWereInserted'
  OBVIOUS
<1>1. ASSUME NEW r \in Requests, Arrive(r)
      PROVE  KnownWereInserted'
  <2>1. PICK c \in Calls(r, known) :
           call' = [call EXCEPT ![r] = c] /\ pc' = [pc EXCEPT ![r] = IF c.op = "create" THEN "check" ELSE "find"]
    BY <1>1 DEF Arrive, Goto
  <2>2. c.op # "create" => c.id \in known
    BY DEF Calls, CreateCalls, UpdateCalls, OtherCalls
  <2>3. r \notin known /\ UNCHANGED <<invoices, known>>
    BY <1>1 DEF Arrive, KnownWereInserted
  <2> QED
    BY <2>1, <2>2, <2>3 DEF KnownWereInserted, TypeOK, Op, Id
<1>2. ASSUME NEW r \in Requests, Insert(r)
      PROVE  KnownWereInserted'
  <2>1. Op(r) = "create" /\ Id(r) = r
    BY <1>2, CallType DEF Insert, TypeOK, Path, Replies
  <2>2. \/ UNCHANGED <<invoices, known>>
        \/ invoices' = [invoices EXCEPT ![r] = NewDocument(call[r])] /\ known' = known \cup {r}
    BY <1>2, <2>1 DEF Insert
  <2>3. pc[r] = "insert" /\ call' = call /\ \E place \in {"badRequest", "fetch"} : pc' = [pc EXCEPT ![r] = place]
    BY <1>2 DEF Insert, Goto
  <2> QED
    BY <2>1, <2>2, <2>3 DEF KnownWereInserted, TypeOK, Op, Id
<1>3. ASSUME NEW r \in Requests, CheckNumber(r) \/ Find(r) \/ Fetch(r) \/ Interrupt(r)
      PROVE  KnownWereInserted'
  <2>1. UNCHANGED <<invoices, known, call>> /\ \E place : pc' = [pc EXCEPT ![r] = place]
    BY <1>3 DEF CheckNumber, Find, Fetch, Interrupt, Goto
  <2>2. pc[r] # "idle" /\ (pc'[r] \in {"idle", "check", "insert"} => r \notin known)
    <3>1. CASE CheckNumber(r)
      BY <3>1 DEF CheckNumber, KnownWereInserted
    <3>2. CASE Find(r)
      <4>1. Op(r) \in {"update", "send", "delete", "pdf"}
        BY <3>2, CallType DEF Find, TypeOK, Path, Replies
      <4> QED
        BY <3>2, <4>1 DEF Find, Goto, AfterFind, TypeOK
    <3>3. CASE Fetch(r) \/ Interrupt(r)
      BY <3>3 DEF Fetch, Interrupt, Goto, InFlight, Awaits, TypeOK
    <3> QED
      BY <1>3, <3>1, <3>2, <3>3
  <2> QED
    BY <2>1, <2>2 DEF KnownWereInserted, TypeOK, Op, Id
<1>4. ASSUME NEW r \in Requests, Write(r) \/ DeleteDoc(r) \/ QueueEmail(r) \/ QueuePdf(r)
      PROVE  KnownWereInserted'
  <2>1. /\ known' = known /\ call' = call /\ pc[r] # "idle"
        /\ \E place \in {"error", "ok", "email", "pdf", "fetch"} : pc' = [pc EXCEPT ![r] = place]
    BY <1>4 DEF AfterWrite, Write, DeleteDoc, QueueEmail, QueuePdf, Goto
  <2>2. Op(r) # "create" \/ invoices' = invoices
    BY <1>4, CallType DEF Write, DeleteDoc, QueueEmail, QueuePdf, TypeOK, Path, Replies
  <2>3. invoices' = invoices \/ \E doc : invoices' = [invoices EXCEPT ![Id(r)] = doc]
    BY <1>4 DEF Write, DeleteDoc, QueueEmail, QueuePdf
  <2> QED
    BY <2>1, <2>2, <2>3 DEF KnownWereInserted, TypeOK, Op, Id
<1>5. CASE UNCHANGED vars
  BY <1>5 DEF vars, KnownWereInserted, Op, Id
<1> QED
  BY <1>1, <1>2, <1>3, <1>4, <1>5 DEF Next, Advance

LEMMA KnownInvariant == Spec => []KnownWereInserted
<1>1. Init => KnownWereInserted
  BY DEF Init, KnownWereInserted
<1> QED
  BY <1>1, KnownStep, TypeCorrect, PTL DEF Spec

(* A step keeps a sent document sent, or it is the delete of that document. *)
LEMMA SentStep ==
    ASSUME TypeOK, KnownWereInserted, [Next]_vars,
           NEW i \in Requests, invoices[i] # None, invoices[i].status = "sent"
    PROVE  \/ invoices'[i] # None /\ invoices'[i].status = "sent"
           \/ /\ invoices'[i] = None
              /\ \E d \in Requests : pc'[d] = "ok" /\ Op(d)' = "delete" /\ Id(d)' = i
<1>1. ASSUME NEW r \in Requests, Arrive(r) \/ Advance(r) \/ Interrupt(r)
      PROVE  \/ invoices'[i] # None /\ invoices'[i].status = "sent"
             \/ /\ invoices'[i] = None
                /\ \E d \in Requests : pc'[d] = "ok" /\ Op(d)' = "delete" /\ Id(d)' = i
  <2>1. CASE invoices' = invoices
    BY <2>1
  <2>2. CASE pc[r] = "insert" /\ invoices' = [invoices EXCEPT ![r] = NewDocument(call[r])]
    BY <2>2 DEF KnownWereInserted, TypeOK
  <2>3. CASE /\ Id(r) \in Requests /\ Doc(r) \in Documents /\ call[r] \in Calls(r, Requests)
             /\ invoices' = [invoices EXCEPT ![Id(r)] = WithData(Doc(r), call[r])]
    <3>1. WithData(Doc(r), call[r]) \in Documents
      BY <2>3, WithDataType
    <3>2. Doc(r).status = "sent" => WithData(Doc(r), call[r]).status = "sent"
      BY <2>3 DEF WithData, Edited, Documents
    <3> QED
      BY <2>3, <3>1, <3>2, NoneAssumption DEF Doc, TypeOK
  <2>4. CASE /\ Doc(r) = None
             /\ invoices' = [invoices EXCEPT ![Id(r)] = WithData(Blank, call[r])]
    BY <2>4 DEF Doc, TypeOK
  <2>5. CASE /\ pc[r] = "remove" /\ Op(r) = "delete" /\ Id(r) \in Requests
             /\ invoices' = [invoices EXCEPT ![Id(r)] = None]
             /\ pc' = [pc EXCEPT ![r] = "ok"] /\ call' = call
    BY <2>5 DEF TypeOK, Op, Id
  <2> QED
    BY <1>1, <2>1, <2>2, <2>3, <2>4, <2>5, StoreStep
<1>2. CASE UNCHANGED vars
  BY <1>2 DEF vars
<1> QED
  BY <1>1, <1>2 DEF Next

(* A sent invoice does not become a draft again while it is stored, although *)
(* updates write what they prepared from a document read before the send.    *)
THEOREM SentStays == Spec => SentIsNotUndone
<1>1. TypeOK /\ KnownWereInserted /\ [Next]_vars =>
        [\A i \in Stored : invoices[i].status = "sent" =>
            invoices'[i] = None \/ invoices'[i].status = "sent"]_vars
  BY SentStep DEF Stored
<1> QED
  BY <1>1, TypeCorrect, KnownInvariant, PTL DEF Spec, SentIsNotUndone

(* Sent, or deleted since. *)
SentOrDeleted(i) ==
    \/ i \in Stored /\ invoices[i].status = "sent"
    \/ \E d \in Requests : pc[d] \in {"ok", "lost"} /\ Op(d) = "delete" /\ Id(d) = i

LEMMA SentOrDeletedStep ==
    ASSUME TypeOK, KnownWereInserted, [Next]_vars, NEW i \in Requests, SentOrDeleted(i)
    PROVE  SentOrDeleted(i)'
<1>1. CASE i \in Stored /\ invoices[i].status = "sent"
  BY <1>1, SentStep DEF SentOrDeleted, Stored
<1>2. ASSUME NEW d \in Requests, pc[d] \in {"ok", "lost"}, Op(d) = "delete", Id(d) = i
      PROVE  SentOrDeleted(i)'
  <2>1. ASSUME NEW r \in Requests, Arrive(r) \/ Advance(r) \/ Interrupt(r)
        PROVE  pc'[d] = pc[d] /\ call'[d] = call[d]
    <3>1. pc[r] \in {"idle"} \cup Awaits /\ pc[r] # pc[d]
      BY <1>2, <2>1
         DEF Arrive, Advance, CheckNumber, Insert, Find, Write, DeleteDoc, QueueEmail, QueuePdf,
             Fetch, Interrupt, InFlight, Awaits
    <3>2. \E place : pc' = [pc EXCEPT ![r] = place]
      BY <2>1
         DEF Arrive, Advance, CheckNumber, Insert, Find, Write, DeleteDoc, QueueEmail, QueuePdf,
             Fetch, Interrupt, Goto
    <3>3. call' = call \/ \E c : call' = [call EXCEPT ![r] = c]
      BY <2>1
         DEF Arrive, Advance, CheckNumber, Insert, Find, Write, DeleteDoc, QueueEmail, QueuePdf,
             Fetch, Interrupt
    <3> QED
      BY <3>1, <3>2, <3>3 DEF TypeOK
  <2>2. pc'[d] = pc[d] /\ call'[d] = call[d]
    BY <2>1 DEF Next, vars
  <2> QED
    BY <1>2, <2>2 DEF SentOrDeleted, Op, Id
<1> QED
  BY <1>1, <1>2 DEF SentOrDeleted

(* What the queue holds at each place of a send, and what its jobs are for. *)
MailInv ==
    /\ \A j \in jobs : j.name = "send-invoice" => SentOrDeleted(j.invoiceId)
    /\ \A r \in Requests : pc[r] = "email" => SentOrDeleted(Id(r))

QueueInv ==
    \A r \in Requests :
        /\ pc[r] = "pdf" /\ Op(r) = "send" => Queued(r, "send-invoice") \in jobs
        /\ pc[r] \in {"fetch", "ok"} /\ Op(r) = "send" =>
              \A n \in JobNames : Queued(r, n) \in jobs

LEMMA MailStep == TypeOK /\ KnownWereInserted /\ MailInv /\ [Next]_vars => MailInv'
<1> SUFFICES ASSUME TypeOK, KnownWereInserted, MailInv, [Next]_vars
             PROVE  MailInv'
  OBVIOUS
<1>1. \A i \in Requests : SentOrDeleted(i) => SentOrDeleted(i)'
  BY SentOrDeletedStep
<1>2. \A j \in jobs : j.invoiceId \in Requests
  BY DEF TypeOK
<1>3. ASSUME NEW r \in Requests, Arrive(r)
      PROVE  MailInv'
  <2>1. jobs' = jobs /\ \A q \in Requests : pc'[q] = "email" => pc[q] = "email" /\ call'[q] = call[q]
    BY <1>3 DEF Arrive, Goto, TypeOK
  <2> QED
    BY <1>1, <1>2, <2>1, CallType DEF MailInv, Id
<1>4. ASSUME NEW r \in Requests, Advance(r) \/ Interrupt(r), ~Write(r), ~QueueEmail(r)
      PROVE  MailInv'
  <2>1. call' = call /\ \A q \in Requests : pc'[q] = "email" => pc[q] = "email"
    <3>1. CASE Find(r)
      <4>1. Op(r) \in {"update", "send", "delete", "pdf"}
        BY <3>1, CallType DEF Find, TypeOK, Path, Replies
      <4> QED
        BY <3>1, <4>1 DEF Find, Goto, AfterFind, TypeOK
    <3>2. CASE ~Find(r)
      BY <1>4, <3>2
         DEF Advance, CheckNumber, Insert, DeleteDoc, QueuePdf, Fetch, Interrupt, Goto, TypeOK
    <3> QED
      BY <3>1, <3>2
  <2>2. \A j \in jobs' : j.name = "send-invoice" => j \in jobs
    BY <1>4
       DEF Advance, CheckNumber, Insert, Find, DeleteDoc, QueuePdf, Fetch, Interrupt, Queued
  <2> QED
    BY <1>1, <1>2, <2>1, <2>2, CallType DEF MailInv, Id
<1>5. ASSUME NEW r \in Requests, Write(r)
      PROVE  MailInv'
  <2>1. call' = call /\ jobs' = jobs /\ pc[r] # "idle"
    BY <1>5 DEF Write
  <2>2. ASSUME NEW q \in Requests, pc'[q] = "email", pc[q] # "email"
        PROVE  SentOrDeleted(Id(q))'
    <3> DEFINE base == IF Doc(r) = None THEN Blank ELSE Doc(r)
    <3>1. q = r /\ Op(r) = "send" /\ invoices' = [invoices EXCEPT ![Id(r)] = WithData(base, call[r])]
      BY <1>5, <2>2 DEF AfterWrite, Write, Goto, TypeOK
    <3>2. Id(r) \in Requests /\ call[r] \in Calls(r, Requests)
      BY <2>1, CallType
    <3>3. base \in Documents
      BY <3>2, BlankType DEF Doc, TypeOK
    <3> HIDE DEF base
    <3>4. WithData(base, call[r]) \in Documents /\ WithData(base, call[r]).status = "sent"
      BY <3>1, <3>2, <3>3, WithDataType DEF WithData, Op, Documents
    <3>5. invoices'[Id(r)] # None /\ invoices'[Id(r)].status = "sent"
      BY <3>1, <3>2, <3>4, NoneAssumption DEF TypeOK
    <3>6. Id(q)' = Id(r)
      BY <2>1, <3>1 DEF Id
    <3> QED
      BY <3>2, <3>5, <3>6 DEF SentOrDeleted, Stored
  <2> QED
    BY <1>1, <1>2, <2>1, <2>2, CallType DEF MailInv, Id
<1>6. ASSUME NEW r \in Requests, QueueEmail(r)
      PROVE  MailInv'
  <2>1. /\ call' = call /\ pc[r] = "email" /\ jobs' = jobs \cup {Queued(r, "send-invoice")}
        /\ \A q \in Requests : pc'[q] = "email" => pc[q] = "email"
    BY <1>6 DEF QueueEmail, Goto, TypeOK
  <2>2. SentOrDeleted(Id(r)) /\ Id(r) \in Requests
    BY <2>1, CallType DEF MailInv
  <2> QED
    BY <1>1, <1>2, <2>1, <2>2, CallType DEF MailInv, Id, Queued
<1>7. CASE UNCHANGED vars
  BY <1>1, <1>2, <1>7, CallType DEF MailInv, vars, Id
<1> QED
  BY <1>3, <1>4, <1>5, <1>6, <1>7 DEF Next, Advance

(* Every email job is for an invoice that was written as sent, and that is still *)
(* sent unless somebody asked for its deletion.                                  *)
THEOREM MailFollowsSent == Spec => []MailIsAfterSent
<1>1. Init => MailInv
  BY DEF Init, MailInv
<1>2. MailInv => MailIsAfterSent
  BY DEF MailInv, MailIsAfterSent, SentOrDeleted
<1> QED
  BY <1>1, <1>2, MailStep, TypeCorrect, KnownInvariant, PTL DEF Spec

LEMMA QueueStep == TypeOK /\ QueueInv /\ [Next]_vars => QueueInv'
<1> SUFFICES ASSUME TypeOK, QueueInv, [Next]_vars
             PROVE  QueueInv'
  OBVIOUS
<1>1. jobs \subseteq jobs'
  BY DEF Next, Arrive, Advance, CheckNumber, Insert, Find, Write, DeleteDoc, QueueEmail,
         QueuePdf, Fetch, Interrupt, vars
<1>2. ASSUME NEW r \in Requests, Arrive(r)
      PROVE  QueueInv'
  <2>1. /\ \A q \in Requests : pc'[q] = pc[q] \/ pc'[q] \in {"check", "find"}
        /\ \A q \in Requests : pc[q] = "idle" \/ call'[q] = call[q]
    BY <1>2 DEF Arrive, Goto, TypeOK
  <2> QED
    BY <1>1, <2>1 DEF QueueInv, Queued, Id, Op
<1>3. ASSUME NEW r \in Requests, Advance(r) \/ Interrupt(r)
      PROVE  QueueInv'
  <2>1. /\ call' = call
        /\ \A q \in Requests \ {r} : pc'[q] = pc[q]
        /\ pc[r] # "idle"
    BY <1>3
       DEF Advance, CheckNumber, Insert, Find, Write, DeleteDoc, QueueEmail, QueuePdf,
           Fetch, Interrupt, Goto, TypeOK, InFlight, Awaits
  <2>2. ASSUME Op(r) = "send"
        PROVE  /\ pc'[r] = "pdf" => Queued(r, "send-invoice") \in jobs'
               /\ pc'[r] \in {"fetch", "ok"} => \A n \in JobNames : Queued(r, n) \in jobs'
    <3>1. pc[r] \in {"find", "write", "email", "pdf", "fetch"}
      BY <1>3, <2>1, <2>2, CallType
         DEF TypeOK, Path, Replies, Advance, CheckNumber, Insert, Find, Write, DeleteDoc,
             QueueEmail, QueuePdf, Fetch, Interrupt, InFlight, Awaits
    <3>2. CASE Find(r) \/ Write(r) \/ Interrupt(r)
      BY <2>2, <3>2 DEF AfterWrite, Find, Write, Interrupt, Goto, AfterFind, TypeOK
    <3>3. CASE QueueEmail(r)
      BY <3>3 DEF QueueEmail, Goto, TypeOK
    <3>4. CASE QueuePdf(r)
      <4>1. Queued(r, "send-invoice") \in jobs
        BY <2>2, <3>4 DEF QueuePdf, QueueInv
      <4> QED
        BY <4>1, <3>4, <1>1 DEF QueuePdf, Goto, TypeOK, JobNames
    <3>5. CASE Fetch(r)
      BY <1>1, <2>2, <3>5 DEF Fetch, Goto, QueueInv, TypeOK
    <3> QED
      BY <1>3, <3>1, <3>2, <3>3, <3>4, <3>5 DEF Advance, CheckNumber, Insert, DeleteDoc
  <2>3. \A q \in Requests : (\A n : Queued(q, n)' = Queued(q, n)) /\ Op(q)' = Op(q)
    BY <2>1 DEF Queued, Id, Op
  <2> QED
    BY <1>1, <2>1, <2>2, <2>3 DEF QueueInv
<1>4. CASE UNCHANGED vars
  BY <1>4 DEF vars, QueueInv, Queued, Id, Op
<1> QED
  BY <1>2, <1>3, <1>4 DEF Next

(* A send that answered "ok" has its email job and its PDF job in the queue. *)
THEOREM SendIsQueued == Spec => []AnsweredSendIsQueued
<1>1. Init => QueueInv
  BY DEF Init, QueueInv
<1>2. QueueInv => AnsweredSendIsQueued
  BY DEF QueueInv, AnsweredSendIsQueued
<1> QED
  BY <1>1, <1>2, QueueStep, TypeCorrect, PTL DEF Spec

-----------------------------------------------------------------------------
(* The email of a sent invoice *)

Mailed(i) == \E j \in jobs : j.name = "send-invoice" /\ j.invoiceId = i
Owes(r, i) == pc[r] \in {"email", "lost"} /\ Op(r) = "send" /\ Id(r) = i

(* A sender owes the email until it has queued it. *)
LEMMA DebtStep ==
    ASSUME TypeOK, NEW q \in Requests, Arrive(q) \/ Advance(q) \/ Interrupt(q),
           NEW r \in Requests, NEW i \in Requests, Owes(r, i)
    PROVE  Mailed(i)' \/ Owes(r, i)'
<1>1. CASE QueueEmail(q) /\ q = r
  <2>1. Queued(r, "send-invoice") \in jobs' /\ call' = call
    BY <1>1 DEF QueueEmail
  <2>2. Queued(r, "send-invoice").name = "send-invoice" /\ Queued(r, "send-invoice").invoiceId = i
    BY DEF Queued, Owes
  <2> QED
    BY <2>1, <2>2 DEF Mailed
<1>2. CASE Interrupt(q) /\ q = r
  BY <1>2 DEF Interrupt, Goto, Owes, Op, Id, TypeOK
<1>3. CASE q # r
  <2>1. pc'[r] = pc[r] /\ call'[r] = call[r]
    BY <1>3
       DEF Arrive, Advance, CheckNumber, Insert, Find, Write, DeleteDoc, QueueEmail, QueuePdf,
           Fetch, Interrupt, Goto, TypeOK
  <2> QED
    BY <2>1 DEF Owes, Op, Id
<1>4. CASE q = r /\ ~QueueEmail(q) /\ ~Interrupt(q)
  BY <1>4
     DEF Owes, Arrive, Advance, CheckNumber, Insert, Find, Write, DeleteDoc, QueuePdf, Fetch
<1> QED
  BY <1>1, <1>2, <1>3, <1>4

(* Only the write of a send makes an invoice sent, and it leaves its request at the email. *)
LEMMA BecomesSent ==
    ASSUME TypeOK, NEW q \in Requests, Arrive(q) \/ Advance(q) \/ Interrupt(q),
           NEW i \in Requests, invoices'[i] # None, invoices'[i].status = "sent"
    PROVE  (invoices[i] # None /\ invoices[i].status = "sent") \/ Owes(q, i)'
<1>1. CASE invoices' = invoices
  BY <1>1
<1>2. CASE pc[q] = "insert" /\ invoices' = [invoices EXCEPT ![q] = NewDocument(call[q])]
  BY <1>2 DEF NewDocument, TypeOK
<1>3. ASSUME pc[q] = "write", Id(q) \in Requests, call[q] \in Calls(q, Requests),
             NEW base \in Documents, (base = Doc(q) /\ Doc(q) \in Documents) \/ base = Blank,
             invoices' = [invoices EXCEPT ![Id(q)] = WithData(base, call[q])]
      PROVE  (invoices[i] # None /\ invoices[i].status = "sent") \/ Owes(q, i)'
  <2>1. CASE i # Id(q)
    BY <1>3, <2>1 DEF TypeOK
  <2>2. CASE i = Id(q) /\ Op(q) # "send"
    <3>1. invoices'[i].status = base.status
      BY <1>3, <2>2 DEF WithData, Edited, Op, TypeOK, Documents
    <3>2. base.status = "sent" /\ base # Blank
      BY <3>1 DEF Blank
    <3> QED
      BY <1>3, <2>2, <3>2, NoneAssumption DEF Doc
  <2>3. CASE i = Id(q) /\ Op(q) = "send"
    <3>1. CASE Write(q)
      <4>1. CASE pc'[q] = "email" /\ call' = call
        BY <2>3, <4>1 DEF Owes, Op, Id
      <4>2. CASE invoices' = invoices
        BY <4>2
      <4> QED
        BY <2>3, <3>1, <4>1, <4>2 DEF Write, Goto, AfterWrite, TypeOK
    <3>2. CASE ~Write(q)
      <4>1. invoices' = invoices
        BY <1>3, <3>2
           DEF Arrive, Advance, CheckNumber, Insert, Find, DeleteDoc, QueueEmail, QueuePdf,
               Fetch, Interrupt
      <4> QED
        BY <4>1
    <3> QED
      BY <3>1, <3>2
  <2> QED
    BY <2>1, <2>2, <2>3
<1>4. CASE Id(q) \in Requests /\ invoices' = [invoices EXCEPT ![Id(q)] = None]
  BY <1>4 DEF TypeOK
<1> QED
  BY <1>1, <1>2, <1>3, <1>4, StoreStep, BlankType

LEMMA OwedStep == TypeOK /\ SentIsMailed /\ [Next]_vars => SentIsMailed'
<1> SUFFICES ASSUME TypeOK, SentIsMailed, [Next]_vars,
                    NEW i \in Requests, invoices'[i] # None, invoices'[i].status = "sent"
             PROVE  Mailed(i)' \/ \E r \in Requests : Owes(r, i)'
  BY DEF SentIsMailed, Stored, Mailed, Owes
<1>1. ASSUME NEW q \in Requests, Arrive(q) \/ Advance(q) \/ Interrupt(q)
      PROVE  Mailed(i)' \/ \E r \in Requests : Owes(r, i)'
  <2>1. CASE Owes(q, i)'
    BY <2>1
  <2>2. CASE invoices[i] # None /\ invoices[i].status = "sent"
    <3>1. Mailed(i) \/ \E r \in Requests : Owes(r, i)
      BY <2>2 DEF SentIsMailed, Stored, Mailed, Owes
    <3>2. Mailed(i) => Mailed(i)'
      BY <1>1
         DEF Mailed, Arrive, Advance, CheckNumber, Insert, Find, Write, DeleteDoc, QueueEmail,
             QueuePdf, Fetch, Interrupt
    <3> QED
      BY <1>1, <3>1, <3>2, DebtStep
  <2> QED
    BY <1>1, <2>1, <2>2, BecomesSent
<1>2. CASE UNCHANGED vars
  BY <1>2 DEF vars, SentIsMailed, Stored, Mailed, Owes, Op, Id
<1> QED
  BY <1>1, <1>2 DEF Next

(* An invoice that was written as sent has its email queued, unless its sender is *)
(* about to queue it or was interrupted before it could.                          *)
THEOREM SentIsOwed == Spec => []SentIsMailed
<1>1. Init => SentIsMailed
  BY DEF Init, SentIsMailed, Stored
<1> QED
  BY <1>1, OwedStep, TypeCorrect, PTL DEF Spec

(* Emails and statuses agree: none for an invoice that was not sent, and none *)
(* forgotten of one that was, or whose send was answered with success.        *)
THEOREM MailAlwaysAgrees == Spec => []MailAgrees
<1>1. MailIsAfterSent /\ AnsweredSendIsQueued /\ SentIsMailed => MailAgrees
  BY DEF MailAgrees
<1> QED
  BY <1>1, MailFollowsSent, SendIsQueued, SentIsOwed, PTL

-----------------------------------------------------------------------------
(* One request at a time *)

LEMMA SerialIsNext == [SerialNext]_vars => [Next]_vars
BY DEF SerialNext, Next

(* While r moves, nobody else is in flight, and nobody else's place or call changes. *)
LEMMA OthersRest ==
    ASSUME TypeOK, OneInFlight, NEW r \in Requests, Advance(r) \/ Interrupt(r)
    PROVE  /\ InFlight(r) /\ pc[r] # "idle" /\ call' = call
           /\ \A q \in Requests \ {r} : pc'[q] = pc[q] /\ ~InFlight(q) /\ ~InFlight(q)'
<1>1. InFlight(r) /\ pc[r] # "idle" /\ call' = call /\ \E place : pc' = [pc EXCEPT ![r] = place]
  BY DEF Advance, CheckNumber, Insert, Find, Write, DeleteDoc, QueueEmail, QueuePdf,
         Fetch, Interrupt, Goto, InFlight, Awaits
<1> QED
  BY <1>1 DEF OneInFlight, InFlight, TypeOK

LEMMA OneInFlightStep == TypeOK /\ OneInFlight /\ [SerialNext]_vars => OneInFlight'
<1> SUFFICES ASSUME TypeOK, OneInFlight, [SerialNext]_vars
             PROVE  OneInFlight'
  OBVIOUS
<1>1. ASSUME NEW r \in Requests, Arrive(r), Alone(r)
      PROVE  OneInFlight'
  BY <1>1 DEF Arrive, Alone, Goto, InFlight, OneInFlight, TypeOK
<1>2. ASSUME NEW r \in Requests, Advance(r) \/ Interrupt(r)
      PROVE  OneInFlight'
  BY <1>2, OthersRest DEF OneInFlight
<1>3. CASE UNCHANGED vars
  BY <1>3 DEF vars, OneInFlight, InFlight
<1> QED
  BY <1>1, <1>2, <1>3 DEF SerialNext

(* The part of SerialInv about r's own place; for the others it says nothing. *)
PlaceHolds(r) ==
    /\ pc[r] \in {"write", "remove"} => Doc(r) # None /\ ~Refused(Op(r), Doc(r).status)
    /\ pc[r] \in {"email", "pdf"} /\ Op(r) = "send" => Doc(r) # None /\ Doc(r).status = "sent"
    /\ pc[r] = "email" => MailedBy(Id(r)) = {}

MailedAreSent ==
    \A i \in Requests : MailedBy(i) # {} => invoices[i] # None /\ invoices[i].status = "sent"

LEMMA SerialInvParts ==
    SerialInv <=> /\ OneInFlight /\ KnownWereInserted /\ MailedAreSent
                  /\ \A r \in Requests : PlaceHolds(r)
BY DEF SerialInv, FindStillHolds, MailsAreForSent, MailedAreSent, PlaceHolds

(* What a handler's next await finds: its guard, its own write, an empty mailbox. *)
LEMMA PlaceStep ==
    ASSUME TypeOK, SerialInv, NEW r \in Requests, Advance(r) \/ Interrupt(r)
    PROVE  PlaceHolds(r)'
<1>1. /\ call' = call /\ pc[r] # "idle" /\ Op(r)' = Op(r) /\ Id(r)' = Id(r)
      /\ Id(r) \in Requests /\ call[r] \in Calls(r, Requests)
      /\ PlaceHolds(r) /\ MailedAreSent
  BY OthersRest, CallType, SerialInvParts DEF SerialInv, Op, Id
<1>2. CASE CheckNumber(r) \/ Insert(r) \/ Fetch(r) \/ Interrupt(r) \/ DeleteDoc(r)
  <2>1. pc'[r] \notin {"write", "remove", "email", "pdf"}
    BY <1>2 DEF CheckNumber, Insert, Fetch, Interrupt, DeleteDoc, Goto, TypeOK
  <2> QED
    BY <2>1 DEF PlaceHolds
<1>3. CASE Find(r)
  <2>1. Op(r) \in {"update", "send", "delete", "pdf"}
    BY <1>3, CallType DEF Find, TypeOK, Path, Replies
  <2>2. pc'[r] \in {"write", "remove"} => Doc(r) # None /\ ~Refused(Op(r), Doc(r).status)
    BY <1>3 DEF Find, Goto, TypeOK
  <2>3. pc'[r] # "email" /\ ~(pc'[r] = "pdf" /\ Op(r) = "send")
    BY <1>3, <2>1 DEF Find, Goto, AfterFind, TypeOK
  <2>4. Doc(r)' = Doc(r)
    BY <1>1, <1>3 DEF Find, Doc
  <2> QED
    BY <1>1, <2>2, <2>3, <2>4 DEF PlaceHolds
<1>4. CASE Write(r)
  <2>1. Doc(r) # None /\ ~Refused(Op(r), Doc(r).status) /\ Doc(r) \in Documents
    BY <1>1, <1>4 DEF Write, PlaceHolds, Doc, TypeOK
  <2>2. invoices' = [invoices EXCEPT ![Id(r)] = WithData(Doc(r), call[r])]
    BY <1>4, <2>1 DEF Write
  <2>3. pc'[r] \in {"email", "fetch"} /\ (pc'[r] = "email" => Op(r) = "send")
    BY <1>4, <2>1 DEF AfterWrite, Write, Goto, TypeOK
  <2>4. CASE Op(r) = "send"
    <3>1. WithData(Doc(r), call[r]).status = "sent" /\ WithData(Doc(r), call[r]) \in Documents
      BY <1>1, <2>1, <2>4, WithDataType DEF WithData, Op, Documents
    <3>2. Doc(r)' # None /\ Doc(r)'.status = "sent"
      BY <1>1, <2>2, <3>1, NoneAssumption DEF Doc, TypeOK
    <3>3. Doc(r).status = "draft"
      BY <2>1, <2>4 DEF Refused
    <3>4. MailedBy(Id(r)) = {}
      BY <1>1, <3>3 DEF MailedAreSent, Doc
    <3>5. MailedBy(Id(r))' = {}
      BY <1>1, <1>4, <3>4 DEF Write, MailedBy
    <3> QED
      BY <2>3, <3>2, <3>5 DEF PlaceHolds
  <2> QED
    BY <2>3, <2>4 DEF PlaceHolds
<1>5. CASE QueueEmail(r)
  <2>1. Op(r) = "send"
    BY <1>5, CallType DEF QueueEmail, TypeOK, Path, Replies
  <2>2. pc'[r] = "pdf" /\ Doc(r)' = Doc(r)
    BY <1>1, <1>5 DEF QueueEmail, Goto, Doc, TypeOK
  <2> QED
    BY <1>1, <1>5, <2>1, <2>2 DEF PlaceHolds, QueueEmail
<1>6. CASE QueuePdf(r)
  <2>1. pc'[r] \in {"fetch", "ok"}
    BY <1>6 DEF QueuePdf, Goto, TypeOK
  <2> QED
    BY <2>1 DEF PlaceHolds
<1> QED
  BY <1>2, <1>3, <1>4, <1>5, <1>6 DEF Advance

(* How the mailboxes change: only QueueEmail adds to one. *)
LEMMA MailedStep ==
    ASSUME TypeOK, NEW r \in Requests, Arrive(r) \/ Advance(r) \/ Interrupt(r)
    PROVE  \/ \A i \in Requests : MailedBy(i)' = MailedBy(i)
           \/ /\ pc[r] = "email" /\ Op(r) = "send" /\ Id(r) \in Requests /\ invoices' = invoices
              /\ known' = known
              /\ \A i \in Requests : MailedBy(i)' = IF i = Id(r) THEN MailedBy(i) \cup {r}
                                                    ELSE MailedBy(i)
<1>1. CASE QueueEmail(r)
  <2>1. Op(r) = "send" /\ Id(r) \in Requests
    BY <1>1, CallType DEF QueueEmail, TypeOK, Path, Replies
  <2> QED
    BY <1>1, <2>1 DEF QueueEmail, Queued, MailedBy
<1>2. CASE QueuePdf(r)
  BY <1>2 DEF QueuePdf, Queued, MailedBy
<1>3. CASE ~QueueEmail(r) /\ ~QueuePdf(r)
  BY <1>3 DEF Advance, Arrive, CheckNumber, Insert, Find, Write, DeleteDoc, Fetch, Interrupt,
              MailedBy
<1> QED
  BY <1>1, <1>2, <1>3

LEMMA MailedAreSentStep ==
    ASSUME TypeOK, SerialInv, NEW r \in Requests, Advance(r) \/ Interrupt(r)
    PROVE  MailedAreSent'
<1>1. MailedAreSent /\ KnownWereInserted /\ PlaceHolds(r) /\ [Next]_vars
  BY SerialInvParts DEF SerialInv, Next
<1>2. CASE \A i \in Requests : MailedBy(i)' = MailedBy(i)
  <2>1. CASE pc[r] = "remove" /\ invoices' = [invoices EXCEPT ![Id(r)] = None]
    <3>1. Op(r) = "delete" /\ Id(r) \in Requests
      BY <2>1, CallType DEF TypeOK, Path, Replies
    <3>2. Doc(r).status = "draft"
      BY <1>1, <2>1, <3>1 DEF PlaceHolds, Refused
    <3>3. MailedBy(Id(r)) = {}
      BY <1>1, <3>1, <3>2 DEF MailedAreSent, Doc
    <3> QED
      BY <1>1, <1>2, <2>1, <3>1, <3>3 DEF MailedAreSent, TypeOK
  <2>2. CASE \A i \in Requests : invoices[i] # None /\ invoices[i].status = "sent" =>
                 invoices'[i] # None /\ invoices'[i].status = "sent"
    BY <1>1, <1>2, <2>2 DEF MailedAreSent
  <2>3. ASSUME NEW i \in Requests, invoices[i] # None, invoices[i].status = "sent",
               ~(invoices'[i] # None /\ invoices'[i].status = "sent")
        PROVE  pc[r] = "remove" /\ invoices' = [invoices EXCEPT ![Id(r)] = None]
    <3>1. invoices'[i] = None
      BY <1>1, <2>3, SentStep
    <3>2. WithData(Blank, call[r]) # None
      BY <1>1, OthersRest, CallType, BlankType, WithDataType, NoneAssumption DEF SerialInv
    <3>3. Doc(r) \in Documents => WithData(Doc(r), call[r]) # None
      BY <1>1, OthersRest, CallType, WithDataType, NoneAssumption DEF SerialInv
    <3>4. pc[r] = "insert" /\ Op(r) = "create" => NewDocument(call[r]) # None
      BY CallType, NewDocumentType, NoneAssumption DEF Op
    <3> QED
      BY <2>3, <3>1, <3>2, <3>3, <3>4, StoreStep DEF TypeOK
  <2> QED
    BY <2>1, <2>2, <2>3
<1>3. CASE /\ pc[r] = "email" /\ Op(r) = "send" /\ Id(r) \in Requests /\ invoices' = invoices
           /\ \A i \in Requests : MailedBy(i)' = IF i = Id(r) THEN MailedBy(i) \cup {r}
                                                 ELSE MailedBy(i)
  BY <1>1, <1>3 DEF MailedAreSent, PlaceHolds, Doc
<1> QED
  BY <1>2, <1>3, MailedStep

LEMMA SerialStep == TypeOK /\ TypeOK' /\ SerialInv /\ [SerialNext]_vars => SerialInv'
<1> SUFFICES ASSUME TypeOK, TypeOK', SerialInv, [SerialNext]_vars
             PROVE  SerialInv'
  OBVIOUS
<1>1. OneInFlight' /\ KnownWereInserted'
  BY OneInFlightStep, KnownStep, SerialIsNext DEF SerialInv
<1>2. SerialInv' <=> /\ OneInFlight' /\ KnownWereInserted' /\ MailedAreSent'
                     /\ \A q \in Requests : PlaceHolds(q)'
  BY DEF SerialInv, FindStillHolds, MailsAreForSent, MailedAreSent, PlaceHolds
<1>3. ASSUME NEW r \in Requests, Arrive(r), Alone(r)
      PROVE  MailedAreSent' /\ \A q \in Requests : PlaceHolds(q)'
  <2>1. MailedAreSent'
    BY <1>3, SerialInvParts DEF Arrive, MailedAreSent, MailedBy
  <2>2. \A q \in Requests : pc'[q] \notin {"write", "remove", "email", "pdf"}
    BY <1>3 DEF Arrive, Alone, InFlight, Awaits, Goto, TypeOK
  <2> QED
    BY <2>1, <2>2 DEF PlaceHolds
<1>4. ASSUME NEW r \in Requests, Advance(r) \/ Interrupt(r)
      PROVE  MailedAreSent' /\ \A q \in Requests : PlaceHolds(q)'
  <2>1. \A q \in Requests \ {r} : PlaceHolds(q)'
    <3>1. \A q \in Requests \ {r} : pc'[q] \notin Awaits
      BY <1>4, OthersRest DEF SerialInv, InFlight
    <3> QED
      BY <3>1 DEF PlaceHolds, Awaits
  <2> QED
    BY <1>4, <2>1, PlaceStep, MailedAreSentStep
<1>5. CASE UNCHANGED vars
  <2>1. MailedAreSent'
    BY <1>5, SerialInvParts DEF vars, MailedAreSent, MailedBy
  <2>2. ASSUME NEW q \in Requests
        PROVE  PlaceHolds(q)'
    BY <1>5, SerialInvParts DEF vars, PlaceHolds, MailedBy, Doc, Op, Id
  <2> QED
    BY <1>1, <1>2, <2>1, <2>2
<1> QED
  BY <1>1, <1>2, <1>3, <1>4, <1>5 DEF SerialNext

(* With one request at a time, what a handler's Find established still holds when *)
(* it writes, interruptions included.                                             *)
THEOREM SerialInvariant == SerialSpec => [](TypeOK /\ SerialInv)
<1>1. Init => SerialInv
  BY DEF Init, SerialInv, OneInFlight, InFlight, Awaits, FindStillHolds, MailsAreForSent,
         MailedBy, KnownWereInserted
<1>2. TypeOK /\ SerialInv /\ [SerialNext]_vars => (TypeOK /\ SerialInv)'
  BY SerialStep, NextType, SerialIsNext
<1> QED
  BY <1>1, <1>2, InitType, PTL DEF SerialSpec

-----------------------------------------------------------------------------
(* The service implements InvoiceLifecycle *)

LEMMA InitImplements == Init => Lifecycle!Init
BY DEF Init, Lifecycle!Init, Stage, MailedBy

(* How the life of each invoice changes in a step of r. *)
LEMMA StageStep ==
    ASSUME TypeOK, SerialInv, NEW r \in Requests, Arrive(r) \/ Advance(r) \/ Interrupt(r)
    PROVE  \/ \A i \in Requests : Stage(i)' = Stage(i)
           \/ /\ pc[r] # "email"
              /\ \E i \in Requests, move \in {<<"none", "draft">>, <<"draft", "sent">>,
                                              <<"draft", "gone">>} :
                   /\ Stage(i) = move[1] /\ Stage(i)' = move[2]
                   /\ \A j \in Requests \ {i} : Stage(j)' = Stage(j)
<1>1. PlaceHolds(r) /\ KnownWereInserted
  BY SerialInvParts
<1>2. CASE Insert(r)
  <2>1. Op(r) = "create" /\ Id(r) = r /\ r \notin known /\ invoices[r] = None
    BY <1>1, <1>2, CallType DEF Insert, TypeOK, Path, Replies, KnownWereInserted
  <2>2. NewDocument(call[r]) # None /\ NewDocument(call[r]).status = "draft"
    BY <1>2, <2>1, CallType, NewDocumentType, NoneAssumption DEF Insert, Op, NewDocument
  <2>3. CASE UNCHANGED <<invoices, known>>
    BY <2>3 DEF Stage
  <2>4. CASE invoices' = [invoices EXCEPT ![r] = NewDocument(call[r])] /\ known' = known \cup {r}
    <3>1. Stage(r) = "none" /\ Stage(r)' = "draft"
      BY <2>1, <2>2, <2>4 DEF Stage, TypeOK
    <3>2. \A j \in Requests \ {r} : Stage(j)' = Stage(j)
      BY <2>4 DEF Stage, TypeOK
    <3> DEFINE move == <<"none", "draft">>
    <3>3. Stage(r) = move[1] /\ Stage(r)' = move[2] /\ pc[r] # "email"
      BY <1>2, <3>1 DEF Insert
    <3> QED
      BY <3>2, <3>3
  <2> QED
    BY <1>2, <2>1, <2>3, <2>4 DEF Insert
<1>3. CASE Write(r)
  <2>1. Id(r) \in Requests /\ call[r] \in Calls(r, Requests) /\ Op(r) \in {"update", "send"}
    BY <1>3, CallType DEF Write, TypeOK, Path, Replies
  <2>2. Doc(r) # None /\ ~Refused(Op(r), Doc(r).status) /\ Doc(r) \in Documents
    BY <1>1, <1>3, <2>1 DEF Write, PlaceHolds, Doc, TypeOK
  <2>3. invoices' = [invoices EXCEPT ![Id(r)] = WithData(Doc(r), call[r])] /\ known' = known
    BY <1>3, <2>2 DEF Write
  <2>4. WithData(Doc(r), call[r]) # None
    BY <2>1, <2>2, WithDataType, NoneAssumption
  <2> PICK i \in Requests : i = Id(r)
    BY <2>1
  <2>5. Stage(i) = Doc(r).status /\ Stage(i)' = WithData(Doc(r), call[r]).status
    BY <2>2, <2>3, <2>4 DEF Stage, Doc, TypeOK
  <2>6. \A j \in Requests \ {i} : Stage(j)' = Stage(j)
    BY <2>3 DEF Stage, TypeOK
  <2>7. CASE Op(r) = "update"
    <3>1. WithData(Doc(r), call[r]).status = Doc(r).status
      BY <2>2, <2>7 DEF WithData, Edited, Documents, Op
    <3> QED
      BY <2>5, <2>6, <3>1
  <2>8. CASE Op(r) = "send"
    <3>1. Doc(r).status = "draft" /\ WithData(Doc(r), call[r]).status = "sent"
      BY <2>2, <2>8 DEF WithData, Documents, Op, Refused
    <3> DEFINE move == <<"draft", "sent">>
    <3>2. Stage(i) = move[1] /\ Stage(i)' = move[2] /\ pc[r] # "email"
      BY <1>3, <2>5, <3>1 DEF Write
    <3> QED
      BY <2>6, <3>2
  <2> QED
    BY <2>1, <2>7, <2>8
<1>4. CASE DeleteDoc(r)
  <2>1. Op(r) = "delete" /\ Id(r) \in Requests
    BY <1>4, CallType DEF DeleteDoc, TypeOK, Path, Replies
  <2>2. Doc(r) # None /\ Doc(r).status = "draft" /\ Id(r) \in known
    BY <1>1, <1>4, <2>1 DEF DeleteDoc, PlaceHolds, Refused, KnownWereInserted
  <2>3. invoices' = [invoices EXCEPT ![Id(r)] = None] /\ known' = known
    BY <1>4 DEF DeleteDoc
  <2> PICK i \in Requests : i = Id(r)
    BY <2>1
  <2> DEFINE move == <<"draft", "gone">>
  <2>4. Stage(i) = move[1] /\ Stage(i)' = move[2] /\ pc[r] # "email"
    BY <1>4, <2>2, <2>3 DEF Stage, Doc, TypeOK, DeleteDoc
  <2>5. \A j \in Requests \ {i} : Stage(j)' = Stage(j)
    BY <2>3 DEF Stage, TypeOK
  <2> QED
    BY <2>4, <2>5
<1>5. CASE ~Insert(r) /\ ~Write(r) /\ ~DeleteDoc(r)
  <2>1. UNCHANGED <<invoices, known>>
    BY <1>5 DEF Arrive, Advance, CheckNumber, Find, QueueEmail, QueuePdf, Fetch, Interrupt
  <2> QED
    BY <2>1 DEF Stage
<1> QED
  BY <1>2, <1>3, <1>4, <1>5

LEMMA StepImplements ==
    TypeOK /\ SerialInv /\ [SerialNext]_vars => [Lifecycle!Next]_(Lifecycle!vars)
<1> SUFFICES ASSUME TypeOK, SerialInv, [SerialNext]_vars
             PROVE  [Lifecycle!Next]_(Lifecycle!vars)
  OBVIOUS
<1>1. ASSUME NEW r \in Requests, Arrive(r) \/ Advance(r) \/ Interrupt(r)
      PROVE  [Lifecycle!Next]_(Lifecycle!vars)
  <2>1. CASE /\ \A i \in Requests : Stage(i)' = Stage(i)
             /\ \A i \in Requests : MailedBy(i)' = MailedBy(i)
    BY <2>1 DEF Lifecycle!vars
  <2>2. CASE pc[r] # "email" /\ ~ \A i \in Requests : Stage(i)' = Stage(i)
    <3>1. \A i \in Requests : MailedBy(i)' = MailedBy(i)
      BY <1>1, <2>2, MailedStep
    <3>2. PICK i \in Requests, move \in {<<"none", "draft">>, <<"draft", "sent">>,
                                         <<"draft", "gone">>} :
            /\ Stage(i) = move[1] /\ Stage(i)' = move[2]
            /\ \A j \in Requests \ {i} : Stage(j)' = Stage(j)
      BY <1>1, <2>2, StageStep
    <3>3. Lifecycle!Move(i, move[1], move[2])
      BY <3>1, <3>2 DEF Lifecycle!Move
    <3> QED
      BY <3>2, <3>3 DEF Lifecycle!Next, Lifecycle!Create, Lifecycle!Send, Lifecycle!Delete
  <2>3. CASE pc[r] = "email" /\ ~ \A i \in Requests : MailedBy(i)' = MailedBy(i)
    <3>1. /\ Id(r) \in Requests /\ Op(r) = "send" /\ UNCHANGED <<invoices, known>>
          /\ \A i \in Requests : MailedBy(i)' = IF i = Id(r) THEN MailedBy(i) \cup {r}
                                                ELSE MailedBy(i)
      BY <1>1, <2>3, MailedStep
    <3>2. MailedBy(Id(r)) = {} /\ Doc(r) # None /\ Doc(r).status = "sent"
      BY <2>3, <3>1, SerialInvParts DEF PlaceHolds
    <3>3. Stage(Id(r)) = "sent" /\ \A i \in Requests : Stage(i)' = Stage(i)
      BY <3>1, <3>2 DEF Stage, Doc
    <3>4. Lifecycle!Mail(Id(r), r)
      BY <3>1, <3>2, <3>3 DEF Lifecycle!Mail
    <3> QED
      BY <3>1, <3>4 DEF Lifecycle!Next
  <2> QED
    BY <1>1, <2>1, <2>2, <2>3, StageStep, MailedStep
<1>2. CASE UNCHANGED vars
  BY <1>2 DEF vars, Lifecycle!vars, Stage, MailedBy
<1> QED
  BY <1>1, <1>2 DEF SerialNext

(* The handlers, one request at a time and interrupted anywhere, implement the *)
(* lifecycle the service promises.                                             *)
THEOREM SerialImplements == SerialSpec => KeepsLifecycle
BY InitImplements, StepImplements, SerialInvariant, PTL DEF SerialSpec, KeepsLifecycle, Lifecycle!Spec

=============================================================================
