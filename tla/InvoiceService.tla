--------------------------- MODULE InvoiceService ---------------------------
(***************************************************************************)
(* The HTTP invoice service of services/billing: the controller, its use   *)
(* cases and the Mongo repository they share.                              *)
(*                                                                         *)
(* Several requests are in flight at once, in one or in several Node       *)
(* processes.  Every await of a handler is a point where the others may    *)
(* run, so a handler is a sequence of steps, one per await, and pc[r]      *)
(* names the await request r is about to perform; the reply it ended with  *)
(* takes the place of that name when it is over.                           *)
(*                                                                         *)
(* MongoDB executes one findById, insert, findByIdAndUpdate or             *)
(* findByIdAndDelete atomically; nothing spans two of them.                *)
(***************************************************************************)
EXTENDS Naturals, SequencesExt

CONSTANTS
    Requests,     \* the HTTP requests of a behaviour; each is made at most once
    Numbers,      \* invoice numbers
    Lines,        \* line-item lists: sequences of [quantity, unitPrice]
    None          \* a missing field, an absent document

VARIABLES
    invoices,     \* the collection: the document stored under each _id, or None
    known,        \* history: the _ids that were ever inserted (and so can be asked for)
    jobs,         \* the jobs added to the queue 'invoice-processing', by request
    call,         \* the request's parameters, None before it arrives
    pc            \* where each request is

vars == <<invoices, known, jobs, call, pc>>

-----------------------------------------------------------------------------
(* Data *)

Statuses == {"draft", "sent", "viewed", "paid", "overdue", "cancelled"}
Replies  == {"ok", "notFound", "badRequest", "error", "lost"}
Awaits   == {"check", "insert", "find", "write", "remove", "email", "pdf", "fetch"}
JobNames == {"send-invoice", "generate-pdf"}

(* subtotalAmount: the controller and the update use case sum quantity * unitPrice. *)
Subtotal(ls) == FoldLeft(LAMBDA sum, item : sum + item.quantity * item.unitPrice, 0, ls)

Totals == {Subtotal(ls) : ls \in Lines}

(***************************************************************************)
(* The fields of the schema that some step tells apart.  None as lines is  *)
(* null or the default empty list, None elsewhere missing.  The _id of a   *)
(* document is the request that created it: every insert draws a fresh one.*)
(***************************************************************************)
Documents == [number   : Numbers \cup {None},
              customer : BOOLEAN,
              status   : Statuses,
              lines    : Lines \cup {None},
              total    : Totals \cup {None}]

ASSUME NoneAssumption ==
    None \notin Numbers /\ None \notin Lines /\ None \notin Totals /\ None \notin Documents

(***************************************************************************)
(* What a request may ask for.  Clients only know _ids that exist or       *)
(* existed.  The body of an update may leave a field out, give it, or give *)
(* it as null, which @IsOptional admits.                                   *)
(***************************************************************************)
Nullable == {"customer", "lines"}
CreateCalls(r) == [op : {"create"}, id : {r}, number : Numbers, lines : Lines,
                   customer : {TRUE}, nulls : {{}}]
UpdateCalls(ids) ==
    {c \in [op : {"update"}, id : ids, number : {None}, lines : Lines \cup {None},
            customer : BOOLEAN, nulls : SUBSET Nullable] :
        ("customer" \in c.nulls => ~c.customer) /\ ("lines" \in c.nulls => c.lines = None)}
OtherCalls(ids) == [op : {"send", "delete", "pdf"}, id : ids, number : {None},
                    lines : {None}, customer : {FALSE}, nulls : {{}}]
Calls(r, ids) == CreateCalls(r) \cup UpdateCalls(ids) \cup OtherCalls(ids)

AnyCall == UNION {Calls(r, Requests) : r \in Requests}

Op(r) == call[r].op
Id(r) == call[r].id
Doc(r) == invoices[Id(r)]

(* The awaits of each handler. *)
Path(op) ==
    CASE op = "create" -> {"check", "insert", "fetch"}
      [] op = "update" -> {"find", "write", "fetch"}
      [] op = "send"   -> {"find", "write", "email", "pdf", "fetch"}
      [] op = "delete" -> {"find", "remove"}
      [] op = "pdf"    -> {"find", "pdf"}

InFlight(r) == pc[r] \in Awaits

(* findByInvoiceNumber: the documents it may answer with. *)
WithNumber(n) == {i \in Requests : invoices[i] # None /\ invoices[i].number = n}

(* The unique index on invoiceNumber holds n; a missing number is indexed as null. *)
Bug_NoUniqueIndex(n) == FALSE
Indexed(n) == WithNumber(n) # {}

(* mapToResponseDto dereferences customerId, subtotal and totalAmount. *)
Renders(doc) == doc # None /\ doc.customer /\ doc.total # None

-----------------------------------------------------------------------------
Init ==
    /\ invoices = [i \in Requests |-> None]
    /\ known = {}
    /\ jobs = {}
    /\ call = [r \in Requests |-> None]
    /\ pc = [r \in Requests |-> "idle"]

Goto(r, place) == pc' = [pc EXCEPT ![r] = place]

(* A request arrives: createInvoice goes to its check, the others to findById. *)
Arrive(r) ==
    /\ pc[r] = "idle"
    /\ \E c \in Calls(r, known) :
         /\ call' = [call EXCEPT ![r] = c]
         /\ Goto(r, IF c.op = "create" THEN "check" ELSE "find")
    /\ UNCHANGED <<invoices, known, jobs>>

(* createInvoice: refuse a number that is already taken. *)
CheckNumber(r) ==
    /\ pc[r] = "check"
    /\ Goto(r, IF WithNumber(call[r].number) # {} THEN "badRequest" ELSE "insert")
    /\ UNCHANGED <<invoices, known, jobs, call>>

NewDocument(c) ==
    [number |-> c.number, customer |-> TRUE, status |-> "draft",
     lines |-> c.lines, total |-> Subtotal(c.lines)]

(* createInvoice: save without an _id; the unique index may reject it, and the *)
(* catch block turns that into a bad request.                                  *)
Insert(r) ==
    /\ pc[r] = "insert"
    /\ \/ /\ Indexed(call[r].number)
          /\ Goto(r, "badRequest")
          /\ UNCHANGED <<invoices, known>>
       \/ /\ ~Indexed(call[r].number)
          /\ invoices' = [invoices EXCEPT ![Id(r)] = NewDocument(call[r])]
          /\ known' = known \cup {Id(r)}
          /\ Goto(r, "fetch")
    /\ UNCHANGED <<jobs, call>>

(* The guard each use case evaluates on the document it has just read. *)
Bug_DeleteUnguarded(op, status) ==
    IF op = "update" THEN status \in {"paid", "cancelled"} ELSE op = "send" /\ status # "draft"
Bug_ResendAllowed(op, status) ==
    CASE op = "update" -> status \in {"paid", "cancelled"}
      [] op = "send" -> status \notin {"draft", "sent"}
      [] op = "delete" -> status # "draft"
      [] op = "pdf" -> FALSE
Refused(op, status) ==
    CASE op = "update" -> status \in {"paid", "cancelled"}
      [] op \in {"send", "delete"} -> status # "draft"
      [] op = "pdf" -> FALSE

Bug_SaveWithoutId(op) ==
    CASE op = "update" -> "insert" [] op = "send" -> "write" [] op = "delete" -> "remove" [] op = "pdf" -> "pdf"
Bug_MailBeforeSave(op) ==
    CASE op = "update" -> "write" [] op = "send" -> "email" [] op = "delete" -> "remove" [] op = "pdf" -> "pdf"
AfterFind(op) ==
    CASE op \in {"update", "send"} -> "write"
      [] op = "delete" -> "remove"
      [] op = "pdf" -> "pdf"

(* findById and the guard: the decision every later step relies on. *)
Find(r) ==
    /\ pc[r] = "find"
    /\ Goto(r, IF Doc(r) = None THEN "notFound"
               ELSE IF Refused(Op(r), Doc(r).status) THEN "badRequest"
               ELSE AfterFind(Op(r)))
    /\ UNCHANGED <<invoices, known, jobs, call>>

(* What a $set of the body leaves of a field: null, what is given, or what was. *)
CustomerAfter(doc, c) == "customer" \notin c.nulls /\ (doc.customer \/ c.customer)
LinesAfter(doc, c) ==
    IF "lines" \in c.nulls THEN None ELSE IF c.lines = None THEN doc.lines ELSE c.lines

(* The document a $set of the use case's data leaves, given the one it meets.  *)
(* The totals are computed anew for lines that are given, and not for null.    *)
Bug_TotalNotRecomputed(doc, c) ==
    [doc EXCEPT !.customer = CustomerAfter(doc, c), !.lines = LinesAfter(doc, c)]
Bug_CustomerCleared(doc, c) ==
    [doc EXCEPT !.customer = c.customer, !.lines = LinesAfter(doc, c),
                !.total = IF c.lines = None THEN doc.total ELSE Subtotal(c.lines)]
Bug_EditResetsToDraft(doc, c) ==
    [doc EXCEPT !.customer = CustomerAfter(doc, c), !.lines = LinesAfter(doc, c),
                !.status = "draft",
                !.total = IF c.lines = None THEN doc.total ELSE Subtotal(c.lines)]
Edited(doc, c) ==
    [doc EXCEPT !.customer = CustomerAfter(doc, c), !.lines = LinesAfter(doc, c),
                !.total = IF c.lines = None THEN doc.total ELSE Subtotal(c.lines)]

WithData(doc, c) ==
    IF c.op = "send" THEN [doc EXCEPT !.status = "sent"] ELSE Edited(doc, c)

(* send goes on to queue its jobs, update to read the document back. *)
Bug_SendForgetsToQueue(op) == "fetch"
AfterWrite(op) == IF op = "send" THEN "email" ELSE "fetch"

(* What upsert starts from when the document is gone: the schema's defaults. *)
Blank == [number |-> None, customer |-> FALSE, status |-> "draft", lines |-> None, total |-> None]

(***************************************************************************)
(* save with an _id: findByIdAndUpdate with upsert.  On a document that    *)
(* was deleted since Find it inserts one made of the $set fields and the   *)
(* defaults, unless another document without a number holds the index.     *)
(***************************************************************************)
Write(r) ==
    /\ pc[r] = "write"
    /\ LET base == IF Doc(r) = None THEN Blank ELSE Doc(r)
       IN \/ /\ Doc(r) = None /\ Indexed(None)
             /\ Goto(r, "error")
             /\ UNCHANGED invoices
          \/ /\ ~(Doc(r) = None /\ Indexed(None))
             /\ invoices' = [invoices EXCEPT ![Id(r)] = WithData(base, call[r])]
             /\ Goto(r, AfterWrite(Op(r)))
    /\ UNCHANGED <<known, jobs, call>>

(* delete: findByIdAndDelete, whatever the document has become. *)
DeleteDoc(r) ==
    /\ pc[r] = "remove"
    /\ invoices' = [invoices EXCEPT ![Id(r)] = None]
    /\ Goto(r, "ok")
    /\ UNCHANGED <<known, jobs, call>>

Queued(r, name) == [by |-> r, name |-> name, invoiceId |-> Id(r)]

(* send: addJob 'send-invoice'. *)
Bug_SkipsPdf(r) ==
    /\ pc[r] = "email"
    /\ jobs' = jobs \cup {Queued(r, "send-invoice")}
    /\ Goto(r, "fetch")
    /\ UNCHANGED <<invoices, known, call>>
QueueEmail(r) ==
    /\ pc[r] = "email"
    /\ jobs' = jobs \cup {Queued(r, "send-invoice")}
    /\ Goto(r, "pdf")
    /\ UNCHANGED <<invoices, known, call>>

(* send and downloadInvoicePdf: addJob 'generate-pdf'; the download answers at once. *)
QueuePdf(r) ==
    /\ pc[r] = "pdf"
    /\ jobs' = jobs \cup {Queued(r, "generate-pdf")}
    /\ Goto(r, IF Op(r) = "send" THEN "fetch" ELSE "ok")
    /\ UNCHANGED <<invoices, known, call>>

(* The document is read back for the answer: by number after a create, by _id otherwise. *)
Fetch(r) ==
    /\ pc[r] = "fetch"
    /\ IF Op(r) = "create"
       THEN Goto(r, IF WithNumber(call[r].number) # {} THEN "ok" ELSE "badRequest")
       ELSE Goto(r, IF Renders(Doc(r)) THEN "ok" ELSE "error")
    /\ UNCHANGED <<invoices, known, jobs, call>>

(* The process dies, or an await rejects: the handler goes no further.  A write *)
(* that took effect before its answer was lost is this step right after it.     *)
Interrupt(r) ==
    /\ InFlight(r)
    /\ Goto(r, "lost")
    /\ UNCHANGED <<invoices, known, jobs, call>>

Advance(r) == \/ CheckNumber(r) \/ Insert(r) \/ Find(r) \/ Write(r) \/ DeleteDoc(r)
              \/ QueueEmail(r) \/ QueuePdf(r) \/ Fetch(r)

Next == \E r \in Requests : Arrive(r) \/ Advance(r) \/ Interrupt(r)

(* Requests in parallel, and the same handlers with one request at a time. *)
Spec == Init /\ [][Next]_vars

Alone(r) == \A q \in Requests \ {r} : ~InFlight(q)
SerialNext == \E r \in Requests : (Arrive(r) /\ Alone(r)) \/ Advance(r) \/ Interrupt(r)
SerialSpec == Init /\ [][SerialNext]_vars

-----------------------------------------------------------------------------
(* Properties *)

Stored == {i \in Requests : invoices[i] # None}

TypeOK ==
    /\ invoices \in [Requests -> Documents \cup {None}]
    /\ known \subseteq Requests
    /\ jobs \subseteq [by : Requests, name : JobNames, invoiceId : Requests]
    /\ call \in [Requests -> AnyCall \cup {None}]
    /\ pc \in [Requests -> {"idle"} \cup Awaits \cup Replies]
    /\ \A r \in Requests : pc[r] # "idle" =>
          call[r] \in Calls(r, Requests) /\ pc[r] \in Path(Op(r)) \cup Replies

(* No two stored invoices carry the same number, although every create checks *)
(* and inserts in two awaits; at most one stored document carries none.       *)
UniqueNumbers ==
    \A i, j \in Stored : invoices[i].number = invoices[j].number => i = j

(* An update of the invoice gave the field as null, and is past its write or  *)
(* was interrupted.                                                           *)
Cleared(i, field) ==
    \E u \in Requests : /\ pc[u] \in {"fetch", "ok", "error", "lost"}
                        /\ Op(u) = "update" /\ Id(u) = i /\ field \in call[u].nulls

(* The amount an invoice shows is the sum of the lines it shows, whatever     *)
(* updates, sends and deletes overlapped: no write mixes two versions of it.  *)
(* Without lines it shows no amount, unless an update set its lines to null.  *)
TotalsMatchLines ==
    \A i \in Stored : IF invoices[i].lines = None
                      THEN invoices[i].total = None \/ Cleared(i, "lines")
                      ELSE invoices[i].total = Subtotal(invoices[i].lines)

(* A document that still has its number has everything an answer needs but a  *)
(* customer that an update set to null: updates that raced with a delete      *)
(* never leave a numbered, broken invoice.                                    *)
NumberedRenders ==
    \A i \in Stored : invoices[i].number # None =>
        invoices[i].total # None /\ (invoices[i].customer \/ Cleared(i, "customer"))

(* A numbered invoice has a customer, as the schema requires of every invoice; *)
(* the validation of an update's body and its write do not ask for one.        *)
CustomerIsRequired == \A i \in Stored : invoices[i].number # None => invoices[i].customer

(* What is stored can be shown and adds up, whatever raced or was interrupted, *)
(* as far as no update nulled it.                                              *)
StoredIsSound == TotalsMatchLines /\ NumberedRenders

(* A send job is only queued for an invoice that was written as sent, and     *)
(* until somebody deletes it, it still is: the write comes before the email.  *)
MailIsAfterSent ==
    \A j \in jobs : j.name = "send-invoice" =>
        LET i == j.invoiceId
        IN \/ i \in Stored /\ invoices[i].status = "sent"
           \/ \E d \in Requests : pc[d] \in {"ok", "lost"} /\ Op(d) = "delete" /\ Id(d) = i

(* Once sent, an invoice is never a draft again as long as it is stored: an   *)
(* update that read the draft before the send does not write the draft back.  *)
SentIsNotUndone ==
    [][\A i \in Stored : invoices[i].status = "sent" =>
          invoices'[i] = None \/ invoices'[i].status = "sent"]_vars

(* A caller who was told a send succeeded has both jobs in the queue.         *)
AnsweredSendIsQueued ==
    \A r \in Requests : pc[r] = "ok" /\ Op(r) = "send" =>
        \A n \in JobNames : Queued(r, n) \in jobs

(* An invoice written as sent has its email queued, or a sender still owes it: *)
(* one that is about to queue it or was interrupted.  No answer drops the email. *)
SentIsMailed ==
    \A i \in Stored : invoices[i].status = "sent" =>
        \/ \E j \in jobs : j.name = "send-invoice" /\ j.invoiceId = i
        \/ \E r \in Requests : pc[r] \in {"email", "lost"} /\ Op(r) = "send" /\ Id(r) = i

(* Emails and statuses agree from both sides: none is queued for an invoice   *)
(* that was not sent, and none that was sent or answered so is forgotten.     *)
MailAgrees == MailIsAfterSent /\ AnsweredSendIsQueued /\ SentIsMailed

=============================================================================
