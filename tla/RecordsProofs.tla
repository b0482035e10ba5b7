--------------------------- MODULE RecordsProofs ---------------------------
(***************************************************************************)
(* What Records checks, for any calls, sockets, mails, amounts and bounds. *)
(* A step is a step of one component and the others stutter, so each has   *)
(* an inductive invariant and a section of its own here, with four lemmas: *)
(* the invariant holds at first (...Init), is kept (...Next), and gives    *)
(* what the component promises (...Props), under what its constants are    *)
(* (...Constants), which follows from the assumptions of Records.          *)
(***************************************************************************)
EXTENDS Records, FiniteSetTheorems, WellFoundedInduction, TLAPS

(* A set of numbers that is not empty has a least one: what induction over data  *)
(* becomes here.                                                                 *)
LEMMA NatMin ==
    ASSUME NEW T, T \subseteq Nat, T # {}
    PROVE  \E x \in T : \A y \in T : x <= y
<1> DEFINE R == OpToRel(<, Nat)
<1>1. R = {ss \in Nat \X Nat : ss[1] < ss[2]}
  BY DEF OpToRel
<1>2. IsWellFoundedOn(R, Nat)
  BY NatLessThanWellFounded, Zenon
<1> HIDE DEF R
<1>3. PICK x \in T : \A y \in T : <<y, x>> \notin R
  BY <1>2, WFMin
<1>4. ASSUME NEW y \in T PROVE x <= y
  <2>1. x \in Nat /\ y \in Nat
    OBVIOUS
  <2>2. ASSUME y < x PROVE <<y, x>> \in R
    <3>1. <<y, x>> \in Nat \X Nat /\ <<y, x>>[1] < <<y, x>>[2]
      BY <2>1, <2>2
    <3> QED
      BY <1>1, <3>1
  <2>3. ~(y < x)
    BY <1>3, <2>2
  <2> QED
    BY <2>1, <2>3
<1> QED
  BY <1>4

LEMMA ConcatType ==
    ASSUME NEW S, NEW u \in Seq(S), NEW v \in Seq(S)
    PROVE  u \o v \in Seq(S) /\ Len(u \o v) = Len(u) + Len(v)
OBVIOUS

(* What RemoveAt returns, in either module that uses it.                         *)
LEMMA CutType ==
    ASSUME NEW S, NEW s \in Seq(S), NEW i \in 1..Len(s)
    PROVE  LET cut == SubSeq(s, 1, i - 1) \o SubSeq(s, i + 1, Len(s))
           IN  cut \in Seq(S) /\ Len(cut) = Len(s) - 1
<1> DEFINE a == SubSeq(s, 1, i - 1)
           b == SubSeq(s, i + 1, Len(s))
<1>1. Len(s) \in Nat /\ \A n \in 1..Len(s) : s[n] \in S
  OBVIOUS
<1>2. a \in Seq(S) /\ Len(a) = i - 1
  BY <1>1
<1>3. b \in Seq(S) /\ Len(b) = Len(s) - i
  BY <1>1
<1> HIDE DEF a, b
<1>4. a \o b \in Seq(S) /\ Len(a \o b) = Len(a) + Len(b)
  BY <1>2, <1>3, ConcatType
<1>5. Len(a \o b) = Len(s) - 1
  BY <1>1, <1>2, <1>3, <1>4
<1> QED
  BY <1>4, <1>5 DEF a, b

LEMMA RemoveAtType ==
    ASSUME NEW S, NEW s \in Seq(S), NEW i \in 1..Len(s)
    PROVE  /\ Bill!RemoveAt(s, i) \in Seq(S) /\ Len(Bill!RemoveAt(s, i)) = Len(s) - 1
           /\ Module!RemoveAt(s, i) \in Seq(S) /\ Len(Module!RemoveAt(s, i)) = Len(s) - 1
BY CutType DEF Bill!RemoveAt, Module!RemoveAt

(* The instances have an operator of their own for the size of a set.            *)
LEMMA Sizes == ASSUME NEW S PROVE Audit!Cardinality(S) = Cardinality(S) /\ Email!Cardinality(S) = Cardinality(S)
<1>1. Audit!Cardinality(S) = Cardinality(S)
  BY DEF Audit!Cardinality, Cardinality
<1>2. Email!Cardinality(S) = Cardinality(S)
  BY DEF Email!Cardinality, Cardinality
<1> QED
  BY <1>1, <1>2

-----------------------------------------------------------------------------
(* The shared audit trail.  While no two recordings overlapped every entry but   *)
(* an awaited one is linked, and names the one before; the first overlap makes   *)
(* an entry that names another, which no later step mends.                       *)

(* The entries the service makes of an event, and what a call awaits.           *)
Topics == UNION {e.resource \cup e.details : e \in AuditEvents}
Frames == {"GDPR", "PCI_DSS", "SOX"}
AuditEntries == [about : SUBSET Topics, category : {Audit!categorize(a) : a \in {e.action : e \in AuditEvents} \cup {{}}},
            severity : {"critical", "high", "medium"}, frameworks : SUBSET Frames,
            class : {"restricted", "confidential", "internal"},
            basis : {"contract_performance", "consent", "legitimate_interest"},
            retention : {2555, 1095, 365, 730}, encrypted : BOOLEAN, previousHash : Nat \cup {None}]
Classified(e) ==
    /\ e.encrypted = Audit!shouldEncrypt(e.about) /\ e.class = Audit!classifyData(e.about) /\ e.frameworks = Audit!Frameworks(e.about)
    /\ e.severity # "low" /\ e.basis # None
Awaited == [entry : Nat \ {0}, next : {"return", "request"}]
AuditConstants ==
    /\ \A e \in AuditEvents : e.failed \in BOOLEAN
    /\ None \notin Awaited /\ None \notin Nat
    /\ None \notin {"contract_performance", "consent", "legitimate_interest"}

Places == 1..Len(trail)
Free(c) == busy[c] = None

(* An entry is linked once, and is one a call awaits until then.                *)
Chained ==
    /\ stored \in Seq(AuditEntries) /\ trail \in Seq(Nat) /\ overlapped \in BOOLEAN
    /\ \A i \in Places : trail[i] \in 1..Len(stored)
    /\ \A i, j \in Places : trail[i] = trail[j] => i = j
    /\ \A n \in 1..Len(stored) : stored[n].previousHash \in {None} \cup 1..(n - 1) /\ Classified(stored[n])
AuditPending ==
    /\ busy \in [AuditCalls -> Awaited \cup {None}] /\ alerted = {}
    /\ \A r \in requests : \E i \in Places : trail[i] = r
    /\ \A c \in AuditCalls : ~Free(c) => busy[c].entry \in 1..Len(stored) /\ \A i \in Places : trail[i] # busy[c].entry
    /\ \A c, d \in AuditCalls : ~Free(c) /\ ~Free(d) /\ busy[c].entry = busy[d].entry => c = d
(* Recordings one after the other: every entry but the awaited one is linked,    *)
(* each names the one before.                                                    *)
Serial ==
    /\ \A c \in AuditCalls : ~Free(c) => busy[c].entry = Len(stored)
    /\ \A i \in Places : trail[i] = i
    /\ Len(trail) = IF \A c \in AuditCalls : Free(c) THEN Len(stored) ELSE Len(stored) - 1
    /\ \A n \in 2..Len(stored) : stored[n].previousHash = n - 1
Forked == \E n \in 2..Len(stored) : stored[n].previousHash # n - 1
AuditInv == Chained /\ AuditPending /\ (IF overlapped THEN Forked ELSE Serial)

LEMMA AuditInit == AuditConstants /\ Audit!Init => AuditInv
<1> SUFFICES ASSUME AuditConstants, Audit!Init PROVE AuditInv
  OBVIOUS
<1>1. stored = <<>> /\ trail = <<>> /\ requests = {} /\ alerted = {} /\ overlapped = FALSE
  BY DEF Audit!Init
<1>2. busy = [c \in AuditCalls |-> None]
  BY DEF Audit!Init
<1>3. Chained
  <2>1. Len(<<>>) = 0 /\ <<>> \in Seq(AuditEntries) /\ <<>> \in Seq(Nat)
    OBVIOUS
  <2>2. 1..0 = {}
    OBVIOUS
  <2>3. stored \in Seq(AuditEntries) /\ trail \in Seq(Nat) /\ Len(stored) = 0 /\ Places = {}
    BY <1>1, <2>1, <2>2 DEF Places
  <2> QED
    BY <1>1, <2>2, <2>3 DEF Chained
<1>4. \A c \in AuditCalls : Free(c)
  BY <1>2 DEF Free
<1>5. AuditPending
  BY <1>1, <1>2, <1>4 DEF AuditPending
<1>6. Serial
  BY <1>1, <1>4 DEF Serial, Places
<1> QED
  BY <1>1, <1>3, <1>5, <1>6 DEF AuditInv

(* Whatever the entry is about, the classifications agree about it.              *)
LEMMA EntryType ==
    ASSUME AuditConstants, Chained, NEW action \in {e.action : e \in AuditEvents} \cup {{}}, NEW resource, NEW details,
           resource \cup details \subseteq Topics, NEW failed \in BOOLEAN
    PROVE  /\ Audit!Entry(action, resource, details, failed) \in AuditEntries
           /\ Classified(Audit!Entry(action, resource, details, failed))
           /\ Audit!Entry(action, resource, details, failed).previousHash = Audit!getLastAuditHash
<1> DEFINE about == resource \cup details
           e == Audit!Entry(action, resource, details, failed)
<1>1. e = [about |-> about, category |-> Audit!categorize(action), severity |-> Audit!calculateSeverity(action, resource, failed),
           frameworks |-> Audit!Frameworks(about), class |-> Audit!classifyData(about), basis |-> Audit!Basis(action),
           retention |-> Audit!calculateRetentionPeriod(action, resource), encrypted |-> Audit!shouldEncrypt(about),
           previousHash |-> Audit!getLastAuditHash]
  BY DEF Audit!Entry
<1>2. Audit!getLastAuditHash \in Nat \cup {None}
  BY DEF Audit!getLastAuditHash, Chained, Audit!Last
<1>3. Audit!calculateSeverity(action, resource, failed) \in {"critical", "high", "medium"}
  BY DEF Audit!calculateSeverity
<1>4. Audit!Frameworks(about) \in SUBSET Frames /\ Audit!shouldEncrypt(about) \in BOOLEAN
  BY DEF Audit!Frameworks, Frames, Audit!shouldEncrypt
<1>5. Audit!classifyData(about) \in {"restricted", "confidential", "internal"}
  BY DEF Audit!classifyData
<1>6. Audit!Basis(action) \in {"contract_performance", "consent", "legitimate_interest"}
  BY DEF Audit!Basis
<1>7. Audit!calculateRetentionPeriod(action, resource) \in {2555, 1095, 365, 730}
  BY DEF Audit!calculateRetentionPeriod
<1>8. Audit!categorize(action) \in {Audit!categorize(a) : a \in {x.action : x \in AuditEvents} \cup {{}}}
  OBVIOUS
<1> HIDE DEF e
<1>9. /\ e.about = about /\ e.severity = Audit!calculateSeverity(action, resource, failed)
      /\ e.frameworks = Audit!Frameworks(about) /\ e.class = Audit!classifyData(about) /\ e.basis = Audit!Basis(action)
      /\ e.encrypted = Audit!shouldEncrypt(about) /\ e.previousHash = Audit!getLastAuditHash
  BY <1>1
<1> HIDE DEF about
<1>10. e \in AuditEntries
  BY <1>1, <1>2, <1>3, <1>4, <1>5, <1>6, <1>7, <1>8 DEF AuditEntries, about
<1>11. Classified(e)
  BY <1>3, <1>6, <1>9 DEF Classified, AuditConstants
<1> QED
  BY <1>9, <1>10, <1>11 DEF e

(* An entry is handed to the store after the last one there. *)
LEMMA HandedNext ==
    ASSUME AuditConstants, AuditInv, NEW c \in AuditCalls, NEW e \in AuditEntries, Classified(e), e.previousHash = Audit!getLastAuditHash,
           NEW next \in {"return", "request"}, Audit!Handed(c, e, next)
    PROVE  AuditInv'
<1> DEFINE n == Len(stored) + 1
<1>1. /\ Free(c) /\ stored' = Append(stored, e)
      /\ busy' = [busy EXCEPT ![c] = [entry |-> n, next |-> next]]
      /\ overlapped' = (overlapped \/ \E d \in AuditCalls : ~Free(d))
      /\ UNCHANGED <<trail, requests, alerted>>
  BY DEF Audit!Handed, Free
<1>2. Chained /\ AuditPending /\ (overlapped => Forked) /\ (~overlapped => Serial)
  BY DEF AuditInv
<1>3. /\ stored' \in Seq(AuditEntries) /\ Len(stored) \in Nat /\ Len(stored') = n /\ stored'[n] = e
      /\ \A m \in 1..Len(stored) : stored'[m] = stored[m]
  BY <1>1, <1>2 DEF Chained
<1>4. n \in Nat \ {0} /\ Places' = Places /\ trail' = trail
  BY <1>1, <1>3 DEF Places
<1>5. /\ ~Free(c)' /\ busy'[c].entry = n /\ busy' \in [AuditCalls -> Awaited \cup {None}]
      /\ \A d \in AuditCalls : d # c => busy'[d] = busy[d]
  <2> DEFINE a == [entry |-> n, next |-> next]
  <2>1. a \in Awaited /\ a.entry = n /\ a # None
    BY <1>4 DEF Awaited, AuditConstants
  <2> HIDE DEF a
  <2>2. busy' = [busy EXCEPT ![c] = a]
    BY <1>1 DEF a
  <2> QED
    BY <1>2, <2>1, <2>2 DEF AuditPending, Free
<1> HIDE DEF n
<1>6. Audit!getLastAuditHash \in {None} \cup 1..(n - 1)
  BY <1>2, <1>3 DEF Audit!getLastAuditHash, Chained, Places, Audit!Last, n
<1>7. Chained'
  <2>1. \A m \in 1..n : stored'[m].previousHash \in {None} \cup 1..(m - 1) /\ Classified(stored'[m])
    <3>1. \A m \in 1..Len(stored) : stored[m].previousHash \in {None} \cup 1..(m - 1) /\ Classified(stored[m])
      BY <1>2 DEF Chained
    <3>2. \A m \in 1..n : m \in 1..Len(stored) \/ m = n
      BY <1>3 DEF n
    <3>3. e.previousHash \in {None} \cup 1..(n - 1)
      BY <1>6
    <3> QED
      BY <1>3, <3>1, <3>2, <3>3
  <2>2. \A i \in Places : trail[i] \in 1..n
    <3>1. \A i \in Places : trail[i] \in 1..Len(stored)
      BY <1>2 DEF Chained
    <3>2. \A k \in 1..Len(stored) : k \in 1..n
      BY <1>3 DEF n
    <3> QED
      BY <3>1, <3>2
  <2>3. overlapped' \in BOOLEAN
    BY <1>1
  <2>4. trail' \in Seq(Nat) /\ \A i, j \in Places : trail[i] = trail[j] => i = j
    BY <1>2, <1>4 DEF Chained
  <2> QED
    BY <1>3, <1>4, <2>1, <2>2, <2>3, <2>4 DEF Chained
<1>8. AuditPending'
  <2>1. \A d \in AuditCalls : d # c /\ ~Free(d)' => ~Free(d) /\ busy'[d].entry = busy[d].entry
    BY <1>5 DEF Free
  <2>2. \A d \in AuditCalls : ~Free(d) => busy[d].entry \in 1..Len(stored) /\ \A i \in Places : trail[i] # busy[d].entry
    BY <1>2 DEF AuditPending
  <2>3. \A d \in AuditCalls : d # c /\ ~Free(d)' => busy'[d].entry # n /\ busy'[d].entry \in 1..n
    BY <1>3, <2>1, <2>2 DEF n
  <2>4. \A i \in Places : trail[i] # n
    BY <1>2, <1>3 DEF Chained, n
  <2>5. ASSUME NEW d \in AuditCalls, ~Free(d)'
        PROVE  busy'[d].entry \in 1..n /\ \A i \in Places : trail[i] # busy'[d].entry
    BY <1>4, <1>5, <2>1, <2>2, <2>3, <2>4, <2>5
  <2>6. ASSUME NEW d1 \in AuditCalls, NEW d2 \in AuditCalls, ~Free(d1)', ~Free(d2)', busy'[d1].entry = busy'[d2].entry PROVE d1 = d2
    <3>1. CASE d1 = c \/ d2 = c
      BY <1>5, <2>3, <2>6, <3>1
    <3>2. CASE d1 # c /\ d2 # c
      BY <1>2, <2>1, <2>6, <3>2 DEF AuditPending
    <3> QED
      BY <3>1, <3>2
  <2>7. alerted' = {} /\ \A r \in requests' : \E i \in Places' : trail'[i] = r
    BY <1>1, <1>2, <1>4 DEF AuditPending
  <2> QED
    BY <1>3, <1>4, <1>5, <2>5, <2>6, <2>7 DEF AuditPending
<1>9. CASE overlapped
  <2>1. PICK m \in 2..Len(stored) : stored[m].previousHash # m - 1
    BY <1>2, <1>9 DEF Forked
  <2>2. m \in 2..Len(stored') /\ stored'[m].previousHash # m - 1
    BY <1>3, <2>1 DEF n
  <2> QED
    BY <1>1, <1>7, <1>8, <1>9, <2>2 DEF AuditInv, Forked
<1>10. CASE ~overlapped /\ \E d \in AuditCalls : ~Free(d)
  <2>1. Serial /\ overlapped'
    BY <1>1, <1>2, <1>10
  <2>2. PICK d \in AuditCalls : ~Free(d)
    BY <1>10
  <2>3. busy[d].entry = Len(stored) /\ Len(stored) >= 1
    BY <1>2, <1>3, <2>1, <2>2 DEF Serial, AuditPending
  <2>4. \A i \in Places : trail[i] # Len(stored)
    BY <1>2, <2>2, <2>3 DEF AuditPending
  <2>5. Audit!getLastAuditHash # Len(stored)
    BY <1>2, <1>3, <2>4 DEF Audit!getLastAuditHash, Audit!Last, Places, Chained, AuditConstants
  <2>6. n \in 2..Len(stored') /\ stored'[n].previousHash # n - 1
    BY <1>3, <2>3, <2>5 DEF n
  <2> QED
    BY <1>7, <1>8, <2>1, <2>6 DEF AuditInv, Forked
<1>11. CASE ~overlapped /\ \A d \in AuditCalls : Free(d)
  <2>1. Serial /\ ~overlapped'
    BY <1>1, <1>2, <1>11
  <2>2. Len(trail) = Len(stored)
    BY <1>11, <2>1 DEF Serial
  <2>3. Len(stored) > 0 => Audit!getLastAuditHash = Len(stored)
    BY <1>2, <1>3, <2>1, <2>2 DEF Audit!getLastAuditHash, Audit!Last, Places, Serial, Chained
  <2>4. \A m \in 2..n : stored'[m].previousHash = m - 1
    BY <1>3, <2>1, <2>3 DEF Serial, n
  <2>5. \A d \in AuditCalls : ~Free(d)' => busy'[d].entry = n
    BY <1>5, <1>11 DEF Free
  <2>6. ~(\A d \in AuditCalls : Free(d)')
    BY <1>5
  <2>7. Len(trail') = IF \A d \in AuditCalls : Free(d)' THEN n ELSE n - 1
    BY <1>3, <1>4, <2>2, <2>6 DEF n
  <2>8. Serial'
    BY <1>3, <1>4, <2>1, <2>4, <2>5, <2>7 DEF Serial
  <2> QED
    BY <1>7, <1>8, <2>1, <2>8 DEF AuditInv
<1> QED
  BY <1>9, <1>10, <1>11

(* The entry the call awaited becomes the last linked one.                       *)
LEMMA LinkedNext ==
    ASSUME AuditConstants, AuditInv, NEW c \in AuditCalls, Audit!Linked(c)
    PROVE  AuditInv'
<1> DEFINE n == busy[c].entry
           k == Len(trail) + 1
<1>1. /\ ~Free(c) /\ trail' = Append(trail, n)
      /\ alerted' = IF Audit!Violations(stored[n]) = {} THEN alerted ELSE alerted \cup {n}
      /\ requests' = IF busy[c].next = "request" THEN requests \cup {n} ELSE requests
      /\ busy' = [busy EXCEPT ![c] = None]
      /\ UNCHANGED <<stored, overlapped>>
  BY DEF Audit!Linked, Free
<1>2. Chained /\ AuditPending /\ (overlapped => Forked) /\ (~overlapped => Serial)
  BY DEF AuditInv
<1>3. n \in 1..Len(stored) /\ \A i \in Places : trail[i] # n
  BY <1>1, <1>2 DEF AuditPending
<1>4. /\ trail' \in Seq(Nat) /\ Len(trail) \in Nat /\ Len(trail') = k /\ trail'[k] = n
      /\ \A i \in Places : trail'[i] = trail[i]
  BY <1>1, <1>2, <1>3 DEF Chained, Places
<1>5. /\ Free(c)' /\ busy' \in [AuditCalls -> Awaited \cup {None}]
      /\ \A d \in AuditCalls : d # c => busy'[d] = busy[d]
      /\ \A d \in AuditCalls : ~Free(d)' => d # c /\ ~Free(d) /\ busy'[d].entry = busy[d].entry
  BY <1>1, <1>2 DEF AuditPending, Free
<1> HIDE DEF n, k
<1>6. Places' = Places \cup {k} /\ k \notin Places
  BY <1>4 DEF Places, k
<1>7. Chained'
  <2>1. \A i \in Places' : trail'[i] \in 1..Len(stored)
    BY <1>2, <1>3, <1>4, <1>6 DEF Chained
  <2>2. \A i, j \in Places' : trail'[i] = trail'[j] => i = j
    <3>1. \A i, j \in Places : trail[i] = trail[j] => i = j
      BY <1>2 DEF Chained
    <3>2. \A i \in Places : trail'[i] = trail[i] /\ trail'[i] # n
      BY <1>3, <1>4
    <3>3. trail'[k] = n /\ \A i \in Places' : i \in Places \/ i = k
      BY <1>4, <1>6
    <3> QED
      BY <3>1, <3>2, <3>3
  <2> QED
    BY <1>1, <1>2, <1>4, <2>1, <2>2 DEF Chained
<1>8. Audit!Violations(stored[n]) = {}
  <2>1. Classified(stored[n])
    BY <1>2, <1>3 DEF Chained
  <2> QED
    BY <2>1 DEF Audit!Violations, Classified, Audit!shouldEncrypt, Audit!Sensitive
<1>9. AuditPending'
  <2>1. alerted' = {}
    BY <1>1, <1>2, <1>8 DEF AuditPending, n
  <2>2. \A r \in requests' : \E i \in Places' : trail'[i] = r
    <3>1. \A r \in requests' : r \in requests \/ r = n
      BY <1>1 DEF n
    <3>2. \A r \in requests : \E i \in Places' : trail'[i] = r
      BY <1>2, <1>4, <1>6 DEF AuditPending
    <3> QED
      BY <1>4, <1>6, <3>1, <3>2
  <2>3. ASSUME NEW d \in AuditCalls, ~Free(d)'
        PROVE  busy'[d].entry \in 1..Len(stored) /\ \A i \in Places' : trail'[i] # busy'[d].entry
    <3>1. d # c /\ ~Free(d) /\ busy'[d].entry = busy[d].entry
      BY <1>5, <2>3
    <3>2. busy[d].entry # n /\ busy[d].entry \in 1..Len(stored) /\ \A i \in Places : trail[i] # busy[d].entry
      BY <1>1, <1>2, <3>1 DEF AuditPending, n
    <3> QED
      BY <1>4, <1>6, <3>1, <3>2
  <2>4. \A d1, d2 \in AuditCalls : ~Free(d1)' /\ ~Free(d2)' /\ busy'[d1].entry = busy'[d2].entry => d1 = d2
    BY <1>2, <1>5 DEF AuditPending
  <2> QED
    BY <1>1, <1>5, <2>1, <2>2, <2>3, <2>4 DEF AuditPending
<1>10. CASE overlapped
  BY <1>1, <1>2, <1>7, <1>9, <1>10 DEF AuditInv, Forked
<1>11. CASE ~overlapped
  <2>1. Serial
    BY <1>2, <1>11
  <2>2. n = Len(stored) /\ Len(trail) = Len(stored) - 1 /\ Len(stored) \in Nat
    BY <1>1, <1>2, <2>1 DEF Serial, Chained, n
  <2>3. \A d \in AuditCalls : ~Free(d) => d = c
    BY <1>1, <1>2, <2>1 DEF Serial, AuditPending
  <2>4. \A d \in AuditCalls : Free(d)'
    BY <1>5, <2>3
  <2>5. \A i \in Places' : trail'[i] = i
    BY <1>4, <1>6, <2>1, <2>2 DEF Serial, k
  <2>6. Len(trail') = Len(stored)
    BY <1>4, <2>2 DEF k
  <2>7. Serial'
    BY <1>1, <2>1, <2>4, <2>5, <2>6 DEF Serial
  <2> QED
    BY <1>1, <1>7, <1>9, <1>11, <2>7 DEF AuditInv
<1> QED
  BY <1>10, <1>11

LEMMA AuditNext == AuditConstants /\ AuditInv /\ [Audit!Next]_Audit!vars => AuditInv'
<1> SUFFICES ASSUME AuditConstants, AuditInv, [Audit!Next]_Audit!vars PROVE AuditInv'
  OBVIOUS
<1>1. Chained
  BY DEF AuditInv
<1>2. ASSUME NEW c \in AuditCalls, NEW e \in AuditEvents, Audit!recordAuditEvent(c, e) PROVE AuditInv'
  <2>1. e.failed \in BOOLEAN /\ e.action \in {x.action : x \in AuditEvents} \cup {{}} /\ e.resource \cup e.details \subseteq Topics
    BY DEF AuditConstants, Topics
  <2>2. /\ Audit!Entry(e.action, e.resource, e.details, e.failed) \in AuditEntries
        /\ Classified(Audit!Entry(e.action, e.resource, e.details, e.failed))
        /\ Audit!Entry(e.action, e.resource, e.details, e.failed).previousHash = Audit!getLastAuditHash
    BY <1>1, <2>1, EntryType
  <2> QED
    BY <1>2, <2>2, HandedNext DEF Audit!recordAuditEvent
<1>3. ASSUME NEW c \in AuditCalls, NEW failed \in BOOLEAN, NEW next \in {"return", "request"}, Audit!Handed(c, Audit!Entry({}, {}, {}, failed), next)
      PROVE  AuditInv'
  <2>1. /\ Audit!Entry({}, {}, {}, failed) \in AuditEntries /\ Classified(Audit!Entry({}, {}, {}, failed))
        /\ Audit!Entry({}, {}, {}, failed).previousHash = Audit!getLastAuditHash
    <3>1. {} \in {e.action : e \in AuditEvents} \cup {{}} /\ {} \cup {} \subseteq Topics
      OBVIOUS
    <3> QED
      BY <1>1, <3>1, EntryType
  <2> QED
    BY <1>3, <2>1, HandedNext
<1>4. ASSUME NEW c \in AuditCalls, Audit!handleDomainEvent(c) \/ Audit!processDataSubjectRequest(c) \/ Audit!verifyAuditIntegrity(c) \/ \E sign \in BOOLEAN : Audit!exportAuditData(c, sign)
      PROVE  AuditInv'
  BY <1>3, <1>4 DEF Audit!handleDomainEvent, Audit!processDataSubjectRequest, Audit!verifyAuditIntegrity, Audit!exportAuditData
<1>5. ASSUME NEW c \in AuditCalls, Audit!Linked(c) PROVE AuditInv'
  BY <1>5, LinkedNext
<1>6. CASE UNCHANGED Audit!vars
  BY <1>6 DEF Audit!vars, AuditInv, Chained, AuditPending, Serial, Forked, Places, Free
<1> QED
  BY <1>2, <1>4, <1>5, <1>6 DEF Audit!Next

LEMMA AuditProps == AuditConstants /\ AuditInv => Audit!TypeOK /\ Audit!SerialVerifies /\ Audit!ClassifiedIsEncrypted
<1> SUFFICES ASSUME AuditConstants, AuditInv PROVE Audit!TypeOK /\ Audit!SerialVerifies /\ Audit!ClassifiedIsEncrypted
  OBVIOUS
<1>1. Chained /\ AuditPending /\ (overlapped => Forked) /\ (~overlapped => Serial)
  BY DEF AuditInv
<1>2. DOMAIN stored = 1..Len(stored) /\ DOMAIN trail = Places /\ Len(stored) \in Nat /\ Len(trail) \in Nat
  BY <1>1 DEF Chained, Places
<1>3. Audit!TypeOK
  <2>1. \A n \in DOMAIN stored : stored[n].previousHash \in {None} \cup 1..(n - 1)
    BY <1>1, <1>2 DEF Chained
  <2>2. Audit!Range(trail) \subseteq DOMAIN stored /\ requests \subseteq Audit!Range(trail)
    BY <1>1, <1>2 DEF Chained, AuditPending, Audit!Range
  <2>3. trail \in Bijection(Places, Audit!Range(trail))
    <3>1. trail \in [Places -> Audit!Range(trail)]
      BY <1>1, <1>2 DEF Chained, Audit!Range
    <3>2. \A i, j \in Places : trail[i] = trail[j] => i = j
      BY <1>1 DEF Chained
    <3>3. \A r \in Audit!Range(trail) : \E i \in Places : trail[i] = r
      BY <1>2 DEF Audit!Range
    <3> QED
      BY <1>2, <3>1, <3>2, <3>3 DEF Bijection, Injection, Surjection, IsInjective
  <2>4. ExistsBijection(1..Len(trail), Audit!Range(trail))
    BY <2>3 DEF ExistsBijection, Places
  <2>5. Cardinality(Audit!Range(trail)) = Len(trail)
    BY <1>2, <2>4, FS_CountingElements
  <2> QED
    BY <2>1, <2>2, <2>5, Sizes DEF Audit!TypeOK
<1>4. Audit!SerialVerifies
  <2>1. Audit!corruptedEntries = {} <=> \A n \in DOMAIN stored : ~stored[n].encrypted
    BY DEF Audit!corruptedEntries
  <2>2. ASSUME Audit!corruptedEntries = {}, NEW n \in 1..Len(stored)
        PROVE  n \in Audit!missingEntries <=> n >= 2 /\ stored[n].previousHash # n - 1
    <3>1. Audit!Before(n) = 1..(n - 1)
      BY <2>2 DEF Audit!Before
    <3>2. CASE n >= 2
      <4>1. n - 1 \in 1..(n - 1) /\ \A m \in 1..(n - 1) : n - 1 >= m
        BY <3>2
      <4>2. Audit!Max(1..(n - 1)) = n - 1
        BY <4>1 DEF Audit!Max
      <4>3. 1..(n - 1) # {}
        BY <4>1
      <4> QED
        BY <1>2, <2>2, <3>1, <3>2, <4>2, <4>3 DEF Audit!missingEntries
    <3>3. CASE n < 2
      <4>1. 1..(n - 1) = {}
        BY <3>3
      <4> QED
        BY <3>1, <3>3, <4>1 DEF Audit!missingEntries
    <3> QED
      BY <3>2, <3>3
  <2>3. Audit!missingEntries \subseteq 1..Len(stored)
    BY <1>2 DEF Audit!missingEntries
  <2>4. ASSUME Audit!corruptedEntries = {} PROVE Audit!missingEntries = {} <=> ~overlapped
    <3>1. CASE overlapped
      <4>1. PICK n \in 2..Len(stored) : stored[n].previousHash # n - 1
        BY <1>1, <3>1 DEF Forked
      <4>2. n \in Audit!missingEntries
        BY <2>2, <2>4, <4>1
      <4> QED
        BY <3>1, <4>2
    <3>2. CASE ~overlapped
      <4>1. \A n \in 2..Len(stored) : stored[n].previousHash = n - 1
        BY <1>1, <3>2 DEF Serial
      <4>2. ASSUME NEW n \in Audit!missingEntries PROVE FALSE
        <5>1. n \in 1..Len(stored)
          BY <2>3
        <5>2. n >= 2 /\ stored[n].previousHash # n - 1
          BY <2>2, <2>4, <5>1
        <5> QED
          BY <4>1, <5>1, <5>2
      <4> QED
        BY <3>2, <4>2
    <3> QED
      BY <3>1, <3>2
  <2> QED
    BY <2>1, <2>4 DEF Audit!SerialVerifies, Audit!Verified
<1>5. Audit!ClassifiedIsEncrypted
  <2>1. alerted = {}
    BY <1>1 DEF AuditPending
  <2>2. ASSUME NEW n \in DOMAIN stored
        PROVE  stored[n].encrypted <=> (stored[n].class # "internal") /\ (stored[n].class # "internal" <=> stored[n].frameworks # {})
    <3> DEFINE e == stored[n]
    <3>1. e.encrypted = Audit!shouldEncrypt(e.about) /\ e.class = Audit!classifyData(e.about) /\ e.frameworks = Audit!Frameworks(e.about)
      BY <1>1, <1>2 DEF Chained, Classified
    <3> HIDE DEF e
    <3>2. Audit!shouldEncrypt(e.about) <=> \E t \in Audit!Sensitive : t \in e.about
      BY DEF Audit!shouldEncrypt
    <3>3. Audit!classifyData(e.about) # "internal" <=> \E t \in Audit!Sensitive : t \in e.about
      BY DEF Audit!classifyData, Audit!Sensitive
    <3>4. Audit!Frameworks(e.about) # {} <=> \E t \in Audit!Sensitive : t \in e.about
      BY DEF Audit!Frameworks, Audit!Sensitive
    <3>5. e.encrypted <=> (e.class # "internal") /\ (e.class # "internal" <=> e.frameworks # {})
      BY <3>1, <3>2, <3>3, <3>4
    <3> QED
      BY <3>5 DEF e
  <2> QED
    BY <2>1, <2>2 DEF Audit!ClassifiedIsEncrypted
<1> QED
  BY <1>3, <1>4, <1>5

-----------------------------------------------------------------------------
(* The chain of the blockchain service.  An entry is made and pushed without an  *)
(* await, so it follows the last one, whatever the calls wait for.               *)

States == {"idle", "submitted", "refused", "contract", "signature", "confirmed"}
LedgerPending == {"idle", "submitted", "refused"}

Actions == {"CREATE_SMART_CONTRACT", "SIGN_DOCUMENT", "PROCESS_PAYMENT"}
LedgerEntries == [hash : LedgerCalls, action : Actions, previousHash : LedgerCalls \cup {None}]

Follows == \A n \in DOMAIN ledger :
    ledger[n].previousHash = IF n = 1 THEN None ELSE ledger[n - 1].hash
OnChain(c) == \E n \in DOMAIN ledger : ledger[n].hash = c
(* A call is on the chain from the step that finished it on, and once. *)
Recorded ==
    /\ \A c \in LedgerCalls : ledgerCall[c] \notin LedgerPending <=> OnChain(c)
    /\ \A m, n \in DOMAIN ledger : ledger[m].hash = ledger[n].hash => m = n

LedgerInv ==
    /\ ledger \in Seq(LedgerEntries) /\ ledgerCall \in [LedgerCalls -> States] /\ answered \subseteq LedgerCalls
    /\ Follows /\ Recorded

LEMMA LedgerInit == Ledger!Init => LedgerInv
<1> SUFFICES ASSUME Ledger!Init PROVE LedgerInv
  OBVIOUS
<1>1. ledger \in Seq(LedgerEntries) /\ DOMAIN ledger = {}
  BY DEF Ledger!Init
<1> QED
  BY <1>1 DEF Ledger!Init, LedgerInv, Follows, Recorded, OnChain, States, LedgerPending

(* An entry is made and pushed without an await: it follows the last one. *)
LEMMA LedgerAppend ==
    ASSUME LedgerInv, NEW c \in LedgerCalls, ledgerCall[c] \in LedgerPending, NEW action \in Actions,
           Ledger!addToAuditChain(c, action), NEW state \in States \ LedgerPending,
           ledgerCall' = [ledgerCall EXCEPT ![c] = state], answered' = answered
    PROVE  LedgerInv'
<1> DEFINE len == Len(ledger)
           e == Ledger!Entry(c, action)
<1>1. ledger \in Seq(LedgerEntries) /\ len \in Nat /\ DOMAIN ledger = 1..len
  BY DEF LedgerInv
<1>2. Ledger!PreviousHash \in LedgerCalls \cup {None}
  <2>1. CASE ledger = <<>>
    BY <2>1 DEF Ledger!PreviousHash
  <2>2. CASE ledger # <<>>
    <3>1. len \in DOMAIN ledger /\ ledger[len] \in LedgerEntries
      BY <1>1, <2>2
    <3> QED
      BY <2>2, <3>1 DEF Ledger!PreviousHash, LedgerEntries
  <2> QED
    BY <2>1, <2>2
<1>3. e \in LedgerEntries /\ e.hash = c /\ e.previousHash = Ledger!PreviousHash
  BY <1>2 DEF Ledger!Entry, LedgerEntries
<1>4. ledger' = Append(ledger, e)
  BY DEF Ledger!addToAuditChain
<1> HIDE DEF e
<1>5. /\ ledger' \in Seq(LedgerEntries) /\ DOMAIN ledger' = 1..(len + 1)
      /\ \A n \in 1..len : ledger'[n] = ledger[n]
      /\ ledger'[len + 1] = e
  BY <1>1, <1>3, <1>4
<1>6. Ledger!PreviousHash = IF len + 1 = 1 THEN None ELSE ledger[len].hash
  BY <1>1 DEF Ledger!PreviousHash
<1>7. Follows'
  <2> SUFFICES ASSUME NEW n \in 1..(len + 1)
               PROVE  ledger'[n].previousHash = IF n = 1 THEN None ELSE ledger'[n - 1].hash
    BY <1>5 DEF Follows
  <2>1. CASE n \in 1..len
    <3>1. n # 1 => n - 1 \in 1..len
      BY <1>1, <2>1
    <3> QED
      BY <1>1, <1>5, <2>1, <3>1 DEF LedgerInv, Follows
  <2>2. CASE n = len + 1
    <3>1. n # 1 => n - 1 = len /\ len \in 1..len
      BY <1>1, <2>2
    <3> QED
      BY <1>3, <1>5, <1>6, <2>2, <3>1
  <2> QED
    BY <1>1, <2>1, <2>2
<1>8. \A n \in DOMAIN ledger : ledger[n].hash # c
  BY DEF LedgerInv, Recorded, OnChain
<1>9. \A d \in LedgerCalls : OnChain(d)' <=> OnChain(d) \/ d = c
  BY <1>1, <1>3, <1>5 DEF OnChain
<1>10. Recorded'
  <2>1. \A d \in LedgerCalls : ledgerCall'[d] \notin LedgerPending <=> OnChain(d)'
    BY <1>9 DEF LedgerInv, Recorded
  <2>2. \A m, n \in DOMAIN ledger' : ledger'[m].hash = ledger'[n].hash => m = n
    BY <1>1, <1>3, <1>5, <1>8 DEF LedgerInv, Recorded
  <2> QED
    BY <2>1, <2>2 DEF Recorded
<1> QED
  BY <1>5, <1>7, <1>10 DEF LedgerInv

LEMMA LedgerNext == LedgerInv /\ [Ledger!Next]_Ledger!vars => LedgerInv'
<1> SUFFICES ASSUME LedgerInv, [Ledger!Next]_Ledger!vars PROVE LedgerInv'
  OBVIOUS
<1> USE DEF States, LedgerPending
<1>1. ASSUME NEW c \in LedgerCalls, Ledger!createInvoiceSmartContract(c) PROVE LedgerInv'
  <2>1. /\ ledgerCall[c] \in LedgerPending /\ Ledger!addToAuditChain(c, "CREATE_SMART_CONTRACT")
        /\ ledgerCall' = [ledgerCall EXCEPT ![c] = "contract"] /\ answered' = answered
    BY <1>1 DEF Ledger!createInvoiceSmartContract
  <2>2. "CREATE_SMART_CONTRACT" \in Actions /\ "contract" \in States \ LedgerPending
    BY DEF Actions
  <2> QED
    BY <2>1, <2>2, LedgerAppend
<1>2. ASSUME NEW c \in LedgerCalls, Ledger!signDocument(c) PROVE LedgerInv'
  <2>1. /\ ledgerCall[c] \in LedgerPending /\ Ledger!addToAuditChain(c, "SIGN_DOCUMENT")
        /\ ledgerCall' = [ledgerCall EXCEPT ![c] = "signature"] /\ answered' = answered
    BY <1>2 DEF Ledger!signDocument
  <2>2. "SIGN_DOCUMENT" \in Actions /\ "signature" \in States \ LedgerPending
    BY DEF Actions
  <2> QED
    BY <2>1, <2>2, LedgerAppend
<1>3. ASSUME NEW c \in LedgerCalls, Ledger!Confirmed(c) PROVE LedgerInv'
  <2>1. /\ ledgerCall[c] \in LedgerPending /\ Ledger!addToAuditChain(c, "PROCESS_PAYMENT")
        /\ ledgerCall' = [ledgerCall EXCEPT ![c] = "confirmed"] /\ answered' = answered
    BY <1>3 DEF Ledger!Confirmed
  <2>2. "PROCESS_PAYMENT" \in Actions /\ "confirmed" \in States \ LedgerPending
    BY DEF Actions
  <2> QED
    BY <2>1, <2>2, LedgerAppend
<1>4. ASSUME NEW c \in LedgerCalls, Ledger!processPayment(c) PROVE LedgerInv'
  BY <1>4 DEF Ledger!processPayment, LedgerInv, Follows, Recorded, OnChain
<1>5. ASSUME NEW c \in LedgerCalls, Ledger!Answer(c) PROVE LedgerInv'
  BY <1>5 DEF Ledger!Answer, LedgerInv, Follows, Recorded, OnChain
<1>6. CASE UNCHANGED Ledger!vars
  BY <1>6 DEF Ledger!vars, LedgerInv, Follows, Recorded, OnChain
<1> QED
  BY <1>1, <1>2, <1>3, <1>4, <1>5, <1>6 DEF Ledger!Next

LEMMA LedgerProps == LedgerInv => Ledger!TypeOK /\ Ledger!LedgerVerifies
<1>1. LedgerInv => Ledger!LedgerVerifies
  BY DEF LedgerInv, Ledger!LedgerVerifies, Follows, Recorded, OnChain, Ledger!Invalid, LedgerPending
<1>2. ASSUME LedgerInv PROVE Ledger!TypeOK
  <2>1. ledger \in Seq(LedgerEntries) /\ answered \subseteq LedgerCalls
    BY <1>2 DEF LedgerInv
  <2>2. \A n \in DOMAIN ledger : ledger[n] \in LedgerEntries
    BY <2>1
  <2> QED
    BY <2>1, <2>2 DEF Ledger!TypeOK, LedgerEntries
<1> QED
  BY <1>1, <1>2

-----------------------------------------------------------------------------
(* The dashboard gateway.  An entry of either map that is left out when it is    *)
(* empty reads as the empty set.                                                 *)

DashboardConstants == None \notin SUBSET Metrics /\ None \notin SUBSET Clients

DashboardInv ==
    /\ watching \in [Clients -> (SUBSET Metrics) \cup {None}]
    /\ activeSubscriptions \in [Metrics -> ((SUBSET Clients) \ {{}}) \cup {None}]
    /\ shown \in [Clients -> [Metrics -> 0..ticks]] /\ metricsCache \in [Metrics -> 0..ticks] /\ ticks \in Nat
    /\ Dashboard!MapsAgree

LEMMA DashboardInit == DashboardConstants /\ Dashboard!Init => DashboardInv
BY DEF DashboardConstants, Dashboard!Init, DashboardInv, Dashboard!MapsAgree, Dashboard!Subscribers, Dashboard!Connected

LEMMA SubscribersType ==
    ASSUME DashboardInv, NEW m \in Metrics
    PROVE  Dashboard!Subscribers(m) \in SUBSET Clients
BY DEF DashboardInv, Dashboard!Subscribers

(* An entry of the map that is left out when it is empty reads as the set. *)
LEMMA WithoutReads ==
    ASSUME DashboardConstants, DashboardInv, NEW c \in Clients, NEW ms, activeSubscriptions' = Dashboard!Without(c, ms)
    PROVE  /\ activeSubscriptions' \in [Metrics -> ((SUBSET Clients) \ {{}}) \cup {None}]
           /\ \A m \in Metrics : Dashboard!Subscribers(m)' = IF m \in ms THEN Dashboard!Subscribers(m) \ {c} ELSE Dashboard!Subscribers(m)
<1>1. ASSUME NEW m \in Metrics
      PROVE  /\ activeSubscriptions'[m] \in ((SUBSET Clients) \ {{}}) \cup {None}
             /\ Dashboard!Subscribers(m)' = IF m \in ms THEN Dashboard!Subscribers(m) \ {c} ELSE Dashboard!Subscribers(m)
  <2>1. CASE m \notin ms
    <3>1. activeSubscriptions'[m] = activeSubscriptions[m]
      BY <1>1, <2>1 DEF Dashboard!Without
    <3> QED
      BY <1>1, <2>1, <3>1 DEF DashboardInv, Dashboard!Subscribers
  <2>2. CASE m \in ms
    <3> DEFINE left == Dashboard!Subscribers(m) \ {c}
    <3>1. activeSubscriptions'[m] = Dashboard!OrAbsent(left)
      BY <1>1, <2>2 DEF Dashboard!Without
    <3>2. left \in SUBSET Clients /\ left # None
      BY <1>1, SubscribersType DEF DashboardConstants
    <3> HIDE DEF left
    <3>3. Dashboard!Subscribers(m)' = left
      BY <3>1, <3>2 DEF Dashboard!Subscribers, Dashboard!OrAbsent
    <3> QED
      BY <2>2, <3>1, <3>2, <3>3 DEF Dashboard!OrAbsent, left
  <2> QED
    BY <2>1, <2>2
<1> QED
  BY <1>1 DEF Dashboard!Without

(* Who is connected after a step that changes one client. *)
LEMMA ClientChanged ==
    ASSUME DashboardInv, NEW c \in Clients, NEW ms \in (SUBSET Metrics) \cup {None},
           watching' = [watching EXCEPT ![c] = ms]
    PROVE  /\ watching' \in [Clients -> (SUBSET Metrics) \cup {None}]
           /\ watching'[c] = ms
           /\ \A d \in Clients : d # c => watching'[d] = watching[d]
BY DEF DashboardInv

LEMMA DashboardNext == DashboardConstants /\ DashboardInv /\ [Dashboard!Next]_Dashboard!vars => DashboardInv'
<1> SUFFICES ASSUME DashboardConstants, DashboardInv, [Dashboard!Next]_Dashboard!vars PROVE DashboardInv'
  OBVIOUS
<1>1. ASSUME NEW c \in Clients, Dashboard!handleConnection(c) PROVE DashboardInv'
  <2>1. watching[c] = None /\ watching' = [watching EXCEPT ![c] = {}]
    BY <1>1 DEF Dashboard!handleConnection
  <2>2. UNCHANGED <<activeSubscriptions, metricsCache, ticks>> /\ \A m \in Metrics : Dashboard!Subscribers(m)' = Dashboard!Subscribers(m)
    BY <1>1 DEF Dashboard!handleConnection, Dashboard!Subscribers
  <2>3. /\ watching' \in [Clients -> (SUBSET Metrics) \cup {None}]
        /\ watching'[c] = {}
        /\ \A d \in Clients : d # c => watching'[d] = watching[d]
    BY <2>1, ClientChanged
  <2>4. shown' \in [Clients -> [Metrics -> 0..ticks']] /\ \A d \in Clients : d # c => shown'[d] = shown[d]
    BY <1>1 DEF Dashboard!handleConnection, DashboardInv
  <2>5. \A m \in Metrics : c \notin Dashboard!Subscribers(m)
    BY <2>1 DEF DashboardInv, Dashboard!MapsAgree, Dashboard!Connected
  <2>6. Dashboard!MapsAgree'
    BY <2>1, <2>2, <2>3, <2>4, <2>5, SubscribersType DEF DashboardInv, Dashboard!MapsAgree, Dashboard!Connected
  <2> QED
    BY <2>2, <2>3, <2>4, <2>6 DEF DashboardInv
<1>2. ASSUME NEW c \in Clients, Dashboard!handleDisconnect(c) PROVE DashboardInv'
  <2>1. /\ watching[c] # None /\ watching' = [watching EXCEPT ![c] = None]
        /\ activeSubscriptions' = Dashboard!Without(c, watching[c])
        /\ UNCHANGED <<metricsCache, shown, ticks>>
    BY <1>2 DEF Dashboard!handleDisconnect
  <2>2. /\ watching' \in [Clients -> (SUBSET Metrics) \cup {None}]
        /\ watching'[c] = None
        /\ \A d \in Clients : d # c => watching'[d] = watching[d]
    BY <2>1, ClientChanged
  <2>3. /\ activeSubscriptions' \in [Metrics -> ((SUBSET Clients) \ {{}}) \cup {None}]
        /\ \A m \in Metrics : Dashboard!Subscribers(m)' =
               IF m \in watching[c] THEN Dashboard!Subscribers(m) \ {c} ELSE Dashboard!Subscribers(m)
    BY <2>1, WithoutReads
  <2>4. \A m \in Metrics : Dashboard!Subscribers(m)' = Dashboard!Subscribers(m) \ {c}
    BY <2>1, <2>3, SubscribersType DEF DashboardInv, Dashboard!MapsAgree, Dashboard!Connected
  <2>5. Dashboard!MapsAgree'
    BY <2>1, <2>2, <2>4, SubscribersType DEF DashboardInv, Dashboard!MapsAgree, Dashboard!Connected
  <2> QED
    BY <2>1, <2>2, <2>3, <2>5 DEF DashboardInv
<1>3. ASSUME NEW c \in Clients, NEW ms \in SUBSET Metrics, Dashboard!handleSubscribe(c, ms) PROVE DashboardInv'
  <2>1. /\ watching[c] \in SUBSET Metrics
        /\ watching' = [watching EXCEPT ![c] = watching[c] \cup ms]
        /\ UNCHANGED <<metricsCache, ticks>>
    BY <1>3 DEF Dashboard!handleSubscribe, DashboardInv
  <2>2. watching[c] # None /\ watching[c] \cup ms # None
    BY <2>1 DEF DashboardConstants
  <2>3. /\ watching' \in [Clients -> (SUBSET Metrics) \cup {None}]
        /\ watching'[c] = watching[c] \cup ms
        /\ \A d \in Clients : d # c => watching'[d] = watching[d]
    BY <2>1, ClientChanged
  <2>4. ASSUME NEW m \in Metrics
        PROVE  /\ activeSubscriptions'[m] \in ((SUBSET Clients) \ {{}}) \cup {None}
               /\ Dashboard!Subscribers(m)' = IF m \in ms THEN Dashboard!Subscribers(m) \cup {c} ELSE Dashboard!Subscribers(m)
    <3>1. activeSubscriptions'[m] = IF m \in ms THEN Dashboard!Subscribers(m) \cup {c} ELSE activeSubscriptions[m]
      BY <1>3 DEF Dashboard!handleSubscribe
    <3>2. Dashboard!Subscribers(m) \cup {c} \in SUBSET Clients /\ Dashboard!Subscribers(m) \cup {c} # None
      BY SubscribersType DEF DashboardConstants
    <3> QED
      BY <3>1, <3>2 DEF DashboardInv, Dashboard!Subscribers
  <2>5. activeSubscriptions' \in [Metrics -> ((SUBSET Clients) \ {{}}) \cup {None}]
    BY <1>3, <2>4 DEF Dashboard!handleSubscribe
  <2>6. /\ shown' \in [Clients -> [Metrics -> 0..ticks']]
        /\ \A d \in Clients : d # c => shown'[d] = shown[d]
        /\ \A m \in Metrics : shown'[c][m] = IF m \in ms THEN metricsCache[m] ELSE shown[c][m]
    BY <1>3 DEF Dashboard!handleSubscribe, DashboardInv
  <2>7. ASSUME NEW m \in Metrics
        PROVE  /\ Dashboard!Subscribers(m)' = {d \in Clients : watching'[d] # None /\ m \in watching'[d]}
               /\ \A d \in Dashboard!Subscribers(m)' : shown'[d][m] = metricsCache'[m]
    <3>1. /\ Dashboard!Subscribers(m) = {d \in Clients : watching[d] # None /\ m \in watching[d]}
          /\ \A d \in Dashboard!Subscribers(m) : shown[d][m] = metricsCache[m]
      BY DEF DashboardInv, Dashboard!MapsAgree, Dashboard!Connected
    <3> QED
      BY <2>1, <2>2, <2>3, <2>4, <2>6, <3>1
  <2>8. Dashboard!MapsAgree'
    BY <2>7 DEF Dashboard!MapsAgree, Dashboard!Connected
  <2> QED
    BY <2>1, <2>3, <2>5, <2>6, <2>8 DEF DashboardInv
<1>4. ASSUME NEW c \in Clients, NEW ms \in SUBSET Metrics, Dashboard!handleUnsubscribe(c, ms) PROVE DashboardInv'
  <2>1. /\ watching[c] \in SUBSET Metrics /\ watching[c] # None
        /\ watching' = [watching EXCEPT ![c] = watching[c] \ ms]
        /\ activeSubscriptions' = Dashboard!Without(c, ms)
        /\ UNCHANGED <<metricsCache, shown, ticks>>
    BY <1>4 DEF Dashboard!handleUnsubscribe, DashboardInv
  <2>2. watching[c] \ ms # None
    BY <2>1 DEF DashboardConstants
  <2>3. /\ watching' \in [Clients -> (SUBSET Metrics) \cup {None}]
        /\ watching'[c] = watching[c] \ ms
        /\ \A d \in Clients : d # c => watching'[d] = watching[d]
    BY <2>1, ClientChanged
  <2>4. /\ activeSubscriptions' \in [Metrics -> ((SUBSET Clients) \ {{}}) \cup {None}]
        /\ \A m \in Metrics : Dashboard!Subscribers(m)' = IF m \in ms THEN Dashboard!Subscribers(m) \ {c} ELSE Dashboard!Subscribers(m)
    BY <2>1, WithoutReads
  <2>5. ASSUME NEW m \in Metrics
        PROVE  /\ Dashboard!Subscribers(m)' = {d \in Clients : watching'[d] # None /\ m \in watching'[d]}
               /\ \A d \in Dashboard!Subscribers(m)' : shown'[d][m] = metricsCache'[m]
    <3>1. /\ Dashboard!Subscribers(m) = {d \in Clients : watching[d] # None /\ m \in watching[d]}
          /\ \A d \in Dashboard!Subscribers(m) : shown[d][m] = metricsCache[m]
      BY DEF DashboardInv, Dashboard!MapsAgree, Dashboard!Connected
    <3> QED
      BY <2>1, <2>2, <2>3, <2>4, <3>1
  <2>6. Dashboard!MapsAgree'
    BY <2>5 DEF Dashboard!MapsAgree, Dashboard!Connected
  <2> QED
    BY <2>1, <2>3, <2>4, <2>6 DEF DashboardInv
<1>5. ASSUME Dashboard!Tick PROVE DashboardInv'
  <2>1. UNCHANGED <<watching, activeSubscriptions>> /\ ticks' = ticks + 1 /\ ticks' \in Nat
    BY <1>5 DEF Dashboard!Tick, DashboardInv
  <2>2. /\ metricsCache' \in [Metrics -> 0..ticks']
        /\ \A m \in Metrics : metricsCache'[m] =
               IF m \in Available /\ Dashboard!Subscribers(m) # {} THEN ticks' ELSE metricsCache[m]
    BY <1>5, <2>1 DEF Dashboard!Tick, Dashboard!broadcastMetricUpdate, DashboardInv
  <2>3. /\ shown' \in [Clients -> [Metrics -> 0..ticks']]
        /\ \A c \in Clients, m \in Metrics : shown'[c][m] =
               IF m \in Available /\ c \in Dashboard!Subscribers(m) \cap Dashboard!Connected THEN ticks' ELSE shown[c][m]
    BY <1>5, <2>1 DEF Dashboard!Tick, Dashboard!broadcastMetricUpdate, DashboardInv
  <2>4. Dashboard!Connected' = Dashboard!Connected /\ \A m \in Metrics : Dashboard!Subscribers(m)' = Dashboard!Subscribers(m)
    BY <2>1 DEF Dashboard!Connected, Dashboard!Subscribers
  <2>5. \A m \in Metrics : Dashboard!Subscribers(m) \subseteq Dashboard!Connected /\ Dashboard!Connected \subseteq Clients
    BY DEF DashboardInv, Dashboard!MapsAgree, Dashboard!Connected
  <2>6. Dashboard!MapsAgree'
    BY <2>1, <2>2, <2>3, <2>4, <2>5 DEF DashboardInv, Dashboard!MapsAgree
  <2> QED
    BY <2>1, <2>2, <2>3, <2>6 DEF DashboardInv
<1>6. ASSUME NEW config, Dashboard!handleUpdateWidget(config) PROVE DashboardInv'
  BY <1>6 DEF Dashboard!handleUpdateWidget, DashboardInv, Dashboard!MapsAgree, Dashboard!Subscribers, Dashboard!Connected
<1>7. CASE UNCHANGED Dashboard!vars
  BY <1>7 DEF Dashboard!vars, DashboardInv, Dashboard!MapsAgree, Dashboard!Subscribers, Dashboard!Connected
<1> QED
  BY <1>1, <1>2, <1>3, <1>4, <1>5, <1>6, <1>7 DEF Dashboard!Next

LEMMA DashboardProps == DashboardInv => Dashboard!TypeOK /\ Dashboard!MapsAgree
BY DEF DashboardInv, Dashboard!TypeOK

-----------------------------------------------------------------------------
(* The admin gateway.  Whoever hears of activity is in the room that the         *)
(* administrators are in, and a clock runs only if somebody started it.          *)

(* Whoever follows a user is an admin, so the two maps of sockets and the rooms  *)
(* say the same after every step; the timers follow on their own.                *)
AdminInv ==
    /\ connected \subseteq Sockets
    /\ userSockets \in [Users -> SUBSET Sockets] /\ rooms \in [Admin!Rooms -> SUBSET Sockets]
    /\ Admin!MapsAgree
AdminHeard == \A s \in Sockets : "user_activity" \in received[s] => "admin_notification" \in received[s]
AdminClock ==
    /\ started \in Nat /\ metricsInterval \in 0..started /\ timers \subseteq 1..started
    /\ timers \ {metricsInterval} \subseteq outlived

LEMMA AdminRooms ==
    /\ Admin!admin_room \in Admin!Rooms /\ \A u \in Users : Admin!activity(u) \in Admin!Rooms
    /\ Admin!audit_logs \in Admin!Rooms /\ Admin!performance \in Admin!Rooms
BY DEF Admin!Rooms

LEMMA AdminInit == Admin!Init => AdminInv /\ AdminHeard /\ AdminClock
<1> SUFFICES ASSUME Admin!Init PROVE AdminInv /\ AdminHeard /\ AdminClock
  OBVIOUS
<1>1. AdminInv
  BY AdminRooms DEF Admin!Init, AdminInv, Admin!MapsAgree
<1>2. AdminHeard
  BY DEF Admin!Init, AdminHeard
<1>3. AdminClock
  BY DEF Admin!Init, AdminClock
<1> QED
  BY <1>1, <1>2, <1>3

LEMMA AdminConnection ==
    ASSUME AdminInv, NEW s \in Sockets, NEW u \in Users, Admin!handleConnection(s, u)
    PROVE  AdminInv'
<1>1. /\ s \notin connected /\ connected' = connected \cup {s}
      /\ userSockets' = [userSockets EXCEPT ![u] = @ \cup {s}]
      /\ rooms' = [rooms EXCEPT ![Admin!admin_room] = @ \cup {s}]
  BY DEF Admin!handleConnection
<1>2. /\ userSockets' \in [Users -> SUBSET Sockets] /\ userSockets'[u] = userSockets[u] \cup {s}
      /\ \A v \in Users : v # u => userSockets'[v] = userSockets[v]
  BY <1>1 DEF AdminInv
<1>3. /\ rooms' \in [Admin!Rooms -> SUBSET Sockets] /\ rooms'[Admin!admin_room] = rooms[Admin!admin_room] \cup {s}
      /\ \A r \in Admin!Rooms : r # Admin!admin_room => rooms'[r] = rooms[r]
  BY <1>1, AdminRooms DEF AdminInv
<1>4. \A v \in Users : s \notin userSockets[v]
  BY <1>1 DEF AdminInv, Admin!MapsAgree
<1>5. connected' = UNION {userSockets'[v] : v \in Users}
  BY <1>1, <1>2 DEF AdminInv, Admin!MapsAgree
<1>6. \A v, w \in Users : v # w => userSockets'[v] \cap userSockets'[w] = {}
  BY <1>2, <1>4 DEF AdminInv, Admin!MapsAgree
<1>7. rooms'[Admin!admin_room] = connected' /\ \A r \in Admin!Rooms : rooms'[r] \subseteq connected'
  BY <1>1, <1>3 DEF AdminInv, Admin!MapsAgree
<1> QED
  BY <1>1, <1>2, <1>3, <1>5, <1>6, <1>7 DEF AdminInv, Admin!MapsAgree

LEMMA AdminDisconnect ==
    ASSUME AdminInv, NEW s \in Sockets, Admin!handleDisconnect(s)
    PROVE  AdminInv'
<1>1. /\ connected' = connected \ {s} /\ rooms' = [r \in Admin!Rooms |-> rooms[r] \ {s}]
  BY DEF Admin!handleDisconnect
<1>2. PICK u \in Users : s \in userSockets[u] /\ userSockets' = [userSockets EXCEPT ![u] = @ \ {s}]
  BY DEF Admin!handleDisconnect
<1>3. /\ userSockets' \in [Users -> SUBSET Sockets] /\ userSockets'[u] = userSockets[u] \ {s}
      /\ \A v \in Users : v # u => userSockets'[v] = userSockets[v]
  BY <1>2 DEF AdminInv
<1>4. \A v \in Users : v # u => s \notin userSockets[v]
  BY <1>2 DEF AdminInv, Admin!MapsAgree
<1>5. connected' = UNION {userSockets'[v] : v \in Users}
  BY <1>1, <1>3, <1>4 DEF AdminInv, Admin!MapsAgree
<1>6. \A v, w \in Users : v # w => userSockets'[v] \cap userSockets'[w] = {}
  BY <1>3 DEF AdminInv, Admin!MapsAgree
<1>7. rooms' \in [Admin!Rooms -> SUBSET Sockets]
  BY <1>1 DEF AdminInv
<1>8. rooms'[Admin!admin_room] = connected' /\ \A r \in Admin!Rooms : rooms'[r] \subseteq connected'
  BY <1>1, AdminRooms DEF AdminInv, Admin!MapsAgree
<1> QED
  BY <1>1, <1>3, <1>5, <1>6, <1>7, <1>8 DEF AdminInv, Admin!MapsAgree

(* Joining and leaving a room other than the admins'. *)
LEMMA AdminRoomChanged ==
    ASSUME AdminInv, NEW s \in connected, NEW r \in Admin!Rooms \ {Admin!admin_room}, NEW members,
           members = rooms[r] \cup {s} \/ members = rooms[r] \ {s},
           rooms' = [rooms EXCEPT ![r] = members], UNCHANGED <<connected, userSockets>>
    PROVE  AdminInv'
<1>1. members \subseteq connected /\ connected \subseteq Sockets
  BY DEF AdminInv, Admin!MapsAgree
<1>2. rooms' \in [Admin!Rooms -> SUBSET Sockets]
  BY <1>1 DEF AdminInv
<1>3. \A q \in Admin!Rooms : rooms'[q] = IF q = r THEN members ELSE rooms[q]
  BY DEF AdminInv
<1>4. rooms'[Admin!admin_room] = rooms[Admin!admin_room] /\ \A q \in Admin!Rooms : rooms'[q] \subseteq connected
  BY <1>1, <1>3, AdminRooms DEF AdminInv, Admin!MapsAgree
<1> QED
  BY <1>2, <1>4 DEF AdminInv, Admin!MapsAgree

LEMMA AdminSame == ASSUME AdminInv, UNCHANGED Admin!sockets PROVE AdminInv'
BY DEF AdminInv, Admin!MapsAgree, Admin!sockets

LEMMA AdminQuiet == ASSUME Admin!Quiet PROVE AdminHeard'
BY DEF Admin!Quiet, AdminHeard

LEMMA AdminClockSame == ASSUME AdminClock, UNCHANGED Admin!clock PROVE AdminClock'
BY DEF AdminClock, Admin!clock

LEMMA AdminEmit ==
    ASSUME AdminInv, AdminClock, NEW what, Admin!Emit(what),
           "user_activity" \in DOMAIN what =>
               "admin_notification" \in DOMAIN what /\ what["user_activity"] \subseteq what["admin_notification"]
    PROVE  AdminInv' /\ AdminHeard' /\ AdminClock'
<1>1. UNCHANGED <<Admin!sockets, Admin!clock>> /\ received' = [s \in Sockets |-> {w \in DOMAIN what : s \in what[w]}]
  BY DEF Admin!Emit
<1>2. AdminHeard'
  BY <1>1 DEF AdminHeard
<1> QED
  BY <1>1, <1>2, AdminSame, AdminClockSame

LEMMA AdminTimers ==
    ASSUME AdminClock, Admin!startMetricsCollection \/ Admin!stopMetricsCollection
    PROVE  AdminClock'
<1>1. CASE Admin!startMetricsCollection
  <2>1. /\ started' = started + 1 /\ timers' = timers \cup {started + 1} /\ metricsInterval' = started + 1
        /\ outlived' = outlived \cup (timers \cap {metricsInterval})
    BY <1>1 DEF Admin!startMetricsCollection
  <2>2. started' \in Nat /\ metricsInterval' \in 0..started'
    BY <2>1 DEF AdminClock
  <2>3. timers' \subseteq 1..started'
    BY <2>1 DEF AdminClock
  <2>4. timers' \ {metricsInterval'} \subseteq outlived'
    BY <2>1 DEF AdminClock
  <2> QED
    BY <2>2, <2>3, <2>4 DEF AdminClock
<1>2. CASE Admin!stopMetricsCollection
  BY <1>2 DEF Admin!stopMetricsCollection, AdminClock
<1> QED
  BY <1>1, <1>2

LEMMA AdminNext ==
    AdminInv /\ AdminHeard /\ AdminClock /\ [Admin!Next]_Admin!vars => AdminInv' /\ AdminHeard' /\ AdminClock'
<1> SUFFICES ASSUME AdminInv, AdminHeard, AdminClock, [Admin!Next]_Admin!vars
             PROVE  AdminInv' /\ AdminHeard' /\ AdminClock'
  OBVIOUS
<1>1. ASSUME NEW s \in Sockets, NEW u \in Users, Admin!handleConnection(s, u)
      PROVE  AdminInv' /\ AdminHeard' /\ AdminClock'
  <2>1. UNCHANGED Admin!clock /\ received' = [t \in Sockets |-> IF t = s THEN {"admin_connected"} ELSE {}]
    BY <1>1 DEF Admin!handleConnection
  <2>2. AdminHeard'
    BY <2>1 DEF AdminHeard
  <2> QED
    BY <1>1, <2>1, <2>2, AdminConnection, AdminClockSame
<1>2. ASSUME NEW s \in Sockets, Admin!handleDisconnect(s)
      PROVE  AdminInv' /\ AdminHeard' /\ AdminClock'
  <2>1. UNCHANGED Admin!clock /\ Admin!Quiet
    BY <1>2 DEF Admin!handleDisconnect
  <2> QED
    BY <1>2, <2>1, AdminDisconnect, AdminQuiet, AdminClockSame
<1>3. ASSUME NEW s \in Sockets, NEW r \in Admin!Rooms \ {Admin!admin_room}, Admin!Subscribe(s, r) \/ Admin!Unsubscribe(s, r)
      PROVE  AdminInv' /\ AdminHeard' /\ AdminClock'
  <2>1. UNCHANGED <<connected, userSockets>> /\ UNCHANGED Admin!clock /\ Admin!Quiet /\ s \in connected
    BY <1>3 DEF Admin!Subscribe, Admin!Unsubscribe
  <2>2. rooms' = [rooms EXCEPT ![r] = rooms[r] \cup {s}] \/ rooms' = [rooms EXCEPT ![r] = rooms[r] \ {s}]
    BY <1>3 DEF Admin!Subscribe, Admin!Unsubscribe
  <2>3. AdminInv'
    BY <2>1, <2>2, AdminRoomChanged
  <2> QED
    BY <2>1, <2>3, AdminQuiet, AdminClockSame
<1>4. ASSUME NEW u \in Users, Admin!emitUserAction(u)
      PROVE  AdminInv' /\ AdminHeard' /\ AdminClock'
  <2> DEFINE what == [admin_notification |-> rooms[Admin!admin_room], user_activity |-> rooms[Admin!activity(u)]]
  <2>1. Admin!Emit(what)
    BY <1>4 DEF Admin!emitUserAction
  <2>2. rooms[Admin!activity(u)] \subseteq rooms[Admin!admin_room]
    BY AdminRooms DEF AdminInv, Admin!MapsAgree
  <2>3. "admin_notification" \in DOMAIN what /\ what["user_activity"] \subseteq what["admin_notification"]
    BY <2>2
  <2> HIDE DEF what
  <2> QED
    BY <2>1, <2>3, AdminEmit
<1>5. ASSUME NEW u \in Users, Admin!sendToUser(u)
      PROVE  AdminInv' /\ AdminHeard' /\ AdminClock'
  <2> DEFINE what == [own |-> userSockets[u] \cap connected]
  <2>1. Admin!Emit(what) /\ "user_activity" \notin DOMAIN what
    BY <1>5 DEF Admin!sendToUser
  <2> HIDE DEF what
  <2> QED
    BY <2>1, AdminEmit
<1>6. ASSUME Admin!emitSystemAlert PROVE AdminInv' /\ AdminHeard' /\ AdminClock'
  <2> DEFINE what == [admin_notification |-> rooms[Admin!admin_room]]
  <2>1. Admin!Emit(what) /\ "user_activity" \notin DOMAIN what
    BY <1>6 DEF Admin!emitSystemAlert
  <2> HIDE DEF what
  <2> QED
    BY <2>1, AdminEmit
<1>7. ASSUME Admin!emitSecurityEvent PROVE AdminInv' /\ AdminHeard' /\ AdminClock'
  <2> DEFINE what == [admin_notification |-> rooms[Admin!admin_room], security_alert |-> rooms[Admin!admin_room]]
  <2>1. Admin!Emit(what) /\ "user_activity" \notin DOMAIN what
    BY <1>7 DEF Admin!emitSecurityEvent
  <2> HIDE DEF what
  <2> QED
    BY <2>1, AdminEmit
<1>8. ASSUME Admin!emitAuditLog PROVE AdminInv' /\ AdminHeard' /\ AdminClock'
  <2> DEFINE what == [new_audit_log |-> rooms[Admin!audit_logs]]
  <2>1. Admin!Emit(what) /\ "user_activity" \notin DOMAIN what
    BY <1>8 DEF Admin!emitAuditLog
  <2> HIDE DEF what
  <2> QED
    BY <2>1, AdminEmit
<1>9. ASSUME Admin!broadcastPerformanceMetrics PROVE AdminInv' /\ AdminHeard' /\ AdminClock'
  <2> DEFINE what == [performance_metrics |-> rooms[Admin!performance]]
  <2>1. Admin!Emit(what) /\ "user_activity" \notin DOMAIN what
    BY <1>9 DEF Admin!broadcastPerformanceMetrics
  <2> HIDE DEF what
  <2> QED
    BY <2>1, AdminEmit
<1>10. ASSUME Admin!startMetricsCollection \/ Admin!stopMetricsCollection PROVE AdminInv' /\ AdminHeard' /\ AdminClock'
  <2>1. UNCHANGED Admin!sockets /\ Admin!Quiet
    BY <1>10 DEF Admin!startMetricsCollection, Admin!stopMetricsCollection
  <2> QED
    BY <1>10, <2>1, AdminSame, AdminQuiet, AdminTimers
<1>11. ASSUME Admin!collectSystemMetrics \/ Admin!broadcastSystemMetrics PROVE AdminInv' /\ AdminHeard' /\ AdminClock'
  <2>1. UNCHANGED Admin!sockets /\ UNCHANGED <<timers, metricsInterval, started, outlived>>
    BY <1>11 DEF Admin!collectSystemMetrics, Admin!broadcastSystemMetrics
  <2>2. AdminHeard'
    BY <1>11 DEF Admin!collectSystemMetrics, Admin!broadcastSystemMetrics, Admin!Quiet, AdminHeard
  <2>3. AdminClock'
    BY <2>1 DEF AdminClock
  <2> QED
    BY <2>1, <2>2, <2>3, AdminSame
<1>12. CASE UNCHANGED Admin!vars
  <2>1. UNCHANGED Admin!sockets /\ UNCHANGED Admin!clock /\ received' = received
    BY <1>12 DEF Admin!vars, Admin!sockets, Admin!clock
  <2>2. AdminHeard'
    BY <2>1 DEF AdminHeard
  <2> QED
    BY <2>1, <2>2, AdminSame, AdminClockSame
<1> QED
  BY <1>1, <1>2, <1>3, <1>4, <1>5, <1>6, <1>7, <1>8, <1>9, <1>10, <1>11, <1>12 DEF Admin!Next

LEMMA AdminProps ==
    AdminInv /\ AdminHeard /\ AdminClock => Admin!TypeOK /\ Admin!MapsAgree /\ Admin!EventsReachAdmins
BY DEF AdminInv, AdminHeard, AdminClock, Admin!TypeOK, Admin!EventsReachAdmins

-----------------------------------------------------------------------------
(* The billing service's aggregate.  What was paid is compared with the total    *)
(* once, and neither the items nor the status of a paid invoice change.          *)

BillConstants == None \notin [amount : BillAmounts, currency : Currencies]
EventNames == {"InvoiceCreated", "InvoiceSent", "InvoicePaid", "InvoiceOverdue"}

(* What was paid is compared with the total once, and a paid invoice changes no  *)
(* more: neither the items nor the status.                                       *)
BillInv ==
    /\ billStatus \in {"none", "DRAFT", "SENT", "OVERDUE", "PAID", "CANCELLED"}
    /\ lineItems \in Seq(Bill!LineItems) /\ events \in Seq(EventNames)
    /\ (billStatus # "none") = (lineItems # <<>>)
    /\ (billStatus = "none") = (events = <<>>)
    /\ Bill!PaidInFull

LEMMA BillInit == Bill!Init => BillInv
<1> SUFFICES ASSUME Bill!Init PROVE BillInv
  OBVIOUS
<1>1. /\ billStatus = "none" /\ lineItems = <<>> /\ paid = None /\ events = <<>>
  BY DEF Bill!Init
<1>2. DOMAIN events = {}
  BY <1>1
<1> QED
  BY <1>1, <1>2 DEF BillInv, Bill!PaidInFull

(* An event at the end of those there are: the one that tells of the payment    *)
(* stays the last.                                                               *)
LEMMA BillEvents ==
    ASSUME BillInv, billStatus # "PAID", NEW event \in EventNames, events' = Append(events, event)
    PROVE  /\ events' \in Seq(EventNames) /\ events' # <<>>
           /\ \A n \in DOMAIN events' : events'[n] = "InvoicePaid" => n = Len(events') /\ event = "InvoicePaid"
<1>1. events \in Seq(EventNames) /\ \A n \in DOMAIN events : events[n] # "InvoicePaid"
  BY DEF BillInv, Bill!PaidInFull
<1>2. events' \in Seq(EventNames) /\ Len(events') = Len(events) + 1 /\ events'[Len(events) + 1] = event
  BY <1>1
<1>3. \A n \in 1..Len(events) : events'[n] = events[n]
  BY <1>1
<1>4. Len(events) \in Nat /\ DOMAIN events = 1..Len(events) /\ DOMAIN events' = 1..(Len(events) + 1)
  BY <1>1, <1>2
<1>5. ASSUME NEW n \in DOMAIN events', events'[n] = "InvoicePaid"
      PROVE  n = Len(events') /\ event = "InvoicePaid"
  <2>1. n \notin 1..Len(events)
    BY <1>1, <1>3, <1>4, <1>5
  <2>2. n = Len(events) + 1
    BY <1>4, <2>1
  <2> QED
    BY <1>2, <1>5, <2>2
<1>6. events' # <<>>
  BY <1>2, <1>4
<1> QED
  BY <1>2, <1>5, <1>6

LEMMA BillCreate ==
    ASSUME BillInv, NEW s \in Seq(Bill!LineItems), s # <<>>, Bill!create(s)
    PROVE  BillInv'
<1>1. /\ billStatus = "none" /\ billStatus' = "DRAFT" /\ lineItems' = s /\ events' = <<"InvoiceCreated">> /\ paid' = paid
  BY DEF Bill!create
<1>2. paid = None
  BY <1>1 DEF BillInv, Bill!PaidInFull
<1>3. events' \in Seq(EventNames) /\ events' # <<>> /\ \A n \in DOMAIN events' : events'[n] # "InvoicePaid"
  <2>1. <<"InvoiceCreated">> \in Seq(EventNames) /\ Len(<<"InvoiceCreated">>) = 1 /\ <<"InvoiceCreated">>[1] = "InvoiceCreated"
    BY DEF EventNames
  <2>2. \A n \in DOMAIN events' : n = 1
    BY <1>1, <2>1
  <2> QED
    BY <1>1, <2>1, <2>2
<1> QED
  BY <1>1, <1>2, <1>3 DEF BillInv, Bill!PaidInFull

LEMMA BillPaid ==
    ASSUME BillConstants, BillInv, NEW amount \in BillAmounts, NEW currency \in Currencies, Bill!markPaid(amount, currency)
    PROVE  BillInv'
<1> DEFINE total == Bill!calculateTotal(lineItems)
<1>1. /\ billStatus \notin {"none", "PAID", "CANCELLED"} /\ total # None
      /\ currency = total.currency /\ amount >= total.amount
      /\ billStatus' = "PAID" /\ paid' = [amount |-> amount, currency |-> currency]
      /\ events' = Append(events, "InvoicePaid") /\ lineItems' = lineItems
  BY DEF Bill!markPaid
<1>2. Bill!calculateTotal(lineItems)' = total
  BY <1>1
<1> HIDE DEF total
<1>3. paid' # None /\ paid'.amount = amount /\ paid'.currency = currency
  BY <1>1 DEF BillConstants
<1>4. /\ events' \in Seq(EventNames) /\ events' # <<>>
      /\ \A n \in DOMAIN events' : events'[n] = "InvoicePaid" => n = Len(events')
  <2>1. "InvoicePaid" \in EventNames /\ billStatus # "PAID"
    BY <1>1 DEF EventNames
  <2> QED
    BY <1>1, <2>1, BillEvents
<1>5. Bill!PaidInFull'
  BY <1>1, <1>2, <1>3, <1>4 DEF Bill!PaidInFull
<1> QED
  BY <1>1, <1>4, <1>5 DEF BillInv

(* The other steps neither pay nor change what was paid. *)
LEMMA BillMoved ==
    ASSUME BillInv, billStatus \notin {"none", "PAID"}, paid' = paid,
           billStatus' \in {"DRAFT", "SENT", "OVERDUE", "CANCELLED"},
           lineItems' \in Seq(Bill!LineItems), lineItems' # <<>>,
           events' = events \/ \E event \in EventNames \ {"InvoicePaid"} : events' = Append(events, event)
    PROVE  BillInv'
<1>1. paid = None
  BY DEF BillInv, Bill!PaidInFull
<1>2. events' \in Seq(EventNames) /\ events' # <<>> /\ \A n \in DOMAIN events' : events'[n] # "InvoicePaid"
  <2>1. CASE events' = events
    BY <2>1 DEF BillInv, Bill!PaidInFull
  <2>2. CASE \E event \in EventNames \ {"InvoicePaid"} : events' = Append(events, event)
    BY <2>2, BillEvents
  <2> QED
    BY <2>1, <2>2
<1> QED
  BY <1>1, <1>2 DEF BillInv, Bill!PaidInFull

LEMMA BillNext == BillConstants /\ BillInv /\ [Bill!Next]_Bill!vars => BillInv'
<1> SUFFICES ASSUME BillConstants, BillInv, [Bill!Next]_Bill!vars PROVE BillInv'
  OBVIOUS
<1>0. lineItems \in Seq(Bill!LineItems) /\ (billStatus # "none" => lineItems # <<>>)
  BY DEF BillInv
<1>1. ASSUME NEW i \in Bill!LineItems, Bill!create(<<i>>) PROVE BillInv'
  <2>1. <<i>> \in Seq(Bill!LineItems) /\ <<i>> # <<>>
    OBVIOUS
  <2> QED
    BY <1>1, <2>1, BillCreate
<1>2. ASSUME NEW i \in Bill!LineItems, NEW j \in Bill!LineItems, Bill!create(<<i, j>>) PROVE BillInv'
  <2>1. <<i, j>> \in Seq(Bill!LineItems) /\ <<i, j>> # <<>>
    OBVIOUS
  <2> QED
    BY <1>2, <2>1, BillCreate
<1>3. ASSUME NEW i \in Bill!LineItems, Bill!addLineItem(i) PROVE BillInv'
  <2>1. lineItems' = Append(lineItems, i)
    BY <1>3 DEF Bill!addLineItem
  <2>2. lineItems' \in Seq(Bill!LineItems) /\ lineItems' # <<>>
    BY <1>0, <2>1
  <2> QED
    BY <1>3, <2>2, BillMoved DEF Bill!addLineItem
<1>4. ASSUME NEW n \in DOMAIN lineItems, Bill!removeLineItem(n) PROVE BillInv'
  <2>1. lineItems' = Bill!RemoveAt(lineItems, n) /\ Len(lineItems) > 1 /\ n \in 1..Len(lineItems)
    BY <1>0, <1>4 DEF Bill!removeLineItem
  <2>2. lineItems' \in Seq(Bill!LineItems) /\ Len(lineItems') = Len(lineItems) - 1
    BY <1>0, <2>1, RemoveAtType
  <2>3. lineItems' # <<>>
    BY <1>0, <2>1, <2>2
  <2> QED
    BY <1>4, <2>2, <2>3, BillMoved DEF Bill!removeLineItem
<1>5. ASSUME Bill!markSent PROVE BillInv'
  <2>1. /\ billStatus \notin {"none", "PAID"} /\ billStatus' \in {"SENT", "OVERDUE"}
        /\ UNCHANGED <<lineItems, paid>> /\ events' = Append(events, "InvoiceSent")
    BY <1>5 DEF Bill!markSent
  <2>2. "InvoiceSent" \in EventNames \ {"InvoicePaid"}
    BY DEF EventNames
  <2>3. \E event \in EventNames \ {"InvoicePaid"} : events' = Append(events, event)
    BY <2>1, <2>2
  <2> QED
    BY <1>0, <2>1, <2>3, BillMoved
<1>6. ASSUME Bill!markOverdue PROVE BillInv'
  <2>1. /\ billStatus \notin {"none", "PAID"} /\ billStatus' \in {"SENT", "OVERDUE"}
        /\ UNCHANGED <<lineItems, paid>> /\ events' = Append(events, "InvoiceOverdue")
    BY <1>6 DEF Bill!markOverdue
  <2>2. "InvoiceOverdue" \in EventNames \ {"InvoicePaid"}
    BY DEF EventNames
  <2>3. \E event \in EventNames \ {"InvoicePaid"} : events' = Append(events, event)
    BY <2>1, <2>2
  <2> QED
    BY <1>0, <2>1, <2>3, BillMoved
<1>7. ASSUME Bill!cancel PROVE BillInv'
  BY <1>0, <1>7, BillMoved DEF Bill!cancel
<1>8. ASSUME NEW amount \in BillAmounts, NEW currency \in Currencies, Bill!markPaid(amount, currency) PROVE BillInv'
  BY <1>8, BillPaid
<1>9. CASE Bill!DueDatePasses \/ UNCHANGED Bill!vars
  <2>1. UNCHANGED <<billStatus, lineItems, paid, events>>
    BY <1>9 DEF Bill!DueDatePasses, Bill!vars
  <2> QED
    BY <2>1 DEF BillInv, Bill!PaidInFull
<1> QED
  BY <1>1, <1>2, <1>3, <1>4, <1>5, <1>6, <1>7, <1>8, <1>9 DEF Bill!Next

LEMMA BillProps == BillInv => Bill!TypeOK /\ Bill!PaidInFull
BY DEF BillInv, Bill!TypeOK

-----------------------------------------------------------------------------
(* The billing module's aggregate.  The total of the line items is summed by     *)
(* recursion: that the sum is a number follows from the least place at which it  *)
(* would not be.                                                                 *)

SumStep(g, s, n) == g[n] = IF n = 0 THEN 0 ELSE g[n - 1] + s[n]

LEMMA SumExists ==
    ASSUME NEW s \in Seq(Nat)
    PROVE  \E g \in [0..Len(s) -> Nat] : \A n \in 0..Len(s) : SumStep(g, s, n)
<1> DEFINE Upto(n) == \E g \in [0..Len(s) -> Nat] : \A m \in 0..n : SumStep(g, s, m)
           Missing == {n \in 0..Len(s) : ~Upto(n)}
<1>1. Len(s) \in Nat /\ \A n \in 1..Len(s) : s[n] \in Nat
  OBVIOUS
<1>2. SUFFICES Missing = {}
  <2>1. Len(s) \in 0..Len(s)
    BY <1>1
  <2> HIDE DEF Upto
  <2>2. Upto(Len(s))
    BY <1>2, <2>1, Zenon
  <2> QED
    BY <2>2 DEF Upto
<1>3. SUFFICES ASSUME Missing # {} PROVE FALSE
  OBVIOUS
<1>4. PICK k \in Missing : \A n \in Missing : k <= n
  <2>1. Missing \subseteq Nat
    BY <1>1
  <2> QED
    BY <1>3, <2>1, NatMin
<1>5. Upto(0)
  <2> DEFINE g == [n \in 0..Len(s) |-> 0]
  <2>1. g \in [0..Len(s) -> Nat] /\ \A m \in 0..0 : SumStep(g, s, m)
    BY <1>1 DEF SumStep
  <2> QED
    BY <2>1
<1>6. k \in 1..Len(s) /\ k - 1 \in 0..Len(s) /\ k - 1 < k /\ ~Upto(k)
  <2>1. k \in 0..Len(s) /\ ~Upto(k)
    OBVIOUS
  <2>2. k # 0
    BY <1>5, <2>1
  <2> QED
    BY <1>1, <2>1, <2>2
<1>7. Upto(k - 1)
  <2>1. k - 1 \notin Missing
    <3> SUFFICES ASSUME k - 1 \in Missing PROVE FALSE
      OBVIOUS
    <3>1. k <= k - 1
      BY <1>4
    <3> QED
      BY <1>6, <3>1
  <2> QED
    BY <1>6, <2>1
<1>8. PICK g \in [0..Len(s) -> Nat] : \A m \in 0..(k - 1) : SumStep(g, s, m)
  BY <1>7
<1> DEFINE h == [g EXCEPT ![k] = g[k - 1] + s[k]]
<1>9. g[k - 1] + s[k] \in Nat
  <2>1. g[k - 1] \in Nat /\ s[k] \in Nat
    BY <1>1, <1>6
  <2> QED
    BY <2>1
<1>10. h \in [0..Len(s) -> Nat] /\ h[k] = g[k - 1] + s[k] /\ \A m \in 0..(k - 1) : h[m] = g[m]
  <2>1. k \in 0..Len(s) /\ \A m \in 0..(k - 1) : m \in 0..Len(s) /\ m # k
    <3>1. \A x, y \in Nat : x <= y => x \in 0..y /\ \A m \in 0..(x - 1) : m \in 0..y /\ m # x
      OBVIOUS
    <3> QED
      BY <1>1, <1>6, <3>1
  <2>2. h \in [0..Len(s) -> Nat]
    BY <1>9
  <2>3. h[k] = g[k - 1] + s[k]
    BY <2>1
  <2>4. \A m \in 0..(k - 1) : h[m] = g[m]
    BY <2>1
  <2> QED
    BY <2>2, <2>3, <2>4
<1> HIDE DEF h
<1>11. ASSUME NEW m \in 0..k PROVE SumStep(h, s, m)
  <2>1. CASE m = k
    BY <1>6, <1>10, <2>1 DEF SumStep
  <2>2. CASE m # k
    <3>1. m \in 0..(k - 1) /\ (m # 0 => m - 1 \in 0..(k - 1))
      BY <1>6, <2>2
    <3>2. SumStep(g, s, m)
      BY <1>8, <3>1
    <3> QED
      BY <1>10, <3>1, <3>2 DEF SumStep
  <2> QED
    BY <2>1, <2>2
<1>12. Upto(k)
  BY <1>10, <1>11
<1> QED
  BY <1>6, <1>12

LEMMA TotalType == ASSUME NEW s \in Seq(Nat) PROVE Module!Total(s) \in Nat
<1> DEFINE F == CHOOSE g : g = [n \in 0..Len(s) |-> IF n = 0 THEN 0 ELSE g[n - 1] + s[n]]
           Wrong == {n \in 0..Len(s) : F[n] \notin Nat}
<1>1. Module!Total(s) = F[Len(s)]
  BY DEF Module!Total
<1>2. Len(s) \in Nat /\ \A n \in 1..Len(s) : s[n] \in Nat
  OBVIOUS
<1>3. PICK f \in [0..Len(s) -> Nat] : \A n \in 0..Len(s) : SumStep(f, s, n)
  BY SumExists
<1>4. f = [n \in 0..Len(s) |-> IF n = 0 THEN 0 ELSE f[n - 1] + s[n]]
  BY <1>3 DEF SumStep
<1>5. F = [n \in 0..Len(s) |-> IF n = 0 THEN 0 ELSE F[n - 1] + s[n]]
  BY <1>4
<1> HIDE DEF F
<1>6. SUFFICES Wrong = {}
  <2>1. Len(s) \in 0..Len(s)
    BY <1>2
  <2> QED
    BY <1>1, <1>6, <2>1
<1>7. SUFFICES ASSUME Wrong # {} PROVE FALSE
  OBVIOUS
<1>8. PICK k \in Wrong : \A n \in Wrong : k <= n
  <2>1. Wrong \subseteq Nat
    BY <1>2
  <2> QED
    BY <1>7, <2>1, NatMin
<1>9. k \in 0..Len(s) /\ F[k] \notin Nat
  OBVIOUS
<1>10. k # 0
  BY <1>2, <1>5, <1>9
<1>11. k - 1 \in 0..Len(s) /\ ~(k <= k - 1) /\ k \in 1..Len(s)
  BY <1>2, <1>9, <1>10
<1>12. F[k - 1] \in Nat
  BY <1>8, <1>11
<1>13. F[k] = F[k - 1] + s[k]
  BY <1>5, <1>9, <1>10
<1> QED
  BY <1>2, <1>9, <1>11, <1>12, <1>13
ModuleConstants ==
    /\ Amounts \subseteq Nat \ {0} /\ FirstNumber \in Nat /\ None \notin Int

ModuleStatus == {"none", "DRAFT", "FINALIZED", "SENT", "PARTIALLY_PAID", "PAID", "OVERPAID", "VOID"}
Balance(i) == LET due == Module!calculateTotal(items[i]) IN
    /\ status[i] \in {"none", "DRAFT", "FINALIZED", "SENT"} => paidAmount[i] = 0
    /\ status[i] = "PARTIALLY_PAID" => due # None /\ 0 < paidAmount[i] /\ paidAmount[i] < due
    /\ status[i] = "PAID" => paidAmount[i] = due /\ due > 0
    /\ status[i] = "OVERPAID" => due # None /\ paidAmount[i] > due

(* The numbers given are below the next one, so the next is nobody's.            *)
ModuleTyped ==
    /\ status \in [Invoices -> ModuleStatus]
    /\ items \in [Invoices -> Seq(Nat)] /\ paidAmount \in [Invoices -> Nat]
Numbered ==
    /\ number \in [Invoices -> Nat \cup {None}] /\ counter \in Nat /\ counter >= FirstNumber
    /\ \A i \in Invoices : number[i] # None => number[i] < counter
    /\ \A i, j \in Invoices : number[i] = number[j] /\ number[i] # None => i = j
ModuleInv == ModuleTyped /\ Numbered /\ \A i \in Invoices : Balance(i)

LEMMA ModuleInit == ModuleConstants /\ Module!Init => ModuleInv
<1> SUFFICES ASSUME ModuleConstants, Module!Init PROVE ModuleInv
  OBVIOUS
<1>1. ModuleTyped
  BY DEF Module!Init, ModuleTyped, ModuleStatus
<1>2. Numbered
  BY DEF Module!Init, Numbered, ModuleConstants
<1>3. \A i \in Invoices : Balance(i)
  BY DEF Module!Init, Balance
<1> QED
  BY <1>1, <1>2, <1>3 DEF ModuleInv

LEMMA DueType ==
    ASSUME NEW s \in Seq(Nat), Module!calculateTotal(s) # None
    PROVE  Module!calculateTotal(s) \in Nat
<1>1. Module!Total(s) \in Nat
  BY TotalType
<1> QED
  BY <1>1 DEF Module!calculateTotal

LEMMA GenerateNumbers ==
    ASSUME ModuleConstants, Numbered, NEW i \in Invoices, Module!Generate(i)
    PROVE  Numbered'
<1>1. counter' = counter + 1 /\ number' = [number EXCEPT ![i] = counter]
  BY DEF Module!Generate
<1>2. counter \in Nat /\ counter' \in Nat /\ counter' >= FirstNumber /\ counter # None
  BY <1>1 DEF Numbered, ModuleConstants
<1>3. \A j \in Invoices : number'[j] = IF j = i THEN counter ELSE number[j]
  BY <1>1 DEF Numbered
<1>4. number' \in [Invoices -> Nat \cup {None}]
  BY <1>1, <1>2 DEF Numbered
<1>5. \A j \in Invoices : number[j] # None => number[j] \in Nat /\ number[j] < counter
  BY DEF Numbered
<1>6. \A j \in Invoices : number'[j] # None => number'[j] < counter'
  BY <1>1, <1>2, <1>3, <1>5
<1>7. \A j \in Invoices : number[j] # None => number[j] # counter
  BY <1>2, <1>5
<1>8. ASSUME NEW j \in Invoices, NEW k \in Invoices, number'[j] = number'[k], number'[j] # None
      PROVE  j = k
  BY <1>2, <1>3, <1>7, <1>8 DEF Numbered
<1> QED
  BY <1>2, <1>4, <1>6, <1>8 DEF Numbered

LEMMA NumbersSame == ASSUME Numbered, UNCHANGED <<number, counter>> PROVE Numbered'
BY DEF Numbered

(* A step changes one invoice; the others keep their balance.                    *)
LEMMA OneChanged ==
    ASSUME ModuleTyped, \A j \in Invoices : Balance(j), NEW i \in Invoices,
           \A j \in Invoices \ {i} : status'[j] = status[j] /\ items'[j] = items[j] /\ paidAmount'[j] = paidAmount[j],
           Balance(i)'
    PROVE  \A j \in Invoices : Balance(j)'
<1> SUFFICES ASSUME NEW j \in Invoices, j # i PROVE Balance(j)'
  OBVIOUS
<1>1. status'[j] = status[j] /\ items'[j] = items[j] /\ paidAmount'[j] = paidAmount[j]
  OBVIOUS
<1>2. Balance(j)
  OBVIOUS
<1> QED
  BY <1>1, <1>2 DEF Balance

LEMMA ModuleCreate ==
    ASSUME ModuleConstants, ModuleInv, NEW i \in Invoices, Module!create(i)
    PROVE  ModuleInv'
<1>1. /\ status[i] = "none" /\ Module!Generate(i) /\ status' = [status EXCEPT ![i] = "DRAFT"]
      /\ items' = items /\ paidAmount' = paidAmount
  BY DEF Module!create
<1>2. ModuleTyped'
  BY <1>1 DEF ModuleInv, ModuleTyped, ModuleStatus
<1>3. \A j \in Invoices : status'[j] = IF j = i THEN "DRAFT" ELSE status[j]
  BY <1>1 DEF ModuleInv, ModuleTyped
<1>4. Balance(i)'
  BY <1>1, <1>3 DEF ModuleInv, Balance
<1>5. \A j \in Invoices : Balance(j)'
  BY <1>1, <1>3, <1>4, OneChanged DEF ModuleInv
<1> QED
  BY <1>1, <1>2, <1>5, GenerateNumbers DEF ModuleInv

(* The items of a draft change; nothing was paid of it.                          *)
LEMMA ModuleDraft ==
    ASSUME ModuleInv, NEW i \in Invoices, NEW s \in Seq(Nat), Module!Draft(i, s)
    PROVE  ModuleInv'
<1>1. /\ status[i] = "DRAFT" /\ items' = [items EXCEPT ![i] = s]
      /\ UNCHANGED <<status, paidAmount, number, counter>>
  BY DEF Module!Draft
<1>2. ModuleTyped'
  BY <1>1 DEF ModuleInv, ModuleTyped
<1>3. \A j \in Invoices : j # i => items'[j] = items[j]
  BY <1>1 DEF ModuleInv, ModuleTyped
<1>4. Balance(i)'
  BY <1>1 DEF ModuleInv, Balance
<1>5. \A j \in Invoices : Balance(j)'
  BY <1>1, <1>3, <1>4, OneChanged DEF ModuleInv
<1> QED
  BY <1>1, <1>2, <1>5, NumbersSame DEF ModuleInv

LEMMA ModuleTo ==
    ASSUME ModuleInv, NEW i \in Invoices, NEW from, NEW to \in {"FINALIZED", "SENT", "VOID"}, Module!To(i, from, to),
           to # "VOID" => from \subseteq {"DRAFT", "FINALIZED"}
    PROVE  ModuleInv'
<1>1. /\ status[i] \in from /\ status' = [status EXCEPT ![i] = to]
      /\ UNCHANGED <<items, paidAmount, number, counter>>
  BY DEF Module!To
<1>2. ModuleTyped'
  BY <1>1 DEF ModuleInv, ModuleTyped, ModuleStatus
<1>3. \A j \in Invoices : status'[j] = IF j = i THEN to ELSE status[j]
  BY <1>1 DEF ModuleInv, ModuleTyped
<1>4. Balance(i)'
  BY <1>1, <1>3 DEF ModuleInv, Balance
<1>5. \A j \in Invoices : Balance(j)'
  BY <1>1, <1>3, <1>4, OneChanged DEF ModuleInv
<1> QED
  BY <1>1, <1>2, <1>5, NumbersSame DEF ModuleInv

(* The new status is chosen by comparing the sum of all payments with the total. *)
LEMMA ModulePayment ==
    ASSUME ModuleConstants, ModuleInv, NEW i \in Invoices, NEW amount \in Nat \ {0}, Module!recordPayment(i, amount)
    PROVE  ModuleInv'
<1> DEFINE new == Module!Sum(paidAmount[i], amount)
           due == Module!calculateTotal(items[i])
           to == IF new = due THEN "PAID" ELSE IF new < due THEN "PARTIALLY_PAID" ELSE "OVERPAID"
<1>1. /\ status[i] \in {"SENT", "PARTIALLY_PAID"} /\ new # None /\ due # None
      /\ paidAmount' = [paidAmount EXCEPT ![i] = new] /\ status' = [status EXCEPT ![i] = to]
      /\ UNCHANGED <<items, number, counter>>
  BY DEF Module!recordPayment
<1>2. items[i] \in Seq(Nat) /\ paidAmount[i] \in Nat
  BY DEF ModuleInv, ModuleTyped
<1>3. due \in Nat
  BY <1>1, <1>2, DueType
<1>4. new = paidAmount[i] + amount
  BY <1>1 DEF Module!Sum
<1>5. new \in Nat /\ new > 0
  BY <1>2, <1>4
<1>6. to \in ModuleStatus
  BY DEF ModuleStatus
<1>7. Module!calculateTotal(items[i])' = due
  BY <1>1
<1>8. /\ to = "PAID" => new = due /\ due > 0
      /\ to = "PARTIALLY_PAID" => 0 < new /\ new < due
      /\ to = "OVERPAID" => new > due
      /\ to \in {"PAID", "PARTIALLY_PAID", "OVERPAID"}
  BY <1>3, <1>5
<1> HIDE DEF new, due, to
<1>9. ModuleTyped'
  BY <1>1, <1>5, <1>6 DEF ModuleInv, ModuleTyped
<1>10. \A j \in Invoices : /\ status'[j] = IF j = i THEN to ELSE status[j]
                           /\ paidAmount'[j] = IF j = i THEN new ELSE paidAmount[j]
  BY <1>1 DEF ModuleInv, ModuleTyped
<1>11. Balance(i)'
  BY <1>1, <1>7, <1>8, <1>10 DEF Balance
<1>12. \A j \in Invoices : Balance(j)'
  BY <1>1, <1>10, <1>11, OneChanged DEF ModuleInv
<1> QED
  BY <1>1, <1>9, <1>12, NumbersSame DEF ModuleInv

LEMMA ShareType ==
    ASSUME NEW s \in Seq(Nat), NEW days \in {1, 15, 45},
           \A n \in DOMAIN s : (2 * s[n] * days + 30) \div 60 > 0
    PROVE  [n \in DOMAIN s |-> (2 * s[n] * days + 30) \div 60] \in Seq(Nat)
<1>1. Len(s) \in Nat /\ DOMAIN s = 1..Len(s) /\ \A n \in 1..Len(s) : s[n] \in Nat
  OBVIOUS
<1>2. ASSUME NEW n \in 1..Len(s) PROVE (2 * s[n] * days + 30) \div 60 \in Nat
  <2>1. s[n] \in Nat /\ 2 * s[n] * 1 + 30 \in Int /\ 2 * s[n] * 15 + 30 \in Int /\ 2 * s[n] * 45 + 30 \in Int
    BY <1>1
  <2>2. 2 * s[n] * days + 30 \in Int
    BY <2>1
  <2> DEFINE x == 2 * s[n] * days + 30
  <2>3. x \in Int /\ x \div 60 > 0
    BY <1>1, <2>2
  <2> HIDE DEF x
  <2>4. x \div 60 \in Nat
    BY <2>3
  <2> QED
    BY <2>4 DEF x
<1> QED
  BY <1>1, <1>2

LEMMA ModuleProrate ==
    ASSUME ModuleConstants, ModuleInv, NEW i \in Invoices, NEW j \in Invoices, NEW days \in {1, 15, 45}, Module!prorate(i, j, days)
    PROVE  ModuleInv'
<1> DEFINE share == [n \in DOMAIN items[i] |-> (2 * items[i][n] * days + 30) \div 60]
<1>1. /\ status[j] = "none" /\ \A n \in DOMAIN share : share[n] > 0
      /\ Module!Generate(j) /\ status' = [status EXCEPT ![j] = "DRAFT"]
      /\ items' = [items EXCEPT ![j] = share] /\ paidAmount' = paidAmount
  BY DEF Module!prorate
<1>2. items[i] \in Seq(Nat)
  BY DEF ModuleInv, ModuleTyped
<1>3. share \in Seq(Nat)
  BY <1>1, <1>2, ShareType
<1> HIDE DEF share
<1>4. ModuleTyped'
  BY <1>1, <1>3 DEF ModuleInv, ModuleTyped, ModuleStatus
<1>5. \A k \in Invoices : /\ status'[k] = IF k = j THEN "DRAFT" ELSE status[k]
                          /\ k # j => items'[k] = items[k]
  BY <1>1 DEF ModuleInv, ModuleTyped
<1>6. Balance(j)'
  BY <1>1, <1>5 DEF ModuleInv, Balance
<1>7. \A k \in Invoices : Balance(k)'
  BY <1>1, <1>5, <1>6, OneChanged DEF ModuleInv
<1> QED
  BY <1>1, <1>4, <1>7, GenerateNumbers DEF ModuleInv

LEMMA ModuleNext == ModuleConstants /\ ModuleInv /\ [Module!Next]_Module!vars => ModuleInv'
<1> SUFFICES ASSUME ModuleConstants, ModuleInv, [Module!Next]_Module!vars PROVE ModuleInv'
  OBVIOUS
<1>0. Amounts \subseteq Nat \ {0} /\ \A i \in Invoices : items[i] \in Seq(Nat)
  BY DEF ModuleConstants, ModuleInv, ModuleTyped
<1>1. ASSUME NEW i \in Invoices, Module!create(i) PROVE ModuleInv'
  BY <1>1, ModuleCreate
<1>2. ASSUME NEW i \in Invoices, NEW amount \in Amounts, Module!addItem(i, amount) PROVE ModuleInv'
  <2>1. Module!Draft(i, Append(items[i], amount)) /\ Append(items[i], amount) \in Seq(Nat)
    BY <1>0, <1>2 DEF Module!addItem
  <2> QED
    BY <2>1, ModuleDraft
<1>3. ASSUME NEW i \in Invoices, NEW n \in DOMAIN items[i], Module!removeItem(i, n) PROVE ModuleInv'
  <2>1. Module!Draft(i, Module!RemoveAt(items[i], n)) /\ n \in 1..Len(items[i])
    BY <1>0, <1>3 DEF Module!removeItem
  <2>2. Module!RemoveAt(items[i], n) \in Seq(Nat)
    BY <1>0, <2>1, RemoveAtType
  <2> QED
    BY <2>1, <2>2, ModuleDraft
<1>4. ASSUME NEW i \in Invoices, NEW n \in DOMAIN items[i], NEW amount \in Amounts, Module!updateItem(i, n, amount)
      PROVE  ModuleInv'
  <2>1. Module!Draft(i, [items[i] EXCEPT ![n] = amount]) /\ [items[i] EXCEPT ![n] = amount] \in Seq(Nat)
    BY <1>0, <1>4 DEF Module!updateItem
  <2> QED
    BY <2>1, ModuleDraft
<1>5. ASSUME NEW i \in Invoices, Module!finalize(i) PROVE ModuleInv'
  <2>1. Module!To(i, {"DRAFT"}, "FINALIZED")
    BY <1>5 DEF Module!finalize
  <2> QED
    BY <2>1, ModuleTo
<1>6. ASSUME NEW i \in Invoices, Module!send(i) PROVE ModuleInv'
  <2>1. Module!To(i, {"FINALIZED"}, "SENT")
    BY <1>6 DEF Module!send
  <2> QED
    BY <2>1, ModuleTo
<1>7. ASSUME NEW i \in Invoices, Module!void(i) PROVE ModuleInv'
  BY <1>7, ModuleTo DEF Module!void
<1>8. ASSUME NEW i \in Invoices, NEW amount \in Amounts, Module!recordPayment(i, amount) PROVE ModuleInv'
  BY <1>0, <1>8, ModulePayment
<1>9. ASSUME NEW i \in Invoices, Module!markAsPaid(i) PROVE ModuleInv'
  <2> DEFINE due == Module!calculateTotal(items[i])
  <2>1. due # None /\ due > 0 /\ Module!recordPayment(i, due)
    BY <1>9 DEF Module!markAsPaid
  <2>2. due \in Nat
    BY <1>0, <2>1, DueType
  <2> HIDE DEF due
  <2>3. due \in Nat \ {0}
    BY <2>1, <2>2
  <2> QED
    BY <2>1, <2>3, ModulePayment
<1>10. ASSUME NEW i \in Invoices, NEW j \in Invoices, NEW days \in {1, 15, 45}, Module!prorate(i, j, days) PROVE ModuleInv'
  BY <1>10, ModuleProrate
<1>11. ASSUME Module!Refused PROVE ModuleInv'
  <2>1. counter' = counter + 1 /\ UNCHANGED <<status, items, paidAmount, number>>
    BY <1>11 DEF Module!Refused
  <2>2. Numbered'
    BY <2>1 DEF ModuleInv, Numbered, ModuleConstants
  <2> QED
    BY <2>1, <2>2 DEF ModuleInv, ModuleTyped, Balance
<1>12. CASE UNCHANGED Module!vars
  <2>1. UNCHANGED <<status, items, paidAmount>> /\ UNCHANGED <<number, counter>>
    BY <1>12 DEF Module!vars
  <2> QED
    BY <2>1, NumbersSame DEF ModuleInv, ModuleTyped, Balance
<1> QED
  BY <1>1, <1>2, <1>3, <1>4, <1>5, <1>6, <1>7, <1>8, <1>9, <1>10, <1>11, <1>12 DEF Module!Next

LEMMA ModuleProps == ModuleInv => Module!TypeOK /\ Module!StatusTellsBalance
BY DEF ModuleInv, ModuleTyped, ModuleStatus, Numbered, Balance, Module!TypeOK, Module!StatusTellsBalance

-----------------------------------------------------------------------------
(* The create use case.  Where a call is tells whether its invoice is stored and *)
(* heard of.                                                                     *)

Steps == {"idle", "built", "refused", "saved", "published", "answered", "failed"}

(* Where a call can be, by what it has done. *)
Progress == \A c \in CreateCalls :
    /\ c \in store => creation[c].step \in {"saved", "published", "answered", "failed"}
    /\ creation[c].step = "saved" => c \in store
    /\ creation[c].step \in {"published", "answered"} => c \in heard

CreateInv ==
    /\ creation \in [CreateCalls -> [step : Steps, number : Numbers \cup {None}]]
    /\ Create!TypeOK /\ Progress /\ Create!HeardIsStored

LEMMA CreateInit == Create!Init => CreateInv
BY DEF Create!Init, CreateInv, Create!TypeOK, Progress, Create!HeardIsStored, Create!At, Steps

(* A step to a place the call's history allows, which stores and announces       *)
(* nothing new.                                                                  *)
LEMMA CreateMove ==
    ASSUME CreateInv, NEW c \in CreateCalls, NEW step \in Steps, Create!Go(c, step), UNCHANGED <<store, heard>>,
           c \in store => step \in {"saved", "published", "answered", "failed"},
           step = "saved" => c \in store,
           step \in {"published", "answered"} => c \in heard,
           c \in store \ heard => step \in {"saved", "failed"}
    PROVE  CreateInv'
<1>1. \A d \in CreateCalls : /\ creation'[d].number = creation[d].number
                       /\ creation'[d].step = IF d = c THEN step ELSE creation[d].step
  BY DEF CreateInv, Create!Go
<1>2. creation' \in [CreateCalls -> [step : Steps, number : Numbers \cup {None}]]
  BY DEF CreateInv, Create!Go
<1>3. Progress'
  BY <1>1 DEF CreateInv, Progress
<1>4. Create!HeardIsStored'
  BY <1>1 DEF CreateInv, Create!HeardIsStored, Create!At, Create!TypeOK
<1> QED
  BY <1>2, <1>3, <1>4 DEF CreateInv, Create!TypeOK

LEMMA CreateNext == CreateInv /\ [Create!Next]_Create!vars => CreateInv'
<1> SUFFICES ASSUME CreateInv, [Create!Next]_Create!vars PROVE CreateInv'
  OBVIOUS
<1>1. ASSUME NEW c \in CreateCalls, NEW n \in Numbers, Create!Find(c, n) PROVE CreateInv'
  <2>1. PICK step \in {"built", "refused"} : creation' = [creation EXCEPT ![c] = [step |-> step, number |-> n]]
    BY <1>1 DEF Create!Find
  <2>2. creation[c].step = "idle" /\ c \notin store /\ store' = store /\ heard' = heard
    BY <1>1 DEF Create!Find, Create!At, CreateInv, Progress
  <2>3. \A d \in CreateCalls : d # c => creation'[d] = creation[d]
    BY <2>1 DEF CreateInv
  <2>4. creation'[c].step = step /\ creation' \in [CreateCalls -> [step : Steps, number : Numbers \cup {None}]]
    BY <2>1 DEF CreateInv, Steps
  <2>5. Progress'
    BY <2>2, <2>3, <2>4 DEF CreateInv, Progress
  <2>6. Create!HeardIsStored'
    BY <2>2, <2>3, <2>4 DEF CreateInv, Create!HeardIsStored, Create!At, Create!TypeOK
  <2> QED
    BY <2>2, <2>4, <2>5, <2>6 DEF CreateInv, Create!TypeOK
<1>2. ASSUME NEW c \in CreateCalls, Create!Save(c) PROVE CreateInv'
  <2>1. PICK step \in {"saved", "failed"} : Create!Go(c, step)
    BY <1>2 DEF Create!Save, Create!Outcome
  <2>2. /\ creation[c].step = "built" /\ store' = store \cup {c} /\ heard' = heard
        /\ \A d \in store : creation[d].number # creation[c].number
    BY <1>2 DEF Create!Save, Create!At, Create!Free
  <2>3. c \notin store
    BY <2>2 DEF CreateInv, Progress
  <2>4. \A d \in CreateCalls : /\ creation'[d].number = creation[d].number
                         /\ creation'[d].step = IF d = c THEN step ELSE creation[d].step
    BY <2>1 DEF CreateInv, Create!Go
  <2>5. creation' \in [CreateCalls -> [step : Steps, number : Numbers \cup {None}]]
    BY <2>1 DEF CreateInv, Create!Go, Steps
  <2>6. Progress'
    BY <2>2, <2>4 DEF CreateInv, Progress
  <2>7. Create!HeardIsStored'
    BY <2>2, <2>3, <2>4 DEF CreateInv, Create!HeardIsStored, Create!At, Create!TypeOK
  <2> QED
    BY <2>2, <2>5, <2>6, <2>7 DEF CreateInv, Create!TypeOK
<1>3. ASSUME NEW c \in CreateCalls, Create!Publish(c) PROVE CreateInv'
  <2>1. PICK step \in {"published", "failed"} : Create!Go(c, step)
    BY <1>3 DEF Create!Publish, Create!Outcome
  <2>2. c \in store /\ heard' = heard \cup {c} /\ store' = store
    BY <1>3 DEF Create!Publish, Create!At, CreateInv, Progress
  <2>3. \A d \in CreateCalls : /\ creation'[d].number = creation[d].number
                         /\ creation'[d].step = IF d = c THEN step ELSE creation[d].step
    BY <2>1 DEF CreateInv, Create!Go
  <2>4. creation' \in [CreateCalls -> [step : Steps, number : Numbers \cup {None}]]
    BY <2>1 DEF CreateInv, Create!Go, Steps
  <2>5. Progress'
    BY <2>2, <2>3 DEF CreateInv, Progress
  <2>6. Create!HeardIsStored'
    BY <2>2, <2>3 DEF CreateInv, Create!HeardIsStored, Create!At, Create!TypeOK
  <2> QED
    BY <2>2, <2>4, <2>5, <2>6 DEF CreateInv, Create!TypeOK
<1>4. ASSUME NEW c \in CreateCalls, Create!Answer(c) PROVE CreateInv'
  BY <1>4, CreateMove DEF Create!Answer, Create!At, Steps, CreateInv, Progress
<1>5. ASSUME NEW c \in CreateCalls, Create!Fail(c) PROVE CreateInv'
  BY <1>5, CreateMove DEF Create!Fail, Steps
<1>6. CASE UNCHANGED Create!vars
  BY <1>6 DEF Create!vars, CreateInv, Create!TypeOK, Progress, Create!HeardIsStored, Create!At
<1> QED
  BY <1>1, <1>2, <1>3, <1>4, <1>5, <1>6 DEF Create!Next

LEMMA CreateProps == CreateInv => Create!TypeOK /\ Create!HeardIsStored
BY DEF CreateInv

-----------------------------------------------------------------------------
(* Email.  Where a message is tells whether it went out and is queued; of the    *)
(* bulk call, the batches before its own are over and those after untouched.     *)

EmailConstants ==
    /\ IsFiniteSet(Mails) /\ Threshold \in Nat /\ None # "failed"
    /\ Batches \in Seq(SUBSET Mails) /\ Batches # <<>>
    /\ \A m, n \in DOMAIN Batches : m # n => Batches[m] \cap Batches[n] = {}

Stages == {"idle", "sending", "recording", "failing", "sent", "thrown", "queued"}
EmailTyped ==
    /\ stage \in [Mails -> Stages] /\ tracked \in [Mails -> ({None, "sent", "failed", "pending"} \cup MailEvents)]
    /\ delivered \subseteq Mails
    /\ bulk \in [batch : 0..Len(Batches), results : SUBSET Email!InBulk, state : {"idle", "running", "stopped", "returned"}]

(* Where a message is tells whether it went out, is queued, and was reported.    *)
Mail(m) ==
    /\ stage[m] = "thrown" /\ m \notin Unretried => [mail |-> m, body |-> Email!Body(m)] \in queue
    /\ stage[m] \in {"recording", "sent"} => m \in delivered
    /\ (\E q \in queue : q.mail = m) => stage[m] \in {"thrown", "queued"}
    /\ tracked[m] = "failed" => stage[m] = "thrown" \/ m \in reported

(* The batches before the one the call is at are over, those after it untouched, *)
(* and the results are what the former sent.                                     *)
SentUpto(k) == {m \in Email!InBulk : stage[m] = "sent" /\ \E n \in DOMAIN Batches : n <= k /\ m \in Batches[n]}
Bulk ==
    /\ bulk.state = "idle" <=> bulk.batch = 0
    /\ bulk.state = "idle" => bulk.results = {}
    /\ \A n \in DOMAIN Batches : n < bulk.batch => \A m \in Batches[n] : Email!Over(m)
    /\ \A n \in DOMAIN Batches : n > bulk.batch => \A m \in Batches[n] : stage[m] = "idle"
    /\ bulk.batch > 1 => \A m \in Batches[1] : stage[m] = "sent"
    /\ bulk.state \in {"running", "stopped"} => bulk.results = SentUpto(bulk.batch - 1)
    /\ bulk.state = "returned" => bulk.results = {m \in Email!InBulk : stage[m] = "sent"} /\ \A m \in Email!InBulk : Email!Over(m)
EmailInv == EmailTyped /\ (\A m \in Mails : Mail(m)) /\ Bulk

LEMMA BatchesTyped ==
    ASSUME EmailConstants
    PROVE  /\ Len(Batches) \in Nat /\ Len(Batches) >= 1 /\ DOMAIN Batches = 1..Len(Batches)
           /\ \A n \in 1..Len(Batches) : Batches[n] \subseteq Mails
           /\ Email!InBulk \subseteq Mails /\ \A n \in 1..Len(Batches) : Batches[n] \subseteq Email!InBulk
<1>1. Batches \in Seq(SUBSET Mails) /\ Batches # <<>>
  BY DEF EmailConstants
<1>2. Len(Batches) \in Nat /\ Len(Batches) >= 1 /\ DOMAIN Batches = 1..Len(Batches)
  BY <1>1
<1>3. \A n \in 1..Len(Batches) : Batches[n] \subseteq Mails
  BY <1>1
<1> QED
  BY <1>2, <1>3 DEF Email!InBulk

LEMMA EmailInit == EmailConstants /\ Email!Init => EmailInv
<1> SUFFICES ASSUME EmailConstants, Email!Init PROVE EmailInv
  OBVIOUS
<1>1. /\ stage = [m \in Mails |-> "idle"] /\ tracked = [m \in Mails |-> None]
      /\ delivered = {} /\ queue = {} /\ bulk = [batch |-> 0, results |-> {}, state |-> "idle"]
  BY DEF Email!Init
<1>2. bulk.batch = 0 /\ bulk.results = {} /\ bulk.state = "idle" /\ 0 \in 0..Len(Batches)
  BY <1>1, BatchesTyped
<1>3. EmailTyped
  BY <1>1, <1>2, BatchesTyped DEF EmailTyped, Stages
<1>4. \A m \in Mails : Mail(m)
  BY <1>1 DEF Mail, EmailConstants
<1>5. Bulk
  BY <1>1, <1>2, BatchesTyped DEF Bulk
<1> QED
  BY <1>3, <1>4, <1>5 DEF EmailInv

(* A step of one message does not change what the bulk call has seen of it.      *)
LEMMA BulkSame ==
    ASSUME EmailConstants, EmailTyped, Bulk, bulk' = bulk,
           \A m \in Email!InBulk : stage'[m] = stage[m] \/ stage[m] \in {"sending", "recording", "failing"}
    PROVE  Bulk'
<1>1. \A n \in DOMAIN Batches : Batches[n] \subseteq Email!InBulk
  BY BatchesTyped
<1>2. \A m \in Email!InBulk : Email!Over(m) => stage'[m] = stage[m] /\ Email!Over(m)'
  BY DEF Email!Over
<1>3. \A m \in Email!InBulk : stage[m] = "idle" => stage'[m] = "idle"
  OBVIOUS
<1>4. \A n \in DOMAIN Batches : n < bulk'.batch => \A m \in Batches[n] : Email!Over(m)'
  BY <1>1, <1>2 DEF Bulk
<1>5. \A n \in DOMAIN Batches : n > bulk'.batch => \A m \in Batches[n] : stage'[m] = "idle"
  BY <1>1, <1>3 DEF Bulk
<1>6. bulk'.batch > 1 => \A m \in Batches[1] : stage'[m] = "sent"
  <2>1. 1 \in DOMAIN Batches
    BY BatchesTyped
  <2> QED
    BY <1>1, <1>2, <2>1 DEF Bulk, Email!Over
<1>7. SentUpto(bulk.batch - 1)' = SentUpto(bulk.batch - 1)
  <2>1. bulk.batch \in Nat /\ bulk'.batch = bulk.batch
    BY BatchesTyped DEF EmailTyped
  <2>2. \A n \in DOMAIN Batches : n <= bulk.batch - 1 => \A m \in Batches[n] : stage'[m] = stage[m]
    <3>1. \A n \in DOMAIN Batches : n \in Nat
      BY BatchesTyped
    <3>2. \A n \in DOMAIN Batches : n <= bulk.batch - 1 => n < bulk.batch
      BY <2>1, <3>1
    <3> QED
      BY <1>1, <1>2, <3>2 DEF Bulk
  <2> QED
    BY <2>1, <2>2 DEF SentUpto
<1>8. bulk'.state = "returned" =>
          bulk'.results = {m \in Email!InBulk : stage'[m] = "sent"} /\ \A m \in Email!InBulk : Email!Over(m)'
  BY <1>2 DEF Bulk
<1> QED
  BY <1>4, <1>5, <1>6, <1>7, <1>8 DEF Bulk

(* A message that moves leaves the others, and the tracker and the queue tell    *)
(* of it alone.                                                                  *)
LEMMA MailMoved ==
    ASSUME EmailConstants, EmailInv, NEW m \in Mails, NEW to \in Stages, NEW what \in {"sent", "failed", "pending"},
           stage' = [stage EXCEPT ![m] = to], tracked' = tracked \/ tracked' = [tracked EXCEPT ![m] = what],
           delivered \subseteq delivered', delivered' \subseteq delivered \cup {m},
           queue \subseteq queue', queue' \subseteq queue \cup {[mail |-> m, body |-> Email!Body(m)]}, bulk' = bulk, reported' = reported,
           m \notin Email!InBulk \/ stage[m] \in {"sending", "recording", "failing"},
           Mail(m)'
    PROVE  EmailInv'
<1>1. EmailTyped'
  BY DEF EmailInv, EmailTyped
<1>2. stage'[m] = to /\ \A d \in Mails : d # m => stage'[d] = stage[d] /\ tracked'[d] = tracked[d]
  BY DEF EmailInv, EmailTyped
<1>3. ASSUME NEW d \in Mails, d # m PROVE Mail(d)'
  <2>1. stage'[d] = stage[d] /\ tracked'[d] = tracked[d]
    BY <1>2, <1>3
  <2>2. \A q \in queue' : q.mail = d => q \in queue
    BY <1>3
  <2>3. Mail(d)
    BY DEF EmailInv
  <2>4. stage'[d] = "thrown" /\ d \notin Unretried => [mail |-> d, body |-> Email!Body(d)] \in queue'
    BY <2>1, <2>3 DEF Mail
  <2> QED
    BY <2>1, <2>2, <2>3, <2>4 DEF Mail
<1>4. Bulk'
  <2>1. \A d \in Email!InBulk : stage'[d] = stage[d] \/ stage[d] \in {"sending", "recording", "failing"}
    BY <1>2, BatchesTyped
  <2> QED
    BY <2>1, BulkSame DEF EmailInv
<1> QED
  BY <1>1, <1>3, <1>4 DEF EmailInv
(* What is known of a message before it moves.                                   *)
LEMMA MailTo ==
    ASSUME EmailInv, NEW m \in Mails, NEW from, NEW to, Email!To(m, from, to)
    PROVE  /\ stage[m] = from /\ stage' = [stage EXCEPT ![m] = to] /\ stage'[m] = to
           /\ Mail(m) /\ tracked \in [Mails -> ({None, "sent", "failed", "pending"} \cup MailEvents)]
BY DEF EmailInv, EmailTyped, Email!To

LEMMA MailNext ==
    ASSUME EmailConstants, EmailInv, NEW m \in Mails,
           Email!sendEmail(m) \/ Email!Sent(m) \/ Email!Recorded(m) \/ Email!Failed(m) \/ Email!Requeued(m) \/ Email!queueEmail(m)
    PROVE  EmailInv'
<1>1. CASE Email!sendEmail(m)
  <2>1. /\ m \notin Email!InBulk /\ Email!To(m, "idle", "sending") /\ tracked' = [tracked EXCEPT ![m] = "sent"]
        /\ delivered' = delivered /\ queue' = queue /\ bulk' = bulk /\ reported' = reported
    BY <1>1 DEF Email!sendEmail, Email!Track
  <2>2. Mail(m)'
    BY <2>1, MailTo DEF Mail
  <2> QED
    BY <2>1, <2>2, MailTo, MailMoved DEF Stages
<1>2. CASE Email!Sent(m)
  <2>1. /\ Email!To(m, "sending", "recording") /\ delivered' = delivered \cup {m}
        /\ tracked' = tracked /\ queue' = queue /\ bulk' = bulk /\ reported' = reported
    BY <1>2 DEF Email!Sent
  <2>2. Mail(m)'
    BY <2>1, MailTo DEF Mail
  <2> QED
    BY <2>1, <2>2, MailTo, MailMoved DEF Stages
<1>3. CASE Email!Recorded(m)
  <2>1. /\ Email!To(m, "recording", "sent") /\ tracked' = [tracked EXCEPT ![m] = "sent"]
        /\ delivered' = delivered /\ queue' = queue /\ bulk' = bulk /\ reported' = reported
    BY <1>3 DEF Email!Recorded, Email!Track
  <2>2. Mail(m)'
    BY <2>1, MailTo DEF Mail
  <2> QED
    BY <2>1, <2>2, MailTo, MailMoved DEF Stages
<1>4. CASE Email!Failed(m)
  <2>1. /\ Email!To(m, "sending", "failing") /\ delivered' \in {delivered, delivered \cup {m}}
        /\ tracked' = tracked /\ queue' = queue /\ bulk' = bulk /\ reported' = reported
    BY <1>4 DEF Email!Failed
  <2>2. Mail(m)'
    BY <2>1, MailTo DEF Mail
  <2> QED
    BY <2>1, <2>2, MailTo, MailMoved DEF Stages
<1>5. CASE Email!Requeued(m)
  <2>1. /\ Email!To(m, "failing", "thrown") /\ tracked' = [tracked EXCEPT ![m] = "failed"]
        /\ delivered' = delivered /\ bulk' = bulk /\ reported' = reported
        /\ queue' = IF m \in Unretried THEN queue ELSE queue \cup {[mail |-> m, body |-> Email!Body(m)]}
    BY <1>5 DEF Email!Requeued, Email!Track
  <2>2. Mail(m)'
    BY <2>1, MailTo DEF Mail, Email!Body
  <2> QED
    BY <2>1, <2>2, MailTo, MailMoved DEF Stages
<1>6. CASE Email!queueEmail(m)
  <2>1. /\ m \notin Email!InBulk /\ Email!To(m, "idle", "queued") /\ tracked' = [tracked EXCEPT ![m] = "pending"]
        /\ delivered' = delivered /\ bulk' = bulk /\ reported' = reported /\ queue' = queue \cup {[mail |-> m, body |-> Email!Body(m)]}
    BY <1>6 DEF Email!queueEmail, Email!Track
  <2>2. stage'[m] = "queued" /\ tracked'[m] = "pending"
    BY <2>1, MailTo
  <2>3. Mail(m)'
    BY <2>2 DEF Mail
  <2> QED
    BY <2>1, <2>3, MailTo, MailMoved DEF Stages
<1> QED
  BY <1>1, <1>2, <1>3, <1>4, <1>5, <1>6

(* A provider's event that calls a message failed is remembered as such.         *)
LEMMA MailHook ==
    ASSUME EmailConstants, EmailInv, NEW m \in Mails, NEW provider, NEW event \in MailEvents,
           Email!handleWebhookEvent(m, provider, event)
    PROVE  EmailInv'
<1> DEFINE of == Email!parseWebhookPayload(provider, m)
<1>1. /\ tracked' = [t \in Mails |-> IF t = of THEN event ELSE tracked[t]]
      /\ reported' = IF event = "failed" THEN reported \cup ({of} \cap Mails) ELSE reported
      /\ UNCHANGED <<stage, delivered, queue, bulk>>
  BY DEF Email!handleWebhookEvent
<1> HIDE DEF of
<1>2. EmailTyped'
  BY <1>1 DEF EmailInv, EmailTyped
<1>3. ASSUME NEW t \in Mails, tracked'[t] = "failed" PROVE tracked[t] = "failed" \/ t \in reported'
  BY <1>1, <1>3
<1>4. ASSUME NEW t \in Mails PROVE Mail(t)'
  <2>1. Mail(t) /\ reported \subseteq reported'
    BY <1>1 DEF EmailInv
  <2> QED
    BY <1>1, <1>3, <2>1 DEF Mail
<1>5. Bulk'
  BY <1>1, BulkSame DEF EmailInv
<1> QED
  BY <1>2, <1>4, <1>5 DEF EmailInv

(* The messages of a batch not tried before are all sent at once.                *)
LEMMA Started ==
    ASSUME EmailConstants, EmailInv, NEW n \in DOMAIN Batches, n > bulk.batch, Email!Start(n), UNCHANGED <<delivered, queue, reported>>
    PROVE  /\ stage' \in [Mails -> Stages]
           /\ \A m \in Mails : stage'[m] = IF m \in Batches[n] THEN "sending" ELSE stage[m]
           /\ tracked' \in [Mails -> ({None, "sent", "failed", "pending"} \cup MailEvents)]
           /\ \A m \in Mails : Mail(m)'
<1>1. /\ stage' = [m \in Mails |-> IF m \in Batches[n] THEN "sending" ELSE stage[m]]
      /\ tracked' = [m \in Mails |-> IF m \in Batches[n] THEN "sent" ELSE tracked[m]]
  BY DEF Email!Start
<1>2. stage' \in [Mails -> Stages] /\ tracked' \in [Mails -> ({None, "sent", "failed", "pending"} \cup MailEvents)]
  BY <1>1 DEF EmailInv, EmailTyped, Stages
<1>3. \A m \in Batches[n] : stage[m] = "idle"
  BY DEF EmailInv, Bulk
<1>4. ASSUME NEW m \in Mails PROVE Mail(m)'
  <2>1. Mail(m) /\ queue' = queue /\ delivered' = delivered /\ reported' = reported
    BY DEF EmailInv
  <2>2. stage'[m] = IF m \in Batches[n] THEN "sending" ELSE stage[m]
    BY <1>1
  <2>3. tracked'[m] = IF m \in Batches[n] THEN "sent" ELSE tracked[m]
    BY <1>1
  <2> QED
    BY <1>3, <2>1, <2>2, <2>3 DEF Mail
<1> QED
  BY <1>1, <1>2, <1>4

LEMMA BulkStarts == ASSUME EmailConstants, EmailInv, Email!sendBulkEmails PROVE EmailInv'
<1>1. /\ bulk.state = "idle" /\ Email!Start(1) /\ UNCHANGED <<delivered, queue, reported>>
      /\ bulk' = [bulk EXCEPT !.state = "running", !.batch = 1]
  BY DEF Email!sendBulkEmails
<1>2. /\ 1 \in DOMAIN Batches /\ Len(Batches) \in Nat /\ 1 \in 0..Len(Batches) /\ \A n \in DOMAIN Batches : n \in Nat /\ n >= 1
  BY BatchesTyped
<1>3. bulk.batch = 0 /\ bulk.results = {} /\ 1 > bulk.batch
  BY <1>1 DEF EmailInv, Bulk
<1>4. /\ stage' \in [Mails -> Stages]
      /\ \A m \in Mails : stage'[m] = IF m \in Batches[1] THEN "sending" ELSE stage[m]
      /\ tracked' \in [Mails -> ({None, "sent", "failed", "pending"} \cup MailEvents)]
      /\ \A m \in Mails : Mail(m)'
  BY <1>1, <1>2, <1>3, Started
<1>5. /\ bulk'.batch = 1 /\ bulk'.results = {} /\ bulk'.state = "running"
      /\ bulk' \in [batch : 0..Len(Batches), results : SUBSET Email!InBulk, state : {"idle", "running", "stopped", "returned"}]
  BY <1>1, <1>2, <1>3 DEF EmailInv, EmailTyped
<1>6. EmailTyped'
  BY <1>1, <1>4, <1>5 DEF EmailInv, EmailTyped
<1>7. ASSUME NEW n \in DOMAIN Batches, n > 1, NEW m \in Batches[n] PROVE stage'[m] = "idle"
  <2>1. m \in Mails /\ m \notin Batches[1]
    BY <1>2, <1>7, BatchesTyped DEF EmailConstants
  <2>2. stage[m] = "idle"
    BY <1>2, <1>3, <1>7 DEF EmailInv, Bulk
  <2> QED
    BY <1>4, <2>1, <2>2
<1>8. SentUpto(bulk.batch - 1)' = {}
  <2>1. \A n \in DOMAIN Batches : ~(n <= bulk'.batch - 1)
    BY <1>2, <1>5
  <2> QED
    BY <2>1 DEF SentUpto
<1>9. \A n \in DOMAIN Batches : ~(n < bulk'.batch)
  BY <1>2, <1>5
<1>10. Bulk'
  BY <1>5, <1>7, <1>8, <1>9 DEF Bulk
<1> QED
  BY <1>4, <1>6, <1>10 DEF EmailInv

LEMMA BulkStops == ASSUME EmailConstants, EmailInv, Email!Stop PROVE EmailInv'
<1>1. /\ bulk.state = "running" /\ bulk' = [bulk EXCEPT !.state = "stopped"]
      /\ UNCHANGED <<stage, tracked, delivered, queue, reported>>
  BY DEF Email!Stop, Email!Settled
<1>2. /\ bulk'.batch = bulk.batch /\ bulk'.results = bulk.results /\ bulk'.state = "stopped"
      /\ bulk' \in [batch : 0..Len(Batches), results : SUBSET Email!InBulk, state : {"idle", "running", "stopped", "returned"}]
  BY <1>1 DEF EmailInv, EmailTyped
<1>3. EmailTyped'
  BY <1>1, <1>2 DEF EmailInv, EmailTyped
<1>4. \A m \in Mails : Mail(m)'
  BY <1>1 DEF EmailInv, Mail
<1>5. SentUpto(bulk.batch - 1)' = SentUpto(bulk.batch - 1)
  BY <1>1, <1>2 DEF SentUpto
<1>6. Bulk'
  BY <1>1, <1>2, <1>5 DEF EmailInv, Bulk, Email!Over
<1> QED
  BY <1>3, <1>4, <1>6 DEF EmailInv

(* One failure in the first batch is more than its share of no results.          *)
LEMMA FirstBatchSent ==
    ASSUME EmailConstants, EmailInv, Email!Settled, ~Email!TooMany, bulk.batch = 1
    PROVE  \A m \in Batches[1] : stage[m] = "sent"
<1>1. bulk.results = {}
  <2>1. \A n \in DOMAIN Batches : ~(n <= bulk.batch - 1)
    BY BatchesTyped
  <2>2. SentUpto(bulk.batch - 1) = {}
    BY <2>1 DEF SentUpto
  <2> QED
    BY <2>2 DEF EmailInv, Bulk, Email!Settled
<1>2. Cardinality(bulk.results) = 0
  BY <1>1, FS_EmptySet
<1> DEFINE thrown == {m \in Email!InBulk : stage[m] = "thrown"}
<1>3. IsFiniteSet(thrown)
  <2>1. thrown \subseteq Mails /\ IsFiniteSet(Mails)
    BY BatchesTyped DEF EmailConstants
  <2> HIDE DEF thrown
  <2> QED
    BY <2>1, FS_Subset
<1>4. Cardinality(thrown) \in Nat
  BY <1>3, FS_CardinalityType
<1>5. Email!Failures = Cardinality(thrown)
  <2>1. Email!Failures = Email!Cardinality(thrown)
    BY DEF Email!Failures
  <2> HIDE DEF thrown
  <2> QED
    BY <2>1, Sizes
<1>6. ~(Email!Failures * 100 > Threshold * 0) /\ Threshold \in Nat
  <2>1. Email!Cardinality(bulk.results) = 0
    BY <1>2, Sizes
  <2> QED
    BY <2>1 DEF Email!TooMany, EmailConstants
<1>7. Cardinality(thrown) = 0
  BY <1>4, <1>5, <1>6
<1>8. thrown = {}
  BY <1>3, <1>7, FS_EmptySet
<1>9. \A m \in Batches[1] : m \in Email!InBulk /\ Email!Over(m)
  BY BatchesTyped DEF Email!Settled
<1> QED
  BY <1>8, <1>9 DEF Email!Over

LEMMA BulkReturns ==
    ASSUME EmailConstants, EmailInv, Email!Settled, bulk.batch = Len(Batches), UNCHANGED <<stage, tracked, delivered, queue, reported>>,
           ~Email!TooMany,
           bulk' = [bulk EXCEPT !.state = "returned",
                                !.results = bulk.results \cup {m \in Batches[bulk.batch] : stage[m] = "sent"}]
    PROVE  EmailInv'
<1> DEFINE last == {m \in Batches[bulk.batch] : stage[m] = "sent"}
<1>1. /\ Len(Batches) \in Nat /\ Len(Batches) \in DOMAIN Batches
      /\ \A n \in DOMAIN Batches : n \in Nat /\ n <= Len(Batches) /\ Batches[n] \subseteq Email!InBulk
  BY BatchesTyped
<1>2. bulk.state = "running" /\ bulk.results = SentUpto(bulk.batch - 1) /\ \A m \in Batches[bulk.batch] : Email!Over(m)
  BY DEF EmailInv, Bulk, Email!Settled
<1>3. last \subseteq Email!InBulk
  BY <1>1
<1>4. /\ bulk'.batch = bulk.batch /\ bulk'.results = bulk.results \cup last /\ bulk'.state = "returned"
      /\ bulk' \in [batch : 0..Len(Batches), results : SUBSET Email!InBulk, state : {"idle", "running", "stopped", "returned"}]
  BY <1>3 DEF EmailInv, EmailTyped
<1>5. EmailTyped'
  BY <1>4 DEF EmailInv, EmailTyped
<1>6. \A m \in Mails : Mail(m)'
  BY DEF EmailInv, Mail
<1>7. ASSUME NEW m \in Email!InBulk
      PROVE  \E n \in DOMAIN Batches : m \in Batches[n] /\ (n <= bulk.batch - 1 \/ n = bulk.batch)
  <2>1. PICK n \in DOMAIN Batches : m \in Batches[n]
    BY DEF Email!InBulk
  <2>2. n <= bulk.batch - 1 \/ n = bulk.batch
    BY <1>1, <2>1
  <2> QED
    BY <2>1, <2>2
<1>8. bulk.results \cup last = {m \in Email!InBulk : stage[m] = "sent"}
  BY <1>1, <1>2, <1>7 DEF SentUpto
<1>9. ASSUME NEW m \in Email!InBulk PROVE Email!Over(m)
  <2>1. PICK n \in DOMAIN Batches : m \in Batches[n] /\ (n <= bulk.batch - 1 \/ n = bulk.batch)
    BY <1>7
  <2>2. CASE n = bulk.batch
    BY <1>2, <2>1, <2>2
  <2>3. CASE n <= bulk.batch - 1
    <3>1. n < bulk.batch
      BY <1>1, <2>3
    <3> QED
      BY <2>1, <3>1 DEF EmailInv, Bulk
  <2> QED
    BY <2>1, <2>2, <2>3
<1> HIDE DEF last
<1>10. Bulk'
  BY <1>2, <1>4, <1>8, <1>9 DEF EmailInv, Bulk, Email!Over
<1> QED
  BY <1>5, <1>6, <1>10 DEF EmailInv

LEMMA BulkProceeds ==
    ASSUME EmailConstants, EmailInv, Email!Settled, ~Email!TooMany, bulk.batch # Len(Batches),
           Email!Start(bulk.batch + 1), UNCHANGED <<delivered, queue, reported>>,
           bulk' = [bulk EXCEPT !.batch = bulk.batch + 1,
                                !.results = bulk.results \cup {m \in Batches[bulk.batch] : stage[m] = "sent"}]
    PROVE  EmailInv'
<1> DEFINE b == bulk.batch
           last == {m \in Batches[b] : stage[m] = "sent"}
<1>1. /\ Len(Batches) \in Nat /\ DOMAIN Batches = 1..Len(Batches)
      /\ \A n \in DOMAIN Batches : n \in Nat /\ Batches[n] \subseteq Email!InBulk /\ Batches[n] \subseteq Mails
  BY BatchesTyped
<1>2. bulk.state = "running" /\ bulk.results = SentUpto(b - 1) /\ \A m \in Batches[b] : Email!Over(m)
  BY DEF EmailInv, Bulk, Email!Settled
<1>3. b \in 0..Len(Batches) /\ b # 0
  BY <1>2 DEF EmailInv, EmailTyped, Bulk
<1>4. b \in DOMAIN Batches /\ b + 1 \in DOMAIN Batches /\ b + 1 > b /\ b + 1 \in 0..Len(Batches)
  BY <1>1, <1>3
<1>5. last \subseteq Email!InBulk
  BY <1>1, <1>4
<1>6. /\ bulk'.batch = b + 1 /\ bulk'.results = bulk.results \cup last /\ bulk'.state = "running"
      /\ bulk' \in [batch : 0..Len(Batches), results : SUBSET Email!InBulk, state : {"idle", "running", "stopped", "returned"}]
  BY <1>2, <1>4, <1>5 DEF EmailInv, EmailTyped
<1>7. /\ stage' \in [Mails -> Stages]
      /\ \A m \in Mails : stage'[m] = IF m \in Batches[b + 1] THEN "sending" ELSE stage[m]
      /\ tracked' \in [Mails -> ({None, "sent", "failed", "pending"} \cup MailEvents)]
      /\ \A m \in Mails : Mail(m)'
  BY <1>4, Started
<1>8. EmailTyped'
  BY <1>6, <1>7 DEF EmailInv, EmailTyped
<1>9. ASSUME NEW n \in DOMAIN Batches, n # b + 1, NEW m \in Batches[n] PROVE stage'[m] = stage[m]
  <2>1. m \in Mails /\ m \notin Batches[b + 1]
    BY <1>1, <1>4, <1>9 DEF EmailConstants
  <2> QED
    BY <1>7, <2>1
<1>10. ASSUME NEW n \in DOMAIN Batches, n < b + 1, NEW m \in Batches[n] PROVE Email!Over(m) /\ Email!Over(m)'
  <2>1. n < b \/ n = b
    BY <1>1, <1>3, <1>10
  <2>2. Email!Over(m)
    BY <1>2, <1>10, <2>1 DEF EmailInv, Bulk
  <2>3. n # b + 1
    BY <1>1, <1>3, <1>10
  <2>4. stage'[m] = stage[m]
    BY <1>9, <2>3
  <2> QED
    BY <2>2, <2>4 DEF Email!Over
<1>11. ASSUME NEW n \in DOMAIN Batches, n > b + 1, NEW m \in Batches[n] PROVE stage'[m] = "idle"
  <2>1. n > b /\ n # b + 1
    BY <1>1, <1>3, <1>11
  <2>2. stage[m] = "idle"
    BY <2>1 DEF EmailInv, Bulk
  <2> QED
    BY <1>9, <2>1, <2>2
<1>12. \A m \in Batches[1] : stage'[m] = "sent"
  <2>1. 1 \in DOMAIN Batches /\ 1 # b + 1
    BY <1>1, <1>3, <1>4
  <2>2. CASE b = 1
    BY <1>9, <2>1, <2>2, FirstBatchSent
  <2>3. CASE b # 1
    <3>1. b > 1
      BY <1>3, <2>3
    <3> QED
      BY <1>9, <2>1, <3>1 DEF EmailInv, Bulk
  <2> QED
    BY <2>2, <2>3
<1>13. bulk.results \cup last = SentUpto(bulk.batch - 1)'
  <2>1. SentUpto(bulk.batch - 1)' = {m \in Email!InBulk : stage'[m] = "sent" /\ \E n \in DOMAIN Batches : n <= b /\ m \in Batches[n]}
    <3>1. b \in Nat
      BY <1>1, <1>3
    <3>2. bulk'.batch = b + 1
      BY <1>6
    <3> HIDE DEF b
    <3>3. bulk'.batch - 1 = b
      BY <3>1, <3>2
    <3> QED
      BY <3>3 DEF SentUpto
  <2>2. \A n \in DOMAIN Batches : n <= b <=> n <= b - 1 \/ n = b
    BY <1>1, <1>3
  <2>3. \A n \in DOMAIN Batches : n <= b => n # b + 1
    BY <1>1, <1>3
  <2>4. \A n \in DOMAIN Batches : n <= b => \A m \in Batches[n] : stage'[m] = stage[m]
    BY <1>9, <2>3
  <2>5. bulk.results \cup last = {m \in Email!InBulk : stage[m] = "sent" /\ \E n \in DOMAIN Batches : n <= b /\ m \in Batches[n]}
    BY <1>1, <1>2, <1>4, <2>2 DEF SentUpto
  <2> QED
    BY <2>1, <2>4, <2>5
<1> HIDE DEF b, last
<1>14. Bulk'
  <2>1. bulk'.state # "idle" /\ bulk'.batch # 0 /\ bulk'.state # "returned"
    <3>1. b \in Nat
      BY <1>1, <1>3
    <3>2. bulk'.batch = b + 1 /\ bulk'.state = "running"
      BY <1>6
    <3> QED
      BY <3>1, <3>2
  <2> QED
    BY <1>6, <1>10, <1>11, <1>12, <1>13, <2>1 DEF Bulk
<1> QED
  BY <1>7, <1>8, <1>14 DEF EmailInv

LEMMA EmailNext == EmailConstants /\ EmailInv /\ [Email!Next]_Email!vars => EmailInv'
<1> SUFFICES ASSUME EmailConstants, EmailInv, [Email!Next]_Email!vars PROVE EmailInv'
  OBVIOUS
<1>1. ASSUME NEW m \in Mails,
             Email!sendEmail(m) \/ Email!Sent(m) \/ Email!Recorded(m) \/ Email!Failed(m) \/ Email!Requeued(m) \/ Email!queueEmail(m)
      PROVE  EmailInv'
  BY <1>1, MailNext
<1>2. ASSUME NEW m \in Mails, NEW provider \in {"ses", "sendgrid", "mailgun"}, NEW event \in MailEvents,
             Email!handleWebhookEvent(m, provider, event)
      PROVE  EmailInv'
  BY <1>2, MailHook
<1>3. ASSUME Email!Proceed PROVE EmailInv'
  <2>1. Email!Settled /\ ~Email!TooMany /\ UNCHANGED <<delivered, queue, reported>>
    BY <1>3 DEF Email!Proceed
  <2>2. CASE bulk.batch = Len(Batches)
    BY <1>3, <2>1, <2>2, BulkReturns DEF Email!Proceed
  <2>3. CASE bulk.batch # Len(Batches)
    BY <1>3, <2>1, <2>3, BulkProceeds DEF Email!Proceed
  <2> QED
    BY <2>2, <2>3
<1>4. CASE UNCHANGED Email!vars
  <2>1. UNCHANGED <<stage, tracked, delivered, queue, bulk, reported>>
    BY <1>4 DEF Email!vars
  <2>2. EmailTyped' /\ \A m \in Mails : Mail(m)'
    BY <2>1 DEF EmailInv, EmailTyped, Mail
  <2>3. Bulk'
    BY <2>1, BulkSame DEF EmailInv
  <2> QED
    BY <2>2, <2>3 DEF EmailInv
<1> QED
  BY <1>1, <1>2, <1>3, <1>4, BulkStarts, BulkStops DEF Email!Next

LEMMA EmailProps == EmailInv => Email!TypeOK /\ Email!FailedMailIsRetried
<1> SUFFICES ASSUME EmailInv PROVE Email!TypeOK /\ Email!FailedMailIsRetried
  OBVIOUS
<1>1. Email!TypeOK
  BY DEF EmailInv, EmailTyped, Stages, Email!TypeOK
<1>2. \A m \in Mails :
        /\ stage[m] = "thrown" /\ m \notin Unretried => [mail |-> m, body |-> Email!Body(m)] \in queue
        /\ stage[m] = "sent" => m \in delivered /\ \A q \in queue : q.mail # m
        /\ tracked[m] = "failed" => stage[m] = "thrown" \/ m \in reported
  BY DEF EmailInv, Mail
<1>3. Bulk
  BY DEF EmailInv
<1> QED
  BY <1>1, <1>2, <1>3 DEF Email!FailedMailIsRetried, Bulk

-----------------------------------------------------------------------------
(* Settings, logs and backups.  What a call has read may be stale when it saves; *)
(* what it saves are the fields it was given, and what it removes its call explains.   *)

AllValues == Int \cup {"on", "off", "custom"} \cup (SUBSET Alerts) \cup {None}
Documents == {w \in [Settings!Fields -> AllValues] : \A f \in Settings!Fields : w[f] \in Settings!Values(f) \cup {None}}
Patch(patch) == \A f \in DOMAIN patch : f \in Settings!Fields /\ patch[f] \in Settings!Values(f) \cup {None}
SettingsConstants ==
    /\ Days \subseteq Int /\ Ages \subseteq Nat /\ None \notin Documents /\ None \notin Int
    /\ None \notin SUBSET Alerts /\ \A patch \in Bodies : Patch(patch)
    /\ None \notin {"in_progress", "completed", "on", "settings", "nested", "alerts", "cleanup", "system", "bulk", "clear", "backup"}

(* The settings are what was given last to each field, but for those skipped,    *)
(* and nothing was saved while there were none.                                  *)
Kept ==
    /\ settings \in Documents \cup {None} /\ assigned \in Documents /\ asked \in SUBSET Alerts
    /\ settings = None => assigned = Settings!Empty /\ skipped = {} /\ asked = {}
    /\ settings # None => skipped = {f \in Settings!Fields : settings[f] # assigned[f]}
    /\ settings # None /\ ~crossed => Settings!Keys(settings["alerts"]) = asked

(* What a call that is under way was asked for and has read.                     *)
Period0(c) == IF adminCall[c].arg \in {None, 0} THEN adminCall[c].read \in policies[c] ELSE adminCall[c].read = adminCall[c].arg
Underway(c) ==
    /\ adminCall[c] = [op |-> adminCall[c].op, arg |-> adminCall[c].arg, read |-> adminCall[c].read, at |-> adminCall[c].at]
    /\ Settings!At(c, "idle") => adminCall[c].op = None
    /\ Settings!Writing(c) => Patch(adminCall[c].arg.patch) /\ (adminCall[c].read # None => settings # None)
    /\ Settings!At(c, "found") /\ adminCall[c].op = "alerts" =>
           /\ adminCall[c].arg \in SUBSET Alerts /\ adminCall[c].read \in Documents \cup {None}
           /\ adminCall[c].read # None => settings # None
    /\ Settings!Cleaning(c) => adminCall[c].read \in Int /\ Period0(c)
CallsTyped ==
    /\ adminCall = [c \in RecordCalls |-> adminCall[c]] /\ policies \in [RecordCalls -> SUBSET Int]
    /\ \A c \in RecordCalls : Underway(c)

(* Why the log of an age may be gone. *)
Explained(age, c) ==
    \/ adminCall[c].op = "cleanup" /\ (IF adminCall[c].arg \in {None, 0} THEN \E days \in policies[c] : age > days ELSE age > adminCall[c].arg)
    \/ adminCall[c].op = "system" /\ age > Settings!Limit(adminCall[c].arg)
    \/ adminCall[c].op \in {"bulk", "clear"} /\ age \in adminCall[c].arg
LogsExplained == logs \subseteq Ages /\ \A age \in Ages \ logs : \E c \in RecordCalls : Explained(age, c)

BackupsTold ==
    /\ backups \in [RecordCalls -> {None, "in_progress", "completed"}] /\ logged \in [RecordCalls -> Nat]
    /\ \A c \in RecordCalls :
        /\ backups[c] = "in_progress" => adminCall[c].at \in {"found", "thrown", "crashed"} /\ adminCall[c].op = "backup"
        /\ logged[c] > 0 => adminCall[c].at \in {"saved", "done", "crashed"}
SettingsInv == Kept /\ CallsTyped /\ LogsExplained /\ BackupsTold

LEMMA EmptyType == Settings!Empty \in Documents /\ Settings!Keys(Settings!Empty["alerts"]) = {}
BY DEF Settings!Empty, Settings!Keys, Settings!Fields, Documents, AllValues

LEMMA ValuesType ==
    ASSUME SettingsConstants, NEW f \in Settings!Fields
    PROVE  Settings!Values(f) \cup {None} \subseteq AllValues
BY DEF Settings!Fields, Settings!Values, AllValues, SettingsConstants

LEMMA KeysType ==
    ASSUME SettingsConstants, NEW doc \in Documents
    PROVE  doc["alerts"] \in (SUBSET Alerts) \cup {None} /\ Settings!Keys(doc["alerts"]) \in SUBSET Alerts
<1>1. doc["alerts"] \in Settings!Values("alerts") \cup {None}
  BY DEF Documents, Settings!Fields
<1> QED
  BY <1>1 DEF Settings!Values, Settings!Keys

LEMMA SettingsInit == SettingsConstants /\ Settings!Init => SettingsInv
<1> SUFFICES ASSUME SettingsConstants, Settings!Init PROVE SettingsInv
  OBVIOUS
<1>1. Kept
  <2>1. /\ settings \in {None, Settings!Empty} /\ assigned = Settings!Empty /\ skipped = {} /\ asked = {}
        /\ settings # None => skipped = {f \in Settings!Fields : settings[f] # assigned[f]}
    BY DEF Settings!Init
  <2> QED
    BY <2>1, EmptyType DEF Kept
<1>2. adminCall = [c \in RecordCalls |-> Settings!Idle] /\ policies = [c \in RecordCalls |-> {}] /\ logs = Ages
  BY DEF Settings!Init
<1>3. CallsTyped
  <2>1. \A c \in RecordCalls : adminCall[c] = Settings!Idle
    BY <1>2
  <2>2. ASSUME NEW c \in RecordCalls PROVE Underway(c)
    BY <2>1 DEF Underway, Settings!Idle, Settings!At, Settings!Writing, Settings!Cleaning
  <2> QED
    BY <1>2, <2>2 DEF CallsTyped
<1>4. LogsExplained
  BY <1>2 DEF LogsExplained
<1>5. BackupsTold
  <2>1. backups = [c \in RecordCalls |-> None] /\ logged = [c \in RecordCalls |-> 0]
    BY DEF Settings!Init
  <2>2. ASSUME NEW c \in RecordCalls PROVE backups[c] # "in_progress" /\ ~(logged[c] > 0)
    <3>1. backups[c] = None /\ logged[c] = 0
      BY <2>1
    <3>2. None # "in_progress"
      BY DEF SettingsConstants
    <3>3. ~(logged[c] > 0)
      BY <3>1
    <3> QED
      BY <3>1, <3>2, <3>3
  <2> QED
    BY <2>1, <2>2 DEF BackupsTold
<1> QED
  BY <1>1, <1>3, <1>4, <1>5 DEF SettingsInv

LEMMA PeriodType ==
    ASSUME SettingsConstants, NEW doc \in Documents \cup {None}
    PROVE  Settings!Period(doc) \in Int
<1>1. CASE doc = None
  BY <1>1 DEF Settings!Period
<1>2. CASE doc # None
  <2> DEFINE kept == doc["retention"]
  <2>1. kept \in Settings!Values("retention") \cup {None}
    BY <1>2 DEF Documents, Settings!Fields
  <2>2. kept \in Int \cup {None}
    <3>1. kept \in Days \cup {2555} \cup {None}
      BY <2>1 DEF Settings!Values
    <3>2. Days \subseteq Int
      BY DEF SettingsConstants
    <3> HIDE DEF kept
    <3>3. \A days \in Days \cup {2555} \cup {None} : days \in Int \cup {None}
      BY <3>2
    <3> QED
      BY <3>1, <3>3
  <2>3. Settings!Period(doc) = IF kept \in {None, 0} THEN 2555 ELSE kept
    BY <1>2 DEF Settings!Period, Settings!Or
  <2> HIDE DEF kept
  <2> QED
    BY <2>2, <2>3
<1> QED
  BY <1>1, <1>2

(* What a call is like that has just begun, and what the others are like then.   *)
LEMMA BegunCall ==
    ASSUME CallsTyped, NEW c \in RecordCalls, NEW op, NEW arg, NEW read, NEW at, Settings!Begin(c, op, arg, read, at)
    PROVE  /\ adminCall[c].at = "idle" /\ adminCall[c].op = None
           /\ adminCall'[c] = [op |-> op, arg |-> arg, read |-> read, at |-> at]
           /\ policies'[c] = {Settings!Period(settings)}
           /\ \A d \in RecordCalls : d # c => adminCall'[d] = adminCall[d] /\ policies'[d] = policies[d]
           /\ adminCall' = [d \in RecordCalls |-> adminCall'[d]] /\ policies' = [policies EXCEPT ![c] = {Settings!Period(settings)}]
           /\ UNCHANGED <<logged, assigned, skipped, asked, crossed>>
BY DEF CallsTyped, Settings!Begin, Underway, Settings!At, Settings!histories

LEMMA BegunTyped ==
    ASSUME SettingsConstants, Kept, CallsTyped, NEW c \in RecordCalls, NEW op, NEW arg, NEW read, NEW at,
           Settings!Begin(c, op, arg, read, at), at # "idle", settings # None => settings' # None,
           op \in {"settings", "nested"} /\ at = "found" => Patch(arg.patch) /\ read = settings,
           op = "alerts" /\ at = "found" => arg \in SUBSET Alerts /\ read = settings,
           op = "cleanup" /\ at = "found" => read \in Int /\ read = Settings!Or(arg, Settings!Period(settings))
    PROVE  CallsTyped'
<1>1. /\ adminCall'[c] = [op |-> op, arg |-> arg, read |-> read, at |-> at]
      /\ policies'[c] = {Settings!Period(settings)}
      /\ \A d \in RecordCalls : d # c => adminCall'[d] = adminCall[d] /\ policies'[d] = policies[d]
      /\ adminCall' = [d \in RecordCalls |-> adminCall'[d]] /\ policies' = [policies EXCEPT ![c] = {Settings!Period(settings)}]
  BY BegunCall
<1>2. adminCall'[c].op = op /\ adminCall'[c].arg = arg /\ adminCall'[c].read = read /\ adminCall'[c].at = at
  BY <1>1
<1>3. Underway(c)'
  <2>1. adminCall'[c] = [op |-> adminCall'[c].op, arg |-> adminCall'[c].arg, read |-> adminCall'[c].read, at |-> adminCall'[c].at]
    BY <1>1, <1>2
  <2>2. (Settings!At(c, "idle") => adminCall[c].op = None)'
    BY <1>2 DEF Settings!At
  <2>3. (Settings!Writing(c) => Patch(adminCall[c].arg.patch) /\ (adminCall[c].read # None => settings # None))'
    BY <1>2 DEF Settings!Writing, Settings!At, Patch
  <2>4. (Settings!At(c, "found") /\ adminCall[c].op = "alerts" =>
           /\ adminCall[c].arg \in SUBSET Alerts /\ adminCall[c].read \in Documents \cup {None}
           /\ adminCall[c].read # None => settings # None)'
    BY <1>2 DEF Settings!At, Kept
  <2>5. (Settings!Cleaning(c) => adminCall[c].read \in Int /\ Period0(c))'
    BY <1>1, <1>2 DEF Settings!Cleaning, Settings!At, Period0, Settings!Or
  <2> QED
    BY <2>1, <2>2, <2>3, <2>4, <2>5 DEF Underway
<1>4. ASSUME NEW d \in RecordCalls, d # c PROVE Underway(d)'
  <2>1. Underway(d) /\ adminCall'[d] = adminCall[d] /\ policies'[d] = policies[d]
    BY <1>1, <1>4 DEF CallsTyped
  <2> QED
    BY <2>1 DEF Underway, Settings!At, Settings!Writing, Settings!Cleaning, Period0
<1>5. policies' \in [RecordCalls -> SUBSET Int]
  <2>1. Settings!Period(settings) \in Int
    BY PeriodType DEF Kept
  <2> QED
    BY <1>1, <2>1 DEF CallsTyped
<1> QED
  BY <1>1, <1>3, <1>4, <1>5 DEF CallsTyped

LEMMA BegunLogs ==
    ASSUME SettingsConstants, CallsTyped, LogsExplained, NEW c \in RecordCalls, NEW op, NEW arg, NEW read, NEW at,
           Settings!Begin(c, op, arg, read, at), logs' \subseteq logs,
           \A age \in logs \ logs' : Explained(age, c)'
    PROVE  LogsExplained'
<1>1. /\ adminCall[c].op = None /\ \A d \in RecordCalls : d # c => adminCall'[d] = adminCall[d] /\ policies'[d] = policies[d]
  BY BegunCall
<1>2. \A age \in Ages : ~Explained(age, c)
  BY <1>1 DEF Explained, SettingsConstants
<1>3. ASSUME NEW age \in Ages \ logs' PROVE \E d \in RecordCalls : Explained(age, d)'
  <2>1. CASE age \in logs
    BY <1>3, <2>1
  <2>2. CASE age \notin logs
    <3>1. PICK d \in RecordCalls : Explained(age, d)
      BY <2>2 DEF LogsExplained
    <3>2. d # c
      BY <1>2, <3>1
    <3>3. Explained(age, d)'
      BY <1>1, <3>1, <3>2 DEF Explained
    <3> QED
      BY <3>3
  <2> QED
    BY <2>1, <2>2
<1> QED
  BY <1>3 DEF LogsExplained

LEMMA BegunBackups ==
    ASSUME CallsTyped, BackupsTold, NEW c \in RecordCalls, NEW op, NEW arg, NEW read, NEW at, Settings!Begin(c, op, arg, read, at),
           \/ backups' = backups
           \/ op = "backup" /\ at = "found" /\ backups' = [backups EXCEPT ![c] = "in_progress"]
    PROVE  BackupsTold'
<1>1. /\ adminCall[c].at = "idle" /\ adminCall'[c] = [op |-> op, arg |-> arg, read |-> read, at |-> at]
      /\ \A d \in RecordCalls : d # c => adminCall'[d] = adminCall[d]
      /\ logged' = logged
  BY BegunCall
<1>2. adminCall'[c].op = op /\ adminCall'[c].at = at
  BY <1>1
<1>3. backups' \in [RecordCalls -> {None, "in_progress", "completed"}] /\ \A d \in RecordCalls : d # c => backups'[d] = backups[d]
  BY DEF BackupsTold
<1>4. ~(logged[c] > 0) /\ backups[c] # "in_progress"
  BY <1>1 DEF BackupsTold
<1>5. backups'[c] = "in_progress" => op = "backup" /\ at = "found"
  BY <1>4 DEF BackupsTold
<1> QED
  BY <1>1, <1>2, <1>3, <1>4, <1>5 DEF BackupsTold

(* A call that begins and changes nothing but itself. *)
LEMMA BeginsAlone ==
    ASSUME SettingsConstants, SettingsInv, NEW c \in RecordCalls, NEW op, NEW arg, NEW read, NEW at,
           Settings!Begin(c, op, arg, read, at), at # "idle", UNCHANGED <<settings, logs, backups>>,
           op \in {"settings", "nested"} /\ at = "found" => Patch(arg.patch) /\ read = settings,
           op = "alerts" /\ at = "found" => arg \in SUBSET Alerts /\ read = settings,
           op = "cleanup" /\ at = "found" => read \in Int /\ read = Settings!Or(arg, Settings!Period(settings))
    PROVE  SettingsInv'
<1>1. Kept /\ CallsTyped /\ LogsExplained /\ BackupsTold
  BY DEF SettingsInv
<1>2. CallsTyped'
  BY <1>1, BegunTyped
<1>3. LogsExplained'
  BY <1>1, BegunLogs
<1>4. BackupsTold'
  BY <1>1, BegunBackups
<1>5. Kept'
  <2>1. UNCHANGED <<settings, assigned, skipped, asked, crossed>>
    BY <1>1, BegunCall
  <2> QED
    BY <1>1, <2>1 DEF Kept
<1> QED
  BY <1>2, <1>3, <1>4, <1>5 DEF SettingsInv

(* A call that goes on keeps what it was asked for. *)
LEMMA GoneCall ==
    ASSUME CallsTyped, NEW c \in RecordCalls, NEW at, Settings!Go(c, at)
    PROVE  /\ adminCall'[c] = [op |-> adminCall[c].op, arg |-> adminCall[c].arg, read |-> adminCall[c].read, at |-> at]
           /\ \A d \in RecordCalls : d # c => adminCall'[d] = adminCall[d]
           /\ adminCall' = [d \in RecordCalls |-> adminCall'[d]]
<1>1. adminCall = [d \in RecordCalls |-> adminCall[d]] /\ Underway(c) /\ adminCall' = [adminCall EXCEPT ![c].at = at]
  BY DEF CallsTyped, Settings!Go
<1>2. adminCall' = [adminCall EXCEPT ![c] = [adminCall[c] EXCEPT !.at = at]]
  BY <1>1
<1>3. [adminCall[c] EXCEPT !.at = at] = [op |-> adminCall[c].op, arg |-> adminCall[c].arg, read |-> adminCall[c].read, at |-> at]
  BY <1>1 DEF Underway
<1> QED
  BY <1>1, <1>2, <1>3

LEMMA GoneTyped ==
    ASSUME CallsTyped, NEW c \in RecordCalls, NEW at, Settings!Go(c, at), at \in {"saved", "thrown", "done", "crashed"},
           settings # None => settings' # None, policies' \in [RecordCalls -> SUBSET Int],
           \A d \in RecordCalls : policies[d] \subseteq policies'[d]
    PROVE  CallsTyped'
<1>1. /\ adminCall'[c] = [op |-> adminCall[c].op, arg |-> adminCall[c].arg, read |-> adminCall[c].read, at |-> at]
      /\ \A d \in RecordCalls : d # c => adminCall'[d] = adminCall[d]
      /\ adminCall' = [d \in RecordCalls |-> adminCall'[d]]
  BY GoneCall
<1>2. Underway(c)'
  <2>1. adminCall'[c].op = adminCall[c].op /\ adminCall'[c].arg = adminCall[c].arg /\ adminCall'[c].read = adminCall[c].read /\ adminCall'[c].at = at
    BY <1>1
  <2>2. adminCall'[c] = [op |-> adminCall'[c].op, arg |-> adminCall'[c].arg, read |-> adminCall'[c].read, at |-> adminCall'[c].at]
    BY <1>1, <2>1
  <2>3. ~Settings!At(c, "idle")' /\ ~Settings!At(c, "found")'
    BY <2>1 DEF Settings!At
  <2>4. ~Settings!Writing(c)' /\ ~Settings!Cleaning(c)'
    BY <2>3 DEF Settings!Writing, Settings!Cleaning
  <2> QED
    BY <2>2, <2>3, <2>4 DEF Underway
<1>3. ASSUME NEW d \in RecordCalls, d # c PROVE Underway(d)'
  <2>1. Underway(d) /\ adminCall'[d] = adminCall[d] /\ policies[d] \subseteq policies'[d]
    BY <1>1, <1>3 DEF CallsTyped
  <2> QED
    BY <2>1 DEF Underway, Settings!At, Settings!Writing, Settings!Cleaning, Period0
<1> QED
  BY <1>1, <1>2, <1>3 DEF CallsTyped

LEMMA GoneLogs ==
    ASSUME CallsTyped, LogsExplained, NEW c \in RecordCalls, NEW at, Settings!Go(c, at), logs' \subseteq logs,
           \A d \in RecordCalls : policies[d] \subseteq policies'[d],
           \A age \in logs \ logs' : Explained(age, c)'
    PROVE  LogsExplained'
<1>1. ASSUME NEW d \in RecordCalls PROVE adminCall'[d].op = adminCall[d].op /\ adminCall'[d].arg = adminCall[d].arg
  <2>1. /\ adminCall'[c] = [op |-> adminCall[c].op, arg |-> adminCall[c].arg, read |-> adminCall[c].read, at |-> at]
        /\ d # c => adminCall'[d] = adminCall[d]
    BY GoneCall
  <2> QED
    BY <2>1
<1>2. ASSUME NEW age \in Ages \ logs' PROVE \E d \in RecordCalls : Explained(age, d)'
  <2>1. CASE age \in logs
    BY <1>2, <2>1
  <2>2. CASE age \notin logs
    <3>1. PICK d \in RecordCalls : Explained(age, d)
      BY <2>2 DEF LogsExplained
    <3>2. adminCall'[d].op = adminCall[d].op /\ adminCall'[d].arg = adminCall[d].arg /\ policies[d] \subseteq policies'[d]
      BY <1>1
    <3>3. Explained(age, d)'
      BY <3>1, <3>2 DEF Explained
    <3> QED
      BY <3>3
  <2> QED
    BY <2>1, <2>2
<1> QED
  BY <1>2 DEF LogsExplained

LEMMA GoneBackups ==
    ASSUME CallsTyped, BackupsTold, NEW c \in RecordCalls, NEW at, Settings!Go(c, at), at \in {"saved", "thrown", "done", "crashed"},
           adminCall[c].at \in {"found", "saved"},
           \/ backups' = backups /\ (adminCall[c].op = "backup" /\ adminCall[c].at = "found" => at \in {"thrown", "crashed"})
           \/ backups' = [backups EXCEPT ![c] = "completed"],
           \/ logged' = logged /\ (adminCall[c].at = "found" \/ at = "crashed")
           \/ logged' = [logged EXCEPT ![c] = @ + 1] /\ at \in {"saved", "done"}
    PROVE  BackupsTold'
<1>1. /\ adminCall'[c].op = adminCall[c].op /\ adminCall'[c].at = at
      /\ \A d \in RecordCalls : d # c => adminCall'[d] = adminCall[d]
  <2>1. /\ adminCall'[c] = [op |-> adminCall[c].op, arg |-> adminCall[c].arg, read |-> adminCall[c].read, at |-> at]
        /\ \A d \in RecordCalls : d # c => adminCall'[d] = adminCall[d]
    BY GoneCall
  <2> QED
    BY <2>1
<1>2. /\ backups' \in [RecordCalls -> {None, "in_progress", "completed"}] /\ logged' \in [RecordCalls -> Nat]
      /\ \A d \in RecordCalls : d # c => backups'[d] = backups[d] /\ logged'[d] = logged[d]
  BY DEF BackupsTold
<1>3. backups'[c] = "in_progress" => at \in {"thrown", "crashed"} /\ adminCall[c].op = "backup"
  BY DEF BackupsTold
<1>4. logged'[c] > 0 => at \in {"saved", "done", "crashed"}
  <2>1. CASE logged' = logged /\ (adminCall[c].at = "found" \/ at = "crashed")
    BY <2>1 DEF BackupsTold
  <2> QED
    BY <2>1
<1>5. ASSUME NEW d \in RecordCalls
      PROVE  /\ backups'[d] = "in_progress" => adminCall'[d].at \in {"found", "thrown", "crashed"} /\ adminCall'[d].op = "backup"
             /\ logged'[d] > 0 => adminCall'[d].at \in {"saved", "done", "crashed"}
  <2>1. CASE d = c
    BY <1>1, <1>3, <1>4, <2>1
  <2>2. CASE d # c
    BY <1>1, <1>2, <2>2 DEF BackupsTold
  <2> QED
    BY <2>1, <2>2
<1> QED
  BY <1>2, <1>5 DEF BackupsTold

(* A call that goes on and saves no settings. *)
LEMMA GoesOn ==
    ASSUME SettingsInv, NEW c \in RecordCalls, NEW at, Settings!Go(c, at), at \in {"saved", "thrown", "done", "crashed"},
           adminCall[c].at \in {"found", "saved"}, UNCHANGED <<settings, Settings!histories, policies>>, logs' \subseteq logs,
           \A age \in logs \ logs' : Explained(age, c)',
           \/ backups' = backups /\ (adminCall[c].op = "backup" /\ adminCall[c].at = "found" => at \in {"thrown", "crashed"})
           \/ backups' = [backups EXCEPT ![c] = "completed"],
           \/ logged' = logged /\ (adminCall[c].at = "found" \/ at = "crashed")
           \/ logged' = [logged EXCEPT ![c] = @ + 1] /\ at \in {"saved", "done"}
    PROVE  SettingsInv'
<1>1. Kept /\ CallsTyped /\ LogsExplained /\ BackupsTold
  BY DEF SettingsInv
<1>2. CallsTyped'
  <2>1. policies' \in [RecordCalls -> SUBSET Int] /\ \A d \in RecordCalls : policies[d] \subseteq policies'[d]
    BY <1>1 DEF CallsTyped
  <2> QED
    BY <1>1, <2>1, GoneTyped
<1>3. LogsExplained'
  BY <1>1, GoneLogs
<1>4. BackupsTold'
  BY <1>1, GoneBackups
<1>5. Kept'
  BY <1>1 DEF Kept, Settings!histories
<1> QED
  BY <1>2, <1>3, <1>4, <1>5 DEF SettingsInv

LEMMA SavesNothing ==
    ASSUME SettingsInv, NEW c \in RecordCalls,
           Settings!Refused(c) \/ Settings!SecondDocument(c) \/ Settings!Completed(c) \/ Settings!logAction(c) \/ Settings!Crash(c)
    PROVE  SettingsInv'
<1>1. CASE Settings!Refused(c)
  BY <1>1, GoesOn DEF Settings!Refused, Settings!At
<1>2. CASE Settings!SecondDocument(c)
  <2>1. PICK at \in {"saved", "thrown"} : Settings!Go(c, at)
    BY <1>2 DEF Settings!SecondDocument
  <2> QED
    BY <1>2, <2>1, GoesOn DEF Settings!SecondDocument, Settings!Writing, Settings!At
<1>3. CASE Settings!Completed(c)
  BY <1>3, GoesOn DEF Settings!Completed, Settings!At
<1>4. CASE Settings!logAction(c)
  <2> DEFINE at == IF logged[c] + 1 = Settings!Entries(c) THEN "done" ELSE "saved"
  <2>1. at \in {"saved", "done"} /\ Settings!Go(c, at) /\ adminCall[c].at = "saved"
    BY <1>4 DEF Settings!logAction, Settings!At
  <2>2. logged' = [logged EXCEPT ![c] = @ + 1] /\ UNCHANGED <<settings, logs, backups, Settings!histories, policies>>
    BY <1>4 DEF Settings!logAction
  <2> HIDE DEF at
  <2> QED
    BY <2>1, <2>2, GoesOn
<1>5. CASE Settings!Crash(c)
  BY <1>5, GoesOn DEF Settings!Crash
<1> QED
  BY <1>1, <1>2, <1>3, <1>4, <1>5

LEMMA Deleted ==
    ASSUME SettingsConstants, SettingsInv, NEW c \in RecordCalls, Settings!DeleteOld(c)
    PROVE  SettingsInv'
<1>1. /\ Settings!Cleaning(c) /\ Settings!Go(c, "saved") /\ logs' = {age \in logs : age <= adminCall[c].read}
      /\ UNCHANGED <<settings, backups, logged, Settings!histories, policies>>
  BY DEF Settings!DeleteOld
<1>2. adminCall[c].at = "found" /\ adminCall[c].op = "cleanup"
  BY <1>1 DEF Settings!Cleaning, Settings!At
<1>3. CallsTyped /\ Underway(c) /\ adminCall[c].read \in Int /\ Period0(c) /\ logs \subseteq Nat
  <2>1. CallsTyped /\ LogsExplained /\ Underway(c)
    BY DEF SettingsInv, CallsTyped
  <2>2. adminCall[c].read \in Int /\ Period0(c)
    BY <1>1, <2>1 DEF Underway
  <2> QED
    BY <2>1, <2>2 DEF LogsExplained, SettingsConstants
<1>4. adminCall'[c].op = adminCall[c].op /\ adminCall'[c].arg = adminCall[c].arg /\ policies' = policies
  <2>1. adminCall'[c] = [op |-> adminCall[c].op, arg |-> adminCall[c].arg, read |-> adminCall[c].read, at |-> "saved"]
    BY <1>1, <1>3, GoneCall
  <2> QED
    BY <1>1, <2>1
<1>5. ASSUME NEW age \in logs \ logs' PROVE Explained(age, c)'
  <2>1. age \in Nat /\ ~(age <= adminCall[c].read)
    BY <1>1, <1>3, <1>5
  <2>2. age > adminCall[c].read
    BY <1>3, <2>1
  <2>3. CASE adminCall[c].arg \in {None, 0}
    BY <1>2, <1>3, <1>4, <2>2, <2>3 DEF Period0, Explained
  <2>4. CASE adminCall[c].arg \notin {None, 0}
    BY <1>2, <1>3, <1>4, <2>2, <2>4 DEF Period0, Explained
  <2> QED
    BY <2>3, <2>4
<1>6. logs' \subseteq logs
  BY <1>1
<1> QED
  BY <1>1, <1>2, <1>5, <1>6, GoesOn

(* The document a save leads to, and what it says of the fields given.           *)
LEMMA PatchType ==
    ASSUME SettingsConstants, NEW w \in Documents, NEW patch, Patch(patch), NEW written, written \subseteq DOMAIN patch
    PROVE  [f \in Settings!Fields |-> IF f \in written THEN patch[f] ELSE w[f]] \in Documents
<1> DEFINE d == [f \in Settings!Fields |-> IF f \in written THEN patch[f] ELSE w[f]]
<1>1. \A f \in Settings!Fields : d[f] \in Settings!Values(f) \cup {None}
  BY DEF Patch, Documents
<1>2. \A f \in Settings!Fields : d[f] \in AllValues
  BY <1>1, ValuesType
<1>3. d \in [Settings!Fields -> AllValues]
  BY <1>2
<1> HIDE DEF d
<1>4. d \in Documents
  BY <1>1, <1>3 DEF Documents
<1> QED
  BY <1>4 DEF d

(* A field is skipped if it was given what was read of it and is another by now. *)
LEMMA SavedKept ==
    ASSUME SettingsConstants, Kept, NEW c \in RecordCalls, NEW patch, Patch(patch), NEW same,
           same \subseteq DOMAIN patch, same # {} => settings # None,
           settings' = [f \in Settings!Fields |-> IF f \in DOMAIN patch \ same THEN patch[f] ELSE Settings!Document(c)[f]],
           assigned' = [f \in Settings!Fields |-> IF f \in DOMAIN patch THEN patch[f] ELSE assigned[f]],
           skipped' = (skipped \ DOMAIN patch) \cup {f \in same : settings[f] # patch[f]},
           asked' = IF "alerts" \in DOMAIN patch \ same THEN Settings!Keys(patch["alerts"]) ELSE asked,
           crossed' = (crossed /\ "alerts" \notin DOMAIN patch \ same)
    PROVE  Kept' /\ settings' # None
<1> DEFINE doc == Settings!Document(c)
           written == DOMAIN patch \ same
<1>1. doc \in Documents
  BY EmptyType DEF Settings!Document, Kept
<1>2. skipped = {f \in Settings!Fields : doc[f] # assigned[f]} /\ (settings # None => doc = settings)
  BY DEF Settings!Document, Kept
<1>3. ~crossed => Settings!Keys(doc["alerts"]) = asked
  BY EmptyType DEF Settings!Document, Kept
<1>4. settings' = [f \in Settings!Fields |-> IF f \in written THEN patch[f] ELSE doc[f]]
  OBVIOUS
<1>5. written \subseteq DOMAIN patch
  OBVIOUS
<1> HIDE DEF doc
<1>6. settings' \in Documents
  <2> HIDE DEF written
  <2>1. [f \in Settings!Fields |-> IF f \in written THEN patch[f] ELSE doc[f]] \in Documents
    BY <1>1, <1>5, PatchType
  <2> QED
    BY <1>4, <2>1
<1>7. assigned' \in Documents
  BY PatchType DEF Kept
<1>8. settings' # None
  BY <1>6 DEF SettingsConstants
<1>9. \A f \in DOMAIN patch : f \in Settings!Fields
  BY DEF Patch
<1>10. ASSUME NEW f \in Settings!Fields PROVE f \in skipped' <=> settings'[f] # assigned'[f]
  <2>1. CASE f \in written
    BY <1>4, <2>1
  <2>2. CASE f \in same
    <3>1. settings'[f] = settings[f] /\ assigned'[f] = patch[f]
      BY <1>2, <1>4, <2>2
    <3> QED
      BY <2>2, <3>1
  <2>3. CASE f \notin DOMAIN patch
    BY <1>2, <1>4, <2>3
  <2> QED
    BY <2>1, <2>2, <2>3
<1>11. skipped' \subseteq Settings!Fields
  BY <1>2, <1>9
<1>12. skipped' = {f \in Settings!Fields : settings'[f] # assigned'[f]}
  BY <1>10, <1>11
<1>13. ~crossed' => Settings!Keys(settings'["alerts"]) = asked'
  <2>1. "alerts" \in Settings!Fields
    BY DEF Settings!Fields
  <2>2. CASE "alerts" \in written
    BY <1>4, <2>1, <2>2
  <2>3. CASE "alerts" \notin written
    BY <1>3, <1>4, <2>1, <2>3
  <2> QED
    BY <2>2, <2>3
<1>14. asked' \in SUBSET Alerts
  <2>1. CASE "alerts" \in written
    <3>1. settings'["alerts"] = patch["alerts"]
      BY <1>4, <2>1 DEF Settings!Fields
    <3> QED
      BY <1>6, <2>1, <3>1, KeysType
  <2>2. CASE "alerts" \notin written
    BY <2>2 DEF Kept
  <2> QED
    BY <2>1, <2>2
<1> QED
  BY <1>6, <1>7, <1>8, <1>12, <1>13, <1>14 DEF Kept

LEMMA Saved ==
    ASSUME SettingsConstants, SettingsInv, NEW c \in RecordCalls, Settings!SaveField(c)
    PROVE  SettingsInv'
<1>1. /\ Settings!Writing(c) /\ Settings!Go(c, "saved")
      /\ policies' = [d \in RecordCalls |-> IF Settings!Cleaning(d) THEN policies[d] \cup {Settings!Period(settings')} ELSE policies[d]]
      /\ UNCHANGED <<logs, backups, logged>>
  BY DEF Settings!SaveField
<1>2. Kept /\ CallsTyped /\ LogsExplained /\ BackupsTold
  BY DEF SettingsInv
<1>3. PICK patch : patch = adminCall[c].arg.patch
  OBVIOUS
<1>4. Patch(patch) /\ (adminCall[c].read # None => settings # None)
  BY <1>1, <1>2, <1>3 DEF CallsTyped, Underway
<1>5. PICK same \in SUBSET Settings!MaybeSame(c) :
        /\ settings' = [f \in Settings!Fields |-> IF f \in DOMAIN patch \ same THEN patch[f] ELSE Settings!Document(c)[f]]
        /\ assigned' = [f \in Settings!Fields |-> IF f \in DOMAIN patch THEN patch[f] ELSE assigned[f]]
        /\ skipped' = (skipped \ DOMAIN patch) \cup {f \in same : settings[f] # patch[f]}
        /\ asked' = IF "alerts" \in DOMAIN patch \ same THEN Settings!Keys(patch["alerts"]) ELSE asked
        /\ crossed' = (crossed /\ "alerts" \notin DOMAIN patch \ same)
  BY <1>3 DEF Settings!SaveField
<1>6. same \subseteq DOMAIN patch /\ (same # {} => settings # None)
  BY <1>3, <1>4, <1>5 DEF Settings!MaybeSame
<1>7. Kept' /\ settings' # None
  BY <1>2, <1>4, <1>5, <1>6, SavedKept
<1>8. Settings!Period(settings') \in Int
  <2>1. PICK doc : doc = settings'
    OBVIOUS
  <2>2. doc \in Documents \cup {None}
    BY <1>7, <2>1 DEF Kept
  <2>3. Settings!Period(doc) \in Int
    BY <2>2, PeriodType
  <2> QED
    BY <2>1, <2>3
<1>9. policies' \in [RecordCalls -> SUBSET Int] /\ \A d \in RecordCalls : policies[d] \subseteq policies'[d]
  BY <1>1, <1>2, <1>8 DEF CallsTyped
<1>10. CallsTyped'
  BY <1>1, <1>2, <1>7, <1>9, GoneTyped
<1>11. LogsExplained'
  BY <1>1, <1>2, <1>9, GoneLogs
<1>12. BackupsTold'
  BY <1>1, <1>2, GoneBackups DEF Settings!Writing, Settings!At
<1> QED
  BY <1>7, <1>10, <1>11, <1>12 DEF SettingsInv

LEMMA SavedAlerts ==
    ASSUME SettingsConstants, SettingsInv, NEW c \in RecordCalls, Settings!SaveAlerts(c)
    PROVE  SettingsInv'
<1> DEFINE read == adminCall[c].read
           alerts == Settings!Keys(read["alerts"]) \cup adminCall[c].arg
<1>1. /\ adminCall[c].at = "found" /\ adminCall[c].op = "alerts" /\ read # None /\ Settings!Go(c, "saved")
      /\ settings' = [settings EXCEPT !["alerts"] = alerts]
      /\ assigned' = [assigned EXCEPT !["alerts"] = alerts]
      /\ skipped' = skipped \ {"alerts"}
      /\ asked' = asked \cup adminCall[c].arg
      /\ crossed' = (crossed \/ Settings!Keys(settings["alerts"]) # Settings!Keys(read["alerts"]))
      /\ UNCHANGED <<logs, backups, logged, policies>>
  BY DEF Settings!SaveAlerts, Settings!At
<1>2. Kept /\ CallsTyped /\ LogsExplained /\ BackupsTold
  BY DEF SettingsInv
<1>3. adminCall[c].arg \subseteq Alerts /\ read \in Documents /\ settings # None
  BY <1>1, <1>2 DEF CallsTyped, Underway, Settings!At
<1>4. /\ settings \in Documents /\ assigned \in Documents /\ asked \in SUBSET Alerts
      /\ skipped = {f \in Settings!Fields : settings[f] # assigned[f]}
      /\ ~crossed => Settings!Keys(settings["alerts"]) = asked
  BY <1>2, <1>3 DEF Kept
<1> HIDE DEF read
<1>5. alerts \in SUBSET Alerts
  BY <1>3, KeysType
<1>6. ASSUME NEW w \in Documents PROVE [w EXCEPT !["alerts"] = alerts] \in Documents
  <2>1. "alerts" \in Settings!Fields /\ alerts \in Settings!Values("alerts") \cup {None}
    BY <1>5 DEF Settings!Fields, Settings!Values
  <2>2. alerts \in AllValues
    BY <1>5 DEF AllValues
  <2> HIDE DEF alerts
  <2> QED
    BY <2>1, <2>2 DEF Documents
<1>7. settings' \in Documents /\ assigned' \in Documents
  BY <1>1, <1>4, <1>6
<1>8. settings' # None
  BY <1>7 DEF SettingsConstants
<1>9. /\ settings'["alerts"] = alerts /\ assigned'["alerts"] = alerts
      /\ \A f \in Settings!Fields : f # "alerts" => settings'[f] = settings[f] /\ assigned'[f] = assigned[f]
  BY <1>1, <1>4 DEF Documents, Settings!Fields
<1>10. skipped' = {f \in Settings!Fields : settings'[f] # assigned'[f]}
  BY <1>1, <1>4, <1>9
<1>11. ~crossed' => Settings!Keys(settings'["alerts"]) = asked'
  <2>1. alerts # None
    BY <1>5 DEF SettingsConstants
  <2>2. Settings!Keys(settings'["alerts"]) = alerts
    BY <1>9, <2>1 DEF Settings!Keys
  <2> QED
    BY <1>1, <1>4, <2>2
<1>12. Kept'
  <2>1. asked' \in SUBSET Alerts
    BY <1>1, <1>3, <1>4
  <2> QED
    BY <1>7, <1>8, <1>10, <1>11, <2>1 DEF Kept
<1>13. policies' \in [RecordCalls -> SUBSET Int] /\ \A d \in RecordCalls : policies[d] \subseteq policies'[d]
  BY <1>1, <1>2 DEF CallsTyped
<1>14. CallsTyped'
  BY <1>1, <1>2, <1>8, <1>13, GoneTyped
<1>15. LogsExplained'
  BY <1>1, <1>2, <1>13, GoneLogs
<1>16. BackupsTold'
  BY <1>1, <1>2, GoneBackups
<1> QED
  BY <1>12, <1>14, <1>15, <1>16 DEF SettingsInv

(* A call that begins by removing logs. *)
LEMMA Removes ==
    ASSUME SettingsConstants, SettingsInv, NEW c \in RecordCalls, NEW op \in {"system", "bulk", "clear"}, NEW arg, NEW at \in {"saved", "done"},
           Settings!Begin(c, op, arg, None, at), logs' \subseteq logs, UNCHANGED <<settings, backups>>,
           \A age \in logs \ logs' : Explained(age, c)'
    PROVE  SettingsInv'
<1>1. Kept /\ CallsTyped /\ LogsExplained /\ BackupsTold
  BY DEF SettingsInv
<1>2. CallsTyped'
  BY <1>1, BegunTyped
<1>3. LogsExplained'
  BY <1>1, BegunLogs
<1>4. BackupsTold'
  BY <1>1, BegunBackups
<1>5. Kept'
  <2>1. UNCHANGED <<settings, assigned, skipped, asked, crossed>>
    BY <1>1, BegunCall
  <2> QED
    BY <1>1, <2>1 DEF Kept
<1> QED
  BY <1>2, <1>3, <1>4, <1>5 DEF SettingsInv

(* What begins and logs nothing but itself, or makes a backup directory. *)
LEMMA Begun ==
    ASSUME SettingsConstants, SettingsInv, NEW c \in RecordCalls, Settings!SystemRequests(c) \/ Settings!AuditRequests(c) \/ Settings!AdminRequests(c)
    PROVE  SettingsInv'
<1>1. Kept /\ CallsTyped /\ LogsExplained /\ BackupsTold
  BY DEF SettingsInv
<1>2. ASSUME NEW op \in {"settings", "nested"}, NEW patch, Patch(patch), NEW keyed, NEW dated, Settings!Assign(c, op, patch, keyed, dated)
      PROVE  SettingsInv'
  <2>1. PICK arg : arg = [patch |-> patch, keyed |-> keyed, dated |-> dated]
    OBVIOUS
  <2>2. Patch(arg.patch)
    BY <1>2, <2>1
  <2> QED
    BY <1>2, <2>1, <2>2, BeginsAlone DEF Settings!Assign
<1>3. ASSUME NEW v \in {"on", "off"}, Settings!setMaintenanceMode(c, v) PROVE SettingsInv'
  <2>1. Patch([f \in {"maintenance"} |-> v])
    BY DEF Patch, Settings!Fields, Settings!Values
  <2> QED
    BY <1>2, <1>3, <2>1 DEF Settings!setMaintenanceMode
<1>4. CASE Settings!getSystemSettings(c)
  BY <1>4, BeginsAlone DEF Settings!getSystemSettings, Settings!createDefaultSettings
<1>5. CASE Settings!updateSystemConfigurations(c)
  <2>1. Patch([f \in {"configurations"} |-> "custom"])
    BY DEF Patch, Settings!Fields, Settings!Values
  <2> QED
    BY <1>2, <1>5, <2>1 DEF Settings!updateSystemConfigurations
<1>6. ASSUME NEW days \in Days \cup {None}, Settings!systemCleanup(c, days) PROVE SettingsInv'
  <2>1. /\ Settings!Begin(c, "system", days, None, "saved") /\ UNCHANGED <<settings, backups>>
        /\ logs' = {age \in logs : age <= Settings!Limit(days)}
    BY <1>6 DEF Settings!systemCleanup
  <2>2. adminCall'[c].op = "system" /\ adminCall'[c].arg = days
    <3>1. adminCall'[c] = [op |-> "system", arg |-> days, read |-> None, at |-> "saved"]
      BY <1>1, <2>1, BegunCall
    <3> QED
      BY <3>1
  <2>3. ASSUME NEW age \in logs \ logs' PROVE Explained(age, c)'
    <3>1. age \in Int /\ Settings!Limit(days) \in Int /\ ~(age <= Settings!Limit(days))
      BY <1>1, <2>1, <2>3 DEF LogsExplained, SettingsConstants, Settings!Limit
    <3>2. age > Settings!Limit(days)
      BY <3>1
    <3> QED
      BY <2>2, <3>2 DEF Explained
  <2> QED
    BY <1>1, <2>1, <2>3, Removes
<1>7. CASE Settings!createBackup(c)
  <2>1. /\ Settings!Begin(c, "backup", None, None, "found") /\ UNCHANGED <<settings, logs>>
        /\ backups' = [backups EXCEPT ![c] = "in_progress"]
    BY <1>7 DEF Settings!createBackup
  <2>2. CallsTyped'
    BY <1>1, <2>1, BegunTyped
  <2>3. LogsExplained'
    BY <1>1, <2>1, BegunLogs
  <2>4. BackupsTold'
    BY <1>1, <2>1, BegunBackups
  <2>5. Kept'
    <3>1. UNCHANGED <<settings, assigned, skipped, asked, crossed>>
      BY <1>1, <2>1, BegunCall
    <3> QED
      BY <1>1, <3>1 DEF Kept
  <2> QED
    BY <2>2, <2>3, <2>4, <2>5 DEF SettingsInv
<1>8. ASSUME NEW b \in RecordCalls, Settings!restoreBackup(c, b) PROVE SettingsInv'
  BY <1>8, BeginsAlone DEF Settings!restoreBackup
<1>9. CASE Settings!Report(c)
  BY <1>9, BeginsAlone DEF Settings!Report
<1>10. CASE Settings!ReadLogs(c)
  <2>1. PICK at \in {"saved", "thrown"} : Settings!Begin(c, "report", None, logs, at)
    BY <1>10 DEF Settings!ReadLogs
  <2> QED
    BY <1>10, <2>1, BeginsAlone DEF Settings!ReadLogs
<1>11. ASSUME NEW days \in Days \cup {None}, Settings!updateRetentionPolicy(c, days) PROVE SettingsInv'
  <2>1. Patch([f \in {"retention"} |-> Settings!Or(days, 2555)])
    BY DEF Patch, Settings!Fields, Settings!Values, Settings!Or
  <2> QED
    BY <1>2, <1>11, <2>1 DEF Settings!updateRetentionPolicy
<1>12. ASSUME NEW keys \in SUBSET Alerts, Settings!configureAlerts(c, keys) PROVE SettingsInv'
  BY <1>12, BeginsAlone DEF Settings!configureAlerts
<1>13. ASSUME NEW days \in Days \cup {None}, Settings!auditCleanup(c, days) PROVE SettingsInv'
  <2>1. Settings!Or(days, Settings!Period(settings)) \in Int
    BY <1>1, PeriodType DEF Kept, SettingsConstants, Settings!Or
  <2>2. Settings!Begin(c, "cleanup", days, Settings!Or(days, Settings!Period(settings)), "found") /\ UNCHANGED <<settings, logs, backups>>
    BY <1>13 DEF Settings!auditCleanup, Settings!getRetentionPolicy
  <2> QED
    BY <2>1, <2>2, BeginsAlone
<1>14. ASSUME NEW ages \in SUBSET Ages, NEW op \in {"bulk", "clear"}, NEW at \in {"saved", "done"},
              Settings!Begin(c, op, ages, None, at), logs' = logs \ ages, UNCHANGED <<settings, backups>>
       PROVE  SettingsInv'
  <2>1. adminCall'[c].op = op /\ adminCall'[c].arg = ages
    <3>1. adminCall'[c] = [op |-> op, arg |-> ages, read |-> None, at |-> at]
      BY <1>1, <1>14, BegunCall
    <3> QED
      BY <3>1
  <2>2. \A age \in logs \ logs' : Explained(age, c)'
    BY <1>14, <2>1 DEF Explained
  <2> QED
    BY <1>14, <2>2, Removes
<1>15. CASE Settings!toggleMaintenanceMode(c)
  <2>1. /\ Settings!Begin(c, "toggle", None, None, "done") /\ UNCHANGED <<logs, backups>>
        /\ settings' = IF settings = None THEN Settings!Empty ELSE settings
    BY <1>15 DEF Settings!toggleMaintenanceMode
  <2>2. Settings!Empty # None
    BY EmptyType DEF SettingsConstants
  <2>3. CallsTyped'
    BY <1>1, <2>1, <2>2, BegunTyped
  <2>4. LogsExplained'
    BY <1>1, <2>1, BegunLogs
  <2>5. BackupsTold'
    BY <1>1, <2>1, BegunBackups
  <2>6. Kept'
    <3>1. UNCHANGED <<assigned, skipped, asked, crossed>>
      BY <1>1, <2>1, BegunCall
    <3> QED
      BY <1>1, <2>1, <2>2, <3>1, EmptyType DEF Kept
  <2> QED
    BY <2>3, <2>4, <2>5, <2>6 DEF SettingsInv
<1>16. CASE Settings!SystemRequests(c)
  <2>1. ASSUME NEW patch \in Bodies, NEW keyed \in BOOLEAN, Settings!updateSystemSettings(c, patch, keyed) PROVE SettingsInv'
    BY <1>2, <2>1 DEF Settings!updateSystemSettings, SettingsConstants
  <2> QED
  BY <1>3, <1>4, <1>5, <1>6, <1>7, <1>8, <1>9, <1>16, <2>1
     DEF Settings!SystemRequests, Settings!clearCache, Settings!optimizeDatabase, Settings!performSecurityScan, Settings!sendSystemNotification,
         Settings!checkForUpdates, Settings!cleanupTempFiles, Settings!restartService
<1>17. CASE Settings!AuditRequests(c)
  <2>1. ASSUME NEW a \in Ages, Settings!bulkDeleteLogs(c, {a}) PROVE SettingsInv'
    BY <1>14, <2>1 DEF Settings!bulkDeleteLogs
  <2> QED
    BY <1>10, <1>11, <1>12, <1>13, <1>17, <2>1 DEF Settings!AuditRequests, Settings!exportAuditLogs, Settings!verifyLogIntegrity, Settings!backupAuditLogs
<1>18. CASE Settings!AdminRequests(c)
  <2>1. ASSUME NEW a \in Ages, Settings!clearLogs(c, {a}) PROVE SettingsInv'
    BY <1>14, <2>1 DEF Settings!clearLogs
  <2> QED
    BY <1>15, <1>18, <2>1 DEF Settings!AdminRequests
<1> QED
  BY <1>16, <1>17, <1>18

LEMMA SettingsNext == SettingsConstants /\ SettingsInv /\ [Settings!Next]_Settings!vars => SettingsInv'
<1> SUFFICES ASSUME SettingsConstants, SettingsInv, [Settings!Next]_Settings!vars PROVE SettingsInv'
  OBVIOUS
<1>1. ASSUME NEW c \in RecordCalls,
             \/ Settings!SystemRequests(c) \/ Settings!AuditRequests(c) \/ Settings!AdminRequests(c)
             \/ Settings!Refused(c) \/ Settings!SecondDocument(c) \/ Settings!SaveField(c) \/ Settings!SaveAlerts(c)
             \/ Settings!DeleteOld(c) \/ Settings!Completed(c) \/ Settings!logAction(c) \/ Settings!Crash(c)
      PROVE  SettingsInv'
  BY <1>1, Begun, SavesNothing, Saved, SavedAlerts, Deleted
<1>2. CASE UNCHANGED Settings!vars
  BY <1>2 DEF Settings!vars, SettingsInv, Kept, CallsTyped, Underway, Settings!At, Settings!Writing, Settings!Cleaning, Period0,
              LogsExplained, Explained, BackupsTold
<1> QED
  BY <1>1, <1>2 DEF Settings!Next

LEMMA SettingsProps == SettingsConstants /\ SettingsInv => Settings!TypeOK /\ Settings!SettingsAreKept /\ Settings!LogsAreKept
<1> SUFFICES ASSUME SettingsConstants, SettingsInv PROVE Settings!TypeOK /\ Settings!SettingsAreKept /\ Settings!LogsAreKept
  OBVIOUS
<1>1. Kept /\ LogsExplained /\ BackupsTold
  BY DEF SettingsInv
<1>2. Settings!TypeOK
  <2>1. settings # None => \A f \in Settings!Fields : settings[f] \in Settings!Values(f) \cup {None}
    BY <1>1 DEF Kept, Documents
  <2>2. \A c \in RecordCalls : logged[c] > 0 => adminCall[c].at \in {"saved", "done", "crashed"}
    BY <1>1 DEF BackupsTold
  <2> QED
    BY <1>1, <2>1, <2>2 DEF Settings!TypeOK, LogsExplained, BackupsTold
<1>3. Settings!SettingsAreKept
  <2>1. settings = None => assigned["maintenance"] # "on"
    BY <1>1 DEF Kept, Settings!Empty, Settings!Fields, SettingsConstants
  <2>2. settings # None /\ "maintenance" \notin skipped => settings["maintenance"] = assigned["maintenance"]
    BY <1>1 DEF Kept, Settings!Fields
  <2>3. "maintenance" \notin skipped => (Settings!isMaintenanceMode <=> assigned["maintenance"] = "on")
    BY <2>1, <2>2 DEF Settings!isMaintenanceMode
  <2> QED
    BY <1>1, <2>3 DEF Settings!SettingsAreKept, Kept
<1>4. Settings!LogsAreKept
  BY <1>1 DEF Settings!LogsAreKept, LogsExplained, Explained, BackupsTold
<1> QED
  BY <1>2, <1>3, <1>4

-----------------------------------------------------------------------------
(* Profiles.  A document that is there, or that a call has read, was made        *)
(* before.                                                                       *)

Docs == [id : Nat, sections : SUBSET Sections, analytics : BOOLEAN, logins : Nat, average : Nat, feature : BOOLEAN]
ProfileConstants == Durations \subseteq Nat /\ None \notin Docs

Ats == {"idle", "found", "saved", "done", "thrown", "crashed"}
Ops == {None, "get", "update", "section", "login", "feature", "session", "delete", "export"}
CallRecords == [at : Ats, op : Ops, arg : Sections \cup Durations \cup {None}, read : Docs \cup {None}]

(* A document, the one there is or one a call has read, was made before, and its *)
(* average is among the lengths of sessions.                                     *)
Sound(doc, n) ==
    /\ doc.id \in 1..n /\ \E d \in Durations \cup {0} : doc.average <= d
    /\ doc.logins > 0 => doc.analytics
Reading(c) ==
    /\ profileCall[c].read # None => Sound(profileCall[c].read, made)
    /\ Profile!At(c, "found", "update") => profileCall[c].arg \in Sections
    /\ Profile!At(c, "found", "session") => profileCall[c].arg \in Durations /\ profileCall[c].read # None
ProfileInv ==
    /\ made \in Nat /\ logins \in Nat /\ entered \in SUBSET Sections
    /\ profile \in Docs \cup {None} /\ profileCall \in [ProfileCalls -> CallRecords]
    /\ profile # None => Sound(profile, made) /\ profile.logins = logins /\ profile.sections = entered
    /\ \A c \in ProfileCalls : Reading(c)

LEMMA ProfileInit == Profile!Init => ProfileInv
<1> SUFFICES ASSUME Profile!Init PROVE ProfileInv
  OBVIOUS
<1>1. profile = None /\ made = 0 /\ logins = 0 /\ entered = {}
  BY DEF Profile!Init
<1>2. profileCall = [c \in ProfileCalls |-> [at |-> "idle", op |-> None, arg |-> None, read |-> None]]
  BY DEF Profile!Init
<1>3. profileCall \in [ProfileCalls -> CallRecords]
  BY <1>2 DEF CallRecords, Ats, Ops
<1>4. \A c \in ProfileCalls : Reading(c)
  BY <1>2 DEF Reading, Profile!At
<1> QED
  BY <1>1, <1>3, <1>4 DEF ProfileInv

LEMMA NewDoc ==
    ASSUME ProfileInv, NEW analytics \in BOOLEAN
    PROVE  /\ Profile!New(analytics) \in Docs /\ Profile!New(analytics).id = made + 1 /\ Profile!New(analytics).sections = {}
           /\ Profile!New(analytics).logins = 0 /\ Profile!New(analytics).average = 0
BY DEF ProfileInv, Profile!New, Docs

(* Documents stay sound when there are more.                                     *)
LEMMA SoundStays ==
    ASSUME NEW n \in Nat, NEW m \in Nat, m >= n, NEW doc \in Docs, Sound(doc, n)
    PROVE  Sound(doc, m)
BY DEF Sound, Docs

LEMMA ReadingBegins ==
    ASSUME ProfileInv, NEW c \in ProfileCalls, NEW op \in Ops, NEW arg \in Sections \cup Durations \cup {None}, NEW at \in Ats,
           Profile!Begin(c, op, arg, at), made' \in Nat, made' >= made,
           op = "update" /\ at = "found" => arg \in Sections,
           op = "session" /\ at = "found" => arg \in Durations /\ profile # None
    PROVE  profileCall' \in [ProfileCalls -> CallRecords] /\ \A d \in ProfileCalls : Reading(d)'
<1> DEFINE r == [at |-> at, op |-> op, arg |-> arg, read |-> profile]
<1>1. r \in CallRecords /\ r.at = at /\ r.op = op /\ r.arg = arg /\ r.read = profile
  BY DEF CallRecords, ProfileInv
<1>2. profileCall' = [profileCall EXCEPT ![c] = r]
  BY DEF Profile!Begin
<1> HIDE DEF r
<1>3. profileCall' \in [ProfileCalls -> CallRecords] /\ \A d \in ProfileCalls : profileCall'[d] = IF d = c THEN r ELSE profileCall[d]
  BY <1>1, <1>2 DEF ProfileInv
<1>4. ASSUME NEW d \in ProfileCalls PROVE Reading(d)'
  <2>1. CASE d = c
    <3>1. profileCall'[d] = r
      BY <1>3, <2>1
    <3>2. r.read # None => Sound(r.read, made')
      BY <1>1, SoundStays DEF ProfileInv
    <3> QED
      BY <1>1, <3>1, <3>2 DEF Reading, Profile!At
  <2>2. CASE d # c
    <3>1. profileCall'[d] = profileCall[d] /\ profileCall[d].read \in Docs \cup {None} /\ Reading(d)
      BY <1>3, <2>2 DEF ProfileInv, CallRecords
    <3>2. profileCall[d].read # None => Sound(profileCall[d].read, made')
      BY <3>1, SoundStays DEF Reading, ProfileInv
    <3> QED
      BY <3>1, <3>2 DEF Reading, Profile!At
  <2> QED
    BY <2>1, <2>2
<1> QED
  BY <1>3, <1>4

LEMMA ReadingGoes ==
    ASSUME ProfileInv, NEW c \in ProfileCalls, NEW at \in Ats \ {"found"}, Profile!Go(c, at), made' \in Nat, made' >= made
    PROVE  profileCall' \in [ProfileCalls -> CallRecords] /\ \A d \in ProfileCalls : Reading(d)'
<1>1. profileCall' = [profileCall EXCEPT ![c].at = at] /\ profileCall \in [ProfileCalls -> CallRecords]
  BY DEF Profile!Go, ProfileInv
<1>2. profileCall' \in [ProfileCalls -> CallRecords]
  BY <1>1 DEF CallRecords
<1>3. ASSUME NEW d \in ProfileCalls
      PROVE  /\ profileCall'[d].read = profileCall[d].read /\ profileCall'[d].arg = profileCall[d].arg /\ profileCall'[d].op = profileCall[d].op
             /\ profileCall'[d].at = IF d = c THEN at ELSE profileCall[d].at
  BY <1>1 DEF CallRecords
<1>4. ASSUME NEW d \in ProfileCalls PROVE Reading(d)'
  <2>1. Reading(d) /\ profileCall[d].read \in Docs \cup {None}
    BY <1>1 DEF ProfileInv, CallRecords
  <2>2. profileCall[d].read # None => Sound(profileCall[d].read, made')
    BY <2>1, SoundStays DEF Reading, ProfileInv
  <2>3. profileCall'[d].at = "found" => profileCall'[d].at = profileCall[d].at
    BY <1>3
  <2> QED
    BY <1>3, <2>1, <2>2, <2>3 DEF Reading, Profile!At
<1> QED
  BY <1>2, <1>4

(* What is there after a step is sound, and counts what was recorded.            *)
LEMMA ProfileProfileStep ==
    ASSUME ProfileInv, profileCall' \in [ProfileCalls -> CallRecords], \A d \in ProfileCalls : Reading(d)',
           made' \in Nat, logins' \in Nat, entered' \in SUBSET Sections, profile' \in Docs \cup {None},
           profile' # None => Sound(profile', made') /\ profile'.logins = logins' /\ profile'.sections = entered'
    PROVE  ProfileInv'
BY DEF ProfileInv

LEMMA ProfileSame ==
    ASSUME ProfileInv, UNCHANGED <<profile, made, logins, entered>>,
           profileCall' \in [ProfileCalls -> CallRecords], \A d \in ProfileCalls : Reading(d)'
    PROVE  ProfileInv'
BY DEF ProfileInv, Sound

LEMMA MadeType == ASSUME ProfileInv PROVE made \in Nat /\ made >= made /\ made + 1 \in Nat /\ made + 1 >= made
BY DEF ProfileInv

(* The weighted mean of two lengths is no longer than the longer one.            *)
LEMMA Mean ==
    ASSUME NEW a \in Nat, NEW n \in Nat \ {0}, NEW x \in Nat, NEW d \in Nat, a <= d, x <= d
    PROVE  (a * (n - 1) + x) \div n \in Nat /\ (a * (n - 1) + x) \div n <= d
<1> DEFINE s == a * (n - 1) + x
<1>1. n - 1 \in Nat /\ a * (n - 1) \in Nat
  OBVIOUS
<1>2. a * (n - 1) <= d * (n - 1)
  BY <1>1
<1>3. d * (n - 1) + d = d * n
  BY <1>1
<1>4. s \in Nat /\ s <= d * n /\ d * n \in Nat
  BY <1>1, <1>2, <1>3
<1> HIDE DEF s
<1>5. s \div n \in Int /\ n * (s \div n) <= s
  BY <1>4
<1>6. s \div n \in Nat
  BY <1>4
<1>7. s \div n <= d
  <2> DEFINE q == s \div n
  <2>1. q \in Nat /\ n * q <= n * d
    BY <1>4, <1>5, <1>6
  <2> HIDE DEF q
  <2>2. q <= d
    BY <2>1
  <2> QED
    BY <2>2 DEF q
<1> QED
  BY <1>6, <1>7 DEF s
(* A write in one query: a new document, or the one there is, with some more.    *)
LEMMA Upserting ==
    ASSUME ProfileInv, NEW c \in ProfileCalls, NEW op \in {"section", "login", "feature"},
           NEW arg \in Sections \cup {None}, NEW at \in {"saved", "done"}, Profile!Begin(c, op, arg, at),
           NEW doc \in Docs, NEW l \in Nat, NEW e \in SUBSET Sections, Profile!Upsert(doc, l, e),
           doc.id = Profile!Upserted.id, doc.average = Profile!Upserted.average, doc.logins = Profile!Upserted.logins + l,
           doc.sections = Profile!Upserted.sections \cup e, doc.logins > 0 => doc.analytics
    PROVE  ProfileInv'
<1>1. /\ profile' = doc /\ made' = IF profile = None THEN made + 1 ELSE made
      /\ logins' = (IF profile = None THEN 0 ELSE logins) + l
      /\ entered' = (IF profile = None THEN {} ELSE entered) \cup e
  BY DEF Profile!Upsert
<1>2. made \in Nat /\ made' \in Nat /\ made' >= made
  BY <1>1 DEF ProfileInv
<1>3. profileCall' \in [ProfileCalls -> CallRecords] /\ \A d \in ProfileCalls : Reading(d)'
  BY <1>2, ReadingBegins DEF Ops, Ats
<1>4. /\ Profile!Upserted.id \in 1..made' /\ \E d \in Durations \cup {0} : Profile!Upserted.average <= d
      /\ Profile!Upserted.logins = (IF profile = None THEN 0 ELSE logins)
      /\ Profile!Upserted.sections = (IF profile = None THEN {} ELSE entered)
  <2>1. CASE profile = None
    <3>1. Profile!Upserted.id = made + 1 /\ Profile!Upserted.average = 0 /\ Profile!Upserted.logins = 0 /\ Profile!Upserted.sections = {}
      BY <2>1, NewDoc DEF Profile!Upserted
    <3> QED
      BY <1>1, <1>2, <2>1, <3>1
  <2>2. CASE profile # None
    BY <1>1, <2>2 DEF Profile!Upserted, ProfileInv, Sound
  <2> QED
    BY <2>1, <2>2
<1>5. logins' \in Nat /\ entered' \in SUBSET Sections
  BY <1>1 DEF ProfileInv
<1>6. Sound(profile', made')
  BY <1>1, <1>4 DEF Sound
<1> QED
  BY <1>1, <1>2, <1>3, <1>4, <1>5, <1>6, ProfileProfileStep

LEMMA UpsertedType ==
    ASSUME ProfileInv
    PROVE  Profile!Upserted \in Docs /\ (Profile!Upserted.logins > 0 => Profile!Upserted.analytics)
<1>1. CASE profile = None
  <2> DEFINE doc == Profile!New(FALSE)
  <2>1. doc \in Docs /\ doc.logins = 0
    BY NewDoc
  <2>2. Profile!Upserted = doc
    BY <1>1 DEF Profile!Upserted
  <2> HIDE DEF doc
  <2>3. Profile!Upserted \in Docs /\ ~(Profile!Upserted.logins > 0)
    BY <2>1, <2>2
  <2> QED
    BY <2>3
<1>2. CASE profile # None
  BY <1>2 DEF Profile!Upserted, ProfileInv, Sound
<1> QED
  BY <1>1, <1>2

LEMMA UpsertNext ==
    ASSUME ProfileInv, NEW c \in ProfileCalls,
           Profile!recordLogin(c) \/ Profile!addPreferredFeature(c) \/ \E section \in Sections : Profile!updateSection(c, section)
    PROVE  ProfileInv'
<1>1. CASE Profile!recordLogin(c)
  <2> DEFINE doc == [Profile!Upserted EXCEPT !.analytics = TRUE, !.logins = @ + 1]
  <2>1. Profile!Begin(c, "login", None, "saved") /\ Profile!Upsert(doc, 1, {})
    BY <1>1 DEF Profile!recordLogin
  <2>a. Profile!Upserted \in Docs /\ Profile!Upserted.logins \in Nat
    BY UpsertedType DEF Docs
  <2>2. /\ doc \in Docs /\ doc.id = Profile!Upserted.id /\ doc.average = Profile!Upserted.average /\ doc.analytics
        /\ doc.logins = Profile!Upserted.logins + 1 /\ doc.sections = Profile!Upserted.sections
    <3> DEFINE n == Profile!Upserted.logins + 1
    <3>1. n \in Nat /\ doc = [Profile!Upserted EXCEPT !.analytics = TRUE, !.logins = n]
      BY <2>a DEF Docs
    <3> HIDE DEF n, doc
    <3>2. doc \in Docs /\ doc.logins = n
      BY <2>a, <3>1 DEF Docs
    <3> QED
      BY <2>a, <3>1, <3>2 DEF Docs, n
  <2>3. doc.logins = Profile!Upserted.logins + 1 /\ doc.sections = Profile!Upserted.sections \cup {}
    BY <2>a, <2>2
  <2> HIDE DEF doc
  <2> QED
    BY <2>1, <2>2, <2>3, Upserting
<1>2. CASE Profile!addPreferredFeature(c)
  <2> DEFINE doc == [Profile!Upserted EXCEPT !.analytics = TRUE, !.feature = TRUE]
  <2>1. Profile!Begin(c, "feature", None, "done") /\ Profile!Upsert(doc, 0, {})
    BY <1>2 DEF Profile!addPreferredFeature
  <2>a. Profile!Upserted \in Docs /\ Profile!Upserted.logins \in Nat
    BY UpsertedType DEF Docs
  <2>2. /\ doc \in Docs /\ doc.id = Profile!Upserted.id /\ doc.average = Profile!Upserted.average /\ doc.analytics
        /\ doc.logins = Profile!Upserted.logins /\ doc.sections = Profile!Upserted.sections
    BY <2>a DEF Docs
  <2>3. doc.logins = Profile!Upserted.logins + 0 /\ doc.sections = Profile!Upserted.sections \cup {}
    BY <2>a, <2>2
  <2> HIDE DEF doc
  <2> QED
    BY <2>1, <2>2, <2>3, Upserting
<1>3. ASSUME NEW section \in Sections, Profile!updateSection(c, section) PROVE ProfileInv'
  <2> DEFINE doc == [Profile!Upserted EXCEPT !.sections = @ \cup {section}]
  <2>1. Profile!Begin(c, "section", section, "saved") /\ Profile!Upsert(doc, 0, {section})
    BY <1>3 DEF Profile!updateSection
  <2>2. /\ doc \in Docs /\ doc.id = Profile!Upserted.id /\ doc.average = Profile!Upserted.average
        /\ doc.analytics = Profile!Upserted.analytics
        /\ doc.logins = Profile!Upserted.logins + 0 /\ doc.sections = Profile!Upserted.sections \cup {section}
    BY UpsertedType DEF Docs
  <2>3. doc.logins > 0 => doc.analytics
    BY <2>2, UpsertedType DEF Docs
  <2> HIDE DEF doc
  <2> QED
    BY <2>1, <2>2, <2>3, Upserting
<1> QED
  BY <1>1, <1>2, <1>3

(* A call that only begins or goes on, with the profile as it is.                *)
LEMMA BeginsOnly ==
    ASSUME ProfileInv, NEW c \in ProfileCalls, NEW op \in Ops, NEW arg \in Sections \cup Durations \cup {None}, NEW at \in Ats,
           Profile!Begin(c, op, arg, at), UNCHANGED <<profile, made, logins, entered>>,
           op = "update" /\ at = "found" => arg \in Sections,
           op = "session" /\ at = "found" => arg \in Durations /\ profile # None
    PROVE  ProfileInv'
BY ReadingBegins, ProfileSame, MadeType
LEMMA GoesOnly ==
    ASSUME ProfileInv, NEW c \in ProfileCalls, NEW at \in Ats \ {"found"}, Profile!Go(c, at), UNCHANGED <<profile, made, logins, entered>>
    PROVE  ProfileInv'
BY ReadingGoes, ProfileSame, MadeType

LEMMA Made ==
    ASSUME ProfileInv, NEW c \in ProfileCalls, Profile!Go(c, "saved"), NEW doc \in Docs, NEW e \in SUBSET Sections, Profile!Make(doc),
           doc.id = made + 1, doc.average = 0, doc.logins = 0, doc.sections = e, logins' = 0, entered' = e
    PROVE  ProfileInv'
<1>1. profile' = doc /\ made' = made + 1 /\ made' \in Nat /\ made' >= made
  BY MadeType DEF Profile!Make
<1>2. profileCall' \in [ProfileCalls -> CallRecords] /\ \A d \in ProfileCalls : Reading(d)'
  BY <1>1, ReadingGoes DEF Ats
<1>3. Sound(profile', made')
  BY <1>1, MadeType DEF Sound
<1> QED
  BY <1>1, <1>2, <1>3, ProfileProfileStep

LEMMA SaveNext == ASSUME ProfileInv, NEW c \in ProfileCalls, Profile!Save(c) PROVE ProfileInv'
<1> DEFINE read == profileCall[c].read
           arg == profileCall[c].arg
<1>1. Profile!At(c, "found", "update") /\ arg \in Sections
  BY DEF Profile!Save, ProfileInv, Reading
<1>2. CASE read = None /\ profile = None
  <2> DEFINE doc == [Profile!New(FALSE) EXCEPT !.sections = {arg}]
  <2>1. Profile!Make(doc) /\ Profile!Go(c, "saved") /\ logins' = 0 /\ entered' = {arg}
    BY <1>2 DEF Profile!Save
  <2>2. doc \in Docs /\ doc.id = made + 1 /\ doc.average = 0 /\ doc.logins = 0 /\ doc.sections = {arg}
    BY <1>1, NewDoc DEF Docs
  <2> HIDE DEF doc
  <2> QED
    BY <1>1, <2>1, <2>2, Made
<1>3. CASE read # None /\ profile # None /\ read.id = profile.id
  <2> DEFINE doc == [profile EXCEPT !.sections = @ \cup {arg}]
  <2>1. profile' = doc /\ Profile!Go(c, "saved") /\ entered' = entered \cup {arg} /\ made' = made /\ logins' = logins
    BY <1>3 DEF Profile!Save
  <2>2. profile \in Docs /\ Sound(profile, made) /\ profile.logins = logins /\ profile.sections = entered
    BY <1>3 DEF ProfileInv
  <2>3. /\ doc \in Docs /\ doc.id = profile.id /\ doc.average = profile.average /\ doc.logins = profile.logins
        /\ doc.analytics = profile.analytics /\ doc.sections = profile.sections \cup {arg}
    BY <1>1, <2>2 DEF Docs
  <2> HIDE DEF doc
  <2>4. Sound(doc, made)
    BY <2>2, <2>3 DEF Sound
  <2>5. profileCall' \in [ProfileCalls -> CallRecords] /\ \A d \in ProfileCalls : Reading(d)'
    BY <2>1, MadeType, ReadingGoes DEF Ats
  <2>6. entered' \in SUBSET Sections /\ made' \in Nat /\ logins' \in Nat
    BY <1>1, <2>1 DEF ProfileInv
  <2> QED
    BY <2>1, <2>2, <2>3, <2>4, <2>5, <2>6, ProfileProfileStep
<1>4. CASE ~(read = None /\ profile = None) /\ ~(read # None /\ profile # None /\ read.id = profile.id)
  <2>1. Profile!Go(c, "thrown") /\ UNCHANGED <<profile, made, logins, entered>>
    BY <1>4 DEF Profile!Save
  <2> QED
    BY <2>1, GoesOnly DEF Ats
<1> QED
  BY <1>2, <1>3, <1>4

LEMMA AverageSound ==
    ASSUME ProfileConstants, ProfileInv, NEW c \in ProfileCalls, Profile!At(c, "found", "session")
    PROVE  Profile!Average(c) \in Nat /\ \E d \in Durations \cup {0} : Profile!Average(c) <= d
<1> DEFINE read == profileCall[c].read
           n == IF read.logins = 0 THEN 1 ELSE read.logins
           arg == profileCall[c].arg
<1>1. arg \in Durations /\ read # None /\ read \in Docs /\ Sound(read, made)
  BY DEF ProfileInv, Reading, CallRecords
<1>2. PICK d \in Durations \cup {0} : read.average <= d
  BY <1>1 DEF Sound
<1>3. read.average \in Nat /\ n \in Nat \ {0} /\ arg \in Nat /\ d \in Nat
  <2>1. read.average \in Nat /\ read.logins \in Nat
    BY <1>1 DEF Docs
  <2>2. Durations \subseteq Nat
    BY DEF ProfileConstants
  <2>3. arg \in Nat
    BY <1>1, <2>2
  <2>4. d \in Nat
    BY <1>2, <2>2
  <2> QED
    BY <2>1, <2>3, <2>4
<1> DEFINE D == IF arg <= d THEN d ELSE arg
<1>4. D \in Durations \cup {0} /\ D \in Nat /\ read.average <= D /\ arg <= D
  BY <1>1, <1>2, <1>3
<1>5. Profile!Average(c) = (read.average * (n - 1) + arg) \div n
  BY DEF Profile!Average
<1> HIDE DEF read, n, arg, D
<1>6. (read.average * (n - 1) + arg) \div n \in Nat /\ (read.average * (n - 1) + arg) \div n <= D
  BY <1>3, <1>4, Mean
<1> QED
  BY <1>4, <1>5, <1>6

LEMMA WriteNext == ASSUME ProfileConstants, ProfileInv, NEW c \in ProfileCalls, Profile!WriteAverage(c) PROVE ProfileInv'
<1> DEFINE doc == [profile EXCEPT !.analytics = TRUE, !.average = Profile!Average(c)]
<1>1. /\ Profile!At(c, "found", "session") /\ Profile!Go(c, "done") /\ UNCHANGED <<made, logins, entered>>
      /\ profile' = IF profile = None THEN None ELSE doc
  BY DEF Profile!WriteAverage
<1>2. Profile!Average(c) \in Nat /\ \E d \in Durations \cup {0} : Profile!Average(c) <= d
  BY <1>1, AverageSound
<1>3. profileCall' \in [ProfileCalls -> CallRecords] /\ \A d \in ProfileCalls : Reading(d)'
  BY <1>1, MadeType, ReadingGoes DEF Ats
<1>4. made' \in Nat /\ logins' \in Nat /\ entered' \in SUBSET Sections
  BY <1>1 DEF ProfileInv
<1>5. CASE profile = None
  BY <1>1, <1>3, <1>4, <1>5, ProfileProfileStep
<1>6. CASE profile # None
  <2>1. profile \in Docs /\ Sound(profile, made) /\ profile.logins = logins /\ profile.sections = entered
    BY <1>6 DEF ProfileInv
  <2>2. /\ doc \in Docs /\ doc.id = profile.id /\ doc.average = Profile!Average(c) /\ doc.logins = profile.logins
        /\ doc.analytics /\ doc.sections = profile.sections
    BY <1>2, <2>1 DEF Docs
  <2> HIDE DEF doc
  <2>3. Sound(doc, made)
    BY <1>2, <2>1, <2>2 DEF Sound
  <2> QED
    BY <1>1, <1>3, <1>4, <1>6, <2>1, <2>2, <2>3, ProfileProfileStep
<1> QED
  BY <1>5, <1>6

LEMMA ProfileNext == ProfileConstants /\ ProfileInv /\ [Profile!Next]_Profile!vars => ProfileInv'
<1> SUFFICES ASSUME ProfileConstants, ProfileInv, [Profile!Next]_Profile!vars PROVE ProfileInv'
  OBVIOUS
<1>1. ASSUME NEW c \in ProfileCalls, Profile!getProfile(c) PROVE ProfileInv'
  <2>1. PICK at \in {"found", "done"} : Profile!Begin(c, "get", None, at) /\ UNCHANGED <<profile, made, logins, entered>>
    BY <1>1 DEF Profile!getProfile
  <2> QED
    BY <2>1, BeginsOnly DEF Ops, Ats
<1>2. ASSUME NEW c \in ProfileCalls, Profile!createDefaultProfile(c) PROVE ProfileInv'
  <2>1. CASE profile = None
    <3>1. Profile!Make(Profile!New(TRUE)) /\ Profile!Go(c, "saved") /\ logins' = 0 /\ entered' = {}
      BY <1>2, <2>1 DEF Profile!createDefaultProfile
    <3> QED
      BY <3>1, NewDoc, Made
  <2>2. CASE profile # None
    <3>1. Profile!Go(c, "thrown") /\ UNCHANGED <<profile, made, logins, entered>>
      BY <1>2, <2>2 DEF Profile!createDefaultProfile
    <3> QED
      BY <3>1, GoesOnly DEF Ats
  <2> QED
    BY <2>1, <2>2
<1>3. ASSUME NEW c \in ProfileCalls, NEW section \in Sections, Profile!updateProfile(c, section) PROVE ProfileInv'
  <2>1. Profile!Begin(c, "update", section, "found") /\ UNCHANGED <<profile, made, logins, entered>>
    BY <1>3 DEF Profile!updateProfile
  <2> QED
    BY <2>1, BeginsOnly DEF Ops, Ats
<1>4. ASSUME NEW c \in ProfileCalls, NEW d \in Durations, Profile!updateSessionDuration(c, d) PROVE ProfileInv'
  <2>1. PICK at \in {"found", "done"} :
            /\ Profile!Begin(c, "session", d, at) /\ (at = "found" => profile # None)
            /\ UNCHANGED <<profile, made, logins, entered>>
    BY <1>4 DEF Profile!updateSessionDuration
  <2> QED
    BY <2>1, BeginsOnly DEF Ops, Ats
<1>5. ASSUME NEW c \in ProfileCalls, Profile!deleteProfile(c) PROVE ProfileInv'
  <2>1. Profile!Begin(c, "delete", None, "saved") /\ profile' = None /\ UNCHANGED <<made, logins, entered>>
    BY <1>5 DEF Profile!deleteProfile
  <2>2. profileCall' \in [ProfileCalls -> CallRecords] /\ \A d \in ProfileCalls : Reading(d)'
    BY <2>1, MadeType, ReadingBegins DEF Ops, Ats
  <2> QED
    BY <2>1, <2>2 DEF ProfileInv
<1>6. ASSUME NEW c \in ProfileCalls, Profile!exportProfile(c) PROVE ProfileInv'
  <2>1. PICK at \in {"thrown", "saved"} : Profile!Begin(c, "export", None, at) /\ UNCHANGED <<profile, made, logins, entered>>
    BY <1>6 DEF Profile!exportProfile
  <2> QED
    BY <2>1, BeginsOnly DEF Ops, Ats
<1>7. ASSUME NEW c \in ProfileCalls, Profile!logAction(c) \/ Profile!Crash(c) PROVE ProfileInv'
  <2>1. PICK at \in {"done", "crashed"} : Profile!Go(c, at) /\ UNCHANGED <<profile, made, logins, entered>>
    BY <1>7 DEF Profile!logAction, Profile!Crash
  <2> QED
    BY <2>1, GoesOnly DEF Ats
<1>8. CASE UNCHANGED Profile!vars
  BY <1>8 DEF Profile!vars, ProfileInv, Reading, Profile!At
<1> QED
  BY <1>1, <1>2, <1>3, <1>4, <1>5, <1>6, <1>7, <1>8, SaveNext, WriteNext, UpsertNext DEF Profile!Next

LEMMA ProfileProps == ProfileInv => Profile!TypeOK /\ Profile!LoginsAreCounted
BY DEF ProfileInv, Sound, Reading, Docs, Profile!TypeOK, Profile!LoginsAreCounted

-----------------------------------------------------------------------------
(* The expense report.  Its status tells what the events have said of it, and    *)
(* its money is frozen from the submission on, unless OCR comes late.            *)
ReportConstants == Claims \subseteq Int /\ None \notin Reviewers \cup Currencies

(* What the events have said, by status: the invariant behind the review.        *)
Story ==
    /\ (reportStatus = "DRAFT") = (emitted.submitted = 0)
    /\ reportStatus # "DRAFT" => receipt
    /\ reportStatus \notin {"DRAFT", "SUBMITTED"} => reviewer # None
    /\ emitted.verdicts = IF reportStatus \in {"APPROVED", "REJECTED", "PAID"} THEN 1 ELSE 0
    /\ approved = emitted.approved
    /\ (approved > 0) = (reportStatus \in {"APPROVED", "PAID"})

(* Once submitted, the money is what the submission announced, unless OCR came   *)
(* late and rewrote it.                                                          *)
Frozen ==
    /\ reportStatus # "DRAFT" /\ ~rewritten =>
          claim = emitted.submitted /\ claimCurrency = emitted.in /\ approved <= claim
    /\ reportStatus = "DRAFT" => ~rewritten

ReportInv == Report!TypeOK /\ Story /\ Frozen

LEMMA ReportInit == ReportConstants /\ Report!Init => ReportInv
<1> SUFFICES ASSUME ReportConstants, Report!Init PROVE ReportInv
  OBVIOUS
<1>1. claim \in Nat \ {0}
  BY DEF ReportConstants, Report!Init
<1>2. emitted \in [submitted : Nat, in : Currencies \cup {None}, approved : Nat, verdicts : Nat]
  BY DEF Report!Init, Report!Silent
<1>3. Report!TypeOK
  BY <1>1, <1>2 DEF Report!Init, Report!TypeOK, Report!Statuses
<1>4. Story /\ Frozen
  BY DEF Report!Init, Story, Frozen, Report!Silent
<1> QED
  BY <1>3, <1>4 DEF ReportInv

LEMMA ReportTyped == ASSUME ReportConstants, Report!TypeOK, [Report!Next]_Report!vars PROVE Report!TypeOK'
<1> USE DEF ReportConstants, Report!TypeOK, Report!Statuses
<1>1. CASE Report!AttachReceipt
  BY <1>1 DEF Report!AttachReceipt
<1>2. CASE Report!Submit
  BY <1>2 DEF Report!Submit, Report!Submittable
<1>3. CASE Report!MarkAsPaid
  BY <1>3 DEF Report!MarkAsPaid
<1>4. ASSUME NEW a \in Claims, NEW confident \in BOOLEAN, NEW cur \in Currencies \cup {None},
             Report!UpdateFromOcr(a, confident, cur)
      PROVE Report!TypeOK'
  <2>1. a \in Int
    BY <1>4
  <2>2. claim' \in Nat \ {0} /\ claimCurrency' \in Currencies
    BY <1>4, <2>1 DEF Report!UpdateFromOcr, Report!Taken
  <2> QED BY <1>4, <2>2 DEF Report!UpdateFromOcr
<1>5. ASSUME NEW r \in Reviewers \cup {None}, Report!StartReview(r) PROVE Report!TypeOK'
  BY <1>5 DEF Report!StartReview
<1>6. ASSUME NEW r \in Reviewers \cup {None}, Report!Reject(r) PROVE Report!TypeOK'
  BY <1>6 DEF Report!Reject
<1>7. ASSUME NEW r \in Reviewers \cup {None}, NEW a \in Claims, Report!Approve(r, a) PROVE Report!TypeOK'
  <2> DEFINE final == IF a = 0 THEN claim ELSE a
  <2>1. a \in Int
    BY <1>7
  <2>2. final \in Nat
    BY <1>7, <2>1 DEF Report!Approve, Report!Acceptable
  <2>3. approved' = final /\ emitted' = [emitted EXCEPT !.approved = final, !.verdicts = @ + 1]
    BY <1>7 DEF Report!Approve
  <2> HIDE DEF final
  <2>4. approved' \in Nat /\ emitted' \in [submitted : Nat, in : Currencies \cup {None}, approved : Nat, verdicts : Nat]
    <3>1. emitted.verdicts + 1 \in Nat
      OBVIOUS
    <3>2. emitted' = [submitted |-> emitted.submitted, in |-> emitted.in,
                      approved |-> final, verdicts |-> emitted.verdicts + 1]
      BY <2>3
    <3> QED BY <2>2, <2>3, <3>1, <3>2
  <2> QED BY <1>7, <2>4 DEF Report!Approve
<1>8. ASSUME NEW a \in Claims, Report!UpdateDetails(a) PROVE Report!TypeOK'
  <2>1. a \in Int
    BY <1>8
  <2> QED BY <1>8, <2>1 DEF Report!UpdateDetails
<1>9. CASE UNCHANGED Report!vars
  BY <1>9 DEF Report!vars
<1> QED
  BY <1>1, <1>2, <1>3, <1>4, <1>5, <1>6, <1>7, <1>8, <1>9 DEF Report!Next

LEMMA StoryNext ==
    ASSUME ReportConstants, Report!TypeOK, Story, [Report!Next]_Report!vars
    PROVE  Story'
<1> USE DEF ReportConstants, Report!TypeOK, Story
<1>1. CASE Report!AttachReceipt
  BY <1>1 DEF Report!AttachReceipt
<1>2. CASE Report!Submit
  BY <1>2 DEF Report!Submit, Report!Submittable
<1>3. CASE Report!MarkAsPaid
  BY <1>3 DEF Report!MarkAsPaid
<1>4. ASSUME NEW a \in Claims, NEW confident \in BOOLEAN, NEW cur \in Currencies \cup {None},
             Report!UpdateFromOcr(a, confident, cur)
      PROVE Story'
  BY <1>4 DEF Report!UpdateFromOcr
<1>5. ASSUME NEW r \in Reviewers \cup {None}, Report!StartReview(r) PROVE Story'
  BY <1>5 DEF Report!StartReview
<1>6. ASSUME NEW r \in Reviewers \cup {None}, Report!Reject(r) PROVE Story'
  BY <1>6 DEF Report!Reject, Report!Reviewable
<1>7. ASSUME NEW r \in Reviewers \cup {None}, NEW a \in Claims, Report!Approve(r, a) PROVE Story'
  BY <1>7 DEF Report!Approve, Report!Reviewable, Report!Acceptable
<1>8. ASSUME NEW a \in Claims, Report!UpdateDetails(a) PROVE Story'
  BY <1>8 DEF Report!UpdateDetails
<1>9. CASE UNCHANGED Report!vars
  BY <1>9 DEF Report!vars
<1> QED
  BY <1>1, <1>2, <1>3, <1>4, <1>5, <1>6, <1>7, <1>8, <1>9 DEF Report!Next

(* A verdict needs a submission, an edit of the details a draft.                 *)
LEMMA FrozenNext ==
    ASSUME ReportConstants, Report!TypeOK, Story, Frozen, [Report!Next]_Report!vars
    PROVE  Frozen'
<1> USE DEF ReportConstants, Report!TypeOK, Frozen
<1>1. CASE Report!AttachReceipt
  BY <1>1 DEF Report!AttachReceipt
<1>2. CASE Report!Submit
  BY <1>2 DEF Report!Submit, Report!Submittable, Story
<1>3. CASE Report!MarkAsPaid
  BY <1>3 DEF Report!MarkAsPaid
<1>4. ASSUME NEW a \in Claims, NEW confident \in BOOLEAN, NEW cur \in Currencies \cup {None},
             Report!UpdateFromOcr(a, confident, cur)
      PROVE Frozen'
  BY <1>4 DEF Report!UpdateFromOcr, Story
<1>5. ASSUME NEW r \in Reviewers \cup {None}, Report!StartReview(r) PROVE Frozen'
  BY <1>5 DEF Report!StartReview
<1>6. ASSUME NEW r \in Reviewers \cup {None}, Report!Reject(r) PROVE Frozen'
  BY <1>6 DEF Report!Reject, Report!Reviewable
<1>7. ASSUME NEW r \in Reviewers \cup {None}, NEW a \in Claims, Report!Approve(r, a) PROVE Frozen'
  <2> DEFINE final == IF a = 0 THEN claim ELSE a
  <2>1. /\ final <= claim /\ approved' = final /\ UNCHANGED <<claim, claimCurrency, rewritten>>
        /\ reportStatus # "DRAFT" /\ reportStatus' # "DRAFT" /\ emitted' = [emitted EXCEPT !.approved = final, !.verdicts = @ + 1]
    BY <1>7 DEF Report!Approve, Report!Reviewable, Report!Acceptable
  <2> HIDE DEF final
  <2>2. emitted'.submitted = emitted.submitted /\ emitted'.in = emitted.in
    BY <2>1
  <2> QED BY <2>1, <2>2
<1>8. ASSUME NEW a \in Claims, Report!UpdateDetails(a) PROVE Frozen'
  BY <1>8 DEF Report!UpdateDetails, Report!Editable, Story
<1>9. CASE UNCHANGED Report!vars
  BY <1>9 DEF Report!vars
<1> QED
  BY <1>1, <1>2, <1>3, <1>4, <1>5, <1>6, <1>7, <1>8, <1>9 DEF Report!Next

LEMMA ReportNext == ReportConstants /\ ReportInv /\ [Report!Next]_Report!vars => ReportInv'
BY ReportTyped, StoryNext, FrozenNext DEF ReportInv

LEMMA ReportProps == ReportInv => Report!TypeOK /\ Report!PaidIsApproved /\ Report!ApprovedAsSubmitted
BY DEF ReportInv, Story, Frozen, Report!TypeOK, Report!PaidIsApproved, Report!ApprovedAsSubmitted

-----------------------------------------------------------------------------
(* All of them together.                                                        *)
Constants ==
    /\ AuditConstants /\ DashboardConstants /\ BillConstants /\ ModuleConstants
    /\ EmailConstants /\ SettingsConstants /\ ProfileConstants /\ ReportConstants
RecordsInv ==
    /\ AuditInv /\ LedgerInv /\ DashboardInv /\ (AdminInv /\ AdminHeard /\ AdminClock) /\ BillInv
    /\ ModuleInv /\ CreateInv /\ EmailInv /\ SettingsInv /\ ProfileInv /\ ReportInv

LEMMA ConstantsHold == Constants
<1>1. AuditConstants
  <2>1. None \notin Awaited
    BY NoneAssumption DEF Awaited
  <2> QED
    BY <2>1, NumbersAssumption, NoneAssumption DEF AuditConstants
<1>2. DashboardConstants
  BY NoneAssumption DEF DashboardConstants
<1>3. BillConstants
  BY NoneAssumption DEF BillConstants
<1>4. ModuleConstants
  BY NumbersAssumption, NoneAssumption DEF ModuleConstants
<1>5. EmailConstants
  BY NumbersAssumption, BatchesAssumption, NoneAssumption DEF EmailConstants
<1>6. SettingsConstants
  <2>1. Documents \subseteq [{"maintenance", "configurations", "retention", "alerts"}
                           -> Int \cup {"on", "off", "custom"} \cup (SUBSET Alerts) \cup {None}]
    BY DEF Documents, AllValues, Settings!Fields
  <2>2. None \notin Documents
    BY <2>1, NoneAssumption
  <2>3. \A patch \in Bodies : Patch(patch)
    BY BodiesAssumption DEF Patch
  <2> QED
    BY <2>2, <2>3, NumbersAssumption, NoneAssumption DEF SettingsConstants
<1>7. ProfileConstants
  BY NumbersAssumption, NoneAssumption DEF ProfileConstants, Docs
<1>8. ReportConstants
  BY NumbersAssumption, NoneAssumption DEF ReportConstants
<1> QED
  BY <1>1, <1>2, <1>3, <1>4, <1>5, <1>6, <1>7, <1>8 DEF Constants

LEMMA InitInv == Init => RecordsInv
BY ConstantsHold, AuditInit, LedgerInit, DashboardInit, AdminInit, BillInit, ModuleInit, CreateInit, EmailInit,
   SettingsInit, ProfileInit, ReportInit DEF Init, Constants, RecordsInv

(* A step of one component leaves the variables of the others alone.             *)
LEMMA OthersStutter ==
    ASSUME [Next]_vars
    PROVE  /\ [Audit!Next]_Audit!vars /\ [Ledger!Next]_Ledger!vars /\ [Dashboard!Next]_Dashboard!vars
           /\ [Admin!Next]_Admin!vars /\ [Bill!Next]_Bill!vars /\ [Module!Next]_Module!vars
           /\ [Create!Next]_Create!vars /\ [Email!Next]_Email!vars /\ [Settings!Next]_Settings!vars
           /\ [Profile!Next]_Profile!vars /\ [Report!Next]_Report!vars
<1> USE DEF AuditStep, LedgerStep, DashboardStep, AdminStep, BillStep, ModuleStep, CreateStep, EmailStep,
            SettingsStep, ProfileStep, ReportStep, vars, Next
<1>1. [Audit!Next]_Audit!vars
  BY DEF auditVars, Audit!vars
<1>2. [Ledger!Next]_Ledger!vars
  BY DEF ledgerVars, Ledger!vars
<1>3. [Dashboard!Next]_Dashboard!vars
  BY DEF dashboardVars, Dashboard!vars
<1>4. [Admin!Next]_Admin!vars
  BY DEF adminVars, Admin!vars
<1>5. [Bill!Next]_Bill!vars
  BY DEF billVars, Bill!vars
<1>6. [Module!Next]_Module!vars
  BY DEF moduleVars, Module!vars
<1>7. [Create!Next]_Create!vars
  BY DEF createVars, Create!vars
<1>8. [Email!Next]_Email!vars
  BY DEF emailVars, Email!vars
<1>9. [Settings!Next]_Settings!vars
  BY DEF settingsVars, Settings!vars
<1>10. [Profile!Next]_Profile!vars
  BY DEF profileVars, Profile!vars
<1>11. [Report!Next]_Report!vars
  BY DEF reportVars, Report!vars
<1> QED
  BY <1>1, <1>2, <1>3, <1>4, <1>5, <1>6, <1>7, <1>8, <1>9, <1>10, <1>11

LEMMA NextInv == RecordsInv /\ [Next]_vars => RecordsInv'
<1> SUFFICES ASSUME RecordsInv, [Next]_vars PROVE RecordsInv'
  OBVIOUS
<1>1. Constants
  BY ConstantsHold
<1>2. /\ AuditInv /\ LedgerInv /\ DashboardInv /\ (AdminInv /\ AdminHeard /\ AdminClock) /\ BillInv
      /\ ModuleInv /\ CreateInv /\ EmailInv /\ SettingsInv /\ ProfileInv /\ ReportInv
  BY DEF RecordsInv
<1>3. AuditInv' /\ LedgerInv' /\ DashboardInv' /\ (AdminInv /\ AdminHeard /\ AdminClock)' /\ BillInv'
  BY <1>1, <1>2, OthersStutter, AuditNext, LedgerNext, DashboardNext, AdminNext, BillNext DEF Constants
<1>4. ModuleInv' /\ CreateInv' /\ EmailInv' /\ SettingsInv' /\ ProfileInv' /\ ReportInv'
  BY <1>1, <1>2, OthersStutter, ModuleNext, CreateNext, EmailNext, SettingsNext, ProfileNext, ReportNext DEF Constants
<1> QED
  BY <1>3, <1>4 DEF RecordsInv

(* Nothing of a component is ever outside its type: entries of either chain,     *)
(* rooms and samples, line items and the totals summed of them, documents; an    *)
(* expense's amount stays positive and its currency valid whatever OCR reports.  *)
THEOREM AlwaysTyped == Spec => []RecordsTyped
<1>1. RecordsInv => RecordsTyped
  BY ConstantsHold, AuditProps, LedgerProps, DashboardProps, AdminProps, BillProps, ModuleProps, CreateProps,
     EmailProps, SettingsProps, ProfileProps, ReportProps DEF RecordsInv, RecordsTyped, Constants
<1> QED
  BY <1>1, InitInv, NextInv, PTL DEF Spec

(* The shared audit trail verifies exactly if no recordings overlapped and       *)
(* nothing was encrypted; what is sensitive is encrypted and raises nothing; the *)
(* blockchain chain verifies, and holds what was answered, once.                 *)
THEOREM TrailsAlwaysVerify == Spec => []TrailsVerify
<1>1. RecordsInv => TrailsVerify
  BY ConstantsHold, AuditProps, LedgerProps DEF RecordsInv, TrailsVerify, Constants
<1> QED
  BY <1>1, InitInv, NextInv, PTL DEF Spec

(* Either gateway's maps say the same of who is connected and subscribed to      *)
(* what, and an event reaches the administrators who were connected.             *)
THEOREM GatewaysAlwaysAgree == Spec => []GatewaysAgree
<1>1. RecordsInv => GatewaysAgree
  BY DashboardProps, AdminProps DEF RecordsInv, GatewaysAgree
<1> QED
  BY <1>1, InitInv, NextInv, PTL DEF Spec

(* An invoice of either aggregate is paid exactly if what was paid is its total, *)
(* and what the create use case announced or answered is stored.                 *)
THEOREM BillsAlwaysAgree == Spec => []BillsAgree
<1>1. RecordsInv => BillsAgree
  BY ConstantsHold, BillProps, ModuleProps, CreateProps DEF RecordsInv, BillsAgree, Constants
<1> QED
  BY <1>1, InitInv, NextInv, PTL DEF Spec

(* A message whose sending failed is queued as the provider got it, and the bulk *)
(* call returns what was sent, through any order of answers and any batches.     *)
THEOREM FailedMailIsAlwaysRetried == Spec => []FailedMailIsRetried
<1>1. RecordsInv => FailedMailIsRetried
  BY ConstantsHold, EmailProps DEF RecordsInv, FailedMailIsRetried, Constants
<1> QED
  BY <1>1, InitInv, NextInv, PTL DEF Spec

(* Settings, logs, backups and profiles are lost only as the services name it,   *)
(* whatever calls read before another one saved.                                 *)
THEOREM RecordsAreAlwaysKept == Spec => []RecordsAreKept
<1>1. RecordsInv => RecordsAreKept
  BY ConstantsHold, SettingsProps, ProfileProps DEF RecordsInv, RecordsAreKept, Constants
<1> QED
  BY <1>1, InitInv, NextInv, PTL DEF Spec

(* What is paid went through submission with a receipt, a reviewer and one       *)
(* verdict, and is the amount the approval announced; no report gets two.        *)
THEOREM PaidWasApproved == Spec => []PaidIsApproved
<1>1. RecordsInv => PaidIsApproved
  BY ConstantsHold, ReportProps DEF RecordsInv, PaidIsApproved, Constants
<1> QED
  BY <1>1, InitInv, NextInv, PTL DEF Spec

(* Unless an OCR result rewrote the report after its submission, no more is      *)
(* approved than the submission announced, in the same currency.                 *)
THEOREM ApprovalIsBounded == Spec => []ApprovedAsSubmitted
<1>1. RecordsInv => ApprovedAsSubmitted
  BY ConstantsHold, ReportProps DEF RecordsInv, ApprovedAsSubmitted, Constants
<1> QED
  BY <1>1, InitInv, NextInv, PTL DEF Spec

=============================================================================
