-------------------------- MODULE ComplianceAudit --------------------------
(***************************************************************************)
(* The shared audit service: an entry is classified, takes the hash of the *)
(* last linked entry, is hashed, encrypted and handed to the store; when   *)
(* the store has answered it becomes the last linked entry.  Calls overlap *)
(* while the store is awaited.  The store itself is a placeholder in the   *)
(* code; stored is what it was handed, and what verification would read.   *)
(***************************************************************************)
EXTENDS Integers, Sequences, SequencesExt

CONSTANTS
    Calls,       \* calls in flight at once
    Events,      \* what is recorded: an action, as the set of words the classifiers find in it;
                 \* what its resource and its detail keys are about, sets of Sensitive topics and
                 \* "critical"; and whether it failed
    MaxEntries,  \* bound on the entries of a behaviour
    Signing,     \* whether AUDIT_SIGNING_KEY is configured
    None

VARIABLES
    stored,      \* the entries handed to the store, in order
    auditChain,  \* the hashes linked so far; an entry's hash is its place in stored
    busy,        \* the entry each call awaits the store for, and what it does after
    requests,    \* entries whose data subject request was stored
    alerted,     \* history: entries a compliance violation was raised for
    overlapped   \* history: an entry was made while another was not linked yet

vars == <<stored, auditChain, busy, requests, alerted, overlapped>>

Sensitive == {"personal", "payment", "financial"}

(* The first category whose words the action has. *)
Categories == <<
    <<"authentication", {"login", "auth"}>>, <<"authorization", {"permission", "access"}>>,
    <<"financial_transaction", {"payment", "invoice"}>>, <<"data_deletion", {"delete"}>>,
    <<"data_modification", {"update", "modify"}>>, <<"data_access", {"view", "read"}>>,
    <<"error_event", {"error", "fail"}>>, <<"security_event", {"security"}>> >>
categorize(action) ==
    LET hits == {n \in DOMAIN Categories : Categories[n][2] \cap action # {}}
    IN  IF hits = {} THEN "system_event" ELSE Categories[CHOOSE n \in hits : \A m \in hits : n <= m][1]

calculateSeverity(action, resource, failed) ==
    CASE failed -> "high"
      [] ~failed /\ "critical" \in resource -> "critical"
      [] ~failed /\ "critical" \notin resource ->
            IF action \cap {"delete", "modify_permissions", "payment_processed"} # {} THEN "high" ELSE "medium"

Frameworks(about) == {f \in {"GDPR", "PCI_DSS", "SOX"} :
    [GDPR |-> "personal", PCI_DSS |-> "payment", SOX |-> "financial"][f] \in about}
classifyData(about) ==
    IF "payment" \in about THEN "restricted"
    ELSE IF about \cap Sensitive # {} THEN "confidential" ELSE "internal"
Bug_PaymentsOnly(about) == "payment" \in about
shouldEncrypt(about) == about \cap Sensitive # {}
calculateRetentionPeriod(action, resource) ==
    CASE "financial" \in resource -> 2555
      [] "financial" \notin resource /\ "payment" \in resource -> 1095
      [] OTHER -> IF action \cap {"auth", "login"} # {} THEN 365 ELSE 730

(* Every action has a legal basis, the legitimate interest if nothing else.      *)
Basis(action) ==
    IF action \cap {"payment", "invoice"} # {} THEN "contract_performance"
    ELSE IF action \cap {"marketing", "newsletter"} # {} THEN "consent" ELSE "legitimate_interest"

(* What the three checks raise; encrypting replaces the detail keys.             *)
Violations(e) ==
    {v \in {"GDPR", "PCI_DSS", "SOX"} \cap e.frameworks :
        \/ v = "GDPR" /\ e.category = "data_access" /\ e.basis = None
        \/ v = "PCI_DSS" /\ "payment" \in e.about /\ ~e.encrypted
        \/ v = "SOX" /\ e.category = "financial_transaction" /\ e.severity = "low"}

Bug_FirstHash == IF auditChain = <<>> THEN None ELSE Head(auditChain)
getLastAuditHash == IF auditChain = <<>> THEN None ELSE Last(auditChain)

Entry(action, resource, details, failed) == LET about == resource \cup details IN
    [about |-> about, category |-> categorize(action), severity |-> calculateSeverity(action, resource, failed),
     frameworks |-> Frameworks(about), class |-> classifyData(about), basis |-> Basis(action),
     retention |-> calculateRetentionPeriod(action, resource), encrypted |-> shouldEncrypt(about),
     previousHash |-> getLastAuditHash]

-----------------------------------------------------------------------------
Init ==
    /\ stored = <<>> /\ auditChain = <<>> /\ requests = {} /\ alerted = {} /\ overlapped = FALSE
    /\ busy = [c \in Calls |-> None]

Handed(c, e, next) ==
    /\ busy[c] = None /\ Len(stored) < MaxEntries
    /\ stored' = Append(stored, e)
    /\ busy' = [busy EXCEPT ![c] = [entry |-> Len(stored) + 1, next |-> next]]
    /\ overlapped' = (overlapped \/ \E d \in Calls : busy[d] # None)
    /\ UNCHANGED <<auditChain, requests, alerted>>

recordAuditEvent(c, e) == Handed(c, Entry(e.action, e.resource, e.details, e.failed), "return")

(* The entries the service makes itself are about nothing sensitive; a            *)
(* verification that found something is recorded as a failure.                    *)
handleDomainEvent(c) == Handed(c, Entry({}, {}, {}, FALSE), "return")
processDataSubjectRequest(c) == Handed(c, Entry({}, {}, {}, FALSE), "request")
exportAuditData(c, sign) == (sign => Signing) /\ Handed(c, Entry({}, {}, {}, FALSE), "return")

(* An encrypted entry no longer hashes to its hash, and is not remembered as the *)
(* one before the next.                                                          *)
corruptedEntries == {n \in DOMAIN stored : stored[n].encrypted}
Before(n) == 1..(n - 1) \ corruptedEntries
missingEntries == {n \in DOMAIN stored \ corruptedEntries :
    Before(n) # {} /\ stored[n].previousHash # Max(Before(n))}
Verified == corruptedEntries = {} /\ missingEntries = {}
verifyAuditIntegrity(c) == Handed(c, Entry({}, {}, {}, ~Verified), "return")

Bug_LinkedTwice(c) ==
    /\ busy[c] # None
    /\ auditChain' = Append(auditChain, busy[c].entry)
    /\ UNCHANGED <<stored, alerted, requests, busy, overlapped>>
Linked(c) ==
    /\ busy[c] # None
    /\ auditChain' = Append(auditChain, busy[c].entry)
    /\ alerted' = IF Violations(stored[busy[c].entry]) = {} THEN alerted ELSE alerted \cup {busy[c].entry}
    /\ requests' = IF busy[c].next = "request" THEN requests \cup {busy[c].entry} ELSE requests
    /\ busy' = [busy EXCEPT ![c] = None]
    /\ UNCHANGED <<stored, overlapped>>

Next == \E c \in Calls :
    \/ \E e \in Events : recordAuditEvent(c, e)
    \/ handleDomainEvent(c) \/ processDataSubjectRequest(c) \/ verifyAuditIntegrity(c)
    \/ \E sign \in BOOLEAN : exportAuditData(c, sign)
    \/ Linked(c)

Spec == Init /\ [][Next]_vars

-----------------------------------------------------------------------------
TypeOK ==
    /\ \A n \in DOMAIN stored : stored[n].previousHash \in {None} \cup 1..(n - 1)
    /\ Range(auditChain) \subseteq DOMAIN stored /\ requests \subseteq Range(auditChain)
    /\ Cardinality(Range(auditChain)) = Len(auditChain)

(* The trail verifies exactly if no entry was encrypted and no two recordings    *)
(* overlapped: recordings one after the other chain as verification expects, and *)
(* a fork never goes unnoticed.                                                  *)
SerialVerifies == Verified <=> (~overlapped /\ \A n \in DOMAIN stored : ~stored[n].encrypted)

(* The three classifications agree: whatever is not internal is encrypted and    *)
(* falls under a framework, so that no violation is ever raised.                 *)
ClassifiedIsEncrypted ==
    /\ alerted = {}
    /\ \A n \in DOMAIN stored : LET e == stored[n] IN
           e.encrypted <=> (e.class # "internal") /\ (e.class # "internal" <=> e.frameworks # {})
=============================================================================
