-------------------------- MODULE BlockchainLedger --------------------------
(***************************************************************************)
(* The blockchain service: payments, contracts and signatures, each put on *)
(* an audit chain kept in the process.  An entry is read off, made and     *)
(* pushed without an await; what comes before it may be awaited.           *)
(***************************************************************************)
EXTENDS Integers, Sequences

CONSTANTS
    Calls,   \* the calls of a behaviour
    Wallet,  \* whether a private key is configured and the wallet was made
    Genesis  \* the hash before the first entry, and no submission

VARIABLES
    auditChain,   \* the entries, each with its action and the call before it
    call,         \* what each call is doing
    answered      \* the calls that returned, with what they returned

vars == <<auditChain, call, answered>>

Init == auditChain = <<>> /\ call = [c \in Calls |-> "idle"] /\ answered = {}

Bug_FirstHash == IF auditChain = <<>> THEN Genesis ELSE auditChain[1].hash
PreviousHash == IF auditChain = <<>> THEN Genesis ELSE auditChain[Len(auditChain)].hash
Entry(c, action) == [hash |-> c, action |-> action, previousHash |-> PreviousHash]

(* The hash stands for all the entry's fields: it is the call's own.             *)
addToAuditChain(c, action) == auditChain' = Append(auditChain, Entry(c, action))

createInvoiceSmartContract(c) ==
    /\ call[c] = "idle" /\ addToAuditChain(c, "CREATE_SMART_CONTRACT")
    /\ call' = [call EXCEPT ![c] = "contract"]
    /\ UNCHANGED answered
signDocument(c) ==
    /\ call[c] = "idle" /\ addToAuditChain(c, "SIGN_DOCUMENT")
    /\ call' = [call EXCEPT ![c] = "signature"]
    /\ UNCHANGED answered

processPayment(c) ==
    /\ call[c] = "idle"
    /\ call' = [call EXCEPT ![c] = IF Wallet THEN "submitted" ELSE "refused"]
    /\ UNCHANGED <<auditChain, answered>>
Confirmed(c) ==
    /\ call[c] = "submitted" /\ addToAuditChain(c, "PROCESS_PAYMENT")
    /\ call' = [call EXCEPT ![c] = "confirmed"]
    /\ UNCHANGED answered

(* The caller resumes after the chain's own await. *)
Answer(c) ==
    /\ call[c] \in {"contract", "signature", "confirmed"} /\ c \notin answered
    /\ answered' = answered \cup {c}
    /\ UNCHANGED <<auditChain, call>>

Next == \E c \in Calls :
    createInvoiceSmartContract(c) \/ signDocument(c) \/ processPayment(c) \/ Confirmed(c) \/ Answer(c)

Spec == Init /\ [][Next]_vars

(* verifyAuditChain: the entries that do not follow the one before them.         *)
Invalid == {n \in DOMAIN auditChain :
    auditChain[n].previousHash # IF n = 1 THEN Genesis ELSE auditChain[n - 1].hash}

-----------------------------------------------------------------------------
TypeOK == answered \subseteq Calls /\ \A n \in DOMAIN auditChain : auditChain[n].hash \in Calls

(* However calls overlap, the chain verifies, and what was answered is on it,    *)
(* once, a payment as well.                                                      *)
LedgerVerifies ==
    /\ Invalid = {}
    /\ \A c \in Calls : call[c] \notin {"idle", "submitted", "refused"} =>
           \E n \in DOMAIN auditChain : auditChain[n].hash = c
    /\ \A m, n \in DOMAIN auditChain : auditChain[m].hash = auditChain[n].hash => m = n
=============================================================================
