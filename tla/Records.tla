------------------------------ MODULE Records ------------------------------
(***************************************************************************)
(* The eleven components that share no state with another one, side by     *)
(* side: a step is a step of one of them, and the others stay as they are. *)
(***************************************************************************)
EXTENDS Integers, Sequences, FiniteSets

CONSTANTS
    None,
    AuditCalls, AuditEvents, MaxEntries, Signing,                          \* the compliance audit
    LedgerCalls, Wallet,                                                   \* the blockchain ledger
    Clients, Metrics, Available, MaxTicks,                                 \* the dashboard gateway
    Sockets, Users, MaxTimers,                                             \* the admin gateway
    Currencies, Default, BillAmounts, MaxLineItems,                        \* the billing service's aggregate
    Invoices, Recurring, Amounts, Inexact, MaxItems, FirstNumber, LastRefused,   \* the billing module's
    CreateCalls, Numbers,                                                  \* the create use case
    Mails, Templated, Unretried, Batches, Threshold, MailEvents,           \* email
    RecordCalls, Alerts, Bodies, Days, Ages,                               \* settings, logs and backups
    ProfileCalls, Durations, Sections,                                     \* profiles
    Claims, Reviewers                                                      \* the expense report

(* What the initial values and the tests for an absent one need: numbers are      *)
(* numbers, a message is in one batch of the bulk call, and None is no value.     *)
ASSUME NumbersAssumption ==
    /\ Amounts \subseteq Nat \ {0} /\ FirstNumber \in Nat /\ Threshold \in Nat
    /\ Days \subseteq Int /\ Ages \subseteq Nat /\ Durations \subseteq Nat /\ Claims \subseteq Int
    /\ \A e \in AuditEvents : e.failed \in BOOLEAN
ASSUME BatchesAssumption ==
    /\ IsFiniteSet(Mails) /\ Batches \in Seq(SUBSET Mails) /\ Batches # <<>>
    /\ \A m, n \in DOMAIN Batches : m # n => Batches[m] \cap Batches[n] = {}
ASSUME NoneAssumption ==
    /\ None \notin Int \cup Reviewers \cup Currencies
    /\ \A ms \in SUBSET Metrics : ms # None
    /\ \A cs \in SUBSET Clients : cs # None
    /\ None \notin {"contract_performance", "consent", "legitimate_interest", "failed", "in_progress", "completed", "on",
                    "settings", "nested", "alerts", "cleanup", "system", "bulk", "clear", "backup"}
    /\ None \notin [entry : Nat, next : {"return", "request"}]
    /\ None \notin [amount : BillAmounts, currency : Currencies]
    /\ \A keys \in SUBSET Alerts : keys # None
    /\ None \notin [{"maintenance", "configurations", "retention", "alerts"}
                    -> Int \cup {"on", "off", "custom"} \cup (SUBSET Alerts) \cup {None}]
    /\ None \notin [id : Nat, sections : SUBSET Sections, analytics : BOOLEAN, logins : Nat, average : Nat, feature : BOOLEAN]

VARIABLES
    stored, trail, busy, requests, alerted, overlapped,
    ledger, ledgerCall, answered,
    watching, activeSubscriptions, metricsCache, shown, widget, ticks,
    connected, userSockets, rooms, received, timers, metricsInterval, started, outlived, measured,
    billStatus, lineItems, paid, events, late,
    status, items, paidAmount, number, counter,
    creation, store, heard,
    stage, tracked, delivered, queue, bulk, reported,
    settings, logs, backups, adminCall, logged, assigned, skipped, asked, crossed, policies,
    profile, profileCall, made, logins, entered,
    reportStatus, claim, claimCurrency, receipt, reviewer, approved, emitted, rewritten

auditVars == <<stored, trail, busy, requests, alerted, overlapped>>
ledgerVars == <<ledger, ledgerCall, answered>>
dashboardVars == <<watching, activeSubscriptions, metricsCache, shown, widget, ticks>>
adminVars == <<connected, userSockets, rooms, received, timers, metricsInterval, started, outlived, measured>>
billVars == <<billStatus, lineItems, paid, events, late>>
moduleVars == <<status, items, paidAmount, number, counter>>
createVars == <<creation, store, heard>>
emailVars == <<stage, tracked, delivered, queue, bulk, reported>>
settingsVars == <<settings, logs, backups, adminCall, logged, assigned, skipped, asked, crossed, policies>>
profileVars == <<profile, profileCall, made, logins, entered>>
reportVars == <<reportStatus, claim, claimCurrency, receipt, reviewer, approved, emitted, rewritten>>
vars == <<auditVars, ledgerVars, dashboardVars, adminVars, billVars,
          moduleVars, createVars, emailVars, settingsVars, profileVars, reportVars>>

Audit == INSTANCE ComplianceAudit WITH Calls <- AuditCalls, Events <- AuditEvents, auditChain <- trail
Ledger == INSTANCE BlockchainLedger WITH
    Calls <- LedgerCalls, Genesis <- None, auditChain <- ledger, call <- ledgerCall
Dashboard == INSTANCE DashboardGateway WITH Absent <- None, connectedClients <- watching
Admin == INSTANCE AdminGateway WITH connectedClients <- connected, heard <- received
Bill == INSTANCE InvoiceAggregate WITH
    Amounts <- BillAmounts, MaxItems <- MaxLineItems, status <- billStatus, items <- lineItems
Module == INSTANCE ModuleInvoice
Create == INSTANCE CreateInvoice WITH Calls <- CreateCalls, call <- creation
Email == INSTANCE EmailDelivery WITH Events <- MailEvents
Settings == INSTANCE AdminRecords WITH Calls <- RecordCalls, call <- adminCall
Profile == INSTANCE UserProfile WITH Calls <- ProfileCalls, call <- profileCall
Report == INSTANCE ExpenseReport WITH
    Amounts <- Claims, Nobody <- None, status <- reportStatus, amount <- claim, currency <- claimCurrency

(* The settings in a request's body are of the kinds a document has. *)
ASSUME BodiesAssumption ==
    \A patch \in Bodies : \A f \in DOMAIN patch : f \in Settings!Fields /\ patch[f] \in Settings!Values(f) \cup {None}

Init ==
    /\ Audit!Init /\ Ledger!Init /\ Dashboard!Init /\ Admin!Init /\ Bill!Init
    /\ Module!Init /\ Create!Init /\ Email!Init /\ Settings!Init /\ Profile!Init /\ Report!Init

AuditStep ==
    /\ Audit!Next
    /\ UNCHANGED <<ledgerVars, dashboardVars, adminVars, billVars, moduleVars, createVars, emailVars, settingsVars, profileVars,
                   reportVars>>
LedgerStep ==
    /\ Ledger!Next
    /\ UNCHANGED <<auditVars, dashboardVars, adminVars, billVars, moduleVars, createVars, emailVars, settingsVars, profileVars,
                   reportVars>>
DashboardStep ==
    /\ Dashboard!Next
    /\ UNCHANGED <<auditVars, ledgerVars, adminVars, billVars, moduleVars, createVars, emailVars, settingsVars, profileVars,
                   reportVars>>
AdminStep ==
    /\ Admin!Next
    /\ UNCHANGED <<auditVars, ledgerVars, dashboardVars, billVars, moduleVars, createVars, emailVars, settingsVars, profileVars,
                   reportVars>>
BillStep ==
    /\ Bill!Next
    /\ UNCHANGED <<auditVars, ledgerVars, dashboardVars, adminVars, moduleVars, createVars, emailVars, settingsVars, profileVars,
                   reportVars>>
ModuleStep ==
    /\ Module!Next
    /\ UNCHANGED <<auditVars, ledgerVars, dashboardVars, adminVars, billVars, createVars, emailVars, settingsVars, profileVars,
                   reportVars>>
CreateStep ==
    /\ Create!Next
    /\ UNCHANGED <<auditVars, ledgerVars, dashboardVars, adminVars, billVars, moduleVars, emailVars, settingsVars, profileVars,
                   reportVars>>
EmailStep ==
    /\ Email!Next
    /\ UNCHANGED <<auditVars, ledgerVars, dashboardVars, adminVars, billVars, moduleVars, createVars, settingsVars, profileVars,
                   reportVars>>
SettingsStep ==
    /\ Settings!Next
    /\ UNCHANGED <<auditVars, ledgerVars, dashboardVars, adminVars, billVars, moduleVars, createVars, emailVars, profileVars,
                   reportVars>>
ProfileStep ==
    /\ Profile!Next
    /\ UNCHANGED <<auditVars, ledgerVars, dashboardVars, adminVars, billVars, moduleVars, createVars, emailVars, settingsVars,
                   reportVars>>
ReportStep ==
    /\ Report!Next
    /\ UNCHANGED <<auditVars, ledgerVars, dashboardVars, adminVars, billVars, moduleVars, createVars, emailVars, settingsVars,
                   profileVars>>

Next ==
    \/ AuditStep \/ LedgerStep \/ DashboardStep \/ AdminStep \/ BillStep
    \/ ModuleStep \/ CreateStep \/ EmailStep \/ SettingsStep \/ ProfileStep \/ ReportStep

Spec == Init /\ [][Next]_vars

-----------------------------------------------------------------------------
(* The types of the eleven components.                                        *)
RecordsTyped ==
    /\ Audit!TypeOK /\ Ledger!TypeOK /\ Dashboard!TypeOK /\ Admin!TypeOK /\ Bill!TypeOK
    /\ Module!TypeOK /\ Create!TypeOK /\ Email!TypeOK /\ Settings!TypeOK /\ Profile!TypeOK /\ Report!TypeOK

(* The shared audit trail verifies exactly if nothing was encrypted and no two   *)
(* recordings overlapped, and what is sensitive is encrypted; the blockchain     *)
(* chain, which no await cuts, always verifies and holds what was answered.      *)
TrailsVerify == Audit!SerialVerifies /\ Audit!ClassifiedIsEncrypted /\ Ledger!LedgerVerifies

(* The maps of either gateway agree, and events reach those they are for.        *)
GatewaysAgree == Dashboard!MapsAgree /\ Admin!MapsAgree /\ Admin!EventsReachAdmins

(* Either aggregate's status tells what was paid of it, and what was published   *)
(* of an invoice or answered is stored.                                          *)
BillsAgree == Bill!PaidInFull /\ Module!StatusTellsBalance /\ Create!HeardIsStored

(* A message whose sending failed is queued, and the bulk call tells what it     *)
(* sent.                                                                         *)
FailedMailIsRetried == Email!FailedMailIsRetried

(* Settings, logs and profiles are lost only in the ways the services name.      *)
RecordsAreKept == Settings!SettingsAreKept /\ Settings!LogsAreKept /\ Profile!LoginsAreCounted

(* What is paid was submitted with a receipt, reviewed by somebody, approved by  *)
(* exactly one verdict, and is the amount the approval announced; nothing that   *)
(* was rejected is approved or paid later, nor the other way round.              *)
PaidIsApproved == Report!PaidIsApproved

(* No more is approved than the submission announced, in the same currency,      *)
(* unless an OCR result that came late replaced it.                              *)
ApprovedAsSubmitted == Report!ApprovedAsSubmitted
=============================================================================
