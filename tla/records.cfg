SPECIFICATION MCSpec
CONSTANTS
    c1 = c1
    c2 = c2
    c3 = c3
    s1 = s1
    s2 = s2
    u1 = u1
    u2 = u2
    None = None
    AuditCalls <- TwoCalls
    AuditEvents <- MCEvents
    MaxEntries = 3
    Signing = TRUE
    LedgerCalls <- ThreeCalls
    Wallet = TRUE
    Clients <- TwoSockets
    Metrics <- TwoUsers
    Available <- OneUser
    MaxTicks = 2
    Sockets <- TwoSockets
    Users <- TwoUsers
    MaxTimers = 2
    Currencies = {"USD", "EUR"}
    Default = "USD"
    BillAmounts = {1, 2}
    MaxLineItems = 2
    Invoices <- TwoCalls
    Recurring <- OneCall
    Amounts = {10, 20}
    Inexact = {30}
    MaxItems = 2
    FirstNumber = 1000
    LastRefused = 1001
    CreateCalls <- ThreeCalls
    Numbers <- TwoUsers
    Mails <- MCMails
    Templated <- MCTemplated
    Unretried <- MCUnretried
    Batches <- MCBatches
    Threshold = 20
    MailEvents = {"delivered", "bounced", "failed"}
    RecordCalls <- TwoCalls
    Alerts <- TwoSockets
    Bodies <- MCBodies
    Days = {0, 10, 400}
    Ages = {5, 40, 3000}
    ProfileCalls <- ThreeCalls
    Durations = {3, 9}
    Sections = {"avatar", "company"}
    Claims <- MCClaims
    Reviewers <- TwoUsers
INVARIANTS
    RecordsTyped
    TrailsVerify
    GatewaysAgree
    BillsAgree
    FailedMailIsRetried
    
    PaidIsApproved
    ApprovedAsSubmitted
CHECK_DEADLOCK FALSE
