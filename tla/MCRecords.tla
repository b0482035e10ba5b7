----------------------------- MODULE MCRecords -----------------------------
(* Small instances of the components of Records.  They share no state, so  *)
(* one of them at a time is enough: focus says which a behaviour is about, *)
(* and the others keep their initial state.                                *)
EXTENDS Records

CONSTANTS c1, c2, c3, s1, s2, u1, u2

VARIABLE focus

OneCall == {c1}
TwoCalls == {c1, c2}
ThreeCalls == {c1, c2, c3}
Event(action, resource, details, failed) ==
    [action |-> action, resource |-> resource, details |-> details, failed |-> failed]
MCEvents ==
    {Event({"payment"}, {"payment"}, {}, FALSE), Event({"payment", "payment_processed"}, {}, {"payment"}, TRUE),
     Event({"view"}, {"personal"}, {}, FALSE), Event({"read"}, {}, {"financial"}, FALSE),
     Event({"login"}, {}, {}, FALSE), Event({"delete"}, {"critical"}, {}, FALSE),
     Event({"invoice"}, {"financial"}, {"personal"}, FALSE)}
TwoSockets == {s1, s2}
TwoUsers == {u1, u2}
OneUser == {u1}
MCMails == {c1, c2, c3, s1}
MCTemplated == {c1, s1}
MCUnretried == {c2}
MCClaims == -1..4
MCBodies ==
    {[f \in {"maintenance"} |-> "off"], [f \in {"maintenance"} |-> None], [f \in {"retention"} |-> 0],
     [f \in {"alerts"} |-> {s2}], [f \in {"alerts"} |-> None],
     [f \in {"maintenance", "retention"} |-> IF f = "maintenance" THEN "on" ELSE 10]}
MCBatches == <<{c1, c2}, {c3}>>

Components == {"audit", "ledger", "dashboard", "admin", "bill", "module", "create", "email", "settings", "profile", "report"}
MCInit == Init /\ focus \in Components /\ (focus # "settings" => settings = None)
          /\ (focus # "report" => claim = 1 /\ claimCurrency = "USD")
MCNext ==
    /\ UNCHANGED focus
    /\ \/ focus = "audit" /\ AuditStep
       \/ focus = "ledger" /\ LedgerStep
       \/ focus = "dashboard" /\ DashboardStep
       \/ focus = "admin" /\ AdminStep
       \/ focus = "bill" /\ BillStep
       \/ focus = "module" /\ ModuleStep
       \/ focus = "create" /\ CreateStep
       \/ focus = "email" /\ EmailStep
       \/ focus = "settings" /\ SettingsStep
       \/ focus = "profile" /\ ProfileStep
       \/ focus = "report" /\ ReportStep
MCSpec == MCInit /\ [][MCNext]_<<focus, vars>>
=============================================================================
