----------------------------- MODULE UserProfile -----------------------------
(***************************************************************************)
(* The profile of one user: made when it is first asked for or first       *)
(* written, counted up by logins, averaged by sessions.  Some methods      *)
(* write in one query, some read the document first.  A document that is   *)
(* saved writes the paths assigned, and fails if it is gone; the index on  *)
(* userId refuses a second document.                                       *)
(***************************************************************************)
EXTENDS Integers

CONSTANTS
    Calls,
    Durations,  \* the lengths of sessions
    Sections,   \* the parts of a profile a request replaces
    None

VARIABLES
    profile,   \* None, or the document: its age in documents, its sections, its analytics
    call,      \* where each call is, and the document it read
    made,      \* history: how many documents there have been
    logins,    \* history: logins recorded since the document was made
    entered    \* history: the sections written since then

vars == <<profile, call, made, logins, entered>>

(* A document made by a write has no analytics before a login or a feature.      *)
New(analytics) == [id |-> made + 1, sections |-> {}, analytics |-> analytics, logins |-> 0, average |-> 0, feature |-> FALSE]

Init ==
    /\ profile = None /\ made = 0 /\ logins = 0 /\ entered = {}
    /\ call = [c \in Calls |-> [at |-> "idle", op |-> None, arg |-> None, read |-> None]]

At(c, at, op) == call[c].at = at /\ call[c].op = op
Begin(c, op, arg, at) ==
    /\ call[c].at = "idle"
    /\ call' = [call EXCEPT ![c] = [at |-> at, op |-> op, arg |-> arg, read |-> profile]]
Go(c, at) == call' = [call EXCEPT ![c].at = at]
Make(doc) == profile' = doc /\ made' = made + 1

getProfile(c) ==
    /\ Begin(c, "get", None, IF profile = None THEN "found" ELSE "done")
    /\ UNCHANGED <<profile, made, logins, entered>>
createDefaultProfile(c) ==
    /\ At(c, "found", "get")
    /\ IF profile = None
       THEN Make(New(TRUE)) /\ Go(c, "saved") /\ logins' = 0 /\ entered' = {}
       ELSE Go(c, "thrown") /\ UNCHANGED <<profile, made, logins, entered>>

updateProfile(c, section) ==
    /\ Begin(c, "update", section, "found")
    /\ UNCHANGED <<profile, made, logins, entered>>
Bug_SaveAll(c) ==
    /\ At(c, "found", "update")
    /\ LET read == call[c].read IN
       IF read # None /\ profile # None
       THEN /\ profile' = [read EXCEPT !.sections = @ \cup {call[c].arg}]
            /\ entered' = entered \cup {call[c].arg} /\ Go(c, "saved") /\ UNCHANGED <<made, logins>>
       ELSE Go(c, "thrown") /\ UNCHANGED <<profile, made, logins, entered>>
Save(c) ==
    /\ At(c, "found", "update")
    /\ LET read == call[c].read IN
       CASE read = None /\ profile = None ->
              /\ Make([New(FALSE) EXCEPT !.sections = {call[c].arg}]) /\ Go(c, "saved")
              /\ logins' = 0 /\ entered' = {call[c].arg}
         [] read # None /\ profile # None /\ read.id = profile.id ->
              /\ profile' = [profile EXCEPT !.sections = @ \cup {call[c].arg}] /\ Go(c, "saved")
              /\ entered' = entered \cup {call[c].arg} /\ UNCHANGED <<made, logins>>
         [] OTHER -> Go(c, "thrown") /\ UNCHANGED <<profile, made, logins, entered>>

(* One query that inserts if there is nothing to update. *)
Upserted == IF profile = None THEN New(FALSE) ELSE profile
Upsert(doc, l, e) ==
    /\ profile' = doc /\ made' = IF profile = None THEN made + 1 ELSE made
    /\ logins' = (IF profile = None THEN 0 ELSE logins) + l
    /\ entered' = (IF profile = None THEN {} ELSE entered) \cup e
updateSection(c, section) ==
    /\ Begin(c, "section", section, "saved")
    /\ Upsert([Upserted EXCEPT !.sections = @ \cup {section}], 0, {section})
recordLogin(c) ==
    /\ Begin(c, "login", None, "saved")
    /\ Upsert([Upserted EXCEPT !.analytics = TRUE, !.logins = @ + 1], 1, {})
addPreferredFeature(c) ==
    /\ Begin(c, "feature", None, "done")
    /\ Upsert([Upserted EXCEPT !.analytics = TRUE, !.feature = TRUE], 0, {})

(* The average is worked out from what was read, and written to whatever profile *)
(* there is by then.                                                             *)
updateSessionDuration(c, duration) ==
    /\ Begin(c, "session", duration, IF profile = None THEN "done" ELSE IF profile.analytics THEN "found" ELSE "done")
    /\ UNCHANGED <<profile, made, logins, entered>>
Average(c) ==
    LET read == call[c].read  n == IF read.logins = 0 THEN 1 ELSE read.logins IN
    (read.average * (n - 1) + call[c].arg) \div n
WriteAverage(c) ==
    /\ At(c, "found", "session") /\ Go(c, "done")
    /\ profile' = IF profile = None THEN None ELSE [profile EXCEPT !.analytics = TRUE, !.average = Average(c)]
    /\ UNCHANGED <<made, logins, entered>>

deleteProfile(c) ==
    /\ Begin(c, "delete", None, "saved")
    /\ profile' = None
    /\ UNCHANGED <<made, logins, entered>>
exportProfile(c) ==
    /\ Begin(c, "export", None, IF profile = None THEN "thrown" ELSE "saved")
    /\ UNCHANGED <<profile, made, logins, entered>>

logAction(c) == call[c].at = "saved" /\ Go(c, "done") /\ UNCHANGED <<profile, made, logins, entered>>
Crash(c) == call[c].at \in {"found", "saved"} /\ Go(c, "crashed") /\ UNCHANGED <<profile, made, logins, entered>>

Next == \E c \in Calls :
    \/ getProfile(c) \/ createDefaultProfile(c)
    \/ \E section \in Sections : updateProfile(c, section) \/ updateSection(c, section)
    \/ Save(c) \/ recordLogin(c) \/ addPreferredFeature(c)
    \/ \E d \in Durations : updateSessionDuration(c, d)
    \/ WriteAverage(c) \/ deleteProfile(c) \/ exportProfile(c)
    \/ logAction(c) \/ Crash(c)

Spec == Init /\ [][Next]_vars

-----------------------------------------------------------------------------
TypeOK ==
    /\ profile # None => profile.id \in 1..made /\ profile.sections \subseteq Sections
    /\ \A c \in Calls : call[c].read # None => call[c].read.id \in 1..made

(* Every login recorded since the profile was made is counted and every section  *)
(* written since then is there, whatever was read before and saved after; the    *)
(* average lies among the lengths of sessions, even of a profile made since.     *)
LoginsAreCounted == profile # None =>
    /\ profile.logins = logins /\ profile.sections = entered
    /\ profile.average >= 0 /\ \E d \in Durations \cup {0} : profile.average <= d
    /\ profile.logins > 0 => profile.analytics
=============================================================================
