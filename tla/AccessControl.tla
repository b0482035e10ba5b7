--------------------------- MODULE AccessControl ---------------------------
(***************************************************************************)
(* Users, roles and permissions: the three admin services and the          *)
(* authentication service, over one Mongo database without transactions.   *)
(* A method is a sequence of blocks.  A block is the sequence of awaits    *)
(* one try statement guards: a refusal or an error drops what is left of   *)
(* the block, and the loops of the bulk methods go on with the next one.   *)
(* Requests overlap between any two awaits.                                *)
(***************************************************************************)
EXTENDS Integers, Sequences, FiniteSets, Functions

CONSTANTS
    Users, Roles, Permissions,  \* the _ids there are, of existing and of future documents
    Keys,                       \* the values of the unique field: email of a user, name otherwise
    Resources, Actions,         \* the values of a permission's resource and action
    Blanks,                     \* the falsy ones among them: '' and null
    Calls,                      \* requests in flight at once
    Initial,                    \* the documents there are to begin with
    MaxRequests,                \* bound on the requests of a behaviour
    None                        \* no document

Ids == Users \cup Roles \cup Permissions
Kinds == {Users, Roles, Permissions}

ASSUME AccessControlAssumption ==
    /\ MaxRequests \in Nat /\ Keys # {}
    /\ Resources \ Blanks # {} /\ Actions \ Blanks # {}
    /\ Users \cap Roles = {} /\ Users \cap Permissions = {} /\ Roles \cap Permissions = {}

VARIABLES
    docs,     \* the document under each _id
    log,      \* the audit log: what was done, to which _id
    call,     \* the blocks each request has left
    made,     \* requests so far
    born,     \* history: the _ids ever inserted
    loose,    \* history: references whose target was not there, or past the count of its delete
    raced,    \* history: permissions put on a pair in use by a request that had found its pair free, or had none to look up
    unlogged, \* history: removals whose log entry was lost
    cleaned,  \* history: permissions the clean-up removed, with whether a role held each when it looked
    granted   \* history: who was given tokens or let in, with whether the look-up found the account active

vars == <<docs, log, call, made, born, loose, raced, unlogged, cleaned, granted>>

(* refs: the permissions of a role; the roles and the permissions of a user.    *)
(* A user's role that is a name, as the default 'user' is, refers to no _id.    *)
Docs == [key : Keys, resource : Resources, action : Actions, refs : SUBSET Ids, active : BOOLEAN]
Doc(key, resource, action, refs) ==
    [key |-> key, resource |-> resource, action |-> action, refs |-> refs, active |-> TRUE]
OnePair(p, q) == p.resource = q.resource /\ p.action = q.action
Stored == {i \in Ids : docs[i] # None}

(* A role refers to permissions, a user to roles and permissions.  What there is to *)
(* begin with refers to what is there, and its permissions are of distinct pairs.   *)
References(i) == IF i \in Users THEN Roles \cup Permissions ELSE IF i \in Roles THEN Permissions ELSE {}
ASSUME InitialAssumption ==
    /\ None \notin Docs /\ DOMAIN Initial \subseteq Ids
    /\ \A i \in DOMAIN Initial : Initial[i] \in Docs /\ Initial[i].refs \subseteq References(i) \cap DOMAIN Initial
    /\ \A p, q \in Permissions \cap DOMAIN Initial : p # q => ~OnePair(Initial[p], Initial[q])

(* set: fields that get a value; add, drop: $addToSet and $pull; needs: what    *)
(* the block looks up by _id; seen: the permissions it found; clear: a look-up   *)
(* found no rival, or the account active.                                       *)
Block(steps, ids, what) ==
    [steps |-> steps, ids |-> ids, needs |-> ids, what |-> what, set |-> [f \in {} |-> 0],
     add |-> {}, drop |-> {}, seen |-> {}, complete |-> TRUE, clear |-> FALSE]
Setting(steps, ids, set) == [Block(steps, ids, "updated") EXCEPT !.set = set]
Making(steps, i, doc, complete) ==
    [Block(steps, {i}, "created") EXCEPT !.set = doc, !.complete = complete]
Changed(doc, b) ==
    LET new == [f \in DOMAIN doc |-> IF f \in DOMAIN b.set THEN b.set[f] ELSE doc[f]]
    IN  [new EXCEPT !.refs = (@ \cup b.add) \ b.drop]

-----------------------------------------------------------------------------
(* Deletions that do not count, count the wrong side, or log before they remove;  *)
(* requests that do not look for a rival; a refresh that finds any account.       *)
Bug_NoLookUp(i, set) == <<Setting(<<"find", "write", "log">>, {i}, set)>>
Bug_NotCounted(i) == <<Block(<<"find", "remove", "log">>, {i}, "deleted")>>
Bug_AnyRival(l) == [n \in DOMAIN l |-> Making(<<"save", "log">>, l[n].id, l[n].doc, TRUE)]
Bug_LoggedFirst(S) == <<Block(<<"unheld", "log", "remove">>, S, "deleted")>>
Bug_AnyAccount(i) == <<Block(<<"find", "grant">>, {i}, "read")>>
Bug_LastBlock(c, b, ok) == call' = [call EXCEPT ![c] = IF ok THEN <<[b EXCEPT !.steps = Tail(@)]>> \o Tail(@) ELSE Tail(@)]

(* The methods of roles.service.ts.  A role and a permission need a displayName *)
(* that no DTO admits and no method sets: what one request makes alone is never *)
(* complete, an element of a bulk or an import may be.                          *)
getRoleById(i) == <<Block(<<"find">>, {i}, "read")>>
getRolePermissions(i) == <<Block(<<"find">>, {i}, "read")>>
getRoleUsers(i) == <<Block(<<"find">>, {i}, "read")>>
createRole(i, doc) == <<Making(<<"absent", "save", "log">>, i, doc, FALSE)>>
updateRole(i, set) == <<Setting(<<"find", "absent", "write", "log">>, {i}, set)>>
assignPermissions(i, ps) == <<Setting(<<"find", "exist", "write", "log">>, {i}, [refs |-> ps])>>
removePermission(i, p) == <<[Block(<<"find", "write", "log">>, {i}, "updated") EXCEPT !.drop = {p}]>>
activateRole(i) == <<Setting(<<"put", "log">>, {i}, [active |-> TRUE])>>
deactivateRole(i) == <<Setting(<<"put", "log">>, {i}, [active |-> FALSE])>>
deleteRole(i) == <<Block(<<"find", "unheld", "remove", "log">>, {i}, "deleted")>>
bulkCreateRoles(new) ==
    [n \in DOMAIN new |-> Making(<<"absent", "save", "log">>, new[n].id, new[n].doc, TRUE)]
bulkUpdateRoles(S, set) == <<Setting(<<"writeAll", "log">>, S, set)>>
bulkDeleteRoles(S) == <<Block(<<"unheld", "remove", "log">>, S, "deleted")>>
bulkActivateRoles(S) == <<Setting(<<"writeAll", "log">>, S, [active |-> TRUE])>>
bulkDeactivateRoles(S) == <<Setting(<<"writeAll", "log">>, S, [active |-> FALSE])>>
cloneRole(i, new, doc) ==
    <<[Making(<<"find", "absent", "save", "log">>, new, doc, FALSE) EXCEPT !.needs = {i}]>>
exportRoles == <<Block(<<"log">>, {}, "read")>>
importRoles(new) == [n \in DOMAIN new |-> Making(<<"absent", "save", "log">>, new[n].id, new[n].doc, TRUE)]
validateRole(i) == <<Block(<<"find", "log">>, {i}, "read")>>

(* The methods of permissions.service.ts. *)
createPermission(i, doc) == <<Making(<<"absent", "save", "log">>, i, doc, FALSE)>>
Given(set, f) == f \in DOMAIN set /\ set[f] \notin Blanks
Asks(set) == Given(set, "resource") \/ Given(set, "action")
updatePermission(i, set) ==
    <<Setting(IF Asks(set) THEN <<"find", "absent", "write", "log">> ELSE <<"find", "write", "log">>, {i}, set)>>
deletePermission(i) == <<Block(<<"find", "unheld", "remove", "log">>, {i}, "deleted")>>
bulkCreatePermissions(new) ==
    [n \in DOMAIN new |-> Making(<<"absent", "save", "log">>, new[n].id, new[n].doc, TRUE)]
bulkUpdatePermissions(S, set) == <<Setting(<<"writeAll", "log">>, S, set)>>
bulkDeletePermissions(S) == <<Block(<<"unheld", "remove", "log">>, S, "deleted")>>
(* None of the system's permissions has a displayName: every save is refused.   *)
syncSystemPermissions(new) ==
    [n \in DOMAIN new |-> Making(<<"absent", "save">>, new[n].id, new[n].doc, FALSE)]
        \o <<Block(<<"log">>, {}, "read")>>
clonePermission(i, new, doc) ==
    <<[Making(<<"find", "save", "log">>, new, doc, FALSE) EXCEPT !.needs = {i}]>>
exportPermissions == <<Block(<<"log">>, {}, "read")>>
importPermissions(new) ==
    [n \in DOMAIN new |-> Making(<<"absent", "save", "log">>, new[n].id, new[n].doc, TRUE)]
validatePermission(i) == <<Block(<<"find", "log">>, {i}, "read")>>
validatePermissionMatrix == <<Block(<<"log">>, {}, "read")>>
generatePermissionMatrix == <<Block(<<"log">>, {}, "read")>>
cleanupOrphanedPermissions == <<Block(<<"collect", "remove", "log">>, {}, "deleted")>>

(* The methods of users.service.ts.  The password, the second factor and the    *)
(* lock are not told apart: a method that changes only those sets nothing.      *)
create(i, doc) == <<Making(<<"absent", "save", "log">>, i, doc, TRUE)>>
update(i, set) == <<Setting(<<"find", "write", "log">>, {i}, set)>>
delete(i) == <<Block(<<"find", "remove", "log">>, {i}, "deleted")>>
activate(i) == <<Setting(<<"put", "log">>, {i}, [active |-> TRUE])>>
deactivate(i) == <<Setting(<<"put", "log">>, {i}, [active |-> FALSE])>>
resetPassword(i) == <<Block(<<"find", "write", "log">>, {i}, "updated")>>
unlockAccount(i) == <<Block(<<"put", "log">>, {i}, "updated")>>
terminateSession(i) == <<Block(<<"log">>, {i}, "updated")>>
assignRoles(i, rs) == <<[Block(<<"put", "log">>, {i}, "updated") EXCEPT !.add = rs]>>
removeRole(i, r) == <<[Block(<<"put", "log">>, {i}, "updated") EXCEPT !.drop = {r}]>>
grantPermissions(i, ps) == <<[Block(<<"put", "log">>, {i}, "updated") EXCEPT !.add = ps]>>
revokePermission(i, p) == <<[Block(<<"put", "log">>, {i}, "updated") EXCEPT !.drop = {p}]>>
enableTwoFactor(i) == <<Block(<<"put", "log">>, {i}, "updated")>>
disableTwoFactor(i) == <<Block(<<"put", "log">>, {i}, "updated")>>
bulkAction(calls) ==
    [n \in DOMAIN calls |-> Head(calls[n])] \o <<Block(<<"log">>, {}, "read")>>
exportUsers == <<Block(<<"log">>, {}, "read")>>
importUsers(new) ==
    [n \in DOMAIN new |-> Head(create(new[n].id, new[n].doc))] \o <<Block(<<"log">>, {}, "read")>>

(* The methods of auth.service.ts.  lastLogin, lastLogout and the reset token   *)
(* are not in the schema: writing them changes nothing, and the query for the   *)
(* holder of a reset token matches no document.                                 *)
register(i, doc) == <<Making(<<"absent", "save", "grant">>, i, doc, TRUE)>>
login(i) == <<Block(<<"lookup", "write", "grant">>, {i}, "read")>>
refreshToken(i) == <<Block(<<"lookup", "grant">>, {i}, "read")>>
logout(i) == <<Block(<<"write">>, {i}, "read")>>
validateUser(i) == <<Block(<<"lookup", "grant">>, {i}, "read")>>
forgotPassword(i) == <<Block(<<"find", "write">>, {i}, "read")>>
redeemResetToken(i) == <<Block(<<"match", "write">>, {i}, "updated")>>

-----------------------------------------------------------------------------
(* What a request may ask, of documents that were inserted once.  A new document *)
(* has an _id of its own.                                                        *)
Fresh(K) == K \ (born \cup UNION {UNION {b.ids : b \in Range(call[c])} : c \in Calls})
Some(K, S) == IF K = Permissions THEN S \ Blanks ELSE {CHOOSE x \in S \ Blanks : TRUE}
NewDocs(K, L) ==
    {[id |-> i, doc |-> Doc(k, x, a, R)] :
        i \in Fresh(K), k \in Keys, x \in Some(K, Resources), a \in Some(K, Actions),
        R \in {{}} \cup {{y} : y \in L \cap born}}
NewLists(K, L) == {<<n>> : n \in NewDocs(K, L)}
    \cup {l \in NewDocs(K, {}) \X NewDocs(K, {}) : l[1].id # l[2].id}
SomeOf(K) == {S \in SUBSET (K \cap born) : S # {}}
Known(K) == K \cap born

RoleRequests ==
    {getRoleById(i) : i \in Known(Roles)} \cup {getRolePermissions(i) : i \in Known(Roles)}
        \cup {getRoleUsers(i) : i \in Known(Roles)}
        \cup {createRole(n.id, n.doc) : n \in NewDocs(Roles, Permissions)}
        \cup {updateRole(i, [key |-> k]) : i \in Known(Roles), k \in Keys}
        \cup {updateRole(i, [refs |-> S]) : i \in Known(Roles), S \in SUBSET Known(Permissions)}
        \cup {assignPermissions(i, S) : i \in Known(Roles), S \in SUBSET Known(Permissions)}
        \cup {removePermission(i, p) : i \in Known(Roles), p \in Known(Permissions)}
        \cup {activateRole(i) : i \in Known(Roles)} \cup {deactivateRole(i) : i \in Known(Roles)}
        \cup {deleteRole(i) : i \in Known(Roles)} \cup {bulkDeleteRoles(S) : S \in SomeOf(Roles)}
        \cup {bulkCreateRoles(l) : l \in NewLists(Roles, Permissions)}
        \cup {importRoles(l) : l \in NewLists(Roles, {})}
        \cup {bulkUpdateRoles(S, [key |-> k]) : S \in SomeOf(Roles), k \in Keys}
        \cup {bulkActivateRoles(S) : S \in SomeOf(Roles)}
        \cup {bulkDeactivateRoles(S) : S \in SomeOf(Roles)}
        \cup {cloneRole(i, n.id, n.doc) : i \in Known(Roles), n \in NewDocs(Roles, {})}
        \cup {validateRole(i) : i \in Known(Roles)} \cup {exportRoles}

(* An update gives a resource, an action or both.                                 *)
PairSets ==
    {[resource |-> x] : x \in Resources} \cup {[action |-> a] : a \in Actions}
        \cup {[resource |-> x, action |-> a] : x \in Resources, a \in Actions}

PermissionRequests ==
    {createPermission(n.id, n.doc) : n \in NewDocs(Permissions, {})}
        \cup {updatePermission(i, set) : i \in Known(Permissions), set \in PairSets}
        \cup {updatePermission(i, [key |-> k]) : i \in Known(Permissions), k \in Keys}
        \cup {deletePermission(i) : i \in Known(Permissions)}
        \cup {bulkCreatePermissions(l) : l \in NewLists(Permissions, {})}
        \cup {importPermissions(l) : l \in NewLists(Permissions, {})}
        \cup {bulkUpdatePermissions(S, set) : S \in SomeOf(Permissions), set \in PairSets}
        \cup {bulkDeletePermissions(S) : S \in SomeOf(Permissions)}
        \cup {syncSystemPermissions(l) : l \in NewLists(Permissions, {})}
        \cup {clonePermission(i, n.id, n.doc) : i \in Known(Permissions), n \in NewDocs(Permissions, {})}
        \cup {validatePermission(i) : i \in Known(Permissions)}
        \cup {exportPermissions, validatePermissionMatrix, generatePermissionMatrix,
              cleanupOrphanedPermissions}

UserRequests ==
    {create(n.id, n.doc) : n \in NewDocs(Users, Roles)}
        \cup {update(i, [key |-> k]) : i \in Known(Users), k \in Keys}
        \cup {update(i, [refs |-> S]) : i \in Known(Users), S \in SUBSET Known(Roles)}
        \cup (UNION {{delete(i), activate(i), deactivate(i), resetPassword(i), unlockAccount(i),
                      terminateSession(i), enableTwoFactor(i), disableTwoFactor(i)} : i \in Known(Users)})
        \cup {assignRoles(i, S) : i \in Known(Users), S \in SomeOf(Roles)}
        \cup {removeRole(i, r) : i \in Known(Users), r \in Known(Roles)}
        \cup {grantPermissions(i, S) : i \in Known(Users), S \in SomeOf(Permissions)}
        \cup {revokePermission(i, p) : i \in Known(Users), p \in Known(Permissions)}
        \cup (UNION {{bulkAction(<<activate(i), activate(j)>>), bulkAction(<<deactivate(i), deactivate(j)>>),
                      bulkAction(<<delete(i), delete(j)>>),
                      bulkAction(<<resetPassword(i), resetPassword(j)>>)} : i, j \in Known(Users)})
        \cup {bulkAction(<<assignRoles(i, S), assignRoles(j, S)>>) :
                  i, j \in Known(Users), S \in SomeOf(Roles)}
        \cup {importUsers(l) : l \in NewLists(Users, Roles)} \cup {exportUsers}

AuthRequests ==
    {register(n.id, n.doc) : n \in NewDocs(Users, {})}
        \cup (UNION {{login(i), logout(i), forgotPassword(i), redeemResetToken(i)} : i \in Known(Users)})
        \cup (UNION {{refreshToken(g[1]), validateUser(g[1])} : g \in granted})

Begin(c) ==
    /\ call[c] = <<>> /\ made < MaxRequests /\ made' = made + 1
    /\ \E r \in RoleRequests \cup PermissionRequests \cup UserRequests \cup AuthRequests :
           call' = [call EXCEPT ![c] = r]
    /\ UNCHANGED <<docs, log, born, loose, raced, unlogged, cleaned, granted>>

Running(c, b, step) == call[c] # <<>> /\ b = Head(call[c]) /\ Head(b.steps) = step

(* The block b goes on after its step, or what is left of it is dropped. *)
Resume(c, b, ok) ==
    LET rest == [b EXCEPT !.steps = Tail(@)]
    IN  call' = [call EXCEPT ![c] =
                    IF ok /\ rest.steps # <<>> THEN <<rest>> \o Tail(@) ELSE Tail(@)]

-----------------------------------------------------------------------------
(* Steps that read. *)
Holders(S) == {h \in Stored : docs[h].refs \cap S # {} /\
                   \/ h \in Users /\ S \subseteq Roles
                   \/ h \in Roles /\ S \subseteq Permissions}

SameKind(i, j) == \E K \in Kinds : {i, j} \subseteq K
(* A role or a user clashes by its key.  For a permission the pair looked up is   *)
(* what is given, else what was found.                                            *)
Sought(b, f) == IF Given(b.set, f) THEN {b.set[f]} ELSE {p[f] : p \in b.seen}
Clashes(b, i) == \E j \in Stored \ b.ids :
    \/ /\ {i, j} \subseteq Permissions
       /\ docs[j].resource \in Sought(b, "resource") /\ docs[j].action \in Sought(b, "action")
    \/ /\ i \notin Permissions /\ SameKind(i, j)
       /\ "key" \in DOMAIN b.set /\ docs[j].key = b.set.key

(* The block goes on if what it asks holds, and is dropped otherwise.            *)
Ask(c, step, ok(_)) == \E b \in Range(call[c]) :
    /\ Running(c, b, step) /\ Resume(c, b, ok(b))
    /\ UNCHANGED <<docs, log, made, born, loose, raced, unlogged, cleaned, granted>>
(* The same, of a look-up whose good outcome the block remembers.                *)
Look(c, step, ok(_)) == \E b \in Range(call[c]) :
    /\ Running(c, b, step) /\ Resume(c, [b EXCEPT !.clear = ok(b)], ok(b))
    /\ UNCHANGED <<docs, log, made, born, loose, raced, unlogged, cleaned, granted>>

Find(c) == \E b \in Range(call[c]) :
    /\ Running(c, b, "find")
    /\ Resume(c, [b EXCEPT !.seen = {docs[i] : i \in b.needs \cap Permissions}], b.needs \subseteq Stored)
    /\ UNCHANGED <<docs, log, made, born, loose, raced, unlogged, cleaned, granted>>
Exist(c) == Ask(c, "exist", LAMBDA b : b.set.refs \subseteq Stored)
Unheld(c) == Ask(c, "unheld", LAMBDA b : Holders(b.ids) = {})
Match(c) == Ask(c, "match", LAMBDA b : FALSE)
Absent(c) == Look(c, "absent", LAMBDA b : \A i \in b.ids : ~Clashes(b, i))
Lookup(c) == Look(c, "lookup", LAMBDA b : \A i \in b.ids : i \in Stored /\ docs[i].active)

(* The aggregation joins _id, an ObjectId, with the strings a role keeps: no role *)
(* matches, and every permission comes out as an orphan.                          *)
AsStrings(refs) == {<<"string", p>> : p \in refs}
Orphans == {p \in Permissions \cap Stored : \A r \in Roles \cap Stored : p \notin AsStrings(docs[r].refs)}
Collect(c) == \E b \in Range(call[c]) :
    /\ Running(c, b, "collect") /\ Resume(c, [b EXCEPT !.ids = Orphans], TRUE)
    /\ cleaned' = cleaned \cup {<<p, Holders({p}) # {}>> : p \in Orphans}
    /\ UNCHANGED <<docs, log, made, born, loose, raced, unlogged, granted>>

-----------------------------------------------------------------------------
(* Steps that write.  The unique index refuses a second value of a key.          *)
Unique(d) == \A i, j \in Ids : (i # j /\ SameKind(i, j) /\ None \notin {d[i], d[j]}) => d[i].key # d[j].key
With(b, D) == [i \in Ids |-> IF i \in D THEN Changed(docs[i], b) ELSE docs[i]]
Doomed == UNION {UNION {b.ids : b \in {b \in Range(call[c]) : Running(c, b, "remove")}} : c \in Calls}

Refs(d, i) == IF d[i] = None THEN {} ELSE d[i].refs
Rivals(d, i) == {j \in Permissions \ {i} : None \notin {d[i], d[j]} /\ OnePair(d[i], d[j])}
Put(b, new) ==
    /\ docs' = new
    /\ loose' = loose \cup UNION {{<<i, y>> : y \in {y \in Refs(new, i) \ Refs(docs, i) :
                                        new[y] = None \/ y \in Doomed}} : i \in b.ids}
    /\ raced' = raced \cup {i \in b.ids \cap Permissions :
            /\ Rivals(new, i) \ Rivals(docs, i) # {}
            /\ b.clear \/ Head(b.steps) = "writeAll" \/ ~Asks(b.set)}

Save(c) == \E b \in Range(call[c]), i \in Ids :
    LET new == [docs EXCEPT ![i] = b.set]
    IN  /\ Running(c, b, "save") /\ i \in b.ids
        /\ Resume(c, b, b.complete /\ Unique(new))
        /\ IF b.complete /\ Unique(new)
           THEN Put(b, new) /\ born' = born \cup {i}
           ELSE UNCHANGED <<docs, born, loose, raced>>
        /\ UNCHANGED <<log, made, unlogged, cleaned, granted>>

(* findByIdAndUpdate: a document that has gone is answered with null, which a     *)
(* method that looked it up before ignores, and one that did not refuses.         *)
Write(c, step) == \E b \in Range(call[c]) :
    LET new == With(b, b.ids \cap Stored)
    IN  /\ Running(c, b, step)
        /\ Resume(c, b, Unique(new) /\ (step = "put" => b.ids \subseteq Stored))
        /\ IF Unique(new) THEN Put(b, new) ELSE UNCHANGED <<docs, loose, raced>>
        /\ UNCHANGED <<log, made, born, unlogged, cleaned, granted>>

(* updateMany stops at the first document the index refuses: those before it stay *)
(* changed, and nothing is logged.                                                *)
WriteAll(c) == \E b \in Range(call[c]), D \in SUBSET Ids :
    LET all == b.ids \cap Stored
    IN  /\ Running(c, b, "writeAll") /\ D \subseteq all /\ Unique(With(b, D))
        /\ D # all => \E i \in all \ D : ~Unique(With(b, D \cup {i}))
        /\ Resume(c, b, D = all) /\ Put(b, With(b, D))
        /\ UNCHANGED <<log, made, born, unlogged, cleaned, granted>>

Remove(c) == \E b \in Range(call[c]) :
    /\ Running(c, b, "remove") /\ Resume(c, b, TRUE)
    /\ docs' = [i \in Ids |-> IF i \in b.ids THEN None ELSE docs[i]]
    /\ UNCHANGED <<log, made, born, loose, raced, unlogged, cleaned, granted>>

(* An entry that cannot be stored is an error logAction swallows.                 *)
Log(c) == \E b \in Range(call[c]), kept \in BOOLEAN :
    LET entries == {<<b.what, i>> : i \in b.ids}
    IN  /\ Running(c, b, "log") /\ Resume(c, b, TRUE)
        /\ log' = IF kept THEN log \cup entries ELSE log
        /\ unlogged' = IF kept THEN unlogged ELSE unlogged \cup entries
        /\ UNCHANGED <<docs, made, born, loose, raced, cleaned, granted>>

Grant(c) == \E b \in Range(call[c]) :
    /\ Running(c, b, "grant") /\ Resume(c, b, TRUE)
    /\ granted' = granted \cup {<<i, b.clear>> : i \in b.ids}
    /\ UNCHANGED <<docs, log, made, born, loose, raced, unlogged, cleaned>>

(* A query fails, or only its answer is lost; or the process dies, and every      *)
(* request with it.  A removal whose answer is lost is never logged.              *)
Owed(S) == {<<"deleted", i>> : i \in UNION {b.ids : b \in {b \in S : b.what = "deleted" /\ Head(b.steps) = "log"}}}
Interrupt(c) ==
    /\ call[c] # <<>> /\ Resume(c, Head(call[c]), FALSE)
    /\ unlogged' = unlogged \cup Owed({Head(call[c])})
    /\ UNCHANGED <<docs, log, made, born, loose, raced, cleaned, granted>>
Crash ==
    /\ \E c \in Calls : call[c] # <<>>
    /\ call' = [c \in Calls |-> <<>>]
    /\ unlogged' = unlogged \cup Owed({Head(call[c]) : c \in {d \in Calls : call[d] # <<>>}})
    /\ UNCHANGED <<docs, log, made, born, loose, raced, cleaned, granted>>

Next ==
    \/ \E c \in Calls :
        \/ Begin(c) \/ Find(c) \/ Exist(c) \/ Unheld(c) \/ Match(c) \/ Absent(c) \/ Lookup(c)
        \/ Collect(c) \/ Save(c) \/ Write(c, "write") \/ Write(c, "put") \/ WriteAll(c)
        \/ Remove(c) \/ Log(c) \/ Grant(c) \/ Interrupt(c)
    \/ Crash

Init ==
    /\ docs = [i \in Ids |-> IF i \in DOMAIN Initial THEN Initial[i] ELSE None]
    /\ log = {} /\ made = 0 /\ loose = {} /\ raced = {} /\ unlogged = {} /\ cleaned = {} /\ granted = {}
    /\ call = [c \in Calls |-> <<>>] /\ born = DOMAIN Initial

Spec == Init /\ [][Next]_vars

-----------------------------------------------------------------------------
(* Documents, log and requests have their shapes; a request's block is never     *)
(* kept once its steps are done.                                                 *)
Entries == {"created", "updated", "deleted", "read"} \X Ids
TypeOK ==
    /\ docs \in [Ids -> Docs \cup {None}] /\ Stored \subseteq born /\ born \subseteq Ids
    /\ log \subseteq Entries /\ unlogged \subseteq Entries /\ loose \subseteq Ids \X Ids
    /\ raced \subseteq Permissions /\ granted \subseteq Users \X BOOLEAN
    /\ made \in 0..MaxRequests /\ cleaned \subseteq Permissions \X BOOLEAN
    /\ \A c \in Calls : \A b \in Range(call[c]) : b.steps # <<>> /\ b.ids \subseteq Ids

(* A role does not disappear from under its users, nor a permission from under   *)
(* its roles: one that is held and missing was given while it was not there, or  *)
(* after the deletion had counted its holders, or went with the clean-up of      *)
(* orphans.  (Deleting a permission does not count the users it is granted to.)  *)
HeldExists == \A h \in Stored, y \in Ids \ Stored :
    y \in docs[h].refs =>
        \/ <<h, y>> \in loose
        \/ \E held \in BOOLEAN : <<y, held>> \in cleaned
        \/ h \in Users /\ y \in Permissions

(* Nothing but the services keeps two permissions off one resource and action.   *)
(* Where there are two, one was put there by a bulk update; by an update that     *)
(* gave only blanks; or by a request that had found free the pair it looked up,   *)
(* which was taken since, or is another than it wrote: a field was given blank,   *)
(* or changed after it was found.                                                 *)
PairsAreDistinct == \A p, q \in Permissions \cap Stored :
    (p # q /\ OnePair(docs[p], docs[q])) => {p, q} \cap raced # {}

(* Every removal is in the audit log once its request is past it, unless the log *)
(* refused the entry or the answer was lost; and what the log says is gone, is.  *)
RemovalsAreLogged ==
    /\ \A i \in born \ Stored : <<"deleted", i>> \in log \cup unlogged \cup
           UNION {Owed(IF call[c] = <<>> THEN {} ELSE {Head(call[c])}) : c \in Calls}
    /\ \A i \in Ids : <<"deleted", i>> \in log => i \notin Stored

(* Nobody gets tokens, or is let in with them, who was not an active account     *)
(* when the service looked, or registered just now.                              *)
GrantedWereActive == \A g \in granted : g[2]

(* permissions.service.ts:258 "Cannot delete permission that is assigned to      *)
(* roles": the clean-up of orphans takes no permission a role holds.             *)
NothingHeldIsCleaned == \A e \in cleaned : ~e[2]
=============================================================================
