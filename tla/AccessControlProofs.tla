------------------------ MODULE AccessControlProofs ------------------------
(***************************************************************************)
(* AccessControl, proved for any users, roles, permissions, resources and  *)
(* actions, any number of requests in flight, and any documents there are  *)
(* to begin with that refer only to each other.                            *)
(***************************************************************************)
EXTENDS AccessControl, TLAPS

Fields == {"key", "resource", "action", "refs", "active"}
(* What a block sets is part of some document. *)
Patches == {[f \in F |-> d[f]] : d \in Docs, F \in SUBSET Fields}
Awaits == {"find", "exist", "unheld", "match", "absent", "lookup", "collect", "save", "write", "put",
           "writeAll", "remove", "log", "grant"}
Kept == {"created", "updated", "deleted", "read"}
AnyBlock == [steps : Seq(Awaits), ids : SUBSET Ids, needs : SUBSET Ids, what : Kept, set : Patches,
             add : SUBSET Ids, drop : SUBSET Ids, seen : SUBSET (Docs \cup {None}),
             complete : BOOLEAN, clear : BOOLEAN]

(* What is left of a block that deletes, creates, updates or reads, and what its  *)
(* steps so far have settled.                                                     *)
Counting == {<<"find", "unheld", "remove", "log">>, <<"unheld", "remove", "log">>}
Deletes(b) ==
    \/ b.steps \in Counting /\ (b.ids \subseteq Roles \/ b.ids \subseteq Permissions)
    \/ b.steps = <<"find", "remove", "log">> /\ b.ids \subseteq Users
    \/ b.steps \in {<<"collect", "remove", "log">>, <<"remove", "log">>, <<"log">>}

Unchecked == {<<"find", "save", "log">>, <<"save", "log">>, <<"save">>}
Sheltered == {<<"find", "absent", "save", "log">>, <<"absent", "save", "log">>, <<"absent", "save">>}
Registers == {<<"absent", "save", "grant">>, <<"save", "grant">>}
Saving(b) == b.what = "created" /\ b.steps \in Unchecked \cup Sheltered \cup Registers
Creates(b) ==
    /\ \/ b.steps \in Sheltered \cup {<<"log">>}
       \/ b.steps \in Unchecked /\ (b.complete /\ b.ids \cap Permissions # {} => b.clear)
       \/ b.steps \in Registers /\ b.ids \subseteq Users /\ (b.steps = <<"save", "grant">> => b.clear)
       \/ b.steps = <<"grant">> /\ b.ids \subseteq Users /\ b.clear
    /\ \E i \in Ids : b.ids = {i}
    /\ b.set \in Docs

Writes == {<<"find", "exist", "write", "log">>, <<"exist", "write", "log">>, <<"find", "write", "log">>,
           <<"write", "log">>, <<"put", "log">>, <<"match", "write">>, <<"write">>}
Updates(b) ==
    \/ b.steps \in {<<"find", "absent", "write", "log">>, <<"absent", "write", "log">>,
                    <<"writeAll", "log">>, <<"log">>}
    \/ b.steps \in Writes /\ (b.clear \/ ~Asks(b.set))

Admits == {<<"lookup", "write", "grant">>, <<"write", "grant">>, <<"lookup", "grant">>, <<"grant">>}
Reads(b) ==
    /\ \/ b.steps \in {<<"find">>, <<"find", "log">>, <<"log">>, <<"write">>, <<"find", "write">>}
       \/ /\ b.steps \in Admits /\ b.ids \subseteq Users
          /\ b.steps \in {<<"write", "grant">>, <<"grant">>} => b.clear
    /\ DOMAIN b.set = {} /\ b.add = {}

Fits(b) == b.what # "deleted" => \A i \in b.ids :
    b.add \subseteq References(i) /\ ("refs" \in DOMAIN b.set => b.set.refs \subseteq References(i))

Plan(b) ==
    /\ b \in AnyBlock /\ Fits(b)
    /\ \/ b.what = "deleted" /\ Deletes(b)
       \/ b.what = "created" /\ Creates(b)
       \/ b.what = "updated" /\ Updates(b)
       \/ b.what = "read" /\ Reads(b)

(* Who may hold what is missing: D stands for the documents, L for the loose      *)
(* references, C for what the clean-up removed.                                   *)
Present(D) == {i \in Ids : D[i] # None}
Excused(h, y, L, C) ==
    <<h, y>> \in L \/ (\E held \in BOOLEAN : <<y, held>> \in C) \/ (h \in Users /\ y \in Permissions)
Covered(S, D, L, C) == \A h \in Present(D), y \in S : y \in D[h].refs => Excused(h, y, L, C)

(* A block follows its plan; what it is to save is not there yet, what it deletes *)
(* was; once it counted, nobody holds what it is to remove; what it logs is gone. *)
Good(b, D, B, L, C) ==
    /\ Plan(b)
    /\ Saving(b) => b.ids \cap B = {}
    /\ b.what = "deleted" => b.ids \subseteq B
    /\ b.what = "deleted" /\ b.steps = <<"remove", "log">> => Covered(b.ids, D, L, C)
    /\ b.what = "deleted" /\ b.steps = <<"log">> => b.ids \cap Present(D) = {}

(* The blocks of all requests are good, no two save the same document, and only   *)
(* the first block of a request can be about to remove.                           *)
Blocks == \A c \in Calls : \A n \in DOMAIN call[c] : Good(call[c][n], docs, born, loose, cleaned)
Apart == \A c, d \in Calls : \A m \in DOMAIN call[c], n \in DOMAIN call[d] :
    (Saving(call[c][m]) /\ Saving(call[d][n]) /\ call[c][m].ids \cap call[d][n].ids # {}) => c = d /\ m = n
InTurn == \A c \in Calls : \A n \in DOMAIN call[c] : n # 1 => call[c][n].steps # <<"remove", "log">>

Typed ==
    /\ docs \in [Ids -> Docs \cup {None}] /\ born \subseteq Ids /\ Present(docs) \subseteq born
    /\ \A i \in Present(docs) : docs[i].refs \subseteq References(i)
    /\ log \subseteq Entries /\ unlogged \subseteq Entries /\ loose \subseteq Ids \X Ids
    /\ raced \subseteq Permissions /\ granted \subseteq Users \X BOOLEAN
    /\ made \in 0..MaxRequests /\ cleaned \subseteq Permissions \X BOOLEAN
    /\ call \in [Calls -> Seq(AnyBlock)]

LogIsTrue == \A i \in Ids : <<"deleted", i>> \in log => i \in born \ Present(docs)
Owing(c, i) == /\ call[c] # <<>> /\ Head(call[c]).what = "deleted" /\ Head(Head(call[c]).steps) = "log"
               /\ i \in Head(call[c]).ids
Accounted == \A i \in born \ Present(docs) :
    <<"deleted", i>> \in log \cup unlogged \/ \E c \in Calls : Owing(c, i)

AccessInv ==
    /\ Typed /\ Blocks /\ Apart /\ InTurn /\ LogIsTrue /\ Accounted
    /\ Covered(Ids \ Present(docs), docs, loose, cleaned)
    /\ PairsAreDistinct /\ GrantedWereActive

-----------------------------------------------------------------------------
(* The blocks a method is made of *)

LEMMA NoneIsNoDocument == None \notin Docs
BY InitialAssumption

LEMMA KindsAreApart == Users \cap Roles = {} /\ Users \cap Permissions = {} /\ Roles \cap Permissions = {}
BY AccessControlAssumption

(* A part of a document is a patch. *)
LEMMA PartIsPatch ==
    ASSUME NEW d \in Docs, NEW F \in SUBSET Fields
    PROVE  [f \in F |-> d[f]] \in Patches
BY DEF Patches

LEMMA SomeDocument ==
    ASSUME NEW k \in Keys, NEW y \in Resources, NEW a \in Actions, NEW S \in SUBSET Ids, NEW x \in BOOLEAN
    PROVE  [key |-> k, resource |-> y, action |-> a, refs |-> S, active |-> x] \in Docs
BY DEF Docs

(* A patch without a resource and an action asks for no look-up. *)
LEMMA NoPairAsksNothing ==
    ASSUME NEW set, "resource" \notin DOMAIN set, "action" \notin DOMAIN set
    PROVE  ~Asks(set)
BY DEF Asks, Given

LEMMA EmptyPatch ==
    [f \in {} |-> 0] \in Patches /\ DOMAIN [f \in {} |-> 0] = {} /\ ~Asks([f \in {} |-> 0])
<1>1. PICK k \in Keys, y \in Resources, a \in Actions : TRUE
  BY AccessControlAssumption
<1> DEFINE d == [key |-> k, resource |-> y, action |-> a, refs |-> {}, active |-> TRUE]
<1>2. d \in Docs
  BY SomeDocument
<1> HIDE DEF d
<1>3. [f \in {} |-> d[f]] \in Patches
  BY <1>2, PartIsPatch
<1>4. [f \in {} |-> d[f]] = [f \in {} |-> 0] /\ DOMAIN [f \in {} |-> 0] = {}
  OBVIOUS
<1> QED BY <1>3, <1>4, NoPairAsksNothing

LEMMA KeyPatch ==
    ASSUME NEW k \in Keys
    PROVE  [key |-> k] \in Patches /\ DOMAIN [key |-> k] = {"key"} /\ ~Asks([key |-> k])
<1>1. PICK y \in Resources, a \in Actions : TRUE
  BY AccessControlAssumption
<1> DEFINE d == [key |-> k, resource |-> y, action |-> a, refs |-> {}, active |-> TRUE]
<1>2. d \in Docs /\ d["key"] = k
  BY SomeDocument
<1> HIDE DEF d
<1>3. [f \in {"key"} |-> d[f]] \in Patches
  BY <1>2, PartIsPatch DEF Fields
<1>4. [f \in {"key"} |-> d[f]] = [key |-> k] /\ DOMAIN [key |-> k] = {"key"}
  BY <1>2
<1> QED BY <1>3, <1>4, NoPairAsksNothing

LEMMA PairPatch == ASSUME NEW set \in PairSets PROVE set \in Patches /\ "refs" \notin DOMAIN set
<1>1. PICK k \in Keys, v \in Resources, w \in Actions : TRUE
  BY AccessControlAssumption
<1>2. ASSUME NEW y \in Resources, NEW a \in Actions
      PROVE  [resource |-> y] \in Patches /\ [action |-> a] \in Patches /\
               [resource |-> y, action |-> a] \in Patches
  <2> DEFINE d == [key |-> k, resource |-> y, action |-> a, refs |-> {}, active |-> TRUE]
  <2>1. d \in Docs /\ d["resource"] = y /\ d["action"] = a
    BY <1>1, SomeDocument
  <2> HIDE DEF d
  <2>2. /\ [f \in {"resource"} |-> d[f]] \in Patches /\ [f \in {"action"} |-> d[f]] \in Patches
        /\ [f \in {"resource", "action"} |-> d[f]] \in Patches
    BY <2>1, PartIsPatch DEF Fields
  <2>3. /\ [f \in {"resource"} |-> d[f]] = [resource |-> y] /\ [f \in {"action"} |-> d[f]] = [action |-> a]
        /\ [f \in {"resource", "action"} |-> d[f]] = [resource |-> y, action |-> a]
    BY <2>1
  <2> QED BY <2>2, <2>3
<1>3. \/ \E y \in Resources : set = [resource |-> y]
      \/ \E a \in Actions : set = [action |-> a]
      \/ \E y \in Resources, a \in Actions : set = [resource |-> y, action |-> a]
  BY DEF PairSets
<1>4. set \in Patches
  BY <1>1, <1>2, <1>3
<1>5. "refs" \notin DOMAIN set
  BY <1>3
<1> QED BY <1>4, <1>5

LEMMA RefsPatch ==
    ASSUME NEW S \in SUBSET Ids
    PROVE  [refs |-> S] \in Patches /\ DOMAIN [refs |-> S] = {"refs"} /\ ~Asks([refs |-> S])
<1>1. PICK k \in Keys, y \in Resources, a \in Actions : TRUE
  BY AccessControlAssumption
<1> DEFINE d == [key |-> k, resource |-> y, action |-> a, refs |-> S, active |-> TRUE]
<1>2. d \in Docs /\ d["refs"] = S
  BY SomeDocument
<1> HIDE DEF d
<1>3. [f \in {"refs"} |-> d[f]] \in Patches
  BY <1>2, PartIsPatch DEF Fields
<1>4. [f \in {"refs"} |-> d[f]] = [refs |-> S] /\ DOMAIN [refs |-> S] = {"refs"}
  BY <1>2
<1> QED BY <1>3, <1>4, NoPairAsksNothing

LEMMA ActivePatch ==
    ASSUME NEW x \in BOOLEAN
    PROVE  [active |-> x] \in Patches /\ DOMAIN [active |-> x] = {"active"} /\ ~Asks([active |-> x])
<1>1. PICK k \in Keys, y \in Resources, a \in Actions : TRUE
  BY AccessControlAssumption
<1> DEFINE d == [key |-> k, resource |-> y, action |-> a, refs |-> {}, active |-> x]
<1>2. d \in Docs /\ d["active"] = x
  BY SomeDocument
<1> HIDE DEF d
<1>3. [f \in {"active"} |-> d[f]] \in Patches
  BY <1>2, PartIsPatch DEF Fields
<1>4. [f \in {"active"} |-> d[f]] = [active |-> x] /\ DOMAIN [active |-> x] = {"active"}
  BY <1>2
<1> QED BY <1>3, <1>4, NoPairAsksNothing

LEMMA DocumentFields == ASSUME NEW d \in Docs PROVE DOMAIN d = Fields
BY DEF Docs, Fields

LEMMA DocumentPatch == ASSUME NEW d \in Docs PROVE d \in Patches
<1>1. DOMAIN d = Fields /\ d = [f \in Fields |-> d[f]]
  BY DEF Docs, Fields
<1> QED BY <1>1, PartIsPatch

(* What setting some fields of a document, and adding and dropping references, gives. *)
LEMMA PatchValues ==
    ASSUME NEW s \in Patches
    PROVE  /\ DOMAIN s \subseteq Fields
           /\ "key" \in DOMAIN s => s["key"] \in Keys
           /\ "resource" \in DOMAIN s => s["resource"] \in Resources
           /\ "action" \in DOMAIN s => s["action"] \in Actions
           /\ "refs" \in DOMAIN s => s["refs"] \in SUBSET Ids
           /\ "active" \in DOMAIN s => s["active"] \in BOOLEAN
<1>1. PICK d \in Docs, F \in SUBSET Fields : s = [f \in F |-> d[f]]
  BY DEF Patches
<1>2. /\ d["key"] \in Keys /\ d["resource"] \in Resources /\ d["action"] \in Actions
      /\ d["refs"] \in SUBSET Ids /\ d["active"] \in BOOLEAN
  BY DEF Docs
<1> QED BY <1>1, <1>2

LEMMA ChangedIs ==
    ASSUME NEW d \in Docs, NEW b \in AnyBlock
    PROVE  /\ Changed(d, b) \in Docs
           /\ Changed(d, b).refs \subseteq (IF "refs" \in DOMAIN b.set THEN b.set.refs ELSE d.refs) \cup b.add
<1> DEFINE new == [f \in DOMAIN d |-> IF f \in DOMAIN b.set THEN b.set[f] ELSE d[f]]
<1>1. b.set \in Patches /\ b.add \in SUBSET Ids /\ b.drop \in SUBSET Ids
  BY DEF AnyBlock
<1>2. /\ DOMAIN d = Fields /\ d["key"] \in Keys /\ d["resource"] \in Resources /\ d["action"] \in Actions
      /\ d["refs"] \in SUBSET Ids /\ d["active"] \in BOOLEAN
  BY DEF Docs, Fields
<1>3. /\ new["key"] \in Keys /\ new["resource"] \in Resources /\ new["action"] \in Actions
      /\ new["refs"] \in SUBSET Ids /\ new["active"] \in BOOLEAN
  BY <1>1, <1>2, PatchValues DEF Fields
<1>4. new["refs"] = IF "refs" \in DOMAIN b.set THEN b.set["refs"] ELSE d["refs"]
  BY <1>2 DEF Fields
<1>6. Changed(d, b) = [new EXCEPT !.refs = (@ \cup b.add) \ b.drop]
  BY DEF Changed
<1>7. DOMAIN new = Fields
  BY <1>2
<1> DEFINE last == (new["refs"] \cup b.add) \ b.drop
<1>8. last \in SUBSET Ids /\ last \subseteq new["refs"] \cup b.add
  BY <1>1, <1>3
<1>9. Changed(d, b) = [f \in Fields |-> IF f = "refs" THEN last ELSE new[f]]
  BY <1>6, <1>7
<1> HIDE DEF new, last
<1>10. Changed(d, b) = [key |-> new["key"], resource |-> new["resource"], action |-> new["action"],
                        refs |-> last, active |-> new["active"]]
  BY <1>9 DEF Fields
<1> QED BY <1>3, <1>4, <1>8, <1>10 DEF Docs

(* Every block starts from Block; the variants change its patch or what it adds.  *)
Starts == Counting \cup Sheltered \cup Writes \cup Admits
    \cup {<<"find", "remove", "log">>, <<"collect", "remove", "log">>, <<"find", "save", "log">>,
          <<"absent", "save", "grant">>, <<"find", "absent", "write", "log">>, <<"writeAll", "log">>, <<"log">>,
          <<"find">>, <<"find", "log">>, <<"find", "write">>}

LEMMA AwaitsAre ==
    /\ "find" \in Awaits /\ "exist" \in Awaits /\ "unheld" \in Awaits /\ "match" \in Awaits
    /\ "absent" \in Awaits /\ "lookup" \in Awaits /\ "collect" \in Awaits /\ "save" \in Awaits
    /\ "write" \in Awaits /\ "put" \in Awaits /\ "writeAll" \in Awaits /\ "remove" \in Awaits
    /\ "log" \in Awaits /\ "grant" \in Awaits
BY DEF Awaits

LEMMA StartsAreSequences == ASSUME NEW s \in Starts PROVE s \in Seq(Awaits)
<1>1. ASSUME s \in Counting PROVE s \in Seq(Awaits)
  <2>1. \/ s = <<"find", "unheld", "remove", "log">>
        \/ s = <<"unheld", "remove", "log">>
    BY <1>1 DEF Counting
  <2>2. /\ <<"find", "unheld", "remove", "log">> \in Seq(Awaits)
        /\ <<"unheld", "remove", "log">> \in Seq(Awaits)
    BY AwaitsAre
  <2> QED BY <2>1, <2>2, Zenon
<1>2. ASSUME s \in Sheltered PROVE s \in Seq(Awaits)
  <2>1. \/ s = <<"find", "absent", "save", "log">>
        \/ s = <<"absent", "save", "log">>
        \/ s = <<"absent", "save">>
    BY <1>2 DEF Sheltered
  <2>2. /\ <<"find", "absent", "save", "log">> \in Seq(Awaits)
        /\ <<"absent", "save", "log">> \in Seq(Awaits)
        /\ <<"absent", "save">> \in Seq(Awaits)
    BY AwaitsAre
  <2> QED BY <2>1, <2>2, Zenon
<1>3. ASSUME s \in Writes PROVE s \in Seq(Awaits)
  <2>1. \/ s = <<"find", "exist", "write", "log">>
        \/ s = <<"exist", "write", "log">>
        \/ s = <<"find", "write", "log">>
        \/ s = <<"write", "log">>
        \/ s = <<"put", "log">>
        \/ s = <<"match", "write">>
        \/ s = <<"write">>
    BY <1>3 DEF Writes
  <2>2. /\ <<"find", "exist", "write", "log">> \in Seq(Awaits)
        /\ <<"exist", "write", "log">> \in Seq(Awaits)
        /\ <<"find", "write", "log">> \in Seq(Awaits)
        /\ <<"write", "log">> \in Seq(Awaits)
        /\ <<"put", "log">> \in Seq(Awaits)
        /\ <<"match", "write">> \in Seq(Awaits)
        /\ <<"write">> \in Seq(Awaits)
    BY AwaitsAre
  <2> QED BY <2>1, <2>2, Zenon
<1>4. ASSUME s \in Admits PROVE s \in Seq(Awaits)
  <2>1. \/ s = <<"lookup", "write", "grant">>
        \/ s = <<"write", "grant">>
        \/ s = <<"lookup", "grant">>
        \/ s = <<"grant">>
    BY <1>4 DEF Admits
  <2>2. /\ <<"lookup", "write", "grant">> \in Seq(Awaits)
        /\ <<"write", "grant">> \in Seq(Awaits)
        /\ <<"lookup", "grant">> \in Seq(Awaits)
        /\ <<"grant">> \in Seq(Awaits)
    BY AwaitsAre
  <2> QED BY <2>1, <2>2, Zenon
<1>5. ASSUME s \in {<<"find", "remove", "log">>,
                    <<"collect", "remove", "log">>,
                    <<"find", "save", "log">>,
                    <<"absent", "save", "grant">>,
                    <<"find", "absent", "write", "log">>} PROVE s \in Seq(Awaits)
  <2>1. \/ s = <<"find", "remove", "log">>
        \/ s = <<"collect", "remove", "log">>
        \/ s = <<"find", "save", "log">>
        \/ s = <<"absent", "save", "grant">>
        \/ s = <<"find", "absent", "write", "log">>
    BY <1>5
  <2>2. /\ <<"find", "remove", "log">> \in Seq(Awaits)
        /\ <<"collect", "remove", "log">> \in Seq(Awaits)
        /\ <<"find", "save", "log">> \in Seq(Awaits)
        /\ <<"absent", "save", "grant">> \in Seq(Awaits)
        /\ <<"find", "absent", "write", "log">> \in Seq(Awaits)
    BY AwaitsAre
  <2> QED BY <2>1, <2>2, Zenon
<1>6. ASSUME s \in {<<"writeAll", "log">>,
                    <<"log">>,
                    <<"find">>,
                    <<"find", "log">>,
                    <<"find", "write">>} PROVE s \in Seq(Awaits)
  <2>1. \/ s = <<"writeAll", "log">>
        \/ s = <<"log">>
        \/ s = <<"find">>
        \/ s = <<"find", "log">>
        \/ s = <<"find", "write">>
    BY <1>6
  <2>2. /\ <<"writeAll", "log">> \in Seq(Awaits)
        /\ <<"log">> \in Seq(Awaits)
        /\ <<"find">> \in Seq(Awaits)
        /\ <<"find", "log">> \in Seq(Awaits)
        /\ <<"find", "write">> \in Seq(Awaits)
    BY AwaitsAre
  <2> QED BY <2>1, <2>2, Zenon
<1> QED BY <1>1, <1>2, <1>3, <1>4, <1>5, <1>6 DEF Starts

Outlined(b, steps, ids, what, set) ==
    /\ b \in AnyBlock /\ b.steps = steps /\ b.ids = ids /\ b.what = what /\ b.set = set
    /\ b.add = {} /\ ~b.clear

LEMMA BlockIs ==
    ASSUME NEW steps \in Starts, NEW ids \in SUBSET Ids, NEW what \in Kept
    PROVE  /\ Outlined(Block(steps, ids, what), steps, ids, what, [f \in {} |-> 0])
           /\ Block(steps, ids, what).complete
<1>1. steps \in Seq(Awaits)
  BY StartsAreSequences
<1>2. [f \in {} |-> 0] \in Patches
  BY EmptyPatch
<1> QED BY <1>1, <1>2 DEF Block, AnyBlock, Outlined

LEMMA SettingIs ==
    ASSUME NEW steps \in Starts, NEW ids \in SUBSET Ids, NEW set \in Patches
    PROVE  Outlined(Setting(steps, ids, set), steps, ids, "updated", set)
<1> DEFINE b == Block(steps, ids, "updated")
<1>1. Outlined(b, steps, ids, "updated", [f \in {} |-> 0])
  <2>1. "updated" \in Kept
    BY DEF Kept
  <2> QED BY <2>1, BlockIs
<1>2. Setting(steps, ids, set) = [b EXCEPT !.set = set]
  BY DEF Setting
<1> HIDE DEF b
<1> QED BY <1>1, <1>2 DEF Outlined, AnyBlock

LEMMA MakingIs ==
    ASSUME NEW steps \in Starts, NEW i \in Ids, NEW doc \in Docs, NEW complete \in BOOLEAN
    PROVE  /\ Outlined(Making(steps, i, doc, complete), steps, {i}, "created", doc)
           /\ Making(steps, i, doc, complete).complete = complete
<1> DEFINE b == Block(steps, {i}, "created")
<1>1. Outlined(b, steps, {i}, "created", [f \in {} |-> 0])
  <2>1. "created" \in Kept /\ {i} \in SUBSET Ids
    BY DEF Kept
  <2> QED BY <2>1, BlockIs
<1>2. Making(steps, i, doc, complete) = [b EXCEPT !.set = doc, !.complete = complete]
  BY DEF Making
<1>3. doc \in Patches
  BY DocumentPatch
<1> HIDE DEF b
<1> QED BY <1>1, <1>2, <1>3 DEF Outlined, AnyBlock

(* A block as a request begins with it. *)
Unused == {i \in Ids : i \notin born \cup UNION {UNION {b.ids : b \in Range(call[c])} : c \in Calls}}
Ready(b) ==
    /\ Plan(b) /\ b.steps # <<"remove", "log">>
    /\ b.what = "deleted" => b.ids \subseteq born /\ b.steps # <<"log">>
    /\ Saving(b) => b.ids \subseteq Unused

Request(r) ==
    /\ r \in Seq(AnyBlock) /\ \A n \in DOMAIN r : Ready(r[n])
    /\ \A m, n \in DOMAIN r : (m # n /\ Saving(r[m]) /\ Saving(r[n])) => r[m].ids \cap r[n].ids = {}

LEMMA ReadyIsBlock == ASSUME NEW b, Ready(b) PROVE b \in AnyBlock
BY DEF Ready, Plan

LEMMA OneBlock == ASSUME NEW b, Ready(b) PROVE Request(<<b>>)
<1>1. b \in AnyBlock
  BY ReadyIsBlock
<1>2. <<b>> \in Seq(AnyBlock) /\ DOMAIN <<b>> = {1} /\ <<b>>[1] = b
  BY <1>1
<1> HIDE DEF Ready
<1> QED BY <1>2 DEF Request

(* A batch of blocks of which only the first ones save. *)
LEMMA OneMore ==
    ASSUME NEW r, Request(r), NEW b, Ready(b), ~Saving(b)
    PROVE  Request(r \o <<b>>)
<1>1. b \in AnyBlock /\ r \in Seq(AnyBlock)
  BY ReadyIsBlock DEF Request
<1> DEFINE s == r \o <<b>>
<1>2. s \in Seq(AnyBlock) /\ Len(s) = Len(r) + 1
  BY <1>1
<1>3. \A n \in DOMAIN s : (n \in DOMAIN r /\ s[n] = r[n]) \/ s[n] = b
  BY <1>1
<1> HIDE DEF s
<1> QED BY <1>2, <1>3 DEF Request

LEMMA ReadReady ==
    ASSUME NEW steps \in {<<"find">>, <<"find", "log">>, <<"log">>, <<"write">>, <<"find", "write">>},
           NEW ids \in SUBSET Ids
    PROVE  Ready(Block(steps, ids, "read")) /\ ~Saving(Block(steps, ids, "read"))
<1> DEFINE b == Block(steps, ids, "read")
<1>1. steps \in Starts /\ "read" \in Kept
  BY DEF Starts, Writes, Kept
<1>2. Outlined(b, steps, ids, "read", [f \in {} |-> 0])
  BY <1>1, BlockIs
<1>3. DOMAIN [f \in {} |-> 0] = {}
  BY EmptyPatch
<1> HIDE DEF b
<1>4. Reads(b) /\ Fits(b)
  BY <1>2, <1>3 DEF Outlined, Reads, Fits
<1>5. steps # <<"remove", "log">>
  OBVIOUS
<1>6. b.what = "read" /\ b.steps = steps /\ b.ids = ids /\ b \in AnyBlock
  BY <1>2 DEF Outlined
<1>7. ~Saving(b)
  BY <1>6 DEF Saving
<1>8. Plan(b)
  BY <1>6, <1>4 DEF Plan
<1> QED BY <1>6, <1>7, <1>8, <1>5 DEF Ready, b

LEMMA AdmitReady ==
    ASSUME NEW steps \in {<<"lookup", "write", "grant">>, <<"lookup", "grant">>}, NEW ids \in SUBSET Users
    PROVE  Ready(Block(steps, ids, "read"))
<1> DEFINE b == Block(steps, ids, "read")
<1>1. steps \in Starts /\ "read" \in Kept /\ ids \in SUBSET Ids
  BY DEF Starts, Admits, Kept, Ids
<1>2. Outlined(b, steps, ids, "read", [f \in {} |-> 0])
  BY <1>1, BlockIs
<1>3. DOMAIN [f \in {} |-> 0] = {}
  BY EmptyPatch
<1>4. steps \in Admits /\ steps # <<"remove", "log">> /\ steps \notin {<<"write", "grant">>, <<"grant">>}
  BY DEF Admits
<1> HIDE DEF b
<1>5. Reads(b) /\ Fits(b)
  <2>1. b.steps = steps /\ b.ids = ids /\ DOMAIN b.set = {} /\ b.add = {}
    BY <1>2, <1>3 DEF Outlined
  <2>2. b.steps \in Admits /\ b.ids \subseteq Users /\ b.steps \notin {<<"write", "grant">>, <<"grant">>}
    BY <1>4, <2>1
  <2> QED BY <2>1, <2>2, Zenon DEF Reads, Fits
<1>6. b.what = "read" /\ b.steps = steps /\ b.ids = ids /\ b \in AnyBlock
  BY <1>2 DEF Outlined
<1>7. ~Saving(b)
  BY <1>6 DEF Saving
<1>8. Plan(b)
  BY <1>6, <1>5 DEF Plan
<1> QED BY <1>6, <1>7, <1>8, <1>4 DEF Ready, b

LEMMA DeleteReady ==
    ASSUME NEW steps, NEW ids \in SUBSET Ids, ids \subseteq born,
           \/ steps \in Counting /\ (ids \subseteq Roles \/ ids \subseteq Permissions)
           \/ steps = <<"find", "remove", "log">> /\ ids \subseteq Users
           \/ steps = <<"collect", "remove", "log">>
    PROVE  Ready(Block(steps, ids, "deleted")) /\ ~Saving(Block(steps, ids, "deleted"))
<1> DEFINE b == Block(steps, ids, "deleted")
<1>1. steps \in Starts /\ "deleted" \in Kept
  BY DEF Starts, Kept
<1>2. Outlined(b, steps, ids, "deleted", [f \in {} |-> 0])
  BY <1>1, BlockIs
<1>3. DOMAIN [f \in {} |-> 0] = {}
  BY EmptyPatch
<1>4. steps # <<"remove", "log">> /\ steps # <<"log">>
  BY DEF Counting
<1> HIDE DEF b
<1>5. Deletes(b) /\ Fits(b)
  <2>1. b.steps = steps /\ b.ids = ids /\ DOMAIN b.set = {} /\ b.add = {}
    BY <1>2, <1>3 DEF Outlined
  <2>2. Deletes(b)
    BY <2>1, Zenon DEF Deletes
  <2> QED BY <2>1, <2>2 DEF Fits
<1>6. b.what = "deleted" /\ b.steps = steps /\ b.ids = ids /\ b \in AnyBlock
  BY <1>2 DEF Outlined
<1>7. ~Saving(b)
  BY <1>6 DEF Saving
<1>8. Plan(b)
  BY <1>6, <1>5 DEF Plan
<1> QED BY <1>6, <1>7, <1>8, <1>4 DEF Ready, b

(* A block that updates: of the steps of an update, with what it sets and adds.   *)
LEMMA UpdateReady ==
    ASSUME NEW b \in AnyBlock, b.what = "updated", ~b.clear, Fits(b),
           \/ b.steps \in {<<"find", "absent", "write", "log">>, <<"writeAll", "log">>, <<"log">>}
           \/ b.steps \in Writes /\ ~Asks(b.set)
    PROVE  Ready(b) /\ ~Saving(b)
<1>1. Updates(b)
  BY DEF Updates
<1>2. b.steps # <<"remove", "log">>
  BY DEF Writes
<1> QED BY <1>1, <1>2 DEF Ready, Plan, Saving

LEMMA TouchReady ==
    ASSUME NEW steps \in Writes \cup {<<"log">>}, NEW ids \in SUBSET Ids
    PROVE  Ready(Block(steps, ids, "updated")) /\ ~Saving(Block(steps, ids, "updated"))
<1> DEFINE b == Block(steps, ids, "updated")
<1>1. steps \in Starts /\ "updated" \in Kept
  BY DEF Starts, Kept
<1>2. Outlined(b, steps, ids, "updated", [f \in {} |-> 0])
  BY <1>1, BlockIs
<1>3. DOMAIN [f \in {} |-> 0] = {}
  BY EmptyPatch
<1> HIDE DEF b
<1>4. Fits(b)
  BY <1>2, <1>3 DEF Outlined, Fits
<1>5. ~Asks(b.set)
  BY <1>2, EmptyPatch DEF Outlined
<1> QED BY <1>2, <1>4, <1>5, UpdateReady DEF Outlined, b

LEMMA GrowReady ==
    ASSUME NEW i \in Ids, NEW S \in SUBSET References(i)
    PROVE  LET b == [Block(<<"put", "log">>, {i}, "updated") EXCEPT !.add = S] IN Ready(b) /\ ~Saving(b)
<1> DEFINE a == Block(<<"put", "log">>, {i}, "updated")
           b == [a EXCEPT !.add = S]
<1>1. <<"put", "log">> \in Starts /\ "updated" \in Kept /\ {i} \in SUBSET Ids
  BY DEF Starts, Writes, Kept
<1>2. Outlined(a, <<"put", "log">>, {i}, "updated", [f \in {} |-> 0])
  BY <1>1, BlockIs
<1>3. DOMAIN [f \in {} |-> 0] = {}
  BY EmptyPatch
<1>4. S \in SUBSET Ids
  BY DEF References, Ids
<1> HIDE DEF a
<1>5. /\ b \in AnyBlock /\ b.steps = <<"put", "log">> /\ b.ids = {i} /\ b.what = "updated"
      /\ b.set = [f \in {} |-> 0] /\ b.add = S /\ ~b.clear
  BY <1>2, <1>4 DEF Outlined, AnyBlock
<1> HIDE DEF b
<1>6. Fits(b)
  BY <1>3, <1>5 DEF Fits
<1>7. b.steps \in Writes /\ ~Asks(b.set)
  BY <1>5, EmptyPatch DEF Writes
<1>8. Ready(b) /\ ~Saving(b)
  BY <1>5, <1>6, <1>7, UpdateReady
<1> QED BY <1>8 DEF a, b

LEMMA ShrinkReady ==
    ASSUME NEW i \in Ids, NEW S \in SUBSET Ids, NEW steps \in Writes
    PROVE  LET b == [Block(steps, {i}, "updated") EXCEPT !.drop = S] IN Ready(b) /\ ~Saving(b)
<1> DEFINE a == Block(steps, {i}, "updated")
           b == [a EXCEPT !.drop = S]
<1>1. steps \in Starts /\ "updated" \in Kept /\ {i} \in SUBSET Ids
  BY DEF Starts, Kept
<1>2. Outlined(a, steps, {i}, "updated", [f \in {} |-> 0])
  BY <1>1, BlockIs
<1>3. DOMAIN [f \in {} |-> 0] = {}
  BY EmptyPatch
<1> HIDE DEF a
<1>5. /\ b \in AnyBlock /\ b.steps = steps /\ b.ids = {i} /\ b.what = "updated"
      /\ b.set = [f \in {} |-> 0] /\ b.add = {} /\ ~b.clear
  BY <1>2 DEF Outlined, AnyBlock
<1> HIDE DEF b
<1>6. Fits(b)
  BY <1>3, <1>5 DEF Fits
<1>7. ~Asks(b.set)
  BY <1>5, EmptyPatch
<1>8. Ready(b) /\ ~Saving(b)
  BY <1>5, <1>6, <1>7, UpdateReady
<1> QED BY <1>8 DEF a, b

LEMMA SettingReady ==
    ASSUME NEW ids \in SUBSET Ids, NEW set \in Patches, NEW steps,
           "refs" \in DOMAIN set => \A i \in ids : set.refs \subseteq References(i),
           \/ steps \in {<<"find", "absent", "write", "log">>, <<"writeAll", "log">>}
           \/ steps \in Writes /\ ~Asks(set)
    PROVE  Ready(Setting(steps, ids, set))
<1> DEFINE b == Setting(steps, ids, set)
<1>1. steps \in Starts
  BY DEF Starts
<1>2. Outlined(b, steps, ids, "updated", set)
  BY <1>1, SettingIs
<1> HIDE DEF b
<1>3. Fits(b)
  BY <1>2 DEF Outlined, Fits
<1>4. Ready(b)
  BY <1>2, <1>3, UpdateReady DEF Outlined
<1> QED BY <1>4 DEF b

LEMMA MakingReady ==
    ASSUME NEW i \in Unused, NEW doc \in Docs, doc.refs \subseteq References(i), NEW complete \in BOOLEAN,
             NEW steps,
           \/ steps \in Sheltered
           \/ steps = <<"absent", "save", "grant">> /\ i \in Users
           \/ steps = <<"find", "save", "log">> /\ ~complete
    PROVE  Ready(Making(steps, i, doc, complete)) /\ Making(steps, i, doc, complete).ids = {i}
<1> DEFINE b == Making(steps, i, doc, complete)
<1>1. steps \in Starts /\ i \in Ids
  BY DEF Starts, Unused
<1>2. Outlined(b, steps, {i}, "created", doc) /\ b.complete = complete
  BY <1>1, MakingIs
<1>3. steps # <<"remove", "log">> /\ steps # <<"save", "grant">>
  BY DEF Sheltered
<1> HIDE DEF b
<1>4. b \in AnyBlock /\ b.steps = steps /\ b.ids = {i} /\ b.what = "created" /\ b.set = doc /\ b.add = {}
  BY <1>2 DEF Outlined
<1>5. Fits(b)
  BY <1>4 DEF Fits
<1>6. \/ b.steps \in Sheltered
      \/ b.steps \in Unchecked /\ (b.complete /\ b.ids \cap Permissions # {} => b.clear)
      \/ b.steps \in Registers /\ b.ids \subseteq Users /\ (b.steps = <<"save", "grant">> => b.clear)
  BY <1>2, <1>3, <1>4 DEF Unchecked, Registers
<1>7. Creates(b)
  BY <1>1, <1>4, <1>6, Zenon DEF Creates
<1>8. Plan(b)
  BY <1>4, <1>5, <1>7 DEF Plan
<1> QED BY <1>3, <1>4, <1>8 DEF Ready, b

(* What a clone looks up is another document than the one it makes. *)
LEMMA CloneReady ==
    ASSUME NEW b, Ready(b), NEW i \in Ids
    PROVE  Ready([b EXCEPT !.needs = {i}])
<1> DEFINE a == [b EXCEPT !.needs = {i}]
<1>1. b \in AnyBlock
  BY ReadyIsBlock
<1>2. /\ a \in AnyBlock /\ a.steps = b.steps /\ a.ids = b.ids /\ a.what = b.what /\ a.set = b.set
      /\ a.add = b.add /\ a.complete = b.complete /\ a.clear = b.clear
  BY <1>1 DEF AnyBlock
<1> HIDE DEF a
<1>3. Deletes(a) = Deletes(b) /\ Creates(a) = Creates(b) /\ Updates(a) = Updates(b) /\ Reads(a) = Reads(b)
  BY <1>2, Zenon DEF Deletes, Creates, Updates, Reads
<1>4. Fits(a) = Fits(b) /\ Saving(a) = Saving(b)
  BY <1>2, Zenon DEF Fits, Saving
<1>5. Ready(a)
  BY <1>2, <1>3, <1>4 DEF Ready, Plan
<1> QED BY <1>5 DEF a

LEMMA TwoBlocks ==
    ASSUME NEW a, NEW b, Ready(a), Ready(b), ~Saving(a) \/ ~Saving(b) \/ a.ids \cap b.ids = {}
    PROVE  Request(<<a, b>>)
<1>1. a \in AnyBlock /\ b \in AnyBlock
  BY ReadyIsBlock
<1> DEFINE r == <<a, b>>
<1>2. r \in Seq(AnyBlock) /\ DOMAIN r = {1, 2} /\ r[1] = a /\ r[2] = b
  BY <1>1
<1> HIDE DEF r
<1>3. Request(r)
  BY <1>2 DEF Request
<1> QED BY <1>3 DEF r

(* The new documents of kind K that may refer to those of L. *)
Refers(K, L) == K \in Kinds /\ L \subseteq Ids /\ \A i \in K : L \subseteq References(i)

LEMMA WhatRefers ==
    /\ Refers(Roles, Permissions) /\ Refers(Roles, {}) /\ Refers(Permissions, {})
    /\ Refers(Users, Roles) /\ Refers(Users, {})
BY KindsAreApart DEF Refers, Kinds, Ids, References

LEMMA NewDocIs ==
    ASSUME NEW K, NEW L, Refers(K, L), NEW n \in NewDocs(K, L)
    PROVE  n.id \in K \cap Unused /\ n.doc \in Docs /\ n.doc.refs \subseteq References(n.id)
<1>1. PICK i \in Fresh(K), k \in Keys, y \in Some(K, Resources), a \in Some(K, Actions),
           R \in {{}} \cup {{z} : z \in L \cap born} : n = [id |-> i, doc |-> Doc(k, y, a, R)]
  BY DEF NewDocs
<1>2. y \in Resources /\ a \in Actions
  BY AccessControlAssumption DEF Some
<1>3. R \in SUBSET Ids /\ i \in K /\ R \subseteq References(i)
  BY DEF Refers, Fresh
<1>4. K \subseteq Ids
  BY DEF Refers, Kinds, Ids
<1>5. i \in Unused
  BY <1>3, <1>4 DEF Fresh, Unused
<1> DEFINE d == [key |-> k, resource |-> y, action |-> a, refs |-> R, active |-> TRUE]
<1>6. n.id = i /\ n.doc = d
  BY <1>1 DEF Doc
<1>7. d \in Docs /\ d.refs = R
  BY <1>2, <1>3, SomeDocument
<1> HIDE DEF d
<1> QED BY <1>3, <1>5, <1>6, <1>7

LEMMA BatchIsRequest ==
    ASSUME NEW K, NEW L, Refers(K, L), NEW l \in NewLists(K, L), NEW steps \in Sheltered, NEW complete \in BOOLEAN
    PROVE  Request([n \in DOMAIN l |-> Making(steps, l[n].id, l[n].doc, complete)])
<1> DEFINE r == [n \in DOMAIN l |-> Making(steps, l[n].id, l[n].doc, complete)]
<1>1. CASE \E n \in NewDocs(K, L) : l = <<n>>
  <2>1. PICK n \in NewDocs(K, L) : l = <<n>>
    BY <1>1
  <2>2. Ready(Making(steps, n.id, n.doc, complete))
    BY NewDocIs, MakingReady
  <2>3. r = <<Making(steps, n.id, n.doc, complete)>>
    BY <2>1
  <2> QED BY <2>2, <2>3, OneBlock
<1>2. CASE \E a, b \in NewDocs(K, {}) : l = <<a, b>> /\ a.id # b.id
  <2>1. PICK a \in NewDocs(K, {}), b \in NewDocs(K, {}) : l = <<a, b>> /\ a.id # b.id
    BY <1>2
  <2> DEFINE x == Making(steps, a.id, a.doc, complete)
             y == Making(steps, b.id, b.doc, complete)
  <2>2. Refers(K, {})
    BY DEF Refers
  <2>3. Ready(x) /\ x.ids = {a.id} /\ Ready(y) /\ y.ids = {b.id}
    BY <2>2, NewDocIs, MakingReady
  <2>4. r = <<x, y>>
    BY <2>1
  <2> HIDE DEF x, y
  <2> QED BY <2>1, <2>3, <2>4, TwoBlocks
<1>3. (\E n \in NewDocs(K, L) : l = <<n>>) \/ \E a, b \in NewDocs(K, {}) : l = <<a, b>> /\ a.id # b.id
  BY DEF NewLists
<1> QED BY <1>1, <1>2, <1>3

LEMMA SettingSavesNone ==
    ASSUME NEW steps \in Starts, NEW ids \in SUBSET Ids, NEW set \in Patches
    PROVE  ~Saving(Setting(steps, ids, set))
BY SettingIs DEF Outlined, Saving

(* A bulk action over two users: the block of each, and one that logs.            *)
LEMMA BulkIsRequest ==
    ASSUME NEW x, NEW y, Ready(Head(x)), Ready(Head(y)), ~Saving(Head(x)), ~Saving(Head(y))
    PROVE  Request(bulkAction(<<x, y>>))
<1> DEFINE calls == <<x, y>>
           both == [n \in DOMAIN calls |-> Head(calls[n])]
<1>1. both = <<Head(x), Head(y)>>
  OBVIOUS
<1>2. Request(both)
  BY <1>1, TwoBlocks
<1>3. Ready(Block(<<"log">>, {}, "read")) /\ ~Saving(Block(<<"log">>, {}, "read"))
  BY ReadReady
<1>4. bulkAction(calls) = both \o <<Block(<<"log">>, {}, "read")>>
  BY DEF bulkAction
<1> HIDE DEF both
<1> QED BY <1>2, <1>3, <1>4, OneMore

(* Every request about roles, as it begins. *)
LEMMA RoleRequestsAreGood ==
    ASSUME born \subseteq Ids, NEW r \in RoleRequests
    PROVE  Request(r)
<1>0. \A i \in Known(Roles) : i \in Ids /\ i \in born /\ {i} \subseteq Roles /\ {i} \in SUBSET Ids /\
        References(i) = Permissions
  BY KindsAreApart DEF Known, Ids, References
<1> DEFINE R1 == {getRoleById(i) : i \in Known(Roles)}
           R2 == {getRolePermissions(i) : i \in Known(Roles)}
           R3 == {getRoleUsers(i) : i \in Known(Roles)}
           R4 == {createRole(n.id, n.doc) : n \in NewDocs(Roles, Permissions)}
           R5 == {updateRole(i, [key |-> k]) : i \in Known(Roles), k \in Keys}
           R6 == {updateRole(i, [refs |-> S]) : i \in Known(Roles), S \in SUBSET Known(Permissions)}
           R7 == {assignPermissions(i, S) : i \in Known(Roles), S \in SUBSET Known(Permissions)}
           R8 == {removePermission(i, p) : i \in Known(Roles), p \in Known(Permissions)}
           R9 == {activateRole(i) : i \in Known(Roles)}
           R10 == {deactivateRole(i) : i \in Known(Roles)}
           R11 == {deleteRole(i) : i \in Known(Roles)}
           R12 == {bulkDeleteRoles(S) : S \in SomeOf(Roles)}
           R13 == {bulkCreateRoles(l) : l \in NewLists(Roles, Permissions)}
           R14 == {importRoles(l) : l \in NewLists(Roles, {})}
           R15 == {bulkUpdateRoles(S, [key |-> k]) : S \in SomeOf(Roles), k \in Keys}
           R16 == {bulkActivateRoles(S) : S \in SomeOf(Roles)}
           R17 == {bulkDeactivateRoles(S) : S \in SomeOf(Roles)}
           R18 == {cloneRole(i, n.id, n.doc) : i \in Known(Roles), n \in NewDocs(Roles, {})}
           R19 == {validateRole(i) : i \in Known(Roles)}
           R20 == {exportRoles}
<1>1. ASSUME r \in R1 PROVE Request(r)
  <2>0. PICK i \in Known(Roles) : r = getRoleById(i)
    BY <1>1
  <2>1. Ready(Block(<<"find">>, {i}, "read"))
    BY <1>0, ReadReady
  <2> QED BY <2>0, <2>1, OneBlock DEF getRoleById
<1>2. ASSUME r \in R2 PROVE Request(r)
  <2>0. PICK i \in Known(Roles) : r = getRolePermissions(i)
    BY <1>2
  <2>1. Ready(Block(<<"find">>, {i}, "read"))
    BY <1>0, ReadReady
  <2> QED BY <2>0, <2>1, OneBlock DEF getRolePermissions
<1>3. ASSUME r \in R3 PROVE Request(r)
  <2>0. PICK i \in Known(Roles) : r = getRoleUsers(i)
    BY <1>3
  <2>1. Ready(Block(<<"find">>, {i}, "read"))
    BY <1>0, ReadReady
  <2> QED BY <2>0, <2>1, OneBlock DEF getRoleUsers
<1>4. ASSUME r \in R4 PROVE Request(r)
  <2>0. PICK n \in NewDocs(Roles, Permissions) : r = createRole(n.id, n.doc)
    BY <1>4
  <2>1. Ready(Making(<<"absent", "save", "log">>, n.id, n.doc, FALSE))
    BY WhatRefers, NewDocIs, MakingReady DEF Sheltered
  <2> QED BY <2>0, <2>1, OneBlock DEF createRole
<1>5. ASSUME r \in R5 PROVE Request(r)
  <2>0. PICK i \in Known(Roles), k \in Keys : r = updateRole(i, [key |-> k])
    BY <1>5
  <2>1. Ready(Setting(<<"find", "absent", "write", "log">>, {i}, [key |-> k]))
    BY <1>0, KeyPatch, SettingReady
  <2> QED BY <2>0, <2>1, OneBlock DEF updateRole
<1>6. ASSUME r \in R6 PROVE Request(r)
  <2>0. PICK i \in Known(Roles), S \in SUBSET Known(Permissions) : r = updateRole(i, [refs |-> S])
    BY <1>6
  <2>1. Ready(Setting(<<"find", "absent", "write", "log">>, {i}, [refs |-> S]))
    BY <1>0, RefsPatch, SettingReady DEF Known, Ids
  <2> QED BY <2>0, <2>1, OneBlock DEF updateRole
<1>7. ASSUME r \in R7 PROVE Request(r)
  <2>0. PICK i \in Known(Roles), S \in SUBSET Known(Permissions) : r = assignPermissions(i, S)
    BY <1>7
  <2>1. Ready(Setting(<<"find", "exist", "write", "log">>, {i}, [refs |-> S]))
    BY <1>0, RefsPatch, SettingReady DEF Known, Ids, Writes
  <2> QED BY <2>0, <2>1, OneBlock DEF assignPermissions
<1>8. ASSUME r \in R8 PROVE Request(r)
  <2>0. PICK i \in Known(Roles), p \in Known(Permissions) : r = removePermission(i, p)
    BY <1>8
  <2>1. Ready([Block(<<"find", "write", "log">>, {i}, "updated") EXCEPT !.drop = {p}])
    BY <1>0, ShrinkReady DEF Known, Ids, Writes
  <2> QED BY <2>0, <2>1, OneBlock DEF removePermission
<1>9. ASSUME r \in R9 PROVE Request(r)
  <2>0. PICK i \in Known(Roles) : r = activateRole(i)
    BY <1>9
  <2>1. Ready(Setting(<<"put", "log">>, {i}, [active |-> TRUE]))
    BY <1>0, ActivePatch, SettingReady DEF Writes
  <2> QED BY <2>0, <2>1, OneBlock DEF activateRole
<1>10. ASSUME r \in R10 PROVE Request(r)
  <2>0. PICK i \in Known(Roles) : r = deactivateRole(i)
    BY <1>10
  <2>1. Ready(Setting(<<"put", "log">>, {i}, [active |-> FALSE]))
    BY <1>0, ActivePatch, SettingReady DEF Writes
  <2> QED BY <2>0, <2>1, OneBlock DEF deactivateRole
<1>11. ASSUME r \in R11 PROVE Request(r)
  <2>0. PICK i \in Known(Roles) : r = deleteRole(i)
    BY <1>11
  <2>1. Ready(Block(<<"find", "unheld", "remove", "log">>, {i}, "deleted"))
    BY <1>0, DeleteReady DEF Counting
  <2> QED BY <2>0, <2>1, OneBlock DEF deleteRole
<1>12. ASSUME r \in R12 PROVE Request(r)
  <2>0. PICK S \in SomeOf(Roles) : r = bulkDeleteRoles(S)
    BY <1>12
  <2>1. Ready(Block(<<"unheld", "remove", "log">>, S, "deleted"))
    BY DeleteReady DEF Counting, SomeOf, Ids
  <2> QED BY <2>0, <2>1, OneBlock DEF bulkDeleteRoles
<1>13. ASSUME r \in R13 PROVE Request(r)
  <2>0. PICK l \in NewLists(Roles, Permissions) : r = bulkCreateRoles(l)
    BY <1>13
  <2>1. <<"absent", "save", "log">> \in Sheltered
    BY DEF Sheltered
  <2>2. Request([n \in DOMAIN l |-> Making(<<"absent", "save", "log">>, l[n].id, l[n].doc, TRUE)])
    BY <2>1, WhatRefers, BatchIsRequest
  <2> QED BY <2>0, <2>2 DEF bulkCreateRoles
<1>14. ASSUME r \in R14 PROVE Request(r)
  <2>0. PICK l \in NewLists(Roles, {}) : r = importRoles(l)
    BY <1>14
  <2>1. <<"absent", "save", "log">> \in Sheltered
    BY DEF Sheltered
  <2>2. Request([n \in DOMAIN l |-> Making(<<"absent", "save", "log">>, l[n].id, l[n].doc, TRUE)])
    BY <2>1, WhatRefers, BatchIsRequest
  <2> QED BY <2>0, <2>2 DEF importRoles
<1>15. ASSUME r \in R15 PROVE Request(r)
  <2>0. PICK S \in SomeOf(Roles), k \in Keys : r = bulkUpdateRoles(S, [key |-> k])
    BY <1>15
  <2>1. Ready(Setting(<<"writeAll", "log">>, S, [key |-> k]))
    BY KeyPatch, SettingReady DEF SomeOf, Ids
  <2> QED BY <2>0, <2>1, OneBlock DEF bulkUpdateRoles
<1>16. ASSUME r \in R16 PROVE Request(r)
  <2>0. PICK S \in SomeOf(Roles) : r = bulkActivateRoles(S)
    BY <1>16
  <2>1. Ready(Setting(<<"writeAll", "log">>, S, [active |-> TRUE]))
    BY ActivePatch, SettingReady DEF SomeOf, Ids
  <2> QED BY <2>0, <2>1, OneBlock DEF bulkActivateRoles
<1>17. ASSUME r \in R17 PROVE Request(r)
  <2>0. PICK S \in SomeOf(Roles) : r = bulkDeactivateRoles(S)
    BY <1>17
  <2>1. Ready(Setting(<<"writeAll", "log">>, S, [active |-> FALSE]))
    BY ActivePatch, SettingReady DEF SomeOf, Ids
  <2> QED BY <2>0, <2>1, OneBlock DEF bulkDeactivateRoles
<1>18. ASSUME r \in R18 PROVE Request(r)
  <2>0. PICK i \in Known(Roles), n \in NewDocs(Roles, {}) : r = cloneRole(i, n.id, n.doc)
    BY <1>18
  <2> DEFINE b == Making(<<"find", "absent", "save", "log">>, n.id, n.doc, FALSE)
  <2>1. Ready(b)
    BY WhatRefers, NewDocIs, MakingReady DEF Sheltered
  <2>2. r = <<[b EXCEPT !.needs = {i}]>>
    BY <2>0 DEF cloneRole
  <2> HIDE DEF b
  <2>3. Ready([b EXCEPT !.needs = {i}])
    BY <1>0, <2>1, CloneReady
  <2> QED BY <2>2, <2>3, OneBlock
<1>19. ASSUME r \in R19 PROVE Request(r)
  <2>0. PICK i \in Known(Roles) : r = validateRole(i)
    BY <1>19
  <2>1. Ready(Block(<<"find", "log">>, {i}, "read"))
    BY <1>0, ReadReady
  <2> QED BY <2>0, <2>1, OneBlock DEF validateRole
<1>20. ASSUME r \in R20 PROVE Request(r)
  <2>0. r = exportRoles
    BY <1>20
  <2>1. Ready(Block(<<"log">>, {}, "read"))
    BY ReadReady
  <2> QED BY <2>0, <2>1, OneBlock DEF exportRoles
<1>21. RoleRequests = R1 \cup R2 \cup R3 \cup R4 \cup R5 \cup R6 \cup R7 \cup R8 \cup R9 \cup R10 \cup R11 \cup
         R12 \cup R13 \cup R14 \cup R15 \cup R16 \cup R17 \cup R18 \cup R19 \cup R20
  BY DEF RoleRequests
<1> HIDE DEF R1, R2, R3, R4, R5, R6, R7, R8, R9, R10, R11, R12, R13, R14, R15, R16, R17, R18, R19, R20
<1> QED BY <1>1, <1>2, <1>3, <1>4, <1>5, <1>6, <1>7, <1>8, <1>9, <1>10, <1>11, <1>12, <1>13, <1>14, <1>15,
      <1>16, <1>17, <1>18, <1>19, <1>20, <1>21

(* An update of a permission looks for a rival, or asks for no look-up. *)
LEMMA UpdatePermissionIsRequest ==
    ASSUME NEW i \in Ids, NEW set \in Patches, "refs" \notin DOMAIN set
    PROVE  Request(updatePermission(i, set))
<1>1. CASE Asks(set)
  <2>1. Ready(Setting(<<"find", "absent", "write", "log">>, {i}, set))
    BY SettingReady
  <2> QED BY <1>1, <2>1, OneBlock DEF updatePermission
<1>2. CASE ~Asks(set)
  <2>1. <<"find", "write", "log">> \in Writes
    BY DEF Writes
  <2>2. Ready(Setting(<<"find", "write", "log">>, {i}, set))
    BY <1>2, <2>1, SettingReady
  <2> QED BY <1>2, <2>2, OneBlock DEF updatePermission
<1> QED BY <1>1, <1>2

(* Every request about permissions. *)
LEMMA PermissionRequestsAreGood ==
    ASSUME born \subseteq Ids, NEW r \in PermissionRequests
    PROVE  Request(r)
<1>0. \A i \in Known(Permissions) : i \in Ids /\ i \in born /\ {i} \subseteq Permissions /\ {i} \in SUBSET Ids
  BY DEF Known, Ids
<1> DEFINE R1 == {createPermission(n.id, n.doc) : n \in NewDocs(Permissions, {})}
           R2 == {updatePermission(i, set) : i \in Known(Permissions), set \in PairSets}
           R3 == {deletePermission(i) : i \in Known(Permissions)}
           R4 == {bulkCreatePermissions(l) : l \in NewLists(Permissions, {})}
           R5 == {importPermissions(l) : l \in NewLists(Permissions, {})}
           R6 == {bulkUpdatePermissions(S, set) : S \in SomeOf(Permissions), set \in PairSets}
           R7 == {bulkDeletePermissions(S) : S \in SomeOf(Permissions)}
           R8 == {syncSystemPermissions(l) : l \in NewLists(Permissions, {})}
           R9 == {clonePermission(i, n.id, n.doc) : i \in Known(Permissions), n \in NewDocs(Permissions, {})}
           R10 == {validatePermission(i) : i \in Known(Permissions)}
           R11 == {exportPermissions, validatePermissionMatrix, generatePermissionMatrix, cleanupOrphanedPermissions}
           R12 == {updatePermission(i, [key |-> k]) : i \in Known(Permissions), k \in Keys}
<1>1. ASSUME r \in R1 PROVE Request(r)
  <2>0. PICK n \in NewDocs(Permissions, {}) : r = createPermission(n.id, n.doc)
    BY <1>1
  <2>1. Ready(Making(<<"absent", "save", "log">>, n.id, n.doc, FALSE))
    BY WhatRefers, NewDocIs, MakingReady DEF Sheltered
  <2> QED BY <2>0, <2>1, OneBlock DEF createPermission
<1>2. ASSUME r \in R2 PROVE Request(r)
  <2>0. PICK i \in Known(Permissions), set \in PairSets : r = updatePermission(i, set)
    BY <1>2
  <2>1. set \in Patches /\ "refs" \notin DOMAIN set
    BY PairPatch
  <2> QED BY <1>0, <2>0, <2>1, UpdatePermissionIsRequest
<1>3. ASSUME r \in R3 PROVE Request(r)
  <2>0. PICK i \in Known(Permissions) : r = deletePermission(i)
    BY <1>3
  <2>1. Ready(Block(<<"find", "unheld", "remove", "log">>, {i}, "deleted"))
    BY <1>0, DeleteReady DEF Counting
  <2> QED BY <2>0, <2>1, OneBlock DEF deletePermission
<1>4. ASSUME r \in R4 PROVE Request(r)
  <2>0. PICK l \in NewLists(Permissions, {}) : r = bulkCreatePermissions(l)
    BY <1>4
  <2>1. <<"absent", "save", "log">> \in Sheltered
    BY DEF Sheltered
  <2>2. Request([n \in DOMAIN l |-> Making(<<"absent", "save", "log">>, l[n].id, l[n].doc, TRUE)])
    BY <2>1, WhatRefers, BatchIsRequest
  <2> QED BY <2>0, <2>2 DEF bulkCreatePermissions
<1>5. ASSUME r \in R5 PROVE Request(r)
  <2>0. PICK l \in NewLists(Permissions, {}) : r = importPermissions(l)
    BY <1>5
  <2>1. <<"absent", "save", "log">> \in Sheltered
    BY DEF Sheltered
  <2>2. Request([n \in DOMAIN l |-> Making(<<"absent", "save", "log">>, l[n].id, l[n].doc, TRUE)])
    BY <2>1, WhatRefers, BatchIsRequest
  <2> QED BY <2>0, <2>2 DEF importPermissions
<1>6. ASSUME r \in R6 PROVE Request(r)
  <2>0. PICK S \in SomeOf(Permissions), set \in PairSets : r = bulkUpdatePermissions(S, set)
    BY <1>6
  <2>1. Ready(Setting(<<"writeAll", "log">>, S, set))
    BY PairPatch, SettingReady DEF SomeOf, Ids
  <2> QED BY <2>0, <2>1, OneBlock DEF bulkUpdatePermissions
<1>7. ASSUME r \in R7 PROVE Request(r)
  <2>0. PICK S \in SomeOf(Permissions) : r = bulkDeletePermissions(S)
    BY <1>7
  <2>1. Ready(Block(<<"unheld", "remove", "log">>, S, "deleted"))
    BY DeleteReady DEF Counting, SomeOf, Ids
  <2> QED BY <2>0, <2>1, OneBlock DEF bulkDeletePermissions
<1>8. ASSUME r \in R8 PROVE Request(r)
  <2>0. PICK l \in NewLists(Permissions, {}) : r = syncSystemPermissions(l)
    BY <1>8
  <2>1. <<"absent", "save">> \in Sheltered
    BY DEF Sheltered
  <2>2. Request([n \in DOMAIN l |-> Making(<<"absent", "save">>, l[n].id, l[n].doc, FALSE)])
    BY <2>1, WhatRefers, BatchIsRequest
  <2>3. Ready(Block(<<"log">>, {}, "read")) /\ ~Saving(Block(<<"log">>, {}, "read"))
    BY ReadReady
  <2> QED BY <2>0, <2>2, <2>3, OneMore DEF syncSystemPermissions
<1>9. ASSUME r \in R9 PROVE Request(r)
  <2>0. PICK i \in Known(Permissions), n \in NewDocs(Permissions, {}) : r = clonePermission(i, n.id, n.doc)
    BY <1>9
  <2> DEFINE b == Making(<<"find", "save", "log">>, n.id, n.doc, FALSE)
  <2>1. Ready(b)
    BY WhatRefers, NewDocIs, MakingReady
  <2>2. r = <<[b EXCEPT !.needs = {i}]>>
    BY <2>0 DEF clonePermission
  <2> HIDE DEF b
  <2>3. Ready([b EXCEPT !.needs = {i}])
    BY <1>0, <2>1, CloneReady
  <2> QED BY <2>2, <2>3, OneBlock
<1>10. ASSUME r \in R10 PROVE Request(r)
  <2>0. PICK i \in Known(Permissions) : r = validatePermission(i)
    BY <1>10
  <2>1. Ready(Block(<<"find", "log">>, {i}, "read"))
    BY <1>0, ReadReady
  <2> QED BY <2>0, <2>1, OneBlock DEF validatePermission
<1>11. ASSUME r \in R11 PROVE Request(r)
  <2>1. ASSUME r = exportPermissions PROVE Request(r)
    <3>1. Ready(Block(<<"log">>, {}, "read"))
      BY ReadReady
    <3> QED BY <2>1, <3>1, OneBlock DEF exportPermissions
  <2>2. ASSUME r = validatePermissionMatrix PROVE Request(r)
    <3>1. Ready(Block(<<"log">>, {}, "read"))
      BY ReadReady
    <3> QED BY <2>2, <3>1, OneBlock DEF validatePermissionMatrix
  <2>3. ASSUME r = generatePermissionMatrix PROVE Request(r)
    <3>1. Ready(Block(<<"log">>, {}, "read"))
      BY ReadReady
    <3> QED BY <2>3, <3>1, OneBlock DEF generatePermissionMatrix
  <2>4. ASSUME r = cleanupOrphanedPermissions PROVE Request(r)
    <3>1. Ready(Block(<<"collect", "remove", "log">>, {}, "deleted"))
      BY DeleteReady
    <3> QED BY <2>4, <3>1, OneBlock DEF cleanupOrphanedPermissions
  <2> QED BY <1>11, <2>1, <2>2, <2>3, <2>4
<1>12. ASSUME r \in R12 PROVE Request(r)
  <2>0. PICK i \in Known(Permissions), k \in Keys : r = updatePermission(i, [key |-> k])
    BY <1>12
  <2>1. [key |-> k] \in Patches /\ "refs" \notin DOMAIN [key |-> k]
    BY KeyPatch
  <2> QED BY <1>0, <2>0, <2>1, UpdatePermissionIsRequest
<1>13. PermissionRequests =
         R1 \cup R2 \cup R12 \cup R3 \cup R4 \cup R5 \cup R6 \cup R7 \cup R8 \cup R9 \cup R10 \cup R11
  BY DEF PermissionRequests
<1> HIDE DEF R1, R2, R3, R4, R5, R6, R7, R8, R9, R10, R11, R12
<1> QED BY <1>1, <1>2, <1>3, <1>4, <1>5, <1>6, <1>7, <1>8, <1>9, <1>10, <1>11, <1>12, <1>13

(* Every request about users. *)
LEMMA UserRequestsAreGood ==
    ASSUME born \subseteq Ids, NEW r \in UserRequests
    PROVE  Request(r)
<1>0. \A i \in Known(Users) : i \in Ids /\ i \in born /\ {i} \subseteq Users /\ {i} \in SUBSET Ids /\
        References(i) = Roles \cup Permissions
  BY DEF Known, Ids, References
<1> DEFINE R1 == {create(n.id, n.doc) : n \in NewDocs(Users, Roles)}
           R2 == {update(i, [key |-> k]) : i \in Known(Users), k \in Keys}
           R3 == {update(i, [refs |-> S]) : i \in Known(Users), S \in SUBSET Known(Roles)}
           R4 == UNION {{delete(i), activate(i),
                    deactivate(i), resetPassword(i), unlockAccount(i), terminateSession(i), enableTwoFactor(i),
                      disableTwoFactor(i)} : i \in Known(Users)}
           R5 == {assignRoles(i, S) : i \in Known(Users), S \in SomeOf(Roles)}
           R6 == {removeRole(i, x) : i \in Known(Users), x \in Known(Roles)}
           R7 == {grantPermissions(i, S) : i \in Known(Users), S \in SomeOf(Permissions)}
           R8 == {revokePermission(i, p) : i \in Known(Users), p \in Known(Permissions)}
           R9 == UNION {{bulkAction(<<activate(i), activate(j)>>), bulkAction(<<deactivate(i),
                    deactivate(j)>>), bulkAction(<<delete(i),
                    delete(j)>>), bulkAction(<<resetPassword(i), resetPassword(j)>>)} : i, j \in Known(Users)}
           R10 == {bulkAction(<<assignRoles(i, S), assignRoles(j, S)>>) : i, j \in Known(Users), S \in SomeOf(Roles)}
           R11 == {importUsers(l) : l \in NewLists(Users, Roles)}
           R12 == {exportUsers}
<1>1. ASSUME r \in R1 PROVE Request(r)
  <2>0. PICK n \in NewDocs(Users, Roles) : r = create(n.id, n.doc)
    BY <1>1
  <2>1. Ready(Making(<<"absent", "save", "log">>, n.id, n.doc, TRUE))
    BY WhatRefers, NewDocIs, MakingReady DEF Sheltered
  <2> QED BY <2>0, <2>1, OneBlock DEF create
<1>2. ASSUME r \in R2 PROVE Request(r)
  <2>0. PICK i \in Known(Users), k \in Keys : r = update(i, [key |-> k])
    BY <1>2
  <2>1. Ready(Setting(<<"find", "write", "log">>, {i}, [key |-> k]))
    BY <1>0, KeyPatch, SettingReady DEF Writes
  <2> QED BY <2>0, <2>1, OneBlock DEF update
<1>3. ASSUME r \in R3 PROVE Request(r)
  <2>0. PICK i \in Known(Users), S \in SUBSET Known(Roles) : r = update(i, [refs |-> S])
    BY <1>3
  <2>1. Ready(Setting(<<"find", "write", "log">>, {i}, [refs |-> S]))
    BY <1>0, RefsPatch, SettingReady DEF Known, Ids, Writes
  <2> QED BY <2>0, <2>1, OneBlock DEF update
<1>4. ASSUME r \in R4 PROVE Request(r)
  <2>1. ASSUME NEW i \in Known(Users), r = delete(i) PROVE Request(r)
    <3>1. Ready(Block(<<"find", "remove", "log">>, {i}, "deleted"))
      BY <1>0, DeleteReady
    <3> QED BY <2>1, <3>1, OneBlock DEF delete
  <2>2. ASSUME NEW i \in Known(Users), r = activate(i) PROVE Request(r)
    <3>1. Ready(Setting(<<"put", "log">>, {i}, [active |-> TRUE]))
      BY <1>0, ActivePatch, SettingReady DEF Writes
    <3> QED BY <2>2, <3>1, OneBlock DEF activate
  <2>3. ASSUME NEW i \in Known(Users), r = deactivate(i) PROVE Request(r)
    <3>1. Ready(Setting(<<"put", "log">>, {i}, [active |-> FALSE]))
      BY <1>0, ActivePatch, SettingReady DEF Writes
    <3> QED BY <2>3, <3>1, OneBlock DEF deactivate
  <2>4. ASSUME NEW i \in Known(Users), r = resetPassword(i) PROVE Request(r)
    <3>1. Ready(Block(<<"find", "write", "log">>, {i}, "updated"))
      BY <1>0, TouchReady DEF Writes
    <3> QED BY <2>4, <3>1, OneBlock DEF resetPassword
  <2>5. ASSUME NEW i \in Known(Users), r = unlockAccount(i) PROVE Request(r)
    <3>1. Ready(Block(<<"put", "log">>, {i}, "updated"))
      BY <1>0, TouchReady DEF Writes
    <3> QED BY <2>5, <3>1, OneBlock DEF unlockAccount
  <2>6. ASSUME NEW i \in Known(Users), r = terminateSession(i) PROVE Request(r)
    <3>1. Ready(Block(<<"log">>, {i}, "updated"))
      BY <1>0, TouchReady
    <3> QED BY <2>6, <3>1, OneBlock DEF terminateSession
  <2>7. ASSUME NEW i \in Known(Users), r = enableTwoFactor(i) PROVE Request(r)
    <3>1. Ready(Block(<<"put", "log">>, {i}, "updated"))
      BY <1>0, TouchReady DEF Writes
    <3> QED BY <2>7, <3>1, OneBlock DEF enableTwoFactor
  <2>8. ASSUME NEW i \in Known(Users), r = disableTwoFactor(i) PROVE Request(r)
    <3>1. Ready(Block(<<"put", "log">>, {i}, "updated"))
      BY <1>0, TouchReady DEF Writes
    <3> QED BY <2>8, <3>1, OneBlock DEF disableTwoFactor
  <2>9. \E i \in Known(Users) :
         \/ r = delete(i)
         \/ r = activate(i)
         \/ r = deactivate(i)
         \/ r = resetPassword(i)
         \/ r = unlockAccount(i)
         \/ r = terminateSession(i)
         \/ r = enableTwoFactor(i)
         \/ r = disableTwoFactor(i)
    BY <1>4
  <2> QED BY <2>1, <2>2, <2>3, <2>4, <2>5, <2>6, <2>7, <2>8, <2>9, Zenon
<1>5. ASSUME r \in R5 PROVE Request(r)
  <2>0. PICK i \in Known(Users), S \in SomeOf(Roles) : r = assignRoles(i, S)
    BY <1>5
  <2>1. Ready([Block(<<"put", "log">>, {i}, "updated") EXCEPT !.add = S])
    BY <1>0, GrowReady DEF SomeOf
  <2> QED BY <2>0, <2>1, OneBlock DEF assignRoles
<1>6. ASSUME r \in R6 PROVE Request(r)
  <2>0. PICK i \in Known(Users), x \in Known(Roles) : r = removeRole(i, x)
    BY <1>6
  <2>1. Ready([Block(<<"put", "log">>, {i}, "updated") EXCEPT !.drop = {x}])
    BY <1>0, ShrinkReady DEF Known, Ids, Writes
  <2> QED BY <2>0, <2>1, OneBlock DEF removeRole
<1>7. ASSUME r \in R7 PROVE Request(r)
  <2>0. PICK i \in Known(Users), S \in SomeOf(Permissions) : r = grantPermissions(i, S)
    BY <1>7
  <2>1. Ready([Block(<<"put", "log">>, {i}, "updated") EXCEPT !.add = S])
    BY <1>0, GrowReady DEF SomeOf
  <2> QED BY <2>0, <2>1, OneBlock DEF grantPermissions
<1>8. ASSUME r \in R8 PROVE Request(r)
  <2>0. PICK i \in Known(Users), p \in Known(Permissions) : r = revokePermission(i, p)
    BY <1>8
  <2>1. Ready([Block(<<"put", "log">>, {i}, "updated") EXCEPT !.drop = {p}])
    BY <1>0, ShrinkReady DEF Known, Ids, Writes
  <2> QED BY <2>0, <2>1, OneBlock DEF revokePermission
<1>9. ASSUME r \in R9 PROVE Request(r)
  <2>1. ASSUME NEW i \in Known(Users), NEW j \in Known(Users),
                 r = bulkAction(<<activate(i), activate(j)>>) PROVE Request(r)
    <3>1. \A m \in Known(Users) : Ready(Head(activate(m))) /\ ~Saving(Head(activate(m)))
      <4> SUFFICES ASSUME NEW m \in Known(Users)
                   PROVE  Ready(Head(activate(m))) /\ ~Saving(Head(activate(m)))
        OBVIOUS
      <4> DEFINE b == Setting(<<"put", "log">>, {m}, [active |-> TRUE])
      <4>1. Ready(b) /\ ~Saving(b)
        BY <1>0, ActivePatch, SettingReady, SettingSavesNone DEF Starts, Writes
      <4>2. Head(activate(m)) = b
        BY DEF activate
      <4> QED BY <4>1, <4>2
    <3> QED BY <2>1, <3>1, BulkIsRequest
  <2>2. ASSUME NEW i \in Known(Users), NEW j \in Known(Users),
                 r = bulkAction(<<deactivate(i), deactivate(j)>>) PROVE Request(r)
    <3>1. \A m \in Known(Users) : Ready(Head(deactivate(m))) /\ ~Saving(Head(deactivate(m)))
      <4> SUFFICES ASSUME NEW m \in Known(Users)
                   PROVE  Ready(Head(deactivate(m))) /\ ~Saving(Head(deactivate(m)))
        OBVIOUS
      <4> DEFINE b == Setting(<<"put", "log">>, {m}, [active |-> FALSE])
      <4>1. Ready(b) /\ ~Saving(b)
        BY <1>0, ActivePatch, SettingReady, SettingSavesNone DEF Starts, Writes
      <4>2. Head(deactivate(m)) = b
        BY DEF deactivate
      <4> QED BY <4>1, <4>2
    <3> QED BY <2>2, <3>1, BulkIsRequest
  <2>3. ASSUME NEW i \in Known(Users), NEW j \in Known(Users),
                 r = bulkAction(<<delete(i), delete(j)>>) PROVE Request(r)
    <3>1. \A m \in Known(Users) : Ready(Head(delete(m))) /\ ~Saving(Head(delete(m)))
      <4> SUFFICES ASSUME NEW m \in Known(Users)
                   PROVE  Ready(Head(delete(m))) /\ ~Saving(Head(delete(m)))
        OBVIOUS
      <4> DEFINE b == Block(<<"find", "remove", "log">>, {m}, "deleted")
      <4>1. Ready(b) /\ ~Saving(b)
        BY <1>0, DeleteReady
      <4>2. Head(delete(m)) = b
        BY DEF delete
      <4> QED BY <4>1, <4>2
    <3> QED BY <2>3, <3>1, BulkIsRequest
  <2>4. ASSUME NEW i \in Known(Users), NEW j \in Known(Users),
                 r = bulkAction(<<resetPassword(i), resetPassword(j)>>) PROVE Request(r)
    <3>1. \A m \in Known(Users) : Ready(Head(resetPassword(m))) /\ ~Saving(Head(resetPassword(m)))
      <4> SUFFICES ASSUME NEW m \in Known(Users)
                   PROVE  Ready(Head(resetPassword(m))) /\ ~Saving(Head(resetPassword(m)))
        OBVIOUS
      <4> DEFINE b == Block(<<"find", "write", "log">>, {m}, "updated")
      <4>1. Ready(b) /\ ~Saving(b)
        BY <1>0, TouchReady DEF Writes
      <4>2. Head(resetPassword(m)) = b
        BY DEF resetPassword
      <4> QED BY <4>1, <4>2
    <3> QED BY <2>4, <3>1, BulkIsRequest
  <2>5. \E i \in Known(Users), j \in Known(Users) :
         \/ r = bulkAction(<<activate(i), activate(j)>>)
         \/ r = bulkAction(<<deactivate(i), deactivate(j)>>)
         \/ r = bulkAction(<<delete(i), delete(j)>>)
         \/ r = bulkAction(<<resetPassword(i), resetPassword(j)>>)
    BY <1>9
  <2> QED BY <2>1, <2>2, <2>3, <2>4, <2>5, Zenon
<1>10. ASSUME r \in R10 PROVE Request(r)
  <2>0. PICK i \in Known(Users), j \in Known(Users),
          S \in SomeOf(Roles) : r = bulkAction(<<assignRoles(i, S), assignRoles(j, S)>>)
    BY <1>10
  <2>1. \A m \in Known(Users) : Ready(Head(assignRoles(m, S))) /\ ~Saving(Head(assignRoles(m, S)))
    <3> SUFFICES ASSUME NEW m \in Known(Users)
                 PROVE  Ready(Head(assignRoles(m, S))) /\ ~Saving(Head(assignRoles(m, S)))
      OBVIOUS
    <3> DEFINE b == [Block(<<"put", "log">>, {m}, "updated") EXCEPT !.add = S]
    <3>1. Ready(b) /\ ~Saving(b)
      BY <1>0, GrowReady DEF SomeOf
    <3>2. Head(assignRoles(m, S)) = b
      BY DEF assignRoles
    <3> QED BY <3>1, <3>2
  <2> QED BY <2>0, <2>1, BulkIsRequest
<1>11. ASSUME r \in R11 PROVE Request(r)
  <2>0. PICK l \in NewLists(Users, Roles) : r = importUsers(l)
    BY <1>11
  <2>1. <<"absent", "save", "log">> \in Sheltered
    BY DEF Sheltered
  <2>2. Request([n \in DOMAIN l |-> Making(<<"absent", "save", "log">>, l[n].id, l[n].doc, TRUE)])
    BY <2>1, WhatRefers, BatchIsRequest
  <2>3. Ready(Block(<<"log">>, {}, "read")) /\ ~Saving(Block(<<"log">>, {}, "read"))
    BY ReadReady
  <2>4. \A n \in DOMAIN l : Head(create(l[n].id, l[n].doc)) = Making(<<"absent", "save", "log">>, l[n].id, l[n].doc, TRUE)
    BY DEF create
  <2>5. [n \in DOMAIN l |-> Head(create(l[n].id, l[n].doc))]
          = [n \in DOMAIN l |-> Making(<<"absent", "save", "log">>, l[n].id, l[n].doc, TRUE)]
    BY <2>4, Zenon
  <2> QED BY <2>0, <2>2, <2>3, <2>5, OneMore DEF importUsers
<1>12. ASSUME r \in R12 PROVE Request(r)
  <2>0. r = exportUsers
    BY <1>12
  <2>1. Ready(Block(<<"log">>, {}, "read"))
    BY ReadReady
  <2> QED BY <2>0, <2>1, OneBlock DEF exportUsers
<1>13. UserRequests = R1 \cup R2 \cup R3 \cup R4 \cup R5 \cup R6 \cup R7 \cup R8 \cup R9 \cup R10 \cup R11 \cup R12
  BY DEF UserRequests
<1> HIDE DEF R1, R2, R3, R4, R5, R6, R7, R8, R9, R10, R11, R12
<1> QED BY <1>1, <1>2, <1>3, <1>4, <1>5, <1>6, <1>7, <1>8, <1>9, <1>10, <1>11, <1>12, <1>13

(* Every request about accounts. *)
LEMMA AuthRequestsAreGood ==
    ASSUME born \subseteq Ids, granted \subseteq Users \X BOOLEAN, NEW r \in AuthRequests
    PROVE  Request(r)
<1>0. \A i \in Known(Users) : {i} \in SUBSET Users /\ {i} \in SUBSET Ids
  BY DEF Known, Ids
<1> DEFINE R1 == {register(n.id, n.doc) : n \in NewDocs(Users, {})}
           R2 == UNION {{login(i), logout(i), forgotPassword(i), redeemResetToken(i)} : i \in Known(Users)}
           R3 == UNION {{refreshToken(g[1]), validateUser(g[1])} : g \in granted}
<1>1. ASSUME r \in R1 PROVE Request(r)
  <2>0. PICK n \in NewDocs(Users, {}) : r = register(n.id, n.doc)
    BY <1>1
  <2>1. Ready(Making(<<"absent", "save", "grant">>, n.id, n.doc, TRUE))
    BY WhatRefers, NewDocIs, MakingReady
  <2> QED BY <2>0, <2>1, OneBlock DEF register
<1>2. ASSUME r \in R2 PROVE Request(r)
  <2>1. ASSUME NEW i \in Known(Users), r = login(i) PROVE Request(r)
    <3>1. Ready(Block(<<"lookup", "write", "grant">>, {i}, "read"))
      BY <1>0, AdmitReady
    <3> QED BY <2>1, <3>1, OneBlock DEF login
  <2>2. ASSUME NEW i \in Known(Users), r = logout(i) PROVE Request(r)
    <3>1. Ready(Block(<<"write">>, {i}, "read"))
      BY <1>0, ReadReady
    <3> QED BY <2>2, <3>1, OneBlock DEF logout
  <2>3. ASSUME NEW i \in Known(Users), r = forgotPassword(i) PROVE Request(r)
    <3>1. Ready(Block(<<"find", "write">>, {i}, "read"))
      BY <1>0, ReadReady
    <3> QED BY <2>3, <3>1, OneBlock DEF forgotPassword
  <2>4. ASSUME NEW i \in Known(Users), r = redeemResetToken(i) PROVE Request(r)
    <3>1. Ready(Block(<<"match", "write">>, {i}, "updated"))
      BY <1>0, TouchReady DEF Writes
    <3> QED BY <2>4, <3>1, OneBlock DEF redeemResetToken
  <2>5. \E i \in Known(Users) :
         \/ r = login(i)
         \/ r = logout(i)
         \/ r = forgotPassword(i)
         \/ r = redeemResetToken(i)
    BY <1>2
  <2> QED BY <2>1, <2>2, <2>3, <2>4, <2>5, Zenon
<1>3. ASSUME r \in R3 PROVE Request(r)
  <2>1. ASSUME NEW g \in granted, r = refreshToken(g[1]) PROVE Request(r)
    <3>1. Ready(Block(<<"lookup", "grant">>, {g[1]}, "read"))
      BY AdmitReady
    <3> QED BY <2>1, <3>1, OneBlock DEF refreshToken
  <2>2. ASSUME NEW g \in granted, r = validateUser(g[1]) PROVE Request(r)
    <3>1. Ready(Block(<<"lookup", "grant">>, {g[1]}, "read"))
      BY AdmitReady
    <3> QED BY <2>2, <3>1, OneBlock DEF validateUser
  <2>3. \E g \in granted :
         \/ r = refreshToken(g[1])
         \/ r = validateUser(g[1])
    BY <1>3
  <2> QED BY <2>1, <2>2, <2>3, Zenon
<1>4. AuthRequests = R1 \cup R2 \cup R3
  BY DEF AuthRequests
<1> HIDE DEF R1, R2, R3
<1> QED BY <1>1, <1>2, <1>3, <1>4

-----------------------------------------------------------------------------
(* How the queue of a request moves *)

Goes(c, a) == call' = [call EXCEPT ![c] = <<a>> \o Tail(@)]
Drops(c) == call' = [call EXCEPT ![c] = Tail(@)]
Rest(b) == [b EXCEPT !.steps = Tail(@)]
Queues == call \in [Calls -> Seq(AnyBlock)]

LEMMA ResumeIs ==
    ASSUME NEW c, NEW b, NEW ok, Resume(c, b, ok)
    PROVE  (ok /\ Rest(b).steps # <<>> /\ Goes(c, Rest(b))) \/ ((~ok \/ Rest(b).steps = <<>>) /\ Drops(c))
BY DEF Resume, Rest, Goes, Drops

LEMMA RestIs ==
    ASSUME NEW b \in AnyBlock, b.steps # <<>>
    PROVE  /\ Rest(b) \in AnyBlock /\ Rest(b).steps = Tail(b.steps) /\ Rest(b).ids = b.ids
           /\ Rest(b).what = b.what /\ Rest(b).set = b.set /\ Rest(b).add = b.add /\ Rest(b).drop = b.drop
           /\ Rest(b).complete = b.complete /\ Rest(b).clear = b.clear
<1>1. b.steps \in Seq(Awaits) /\ Tail(b.steps) \in Seq(Awaits)
  BY DEF AnyBlock
<1> QED BY <1>1 DEF Rest, AnyBlock

LEMMA GoesOn ==
    ASSUME Queues, NEW c \in Calls, call[c] # <<>>, NEW a \in AnyBlock, Goes(c, a)
    PROVE  /\ Queues'
           /\ \A d \in Calls : DOMAIN call'[d] = DOMAIN call[d]
           /\ \A d \in Calls : \A n \in DOMAIN call[d] : call'[d][n] = IF d = c /\ n = 1 THEN a ELSE call[d][n]
<1>1. call[c] \in Seq(AnyBlock) /\ Tail(call[c]) \in Seq(AnyBlock)
  BY DEF Queues
<1> DEFINE new == <<a>> \o Tail(call[c])
<1>2. new \in Seq(AnyBlock) /\ DOMAIN new = DOMAIN call[c]
  BY <1>1
<1>3. \A n \in DOMAIN call[c] : new[n] = IF n = 1 THEN a ELSE call[c][n]
  BY <1>1
<1>4. call' = [call EXCEPT ![c] = new]
  BY DEF Goes
<1> HIDE DEF new
<1> QED BY <1>2, <1>3, <1>4 DEF Queues

LEMMA DropsOne ==
    ASSUME Queues, NEW c \in Calls, call[c] # <<>>, Drops(c)
    PROVE  /\ Queues'
           /\ \A d \in Calls : d # c => call'[d] = call[d]
           /\ \A n \in DOMAIN call'[c] : n \in Nat \ {0} /\ n + 1 \in DOMAIN call[c] /\
                call'[c][n] = call[c][n + 1]
<1>1. call[c] \in Seq(AnyBlock) /\ Tail(call[c]) \in Seq(AnyBlock)
  BY DEF Queues
<1>2. call' = [call EXCEPT ![c] = Tail(call[c])]
  BY DEF Drops
<1>3. \A n \in DOMAIN Tail(call[c]) : n \in Nat \ {0} /\ n + 1 \in DOMAIN call[c] /\
        Tail(call[c])[n] = call[c][n + 1]
  BY <1>1
<1> QED BY <1>1, <1>2, <1>3 DEF Queues

(* A block of a request was there before, in its turn, or is the rest of the first. *)
LEMMA BlocksMove ==
    ASSUME Queues, Apart, InTurn, NEW c \in Calls, call[c] # <<>>, NEW a \in AnyBlock,
           Saving(a) => Saving(call[c][1]) /\ a.ids = call[c][1].ids,
           Goes(c, a) \/ Drops(c)
    PROVE  /\ Queues' /\ Apart' /\ InTurn'
           /\ \A d \in Calls : \A n \in DOMAIN call'[d] :
                  \/ Goes(c, a) /\ d = c /\ call'[d][n] = a
                  \/ \E m \in DOMAIN call[d] : ~(d = c /\ m = 1) /\ call'[d][n] = call[d][m]
<1>1. CASE Goes(c, a)
  <2>1. /\ Queues' /\ \A d \in Calls : DOMAIN call'[d] = DOMAIN call[d]
        /\ \A d \in Calls : \A n \in DOMAIN call[d] : call'[d][n] = IF d = c /\ n = 1 THEN a ELSE call[d][n]
    BY <1>1, GoesOn
  <2>2. \A d \in Calls : \A n \in DOMAIN call[d] :
            Saving(call'[d][n]) => Saving(call[d][n]) /\ call'[d][n].ids = call[d][n].ids
    BY <2>1
  <2>3. Apart'
    BY <2>1, <2>2 DEF Apart
  <2>4. InTurn'
    BY <2>1 DEF InTurn
  <2> QED BY <1>1, <2>1, <2>3, <2>4
<1>2. CASE Drops(c)
  <2>1. /\ Queues' /\ \A d \in Calls : d # c => call'[d] = call[d]
        /\ \A n \in DOMAIN call'[c] : n \in Nat \ {0} /\ n + 1 \in DOMAIN call[c] /\ call'[c][n] = call[c][n + 1]
    BY <1>2, DropsOne
  <2> DEFINE Was(d, n) == IF d = c THEN n + 1 ELSE n
  <2>2. \A d \in Calls : \A n \in DOMAIN call'[d] :
            Was(d, n) \in DOMAIN call[d] /\ call'[d][n] = call[d][Was(d, n)] /\ ~(d = c /\ Was(d, n) = 1)
    BY <2>1
  <2>3. \A d \in Calls : \A m, n \in DOMAIN call'[d] : Was(d, m) = Was(d, n) => m = n
    BY <2>1
  <2>4. \A d \in Calls : \A n \in DOMAIN call'[d] : n # 1 => Was(d, n) # 1
    BY <2>1
  <2> HIDE DEF Was
  <2>5. Apart'
    BY <2>2, <2>3 DEF Apart
  <2>6. InTurn'
    BY <2>2, <2>4 DEF InTurn
  <2> QED BY <2>1, <2>2, <2>5, <2>6
<1> QED BY <1>1, <1>2

(* The inductive invariant before a step of the first block b of the request c.   *)
Turn(c, b) == AccessInv /\ c \in Calls /\ call[c] # <<>> /\ b = Head(call[c])

LEMMA TurnIs ==
    ASSUME NEW c, NEW b, Turn(c, b)
    PROVE  /\ c \in Calls /\ Queues /\ Apart /\ InTurn /\ call[c] # <<>>
           /\ 1 \in DOMAIN call[c] /\ b = call[c][1] /\ b \in AnyBlock /\ b.ids \subseteq Ids
           /\ Good(b, docs, born, loose, cleaned) /\ Plan(b)
<1>1. Queues /\ Apart /\ InTurn /\ Blocks /\ c \in Calls /\ call[c] # <<>> /\ b = Head(call[c])
  BY DEF Turn, AccessInv, Typed, Queues
<1>2. 1 \in DOMAIN call[c] /\ b = call[c][1] /\ b \in AnyBlock
  BY <1>1 DEF Queues
<1>3. Good(b, docs, born, loose, cleaned)
  BY <1>1, <1>2 DEF Blocks
<1>4. Plan(b)
  BY <1>3 DEF Good
<1>5. b.ids \subseteq Ids
  BY <1>2 DEF AnyBlock
<1> QED BY <1>1, <1>2, <1>3, <1>4, <1>5

(* Where the other blocks stay good and the rest of this one is, all are.         *)
LEMMA BlocksStayGood ==
    ASSUME NEW c, NEW b, Turn(c, b), NEW a \in AnyBlock, Saving(a) => Saving(b) /\ a.ids = b.ids,
           (Goes(c, a) /\ Good(a, docs', born', loose', cleaned')) \/ Drops(c),
           \A d \in Calls : \A m \in DOMAIN call[d] :
               ~(d = c /\ m = 1) => Good(call[d][m], docs', born', loose', cleaned')
    PROVE  Queues' /\ Blocks' /\ Apart' /\ InTurn'
<1>1. /\ Queues' /\ Apart' /\ InTurn'
      /\ \A d \in Calls : \A n \in DOMAIN call'[d] :
                  \/ Goes(c, a) /\ d = c /\ call'[d][n] = a
                  \/ \E m \in DOMAIN call[d] : ~(d = c /\ m = 1) /\ call'[d][n] = call[d][m]
  BY TurnIs, BlocksMove
<1>2. Goes(c, a) => Good(a, docs', born', loose', cleaned') \/ Drops(c)
  OBVIOUS
<1>3. CASE Good(a, docs', born', loose', cleaned')
  BY <1>1, <1>3 DEF Blocks
<1>4. CASE Drops(c)
  <2>1. /\ \A d \in Calls : d # c => call'[d] = call[d]
        /\ \A n \in DOMAIN call'[c] : n \in Nat \ {0} /\ n + 1 \in DOMAIN call[c] /\ call'[c][n] = call[c][n + 1]
    BY <1>4, TurnIs, DropsOne
  <2>2. \A n \in DOMAIN call'[c] : n + 1 # 1 /\ Good(call'[c][n], docs', born', loose', cleaned')
    BY <2>1, TurnIs
  <2> QED BY <1>1, <2>1, <2>2 DEF Blocks
<1> QED BY <1>1, <1>2, <1>3, <1>4

(* What the other requests owe the log they still owe, and so does this one, if   *)
(* it was not about to log.                                                       *)
LEMMA OwingStays ==
    ASSUME NEW c, NEW b, Turn(c, b), NEW a \in AnyBlock, Goes(c, a) \/ Drops(c), NEW i, NEW d \in Calls,
             Owing(d, i)
    PROVE  Owing(d, i)' \/ (d = c /\ b.what = "deleted" /\ Head(b.steps) = "log" /\ i \in b.ids)
<1>1. CASE d = c
  BY <1>1 DEF Owing, Turn
<1>2. CASE d # c
  <2>1. call'[d] = call[d]
    BY <1>2, TurnIs DEF Goes, Drops, Queues
  <2> QED BY <2>1 DEF Owing
<1> QED BY <1>1, <1>2

-----------------------------------------------------------------------------
(* The steps a block can have left *)

Deletion(s) ==
    \/ s = <<"find", "unheld", "remove", "log">>
    \/ s = <<"unheld", "remove", "log">>
    \/ s = <<"find", "remove", "log">>
    \/ s = <<"collect", "remove", "log">>
    \/ s = <<"remove", "log">>
    \/ s = <<"log">>
Creation(s) ==
    \/ s = <<"find", "absent", "save", "log">>
    \/ s = <<"absent", "save", "log">>
    \/ s = <<"absent", "save">>
    \/ s = <<"find", "save", "log">>
    \/ s = <<"save", "log">>
    \/ s = <<"save">>
    \/ s = <<"absent", "save", "grant">>
    \/ s = <<"save", "grant">>
    \/ s = <<"grant">>
    \/ s = <<"log">>
Update(s) ==
    \/ s = <<"find", "absent", "write", "log">>
    \/ s = <<"absent", "write", "log">>
    \/ s = <<"writeAll", "log">>
    \/ s = <<"log">>
    \/ s = <<"find", "exist", "write", "log">>
    \/ s = <<"exist", "write", "log">>
    \/ s = <<"find", "write", "log">>
    \/ s = <<"write", "log">>
    \/ s = <<"put", "log">>
    \/ s = <<"match", "write">>
    \/ s = <<"write">>
Reading(s) ==
    \/ s = <<"find">>
    \/ s = <<"find", "log">>
    \/ s = <<"log">>
    \/ s = <<"write">>
    \/ s = <<"find", "write">>
    \/ s = <<"lookup", "write", "grant">>
    \/ s = <<"write", "grant">>
    \/ s = <<"lookup", "grant">>
    \/ s = <<"grant">>

LEMMA StepsAre ==
    ASSUME NEW b, Plan(b)
    PROVE  \/ b.what = "deleted" /\ Deletes(b) /\ Deletion(b.steps)
           \/ b.what = "created" /\ Creates(b) /\ Creation(b.steps)
           \/ b.what = "updated" /\ Updates(b) /\ Update(b.steps)
           \/ b.what = "read" /\ Reads(b) /\ Reading(b.steps)
<1>1. ASSUME Deletes(b) PROVE Deletion(b.steps)
  BY <1>1 DEF Deletes, Counting, Deletion
<1>2. ASSUME Creates(b) PROVE Creation(b.steps)
  BY <1>2 DEF Creates, Unchecked, Sheltered, Registers, Creation
<1>3. ASSUME Updates(b) PROVE Update(b.steps)
  BY <1>3 DEF Updates, Writes, Update
<1>4. ASSUME Reads(b) PROVE Reading(b.steps)
  BY <1>4 DEF Reads, Admits, Reading
<1> QED BY <1>1, <1>2, <1>3, <1>4 DEF Plan

LEMMA FirstOfMany ==
    /\ \A x : Head(<<x>>) = x /\ Tail(<<x>>) = <<>> /\ <<x>> # <<>>
    /\ \A x, y : Head(<<x, y>>) = x /\ Tail(<<x, y>>) = <<y>> /\ <<x, y>> # <<>>
    /\ \A x, y, z : Head(<<x, y, z>>) = x /\ Tail(<<x, y, z>>) = <<y, z>> /\ <<x, y, z>> # <<>>
    /\ \A x, y, z, w : Head(<<x, y, z, w>>) = x /\ Tail(<<x, y, z, w>>) = <<y, z, w>> /\ <<x, y, z, w>> # <<>>
OBVIOUS

(* Which steps begin with each await. *)
LEMMA DeletionHeads ==
    ASSUME NEW s, Deletion(s)
    PROVE  /\ s # <<>>
           /\ Head(s) = "find" => s = <<"find", "unheld", "remove", "log">> \/ s = <<"find", "remove", "log">>
           /\ Head(s) = "unheld" => s = <<"unheld", "remove", "log">>
           /\ Head(s) = "collect" => s = <<"collect", "remove", "log">>
           /\ Head(s) = "remove" => s = <<"remove", "log">>
           /\ Head(s) = "log" => s = <<"log">>
           /\ Head(s) \in {"find", "unheld", "collect", "remove", "log"}
BY FirstOfMany DEF Deletion

LEMMA CreationHeads ==
    ASSUME NEW s, Creation(s)
    PROVE  /\ s # <<>>
           /\ Head(s) = "find" => s = <<"find", "absent", "save", "log">> \/ s = <<"find", "save", "log">>
           /\ Head(s) = "absent" => s = <<"absent", "save", "log">> \/ s = <<"absent", "save">> \/
                s = <<"absent", "save", "grant">>
           /\ Head(s) = "save" => s = <<"save", "log">> \/ s = <<"save">> \/ s = <<"save", "grant">>
           /\ Head(s) = "grant" => s = <<"grant">>
           /\ Head(s) = "log" => s = <<"log">>
           /\ Head(s) \in {"find", "absent", "save", "grant", "log"}
BY FirstOfMany DEF Creation

LEMMA UpdateHeads ==
    ASSUME NEW s, Update(s)
    PROVE  /\ s # <<>>
           /\ Head(s) = "find" => s = <<"find", "absent", "write", "log">> \/
                s = <<"find", "exist", "write", "log">> \/ s = <<"find", "write", "log">>
           /\ Head(s) = "absent" => s = <<"absent", "write", "log">>
           /\ Head(s) = "writeAll" => s = <<"writeAll", "log">>
           /\ Head(s) = "log" => s = <<"log">>
           /\ Head(s) = "exist" => s = <<"exist", "write", "log">>
           /\ Head(s) = "write" => s = <<"write", "log">> \/ s = <<"write">>
           /\ Head(s) = "put" => s = <<"put", "log">>
           /\ Head(s) = "match" => s = <<"match", "write">>
           /\ Head(s) \in {"find", "absent", "writeAll", "log", "exist", "write", "put", "match"}
BY FirstOfMany DEF Update

LEMMA ReadingHeads ==
    ASSUME NEW s, Reading(s)
    PROVE  /\ s # <<>>
           /\ Head(s) = "find" => s = <<"find">> \/ s = <<"find", "log">> \/ s = <<"find", "write">>
           /\ Head(s) = "log" => s = <<"log">>
           /\ Head(s) = "write" => s = <<"write">> \/ s = <<"write", "grant">>
           /\ Head(s) = "lookup" => s = <<"lookup", "write", "grant">> \/ s = <<"lookup", "grant">>
           /\ Head(s) = "grant" => s = <<"grant">>
           /\ Head(s) \in {"find", "log", "write", "lookup", "grant"}
BY FirstOfMany DEF Reading

(* What is left of each after its first. *)
LEMMA Tails ==
    /\ Tail(<<"find", "absent", "save", "log">>) = <<"absent", "save", "log">>
    /\ Tail(<<"find", "absent", "write", "log">>) = <<"absent", "write", "log">>
    /\ Tail(<<"find", "exist", "write", "log">>) = <<"exist", "write", "log">>
    /\ Tail(<<"find", "unheld", "remove", "log">>) = <<"unheld", "remove", "log">>
    /\ Tail(<<"absent", "save", "grant">>) = <<"save", "grant">>
    /\ Tail(<<"absent", "save", "log">>) = <<"save", "log">>
    /\ Tail(<<"absent", "write", "log">>) = <<"write", "log">>
    /\ Tail(<<"collect", "remove", "log">>) = <<"remove", "log">>
    /\ Tail(<<"exist", "write", "log">>) = <<"write", "log">>
    /\ Tail(<<"find", "remove", "log">>) = <<"remove", "log">>
    /\ Tail(<<"find", "save", "log">>) = <<"save", "log">>
    /\ Tail(<<"find", "write", "log">>) = <<"write", "log">>
    /\ Tail(<<"lookup", "write", "grant">>) = <<"write", "grant">>
    /\ Tail(<<"unheld", "remove", "log">>) = <<"remove", "log">>
    /\ Tail(<<"absent", "save">>) = <<"save">>
    /\ Tail(<<"find", "log">>) = <<"log">>
    /\ Tail(<<"find", "write">>) = <<"write">>
    /\ Tail(<<"lookup", "grant">>) = <<"grant">>
    /\ Tail(<<"match", "write">>) = <<"write">>
    /\ Tail(<<"put", "log">>) = <<"log">>
    /\ Tail(<<"remove", "log">>) = <<"log">>
    /\ Tail(<<"save", "grant">>) = <<"grant">>
    /\ Tail(<<"save", "log">>) = <<"log">>
    /\ Tail(<<"write", "grant">>) = <<"grant">>
    /\ Tail(<<"write", "log">>) = <<"log">>
    /\ Tail(<<"writeAll", "log">>) = <<"log">>
    /\ Tail(<<"find">>) = <<>>
    /\ Tail(<<"grant">>) = <<>>
    /\ Tail(<<"log">>) = <<>>
    /\ Tail(<<"save">>) = <<>>
    /\ Tail(<<"write">>) = <<>>
OBVIOUS

(* A block that goes on keeps to its plan; a look-up it needs leaves it clear.     *)
Follows(a, b) ==
    /\ a \in AnyBlock /\ a.steps = Tail(b.steps) /\ a.ids = b.ids /\ a.what = b.what /\ a.set = b.set
    /\ a.add = b.add /\ a.complete = b.complete /\ (b.clear => a.clear)
    /\ Head(b.steps) \in {"absent", "lookup"} => a.clear

LEMMA DeletionGoesOn ==
    ASSUME NEW b, NEW a, Follows(a, b), Deletes(b), Deletion(b.steps), Tail(b.steps) # <<>>
    PROVE  Deletes(a)
<1>1. CASE b.steps \in Counting
  <2>1. b.steps = <<"find", "unheld", "remove", "log">> \/ b.steps = <<"unheld", "remove", "log">>
    BY <1>1 DEF Counting
  <2>2. a.steps = <<"unheld", "remove", "log">> \/ a.steps = <<"remove", "log">>
    BY <2>1, Tails DEF Follows
  <2>3. b.ids \subseteq Roles \/ b.ids \subseteq Permissions
    BY <1>1, <2>1 DEF Deletes, Counting
  <2> QED BY <2>2, <2>3 DEF Deletes, Counting, Follows
<1>2. CASE b.steps = <<"find", "remove", "log">> \/ b.steps = <<"collect", "remove", "log">>
  BY <1>2, Tails DEF Deletes, Follows
<1>3. CASE b.steps = <<"remove", "log">>
  BY <1>3, Tails DEF Deletes, Follows
<1>4. b.steps # <<"log">>
  BY Tails
<1> QED BY <1>1, <1>2, <1>3, <1>4 DEF Deletes

LEMMA CreationGoesOn ==
    ASSUME NEW b, NEW a, Follows(a, b), Creates(b), Creation(b.steps), Tail(b.steps) # <<>>
    PROVE  Creates(a)
<1>1. (\E i \in Ids : a.ids = {i}) /\ a.set \in Docs
  BY DEF Creates, Follows
<1>2. CASE b.steps \in Sheltered
  <2>1. \/ b.steps = <<"find", "absent", "save", "log">>
        \/ b.steps = <<"absent", "save", "log">> \/ b.steps = <<"absent", "save">>
    BY <1>2 DEF Sheltered
  <2>2. Head(<<"absent", "save", "log">>) = "absent" /\ Head(<<"absent", "save">>) = "absent"
    OBVIOUS
  <2>3. \/ a.steps = <<"absent", "save", "log">>
        \/ a.steps = <<"save", "log">> /\ a.clear
        \/ a.steps = <<"save">> /\ a.clear
    BY <2>1, <2>2, Tails DEF Follows
  <2> QED BY <1>1, <2>3 DEF Creates, Sheltered, Unchecked
<1>3. CASE b.steps \in Unchecked
  <2>1. \/ b.steps = <<"find", "save", "log">> \/ b.steps = <<"save", "log">> \/ b.steps = <<"save">>
    BY <1>3 DEF Unchecked
  <2>2. a.steps = <<"save", "log">> \/ a.steps = <<"log">>
    BY <2>1, Tails DEF Follows
  <2>3. b.complete /\ b.ids \cap Permissions # {} => b.clear
    BY <2>1 DEF Creates, Unchecked, Sheltered, Registers
  <2> QED BY <1>1, <2>2, <2>3 DEF Creates, Unchecked, Follows
<1>4. CASE b.steps \in Registers
  <2>1. b.steps = <<"absent", "save", "grant">> \/ b.steps = <<"save", "grant">>
    BY <1>4 DEF Registers
  <2>2. b.steps \notin Sheltered /\ b.steps \notin Unchecked /\ b.steps # <<"log">> /\ b.steps # <<"grant">>
    <3>1. CASE b.steps = <<"absent", "save", "grant">>
      <4>1. b.steps[3] = "grant" /\ b.steps[2] = "save" /\ Len(b.steps) = 3
        BY <3>1
      <4>2. b.steps \notin Sheltered
        BY <4>1 DEF Sheltered
      <4>3. b.steps \notin Unchecked
        BY <4>1 DEF Unchecked
      <4> QED BY <3>1, <4>2, <4>3
    <3>2. CASE b.steps = <<"save", "grant">>
      <4>1. b.steps[2] = "grant" /\ Len(b.steps) = 2
        BY <3>2
      <4>2. b.steps \notin Sheltered
        BY <4>1 DEF Sheltered
      <4>3. b.steps \notin Unchecked
        BY <4>1 DEF Unchecked
      <4> QED BY <3>2, <4>2, <4>3
    <3> QED BY <2>1, <3>1, <3>2
  <2>3. b.ids \subseteq Users /\ (b.steps = <<"save", "grant">> => b.clear)
    BY <2>2 DEF Creates
  <2>4. Head(<<"absent", "save", "grant">>) = "absent"
    OBVIOUS
  <2>5. (a.steps = <<"save", "grant">> \/ a.steps = <<"grant">>) /\ a.clear
    BY <2>1, <2>3, <2>4, Tails DEF Follows
  <2> QED BY <1>1, <2>3, <2>5 DEF Creates, Registers, Follows
<1>5. b.steps # <<"log">> /\ b.steps # <<"grant">>
  BY Tails
<1> QED BY <1>2, <1>3, <1>4, <1>5 DEF Creates

LEMMA UpdateGoesOn ==
    ASSUME NEW b, NEW a, Follows(a, b), Updates(b), Update(b.steps), Tail(b.steps) # <<>>
    PROVE  Updates(a)
<1>1. CASE \/ b.steps = <<"find", "absent", "write", "log">> \/ b.steps = <<"absent", "write", "log">>
           \/ b.steps = <<"writeAll", "log">>
  <2>1. Head(<<"absent", "write", "log">>) = "absent"
    OBVIOUS
  <2>2. \/ a.steps = <<"absent", "write", "log">>
        \/ a.steps = <<"write", "log">> /\ a.clear
        \/ a.steps = <<"log">>
    BY <1>1, <2>1, Tails DEF Follows
  <2> QED BY <2>2 DEF Updates, Writes
<1>2. CASE b.steps \in Writes
  <2>1. b.clear \/ ~Asks(b.set)
    BY <1>2 DEF Updates, Writes
  <2>2. a.clear \/ ~Asks(a.set)
    BY <2>1 DEF Follows
  <2>3. \/ b.steps = <<"find", "exist", "write", "log">> \/ b.steps = <<"exist", "write", "log">>
        \/ b.steps = <<"find", "write", "log">> \/ b.steps = <<"write", "log">>
        \/ b.steps = <<"put", "log">> \/ b.steps = <<"match", "write">> \/ b.steps = <<"write">>
    BY <1>2 DEF Writes
  <2>4. \/ a.steps = <<"exist", "write", "log">> \/ a.steps = <<"write", "log">>
        \/ a.steps = <<"log">> \/ a.steps = <<"write">>
    BY <2>3, Tails DEF Follows
  <2> QED BY <2>2, <2>4 DEF Updates, Writes
<1>3. b.steps # <<"log">>
  BY Tails
<1> QED BY <1>1, <1>2, <1>3 DEF Updates

LEMMA ReadingGoesOn ==
    ASSUME NEW b, NEW a, Follows(a, b), Reads(b), Reading(b.steps), Tail(b.steps) # <<>>
    PROVE  Reads(a)
<1>1. DOMAIN a.set = {} /\ a.add = {}
  BY DEF Reads, Follows
<1>2. CASE b.steps \in Admits
  <2>1. \/ b.steps = <<"lookup", "write", "grant">> \/ b.steps = <<"write", "grant">>
        \/ b.steps = <<"lookup", "grant">>
    BY <1>2, Tails DEF Admits
  <2>2. b.steps \notin {<<"find">>, <<"find", "log">>, <<"log">>, <<"write">>, <<"find", "write">>}
    BY <2>1
  <2>3. b.ids \subseteq Users /\ (b.steps = <<"write", "grant">> => b.clear)
    BY <2>2 DEF Reads
  <2>4. Head(<<"lookup", "write", "grant">>) = "lookup" /\ Head(<<"lookup", "grant">>) = "lookup"
    OBVIOUS
  <2>5. (a.steps = <<"write", "grant">> \/ a.steps = <<"grant">>) /\ a.clear
    BY <2>1, <2>3, <2>4, Tails DEF Follows
  <2> QED BY <1>1, <2>3, <2>5 DEF Reads, Admits, Follows
<1>3. CASE b.steps = <<"find", "log">> \/ b.steps = <<"find", "write">>
  <2>1. a.steps = <<"log">> \/ a.steps = <<"write">>
    BY <1>3, Tails DEF Follows
  <2> QED BY <1>1, <2>1 DEF Reads
<1>4. b.steps # <<"log">> /\ b.steps # <<"find">> /\ b.steps # <<"write">>
  BY Tails
<1> QED BY <1>2, <1>3, <1>4 DEF Reads

LEMMA PlanGoesOn ==
    ASSUME NEW b, NEW a, Plan(b), Follows(a, b), Tail(b.steps) # <<>>
    PROVE  Plan(a)
<1>1. a \in AnyBlock /\ a.what = b.what /\ Fits(a)
  BY DEF Follows, Plan, Fits
<1> QED BY <1>1, StepsAre, DeletionGoesOn, CreationGoesOn, UpdateGoesOn, ReadingGoesOn DEF Plan

(* The rest of a block that only read is as good as the block was.                 *)
Held(D) == \A h \in Present(D) : D[h].refs \subseteq References(h)

LEMMA SavingGoesOn ==
    ASSUME NEW b, NEW a, Plan(b), Follows(a, b), Tail(b.steps) # <<>>
    PROVE  Saving(a) => Saving(b) /\ a.ids = b.ids
<1> SUFFICES ASSUME b.what = "created"
             PROVE  Saving(b) /\ a.ids = b.ids
  BY DEF Saving, Follows
<1>1. Creates(b)
  BY DEF Plan
<1>2. b.steps # <<"log">> /\ b.steps # <<"grant">>
  BY Tails
<1> QED BY <1>1, <1>2 DEF Creates, Saving, Follows

LEMMA NobodyHoldsUsers ==
    ASSUME NEW S, S \subseteq Users, NEW D, NEW L, NEW C, Held(D)
    PROVE  Covered(S, D, L, C)
BY KindsAreApart DEF Covered, Held, References, Present

LEMMA GoodGoesOn ==
    ASSUME NEW b, NEW a, NEW D, NEW B, NEW L, NEW C, Good(b, D, B, L, C), Follows(a, b), Tail(b.steps) # <<>>,
           Held(D), Head(b.steps) \notin {"remove", "collect"},
           b.steps = <<"unheld", "remove", "log">> => Covered(b.ids, D, L, C)
    PROVE  Good(a, D, B, L, C) /\ (Saving(a) => Saving(b) /\ a.ids = b.ids)
<1>1. Plan(b) /\ Plan(a)
  BY PlanGoesOn DEF Good
<1>2. Saving(a) => Saving(b) /\ a.ids = b.ids
  BY <1>1, SavingGoesOn
<1>3. Saving(a) => a.ids \cap B = {}
  BY <1>2 DEF Good
<1>4. a.what = "deleted" => a.ids \subseteq B
  BY DEF Good, Follows
<1>5. ASSUME a.what = "deleted"
      PROVE  (a.steps = <<"remove", "log">> => Covered(a.ids, D, L, C)) /\ a.steps # <<"log">>
  <2>1. b.what = "deleted" /\ Deletes(b) /\ a.ids = b.ids /\ a.steps = Tail(b.steps)
    BY <1>1, <1>5 DEF Plan, Follows
  <2>2. b.steps # <<"log">> /\ b.steps # <<"remove", "log">> /\ b.steps # <<"collect", "remove", "log">>
    <3>1. Tail(<<"log">>) = <<>> /\ Head(<<"remove", "log">>) = "remove"
          /\ Head(<<"collect", "remove", "log">>) = "collect"
      OBVIOUS
    <3> QED BY <3>1
  <2>3. CASE b.steps \in Counting
    <3>1. b.steps = <<"find", "unheld", "remove", "log">> \/ b.steps = <<"unheld", "remove", "log">>
      BY <2>3 DEF Counting
    <3>2. CASE b.steps = <<"find", "unheld", "remove", "log">>
      <4>1. a.steps = <<"unheld", "remove", "log">>
        BY <2>1, <3>2, Tails
      <4> QED BY <4>1
    <3>3. CASE b.steps = <<"unheld", "remove", "log">>
      <4>1. a.steps = <<"remove", "log">> /\ Covered(a.ids, D, L, C)
        BY <2>1, <3>3, Tails
      <4> QED BY <4>1
    <3> QED BY <3>1, <3>2, <3>3
  <2>4. CASE b.steps = <<"find", "remove", "log">> /\ b.ids \subseteq Users
    <3>1. a.steps = <<"remove", "log">> /\ Covered(a.ids, D, L, C)
      BY <2>1, <2>4, Tails, NobodyHoldsUsers
    <3> QED BY <3>1
  <2> QED BY <2>1, <2>2, <2>3, <2>4 DEF Deletes
<1> QED BY <1>1, <1>2, <1>3, <1>4, <1>5 DEF Good

(* A step that reads, and leaves a good rest or none.                              *)
Still == UNCHANGED <<docs, log, made, born, loose, raced, unlogged, cleaned, granted>>

LEMMA StillIs ==
    ASSUME Still
    PROVE  /\ docs' = docs /\ log' = log /\ made' = made /\ born' = born /\ loose' = loose /\ raced' = raced
           /\ unlogged' = unlogged /\ cleaned' = cleaned /\ granted' = granted
BY DEF Still

LEMMA ReadingKeeps ==
    ASSUME NEW c, NEW b, Turn(c, b), NEW a \in AnyBlock, Head(b.steps) # "log", Still,
           Saving(a) => Saving(b) /\ a.ids = b.ids,
           (Goes(c, a) /\ Good(a, docs, born, loose, cleaned)) \/ Drops(c)
    PROVE  AccessInv'
<1>1. /\ docs' = docs /\ log' = log /\ made' = made /\ born' = born /\ loose' = loose /\ raced' = raced
      /\ unlogged' = unlogged /\ cleaned' = cleaned /\ granted' = granted
  BY StillIs
<1>2. AccessInv /\ \A d \in Calls : \A m \in DOMAIN call[d] : Good(call[d][m], docs, born, loose, cleaned)
  BY DEF Turn, AccessInv, Blocks
<1>3. Queues' /\ Blocks' /\ Apart' /\ InTurn'
  BY <1>1, <1>2, BlocksStayGood
<1>4. Typed' /\ LogIsTrue' /\ Covered(Ids \ Present(docs), docs, loose, cleaned)' /\ PairsAreDistinct' /\
        GrantedWereActive'
  BY <1>1, <1>2, <1>3 DEF AccessInv, Typed, LogIsTrue, Queues, PairsAreDistinct, GrantedWereActive, Stored
<1>5. Accounted'
  <2> SUFFICES ASSUME NEW i \in born \ Present(docs)
               PROVE  <<"deleted", i>> \in log \cup unlogged \/ \E d \in Calls : Owing(d, i)'
    BY <1>1 DEF Accounted
  <2>1. <<"deleted", i>> \in log \cup unlogged \/ \E d \in Calls : Owing(d, i)
    BY <1>2 DEF AccessInv, Accounted
  <2> QED BY <2>1, OwingStays
<1> QED BY <1>3, <1>4, <1>5 DEF AccessInv

(* A turn whose first await is known. *)
LEMMA TurnSteps ==
    ASSUME NEW c, NEW b, Turn(c, b)
    PROVE  b \in AnyBlock /\ Plan(b) /\ b.steps # <<>> /\ Held(docs)
<1>1. b \in AnyBlock /\ Plan(b)
  BY TurnIs
<1>2. b.steps # <<>>
  BY <1>1, StepsAre, DeletionHeads, CreationHeads, UpdateHeads, ReadingHeads
<1> QED BY <1>1, <1>2 DEF Turn, AccessInv, Typed, Held

LEMMA AskingKeeps ==
    ASSUME NEW c, NEW b, Turn(c, b), NEW x, x.steps = b.steps, NEW ok, Resume(c, x, ok), Still,
           x \in AnyBlock, ok => Follows(Rest(x), b),
           Head(b.steps) \notin {"log", "remove", "collect"},
           ok /\ b.steps = <<"unheld", "remove", "log">> => Covered(b.ids, docs, loose, cleaned)
    PROVE  AccessInv'
<1> DEFINE a == Rest(x)
<1>1. b \in AnyBlock /\ Plan(b) /\ b.steps # <<>> /\ Held(docs) /\ Good(b, docs, born, loose, cleaned)
  BY TurnSteps, TurnIs
<1>2. a \in AnyBlock /\ a.steps = Tail(b.steps)
  BY <1>1, RestIs
<1>3. (ok /\ a.steps # <<>> /\ Goes(c, a)) \/ Drops(c)
  BY ResumeIs
<1> HIDE DEF a
<1>4. CASE ok /\ a.steps # <<>> /\ Goes(c, a)
  <2>1. Good(a, docs, born, loose, cleaned) /\ (Saving(a) => Saving(b) /\ a.ids = b.ids)
    BY <1>1, <1>2, <1>4, GoodGoesOn DEF a
  <2> QED BY <1>2, <1>4, <2>1, ReadingKeeps
<1>5. CASE Drops(c)
  <2>1. b \in AnyBlock /\ (Saving(b) => Saving(b) /\ b.ids = b.ids)
    BY <1>1
  <2> QED BY <1>5, <2>1, ReadingKeeps
<1> QED BY <1>3, <1>4, <1>5

(* The steps that read *)

LEMMA RunningTurn ==
    ASSUME AccessInv, NEW c \in Calls, NEW b, NEW step, Running(c, b, step)
    PROVE  Turn(c, b) /\ Head(b.steps) = step /\ b \in AnyBlock /\ b.steps # <<>>
<1>1. Turn(c, b)
  BY DEF Running, Turn
<1> QED BY <1>1, TurnSteps DEF Running

LEMMA RestFollows ==
    ASSUME NEW b \in AnyBlock, b.steps # <<>>, Head(b.steps) \notin {"absent", "lookup"}
    PROVE  Follows(Rest(b), b)
BY RestIs DEF Follows

LEMMA AskKeeps ==
    ASSUME AccessInv, NEW c \in Calls, NEW b, NEW step, Running(c, b, step), NEW ok, Resume(c, b, ok), Still,
           step \in {"exist", "unheld", "match"},
           ok /\ step = "unheld" => Holders(b.ids) = {}
    PROVE  AccessInv'
<1>1. Turn(c, b) /\ Head(b.steps) = step /\ b \in AnyBlock /\ b.steps # <<>>
  BY RunningTurn
<1>2. Follows(Rest(b), b)
  BY <1>1, RestFollows
<1>3. ASSUME ok, b.steps = <<"unheld", "remove", "log">> PROVE Covered(b.ids, docs, loose, cleaned)
  <2>1. Plan(b) /\ Held(docs) /\ Holders(b.ids) = {}
    <3>1. Head(<<"unheld", "remove", "log">>) = "unheld"
      OBVIOUS
    <3> QED BY <1>1, <1>3, <3>1, TurnSteps
  <2>2. b.ids \subseteq Roles \/ b.ids \subseteq Permissions
    <3>1. b.what = "deleted"
      <4>1. ~Creation(b.steps) /\ ~Update(b.steps) /\ ~Reading(b.steps)
        BY <1>1, <1>3, CreationHeads, UpdateHeads, ReadingHeads
      <4> QED BY <2>1, <4>1, StepsAre
    <3>2. Deletes(b)
      BY <2>1, <3>1 DEF Plan
    <3>3. /\ <<"unheld", "remove", "log">> # <<"find", "remove", "log">>
          /\ <<"unheld", "remove", "log">> \notin {<<"collect", "remove", "log">>, <<"remove", "log">>, <<"log">>}
      OBVIOUS
    <3> QED BY <1>3, <3>2, <3>3 DEF Deletes
  <2>3. SUFFICES ASSUME NEW h \in Present(docs), NEW y \in b.ids, y \in docs[h].refs
                 PROVE  h \in Users /\ y \in Permissions
    BY DEF Covered, Excused
  <2>4. y \in References(h) /\ h \in Stored /\ h \in Ids
    BY <2>1, <2>3 DEF Held, Present, Stored
  <2>5. h \notin Holders(b.ids)
    BY <2>1
  <2>6. docs[h].refs \cap b.ids # {}
    BY <2>3
  <2> QED BY <2>2, <2>4, <2>5, <2>6, KindsAreApart DEF Holders, References
<1>4. ok /\ b.steps = <<"unheld", "remove", "log">> => Covered(b.ids, docs, loose, cleaned)
  BY <1>3
<1> QED BY <1>1, <1>2, <1>4, AskingKeeps

LEMMA LookKeeps ==
    ASSUME AccessInv, NEW c \in Calls, NEW b, NEW step, Running(c, b, step), NEW ok \in BOOLEAN,
           Resume(c, [b EXCEPT !.clear = ok], ok), Still, step \in {"absent", "lookup"}
    PROVE  AccessInv'
<1> DEFINE x == [b EXCEPT !.clear = ok]
<1>1. Turn(c, b) /\ Head(b.steps) = step /\ b \in AnyBlock /\ b.steps # <<>>
  BY RunningTurn
<1>2. /\ x \in AnyBlock /\ x.steps = b.steps /\ x.ids = b.ids /\ x.what = b.what /\ x.set = b.set /\ x.add = b.add
      /\ x.complete = b.complete /\ x.clear = ok
  BY <1>1 DEF AnyBlock
<1> HIDE DEF x
<1>3. ASSUME ok PROVE Follows(Rest(x), b)
  <2>1. /\ Rest(x) \in AnyBlock /\ Rest(x).steps = Tail(x.steps) /\ Rest(x).ids = x.ids
        /\ Rest(x).what = x.what /\ Rest(x).set = x.set /\ Rest(x).add = x.add
        /\ Rest(x).complete = x.complete /\ Rest(x).clear = x.clear
    BY <1>1, <1>2, RestIs
  <2>2. x.clear
    BY <1>2, <1>3
  <2> QED BY <1>2, <2>1, <2>2 DEF Follows
<1>4. b.steps # <<"unheld", "remove", "log">>
  <2>1. Head(<<"unheld", "remove", "log">>) = "unheld"
    OBVIOUS
  <2> QED BY <1>1, <2>1
<1>5. Resume(c, x, ok)
  BY DEF x
<1> QED BY <1>1, <1>2, <1>3, <1>4, <1>5, AskingKeeps

LEMMA FindKeeps == ASSUME AccessInv, NEW c \in Calls, Find(c) PROVE AccessInv'
<1>1. PICK b \in Range(call[c]) :
          /\ Running(c, b, "find") /\ Still
          /\ Resume(c, [b EXCEPT !.seen = {docs[i] : i \in b.needs \cap Permissions}], b.needs \subseteq Stored)
  BY DEF Find, Still
<1> DEFINE S == {docs[i] : i \in b.needs \cap Permissions}
           x == [b EXCEPT !.seen = S]
<1>2. Turn(c, b) /\ Head(b.steps) = "find" /\ b \in AnyBlock /\ b.steps # <<>>
  BY <1>1, RunningTurn
<1>3. S \subseteq Docs \cup {None}
  BY DEF AccessInv, Typed, Ids
<1> HIDE DEF S
<1>4. /\ x \in AnyBlock /\ x.steps = b.steps /\ x.ids = b.ids /\ x.what = b.what /\ x.set = b.set
      /\ x.add = b.add /\ x.complete = b.complete /\ x.clear = b.clear
  BY <1>2, <1>3 DEF AnyBlock
<1>5. Resume(c, x, b.needs \subseteq Stored)
  BY <1>1 DEF S
<1> HIDE DEF x
<1>6. Follows(Rest(x), b)
  <2>1. /\ Rest(x) \in AnyBlock /\ Rest(x).steps = Tail(x.steps) /\ Rest(x).ids = x.ids
        /\ Rest(x).what = x.what /\ Rest(x).set = x.set /\ Rest(x).add = x.add
        /\ Rest(x).complete = x.complete /\ Rest(x).clear = x.clear
    BY <1>2, <1>4, RestIs
  <2> QED BY <1>2, <1>4, <2>1 DEF Follows
<1>7. b.steps # <<"unheld", "remove", "log">>
  <2>1. Head(<<"unheld", "remove", "log">>) = "unheld"
    OBVIOUS
  <2> QED BY <1>2, <2>1
<1> QED BY <1>1, <1>2, <1>4, <1>5, <1>6, <1>7, AskingKeeps

LEMMA ExistKeeps == ASSUME AccessInv, NEW c \in Calls, Exist(c) PROVE AccessInv'
<1>1. PICK b \in Range(call[c]) : Running(c, b, "exist") /\ Resume(c, b, b.set.refs \subseteq Stored) /\ Still
  BY DEF Exist, Ask, Still
<1> QED BY <1>1, AskKeeps

LEMMA UnheldKeeps == ASSUME AccessInv, NEW c \in Calls, Unheld(c) PROVE AccessInv'
<1>1. PICK b \in Range(call[c]) : Running(c, b, "unheld") /\ Resume(c, b, Holders(b.ids) = {}) /\ Still
  BY DEF Unheld, Ask, Still
<1> QED BY <1>1, AskKeeps

LEMMA MatchKeeps == ASSUME AccessInv, NEW c \in Calls, Match(c) PROVE AccessInv'
<1>1. PICK b \in Range(call[c]) : Running(c, b, "match") /\ Resume(c, b, FALSE) /\ Still
  BY DEF Match, Ask, Still
<1> QED BY <1>1, AskKeeps

LEMMA AbsentKeeps == ASSUME AccessInv, NEW c \in Calls, Absent(c) PROVE AccessInv'
<1> DEFINE ok(b) == \A i \in b.ids : ~Clashes(b, i)
<1>1. PICK b \in Range(call[c]) :
          Running(c, b, "absent") /\ Resume(c, [b EXCEPT !.clear = ok(b)], ok(b)) /\ Still
  BY DEF Absent, Look, Still
<1>2. ok(b) \in BOOLEAN
  OBVIOUS
<1> HIDE DEF ok
<1> QED BY <1>1, <1>2, LookKeeps

LEMMA LookupKeeps == ASSUME AccessInv, NEW c \in Calls, Lookup(c) PROVE AccessInv'
<1> DEFINE ok(b) == \A i \in b.ids : i \in Stored /\ docs[i].active
<1>1. PICK b \in Range(call[c]) :
          Running(c, b, "lookup") /\ Resume(c, [b EXCEPT !.clear = ok(b)], ok(b)) /\ Still
  BY DEF Lookup, Look, Still
<1>2. ok(b) \in BOOLEAN
  OBVIOUS
<1> HIDE DEF ok
<1> QED BY <1>1, <1>2, LookKeeps

(* A step that drops the block, and leaves the documents as they are.              *)

LEMMA DroppingKeeps ==
    ASSUME NEW c, NEW b, Turn(c, b), Drops(c),
           docs' = docs, made' = made, born' = born, loose' = loose, raced' = raced, cleaned' = cleaned,
           log \subseteq log', log' \subseteq Entries, unlogged \subseteq unlogged', unlogged' \subseteq Entries,
           granted' \subseteq Users \X BOOLEAN, GrantedWereActive',
           \A i : <<"deleted", i>> \in log' => <<"deleted", i>> \in log \/ i \in born \ Present(docs),
           b.what = "deleted" /\ Head(b.steps) = "log" => \A i \in b.ids : <<"deleted", i>> \in log' \cup unlogged'
    PROVE  AccessInv'
<1>1. AccessInv /\ \A d \in Calls : \A m \in DOMAIN call[d] : Good(call[d][m], docs, born, loose, cleaned)
  BY DEF Turn, AccessInv, Blocks
<1>2. b \in AnyBlock
  BY TurnIs
<1>3. Queues' /\ Blocks' /\ Apart' /\ InTurn'
  BY <1>1, <1>2, BlocksStayGood
<1>4. Typed' /\ Covered(Ids \ Present(docs), docs, loose, cleaned)' /\ PairsAreDistinct'
  BY <1>1, <1>3 DEF AccessInv, Typed, Queues, PairsAreDistinct, Stored
<1>5. LogIsTrue'
  BY <1>1 DEF AccessInv, LogIsTrue
<1>6. Accounted'
  <2> SUFFICES ASSUME NEW i \in born \ Present(docs)
               PROVE  <<"deleted", i>> \in log' \cup unlogged' \/ \E d \in Calls : Owing(d, i)'
    BY DEF Accounted
  <2>1. <<"deleted", i>> \in log \cup unlogged \/ \E d \in Calls : Owing(d, i)
    BY <1>1 DEF AccessInv, Accounted
  <2>2. CASE \E d \in Calls : Owing(d, i)
    BY <1>2, <2>2, OwingStays
  <2> QED BY <2>1, <2>2
<1> QED BY <1>3, <1>4, <1>5, <1>6 DEF AccessInv

LEMMA LogKeeps == ASSUME AccessInv, NEW c \in Calls, Log(c) PROVE AccessInv'
<1>1. PICK b \in Range(call[c]), kept \in BOOLEAN :
          /\ Running(c, b, "log") /\ Resume(c, b, TRUE)
          /\ log' = IF kept THEN log \cup {<<b.what, i>> : i \in b.ids} ELSE log
          /\ unlogged' = IF kept THEN unlogged ELSE unlogged \cup {<<b.what, i>> : i \in b.ids}
          /\ UNCHANGED <<docs, made, born, loose, raced, cleaned, granted>>
  BY DEF Log
<1>2. Turn(c, b) /\ Head(b.steps) = "log" /\ b \in AnyBlock /\ b.steps # <<>> /\ Plan(b)
  BY <1>1, RunningTurn, TurnSteps
<1>3. b.steps = <<"log">>
  BY <1>2, StepsAre, DeletionHeads, CreationHeads, UpdateHeads, ReadingHeads
<1>4. Drops(c)
  <2>1. Rest(b).steps = <<>>
    BY <1>2, <1>3, RestIs, Tails
  <2> QED BY <1>1, <2>1, ResumeIs
<1> DEFINE entries == {<<b.what, i>> : i \in b.ids}
<1>5. entries \subseteq Entries
  BY <1>2 DEF AnyBlock, Entries, Kept
<1>6. b.what = "deleted" => b.ids \subseteq born \ Present(docs)
  BY <1>2, <1>3, TurnIs DEF Good
<1>7. \A i : <<"deleted", i>> \in entries <=> b.what = "deleted" /\ i \in b.ids
  OBVIOUS
<1>8. log' \in {log, log \cup entries} /\ unlogged' \in {unlogged, unlogged \cup entries}
      /\ log \cup unlogged \cup entries = log' \cup unlogged'
  BY <1>1
<1> HIDE DEF entries
<1>9. log \subseteq Entries /\ unlogged \subseteq Entries /\ granted \subseteq Users \X BOOLEAN /\
        GrantedWereActive
  BY DEF AccessInv, Typed
<1>10. GrantedWereActive'
  BY <1>1, <1>9 DEF GrantedWereActive
<1>11. \A i : <<"deleted", i>> \in log' => <<"deleted", i>> \in log \/ i \in born \ Present(docs)
  BY <1>6, <1>7, <1>8
<1>12. b.what = "deleted" => \A i \in b.ids : <<"deleted", i>> \in log' \cup unlogged'
  BY <1>7, <1>8
<1>13. /\ docs' = docs /\ made' = made /\ born' = born /\ loose' = loose /\ raced' = raced /\ cleaned' = cleaned
       /\ granted' = granted
  BY <1>1
<1>14. log \subseteq log' /\ log' \subseteq Entries /\ unlogged \subseteq unlogged' /\ unlogged' \subseteq Entries
  BY <1>5, <1>8, <1>9
<1> QED BY <1>2, <1>4, <1>9, <1>10, <1>11, <1>12, <1>13, <1>14, DroppingKeeps

LEMMA GrantKeeps == ASSUME AccessInv, NEW c \in Calls, Grant(c) PROVE AccessInv'
<1>1. PICK b \in Range(call[c]) :
          /\ Running(c, b, "grant") /\ Resume(c, b, TRUE)
          /\ granted' = granted \cup {<<i, b.clear>> : i \in b.ids}
          /\ UNCHANGED <<docs, log, made, born, loose, raced, unlogged, cleaned>>
  BY DEF Grant
<1>2. Turn(c, b) /\ Head(b.steps) = "grant" /\ b \in AnyBlock /\ b.steps # <<>> /\ Plan(b)
  BY <1>1, RunningTurn, TurnSteps
<1>3. b.steps = <<"grant">>
  BY <1>2, StepsAre, DeletionHeads, CreationHeads, UpdateHeads, ReadingHeads
<1>4. Drops(c)
  <2>1. Rest(b).steps = <<>>
    BY <1>2, <1>3, RestIs, Tails
  <2> QED BY <1>1, <2>1, ResumeIs
<1>5. b.ids \subseteq Users /\ b.clear = TRUE
  <2>1. (b.what = "created" /\ Creates(b)) \/ (b.what = "read" /\ Reads(b))
    BY <1>2, StepsAre, DeletionHeads, UpdateHeads
  <2>2. b.clear \in BOOLEAN
    BY <1>2 DEF AnyBlock
  <2>3. ASSUME Creates(b) PROVE b.ids \subseteq Users /\ b.clear
    <3>1. /\ <<"grant">> \notin Sheltered /\ <<"grant">> \notin Unchecked /\ <<"grant">> \notin Registers
          /\ <<"grant">> # <<"log">>
      BY DEF Sheltered, Unchecked, Registers
    <3> QED BY <1>3, <2>3, <3>1 DEF Creates
  <2>4. ASSUME Reads(b) PROVE b.ids \subseteq Users /\ b.clear
    <3>1. <<"grant">> \notin {<<"find">>, <<"find", "log">>, <<"log">>, <<"write">>, <<"find", "write">>}
      OBVIOUS
    <3> QED BY <1>3, <2>4, <3>1 DEF Reads
  <2> QED BY <2>1, <2>2, <2>3, <2>4
<1>6. \A g \in granted' : g \in granted \/ \E i \in Users : g = <<i, TRUE>>
  BY <1>1, <1>5
<1>7. /\ log \subseteq Entries /\ unlogged \subseteq Entries /\ granted \subseteq Users \X BOOLEAN
      /\ \A g \in granted : g[2]
  BY DEF AccessInv, Typed, GrantedWereActive
<1>8. \A i \in Users : <<i, TRUE>> \in Users \X BOOLEAN /\ <<i, TRUE>>[2]
  OBVIOUS
<1>9. granted' \subseteq Users \X BOOLEAN /\ GrantedWereActive'
  BY <1>6, <1>7, <1>8, Zenon DEF GrantedWereActive
<1>10. /\ docs' = docs /\ made' = made /\ born' = born /\ loose' = loose /\ raced' = raced /\ cleaned' = cleaned
       /\ log' = log /\ unlogged' = unlogged
  BY <1>1
<1> QED BY <1>2, <1>4, <1>7, <1>9, <1>10, DroppingKeeps

LEMMA InterruptKeeps == ASSUME AccessInv, NEW c \in Calls, Interrupt(c) PROVE AccessInv'
<1> DEFINE b == Head(call[c])
<1>1. /\ call[c] # <<>> /\ Resume(c, b, FALSE) /\ unlogged' = unlogged \cup Owed({b})
      /\ UNCHANGED <<docs, log, made, born, loose, raced, cleaned, granted>>
  BY DEF Interrupt
<1>2. Turn(c, b)
  BY <1>1 DEF Turn
<1>3. b \in AnyBlock /\ b.ids \subseteq Ids
  BY <1>2, TurnIs
<1>4. Drops(c)
  BY <1>1, ResumeIs
<1> HIDE DEF b
<1>5. Owed({b}) = IF b.what = "deleted" /\ Head(b.steps) = "log" THEN {<<"deleted", i>> : i \in b.ids} ELSE {}
  BY DEF Owed
<1>6. Owed({b}) \subseteq Entries
  BY <1>3, <1>5 DEF Entries
<1>7. /\ log \subseteq Entries /\ unlogged \subseteq Entries /\ granted \subseteq Users \X BOOLEAN /\
        GrantedWereActive
  BY DEF AccessInv, Typed
<1>8. /\ docs' = docs /\ made' = made /\ born' = born /\ loose' = loose /\ raced' = raced /\ cleaned' = cleaned
      /\ log' = log /\ granted' = granted /\ unlogged' = unlogged \cup Owed({b})
  BY <1>1
<1>9. GrantedWereActive'
  BY <1>7, <1>8 DEF GrantedWereActive
<1>10. b.what = "deleted" /\ Head(b.steps) = "log" => \A i \in b.ids : <<"deleted", i>> \in unlogged'
  BY <1>5, <1>8
<1> QED BY <1>2, <1>4, <1>6, <1>7, <1>8, <1>9, <1>10, DroppingKeeps

LEMMA CrashKeeps == ASSUME AccessInv, Crash PROVE AccessInv'
<1> DEFINE heads == {Head(call[c]) : c \in {d \in Calls : call[d] # <<>>}}
<1>1. /\ call' = [c \in Calls |-> <<>>] /\ unlogged' = unlogged \cup Owed(heads)
      /\ docs' = docs /\ made' = made /\ born' = born /\ loose' = loose /\ raced' = raced /\ cleaned' = cleaned
      /\ log' = log /\ granted' = granted
  BY DEF Crash
<1>2. \A b \in heads : b \in AnyBlock /\ b.ids \subseteq Ids
  BY TurnIs DEF Turn
<1>3. \A c \in Calls : \A i : Owing(c, i) => Head(call[c]) \in heads
  BY DEF Owing
<1> HIDE DEF heads
<1>4. Owed(heads) \subseteq Entries
  BY <1>2 DEF Owed, Entries
<1>5. \A c \in Calls : \A i : Owing(c, i) => <<"deleted", i>> \in Owed(heads)
  BY <1>3 DEF Owing, Owed
<1>6. Queues' /\ Blocks' /\ Apart' /\ InTurn'
  BY <1>1 DEF Queues, Blocks, Apart, InTurn
<1>7. Typed' /\ LogIsTrue' /\ Covered(Ids \ Present(docs), docs, loose, cleaned)' /\ PairsAreDistinct' /\
        GrantedWereActive'
  BY <1>1, <1>4, <1>6 DEF AccessInv, Typed, LogIsTrue, Queues, PairsAreDistinct, GrantedWereActive, Stored
<1>8. Accounted'
  BY <1>1, <1>5 DEF AccessInv, Accounted
<1> QED BY <1>6, <1>7, <1>8 DEF AccessInv

(* A request begins, of blocks that are ready. *)

LEMMA BeginKeeps == ASSUME AccessInv, NEW c \in Calls, Begin(c) PROVE AccessInv'
<1>1. PICK r \in RoleRequests \cup PermissionRequests \cup UserRequests \cup AuthRequests :
          call' = [call EXCEPT ![c] = r]
  BY DEF Begin
<1>2. /\ call[c] = <<>> /\ made < MaxRequests /\ made' = made + 1
      /\ docs' = docs /\ log' = log /\ born' = born /\ loose' = loose /\ raced' = raced
      /\ unlogged' = unlogged /\ cleaned' = cleaned /\ granted' = granted
  BY DEF Begin
<1>3. Typed /\ Queues /\ Blocks /\ Apart /\ InTurn
  BY DEF AccessInv, Typed, Queues
<1>4. born \subseteq Ids /\ granted \subseteq Users \X BOOLEAN
  BY <1>3 DEF Typed
<1>5. Request(r)
  BY <1>1, <1>4, RoleRequestsAreGood, PermissionRequestsAreGood, UserRequestsAreGood, AuthRequestsAreGood
<1>6. call' \in [Calls -> Seq(AnyBlock)] /\ call'[c] = r /\ \A d \in Calls : d # c => call'[d] = call[d]
  BY <1>1, <1>3, <1>5 DEF Queues, Request
<1>7. ASSUME NEW b, Ready(b) PROVE Good(b, docs, born, loose, cleaned)
  BY <1>7 DEF Ready, Good, Unused
<1>8. Blocks'
  BY <1>2, <1>3, <1>5, <1>6, <1>7 DEF Blocks, Request
<1>9. \A d \in Calls : \A n \in DOMAIN call[d] : call[d][n].ids \cap Unused = {}
  BY DEF Unused, Range
<1>10. \A n \in DOMAIN r : Saving(r[n]) => r[n].ids \subseteq Unused
  BY <1>5 DEF Request, Ready
<1>11. Apart'
  <2> SUFFICES ASSUME NEW d \in Calls, NEW e \in Calls, NEW m \in DOMAIN call'[d], NEW n \in DOMAIN call'[e],
                      Saving(call'[d][m]), Saving(call'[e][n]), call'[d][m].ids \cap call'[e][n].ids # {}
               PROVE  d = e /\ m = n
    BY DEF Apart
  <2>1. CASE d = c /\ e = c
    BY <1>5, <1>6, <2>1 DEF Request
  <2>2. CASE d = c /\ e # c
    BY <1>6, <1>9, <1>10, <2>2
  <2>3. CASE d # c /\ e = c
    BY <1>6, <1>9, <1>10, <2>3
  <2>4. CASE d # c /\ e # c
    <3>1. call'[d] = call[d] /\ call'[e] = call[e]
      BY <1>6, <2>4
    <3>2. /\ m \in DOMAIN call[d] /\ n \in DOMAIN call[e] /\ Saving(call[d][m]) /\ Saving(call[e][n])
          /\ call[d][m].ids \cap call[e][n].ids # {}
      BY <3>1
    <3> QED BY <1>3, <3>2 DEF Apart
  <2> QED BY <2>1, <2>2, <2>3, <2>4
<1>12. InTurn'
  <2>1. \A n \in DOMAIN r : r[n].steps # <<"remove", "log">>
    BY <1>5 DEF Request, Ready
  <2> QED BY <1>3, <1>6, <2>1 DEF InTurn
<1>13. made' \in 0..MaxRequests
  BY <1>2, <1>3, AccessControlAssumption DEF Typed
<1>14. Typed' /\ LogIsTrue' /\ Covered(Ids \ Present(docs), docs, loose, cleaned)' /\ PairsAreDistinct' /\
         GrantedWereActive'
  BY <1>2, <1>6, <1>13 DEF AccessInv, Typed, LogIsTrue, PairsAreDistinct, GrantedWereActive, Stored
<1>15. ASSUME NEW d \in Calls, NEW i, Owing(d, i) PROVE Owing(d, i)'
  <2>1. d # c
    BY <1>2, <1>15 DEF Owing
  <2> QED BY <1>6, <1>15, <2>1 DEF Owing
<1>16. Accounted'
  BY <1>2, <1>15 DEF AccessInv, Accounted
<1> QED BY <1>8, <1>11, <1>12, <1>14, <1>16 DEF AccessInv

(* The clean-up takes what is there, and remembers it.                             *)
LEMMA CollectKeeps == ASSUME AccessInv, NEW c \in Calls, Collect(c) PROVE AccessInv'
<1>1. PICK b \in Range(call[c]) :
          /\ Running(c, b, "collect") /\ Resume(c, [b EXCEPT !.ids = Orphans], TRUE)
          /\ cleaned' = cleaned \cup {<<p, Holders({p}) # {}>> : p \in Orphans}
          /\ UNCHANGED <<docs, log, made, born, loose, raced, unlogged, granted>>
  BY DEF Collect
<1>2. Turn(c, b) /\ Head(b.steps) = "collect" /\ b \in AnyBlock /\ b.steps # <<>> /\ Plan(b) /\ Held(docs)
  BY <1>1, RunningTurn, TurnSteps
<1>3. b.steps = <<"collect", "remove", "log">> /\ b.what = "deleted"
  <2>1. ~Creation(b.steps) /\ ~Update(b.steps) /\ ~Reading(b.steps)
    BY <1>2, CreationHeads, UpdateHeads, ReadingHeads
  <2> QED BY <1>2, <2>1, StepsAre, DeletionHeads
<1> DEFINE x == [b EXCEPT !.ids = Orphans]
           a == Rest(x)
<1>4. Orphans \subseteq Permissions /\ Orphans \subseteq Present(docs) /\ Orphans \in SUBSET Ids
  BY DEF Orphans, Stored, Present
<1>5. x \in AnyBlock /\ x.steps = <<"collect", "remove", "log">> /\ x.ids = Orphans /\ x.what = "deleted"
  BY <1>2, <1>3, <1>4 DEF AnyBlock
<1> HIDE DEF x
<1>6. a \in AnyBlock /\ a.steps = <<"remove", "log">> /\ a.ids = Orphans /\ a.what = "deleted"
  <2>1. x.steps # <<>> /\ Tail(x.steps) = <<"remove", "log">>
    BY <1>5, Tails
  <2> QED BY <1>5, <2>1, RestIs
<1>7. Goes(c, a)
  <2>1. a.steps # <<>>
    BY <1>6
  <2>2. Resume(c, x, TRUE)
    BY <1>1 DEF x
  <2> QED BY <2>1, <2>2, ResumeIs
<1> HIDE DEF a
<1>8. ~Saving(a)
  BY <1>6 DEF Saving
<1>9. /\ Typed /\ born \subseteq Ids /\ Present(docs) \subseteq born /\ cleaned \subseteq Permissions \X BOOLEAN
      /\ Covered(Ids \ Present(docs), docs, loose, cleaned)
      /\ \A d \in Calls : \A m \in DOMAIN call[d] : Good(call[d][m], docs, born, loose, cleaned)
  BY DEF AccessInv, Typed, Blocks
<1>10. /\ docs' = docs /\ log' = log /\ made' = made /\ born' = born /\ loose' = loose /\ raced' = raced
       /\ unlogged' = unlogged /\ granted' = granted
  BY <1>1
<1>11. cleaned \subseteq cleaned' /\ cleaned' \subseteq Permissions \X BOOLEAN
       /\ \A p \in Orphans : \E held \in BOOLEAN : <<p, held>> \in cleaned'
  <2>1. \A p \in Orphans : (Holders({p}) # {}) \in BOOLEAN
    OBVIOUS
  <2>2. \A e \in cleaned' : e \in cleaned \/ \E p \in Orphans : \E held \in BOOLEAN : e = <<p, held>>
    BY <1>1, <2>1, Zenon
  <2>3. \A p \in Orphans : \A held \in BOOLEAN : <<p, held>> \in Permissions \X BOOLEAN
    BY <1>4
  <2>4. cleaned' \subseteq Permissions \X BOOLEAN
    BY <1>9, <2>2, <2>3, Zenon
  <2>5. \A p \in Orphans : \E held \in BOOLEAN : <<p, held>> \in cleaned'
    BY <1>1, <2>1, Zenon
  <2> QED BY <1>1, <2>4, <2>5
<1>12. \A S : Covered(S, docs, loose, cleaned) => Covered(S, docs, loose, cleaned')
  BY <1>11 DEF Covered, Excused
<1>13. Covered(Orphans, docs, loose, cleaned')
  BY <1>11 DEF Covered, Excused
<1>14. Plan(a) /\ Good(a, docs, born, loose, cleaned')
  <2>1. Plan(a)
    BY <1>6 DEF Plan, Fits, Deletes
  <2>2. <<"remove", "log">> # <<"log">>
    OBVIOUS
  <2> QED BY <1>4, <1>6, <1>8, <1>9, <1>13, <2>1, <2>2 DEF Good
<1>15. \A d \in Calls : \A m \in DOMAIN call[d] : Good(call[d][m], docs, born, loose, cleaned')
  BY <1>9, <1>12 DEF Good
<1>16. Queues' /\ Blocks' /\ Apart' /\ InTurn'
  BY <1>2, <1>6, <1>7, <1>8, <1>10, <1>14, <1>15, BlocksStayGood
<1>17. Typed' /\ LogIsTrue' /\ Covered(Ids \ Present(docs), docs, loose, cleaned)' /\ PairsAreDistinct' /\
         GrantedWereActive'
  BY <1>9, <1>10, <1>11, <1>12, <1>16 DEF AccessInv, Typed, LogIsTrue, Queues, PairsAreDistinct,
       GrantedWereActive, Stored
<1>18. Accounted'
  <2> SUFFICES ASSUME NEW i \in born \ Present(docs)
               PROVE  <<"deleted", i>> \in log \cup unlogged \/ \E d \in Calls : Owing(d, i)'
    BY <1>10 DEF Accounted
  <2>1. <<"deleted", i>> \in log \cup unlogged \/ \E d \in Calls : Owing(d, i)
    BY DEF AccessInv, Accounted
  <2> QED BY <1>2, <1>6, <1>7, <2>1, OwingStays
<1> QED BY <1>16, <1>17, <1>18 DEF AccessInv

(* A removal of what nobody may still hold.                                        *)
LEMMA RemoveKeeps == ASSUME AccessInv, NEW c \in Calls, Remove(c) PROVE AccessInv'
<1>1. PICK b \in Range(call[c]) :
          /\ Running(c, b, "remove") /\ Resume(c, b, TRUE)
          /\ docs' = [i \in Ids |-> IF i \in b.ids THEN None ELSE docs[i]]
          /\ UNCHANGED <<log, made, born, loose, raced, unlogged, cleaned, granted>>
  BY DEF Remove
<1>2. Turn(c, b) /\ Head(b.steps) = "remove" /\ b \in AnyBlock /\ b.steps # <<>> /\ Plan(b) /\ Held(docs)
  BY <1>1, RunningTurn, TurnSteps
<1>3. b.steps = <<"remove", "log">> /\ b.what = "deleted"
  <2>1. ~Creation(b.steps) /\ ~Update(b.steps) /\ ~Reading(b.steps)
    BY <1>2, CreationHeads, UpdateHeads, ReadingHeads
  <2> QED BY <1>2, <2>1, StepsAre, DeletionHeads
<1> DEFINE a == Rest(b)
<1>4. a \in AnyBlock /\ a.steps = <<"log">> /\ a.ids = b.ids /\ a.what = "deleted"
  <2>1. Tail(b.steps) = <<"log">>
    BY <1>3, Tails
  <2> QED BY <1>2, <1>3, <2>1, RestIs
<1>5. Goes(c, a)
  <2>1. a.steps # <<>>
    BY <1>4
  <2> QED BY <1>1, <2>1, ResumeIs
<1> HIDE DEF a
<1>6. ~Saving(a)
  BY <1>4 DEF Saving
<1>7. /\ Typed /\ Covered(Ids \ Present(docs), docs, loose, cleaned)
      /\ \A d \in Calls : \A m \in DOMAIN call[d] : Good(call[d][m], docs, born, loose, cleaned)
  BY DEF AccessInv, Blocks
<1>8. /\ log' = log /\ made' = made /\ born' = born /\ loose' = loose /\ raced' = raced
      /\ unlogged' = unlogged /\ cleaned' = cleaned /\ granted' = granted
  BY <1>1
<1>9. b.ids \subseteq born /\ Covered(b.ids, docs, loose, cleaned)
  BY <1>2, <1>3, TurnIs DEF Good
<1>10. /\ docs' \in [Ids -> Docs \cup {None}] /\ Present(docs') = Present(docs) \ b.ids
       /\ \A h \in Present(docs') : docs'[h] = docs[h]
  BY <1>1, <1>7 DEF Typed, Present
<1>11. \A S : Covered(S, docs, loose, cleaned) => Covered(S, docs', loose, cleaned)
  BY <1>10 DEF Covered
<1>12. Covered(Ids \ Present(docs'), docs', loose, cleaned)
  BY <1>7, <1>9, <1>10, <1>11 DEF Covered
<1>13. Good(a, docs', born, loose, cleaned)
  <2>1. Plan(a)
    BY <1>4 DEF Plan, Fits, Deletes
  <2>2. <<"remove", "log">> # <<"log">>
    OBVIOUS
  <2> QED BY <1>4, <1>6, <1>9, <1>10, <2>1, <2>2 DEF Good
<1>14. \A d \in Calls : \A m \in DOMAIN call[d] : Good(call[d][m], docs', born, loose, cleaned)
  BY <1>7, <1>10, <1>11 DEF Good
<1>15. Queues' /\ Blocks' /\ Apart' /\ InTurn'
  BY <1>2, <1>4, <1>5, <1>6, <1>8, <1>13, <1>14, BlocksStayGood
<1>16. Typed' /\ LogIsTrue' /\ GrantedWereActive'
  BY <1>7, <1>8, <1>10, <1>15 DEF AccessInv, Typed, LogIsTrue, Queues, GrantedWereActive
<1>17. PairsAreDistinct'
  <2>1. Stored' \subseteq Stored /\ \A h \in Stored' : docs'[h] = docs[h]
    BY <1>10 DEF Stored, Present
  <2> QED BY <1>8, <2>1 DEF AccessInv, PairsAreDistinct
<1>18. Accounted'
  <2> SUFFICES ASSUME NEW i \in born \ Present(docs')
               PROVE  <<"deleted", i>> \in log \cup unlogged \/ \E d \in Calls : Owing(d, i)'
    BY <1>8 DEF Accounted
  <2>1. CASE i \in b.ids
    <3>1. call'[c] # <<>> /\ Head(call'[c]) = a
      BY <1>2, <1>5, TurnIs DEF Goes, Queues
    <3> QED BY <1>4, <2>1, <3>1 DEF Owing
  <2>2. CASE i \notin b.ids
    <3>1. <<"deleted", i>> \in log \cup unlogged \/ \E d \in Calls : Owing(d, i)
      BY <1>10, <2>2 DEF AccessInv, Accounted
    <3> QED BY <1>2, <1>4, <1>5, <3>1, OwingStays
  <2> QED BY <2>1, <2>2
<1> QED BY <1>8, <1>12, <1>15, <1>16, <1>17, <1>18 DEF AccessInv

(* What a write gives away, of what is missing or past its count, is loose.        *)

LEMMA RemovingIsDoomed ==
    ASSUME InTurn, Queues, NEW d \in Calls, NEW m \in DOMAIN call[d], call[d][m].steps = <<"remove", "log">>
    PROVE  call[d][m].ids \subseteq Doomed
<1>1. m = 1 /\ call[d] # <<>> /\ Head(call[d]) = call[d][m] /\ call[d][m] \in Range(call[d])
  BY DEF InTurn, Queues, Range
<1>2. Head(<<"remove", "log">>) = "remove"
  OBVIOUS
<1>3. Running(d, call[d][m], "remove")
  BY <1>1, <1>2 DEF Running
<1> QED BY <1>1, <1>3 DEF Doomed

LEMMA PutCovers ==
    ASSUME NEW b, NEW new, Put(b, new),
           \A h \in Ids \ b.ids : new[h] = docs[h],
           NEW S, S \subseteq (Ids \ Present(new)) \cup Doomed, S \subseteq Ids,
           Covered(S, docs, loose, cleaned)
    PROVE  Covered(S, new, loose', cleaned)
<1> SUFFICES ASSUME NEW h \in Present(new), NEW y \in S, y \in new[h].refs
             PROVE  Excused(h, y, loose', cleaned)
  BY DEF Covered
<1>1. h \in Ids /\ Refs(new, h) = new[h].refs
  BY DEF Present, Refs
<1>2. loose \subseteq loose'
  BY DEF Put
<1>3. CASE y \in Refs(docs, h)
  <2>1. h \in Present(docs) /\ y \in docs[h].refs
    BY <1>1, <1>3 DEF Refs, Present
  <2>2. Excused(h, y, loose, cleaned)
    BY <2>1 DEF Covered
  <2> QED BY <1>2, <2>2 DEF Excused
<1>4. CASE y \notin Refs(docs, h)
  <2>1. h \in b.ids
    BY <1>1, <1>4 DEF Refs
  <2>2. new[y] = None \/ y \in Doomed
    BY DEF Present
  <2>3. y \in {z \in Refs(new, h) \ Refs(docs, h) : new[z] = None \/ z \in Doomed}
    BY <1>1, <1>4, <2>2
  <2>4. <<h, y>> \in {<<h, z>> : z \in {z \in Refs(new, h) \ Refs(docs, h) : new[z] = None \/ z \in Doomed}}
    BY <2>3
  <2>5. <<h, y>> \in loose'
    BY <2>1, <2>4 DEF Put
  <2> QED BY <2>5 DEF Excused
<1> QED BY <1>3, <1>4

LEMMA PutIsTyped ==
    ASSUME NEW b, NEW new, Put(b, new), b.ids \subseteq Ids, loose \subseteq Ids \X Ids,
             raced \subseteq Permissions,
           \A h \in Present(new) : new[h].refs \subseteq Ids
    PROVE  loose' \subseteq Ids \X Ids /\ raced \subseteq raced' /\ raced' \subseteq Permissions
<1>1. ASSUME NEW i \in b.ids PROVE Refs(new, i) \subseteq Ids
  <2>1. i \in Ids
    OBVIOUS
  <2>2. CASE new[i] = None
    BY <2>2 DEF Refs
  <2>3. CASE new[i] # None
    <3>1. i \in Present(new) /\ Refs(new, i) = new[i].refs
      BY <2>1, <2>3 DEF Refs, Present
    <3> QED BY <3>1
  <2> QED BY <2>2, <2>3
<1>2. \A i \in b.ids : \A y \in Refs(new, i) : <<i, y>> \in Ids \X Ids
  BY <1>1
<1>3. \A e \in loose' : e \in loose \/ \E i \in b.ids : \E y \in Refs(new, i) : e = <<i, y>>
  BY DEF Put
<1>4. loose' \subseteq Ids \X Ids
  BY <1>2, <1>3
<1>5. raced \subseteq raced' /\ raced' \subseteq Permissions
  BY DEF Put
<1> QED BY <1>4, <1>5

(* Of two permissions on one pair after a write, there were two before, or the     *)
(* write put one of them there and is remembered.                                  *)
LEMMA PutParts ==
    ASSUME NEW b, NEW new, Put(b, new), PairsAreDistinct,
           \A h \in Ids \ b.ids : new[h] = docs[h],
           \A p \in b.ids \cap Permissions :
               b.clear \/ Head(b.steps) = "writeAll" \/ ~Asks(b.set)
    PROVE  PairsAreDistinct'
<1>1. docs' = new /\ raced \subseteq raced'
      /\ \A p \in b.ids \cap Permissions : Rivals(new, p) \ Rivals(docs, p) # {} => p \in raced'
  BY DEF Put
<1> SUFFICES ASSUME NEW p \in Permissions, NEW q \in Permissions, new[p] # None, new[q] # None,
                    p # q, OnePair(new[p], new[q])
             PROVE  {p, q} \cap raced' # {}
  BY <1>1 DEF PairsAreDistinct, Stored
<1>2. q \in Rivals(new, p) /\ p \in Rivals(new, q)
  BY DEF Rivals, OnePair
<1>3. CASE q \in Rivals(docs, p) \/ p \in Rivals(docs, q)
  <2>1. docs[p] # None /\ docs[q] # None /\ OnePair(docs[p], docs[q]) /\ p \in Ids /\ q \in Ids
    BY <1>3 DEF Rivals, OnePair, Ids
  <2>2. {p, q} \cap raced # {}
    BY <2>1 DEF PairsAreDistinct, Stored
  <2> QED BY <1>1, <2>2
<1>4. CASE q \notin Rivals(docs, p) /\ p \notin Rivals(docs, q)
  <2>1. CASE {p, q} \cap b.ids # {}
    BY <1>1, <1>2, <1>4, <2>1
  <2>2. CASE {p, q} \cap b.ids = {}
    <3>1. new[p] = docs[p] /\ new[q] = docs[q]
      BY <2>2 DEF Ids
    <3> QED BY <1>4, <3>1 DEF Rivals
  <2> QED BY <2>1, <2>2
<1> QED BY <1>3, <1>4

LEMMA SaveIs ==
    ASSUME NEW b, Plan(b), Head(b.steps) = "save"
    PROVE  /\ b.what = "created" /\ Saving(b) /\ b.set \in Docs /\ \E i \in Ids : b.ids = {i}
           /\ b.complete /\ b.ids \cap Permissions # {} => b.clear
<1>1. b.what = "created" /\ Creates(b)
  BY StepsAre, DeletionHeads, UpdateHeads, ReadingHeads
<1>2. b.steps = <<"save", "log">> \/ b.steps = <<"save">> \/ b.steps = <<"save", "grant">>
  BY <1>1, StepsAre, CreationHeads
<1>3. b.steps \in Unchecked \cup Registers
  BY <1>2 DEF Unchecked, Registers
<1>4. b.steps \notin Sheltered
  <2>1. b.steps[1] = "save"
    BY <1>2
  <2> QED BY <2>1 DEF Sheltered
<1>5. b.steps # <<"log">> /\ b.steps # <<"grant">>
  BY <1>2
<1> QED BY <1>1, <1>3, <1>4, <1>5, KindsAreApart DEF Creates, Saving

LEMMA WriteIs ==
    ASSUME NEW b, Plan(b), Head(b.steps) \in {"write", "put", "writeAll"}
    PROVE  /\ b.what \in {"updated", "read"}
           /\ Head(b.steps) # "writeAll" => b.clear \/ ~Asks(b.set)
<1>1. (b.what = "updated" /\ Updates(b)) \/ (b.what = "read" /\ Reads(b))
  BY StepsAre, DeletionHeads, CreationHeads
<1>2. ASSUME b.what = "updated", Updates(b), Head(b.steps) # "writeAll" PROVE b.clear \/ ~Asks(b.set)
  <2>1. b.steps = <<"write", "log">> \/ b.steps = <<"write">> \/ b.steps = <<"put", "log">>
    BY <1>2, StepsAre, UpdateHeads
  <2>2. b.steps \notin {<<"find", "absent", "write", "log">>, <<"absent", "write", "log">>,
                        <<"writeAll", "log">>, <<"log">>}
    BY <2>1
  <2> QED BY <1>2, <2>2 DEF Updates
<1>3. ASSUME Reads(b) PROVE ~Asks(b.set)
  <2>1. DOMAIN b.set = {}
    BY <1>3 DEF Reads
  <2> QED BY <2>1, NoPairAsksNothing
<1> QED BY <1>1, <1>2, <1>3

(* What a changed document may hold, and that it stays where it is.                *)

LEMMA WithIs ==
    ASSUME AccessInv, NEW b, Plan(b), b.what # "deleted", NEW D, D \subseteq b.ids \cap Stored
    PROVE  /\ With(b, D) \in [Ids -> Docs \cup {None}] /\ Present(With(b, D)) = Present(docs)
           /\ Held(With(b, D))
           /\ \A h \in Ids \ b.ids : With(b, D)[h] = docs[h]
<1>1. docs \in [Ids -> Docs \cup {None}] /\ Held(docs) /\ b \in AnyBlock /\ Fits(b) /\ D \subseteq Ids
  BY DEF AccessInv, Typed, Held, Plan, Stored
<1>2. ASSUME NEW i \in Ids
      PROVE  With(b, D)[i] = IF i \in D THEN Changed(docs[i], b) ELSE docs[i]
  BY DEF With
<1>3. DOMAIN With(b, D) = Ids
  BY DEF With
<1>4. With(b, D) = [i \in Ids |-> With(b, D)[i]]
  BY DEF With
<1>5. ASSUME NEW i \in D
      PROVE  /\ docs[i] \in Docs /\ Changed(docs[i], b) \in Docs /\ Changed(docs[i], b) # None
             /\ Changed(docs[i], b).refs \subseteq References(i)
  <2>1. docs[i] \in Docs /\ i \in Present(docs) /\ i \in b.ids
    BY <1>1 DEF Stored, Present
  <2>2. /\ Changed(docs[i], b) \in Docs
        /\ Changed(docs[i], b).refs \subseteq (IF "refs" \in DOMAIN b.set THEN b.set.refs ELSE docs[i].refs) \cup b.add
    BY <1>1, <2>1, ChangedIs
  <2>3. docs[i].refs \subseteq References(i)
    BY <1>1, <2>1 DEF Held
  <2>4. b.add \subseteq References(i) /\ ("refs" \in DOMAIN b.set => b.set.refs \subseteq References(i))
    BY <1>1, <2>1 DEF Fits
  <2> QED BY <2>1, <2>2, <2>3, <2>4, NoneIsNoDocument
<1> DEFINE new == With(b, D)
<1> HIDE DEF new
<1>6. \A i \in Ids : new[i] = IF i \in D THEN Changed(docs[i], b) ELSE docs[i]
  BY <1>2 DEF new
<1>7. new \in [Ids -> Docs \cup {None}]
  <2>1. \A i \in Ids : new[i] \in Docs \cup {None}
    BY <1>1, <1>5, <1>6
  <2>2. new = [i \in Ids |-> new[i]]
    BY <1>4 DEF new
  <2> QED BY <2>1, <2>2
<1>8. Present(new) = Present(docs)
  <2>1. \A i \in Ids : new[i] = None <=> docs[i] = None
    BY <1>5, <1>6, NoneIsNoDocument
  <2> QED BY <2>1 DEF Present
<1>9. \A h \in Present(docs) : new[h].refs \subseteq References(h)
  <2> SUFFICES ASSUME NEW h \in Present(docs) PROVE new[h].refs \subseteq References(h)
    OBVIOUS
  <2>1. h \in Ids
    BY DEF Present
  <2>2. CASE h \in D
    BY <1>5, <1>6, <2>1, <2>2
  <2>3. CASE h \notin D
    <3>1. new[h] = docs[h]
      BY <1>6, <2>1, <2>3
    <3> QED BY <1>1, <3>1 DEF Held
  <2> QED BY <2>2, <2>3
<1>10. \A h \in Ids \ b.ids : new[h] = docs[h]
  BY <1>6
<1> QED BY <1>7, <1>8, <1>9, <1>10 DEF new, Held

LEMMA WritingKeeps ==
    ASSUME NEW c, NEW b, Turn(c, b), Head(b.steps) \in {"write", "put", "writeAll"},
           NEW D, D \subseteq b.ids \cap Stored, Put(b, With(b, D)),
           UNCHANGED <<log, made, born, unlogged, cleaned, granted>>,
           (Rest(b).steps # <<>> /\ Goes(c, Rest(b))) \/ Drops(c)
    PROVE  AccessInv'
<1> DEFINE new == With(b, D)
           a == Rest(b)
<1>1. b \in AnyBlock /\ Plan(b) /\ b.steps # <<>> /\ AccessInv /\ b.ids \subseteq Ids
  BY TurnSteps, TurnIs DEF Turn
<1>2. b.what \in {"updated", "read"} /\ (Head(b.steps) # "writeAll" => b.clear \/ ~Asks(b.set))
  BY <1>1, WriteIs
<1>3. /\ new \in [Ids -> Docs \cup {None}] /\ Present(new) = Present(docs) /\ Held(new)
      /\ \A h \in Ids \ b.ids : new[h] = docs[h]
  <2>1. b.what # "deleted"
    BY <1>2
  <2> QED BY <1>1, <2>1, WithIs
<1>4. a \in AnyBlock /\ a.what = b.what /\ (a.steps # <<>> => Follows(a, b))
  BY <1>1, RestIs, RestFollows
<1>5. Put(b, new)
  OBVIOUS
<1>6. (Goes(c, a) /\ a.steps # <<>>) \/ Drops(c)
  OBVIOUS
<1> HIDE DEF new, a
<1>7. docs' = new /\ loose \subseteq loose'
  BY <1>5 DEF Put
<1>8. /\ log' = log /\ made' = made /\ born' = born /\ unlogged' = unlogged /\ cleaned' = cleaned /\
        granted' = granted
  OBVIOUS
<1>9. /\ Typed /\ InTurn /\ Queues /\ PairsAreDistinct /\ Covered(Ids \ Present(docs), docs, loose, cleaned)
      /\ \A d \in Calls : \A m \in DOMAIN call[d] : Good(call[d][m], docs, born, loose, cleaned)
  BY <1>1 DEF AccessInv, Blocks, Typed, Queues
<1>10. ~Saving(a)
  BY <1>2, <1>4 DEF Saving
<1>11. a.steps # <<>> => Good(a, docs', born', loose', cleaned')
  <2> SUFFICES ASSUME a.steps # <<>> PROVE Plan(a)
    BY <1>2, <1>4, <1>10 DEF Good
  <2>1. Follows(a, b) /\ Tail(b.steps) # <<>>
    BY <1>4 DEF Follows
  <2> QED BY <1>1, <2>1, PlanGoesOn
<1>12. Covered(Ids \ Present(new), new, loose', cleaned)
  <2>1. Ids \ Present(new) \subseteq (Ids \ Present(new)) \cup Doomed /\ Ids \ Present(new) \subseteq Ids
        /\ Covered(Ids \ Present(new), docs, loose, cleaned)
    BY <1>3, <1>9
  <2> QED BY <1>3, <1>5, <2>1, PutCovers
<1>13. ASSUME NEW d \in Calls, NEW m \in DOMAIN call[d] PROVE Good(call[d][m], docs', born', loose', cleaned')
  <2> DEFINE x == call[d][m]
  <2>1. Good(x, docs, born, loose, cleaned) /\ x \in AnyBlock /\ x.ids \subseteq Ids
    <3>1. Good(x, docs, born, loose, cleaned)
      BY <1>9
    <3> HIDE DEF x
    <3>2. x \in AnyBlock
      BY <3>1 DEF Good, Plan
    <3> QED BY <3>1, <3>2 DEF AnyBlock
  <2>2. ASSUME x.what = "deleted", x.steps = <<"remove", "log">> PROVE Covered(x.ids, new, loose', cleaned)
    <3>1. x.ids \subseteq Doomed
      BY <1>9, <2>2, RemovingIsDoomed
    <3>2. Covered(x.ids, docs, loose, cleaned)
      BY <2>1, <2>2 DEF Good
    <3>3. x.ids \subseteq (Ids \ Present(new)) \cup Doomed
      BY <3>1
    <3> HIDE DEF x
    <3> QED BY <1>3, <1>5, <2>1, <3>2, <3>3, PutCovers
  <2> HIDE DEF x
  <2>3. Good(x, docs', born', loose', cleaned')
    BY <1>3, <1>7, <1>8, <2>1, <2>2 DEF Good
  <2> QED BY <2>3 DEF x
<1>14. Queues' /\ Blocks' /\ Apart' /\ InTurn'
  BY <1>4, <1>6, <1>10, <1>11, <1>13, BlocksStayGood
<1>15. loose' \subseteq Ids \X Ids /\ raced' \subseteq Permissions
  <2>1. \A h \in Present(new) : new[h].refs \subseteq Ids
    <3>1. \A h \in Present(new) : new[h] \in Docs
      BY <1>3 DEF Present
    <3> QED BY <3>1 DEF Docs
  <2> QED BY <1>1, <1>5, <1>9, <2>1, PutIsTyped DEF Typed
<1>16. PairsAreDistinct'
  <2>1. b.clear \/ Head(b.steps) = "writeAll" \/ ~Asks(b.set)
    BY <1>2
  <2> QED BY <1>3, <1>5, <1>9, <2>1, PutParts
<1>17. Typed'
  BY <1>3, <1>7, <1>8, <1>9, <1>14, <1>15 DEF Typed, Queues, Held
<1>18. LogIsTrue' /\ GrantedWereActive' /\ Covered(Ids \ Present(docs), docs, loose, cleaned)'
  BY <1>1, <1>3, <1>7, <1>8, <1>12 DEF AccessInv, LogIsTrue, GrantedWereActive
<1>19. Accounted'
  <2> SUFFICES ASSUME NEW i \in born \ Present(docs)
               PROVE  <<"deleted", i>> \in log \cup unlogged \/ \E d \in Calls : Owing(d, i)'
    BY <1>3, <1>7, <1>8 DEF Accounted
  <2>1. <<"deleted", i>> \in log \cup unlogged \/ \E d \in Calls : Owing(d, i)
    BY <1>1 DEF AccessInv, Accounted
  <2>2. Head(b.steps) # "log"
    OBVIOUS
  <2> QED BY <1>4, <1>6, <2>1, <2>2, OwingStays
<1> QED BY <1>14, <1>16, <1>17, <1>18, <1>19 DEF AccessInv

LEMMA WriteKeeps ==
    ASSUME AccessInv, NEW c \in Calls, NEW step \in {"write", "put"}, Write(c, step)
    PROVE  AccessInv'
<1>1. PICK b \in Range(call[c]) :
          /\ Running(c, b, step)
          /\ Resume(c, b, Unique(With(b, b.ids \cap Stored)) /\ (step = "put" => b.ids \subseteq Stored))
          /\ IF Unique(With(b, b.ids \cap Stored)) THEN Put(b, With(b, b.ids \cap Stored)) ELSE UNCHANGED <<docs, loose, raced>>
          /\ UNCHANGED <<log, made, born, unlogged, cleaned, granted>>
  BY DEF Write
<1>2. Turn(c, b) /\ Head(b.steps) = step /\ b \in AnyBlock /\ b.steps # <<>>
  BY <1>1, RunningTurn
<1> DEFINE D == b.ids \cap Stored
<1>3. CASE Unique(With(b, D))
  <2>1. Put(b, With(b, D)) /\ D \subseteq b.ids \cap Stored
    BY <1>1, <1>3
  <2>2. (Rest(b).steps # <<>> /\ Goes(c, Rest(b))) \/ Drops(c)
    BY <1>1, ResumeIs
  <2>3. UNCHANGED <<log, made, born, unlogged, cleaned, granted>>
    BY <1>1
  <2> HIDE DEF D
  <2> QED BY <1>2, <2>1, <2>2, <2>3, WritingKeeps
<1>4. CASE ~Unique(With(b, D))
  <2>1. Drops(c)
    BY <1>1, <1>4, ResumeIs
  <2>2. Still
    BY <1>1, <1>4 DEF Still
  <2>3. Head(b.steps) # "log"
    BY <1>2
  <2> QED BY <1>2, <2>1, <2>2, <2>3, ReadingKeeps
<1> QED BY <1>3, <1>4

LEMMA WriteAllKeeps == ASSUME AccessInv, NEW c \in Calls, WriteAll(c) PROVE AccessInv'
<1>1. PICK b \in Range(call[c]), D \in SUBSET Ids :
          /\ Running(c, b, "writeAll") /\ D \subseteq b.ids \cap Stored
          /\ Resume(c, b, D = b.ids \cap Stored) /\ Put(b, With(b, D))
          /\ UNCHANGED <<log, made, born, unlogged, cleaned, granted>>
  BY DEF WriteAll
<1>2. Turn(c, b) /\ Head(b.steps) = "writeAll"
  BY <1>1, RunningTurn
<1>3. (Rest(b).steps # <<>> /\ Goes(c, Rest(b))) \/ Drops(c)
  BY <1>1, ResumeIs
<1> QED BY <1>1, <1>2, <1>3, WritingKeeps

(* A document is inserted under an _id that no other block is to save.             *)

LEMMA InsertingKeeps ==
    ASSUME NEW c, NEW b, Turn(c, b), Head(b.steps) = "save", b.complete, NEW i \in b.ids,
           Put(b, [docs EXCEPT ![i] = b.set]), born' = born \cup {i},
           UNCHANGED <<log, made, unlogged, cleaned, granted>>,
           (Rest(b).steps # <<>> /\ Goes(c, Rest(b))) \/ Drops(c)
    PROVE  AccessInv'
<1> DEFINE new == [docs EXCEPT ![i] = b.set]
           a == Rest(b)
<1>1. b \in AnyBlock /\ Plan(b) /\ b.steps # <<>> /\ AccessInv /\ b = call[c][1] /\ 1 \in DOMAIN call[c] /\
        c \in Calls
      /\ Good(b, docs, born, loose, cleaned)
  BY TurnSteps, TurnIs DEF Turn
<1>2. /\ b.what = "created" /\ Saving(b) /\ b.set \in Docs /\ b.ids = {i} /\ i \in Ids /\ i \notin born
      /\ i \in Permissions => b.clear
  <2>1. /\ b.what = "created" /\ Saving(b) /\ b.set \in Docs /\ \E j \in Ids : b.ids = {j}
        /\ b.complete /\ b.ids \cap Permissions # {} => b.clear
    BY <1>1, SaveIs
  <2>2. b.ids = {i} /\ i \in Ids
    BY <2>1
  <2>3. i \notin born
    BY <1>1, <2>1, <2>2 DEF Good
  <2> QED BY <2>1, <2>2, <2>3
<1>3. b.set.refs \subseteq References(i)
  <2>1. "refs" \in DOMAIN b.set
    BY <1>2, DocumentFields DEF Fields
  <2> QED BY <1>1, <1>2, <2>1 DEF Plan, Fits
<1>4. a \in AnyBlock /\ a.what = b.what /\ a.ids = b.ids /\ (a.steps # <<>> => Follows(a, b))
  BY <1>1, RestIs, RestFollows
<1>5. Put(b, new) /\ born' = born \cup {i}
  OBVIOUS
<1>6. (Goes(c, a) /\ a.steps # <<>>) \/ Drops(c)
  OBVIOUS
<1>7. /\ Typed /\ InTurn /\ Apart /\ Queues /\ PairsAreDistinct /\
        Covered(Ids \ Present(docs), docs, loose, cleaned)
      /\ \A d \in Calls : \A m \in DOMAIN call[d] : Good(call[d][m], docs, born, loose, cleaned)
  BY <1>1 DEF AccessInv, Blocks, Typed, Queues
<1>8. /\ new \in [Ids -> Docs \cup {None}] /\ \A h \in Ids : new[h] = IF h = i THEN b.set ELSE docs[h]
  BY <1>2, <1>7 DEF Typed
<1> HIDE DEF new, a
<1>9. Present(new) = Present(docs) \cup {i} /\ i \notin Present(docs) /\ docs[i] = None
  <2>1. b.set # None
    BY <1>2, NoneIsNoDocument
  <2> QED BY <1>2, <1>7, <1>8, <2>1 DEF Present, Typed
<1>10. docs' = new /\ loose \subseteq loose'
  BY <1>5 DEF Put
<1>11. /\ log' = log /\ made' = made /\ unlogged' = unlogged /\ cleaned' = cleaned /\ granted' = granted
  OBVIOUS
<1>12. a.steps # <<>> => Plan(a) /\ ~Saving(a)
  <2> SUFFICES ASSUME a.steps # <<>> PROVE Plan(a) /\ ~Saving(a)
    OBVIOUS
  <2>1. Follows(a, b) /\ Tail(b.steps) # <<>>
    BY <1>4 DEF Follows
  <2>2. Plan(a)
    BY <1>1, <2>1, PlanGoesOn
  <2>3. b.steps = <<"save", "log">> \/ b.steps = <<"save">> \/ b.steps = <<"save", "grant">>
    BY <1>1, <1>2, StepsAre, CreationHeads
  <2>4. a.steps = <<"log">> \/ a.steps = <<"grant">>
    BY <2>1, <2>3, Tails DEF Follows
  <2>5. a.steps[1] \in {"log", "grant"}
    BY <2>4
  <2>6. \A s \in Unchecked \cup Sheltered \cup Registers : s[1] \in {"find", "absent", "save"}
    BY DEF Unchecked, Sheltered, Registers
  <2>7. ~Saving(a)
    BY <2>5, <2>6 DEF Saving
  <2> QED BY <2>2, <2>7
<1>13. a.steps # <<>> => Good(a, docs', born', loose', cleaned')
  BY <1>2, <1>4, <1>12 DEF Good
<1>14. Covered(Ids \ Present(new), new, loose', cleaned)
  <2>1. Ids \ Present(new) \subseteq (Ids \ Present(new)) \cup Doomed /\ Ids \ Present(new) \subseteq Ids
        /\ Covered(Ids \ Present(new), docs, loose, cleaned)
    BY <1>7, <1>9 DEF Covered
  <2> QED BY <1>2, <1>5, <1>8, <2>1, PutCovers
<1>15. ASSUME NEW d \in Calls, NEW m \in DOMAIN call[d], ~(d = c /\ m = 1)
       PROVE  Good(call[d][m], docs', born', loose', cleaned')
  <2> DEFINE x == call[d][m]
  <2>1. Good(x, docs, born, loose, cleaned) /\ x \in AnyBlock /\ x.ids \subseteq Ids
    <3>1. Good(x, docs, born, loose, cleaned)
      BY <1>7
    <3> HIDE DEF x
    <3>2. x \in AnyBlock
      BY <3>1 DEF Good, Plan
    <3> QED BY <3>1, <3>2 DEF AnyBlock
  <2>2. ASSUME x.what = "deleted", x.steps = <<"remove", "log">> PROVE Covered(x.ids, new, loose', cleaned)
    <3>1. x.ids \subseteq Doomed
      BY <1>7, <2>2, RemovingIsDoomed
    <3>2. Covered(x.ids, docs, loose, cleaned)
      BY <2>1, <2>2 DEF Good
    <3>3. x.ids \subseteq (Ids \ Present(new)) \cup Doomed
      BY <3>1
    <3> HIDE DEF x
    <3> QED BY <1>2, <1>5, <1>8, <2>1, <3>2, <3>3, PutCovers
  <2>3. Saving(x) => i \notin x.ids
    BY <1>1, <1>2, <1>7, <1>15 DEF Apart
  <2> HIDE DEF x
  <2>4. Saving(x) => x.ids \cap born' = {}
    BY <1>5, <2>1, <2>3 DEF Good
  <2>5. x.what = "deleted" => x.ids \subseteq born' /\ i \notin x.ids
    BY <1>2, <1>5, <2>1 DEF Good
  <2>6. Good(x, docs', born', loose', cleaned')
    BY <1>9, <1>10, <1>11, <2>1, <2>2, <2>4, <2>5 DEF Good
  <2> QED BY <2>6 DEF x
<1>16. Queues' /\ Blocks' /\ Apart' /\ InTurn'
  <2>1. CASE a.steps # <<>>
    BY <1>4, <1>6, <1>12, <1>13, <1>15, <2>1, BlocksStayGood
  <2>2. CASE a.steps = <<>>
    <3>1. Drops(c)
      BY <1>6, <2>2
    <3> QED BY <1>1, <1>15, <3>1, BlocksStayGood
  <2> QED BY <2>1, <2>2
<1>17. loose' \subseteq Ids \X Ids /\ raced' \subseteq Permissions
  <2>1. \A h \in Present(new) : new[h].refs \subseteq Ids
    <3>1. \A h \in Present(new) : new[h] \in Docs
      BY <1>8 DEF Present
    <3> QED BY <3>1 DEF Docs
  <2>2. b.ids \subseteq Ids
    BY <1>2
  <2> QED BY <1>5, <1>7, <2>1, <2>2, PutIsTyped DEF Typed
<1>18. PairsAreDistinct'
  BY <1>2, <1>5, <1>7, <1>8, PutParts
<1>19. \A h \in Present(new) : new[h].refs \subseteq References(h)
  <2> SUFFICES ASSUME NEW h \in Present(new) PROVE new[h].refs \subseteq References(h)
    OBVIOUS
  <2>1. CASE h = i
    BY <1>2, <1>3, <1>8, <2>1
  <2>2. CASE h # i
    BY <1>7, <1>8, <1>9, <2>2 DEF Typed, Present
  <2> QED BY <2>1, <2>2
<1>20. Typed'
  <2>1. born' \subseteq Ids /\ Present(new) \subseteq born'
    BY <1>2, <1>5, <1>7, <1>9 DEF Typed
  <2> QED BY <1>7, <1>8, <1>10, <1>11, <1>16, <1>17, <1>19, <2>1 DEF Typed, Queues
<1>21. LogIsTrue'
  <2>1. \A j \in Ids : <<"deleted", j>> \in log => j \in born \ Present(docs)
    BY <1>1 DEF AccessInv, LogIsTrue
  <2> QED BY <1>2, <1>5, <1>9, <1>10, <1>11, <2>1 DEF LogIsTrue
<1>22. GrantedWereActive' /\ Covered(Ids \ Present(docs), docs, loose, cleaned)'
  BY <1>1, <1>10, <1>11, <1>14 DEF AccessInv, GrantedWereActive
<1>23. Accounted'
  <2>1. born' \ Present(new) = born \ Present(docs)
    BY <1>2, <1>5, <1>9
  <2> SUFFICES ASSUME NEW j \in born \ Present(docs)
               PROVE  <<"deleted", j>> \in log \cup unlogged \/ \E d \in Calls : Owing(d, j)'
    BY <1>10, <1>11, <2>1 DEF Accounted
  <2>2. <<"deleted", j>> \in log \cup unlogged \/ \E d \in Calls : Owing(d, j)
    BY <1>1 DEF AccessInv, Accounted
  <2>3. Head(b.steps) # "log"
    OBVIOUS
  <2> QED BY <1>4, <1>6, <2>2, <2>3, OwingStays
<1> QED BY <1>16, <1>18, <1>20, <1>21, <1>22, <1>23 DEF AccessInv

LEMMA SaveKeeps == ASSUME AccessInv, NEW c \in Calls, Save(c) PROVE AccessInv'
<1>1. PICK b \in Range(call[c]), i \in Ids :
          /\ Running(c, b, "save") /\ i \in b.ids
          /\ Resume(c, b, b.complete /\ Unique([docs EXCEPT ![i] = b.set]))
          /\ IF b.complete /\ Unique([docs EXCEPT ![i] = b.set])
             THEN Put(b, [docs EXCEPT ![i] = b.set]) /\ born' = born \cup {i}
             ELSE UNCHANGED <<docs, born, loose, raced>>
          /\ UNCHANGED <<log, made, unlogged, cleaned, granted>>
  BY DEF Save
<1>2. Turn(c, b) /\ Head(b.steps) = "save" /\ b \in AnyBlock
  BY <1>1, RunningTurn
<1>3. CASE b.complete /\ Unique([docs EXCEPT ![i] = b.set])
  <2>1. (Rest(b).steps # <<>> /\ Goes(c, Rest(b))) \/ Drops(c)
    BY <1>1, ResumeIs
  <2> QED BY <1>1, <1>2, <1>3, <2>1, InsertingKeeps
<1>4. CASE ~(b.complete /\ Unique([docs EXCEPT ![i] = b.set]))
  <2>1. Drops(c)
    BY <1>1, <1>4, ResumeIs
  <2>2. Still
    BY <1>1, <1>4 DEF Still
  <2>3. Head(b.steps) # "log"
    BY <1>2
  <2> QED BY <1>2, <2>1, <2>2, <2>3, ReadingKeeps
<1> QED BY <1>3, <1>4

-----------------------------------------------------------------------------
(* The invariant *)

LEMMA StartsTrue == Init => AccessInv
<1> SUFFICES ASSUME Init PROVE AccessInv
  OBVIOUS
<1>1. /\ docs = [i \in Ids |-> IF i \in DOMAIN Initial THEN Initial[i] ELSE None] /\ born = DOMAIN Initial
      /\ log = {} /\ made = 0 /\ loose = {} /\ raced = {} /\ unlogged = {} /\ cleaned = {} /\ granted = {}
      /\ call = [c \in Calls |-> <<>>]
  BY DEF Init
<1>2. /\ DOMAIN Initial \subseteq Ids
      /\ \A i \in DOMAIN Initial : Initial[i] \in Docs /\
           Initial[i].refs \subseteq References(i) \cap DOMAIN Initial
      /\ \A p, q \in Permissions \cap DOMAIN Initial : p # q => ~OnePair(Initial[p], Initial[q])
  BY InitialAssumption
<1>3. docs \in [Ids -> Docs \cup {None}]
  BY <1>1, <1>2
<1>4. Present(docs) = DOMAIN Initial /\ \A i \in DOMAIN Initial : docs[i] = Initial[i]
  BY <1>1, <1>2, NoneIsNoDocument DEF Present
<1>5. call \in [Calls -> Seq(AnyBlock)] /\ \A c \in Calls : call[c] = <<>> /\ DOMAIN call[c] = {}
  BY <1>1
<1>6. made \in 0..MaxRequests
  BY <1>1, AccessControlAssumption
<1>7. Typed
  BY <1>1, <1>2, <1>3, <1>4, <1>5, <1>6 DEF Typed
<1>8. Blocks /\ Apart /\ InTurn
  BY <1>5 DEF Blocks, Apart, InTurn
<1>9. LogIsTrue /\ Accounted /\ GrantedWereActive
  BY <1>1, <1>4 DEF LogIsTrue, Accounted, GrantedWereActive
<1>10. Covered(Ids \ Present(docs), docs, loose, cleaned)
  BY <1>2, <1>4 DEF Covered
<1>11. PairsAreDistinct
  BY <1>2, <1>4 DEF PairsAreDistinct, Stored, Present
<1> QED BY <1>7, <1>8, <1>9, <1>10, <1>11 DEF AccessInv

LEMMA StepsKeep == AccessInv /\ [Next]_vars => AccessInv'
<1> SUFFICES ASSUME AccessInv, [Next]_vars PROVE AccessInv'
  OBVIOUS
<1>1. ASSUME NEW c \in Calls,
             \/ Begin(c) \/ Find(c) \/ Exist(c) \/ Unheld(c) \/ Match(c) \/ Absent(c) \/ Lookup(c)
             \/ Collect(c) \/ Save(c) \/ Write(c, "write") \/ Write(c, "put") \/ WriteAll(c)
             \/ Remove(c) \/ Log(c) \/ Grant(c) \/ Interrupt(c)
      PROVE  AccessInv'
  BY <1>1, BeginKeeps, FindKeeps, ExistKeeps, UnheldKeeps, MatchKeeps, AbsentKeeps, LookupKeeps, CollectKeeps,
     SaveKeeps, WriteKeeps, WriteAllKeeps, RemoveKeeps, LogKeeps, GrantKeeps, InterruptKeeps
<1>2. CASE Crash
  BY <1>2, CrashKeeps
<1>3. CASE UNCHANGED vars
  <2>1. /\ docs' = docs /\ log' = log /\ call' = call /\ made' = made /\ born' = born /\ loose' = loose
        /\ raced' = raced /\ unlogged' = unlogged /\ cleaned' = cleaned /\ granted' = granted
    BY <1>3 DEF vars
  <2>2. Typed' /\ Blocks' /\ Apart' /\ InTurn'
    BY <2>1 DEF AccessInv, Typed, Blocks, Apart, InTurn
  <2>3. LogIsTrue' /\ Accounted' /\ Covered(Ids \ Present(docs), docs, loose, cleaned)'
    BY <2>1 DEF AccessInv, LogIsTrue, Accounted, Owing
  <2>4. PairsAreDistinct' /\ GrantedWereActive'
    BY <2>1 DEF AccessInv, PairsAreDistinct, GrantedWereActive, Stored
  <2> QED BY <2>2, <2>3, <2>4 DEF AccessInv
<1> QED BY <1>1, <1>2, <1>3 DEF Next

(* Every reachable state satisfies the inductive invariant: the requests in flight *)
(* keep to their plans, with their histories true.                                 *)
THEOREM AccessInvariant == Spec => []AccessInv
<1> QED BY StartsTrue, StepsKeep, PTL DEF Spec

-----------------------------------------------------------------------------
(* Whatever requests overlap, fail or die, documents keep their shapes, what is     *)
(* stored was inserted once, and no request keeps a block whose steps are done.     *)
THEOREM AlwaysTyped == Spec => []TypeOK
<1>1. AccessInv => TypeOK
  <2> SUFFICES ASSUME AccessInv PROVE TypeOK
    OBVIOUS
  <2>1. Typed /\ Blocks /\ Stored \subseteq born
    BY DEF AccessInv, Typed, Stored, Present
  <2>2. ASSUME NEW c \in Calls, NEW b \in Range(call[c]) PROVE b.steps # <<>> /\ b.ids \subseteq Ids
    <3>1. PICK n \in DOMAIN call[c] : b = call[c][n]
      BY DEF Range
    <3>2. Plan(b) /\ b \in AnyBlock
      BY <2>1, <3>1 DEF Blocks, Good, Plan
    <3>3. b.steps # <<>>
      BY <3>2, StepsAre, DeletionHeads, CreationHeads, UpdateHeads, ReadingHeads
    <3> QED BY <3>2, <3>3 DEF AnyBlock
  <2> QED BY <2>1, <2>2 DEF TypeOK, Typed
<1> QED BY <1>1, AccessInvariant, PTL

(* A role that users hold, or a permission that roles hold, is not removed from     *)
(* under them: whatever is held and missing was given past its count or while it    *)
(* was not there, or went with the clean-up, or is a permission of a user.          *)
THEOREM HeldAlwaysExists == Spec => []HeldExists
<1>1. AccessInv => HeldExists
  BY DEF AccessInv, Covered, Excused, HeldExists, Stored, Present
<1> QED BY <1>1, AccessInvariant, PTL

(* Two permissions come to be of one resource and action only where one of them was *)
(* written by a bulk update, by an update that gave only blanks, or by a request    *)
(* that had found free the pair it looked up.                                       *)
THEOREM PairsStayDistinct == Spec => []PairsAreDistinct
<1>1. AccessInv => PairsAreDistinct
  BY DEF AccessInv
<1> QED BY <1>1, AccessInvariant, PTL

(* Whatever was inserted and is gone is in the log as deleted, or its request is     *)
(* about to say so, or the entry was lost; and nothing is in the log as deleted      *)
(* that is still there.                                                              *)
THEOREM RemovalsStayLogged == Spec => []RemovalsAreLogged
<1>1. AccessInv => RemovalsAreLogged
  <2> SUFFICES ASSUME AccessInv PROVE RemovalsAreLogged
    OBVIOUS
  <2>1. Accounted /\ LogIsTrue /\ Stored = Present(docs)
    BY DEF AccessInv, Stored, Present
  <2> DEFINE owed(c) == Owed(IF call[c] = <<>> THEN {} ELSE {Head(call[c])})
  <2>2. ASSUME NEW c \in Calls, NEW i, Owing(c, i) PROVE <<"deleted", i>> \in owed(c)
    <3>1. owed(c) = Owed({Head(call[c])})
      BY <2>2 DEF Owing
    <3> HIDE DEF owed
    <3>2. <<"deleted", i>> \in Owed({Head(call[c])})
      BY <2>2 DEF Owing, Owed
    <3> QED BY <3>1, <3>2
  <2> HIDE DEF owed
  <2>3. \A i \in born \ Stored : <<"deleted", i>> \in log \cup unlogged \cup UNION {owed(c) : c \in Calls}
    BY <2>1, <2>2 DEF Accounted
  <2> QED BY <2>1, <2>3 DEF RemovalsAreLogged, LogIsTrue, owed
<1> QED BY <1>1, AccessInvariant, PTL

(* Tokens are given, and requests let in, only where the service had just seen the   *)
(* account active, or registered it, whatever changed in between.                    *)
THEOREM GrantedAlwaysWereActive == Spec => []GrantedWereActive
<1>1. AccessInv => GrantedWereActive
  BY DEF AccessInv
<1> QED BY <1>1, AccessInvariant, PTL
=============================================================================
