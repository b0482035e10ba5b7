------------------------ MODULE WorkflowEngineProofs ------------------------
(***************************************************************************)
(* The workflow engine, proved for any workflows, any definitions, any     *)
(* number of executions and all faults: first the executions, which read   *)
(* the registered definitions and write jobs but depend on nothing the     *)
(* workers do, then the jobs in the queues of the workers.                 *)
(***************************************************************************)
EXTENDS WorkflowEngine, TLAPS

Settled == {"completed", "failed", "skipped"}
StepStates == Settled \cup {"pending", "running"}
StepMaps == UNION {[1..n -> StepStates] : n \in Nat}
Exec == [status : {"none", "running", "completed", "failed"}, workflow : Workflows \cup {<<>>},
         at : Nat, steps : StepMaps]

Met(e, i) == \A k \in e.workflow[i].dependencies : k < i /\ e.steps[k] = "completed"
Respects(e, i) ==
    /\ e.steps[i] \in {"running", "completed", "failed"} => Met(e, i)
    /\ e.steps[i] = "skipped" => ~Met(e, i)
(* A step is settled for good: it failed only if a failure action takes over. *)
Passed(e, i) == e.steps[i] \in Settled /\ (e.steps[i] = "failed" => e.workflow[i].onFailure)

(* An execution that was started: the steps before the current one are settled,  *)
(* those after it untouched.                                                     *)
Going(e) ==
    /\ e.workflow \in Workflows /\ e.at \in 1..Len(e.workflow)
    /\ e.steps \in [1..Len(e.workflow) -> StepStates]
    /\ \A i \in 1..Len(e.workflow) : /\ i < e.at => Passed(e, i)
                                     /\ i > e.at => e.steps[i] = "pending"
                                     /\ Respects(e, i)
    /\ e.status = "running" => e.steps[e.at] \in {"pending", "running"}
    /\ e.status = "completed" => e.at = Len(e.workflow) /\ Passed(e, e.at)
    /\ e.status = "failed" => e.steps[e.at] = "failed" /\ ~e.workflow[e.at].onFailure

ExecInv ==
    /\ exec \in [Executions -> Exec]
    /\ \A x \in Executions : IF Started(x) THEN Going(exec[x]) ELSE exec[x] = NotStarted

LEMMA InitInv == Init => ExecInv
<1> SUFFICES ASSUME Init PROVE ExecInv
  OBVIOUS
<1>1. <<>> \in [1..0 -> StepStates]
  OBVIOUS
<1>2. <<>> \in StepMaps
  BY <1>1 DEF StepMaps
<1>3. NotStarted \in Exec
  BY <1>2 DEF NotStarted, Exec
<1> QED
  BY <1>3 DEF Init, ExecInv, Started, NotStarted

-----------------------------------------------------------------------------
(* The three ways a step changes its execution. *)

(* How f differs from e: the current step, and where the execution is. *)
StepTo(e, f, at, status, step) ==
    /\ f \in Exec /\ f.workflow = e.workflow /\ f.at = at /\ f.status = status
    /\ f.steps \in [1..Len(e.workflow) -> StepStates]
    /\ f.steps[e.at] = step
    /\ \A i \in 1..Len(e.workflow) : i # e.at => f.steps[i] = e.steps[i]

LEMMA StepMapsType ==
    ASSUME NEW e \in Exec, Going(e), NEW step \in StepStates
    PROVE  /\ [e.steps EXCEPT ![e.at] = step] \in [1..Len(e.workflow) -> StepStates]
           /\ [e.steps EXCEPT ![e.at] = step] \in StepMaps
           /\ Len(e.workflow) \in Nat
<1>1. Len(e.workflow) \in Nat
  BY WorkflowAssumption DEF Going
<1>2. [e.steps EXCEPT ![e.at] = step] \in [1..Len(e.workflow) -> StepStates]
  BY DEF Going
<1> QED
  BY <1>1, <1>2 DEF StepMaps

LEMMA RunningStep ==
    ASSUME NEW x \in Executions, exec[x] \in Exec, Going(exec[x]), exec[x].status = "running"
    PROVE  StepTo(exec[x], [exec[x] EXCEPT !.steps[exec[x].at] = "running"], exec[x].at, "running", "running")
<1> DEFINE e == exec[x]
           steps == [e.steps EXCEPT ![e.at] = "running"]
<1>1. [e EXCEPT !.steps[e.at] = "running"]
        = [status |-> e.status, workflow |-> e.workflow, at |-> e.at, steps |-> steps]
  BY DEF Exec
<1>2. "running" \in StepStates
  BY DEF StepStates
<1>3. steps \in [1..Len(e.workflow) -> StepStates] /\ steps \in StepMaps
  BY <1>2, StepMapsType
<1>4. /\ e.at \in 1..Len(e.workflow) /\ steps[e.at] = "running"
      /\ \A i \in 1..Len(e.workflow) : i # e.at => steps[i] = e.steps[i]
  BY DEF Going
<1> HIDE DEF steps
<1> QED
  BY <1>1, <1>3, <1>4 DEF StepTo, Exec

LEMMA FollowingStep ==
    ASSUME NEW x \in Executions, exec[x] \in Exec, Going(exec[x]), exec[x].status = "running", NEW step \in Settled
    PROVE  LET last == exec[x].at = Len(exec[x].workflow) IN
           StepTo(exec[x], Following(x, step), IF last THEN exec[x].at ELSE exec[x].at + 1,
                  IF last THEN "completed" ELSE "running", step)
<1> DEFINE e == exec[x]
           steps == [e.steps EXCEPT ![e.at] = step]
           last == e.at = Len(e.workflow)
<1>0. step \in StepStates
  BY DEF StepStates
<1>1. steps \in [1..Len(e.workflow) -> StepStates] /\ steps \in StepMaps /\ Len(e.workflow) \in Nat
  BY <1>0, StepMapsType
<1>2. /\ e.at \in 1..Len(e.workflow) /\ steps[e.at] = step
      /\ \A i \in 1..Len(e.workflow) : i # e.at => steps[i] = e.steps[i]
  BY DEF Going
<1>3. e.at < Len(e.workflow) <=> ~last
  BY <1>1, <1>2
<1>4. e = [status |-> "running", workflow |-> e.workflow, at |-> e.at, steps |-> e.steps]
  BY DEF Exec
<1>5. Following(x, step) = [status |-> IF last THEN "completed" ELSE "running", workflow |-> e.workflow,
                            at |-> IF last THEN e.at ELSE e.at + 1, steps |-> steps]
  <2>1. CASE last
    <3>1. Following(x, step) = [e EXCEPT !.steps[e.at] = step, !.at = e.at, !.status = "completed"]
      BY <1>3, <2>1 DEF Following
    <3> QED
      BY <1>4, <2>1, <3>1
  <2>2. CASE ~last
    <3>1. Following(x, step) = [e EXCEPT !.steps[e.at] = step, !.at = e.at + 1, !.status = "running"]
      BY <1>3, <2>2 DEF Following
    <3> QED
      BY <1>4, <2>2, <3>1
  <2> QED
    BY <2>1, <2>2
<1> HIDE DEF steps, last
<1>6. StepTo(e, Following(x, step), IF last THEN e.at ELSE e.at + 1,
             IF last THEN "completed" ELSE "running", step)
  BY <1>1, <1>2, <1>5 DEF StepTo, Exec
<1> QED
  BY <1>6 DEF last

LEMMA FailingStep ==
    ASSUME NEW x \in Executions, exec[x] \in Exec, Going(exec[x]), exec[x].status = "running", ~Current(x).onFailure
    PROVE  StepTo(exec[x], Failing(x), exec[x].at, "failed", "failed")
<1> DEFINE e == exec[x]
           steps == [e.steps EXCEPT ![e.at] = "failed"]
<1>1. Failing(x) = [status |-> "failed", workflow |-> e.workflow, at |-> e.at, steps |-> steps]
  BY DEF Failing, Exec
<1>2. "failed" \in StepStates
  BY DEF StepStates, Settled
<1>3. steps \in [1..Len(e.workflow) -> StepStates] /\ steps \in StepMaps
  BY <1>2, StepMapsType
<1>4. /\ e.at \in 1..Len(e.workflow) /\ steps[e.at] = "failed"
      /\ \A i \in 1..Len(e.workflow) : i # e.at => steps[i] = e.steps[i]
  BY DEF Going
<1> HIDE DEF steps
<1> QED
  BY <1>1, <1>3, <1>4 DEF StepTo, Exec

-----------------------------------------------------------------------------
(* Only steps before the current one are completed, so that what DependenciesMet *)
(* asks of any step comes down to Met.                                           *)
MetNow(e) == \A k \in e.workflow[e.at].dependencies : e.steps[k] = "completed"

LEMMA MetIsBefore ==
    ASSUME NEW e, Going(e), e.status = "running"
    PROVE  MetNow(e) <=> Met(e, e.at)
<1>1. Len(e.workflow) \in Nat /\ e.workflow[e.at].dependencies \subseteq 1..Len(e.workflow)
  BY WorkflowAssumption DEF Going
<1>2. \A k \in 1..Len(e.workflow) : e.steps[k] = "completed" => k < e.at
  BY <1>1 DEF Going
<1> QED
  BY <1>1, <1>2 DEF MetNow, Met

(* What was said of the other steps stays true when the current one changes, and *)
(* the current one respects its dependencies if they were met when it changed.   *)
LEMMA OthersKept ==
    ASSUME NEW e, NEW f, NEW at, NEW status, NEW step \in StepStates,
           Going(e), e.status = "running", StepTo(e, f, at, status, step),
           step \in {"running", "completed", "failed"} => MetNow(e),
           step = "skipped" => ~MetNow(e)
    PROVE  \A i \in 1..Len(e.workflow) : /\ i < e.at => Passed(f, i)
                                         /\ i > e.at => f.steps[i] = "pending"
                                         /\ Respects(f, i)
<1>1. Len(e.workflow) \in Nat /\ e.at \in 1..Len(e.workflow)
  BY WorkflowAssumption DEF Going
<1> TAKE i \in 1..Len(e.workflow)
<1>2. f.workflow = e.workflow /\ (i # e.at => f.steps[i] = e.steps[i]) /\ f.steps[e.at] = step
  BY DEF StepTo
<1>3. i <= e.at => (Met(f, i) <=> Met(e, i))
  <2> SUFFICES ASSUME i <= e.at PROVE Met(f, i) <=> Met(e, i)
    OBVIOUS
  <2>1. e.workflow[i].dependencies \subseteq 1..Len(e.workflow)
    BY WorkflowAssumption DEF Going
  <2>2. \A k \in e.workflow[i].dependencies : k < i => f.steps[k] = e.steps[k]
    BY <1>1, <2>1 DEF StepTo
  <2> QED
    BY <1>2, <2>2 DEF Met
<1>4. i < e.at => Passed(f, i) /\ Respects(f, i)
  BY <1>1, <1>2, <1>3 DEF Going, Passed, Respects
<1>5. i > e.at => f.steps[i] = "pending" /\ Respects(f, i)
  BY <1>1, <1>2 DEF Going, Respects
<1>6. i = e.at => Respects(f, i)
  BY <1>2, <1>3, MetIsBefore DEF Respects
<1> QED
  BY <1>1, <1>4, <1>5, <1>6

LEMMA GoesOn ==
    ASSUME NEW x \in Executions, exec[x] \in Exec, Going(exec[x]), exec[x].status = "running", NEW step \in Settled,
           step = "failed" => Current(x).onFailure,
           step \in {"completed", "failed"} => MetNow(exec[x]),
           step = "skipped" => ~MetNow(exec[x])
    PROVE  Following(x, step) \in Exec /\ Following(x, step).status # "none" /\ Going(Following(x, step))
<1> DEFINE e == exec[x]
           f == Following(x, step)
           last == e.at = Len(e.workflow)
           at == IF last THEN e.at ELSE e.at + 1
           status == IF last THEN "completed" ELSE "running"
<1>1. StepTo(e, f, at, status, step)
  BY FollowingStep
<1>2. step \in StepStates
  BY DEF StepStates
<1> HIDE DEF f
<1>3. \A i \in 1..Len(e.workflow) : /\ i < e.at => Passed(f, i)
                                    /\ i > e.at => f.steps[i] = "pending"
                                    /\ Respects(f, i)
  <2> HIDE DEF at, status
  <2> QED
    BY <1>1, <1>2, OthersKept DEF Settled
<1>4. Passed(f, e.at)
  BY <1>1 DEF StepTo, Passed, Current
<1>5. /\ f \in Exec /\ f.workflow = e.workflow /\ f.at = at /\ f.status = status
      /\ f.steps \in [1..Len(e.workflow) -> StepStates]
  BY <1>1 DEF StepTo
<1>6. Len(e.workflow) \in Nat /\ e.at \in 1..Len(e.workflow) /\ e.workflow \in Workflows
  BY WorkflowAssumption DEF Going
<1>7. Going(f)
  BY <1>3, <1>4, <1>5, <1>6 DEF Going
<1> QED
  BY <1>5, <1>7 DEF f

(* A step that throws was entered, so its dependencies were met. *)
LEMMA FailingGoes ==
    ASSUME NEW x \in Executions, exec[x] \in Exec, Going(exec[x]), exec[x].status = "running", MetNow(exec[x])
    PROVE  Failing(x) \in Exec /\ Failing(x).status # "none" /\ Going(Failing(x))
<1>1. CASE Current(x).onFailure
  <2>1. Failing(x) = Following(x, "failed")
    BY <1>1 DEF Failing
  <2> QED
    BY <1>1, <2>1, GoesOn DEF Settled
<1>2. CASE ~Current(x).onFailure
  <2> DEFINE e == exec[x]
             f == Failing(x)
  <2>1. StepTo(e, f, e.at, "failed", "failed")
    BY <1>2, FailingStep
  <2> HIDE DEF f
  <2>2. \A i \in 1..Len(e.workflow) : /\ i < e.at => Passed(f, i)
                                      /\ i > e.at => f.steps[i] = "pending"
                                      /\ Respects(f, i)
    BY <2>1, OthersKept DEF StepStates, Settled
  <2>3. /\ f \in Exec /\ f.workflow = e.workflow /\ f.at = e.at /\ f.status = "failed"
        /\ f.steps \in [1..Len(e.workflow) -> StepStates] /\ f.steps[e.at] = "failed"
    BY <2>1 DEF StepTo
  <2>4. Going(f)
    BY <1>2, <2>2, <2>3 DEF Going, Current
  <2> QED
    BY <2>3, <2>4 DEF f
<1> QED
  BY <1>1, <1>2

LEMMA RunningGoes ==
    ASSUME NEW x \in Executions, exec[x] \in Exec, Going(exec[x]), exec[x].status = "running", MetNow(exec[x])
    PROVE  LET f == [exec[x] EXCEPT !.steps[exec[x].at] = "running"] IN
           f \in Exec /\ f.status # "none" /\ Going(f)
<1> DEFINE e == exec[x]
           f == [e EXCEPT !.steps[e.at] = "running"]
<1>1. StepTo(e, f, e.at, "running", "running")
  BY RunningStep
<1> HIDE DEF f
<1>2. \A i \in 1..Len(e.workflow) : /\ i < e.at => Passed(f, i)
                                    /\ i > e.at => f.steps[i] = "pending"
                                    /\ Respects(f, i)
  BY <1>1, OthersKept DEF StepStates
<1>3. /\ f \in Exec /\ f.workflow = e.workflow /\ f.at = e.at /\ f.status = "running"
      /\ f.steps \in [1..Len(e.workflow) -> StepStates] /\ f.steps[e.at] = "running"
  BY <1>1 DEF StepTo
<1>4. Going(f)
  BY <1>2, <1>3 DEF Going
<1> QED
  BY <1>3, <1>4 DEF f

-----------------------------------------------------------------------------
(* One execution changes, to one that is well. *)
LEMMA OneChanges ==
    ASSUME ExecInv, NEW x \in Executions, NEW f, f \in Exec, f.status # "none", Going(f),
           exec' = [exec EXCEPT ![x] = f]
    PROVE  ExecInv'
<1>1. exec' \in [Executions -> Exec] /\ exec'[x] = f /\ \A y \in Executions : y # x => exec'[y] = exec[y]
  BY DEF ExecInv
<1>2. ASSUME NEW y \in Executions
      PROVE  IF exec'[y].status # "none" THEN Going(exec'[y]) ELSE exec'[y] = NotStarted
  <2>1. CASE y = x
    BY <1>1, <2>1
  <2>2. CASE y # x
    <3>1. exec'[y] = exec[y]
      BY <1>1, <2>2
    <3>2. IF exec[y].status # "none" THEN Going(exec[y]) ELSE exec[y] = NotStarted
      BY DEF ExecInv, Started
    <3> QED
      BY <3>1, <3>2
  <2> QED
    BY <2>1, <2>2
<1> QED
  BY <1>1, <1>2 DEF ExecInv, Started

LEMMA StartGoes ==
    ASSUME NEW w \in Workflows
    PROVE  LET f == [status |-> "running", workflow |-> w, at |-> 1, steps |-> [i \in 1..Len(w) |-> "pending"]] IN
           f \in Exec /\ Going(f)
<1> DEFINE steps == [i \in 1..Len(w) |-> "pending"]
           f == [status |-> "running", workflow |-> w, at |-> 1, steps |-> steps]
<1>1. Len(w) \in Nat \ {0}
  BY WorkflowAssumption
<1>2. steps \in [1..Len(w) -> StepStates] /\ steps \in StepMaps /\ \A i \in 1..Len(w) : steps[i] = "pending"
  BY <1>1 DEF StepStates, StepMaps
<1> HIDE DEF steps
<1>3. f \in Exec
  BY <1>2 DEF Exec
<1>4. Going(f)
  BY <1>1, <1>2 DEF Going, Respects
<1> QED
  BY <1>3, <1>4 DEF steps

LEMMA NextInv == ExecInv /\ [Next]_vars => ExecInv'
<1> SUFFICES ASSUME ExecInv, [Next]_vars PROVE ExecInv'
  OBVIOUS
<1>1. CASE exec' = exec
  BY <1>1 DEF ExecInv, Started
<1>2. ASSUME NEW x \in Executions, NEW w \in Workflows, Start(x, w) PROVE ExecInv'
  BY <1>2, StartGoes, OneChanges DEF Start
<1>3. ASSUME NEW x \in Executions, exec[x].status = "running"
      PROVE  exec[x] \in Exec /\ Going(exec[x]) /\ (MetNow(exec[x]) <=> DependenciesMet(x))
                 /\ (StepStatus(x) = "running" => MetNow(exec[x]))
  <2>1. exec[x] \in Exec /\ Going(exec[x])
    BY <1>3 DEF ExecInv, Started
  <2>2. StepStatus(x) = "running" => Met(exec[x], exec[x].at)
    BY <2>1 DEF StepStatus, Going, Respects
  <2> QED
    BY <1>3, <2>1, <2>2, MetIsBefore DEF MetNow, DependenciesMet, Current
<1>4. ASSUME NEW x \in Executions, Enter(x) PROVE ExecInv'
  <2>1. exec[x].status = "running"
    BY <1>4 DEF Enter
  <2>2. CASE ~DependenciesMet(x)
    <3>1. exec' = [exec EXCEPT ![x] = Following(x, "skipped")]
      BY <1>4, <2>2 DEF Enter
    <3> QED
      BY <1>3, <2>1, <2>2, <3>1, GoesOn, OneChanges DEF Settled
  <2>3. CASE DependenciesMet(x)
    <3>1. \/ exec' = [exec EXCEPT ![x] = Failing(x)]
          \/ exec' = [exec EXCEPT ![x] = [exec[x] EXCEPT !.steps[exec[x].at] = "running"]]
          \/ exec' = [exec EXCEPT ![x] = Following(x, "completed")]
      BY <1>4, <2>3 DEF Enter
    <3>2. CASE exec' = [exec EXCEPT ![x] = Failing(x)]
      BY <1>3, <2>1, <2>3, <3>2, FailingGoes, OneChanges
    <3>3. CASE exec' = [exec EXCEPT ![x] = [exec[x] EXCEPT !.steps[exec[x].at] = "running"]]
      BY <1>3, <2>1, <2>3, <3>3, RunningGoes, OneChanges
    <3>4. CASE exec' = [exec EXCEPT ![x] = Following(x, "completed")]
      BY <1>3, <2>1, <2>3, <3>4, GoesOn, OneChanges DEF Settled
    <3> QED
      BY <3>1, <3>2, <3>3, <3>4
  <2> QED
    BY <2>2, <2>3
<1>5. ASSUME NEW x \in Executions, AddJob(x) \/ Waited(x) PROVE ExecInv'
  <2>1. exec[x].status = "running" /\ StepStatus(x) = "running"
    BY <1>5 DEF AddJob, Waited
  <2>2. \/ exec' = [exec EXCEPT ![x] = Following(x, "completed")]
        \/ exec' = [exec EXCEPT ![x] = Failing(x)]
    BY <1>5 DEF AddJob, Waited, Rejected
  <2>3. CASE exec' = [exec EXCEPT ![x] = Following(x, "completed")]
    BY <1>3, <2>1, <2>3, GoesOn, OneChanges DEF Settled
  <2>4. CASE exec' = [exec EXCEPT ![x] = Failing(x)]
    BY <1>3, <2>1, <2>4, FailingGoes, OneChanges
  <2> QED
    BY <2>2, <2>3, <2>4
<1>6. ASSUME \/ \E d \in Definitions : Register(d)
             \/ \E j \in Slots : Finish(j) \/ Stall(j) \/ RetryJob(j) \/ RemoveJob(j) \/ \E d \in registered : Take(d, j)
             \/ UNCHANGED vars
      PROVE  exec' = exec
  BY <1>6 DEF Register, Finish, Stall, RetryJob, RemoveJob, Take, Set, vars
<1> QED
  BY <1>1, <1>2, <1>4, <1>5, <1>6 DEF Next, Advance

LEMMA AlwaysExecInv == Spec => []ExecInv
BY InitInv, NextInv, PTL DEF Spec

(* A workflow that is over left no step open: the loop reaches the last step     *)
(* settling each on the way, and a step that throws without a failure action is  *)
(* the last one touched.                                                         *)
THEOREM WorkflowsEndSettled == Spec => []OverIsSettled
<1>1. ExecInv => OverIsSettled
  <2> SUFFICES ASSUME ExecInv, NEW x \in Executions
               PROVE  LET e == exec[x] IN
                      /\ e.status = "completed" => \A i \in DOMAIN e.steps :
                            \/ e.steps[i] \in {"completed", "skipped"}
                            \/ e.steps[i] = "failed" /\ e.workflow[i].onFailure
                      /\ e.status = "failed" =>
                            /\ e.steps[e.at] = "failed" /\ ~e.workflow[e.at].onFailure
                            /\ \A i \in DOMAIN e.steps : i > e.at => e.steps[i] = "pending"
    BY DEF OverIsSettled
  <2> DEFINE e == exec[x]
  <2>1. CASE Going(e)
    <3>1. Len(e.workflow) \in Nat /\ DOMAIN e.steps = 1..Len(e.workflow)
      BY <2>1, WorkflowAssumption DEF Going
    <3>2. ASSUME e.status = "completed", NEW i \in 1..Len(e.workflow) PROVE Passed(e, i)
      BY <2>1, <3>1, <3>2 DEF Going
    <3> QED
      BY <2>1, <3>1, <3>2 DEF Going, Passed, Settled
  <2>2. CASE e = NotStarted
    BY <2>2 DEF NotStarted
  <2> QED
    BY <2>1, <2>2 DEF ExecInv
<1> QED
  BY <1>1, AlwaysExecInv, PTL

(* A step runs only after everything it depends on is completed, and is skipped  *)
(* only because something is not, then and ever after: a dependency on a later   *)
(* step skips it for good.                                                       *)
THEOREM DependenciesAreRespected == Spec => []DependenciesRespected
<1>1. ExecInv => DependenciesRespected
  <2> SUFFICES ASSUME ExecInv, NEW x \in Executions, NEW i \in DOMAIN exec[x].steps
               PROVE  Respects(exec[x], i)
    BY DEF DependenciesRespected, Respects, Met
  <2>1. CASE Going(exec[x])
    BY <2>1 DEF Going
  <2>2. CASE exec[x] = NotStarted
    BY <2>2 DEF NotStarted
  <2> QED
    BY <2>1, <2>2 DEF ExecInv
<1> QED
  BY <1>1, AlwaysExecInv, PTL

-----------------------------------------------------------------------------
(* The jobs. *)

Names == {d.name : d \in Definitions} \cup {"none"}
JobStates == {"none", "waiting", "active", "completed", "failed", "removed"}
Jobs == [status : JobStates, name : Names, tries : Nat, retried : Nat, processor : Names]

(* A job that can still run has a try left, of its definition's attempts or of   *)
(* an operator's retries.                                                        *)
Open(r) == IF r.status \in {"waiting", "active"} THEN 1 ELSE 0
Within(r, d) == d.name = r.name /\ r.tries + Open(r) <= d.attempts + r.retried
Accounted(r) == r.status # "none" => \E d \in registered : Within(r, d)

(* The job of a step that awaits its add was defined when the step was entered,  *)
(* and no definition is ever taken back.                                         *)
AddsDefined == \A x \in Executions :
    exec[x].status = "running" /\ StepStatus(x) = "running" /\ Current(x).type = "job"
        => Defined(Current(x).job) # {}

(* The step and the job of a slot; an execution that has not started has no job. *)
SlotMatches(x, i) ==
    LET status == jobs[<<x, i>>].status IN
    IF Started(x)
    THEN i \in DOMAIN exec[x].steps =>
            /\ exec[x].steps[i] = "completed" /\ exec[x].workflow[i].type = "job" => status # "none"
            /\ status # "none" => exec[x].steps[i] \in {"completed", "failed"}
    ELSE status = "none"

JobsTyped == registered \subseteq Definitions /\ jobs \in [Slots -> Jobs]
JobsInv ==
    /\ JobsTyped /\ AddsDefined
    /\ \A j \in Slots : Accounted(jobs[j])
    /\ \A x \in Executions, i \in 1..MaxSteps : SlotMatches(x, i)

LEMMA SlotForm ==
    /\ \A j \in Slots : j[1] \in Executions /\ j[2] \in 1..MaxSteps /\ j = <<j[1], j[2]>>
    /\ \A x \in Executions, i \in 1..MaxSteps : <<x, i>> \in Slots
BY DEF Slots

LEMMA DefinitionsKnown ==
    \A d \in Definitions : d.name \in Names /\ d.attempts \in Nat \ {0}
BY WorkflowAssumption DEF Definitions, Names

LEMMA InitJobs == Init => JobsInv
<1> SUFFICES ASSUME Init PROVE JobsInv
  OBVIOUS
<1>1. NoJob \in Jobs
  BY DEF NoJob, Jobs, Names, JobStates
<1>2. JobsTyped /\ \A j \in Slots : jobs[j] = NoJob
  BY <1>1 DEF Init, JobsTyped
<1>3. \A x \in Executions : exec[x].status = "none"
  BY DEF Init, NotStarted
<1> QED
  BY <1>2, <1>3, SlotForm DEF JobsInv, AddsDefined, Accounted, SlotMatches, Started, NoJob

(* Only the executions change their steps: what the workers do to a job leaves   *)
(* it a job.                                                                     *)
LEMMA WorkKeepsJobs ==
    ASSUME JobsInv, NEW j \in Slots, NEW r \in Jobs, Set(j, r),
           jobs[j].status # "none", r.status # "none", Accounted(r)
    PROVE  JobsInv'
<1>1. /\ registered' = registered /\ exec' = exec /\ jobs' = [jobs EXCEPT ![j] = r]
  BY DEF Set
<1>2. jobs' \in [Slots -> Jobs] /\ jobs'[j] = r /\ \A k \in Slots : k # j => jobs'[k] = jobs[k]
  BY <1>1 DEF JobsInv, JobsTyped
<1>3. \A k \in Slots : Accounted(jobs'[k])
  BY <1>2 DEF JobsInv
<1>4. (\A k \in Slots : Accounted(jobs[k]))'
  BY <1>1, <1>3 DEF Accounted, Within
<1>5. AddsDefined'
  BY <1>1 DEF JobsInv, AddsDefined, StepStatus, Current, Defined
<1>6. \A x \in Executions, i \in 1..MaxSteps : jobs'[<<x, i>>].status # "none" <=> jobs[<<x, i>>].status # "none"
  BY <1>2, SlotForm
<1>7. (\A x \in Executions, i \in 1..MaxSteps : SlotMatches(x, i))'
  BY <1>1, <1>6 DEF JobsInv, SlotMatches, Started
<1> QED
  BY <1>1, <1>2, <1>4, <1>5, <1>7 DEF JobsInv, JobsTyped

(* What a definition that can be chosen for a job's attempts is: there is one.   *)
LEMMA AttemptsOf ==
    ASSUME JobsTyped, NEW j \in Slots, NEW d \in registered, d.name = jobs[j].name
    PROVE  Attempts(j) = d.attempts
<1>1. \A e \in Defined(jobs[j].name) : e = d
  BY WorkflowAssumption DEF JobsTyped, Definitions, Defined
<1>2. d \in Defined(jobs[j].name)
  BY DEF Defined
<1>3. {e.attempts : e \in Defined(jobs[j].name)} = {d.attempts}
  BY <1>1, <1>2
<1> QED
  BY <1>3 DEF Attempts

(* The changes of a job's record, spelled out. *)
LEMMA JobTried ==
    ASSUME NEW r \in Jobs, NEW status
    PROVE  [r EXCEPT !.status = status, !.tries = @ + 1]
               = [status |-> status, name |-> r.name, tries |-> r.tries + 1,
                  retried |-> r.retried, processor |-> r.processor]
<1> DEFINE s == [r EXCEPT !.status = status, !.tries = @ + 1]
<1>1. s = [r EXCEPT !.status = status, !.tries = @ + 1]
  OBVIOUS
<1> HIDE DEF s
<1>2. s = [status |-> status, name |-> r.name, tries |-> r.tries + 1,
           retried |-> r.retried, processor |-> r.processor]
  BY <1>1 DEF Jobs
<1> QED
  BY <1>1, <1>2, Zenon

LEMMA JobRetried ==
    ASSUME NEW r \in Jobs, NEW status
    PROVE  [r EXCEPT !.status = status, !.retried = @ + 1]
               = [status |-> status, name |-> r.name, tries |-> r.tries,
                  retried |-> r.retried + 1, processor |-> r.processor]
<1> DEFINE s == [r EXCEPT !.status = status, !.retried = @ + 1]
<1>1. s = [r EXCEPT !.status = status, !.retried = @ + 1]
  OBVIOUS
<1> HIDE DEF s
<1>2. s = [status |-> status, name |-> r.name, tries |-> r.tries,
           retried |-> r.retried + 1, processor |-> r.processor]
  BY <1>1 DEF Jobs
<1> QED
  BY <1>1, <1>2, Zenon

LEMMA WorkInv ==
    ASSUME JobsInv, NEW j \in Slots,
           Finish(j) \/ Stall(j) \/ RetryJob(j) \/ RemoveJob(j) \/ \E d \in registered : Take(d, j)
    PROVE  JobsInv'
<1> DEFINE r == jobs[j]
<1>1. r \in Jobs /\ JobsTyped /\ Accounted(r) /\ r.tries \in Nat /\ r.retried \in Nat
  BY DEF JobsInv, JobsTyped, Jobs
<1>2. \A d \in registered : d.name \in Names /\ d.attempts \in Nat \ {0}
  BY <1>1, DefinitionsKnown DEF JobsTyped
<1>3. ASSUME NEW s, s \in Jobs, Set(j, s), r.status # "none", s.status # "none", s.name = r.name,
             s.tries + Open(s) <= r.tries + Open(r) + (s.retried - r.retried)
      PROVE  JobsInv'
  <2>1. PICK d \in registered : Within(r, d)
    BY <1>1, <1>3 DEF Accounted
  <2>2. Open(r) \in Nat /\ Open(s) \in Nat /\ s.tries \in Nat /\ s.retried \in Nat
    BY <1>3 DEF Open, Jobs
  <2>3. Within(s, d)
    BY <1>1, <1>2, <1>3, <2>1, <2>2 DEF Within
  <2> QED
    BY <1>3, <2>3, WorkKeepsJobs DEF Accounted
<1>4. CASE Finish(j)
  <2>0. r.status = "active"
    BY <1>4 DEF Finish
  <2>1. CASE Set(j, [r EXCEPT !.status = "completed", !.tries = @ + 1])
    <3> DEFINE s == [r EXCEPT !.status = "completed", !.tries = @ + 1]
    <3>a. s = [status |-> "completed", name |-> r.name, tries |-> r.tries + 1,
               retried |-> r.retried, processor |-> r.processor]
      BY <1>1, JobTried, Zenon
    <3>b. Set(j, s) /\ "completed" \in JobStates
      BY <2>1 DEF JobStates
    <3> HIDE DEF s
    <3>1. s \in Jobs /\ s.status = "completed" /\ s.name = r.name /\ s.tries = r.tries + 1 /\ s.retried = r.retried
      BY <1>1, <3>a, <3>b DEF Jobs
    <3>2. s.tries + Open(s) <= r.tries + Open(r) + (s.retried - r.retried)
      BY <1>1, <2>0, <3>1 DEF Open
    <3> QED
      BY <1>3, <2>0, <3>b, <3>1, <3>2
  <2>2. ASSUME NEW again \in {"waiting", "failed"}, again = IF TryAgain(j) THEN "waiting" ELSE "failed",
               Set(j, [r EXCEPT !.status = again, !.tries = @ + 1])
        PROVE  JobsInv'
    <3> DEFINE s == [r EXCEPT !.status = again, !.tries = @ + 1]
    <3>a. s = [status |-> again, name |-> r.name, tries |-> r.tries + 1,
               retried |-> r.retried, processor |-> r.processor]
      BY <1>1, JobTried, Zenon
    <3>3. Set(j, s) /\ again \in JobStates
      BY <2>2 DEF JobStates
    <3> HIDE DEF s
    <3>1. s \in Jobs /\ s.status = again /\ s.name = r.name /\ s.tries = r.tries + 1 /\ s.retried = r.retried
      BY <1>1, <3>a, <3>3 DEF Jobs
    <3>4. CASE again = "failed"
      <4>1. s.tries + Open(s) <= r.tries + Open(r) + (s.retried - r.retried)
        BY <1>1, <2>0, <3>1, <3>4 DEF Open
      <4> QED
        BY <1>3, <2>0, <3>1, <3>3, <3>4, <4>1
    <3>5. CASE again = "waiting"
      <4>1. r.tries + 1 < Attempts(j)
        BY <2>2, <3>5 DEF TryAgain
      <4>2. PICK d \in registered : Within(r, d)
        BY <1>1, <2>0 DEF Accounted
      <4>3. Attempts(j) = d.attempts
        BY <1>1, <4>2, AttemptsOf DEF Within
      <4>4. Within(s, d)
        BY <1>1, <1>2, <3>1, <3>5, <4>1, <4>2, <4>3 DEF Within, Open
      <4> QED
        BY <2>0, <3>1, <3>3, <3>5, <4>4, WorkKeepsJobs DEF Accounted
    <3> QED
      BY <3>4, <3>5
  <2> QED
    BY <1>4, <2>1, <2>2 DEF Finish
<1>5. CASE Stall(j)
  <2>1. PICK status \in {"waiting", "failed"} : Set(j, [r EXCEPT !.status = status])
    BY <1>5 DEF Stall
  <2> DEFINE s == [r EXCEPT !.status = status]
  <2>2. s \in Jobs /\ s.status = status /\ s.name = r.name /\ s.tries = r.tries /\ s.retried = r.retried
    BY <1>1 DEF Jobs, JobStates
  <2>3. Set(j, s) /\ r.status = "active"
    BY <1>5, <2>1 DEF Stall
  <2> HIDE DEF s
  <2>4. s.tries + Open(s) <= r.tries + Open(r) + (s.retried - r.retried)
    BY <1>1, <2>2, <2>3 DEF Open
  <2> QED
    BY <1>3, <2>2, <2>3, <2>4
<1>6. CASE RetryJob(j)
  <2> DEFINE s == [r EXCEPT !.status = "waiting", !.retried = @ + 1]
  <2>a. s = [status |-> "waiting", name |-> r.name, tries |-> r.tries,
             retried |-> r.retried + 1, processor |-> r.processor]
    BY <1>1, JobRetried, Zenon
  <2>2. Set(j, s) /\ r.status = "failed" /\ "waiting" \in JobStates
    BY <1>6 DEF RetryJob, JobStates
  <2> HIDE DEF s
  <2>1. s \in Jobs /\ s.status = "waiting" /\ s.name = r.name /\ s.tries = r.tries /\ s.retried = r.retried + 1
    BY <1>1, <2>a, <2>2 DEF Jobs
  <2>3. s.tries + Open(s) <= r.tries + Open(r) + (s.retried - r.retried)
    BY <1>1, <2>1, <2>2 DEF Open
  <2> QED
    BY <1>3, <2>1, <2>2, <2>3
<1>7. CASE RemoveJob(j)
  <2> DEFINE s == [r EXCEPT !.status = "removed"]
  <2>1. s \in Jobs /\ s.status = "removed" /\ s.name = r.name /\ s.tries = r.tries /\ s.retried = r.retried
    BY <1>1 DEF Jobs, JobStates
  <2>2. Set(j, s) /\ r.status # "none"
    BY <1>7 DEF RemoveJob
  <2> HIDE DEF s
  <2>3. s.tries + Open(s) <= r.tries + Open(r) + (s.retried - r.retried)
    BY <1>1, <2>1 DEF Open
  <2> QED
    BY <1>3, <2>1, <2>2, <2>3
<1>8. ASSUME NEW d \in registered, Take(d, j) PROVE JobsInv'
  <2> DEFINE s == [r EXCEPT !.status = "active", !.processor = d.name]
  <2>1. s \in Jobs /\ s.status = "active" /\ s.name = r.name /\ s.tries = r.tries /\ s.retried = r.retried
    BY <1>1, <1>2 DEF Jobs, JobStates
  <2>2. Set(j, s) /\ r.status = "waiting"
    BY <1>8 DEF Take
  <2> HIDE DEF s
  <2>3. s.tries + Open(s) <= r.tries + Open(r) + (s.retried - r.retried)
    BY <1>1, <2>1, <2>2 DEF Open
  <2> QED
    BY <1>3, <2>1, <2>2, <2>3
<1> QED
  BY <1>4, <1>5, <1>6, <1>7, <1>8

(* A step of an execution, with what it must do to the job of the current step.  *)
ExecTo(x, f) == exec' = [exec EXCEPT ![x] = f]

LEMMA ExecKeepsJobs ==
    ASSUME ExecInv, JobsInv, NEW x \in Executions, exec[x].status = "running",
           NEW f, NEW at, NEW status \in {"running", "completed", "failed"}, NEW step \in StepStates,
           StepTo(exec[x], f, at, status, step), ExecTo(x, f), registered' = registered,
           jobs' \in [Slots -> Jobs], \A j \in Slots : Accounted(jobs'[j]),
           \A j \in Slots : j # <<x, exec[x].at>> => jobs'[j] = jobs[j],
           status = "running" /\ f.steps[at] = "running" /\ f.workflow[at].type = "job"
               => Defined(f.workflow[at].job) # {},
           step = "completed" /\ Current(x).type = "job" /\ exec[x].at \in 1..MaxSteps
               => jobs'[<<x, exec[x].at>>].status # "none",
           exec[x].at \in 1..MaxSteps /\ jobs'[<<x, exec[x].at>>].status # "none"
               => step \in {"completed", "failed"}
    PROVE  JobsInv'
<1> DEFINE e == exec[x]
<1>1. exec'[x] = f /\ \A y \in Executions : y # x => exec'[y] = exec[y]
  BY DEF ExecInv, ExecTo
<1>2. /\ Going(e) /\ Started(x) /\ DOMAIN e.steps = 1..Len(e.workflow)
      /\ f.workflow = e.workflow /\ f.at = at /\ f.status = status
      /\ DOMAIN f.steps = 1..Len(e.workflow) /\ f.steps[e.at] = step
      /\ \A i \in 1..Len(e.workflow) : i # e.at => f.steps[i] = e.steps[i]
  BY DEF ExecInv, Started, Going, StepTo
<1>3. AddsDefined'
  <2> SUFFICES ASSUME NEW y \in Executions, exec'[y].status = "running",
                      exec'[y].steps[exec'[y].at] = "running", exec'[y].workflow[exec'[y].at].type = "job"
               PROVE  Defined(exec'[y].workflow[exec'[y].at].job) # {}
    BY DEF AddsDefined, StepStatus, Current, Defined
  <2>1. CASE y = x
    BY <1>1, <1>2, <2>1
  <2>2. CASE y # x
    BY <1>1, <2>2 DEF JobsInv, AddsDefined, StepStatus, Current
  <2> QED
    BY <2>1, <2>2
<1>4. (\A j \in Slots : Accounted(jobs[j]))'
  BY DEF Accounted, Within
<1>5. ASSUME NEW y \in Executions, NEW i \in 1..MaxSteps PROVE SlotMatches(y, i)'
  <2>0. SlotMatches(y, i) /\ <<y, i>> \in Slots
    BY SlotForm DEF JobsInv
  <2>1. CASE y # x
    <3>1. exec'[y] = exec[y] /\ jobs'[<<y, i>>] = jobs[<<y, i>>]
      BY <1>1, <2>0, <2>1
    <3> QED
      BY <2>0, <3>1 DEF SlotMatches, Started
  <2>2. CASE y = x
    <3>1. exec'[y] = f /\ f.status # "none"
      BY <1>1, <1>2, <2>2
    <3>2. CASE i = e.at
      BY <1>2, <2>2, <3>1, <3>2 DEF SlotMatches, Started, Current
    <3>3. CASE i # e.at
      <4>1. jobs'[<<x, i>>] = jobs[<<x, i>>]
        BY <2>0, <2>2, <3>3
      <4> QED
        BY <1>2, <2>0, <2>2, <3>1, <3>3, <4>1 DEF SlotMatches, Started
    <3> QED
      BY <3>2, <3>3
  <2> QED
    BY <2>1, <2>2
<1>6. (\A y \in Executions, i \in 1..MaxSteps : SlotMatches(y, i))'
  BY <1>5
<1>7. JobsTyped'
  BY DEF JobsInv, JobsTyped
<1> QED
  BY <1>3, <1>4, <1>6, <1>7 DEF JobsInv

(* A step that is not settled has no job yet. *)
LEMMA OpenHasNoJob ==
    ASSUME ExecInv, JobsInv, NEW x \in Executions, exec[x].status = "running", exec[x].at \in 1..MaxSteps
    PROVE  jobs[<<x, exec[x].at>>].status = "none"
<1>1. /\ exec[x].steps[exec[x].at] \in {"pending", "running"}
      /\ exec[x].at \in DOMAIN exec[x].steps /\ Started(x)
  BY DEF ExecInv, Started, Going
<1> QED
  BY <1>1 DEF JobsInv, SlotMatches

(* The loop goes on to a step that is pending, or ends. *)
LEMMA FollowKeepsJobs ==
    ASSUME ExecInv, JobsInv, NEW x \in Executions, exec[x].status = "running", NEW step \in Settled,
           exec' = [exec EXCEPT ![x] = Following(x, step)], registered' = registered,
           jobs' \in [Slots -> Jobs], \A j \in Slots : Accounted(jobs'[j]),
           \A j \in Slots : j # <<x, exec[x].at>> => jobs'[j] = jobs[j],
           step = "completed" /\ Current(x).type = "job" /\ exec[x].at \in 1..MaxSteps
               => jobs'[<<x, exec[x].at>>].status # "none",
           exec[x].at \in 1..MaxSteps /\ jobs'[<<x, exec[x].at>>].status # "none"
               => step \in {"completed", "failed"}
    PROVE  JobsInv'
<1> DEFINE e == exec[x]
           f == Following(x, step)
           last == e.at = Len(e.workflow)
           at == IF last THEN e.at ELSE e.at + 1
           status == IF last THEN "completed" ELSE "running"
<1>1. e \in Exec /\ Going(e) /\ step \in StepStates
  BY DEF ExecInv, Started, StepStates
<1>2. StepTo(e, f, at, status, step)
  BY <1>1, FollowingStep
<1> HIDE DEF f
<1>3. status = "running" => f.steps[at] = "pending"
  <2>1. Len(e.workflow) \in Nat /\ e.at \in 1..Len(e.workflow)
    BY <1>1, WorkflowAssumption DEF Going
  <2>2. ~last => e.at + 1 \in 1..Len(e.workflow) /\ e.at + 1 # e.at /\ e.steps[e.at + 1] = "pending"
    BY <1>1, <2>1 DEF Going
  <2> QED
    BY <1>2, <2>2 DEF StepTo
<1>4. status \in {"running", "completed", "failed"} /\ ExecTo(x, f)
  BY DEF f, ExecTo
<1> HIDE DEF at, status
<1>5. status = "running" /\ f.steps[at] = "running" /\ f.workflow[at].type = "job" => Defined(f.workflow[at].job) # {}
  BY <1>3
<1>6. StepTo(exec[x], f, at, status, step)
  BY <1>2 DEF e
<1> HIDE DEF e
<1> QED
  BY <1>1, <1>4, <1>5, <1>6, ExecKeepsJobs

LEMMA FailKeepsJobs ==
    ASSUME ExecInv, JobsInv, NEW x \in Executions, exec[x].status = "running",
           exec' = [exec EXCEPT ![x] = Failing(x)], registered' = registered,
           jobs' \in [Slots -> Jobs], \A j \in Slots : Accounted(jobs'[j]),
           \A j \in Slots : j # <<x, exec[x].at>> => jobs'[j] = jobs[j]
    PROVE  JobsInv'
<1>1. CASE Current(x).onFailure
  <2>1. exec' = [exec EXCEPT ![x] = Following(x, "failed")]
    BY <1>1 DEF Failing
  <2> QED
    BY <2>1, FollowKeepsJobs DEF Settled
<1>2. CASE ~Current(x).onFailure
  <2> DEFINE f == Failing(x)
             at == exec[x].at
  <2>1. exec[x] \in Exec /\ Going(exec[x]) /\ "failed" \in StepStates
    BY DEF ExecInv, Started, StepStates, Settled
  <2>2. StepTo(exec[x], f, at, "failed", "failed")
    BY <1>2, <2>1, FailingStep
  <2> HIDE DEF f
  <2>3. ExecTo(x, f)
    BY DEF f, ExecTo
  <2> QED
    BY <2>1, <2>2, <2>3, ExecKeepsJobs
<1> QED
  BY <1>1, <1>2

LEMMA RunKeepsJobs ==
    ASSUME ExecInv, JobsInv, NEW x \in Executions, exec[x].status = "running",
           exec' = [exec EXCEPT ![x] = [exec[x] EXCEPT !.steps[exec[x].at] = "running"]],
           UNCHANGED <<registered, jobs>>, Current(x).type = "job" => Defined(Current(x).job) # {}
    PROVE  JobsInv'
<1> DEFINE e == exec[x]
           at == e.at
           f == [e EXCEPT !.steps[e.at] = "running"]
<1>1. e \in Exec /\ Going(e) /\ "running" \in StepStates
  BY DEF ExecInv, Started, StepStates
<1>2. StepTo(e, f, at, "running", "running")
  BY <1>1, RunningStep
<1> HIDE DEF f
<1>3. ExecTo(x, f)
  BY DEF f, ExecTo
<1>4. jobs' \in [Slots -> Jobs] /\ \A j \in Slots : Accounted(jobs'[j]) /\ jobs'[j] = jobs[j]
  BY DEF JobsInv, JobsTyped
<1>5. f.workflow[at].type = "job" => Defined(f.workflow[at].job) # {}
  BY <1>2 DEF StepTo, Current
<1>6. at \in 1..MaxSteps => jobs'[<<x, at>>].status = "none"
  BY OpenHasNoJob
<1> QED
  BY <1>1, <1>2, <1>3, <1>4, <1>5, <1>6, ExecKeepsJobs

(* The job that is added: its definition is there, and it has not been tried. *)
LEMMA AddedIsAccounted ==
    ASSUME JobsInv, NEW x \in Executions, Defined(Current(x).job) # {}
    PROVE  Added(x) \in Jobs /\ Added(x).status = "waiting" /\ Accounted(Added(x))
<1> DEFINE r == Added(x)
<1>1. PICK d \in registered : d.name = Current(x).job
  BY DEF Defined
<1>2. d.name \in Names /\ d.attempts \in Nat \ {0}
  BY DefinitionsKnown DEF JobsInv, JobsTyped
<1>3. r = [NoJob EXCEPT !.status = "waiting", !.name = d.name]
  BY <1>1, Zenon DEF Added
<1> HIDE DEF r
<1>4. r = [status |-> "waiting", name |-> d.name, tries |-> 0, retried |-> 0, processor |-> "none"]
  BY <1>3 DEF NoJob
<1>5. r \in Jobs
  BY <1>2, <1>4 DEF Jobs, JobStates, Names
<1>6. Within(r, d)
  BY <1>2, <1>4 DEF Within, Open
<1> QED
  BY <1>4, <1>5, <1>6 DEF Accounted, r

LEMMA NextJobs == ExecInv /\ JobsInv /\ [Next]_vars => JobsInv'
<1> SUFFICES ASSUME ExecInv, JobsInv, [Next]_vars PROVE JobsInv'
  OBVIOUS
<1>1. JobsTyped /\ jobs \in [Slots -> Jobs] /\ \A j \in Slots : Accounted(jobs[j])
  BY DEF JobsInv, JobsTyped
<1>2. ASSUME NEW d \in Definitions, Register(d) PROVE JobsInv'
  <2>1. exec' = exec /\ jobs' = jobs /\ registered' = registered \cup {d}
    BY <1>2 DEF Register
  <2>2. JobsTyped' /\ AddsDefined'
    BY <1>1, <2>1 DEF JobsInv, JobsTyped, AddsDefined, StepStatus, Current, Defined
  <2>3. (\A j \in Slots : Accounted(jobs[j]))'
    BY <1>1, <2>1 DEF Accounted, Within
  <2>4. (\A x \in Executions, i \in 1..MaxSteps : SlotMatches(x, i))'
    BY <2>1 DEF JobsInv, SlotMatches, Started
  <2> QED
    BY <2>2, <2>3, <2>4 DEF JobsInv
<1>3. ASSUME NEW x \in Executions, NEW w \in Workflows, Start(x, w) PROVE JobsInv'
  <2> DEFINE f == [status |-> "running", workflow |-> w, at |-> 1, steps |-> [i \in 1..Len(w) |-> "pending"]]
  <2>1. /\ exec[x].status = "none" /\ jobs' = jobs /\ registered' = registered
        /\ exec' = [exec EXCEPT ![x] = f] /\ Len(w) \in Nat \ {0}
    BY <1>3, WorkflowAssumption DEF Start
  <2>2. /\ f.status = "running" /\ f.steps[f.at] = "pending" /\ f.steps \in [1..Len(w) -> {"pending"}]
    BY <2>1
  <2> HIDE DEF f
  <2>3. exec'[x] = f /\ \A y \in Executions : y # x => exec'[y] = exec[y]
    BY <2>1 DEF ExecInv
  <2>4. AddsDefined'
    BY <2>1, <2>2, <2>3 DEF JobsInv, AddsDefined, StepStatus, Current, Defined
  <2>5. ASSUME NEW y \in Executions, NEW i \in 1..MaxSteps PROVE SlotMatches(y, i)'
    <3>1. SlotMatches(y, i)
      BY DEF JobsInv
    <3>2. CASE y = x
      BY <2>1, <2>2, <2>3, <3>1, <3>2 DEF SlotMatches, Started
    <3>3. CASE y # x
      BY <2>1, <2>3, <3>1, <3>3 DEF SlotMatches, Started
    <3> QED
      BY <3>2, <3>3
  <2>6. JobsTyped' /\ (\A j \in Slots : Accounted(jobs[j]))'
    BY <1>1, <2>1 DEF JobsTyped, Accounted, Within
  <2> QED
    BY <2>4, <2>5, <2>6 DEF JobsInv
<1>4. ASSUME NEW x \in Executions, Enter(x) PROVE JobsInv'
  <2>1. /\ exec[x].status = "running" /\ UNCHANGED <<registered, jobs>>
        /\ jobs' \in [Slots -> Jobs] /\ \A j \in Slots : Accounted(jobs'[j]) /\ jobs'[j] = jobs[j]
        /\ exec[x].at \in 1..MaxSteps => jobs'[<<x, exec[x].at>>].status = "none"
    BY <1>1, <1>4, OpenHasNoJob DEF Enter
  <2>2. CASE exec' = [exec EXCEPT ![x] = Following(x, "skipped")]
    BY <2>1, <2>2, FollowKeepsJobs DEF Settled
  <2>3. CASE exec' = [exec EXCEPT ![x] = Failing(x)]
    BY <2>1, <2>3, FailKeepsJobs
  <2>4. CASE /\ exec' = [exec EXCEPT ![x] = [exec[x] EXCEPT !.steps[exec[x].at] = "running"]]
             /\ ~(Current(x).type = "job" /\ Defined(Current(x).job) = {})
    BY <2>1, <2>4, RunKeepsJobs
  <2>5. CASE exec' = [exec EXCEPT ![x] = Following(x, "completed")] /\ Current(x).type \notin Awaited
    BY <2>1, <2>5, FollowKeepsJobs DEF Settled, Awaited
  <2> QED
    BY <1>4, <2>2, <2>3, <2>4, <2>5 DEF Enter
<1>5. ASSUME NEW x \in Executions, AddJob(x) PROVE JobsInv'
  <2> DEFINE added == [jobs EXCEPT ![<<x, exec[x].at>>] = Added(x)]
  <2>1. /\ exec[x].status = "running" /\ StepStatus(x) = "running" /\ Current(x).type = "job"
        /\ registered' = registered
        /\ \/ jobs' = added /\ exec' = [exec EXCEPT ![x] = Following(x, "completed")]
           \/ jobs' \in {jobs, added} /\ exec' = [exec EXCEPT ![x] = Failing(x)]
    BY <1>5 DEF AddJob, Rejected
  <2>2. Added(x) \in Jobs /\ Added(x).status = "waiting" /\ Accounted(Added(x))
    BY <2>1, AddedIsAccounted DEF JobsInv, AddsDefined
  <2>3. /\ added \in [Slots -> Jobs] /\ \A j \in Slots : Accounted(added[j])
        /\ \A j \in Slots : j # <<x, exec[x].at>> => added[j] = jobs[j]
        /\ exec[x].at \in 1..MaxSteps => added[<<x, exec[x].at>>].status = "waiting"
    BY <1>1, <2>2, SlotForm
  <2> HIDE DEF added
  <2>4. CASE jobs' = added /\ exec' = [exec EXCEPT ![x] = Following(x, "completed")]
    BY <2>1, <2>3, <2>4, FollowKeepsJobs DEF Settled
  <2>5. CASE jobs' \in {jobs, added} /\ exec' = [exec EXCEPT ![x] = Failing(x)]
    BY <1>1, <2>1, <2>3, <2>5, FailKeepsJobs
  <2> QED
    BY <2>1, <2>4, <2>5
<1>6. ASSUME NEW x \in Executions, Waited(x) PROVE JobsInv'
  <2>1. /\ exec[x].status = "running" /\ Current(x).type = "wait" /\ UNCHANGED <<registered, jobs>>
        /\ exec' = [exec EXCEPT ![x] = Following(x, "completed")]
        /\ jobs' \in [Slots -> Jobs] /\ \A j \in Slots : Accounted(jobs'[j]) /\ jobs'[j] = jobs[j]
        /\ exec[x].at \in 1..MaxSteps => jobs'[<<x, exec[x].at>>].status = "none"
    BY <1>1, <1>6, OpenHasNoJob DEF Waited
  <2> QED
    BY <2>1, FollowKeepsJobs DEF Settled
<1>7. CASE UNCHANGED vars
  <2>1. registered' = registered /\ exec' = exec /\ jobs' = jobs
    BY <1>7 DEF vars
  <2> QED
    BY <2>1 DEF JobsInv, JobsTyped, AddsDefined, StepStatus, Current, Defined, Accounted, Within,
                SlotMatches, Started
<1> QED
  BY <1>2, <1>3, <1>4, <1>5, <1>6, <1>7, WorkInv DEF Next, Advance

LEMMA AlwaysJobsInv == Spec => [](ExecInv /\ JobsInv)
<1>1. Init => ExecInv /\ JobsInv
  BY InitInv, InitJobs
<1>2. ExecInv /\ JobsInv /\ [Next]_vars => (ExecInv /\ JobsInv)'
  BY NextInv, NextJobs
<1> QED
  BY <1>1, <1>2, PTL DEF Spec

(* Executions are within their workflows and jobs in a state of BullMQ's, with   *)
(* any number of executions and jobs.                                            *)
THEOREM TypeCorrect == Spec => []TypeOK
<1>1. ExecInv /\ JobsInv => TypeOK
  <2> SUFFICES ASSUME ExecInv, JobsInv PROVE TypeOK
    OBVIOUS
  <2>1. registered \subseteq Definitions /\ \A j \in Slots : jobs[j].status \in JobStates
    BY DEF JobsInv, JobsTyped, Jobs
  <2>2. ASSUME NEW x \in Executions, Started(x)
        PROVE  /\ exec[x].workflow \in Workflows
               /\ exec[x].at \in 1..Len(exec[x].workflow)
               /\ exec[x].status \in {"running", "completed", "failed"}
               /\ DOMAIN exec[x].steps = 1..Len(exec[x].workflow)
               /\ \A i \in DOMAIN exec[x].steps :
                     exec[x].steps[i] \in {"pending", "running", "completed", "failed", "skipped"}
    <3>1. Going(exec[x]) /\ exec[x] \in Exec
      BY <2>2 DEF ExecInv
    <3>2. exec[x].status \in {"running", "completed", "failed"}
      BY <2>2, <3>1 DEF Exec, Started
    <3> QED
      BY <3>1, <3>2 DEF Going, StepStates, Settled
  <2> QED
    BY <2>1, <2>2 DEF TypeOK, JobStates
<1> QED
  BY <1>1, AlwaysJobsInv, PTL

(* A completed job step has its job in the queue and no other step has one, and  *)
(* a job runs to its end no more often than its definition's attempts and the    *)
(* retries by hand allow, whatever fails, stalls or is removed.                  *)
THEOREM JobsAreKept == Spec => []JobsAreAccounted
<1>1. ExecInv /\ JobsInv => JobsAreAccounted
  <2> SUFFICES ASSUME ExecInv, JobsInv PROVE JobsAreAccounted
    OBVIOUS
  <2>1. JobsMatchSteps
    BY SlotForm DEF JobsInv, JobsMatchSteps, SlotMatches
  <2>2. ASSUME NEW j \in Slots, jobs[j].status # "none"
        PROVE  jobs[j].tries <= Attempts(j) + jobs[j].retried
    <3>1. JobsTyped /\ jobs[j] \in Jobs /\ Accounted(jobs[j])
      BY DEF JobsInv, JobsTyped
    <3>2. PICK d \in registered : Within(jobs[j], d)
      BY <2>2, <3>1 DEF Accounted
    <3>3. Attempts(j) = d.attempts /\ d.attempts \in Nat
      BY <3>1, <3>2, AttemptsOf, DefinitionsKnown DEF Within, JobsTyped
    <3>4. /\ jobs[j].tries \in Nat /\ jobs[j].retried \in Nat /\ Open(jobs[j]) \in Nat
          /\ jobs[j].tries + Open(jobs[j]) <= d.attempts + jobs[j].retried
      BY <3>1, <3>2 DEF Jobs, Within, Open
    <3> QED
      BY <3>3, <3>4
  <2> QED
    BY <2>1, <2>2 DEF JobsAreAccounted, TriesBounded
<1> QED
  BY <1>1, AlwaysJobsInv, PTL

=============================================================================
