--------------------------- MODULE WorkflowEngine ---------------------------
(***************************************************************************)
(* EnterpriseJobService: job definitions with a worker each, the queues of *)
(* BullMQ behind them, and workflows, whose steps are entered in order and *)
(* mostly add a job.  A step of type job is over when its job is queued;   *)
(* what becomes of the job does not reach the workflow.                    *)
(***************************************************************************)
EXTENDS Integers, Sequences, FiniteSets

CONSTANTS
    Executions,   \* calls of executeWorkflow
    Workflows,    \* sequences of [type, job, dependencies, onFailure]
    BuiltIn,      \* definitions registered before workflows are loaded
    Later,        \* definitions other code may register at any time
    Faults,       \* "redis" (an add is rejected), "job" (a processor throws), "stall"
    MaxRetries    \* bound: how often an operator retries the same job

ASSUME WorkflowAssumption ==
    /\ \A w \in Workflows : Len(w) \in Nat \ {0} /\ \A i \in 1..Len(w) : w[i].dependencies \subseteq 1..Len(w)
    /\ \A d, e \in BuiltIn \cup Later : d.name = e.name => d = e
    /\ \A d \in BuiltIn \cup Later : d.attempts \in Nat \ {0}
    /\ MaxRetries \in Nat

VARIABLES
    registered,   \* the job definitions; each has its worker
    exec,         \* the executions
    jobs          \* the job of each step of each execution, in BullMQ

vars == <<registered, exec, jobs>>

Definitions == BuiltIn \cup Later
NotStarted == [status |-> "none", workflow |-> <<>>, at |-> 0, steps |-> <<>>]
MaxSteps == CHOOSE n \in {Len(w) : w \in Workflows} : \A w \in Workflows : Len(w) <= n
Slots == Executions \X (1..MaxSteps)
NoJob == [status |-> "none", name |-> "none", tries |-> 0, retried |-> 0, processor |-> "none"]

Init ==
    /\ registered = {}
    /\ exec = [x \in Executions |-> NotStarted]
    /\ jobs = [j \in Slots |-> NoJob]

-----------------------------------------------------------------------------
(* registerJob: the definition, its queue and its worker.                      *)
Register(d) ==
    /\ d \notin registered
    /\ d \in Later => BuiltIn \subseteq registered
    /\ registered' = registered \cup {d}
    /\ UNCHANGED <<exec, jobs>>

Defined(name) == {d \in registered : d.name = name}

-----------------------------------------------------------------------------
(* executeWorkflow; workflows are loaded after the built-in definitions.       *)
Start(x, w) ==
    /\ exec[x].status = "none" /\ BuiltIn \subseteq registered
    /\ exec' = [exec EXCEPT ![x] = [status |-> "running", workflow |-> w, at |-> 1,
                                    steps |-> [i \in 1..Len(w) |-> "pending"]]]
    /\ UNCHANGED <<registered, jobs>>

Current(x) == exec[x].workflow[exec[x].at]
StepStatus(x) == exec[x].steps[exec[x].at]

(* The loop goes on with the next step, or the workflow is completed.          *)
Bug_PastTheLast(x, status) ==
    [exec[x] EXCEPT !.steps[exec[x].at] = status, !.at = @ + 1,
                    !.status = IF exec[x].at < Len(exec[x].workflow) THEN @ ELSE "completed"]
Following(x, status) ==
    LET e == exec[x] IN
    [e EXCEPT !.steps[e.at] = status,
              !.at = IF e.at < Len(e.workflow) THEN @ + 1 ELSE @,
              !.status = IF e.at < Len(e.workflow) THEN @ ELSE "completed"]

(* A step that throws ends the workflow unless it names a failure action.      *)
Bug_AlwaysContinues(x) == Following(x, "failed")
Bug_ExecutionLeftRunning(x) == [exec[x] EXCEPT !.steps[exec[x].at] = "failed"]
Failing(x) ==
    IF Current(x).onFailure THEN Following(x, "failed")
    ELSE [exec[x] EXCEPT !.steps[exec[x].at] = "failed", !.status = "failed"]

Bug_SkippedCounts(x) ==
    \A i \in Current(x).dependencies : exec[x].steps[i] \in {"completed", "skipped"}
DependenciesMet(x) == \A i \in Current(x).dependencies : exec[x].steps[i] = "completed"

Awaited == {"job", "wait"}

(* One iteration, up to its await if the step has one.                         *)
Enter(x) ==
    /\ exec[x].status = "running" /\ StepStatus(x) = "pending"
    /\ exec' = [exec EXCEPT ![x] =
          IF ~DependenciesMet(x) THEN Following(x, "skipped")
          ELSE IF Current(x).type = "job" /\ Defined(Current(x).job) = {} THEN Failing(x)
          ELSE IF Current(x).type \in Awaited THEN [@ EXCEPT !.steps[exec[x].at] = "running"]
          ELSE Following(x, "completed")]
    /\ UNCHANGED <<registered, jobs>>

Added(x) == [NoJob EXCEPT !.status = "waiting", !.name = Current(x).job]

(* A rejected add: the job may be in the queue all the same.                   *)
Bug_RejectionIgnored(x) == Following(x, "completed")
Rejected(x) == Failing(x)

AddJob(x) ==
    /\ exec[x].status = "running" /\ StepStatus(x) = "running" /\ Current(x).type = "job"
    /\ LET added == [jobs EXCEPT ![<<x, exec[x].at>>] = Added(x)] IN
       \/ jobs' = added /\ exec' = [exec EXCEPT ![x] = Following(x, "completed")]
       \/ "redis" \in Faults /\ jobs' \in {jobs, added} /\ exec' = [exec EXCEPT ![x] = Rejected(x)]
    /\ UNCHANGED registered

Waited(x) ==
    /\ exec[x].status = "running" /\ StepStatus(x) = "running" /\ Current(x).type = "wait"
    /\ exec' = [exec EXCEPT ![x] = Following(x, "completed")]
    /\ UNCHANGED <<registered, jobs>>

-----------------------------------------------------------------------------
(* BullMQ and the workers *)

QueueOf(name) == {d.queue : d \in Defined(name)}
Set(j, r) == jobs' = [jobs EXCEPT ![j] = r] /\ UNCHANGED <<registered, exec>>

(* The worker of a definition takes any job of its queue.                      *)
Take(d, j) ==
    /\ d \in registered /\ jobs[j].status = "waiting" /\ d.queue \in QueueOf(jobs[j].name)
    /\ Set(j, [jobs[j] EXCEPT !.status = "active", !.processor = d.name])

Attempts(j) == CHOOSE n \in {d.attempts : d \in Defined(jobs[j].name)} : TRUE

(* A processor that throws: the job is tried again until its attempts are used.*)
Bug_OneTryMore(j) == jobs[j].tries < Attempts(j)
TryAgain(j) == jobs[j].tries + 1 < Attempts(j)

Finish(j) ==
    /\ jobs[j].status = "active"
    /\ \/ Set(j, [jobs[j] EXCEPT !.status = "completed", !.tries = @ + 1])
       \/ "job" \in Faults /\ Set(j, [jobs[j] EXCEPT !.status = IF TryAgain(j) THEN "waiting" ELSE "failed",
                                                     !.tries = @ + 1])

(* The process of the worker died: the job is taken for stalled, and queued or *)
(* given up if it stalled before.                                              *)
Stall(j) ==
    /\ "stall" \in Faults /\ jobs[j].status = "active"
    /\ \E status \in {"waiting", "failed"} : Set(j, [jobs[j] EXCEPT !.status = status])

(* bulkJobOperations: retry queues a failed job again, its attempts kept;      *)
(* cancel and clean remove jobs that no worker holds.                          *)
RetryJob(j) ==
    /\ jobs[j].status = "failed" /\ jobs[j].retried < MaxRetries
    /\ Set(j, [jobs[j] EXCEPT !.status = "waiting", !.retried = @ + 1])

RemoveJob(j) ==
    /\ jobs[j].status \in {"waiting", "completed", "failed"}
    /\ Set(j, [jobs[j] EXCEPT !.status = "removed"])

-----------------------------------------------------------------------------
Advance(x) == Enter(x) \/ AddJob(x) \/ Waited(x)

Next ==
    \/ \E d \in Definitions : Register(d)
    \/ \E x \in Executions : Advance(x) \/ \E w \in Workflows : Start(x, w)
    \/ \E j \in Slots : Finish(j) \/ Stall(j) \/ RetryJob(j) \/ RemoveJob(j) \/ \E d \in registered : Take(d, j)

Spec == Init /\ [][Next]_vars

(* Redis answers and timers fire.                                              *)
FairSpec == Spec /\ \A x \in Executions : WF_vars(Advance(x))

-----------------------------------------------------------------------------
(* Properties *)

Started(x) == exec[x].status # "none"

TypeOK ==
    /\ registered \subseteq Definitions
    /\ \A x \in Executions : Started(x) =>
         /\ exec[x].workflow \in Workflows
         /\ exec[x].at \in 1..Len(exec[x].workflow)
         /\ exec[x].status \in {"running", "completed", "failed"}
         /\ DOMAIN exec[x].steps = 1..Len(exec[x].workflow)
         /\ \A i \in DOMAIN exec[x].steps :
               exec[x].steps[i] \in {"pending", "running", "completed", "failed", "skipped"}
    /\ \A j \in Slots : jobs[j].status \in {"none", "waiting", "active", "completed", "failed", "removed"}

(* A workflow that is over left no step open: all steps of a completed one are *)
(* settled and its failures had failure actions; a failed one failed at its    *)
(* last entered step, which had none.                                          *)
OverIsSettled ==
    \A x \in Executions : LET e == exec[x] IN
        /\ e.status = "completed" => \A i \in DOMAIN e.steps :
              \/ e.steps[i] \in {"completed", "skipped"}
              \/ e.steps[i] = "failed" /\ e.workflow[i].onFailure
        /\ e.status = "failed" =>
              /\ e.steps[e.at] = "failed" /\ ~e.workflow[e.at].onFailure
              /\ \A i \in DOMAIN e.steps : i > e.at => e.steps[i] = "pending"

(* A step is entered only when all it depends on is completed, and is skipped  *)
(* only because something it depends on is not, now and ever after.            *)
DependenciesRespected ==
    \A x \in Executions : \A i \in DOMAIN exec[x].steps :
        LET met == \A k \in exec[x].workflow[i].dependencies : k < i /\ exec[x].steps[k] = "completed" IN
        /\ exec[x].steps[i] \in {"running", "completed", "failed"} => met
        /\ exec[x].steps[i] = "skipped" => ~met

(* A job step that is completed put its job in the queue, and no job is queued *)
(* for a step that was not entered.                                            *)
JobsMatchSteps ==
    \A j \in Slots : LET x == j[1]  i == j[2] IN
        Started(x) /\ i \in DOMAIN exec[x].steps =>
            /\ exec[x].steps[i] = "completed" /\ exec[x].workflow[i].type = "job" => jobs[j].status # "none"
            /\ jobs[j].status # "none" => exec[x].steps[i] \in {"completed", "failed"}

(* A job is run to its end no more often than its definition allows, but for   *)
(* one more time by each retry of an operator; runs that stall do not count.   *)
TriesBounded == \A j \in Slots : jobs[j].status # "none" => jobs[j].tries <= Attempts(j) + jobs[j].retried

(* Jobs are those of the steps that were entered, and are not tried for ever. *)
JobsAreAccounted == JobsMatchSteps /\ TriesBounded

(* Every workflow that was started ends.                                       *)
EveryExecutionEnds == \A x \in Executions : exec[x].status = "running" ~> exec[x].status \in {"completed", "failed"}

=============================================================================
