------------------------- MODULE MCWorkflowEngine -------------------------
(* Instances of WorkflowEngine. *)
EXTENDS WorkflowEngine

CONSTANT x1

OneExecution == {x1}

Step(type, job, dependencies, onFailure) ==
    [type |-> type, job |-> job, dependencies |-> dependencies, onFailure |-> onFailure]

(* invoice-to-payment-workflow, and two of the registered job definitions.       *)
InvoiceToPayment ==
    <<Step("job", "generate-invoice", {}, TRUE),
      Step("job", "send-notification", {1}, FALSE),
      Step("job", "schedule-reminder", {2}, FALSE)>>

Definition(name, queue, attempts) == [name |-> name, queue |-> queue, attempts |-> attempts]
TwoBuiltIn == {Definition("generate-invoice", "billing", 2), Definition("backup-data", "default", 1)}
MCLater == {Definition("archive-invoice", "billing", 1)}

(* Failure actions, dependencies on a step that failed, on a skipped one, and  *)
(* on a later one.                                                             *)
MCWorkflows ==
    {InvoiceToPayment,
     <<Step("job", "generate-invoice", {}, TRUE), Step("wait", "none", {1}, FALSE),
       Step("job", "backup-data", {2}, FALSE)>>,
     <<Step("condition", "none", {2}, FALSE), Step("job", "archive-invoice", {}, FALSE)>>}

AllFaults == {"redis", "job", "stall"}
===========================================================================
