------------------------- MODULE EventBusImplements -------------------------
(***************************************************************************)
(* The buses of all processes, with Redis between them, implement          *)
(* EventDelivery: the two loops over live Sets, the connections that break *)
(* and the publishes that are rejected add no hearing and no sending that  *)
(* the promise does not know.  The history of hearings is the promise's    *)
(* own, call by call, so that a handler called again is seen.             *)
(***************************************************************************)
EXTENDS EventBus

SubscribedNow == UNION {{subs[p][i] : i \in 1..Len(subs[p])} : p \in Procs}
Told == [c \in Calls |-> IF call[c].at \in {"ok", "failed"} THEN call[c].at ELSE "none"]

Delivery ==
    INSTANCE EventDelivery WITH
        subscribed <- SubscribedNow,
        left <- gone,
        answer <- Told

(* A handler hears an event while it is subscribed only, at most once per path, *)
(* in the publisher's process while it is the event's turn and elsewhere after  *)
(* it was sent; the events of a batch are sent in their order and without gaps, *)
(* and none after the batch was reported as failed.                             *)
KeepsDelivery == Delivery!Spec

=============================================================================
