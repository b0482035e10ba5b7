---------------------------- MODULE MCEventBus ----------------------------
(* An instance of EventBus: two handlers in the publishing process, one of *)
(* which may leave, a handler that comes to another process, whose         *)
(* connection breaks, and one batch of two events.                         *)
EXTENDS EventBusImplements, TLC

CONSTANTS p, q, g1, g2, g3, c, e1, e2

MCProcs == {p, q}
MCHandlers == {g1, g2, g3}
MCHome == (g1 :> p) @@ (g2 :> p) @@ (g3 :> q)
MCInitial == (p :> <<g1, g2>>) @@ (q :> <<>>)
OneCall == {c}
OneFrom == (c :> p)
OneBatch == (c :> <<e1, e2>>)
Leaver == {g1}
Other == {q}
===========================================================================
