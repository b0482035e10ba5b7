---------------------------- MODULE AdminGateway ----------------------------
(***************************************************************************)
(* The admin socket gateway, the metrics timer and the event service that  *)
(* broadcast through it.  A socket is connected, belongs to the user of    *)
(* its token, and joins rooms; socket.io takes it out of its rooms when it *)
(* goes.  A tick reads the number of users before the awaits of the        *)
(* collection and broadcasts it after them; collections are followed one   *)
(* at a time.                                                              *)
(***************************************************************************)
EXTENDS Integers, FiniteSets

CONSTANTS
    Sockets, Users,
    MaxTimers   \* bound on the timers of a behaviour

VARIABLES
    connectedClients,  \* the sockets that were let in
    userSockets,       \* the sockets of each user
    rooms,             \* the sockets in each room
    heard,             \* what each socket was sent by the last step
    timers,            \* the intervals that run
    metricsInterval,   \* the interval the service remembers, 0 if none
    started,           \* the intervals made so far
    outlived,          \* history: intervals another was started over
    measured           \* the number a collection that still goes on has read, as a set

vars == <<connectedClients, userSockets, rooms, heard, timers, metricsInterval, started, outlived, measured>>
sockets == <<connectedClients, userSockets, rooms>>
clock == <<timers, metricsInterval, started, outlived, measured>>

admin_room == <<"admin_room">>
audit_logs == <<"audit_logs">>
performance == <<"performance">>
activity(u) == <<"user_activity", u>>
Rooms == {admin_room, audit_logs, performance} \cup {activity(u) : u \in Users}

Init ==
    /\ connectedClients = {} /\ userSockets = [u \in Users |-> {}] /\ rooms = [r \in Rooms |-> {}]
    /\ heard = [s \in Sockets |-> {}]
    /\ timers = {} /\ metricsInterval = 0 /\ started = 0 /\ outlived = {} /\ measured = {}

Quiet == heard' = [s \in Sockets |-> {}]

(* A socket without a token that verifies is turned away, and leaves nothing.    *)
handleConnection(s, u) ==
    /\ s \notin connectedClients
    /\ connectedClients' = connectedClients \cup {s}
    /\ userSockets' = [userSockets EXCEPT ![u] = @ \cup {s}]
    /\ rooms' = [rooms EXCEPT ![admin_room] = @ \cup {s}]
    /\ heard' = [t \in Sockets |-> IF t = s THEN {"admin_connected"} ELSE {}]
    /\ UNCHANGED clock

Bug_KeepsOwner(s) ==
    /\ s \in connectedClients
    /\ connectedClients' = connectedClients \ {s}
    /\ rooms' = [r \in Rooms |-> rooms[r] \ {s}]
    /\ Quiet /\ UNCHANGED <<userSockets, clock>>
(* The first user found to own the socket loses it. *)
handleDisconnect(s) ==
    /\ s \in connectedClients
    /\ connectedClients' = connectedClients \ {s}
    /\ \E u \in Users : s \in userSockets[u] /\ userSockets' = [userSockets EXCEPT ![u] = @ \ {s}]
    /\ rooms' = [r \in Rooms |-> rooms[r] \ {s}]
    /\ Quiet /\ UNCHANGED <<clock>>

Subscribe(s, r) ==
    /\ s \in connectedClients
    /\ rooms' = [rooms EXCEPT ![r] = @ \cup {s}]
    /\ Quiet /\ UNCHANGED <<connectedClients, userSockets, clock>>
(* No handler leaves the performance room. *)
Unsubscribe(s, r) ==
    /\ s \in connectedClients /\ r # performance
    /\ rooms' = [rooms EXCEPT ![r] = @ \ {s}]
    /\ Quiet /\ UNCHANGED <<connectedClients, userSockets, clock>>

(* What each event is sent to: some to a room, some to two.                      *)
Emit(what) ==
    /\ heard' = [s \in Sockets |-> {w \in DOMAIN what : s \in what[w]}]
    /\ UNCHANGED <<sockets, clock>>
emitUserAction(u) == Emit([admin_notification |-> rooms[admin_room], user_activity |-> rooms[activity(u)]])
emitSystemAlert == Emit([admin_notification |-> rooms[admin_room]])
emitSecurityEvent == Emit([admin_notification |-> rooms[admin_room], security_alert |-> rooms[admin_room]])
emitAuditLog == Emit([new_audit_log |-> rooms[audit_logs]])
broadcastPerformanceMetrics == Emit([performance_metrics |-> rooms[performance]])
sendToUser(u) == Emit([own |-> userSockets[u] \cap connectedClients])

startMetricsCollection ==
    /\ started < MaxTimers
    /\ started' = started + 1 /\ timers' = timers \cup {started + 1} /\ metricsInterval' = started + 1
    /\ outlived' = outlived \cup (timers \cap {metricsInterval})
    /\ Quiet /\ UNCHANGED <<sockets, measured>>
stopMetricsCollection ==
    /\ metricsInterval # 0
    /\ timers' = timers \ {metricsInterval}
    /\ Quiet /\ UNCHANGED <<sockets, metricsInterval, started, outlived, measured>>

ActiveUsers == Cardinality({u \in Users : userSockets[u] # {}})
collectSystemMetrics ==
    /\ timers # {} /\ measured = {} /\ measured' = {ActiveUsers}
    /\ Quiet /\ UNCHANGED <<sockets, timers, metricsInterval, started, outlived>>
broadcastSystemMetrics ==
    /\ measured # {} /\ measured' = {}
    /\ heard' = [s \in Sockets |-> IF s \in rooms[admin_room] THEN {"system_metrics"} ELSE {}]
    /\ UNCHANGED <<sockets, timers, metricsInterval, started, outlived>>

Next ==
    \/ \E s \in Sockets, u \in Users : handleConnection(s, u)
    \/ \E s \in Sockets : handleDisconnect(s)
    \/ \E s \in Sockets, r \in Rooms \ {admin_room} : Subscribe(s, r) \/ Unsubscribe(s, r)
    \/ \E u \in Users : emitUserAction(u) \/ sendToUser(u)
    \/ emitSystemAlert \/ emitSecurityEvent \/ emitAuditLog \/ broadcastPerformanceMetrics
    \/ startMetricsCollection \/ stopMetricsCollection
    \/ collectSystemMetrics \/ broadcastSystemMetrics

Spec == Init /\ [][Next]_vars

-----------------------------------------------------------------------------
TypeOK ==
    /\ connectedClients \subseteq Sockets
    /\ userSockets \in [Users -> SUBSET Sockets] /\ rooms \in [Rooms -> SUBSET Sockets]
    /\ metricsInterval \in 0..started /\ timers \subseteq 1..started

(* Every socket that is in belongs to one user, whoever is in a room is in, and  *)
(* everybody in is in the room of the admins.                                    *)
MapsAgree ==
    /\ connectedClients = UNION {userSockets[u] : u \in Users}
    /\ \A u, v \in Users : u # v => userSockets[u] \cap userSockets[v] = {}
    /\ rooms[admin_room] = connectedClients
    /\ \A r \in Rooms : rooms[r] \subseteq connectedClients

(* Whoever follows a user also gets the notification of what the user did, and   *)
(* only a collection started over another one leaves a timer no stop can reach.  *)
EventsReachAdmins ==
    /\ \A s \in Sockets : "user_activity" \in heard[s] => "admin_notification" \in heard[s]
    /\ timers \ {metricsInterval} \subseteq outlived
=============================================================================
