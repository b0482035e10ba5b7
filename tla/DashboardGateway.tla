-------------------------- MODULE DashboardGateway --------------------------
(***************************************************************************)
(* The dashboard socket gateway: the clients that are connected, what each *)
(* subscribed to, and the same from the side of the metrics.  Handlers do  *)
(* not wait, so each is one step.  A cached sample is the number of the    *)
(* tick that made it; a value made up for one client alone is 0.           *)
(***************************************************************************)
EXTENDS Integers

CONSTANTS
    Clients, Metrics,
    Available,   \* the metrics the simulation samples; clients may ask for others
    MaxTicks,    \* bound on the ticks of a behaviour
    Absent

VARIABLES
    connectedClients,     \* the subscriptions of each connected client
    activeSubscriptions,  \* the subscribers of each metric that has any
    metricsCache,         \* the last sample broadcast for each metric, 0 if none
    shown,                \* the value each client was sent last for each metric
    widget,               \* the setting of the widget each client was sent last
    ticks

vars == <<connectedClients, activeSubscriptions, metricsCache, shown, widget, ticks>>

Connected == {c \in Clients : connectedClients[c] # Absent}
Subscribers(m) == IF activeSubscriptions[m] = Absent THEN {} ELSE activeSubscriptions[m]
OrAbsent(s) == IF s = {} THEN Absent ELSE s
(* The subscriptions when c has left those of ms. *)
Without(c, ms) == [m \in Metrics |->
    IF m \in ms THEN OrAbsent(Subscribers(m) \ {c}) ELSE activeSubscriptions[m]]

Init ==
    /\ connectedClients = [c \in Clients |-> Absent]
    /\ activeSubscriptions = [m \in Metrics |-> Absent]
    /\ metricsCache = [m \in Metrics |-> 0]
    /\ shown = [c \in Clients |-> [m \in Metrics |-> 0]]
    /\ widget = [c \in Clients |-> 0]
    /\ ticks = 0

handleConnection(c) ==
    /\ connectedClients[c] = Absent
    /\ connectedClients' = [connectedClients EXCEPT ![c] = {}]
    /\ shown' = [shown EXCEPT ![c] = [m \in Metrics |-> 0]]
    /\ widget' = [widget EXCEPT ![c] = 0]
    /\ UNCHANGED <<activeSubscriptions, metricsCache, ticks>>

Bug_OneSided(c) ==
    /\ connectedClients[c] # Absent
    /\ connectedClients' = [connectedClients EXCEPT ![c] = Absent]
    /\ UNCHANGED <<activeSubscriptions, metricsCache, shown, widget, ticks>>
handleDisconnect(c) ==
    /\ connectedClients[c] # Absent
    /\ connectedClients' = [connectedClients EXCEPT ![c] = Absent]
    /\ activeSubscriptions' = Without(c, connectedClients[c])
    /\ UNCHANGED <<metricsCache, shown, widget, ticks>>

handleSubscribe(c, ms) ==
    /\ connectedClients[c] # Absent
    /\ connectedClients' = [connectedClients EXCEPT ![c] = @ \cup ms]
    /\ activeSubscriptions' = [m \in Metrics |->
           IF m \in ms THEN Subscribers(m) \cup {c} ELSE activeSubscriptions[m]]
    /\ shown' = [shown EXCEPT ![c] = [m \in Metrics |-> IF m \in ms THEN metricsCache[m] ELSE @[m]]]
    /\ UNCHANGED <<metricsCache, widget, ticks>>

handleUnsubscribe(c, ms) ==
    /\ connectedClients[c] # Absent
    /\ connectedClients' = [connectedClients EXCEPT ![c] = @ \ ms]
    /\ activeSubscriptions' = Without(c, ms)
    /\ UNCHANGED <<metricsCache, shown, widget, ticks>>

(* Nothing is kept of a widget: whoever is connected is told.                    *)
handleUpdateWidget(config) ==
    /\ Connected # {}
    /\ widget' = [c \in Clients |-> IF c \in Connected THEN config ELSE widget[c]]
    /\ UNCHANGED <<connectedClients, activeSubscriptions, metricsCache, shown, ticks>>

(* Every five seconds each available metric is sampled; a sample is kept and     *)
(* sent only if somebody subscribed.                                             *)
broadcastMetricUpdate(ms, sample) ==
    /\ metricsCache' = [m \in Metrics |->
           IF m \in ms /\ Subscribers(m) # {} THEN sample ELSE metricsCache[m]]
    /\ shown' = [c \in Clients |-> [m \in Metrics |->
           IF m \in ms /\ c \in Subscribers(m) \cap Connected THEN sample ELSE shown[c][m]]]
Tick ==
    /\ ticks < MaxTicks /\ ticks' = ticks + 1
    /\ broadcastMetricUpdate(Available, ticks + 1)
    /\ UNCHANGED <<connectedClients, activeSubscriptions, widget>>

Next ==
    \/ \E c \in Clients : handleConnection(c) \/ handleDisconnect(c)
    \/ \E c \in Clients, ms \in (SUBSET Metrics) \ {{}} : handleSubscribe(c, ms) \/ handleUnsubscribe(c, ms)
    \/ \E config \in {1, 2} : handleUpdateWidget(config)
    \/ Tick

Spec == Init /\ [][Next]_vars

-----------------------------------------------------------------------------
TypeOK ==
    /\ connectedClients \in [Clients -> (SUBSET Metrics) \cup {Absent}]
    /\ activeSubscriptions \in [Metrics -> ((SUBSET Clients) \ {{}}) \cup {Absent}]
    /\ metricsCache \in [Metrics -> 0..ticks]
    /\ shown \in [Clients -> [Metrics -> 0..ticks]]

(* The two maps say the same, so a client that left is not kept, and all the     *)
(* subscribers of a metric look at the same sample, from the first one on.       *)
MapsAgree == \A m \in Metrics :
    /\ Subscribers(m) = {c \in Connected : m \in connectedClients[c]}
    /\ \A c \in Subscribers(m) : shown[c][m] = metricsCache[m]
=============================================================================
