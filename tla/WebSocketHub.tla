---------------------------- MODULE WebSocketHub ----------------------------
(***************************************************************************)
(* The connections of services/websocket_manager and the endpoint of       *)
(* routers/websocket.  One asyncio.Lock, first come first served, guards   *)
(* the pool; broadcast and the heartbeat keep it while they wait for the   *)
(* sends to the clients.                                                   *)
(***************************************************************************)
EXTENDS Integers, Sequences, FiniteSets

CONSTANTS
  Clients,
  Topics,         \* topic names; "fleet" and "*" receive every topic
  Publishers,     \* the callers of broadcast
  Heartbeat       \* the task of run_heartbeat_loop

ASSUME HubConstants ==
  /\ Clients \cap Publishers = {}
  /\ Heartbeat \notin Clients \cup Publishers

VARIABLES
  pool,           \* active_connections: the clients it holds
  topics,         \* their subscriptions
  wire,           \* the socket of each client
  hub,            \* the lock: the task that holds it, then those that wait
  mode,           \* next step of each endpoint, publisher and the heartbeat
  unsent,         \* clients a holder still has to send to
  dead            \* dead_clients of the heartbeat

hubVars == <<pool, topics, wire, hub, mode, unsent, dead>>

HubTasks == Clients \cup Publishers \cup {Heartbeat}

HubInit ==
  /\ pool = {}
  /\ topics = [c \in Clients |-> {}]
  /\ wire = [c \in Clients |-> "none"]
  /\ hub = <<>>
  /\ mode = [t \in HubTasks |-> "idle"]
  /\ unsent = [t \in HubTasks |-> {}]
  /\ dead = {}

-----------------------------------------------------------------------------
Acquire(t, s) == hub' = Append(hub, t) /\ mode' = [mode EXCEPT ![t] = s]
Has(t, s) == mode[t] = s /\ hub # <<>> /\ Head(hub) = t
Release(t, s) == hub' = Tail(hub) /\ mode' = [mode EXCEPT ![t] = s]

\* connect: accept, then register under the lock.
Connect(c) ==
  /\ mode[c] = "idle" /\ wire[c] = "none"
  /\ wire' = [wire EXCEPT ![c] = "open"]
  /\ Acquire(c, "joining")
  /\ UNCHANGED <<pool, topics, unsent, dead>>

Join(c) ==
  /\ Has(c, "joining")
  /\ pool' = pool \cup {c}
  /\ topics' = [topics EXCEPT ![c] = {}]
  /\ Release(c, "reading")
  /\ UNCHANGED <<wire, unsent, dead>>

\* A subscribe or unsubscribe message; the set of topics it leads to takes
\* effect only while the client is in the pool.
Ask(c) ==
  /\ mode[c] = "reading" /\ wire[c] = "open"
  /\ Acquire(c, "changing")
  /\ UNCHANGED <<pool, topics, wire, unsent, dead>>

Change(c) ==
  /\ Has(c, "changing")
  /\ \E t \in Topics : \E s \in {topics[c] \cup {t}, topics[c] \ {t}} :
       topics' = IF c \in pool THEN [topics EXCEPT ![c] = s] ELSE topics
  /\ Release(c, "replying")
  /\ UNCHANGED <<pool, wire, unsent, dead>>

\* send_json of the answer waits for a stalled client.
Reply(c) ==
  /\ mode[c] = "replying" /\ wire[c] = "open"
  /\ mode' = [mode EXCEPT ![c] = "reading"]
  /\ UNCHANGED <<pool, topics, wire, hub, unsent, dead>>

\* The socket is closed: receive_text or send_json raises, and the endpoint
\* disconnects.
Leave(c) ==
  /\ mode[c] \in {"reading", "replying"} /\ wire[c] = "closed"
  /\ Acquire(c, "leaving")
  /\ UNCHANGED <<pool, topics, wire, unsent, dead>>

Left(c) ==
  /\ Has(c, "leaving")
  /\ pool' = pool \ {c}
  /\ Release(c, "ended")
  /\ UNCHANGED <<topics, wire, unsent, dead>>

Publish(p) ==
  /\ mode[p] = "idle"
  /\ Acquire(p, "waiting")
  /\ UNCHANGED <<pool, topics, wire, unsent, dead>>

\* The subscribers of the topic are collected under the lock.  (FaultGather
\* takes the early return without giving the lock back.)
Targets(topic) ==
  {c \in pool : {topic, "fleet", "*"} \cap topics[c] # {}}

FaultGather(p) ==
  /\ Has(p, "waiting")
  /\ \E topic \in Topics :
       IF Targets(topic) = {}
       THEN mode' = [mode EXCEPT ![p] = "done"] /\ UNCHANGED <<hub, unsent>>
       ELSE /\ mode' = [mode EXCEPT ![p] = "sending"]
            /\ unsent' = [unsent EXCEPT ![p] = Targets(topic)]
            /\ UNCHANGED hub
  /\ UNCHANGED <<pool, topics, wire, dead>>

Gather(p) ==
  /\ Has(p, "waiting")
  /\ \E topic \in Topics :
       IF Targets(topic) = {}
       THEN Release(p, "done") /\ UNCHANGED unsent
       ELSE /\ mode' = [mode EXCEPT ![p] = "sending"]
            /\ unsent' = [unsent EXCEPT ![p] = Targets(topic)]
            /\ UNCHANGED hub
  /\ UNCHANGED <<pool, topics, wire, dead>>

\* The sends run concurrently; one that raises is only logged.
Deliver(p) ==
  /\ mode[p] = "sending"
  /\ \E c \in unsent[p] :
       /\ wire[c] # "stalled"
       /\ unsent' = [unsent EXCEPT ![p] = @ \ {c}]
       /\ IF unsent[p] = {c} THEN Release(p, "done") ELSE UNCHANGED <<hub, mode>>
  /\ UNCHANGED <<pool, topics, wire, dead>>

WakeUp ==
  /\ mode[Heartbeat] = "idle"
  /\ Acquire(Heartbeat, "waking")
  /\ UNCHANGED <<pool, topics, wire, unsent, dead>>

Beat ==
  /\ Has(Heartbeat, "waking")
  /\ mode' = [mode EXCEPT ![Heartbeat] = "pinging"]
  /\ unsent' = [unsent EXCEPT ![Heartbeat] = pool]
  /\ dead' = {}
  /\ UNCHANGED <<pool, topics, wire, hub>>

\* One ping after the other.
Ping ==
  /\ mode[Heartbeat] = "pinging"
  /\ \E c \in unsent[Heartbeat] :
       /\ wire[c] # "stalled"
       /\ unsent' = [unsent EXCEPT ![Heartbeat] = @ \ {c}]
       /\ dead' = IF wire[c] = "closed" THEN dead \cup {c} ELSE dead
  /\ UNCHANGED <<pool, topics, wire, hub, mode>>

Sweep ==
  /\ mode[Heartbeat] = "pinging" /\ unsent[Heartbeat] = {}
  /\ pool' = pool \ dead
  /\ dead' = {}
  /\ Release(Heartbeat, "idle")
  /\ UNCHANGED <<topics, wire, unsent>>

\* The network and the clients: a client stops reading, goes on, or is gone;
\* the server closes a socket whose peer no longer answers.
Stall(c) ==
  /\ wire[c] = "open"
  /\ wire' = [wire EXCEPT ![c] = "stalled"]
  /\ UNCHANGED <<pool, topics, hub, mode, unsent, dead>>

Recover(c) ==
  /\ wire[c] = "stalled"
  /\ \E w \in {"open", "closed"} : wire' = [wire EXCEPT ![c] = w]
  /\ UNCHANGED <<pool, topics, hub, mode, unsent, dead>>

Close(c) ==
  /\ wire[c] = "open"
  /\ wire' = [wire EXCEPT ![c] = "closed"]
  /\ UNCHANGED <<pool, topics, hub, mode, unsent, dead>>

Endpoint(c) == Join(c) \/ Change(c) \/ Reply(c) \/ Leave(c) \/ Left(c)
Broadcast(p) == Gather(p) \/ Deliver(p)
HeartbeatStep == WakeUp \/ Beat \/ Ping \/ Sweep

HubNext ==
  \/ \E c \in Clients : \/ Connect(c) \/ Ask(c) \/ Endpoint(c)
                        \/ Stall(c) \/ Recover(c) \/ Close(c)
  \/ \E p \in Publishers : Publish(p) \/ Broadcast(p)
  \/ HeartbeatStep

\* Every started task goes on when it can.  A client that stalls either reads
\* again or is closed by the keep-alive of the server, and a send to a client
\* that reads again and again gets through.
HubFairness ==
  /\ \A c \in Clients : SF_hubVars(Endpoint(c)) /\ WF_hubVars(Recover(c))
  /\ \A p \in Publishers : SF_hubVars(Broadcast(p))
  /\ SF_hubVars(Beat \/ Ping \/ Sweep)

-----------------------------------------------------------------------------
HubTypeOK ==
  /\ pool \subseteq Clients
  /\ topics \in [Clients -> SUBSET Topics]
  /\ wire \in [Clients -> {"none", "open", "stalled", "closed"}]
  /\ hub \in Seq(HubTasks)
  /\ \A t \in HubTasks : unsent[t] \subseteq Clients

\* The hub keeps moving although it waits for clients under its lock: a
\* broadcast that was called returns, and a client that is gone leaves the
\* pool, whatever other clients, broadcasts and the heartbeat do.
HubKeepsMoving ==
  /\ \A p \in Publishers : mode[p] = "waiting" ~> mode[p] = "done"
  /\ \A c \in Clients : wire[c] = "closed" /\ c \in pool ~> c \notin pool
=============================================================================
