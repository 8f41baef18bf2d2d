------------------------------ MODULE RealtimeHub ------------------------------
(***************************************************************************)
(* From the topic of positions to the tables the browser shows: the hub    *)
(* that broadcasts events to its WebSocket clients, the handler of each    *)
(* connection, the browser's client, which reconnects and subscribes anew, *)
(* and the store, which keeps the latest event of each symbol and side.    *)
(*                                                                         *)
(* A connection is a tab and a number: each time a tab connects the hub    *)
(* makes another Client.  An event is known by its number.  The hub's lock *)
(* is never held over an await, so it orders nothing more than a step.     *)
(***************************************************************************)
EXTENDS Selection

CONSTANTS
    Tabs,         \* browser tabs
    Keys,         \* symbol|position_side, the rows of the table
    WireSize,     \* frames a connection holds before sending to it blocks
    MaxEvents,    \* bound: events published
    MaxConns,     \* bound: connections of a tab; the last one is not lost
    MaxRestarts   \* bound: restarts of the API process

ASSUME ConnsAssumption == MaxConns \in Nat

VARIABLES
    topic,       \* the position events published: the key of each
    read,        \* the last event the hub has taken
    pumping,     \* the hub has its consumer
    restarts,    \* restarts so far
    clients,     \* RealtimeHub._clients
    snapshot,    \* the clients the broadcast goes through
    index,       \* the next of them, 0 between broadcasts
    dead,        \* those it could not send to
    handler,     \* of each connection: "none", "accepted", "loop" or "ended"
    channels,    \* connections subscribed to positions
    asked,       \* connections with a subscribe message on its way
    link,        \* "none", "opening", "up", "lost" or "closed" (onclose was called)
    opened,      \* connections whose onopen was called
    wire,        \* events sent to each connection and not yet read
    view,        \* store: the event each tab shows in each row, 0 for none
    since        \* what was published when it was subscribed (read by properties only)

topicVars == <<topic>>
pumpVars == <<read, pumping, snapshot, index, dead>>
serverVars == <<clients, handler, channels, since>>
browserVars == <<opened, asked, view>>
vars == <<topicVars, pumpVars, restarts, serverVars, browserVars, link, wire>>

--------------------------------------------------------------------------------
Conns == Tabs \X (1 .. MaxConns)
Events == 1 .. MaxEvents
TabOf(c) == c[1]
\* The latest connection of a tab, RealtimeClient.ws.
Made(t) == {i \in 1 .. MaxConns : link[<<t, i>>] # "none"}

Init ==
    /\ topic = <<>> /\ read = 0 /\ pumping \in BOOLEAN /\ restarts = 0
    /\ clients = <<>> /\ snapshot = <<>> /\ index = 0 /\ dead = {}
    /\ handler = [c \in Conns |-> "none"]
    /\ channels = {} /\ asked = {} /\ opened = {}
    /\ link = [c \in Conns |-> "none"]
    /\ wire = [c \in Conns |-> <<>>]
    /\ view = [t \in Tabs |-> [k \in Keys |-> 0]]
    /\ since = [c \in Conns |-> 0]

--------------------------------------------------------------------------------
(* The engine.                                                             *)

\* _emit_positions_for: a position is open after an order and is announced.  (A
\* closed one is not, and an event Kafka refuses is dropped: neither is a step.)
Publish(k) ==
    /\ Len(topic) < MaxEvents
    /\ topic' = Append(topic, k)
    /\ UNCHANGED <<pumpVars, restarts, serverVars, browserVars, link, wire>>

--------------------------------------------------------------------------------
(* The hub.                                                                *)

Without(s, gone) == AtPlaces(s, {i \in DOMAIN s : s[i] \notin gone})

\* _pump takes the next event and lists the clients.
PumpTake ==
    /\ pumping /\ index = 0 /\ read < Len(topic)
    /\ read' = read + 1
    /\ snapshot' = clients /\ index' = 1
    /\ UNCHANGED <<topic, pumping, dead, restarts, serverVars, browserVars, link, wire>>

\* Mutant: the first client that is gone ends the broadcast.
AfterDeadStop == Len(snapshot) + 1
\* A client that is gone is noted, the others still get the event.
AfterDead == index + 1

\* _broadcast to one client.  Sending waits while the connection is full; over a
\* lost one it raises or goes nowhere.
PumpSend ==
    /\ index \in 1 .. Len(snapshot)
    /\ LET c == snapshot[index] IN
       \/ c \notin channels /\ index' = index + 1 /\ UNCHANGED <<dead, wire>>
       \/ /\ c \in channels /\ link[c] = "up" /\ Len(wire[c]) < WireSize
          /\ wire' = [wire EXCEPT ![c] = Append(@, read)]
          /\ index' = index + 1 /\ UNCHANGED dead
       \/ /\ c \in channels /\ link[c] # "up"
          /\ index' = index + 1 /\ UNCHANGED <<dead, wire>>
       \/ /\ c \in channels /\ link[c] # "up"
          /\ dead' = dead \union {c} /\ index' = AfterDead /\ UNCHANGED wire
    /\ UNCHANGED <<topic, read, pumping, snapshot, restarts, serverVars, browserVars,
                   link>>

\* The dead clients are removed.
PumpDone ==
    /\ index = Len(snapshot) + 1
    /\ clients' = Without(clients, dead)
    /\ index' = 0 /\ snapshot' = <<>> /\ dead' = {}
    /\ UNCHANGED <<topic, read, pumping, restarts, handler, channels, since,
                   browserVars, link, wire>>

\* realtime_ws: the connection is accepted ...
Accept(c) ==
    /\ link[c] = "opening"
    /\ link' = [link EXCEPT ![c] = "up"]
    /\ handler' = [handler EXCEPT ![c] = "accepted"]
    /\ UNCHANGED <<topicVars, pumpVars, restarts, clients, channels, since, browserVars,
                   wire>>

\* ... joins the clients ...
Register(c) ==
    /\ handler[c] = "accepted"
    /\ clients' = Append(clients, c)
    /\ handler' = [handler EXCEPT ![c] = "loop"]
    /\ UNCHANGED <<topicVars, pumpVars, restarts, channels, since, browserVars, link,
                   wire>>

\* ... and its messages are read: configure.
Configure(c) ==
    /\ handler[c] = "loop" /\ c \in asked
    /\ asked' = asked \ {c}
    /\ channels' = channels \union {c}
    /\ since' = [since EXCEPT ![c] = read]
    /\ UNCHANGED <<topicVars, pumpVars, restarts, clients, handler, opened, view, link,
                   wire>>

Disconnect(c) == clients' = Without(clients, {c})

\* Its receive or its hello raises: the finally block.
HandlerEnds(c) ==
    /\ handler[c] = "loop" /\ link[c] \in {"lost", "closed"}
    /\ handler' = [handler EXCEPT ![c] = "ended"]
    /\ Disconnect(c)
    /\ UNCHANGED <<topicVars, pumpVars, restarts, channels, since, browserVars, link,
                   wire>>

\* The API process ends and starts again: a new hub with a consumer of its own
\* that begins at the latest event, or with none if Kafka does not answer.
Restart ==
    /\ restarts < MaxRestarts
    /\ restarts' = restarts + 1
    /\ \A t \in Tabs : Cardinality(Made(t)) < MaxConns
    /\ clients' = <<>> /\ snapshot' = <<>> /\ index' = 0 /\ dead' = {}
    /\ read' = Len(topic) /\ pumping' \in BOOLEAN
    /\ handler' = [c \in Conns |-> IF link[c] = "none" THEN "none" ELSE "ended"]
    /\ link' = [c \in Conns |-> IF link[c] \in {"opening", "up"} THEN "lost" ELSE link[c]]
    /\ UNCHANGED <<topic, channels, since, browserVars, wire>>

--------------------------------------------------------------------------------
(* The network and the browser.                                            *)

\* A connection is lost, with a part of the frames on it.
Lose(c) ==
    /\ link[c] \in {"opening", "up"} /\ c[2] < MaxConns
    /\ link' = [link EXCEPT ![c] = "lost"]
    /\ \E n \in 0 .. Len(wire[c]) : wire' = [wire EXCEPT ![c] = SubSeq(@, 1, n)]
    /\ UNCHANGED <<topicVars, pumpVars, restarts, serverVars, browserVars>>

\* Mutant: the client connects anew as soon as the connection is lost.
MayOpenAtOnce(t) == \A i \in Made(t) : link[<<t, i>>] \in {"lost", "closed"}
\* open() is called at first and by the timer that onclose sets.
MayOpen(t) == \A i \in Made(t) : link[<<t, i>>] = "closed"

Open(t) ==
    /\ MayOpen(t)
    /\ LET i == Cardinality(Made(t)) + 1 IN
       i <= MaxConns /\ link' = [link EXCEPT ![<<t, i>>] = "opening"]
    /\ UNCHANGED <<topicVars, pumpVars, restarts, serverVars, browserVars, wire>>

\* Mutant: only the first connection of a tab subscribes.
OnOpenAsksOnce(c) == asked' = IF c[2] = 1 THEN asked \union {c} ELSE asked
\* onopen sends the channels that were ever subscribed.
OnOpenAsks(c) == asked' = asked \union {c}

OnOpen(c) ==
    /\ link[c] = "up" /\ c \notin opened
    /\ opened' = opened \union {c}
    /\ OnOpenAsks(c)
    /\ UNCHANGED <<topicVars, pumpVars, restarts, serverVars, view, link, wire>>

\* onmessage: the event replaces the row of its symbol and side.
OnMessage(c) ==
    /\ c \in opened /\ link[c] \in {"up", "lost"} /\ wire[c] # <<>>
    /\ view' = [view EXCEPT ![TabOf(c)][topic[Head(wire[c])]] = Head(wire[c])]
    /\ wire' = [wire EXCEPT ![c] = Tail(@)]
    /\ UNCHANGED <<topicVars, pumpVars, restarts, serverVars, opened, asked, link>>

\* onclose comes after the frames that arrived.
OnClose(c) ==
    /\ link[c] = "lost" /\ wire[c] = <<>>
    /\ link' = [link EXCEPT ![c] = "closed"]
    /\ UNCHANGED <<topicVars, pumpVars, restarts, serverVars, browserVars, wire>>

--------------------------------------------------------------------------------
Pump == PumpTake \/ PumpSend \/ PumpDone
Handler(c) == Accept(c) \/ Register(c) \/ Configure(c) \/ HandlerEnds(c)
Browser(c) == OnOpen(c) \/ OnMessage(c) \/ OnClose(c)

Next ==
    \/ \E k \in Keys : Publish(k)
    \/ Pump \/ Restart
    \/ \E c \in Conns : Handler(c) \/ Browser(c) \/ Lose(c)
    \/ \E t \in Tabs : Open(t)

Spec == Init /\ [][Next]_vars
\* The hub's tasks run, the browser's timers and callbacks come, and it reads
\* what arrives.
FairSpec ==
    /\ Spec
    /\ WF_vars(Pump)
    /\ \A c \in Conns : WF_vars(Handler(c)) /\ WF_vars(Browser(c))
    /\ \A t \in Tabs : WF_vars(Open(t))

--------------------------------------------------------------------------------
(* Properties                                                              *)

\* The connection of a tab has been sent all there is and the tab has read it.
Idle == pumping /\ read = Len(topic) /\ index = 0
CaughtUp(c) == link[c] = "up" /\ c \in channels /\ Idle /\ wire[c] = <<>>

\* Whoever connects, disconnects, is lost or is slow during a broadcast: a tab
\* that has caught up shows the latest announcement of every position announced
\* since its connection was subscribed ("fans messages out to connected clients.
\* Each client subscribes to a set of channels", hub.py:4).
ViewIsCurrent ==
    \A c \in Conns : CaughtUp(c) =>
        \A k \in Keys :
            LET later == {n \in since[c] + 1 .. Len(topic) : topic[n] = k} IN
            later # {} => \A n \in later : n <= view[TabOf(c)][k]

\* A row never goes back to an older announcement, over any reconnects.
ViewNeverGoesBack ==
    [][\A t \in Tabs : \A k \in Keys : view[t][k] <= view'[t][k]]_vars

\* After the last fault the hub has one client for each tab, which is subscribed
\* ("Typed, auto-reconnecting WebSocket client", ws.ts:1).
ClientsOf(t) == {i \in DOMAIN clients : TabOf(clients[i]) = t}
Settles ==
    <>[](\A t \in Tabs :
            /\ Cardinality(ClientsOf(t)) = 1
            /\ \A i \in ClientsOf(t) : clients[i] \in channels /\ link[clients[i]] = "up")
================================================================================
