------------------------------ MODULE MCClient ------------------------------
(***************************************************************************)
(* The registry of Minecraft servers (MCClient in client.go): Connect      *)
(* discovers the labelled containers and then watches Docker events;       *)
(* startServer, stopServer and Disconnect add servers to and remove them   *)
(* from the map.  Each call of Connect is a goroutine of its own that      *)
(* becomes the event watcher of its context; calls, Disconnect, the Docker *)
(* daemon and the players' side interleave at every lock and every         *)
(* blocking call.                                                          *)
(*                                                                         *)
(* The RCON client of a server is only "open" or "closed" here.  A         *)
(* container is its name: RCON host, log stream and portal go by it.  Its   *)
(* title is what the name label says, the name the room is to have; the    *)
(* avatar label takes the same way to the room.                            *)
(***************************************************************************)
EXTENDS Naturals, Sequences

CONSTANTS
  Containers,     \* names of the labelled containers
  WithPassword,   \* those that have an RCON_PASSWORD
  Titles,         \* display names that labels give
  OwnName,        \* the display name without a label: the container's name
  NoRoom,         \* no room, no display name
  MaxConnects,    \* bound: calls of Connect
  MaxDisconnects, \* bound: calls of Disconnect
  MaxChanges,     \* bound: starts and stops of containers
  MaxFaults       \* bound: Docker, database and RCON errors

DisplayNames == Titles \cup {OwnName}

\* What ContainerList tells of a container.
Listed == [name : Containers, title : DisplayNames]

ASSUME ClientAssumption == /\ WithPassword \subseteq Containers
                           /\ NoRoom \notin DisplayNames
                           /\ MaxConnects \in Nat
                           /\ MaxDisconnects \in Nat
                           /\ MaxChanges \in Nat
                           /\ MaxFaults \in Nat

VARIABLES
  running,      \* the containers that run
  title,        \* the display name each has by its label
  events,       \* events[t]: Docker events sent to call t and not yet read
  subscribed,   \* the calls whose event stream is open
  changes,
  faults

VARIABLES
  srv,          \* every mcServer made, by number
  servers,      \* c.servers: container name to mcServer, 0 for none
  ctx,          \* the call whose context c.ctx is, 0 for nil
  cancel,       \* the call whose context c.cancel cancels, 0 for nil
  live,         \* the calls whose context is made and not cancelled
  room,         \* the name of the portal room of each container
  call,         \* call[t]: where call t stands
  disconnect,   \* where Disconnect stands
  disconnects

dockerVars == <<running, title, events, subscribed, changes>>
mapVars == <<srv, servers, room>>
ctxVars == <<ctx, cancel, live>>
discVars == <<disconnect, disconnects>>
vars == <<dockerVars, faults, mapVars, ctxVars, call, discVars>>

Calls == 1..MaxConnects

Init ==
  /\ running \in SUBSET Containers
  /\ title = [n \in Containers |-> OwnName]
  /\ events = [t \in Calls |-> <<>>]
  /\ subscribed = {}
  /\ changes = 0
  /\ faults = 0
  /\ srv = <<>>
  /\ servers = [n \in Containers |-> 0]
  /\ ctx = 0
  /\ cancel = 0
  /\ live = {}
  /\ room = [n \in Containers |-> NoRoom]
  /\ call = [t \in Calls |-> [pc |-> "idle", watching |-> FALSE, found |-> {},
                              todo |-> {}, at |-> {}, obj |-> 0,
                              fresh |-> FALSE, info |-> NoRoom, stop |-> {}]]
  /\ disconnect = "ready"
  /\ disconnects = 0

\* The server still works: neither its own context nor the one it was made
\* from is cancelled.
Live(o) == srv[o].ctx \in live /\ ~srv[o].cancelled

\* Call t stands at pc and goes on at next.
Step(t, pc, next) ==
  /\ call[t].pc = pc
  /\ call' = [call EXCEPT ![t].pc = next]

\* An error in a request of call t: something fails, or the request carries
\* the watcher's cancelled context.
Fault(t) ==
  \/ faults < MaxFaults /\ faults' = faults + 1
  \/ call[t].watching /\ t \notin live /\ faults' = faults

\* A request of call t can succeed.
CanAsk(t) == call[t].watching => t \in live

-----------------------------------------------------------------------------
(* The Docker daemon.                                                      *)

Tell(evs) ==
  events' = [t \in Calls |-> IF t \in subscribed THEN events[t] \o evs
                                                 ELSE events[t]]

\* It is made anew with other labels, or the old one starts again.
ContainerStarts(n) ==
  /\ n \notin running
  /\ changes < MaxChanges
  /\ running' = running \cup {n}
  /\ \E name \in DisplayNames : title' = [title EXCEPT ![n] = name]
  /\ changes' = changes + 1
  /\ Tell(<<[action |-> "start", name |-> n]>>)
  /\ UNCHANGED <<subscribed, faults, mapVars, ctxVars, call, discVars>>

\* It ends by itself (die) or is stopped (die, stop).
ContainerStops(n) ==
  /\ n \in running
  /\ changes < MaxChanges
  /\ running' = running \ {n}
  /\ changes' = changes + 1
  /\ \E actions \in {<<"die">>, <<"die", "stop">>} :
       Tell([i \in DOMAIN actions |-> [action |-> actions[i], name |-> n]])
  /\ UNCHANGED <<title, subscribed, faults, mapVars, ctxVars, call, discVars>>

\* The event stream breaks; what was sent can still be read.
StreamBreaks(t) ==
  /\ t \in subscribed
  /\ faults < MaxFaults
  /\ faults' = faults + 1
  /\ subscribed' = subscribed \ {t}
  /\ UNCHANGED <<running, title, events, changes, mapVars, ctxVars, call,
                 discVars>>

\* A command fails on an open RCON connection (RCONClient.execute).
RconDrops(o) ==
  /\ srv[o].rcon = "open"
  /\ faults < MaxFaults
  /\ faults' = faults + 1
  /\ srv' = [srv EXCEPT ![o].rcon = "closed"]
  /\ UNCHANGED <<dockerVars, servers, room, ctxVars, call, discVars>>

DockerNext ==
  \/ \E n \in Containers : ContainerStarts(n) \/ ContainerStops(n)
  \/ \E t \in Calls : StreamBreaks(t)
  \/ \E o \in DOMAIN srv : RconDrops(o)

-----------------------------------------------------------------------------
(* Connect: the context is made and published without a lock.              *)

ConnectCancel(t) ==
  /\ \A u \in Calls : u < t => call[u].pc # "idle"
  /\ Step(t, "idle", "publish")
  /\ live' = (live \ {cancel}) \cup {t}
  /\ UNCHANGED <<dockerVars, faults, mapVars, ctx, cancel, discVars>>

ConnectCtx(t) ==
  /\ Step(t, "publish", "publishCancel")
  /\ ctx' = t
  /\ UNCHANGED <<dockerVars, faults, mapVars, cancel, live, discVars>>

ConnectCancelFunc(t) ==
  /\ Step(t, "publishCancel", "list")
  /\ cancel' = t
  /\ UNCHANGED <<dockerVars, faults, mapVars, ctx, live, discVars>>

-----------------------------------------------------------------------------
(* discoverAll, by Connect or by the watcher.                              *)

List(t) ==
  /\ call[t].pc = "list"
  /\ CanAsk(t)
  /\ call' = [call EXCEPT
       ![t].pc = "each", ![t].found = running,
       ![t].todo = {[name |-> n, title |-> title[n]] : n \in running}]
  /\ UNCHANGED <<dockerVars, faults, mapVars, ctxVars, discVars>>

\* ContainerList fails.  Connect gives up, without a watcher; the watcher
\* waits for the next event.
ListFails(t) ==
  /\ Step(t, "list", IF call[t].watching THEN "watch" ELSE "done")
  /\ Fault(t)
  /\ UNCHANGED <<dockerVars, mapVars, ctxVars, discVars>>

\* One container of the list is inspected and has a password.
Inspect(t, c) ==
  /\ call[t].pc = "each"
  /\ c \in call[t].todo
  /\ c.name \in WithPassword
  /\ CanAsk(t)
  /\ call' = [call EXCEPT ![t].pc = "start", ![t].todo = @ \ {c},
                          ![t].at = {c}]
  /\ UNCHANGED <<dockerVars, faults, mapVars, ctxVars, discVars>>

\* It is skipped, and stays in found.
Skip(t, c) ==
  /\ call[t].pc = "each"
  /\ c \in call[t].todo
  /\ Fault(t) \/ (c.name \notin WithPassword /\ faults' = faults)
  /\ call' = [call EXCEPT ![t].todo = @ \ {c}]
  /\ UNCHANGED <<dockerVars, mapVars, ctxVars, discVars>>

-----------------------------------------------------------------------------
(* startServer.                                                            *)

\* A container without an mcServer gets one, from the context c.ctx holds.
StartNew(t, c) ==
  /\ call[t].pc = "start"
  /\ c \in call[t].at
  /\ servers[c.name] = 0
  /\ srv' = Append(srv, [name |-> c.name, title |-> c.title, ctx |-> ctx,
                         cancelled |-> FALSE, started |-> FALSE,
                         rcon |-> "closed"])
  /\ servers' = [servers EXCEPT ![c.name] = Len(srv')]
  /\ call' = [call EXCEPT ![t].pc = "dial", ![t].at = {}, ![t].obj = Len(srv'),
                          ![t].fresh = TRUE]
  /\ UNCHANGED <<dockerVars, faults, room, ctxVars, discVars>>

\* Mutant of StartExisting: the new display name is kept but not shown.
StartExistingQuietly(t, c) ==
  /\ call[t].pc = "start"
  /\ c \in call[t].at
  /\ servers[c.name] # 0
  /\ srv' = [srv EXCEPT ![servers[c.name]].title = c.title]
  /\ call' = [call EXCEPT ![t].pc = "check", ![t].at = {},
                          ![t].obj = servers[c.name]]
  /\ UNCHANGED <<dockerVars, faults, servers, room, ctxVars, discVars>>

\* One that has an mcServer keeps it, with the display name of today.
StartExisting(t, c) ==
  /\ call[t].pc = "start"
  /\ c \in call[t].at
  /\ servers[c.name] # 0
  /\ LET o == servers[c.name] IN
       /\ srv' = [srv EXCEPT ![o].title = c.title]
       /\ call' = [call EXCEPT
            ![t].pc = IF srv[o].title = c.title THEN "check" ELSE "refresh",
            ![t].at = {}, ![t].obj = o]
  /\ UNCHANGED <<dockerVars, faults, servers, room, ctxVars, discVars>>

\* The container of the server in hand.
InHand(t) == srv[call[t].obj].name

\* GetChatInfo: what the map says of a container now.
ChatInfo(n) == IF servers[n] = 0 THEN OwnName ELSE srv[servers[n]].title

\* startServer is done with a server.
End(t) == [call EXCEPT ![t].pc = "each", ![t].obj = 0, ![t].fresh = FALSE,
                       ![t].info = NoRoom]

\* updatePortalInfo, after the lock is released: without a room there is
\* nothing to update.
Refresh(t) ==
  /\ call[t].pc = "refresh"
  /\ call' = IF room[InHand(t)] = NoRoom
               THEN [call EXCEPT ![t].pc = "check"]
               ELSE [call EXCEPT ![t].pc = "push",
                                 ![t].info = ChatInfo(InHand(t))]
  /\ UNCHANGED <<dockerVars, faults, mapVars, ctxVars, discVars>>

RefreshFails(t) ==
  /\ Step(t, "refresh", "check")
  /\ Fault(t)
  /\ UNCHANGED <<dockerVars, mapVars, ctxVars, discVars>>

\* existing.rcon.IsConnected().
Check(t) ==
  /\ call[t].pc = "check"
  /\ call' = IF srv[call[t].obj].rcon = "open"
               THEN End(t)
               ELSE [call EXCEPT ![t].pc = "dial"]
  /\ UNCHANGED <<dockerVars, faults, mapVars, ctxVars, discVars>>

\* After rcon.Connect: on with a new server, back for one that was tracked.
Dialled(t) ==
  /\ call[t].pc = "dial"
  /\ call' = IF call[t].fresh THEN [call EXCEPT ![t].pc = "spawn"] ELSE End(t)

\* rcon.Connect succeeds.  Nobody looks whether the server was stopped.
Dial(t) ==
  LET o == call[t].obj IN
    /\ Dialled(t)
    /\ srv[o].name \in running
    /\ srv' = [srv EXCEPT ![o].rcon = "open"]
    /\ UNCHANGED <<dockerVars, faults, servers, room, ctxVars, discVars>>

\* Its tenth attempt fails or the watcher's context is cancelled.
DialFails(t) ==
  /\ Dialled(t)
  /\ UNCHANGED <<dockerVars, faults, mapVars, ctxVars, discVars>>

\* The event source and receiveLoop are started.
Spawn(t) ==
  /\ Step(t, "spawn", "portal")
  /\ srv' = [srv EXCEPT ![call[t].obj].started = TRUE]
  /\ UNCHANGED <<dockerVars, faults, servers, room, ctxVars, discVars>>

\* GetPortalByKey, then GetChatInfo.
Portal(t) ==
  /\ call[t].pc = "portal"
  /\ call' = [call EXCEPT ![t].pc = "create", ![t].info = ChatInfo(InHand(t))]
  /\ UNCHANGED <<dockerVars, faults, mapVars, ctxVars, discVars>>

\* CreateMatrixRoom makes the room, or leaves the one that is there, and the
\* admin is marked in it.
Create(t) ==
  /\ Step(t, "create", "push")
  /\ room' = [room EXCEPT ![InHand(t)] = IF @ = NoRoom THEN call[t].info ELSE @]
  /\ UNCHANGED <<dockerVars, faults, srv, servers, ctxVars, discVars>>

\* There is no portal, or no room: the server stays as it is.
PortalFails(t) ==
  /\ \/ call[t].pc = "portal"
     \/ call[t].pc = "create" /\ room[InHand(t)] = NoRoom
  /\ call' = End(t)
  /\ Fault(t)
  /\ UNCHANGED <<dockerVars, mapVars, ctxVars, discVars>>

Pushed(t) ==
  /\ call[t].pc = "push"
  /\ call' = IF call[t].fresh
               THEN End(t)
               ELSE [call EXCEPT ![t].pc = "check", ![t].info = NoRoom]

\* portal.UpdateInfo, with what GetChatInfo returned before.
Push(t) ==
  /\ Pushed(t)
  /\ room' = [room EXCEPT ![InHand(t)] = call[t].info]
  /\ UNCHANGED <<dockerVars, faults, srv, servers, ctxVars, discVars>>

PushFails(t) ==
  /\ Pushed(t)
  /\ Fault(t)
  /\ UNCHANGED <<dockerVars, mapVars, ctxVars, discVars>>

-----------------------------------------------------------------------------
(* The end of discoverAll, and stopServer.                                 *)

\* The tracked servers that were not in the list are to be stopped.
Sweep(t) ==
  /\ call[t].pc = "each"
  /\ call[t].todo = {}
  /\ call' = [call EXCEPT
       ![t].pc = "stopping", ![t].found = {},
       ![t].stop = {n \in Containers : servers[n] # 0} \ call[t].found]
  /\ UNCHANGED <<dockerVars, faults, mapVars, ctxVars, discVars>>

\* Mutant of Remove: a server that is not in the map is not noticed.
RemoveUnchecked(t, n) ==
  /\ call[t].pc = "stopping"
  /\ n \in call[t].stop
  /\ call' = [call EXCEPT ![t].pc = "teardown", ![t].obj = servers[n],
                          ![t].stop = @ \ {n}]
  /\ servers' = [servers EXCEPT ![n] = 0]
  /\ UNCHANGED <<dockerVars, faults, srv, room, ctxVars, discVars>>

\* stopServer takes the server out of the map; there may be none any more.
Remove(t, n) ==
  /\ call[t].pc = "stopping"
  /\ n \in call[t].stop
  /\ call' = [call EXCEPT ![t].pc = IF servers[n] = 0 THEN @ ELSE "teardown",
                          ![t].obj = servers[n], ![t].stop = @ \ {n}]
  /\ servers' = [servers EXCEPT ![n] = 0]
  /\ UNCHANGED <<dockerVars, faults, srv, room, ctxVars, discVars>>

\* Mutant of Teardown: the server's context is not cancelled.
TeardownLeavesContext(t) ==
  /\ call[t].pc = "teardown"
  /\ srv' = [srv EXCEPT ![call[t].obj].rcon = "closed"]
  /\ call' = [call EXCEPT ![t].pc = "stopping", ![t].obj = 0]
  /\ UNCHANGED <<dockerVars, faults, servers, room, ctxVars, discVars>>

\* Then it cancels its context and closes its RCON connection.
Teardown(t) ==
  /\ call[t].pc = "teardown"
  /\ srv' = [srv EXCEPT ![call[t].obj].cancelled = TRUE,
                        ![call[t].obj].rcon = "closed"]
  /\ call' = [call EXCEPT ![t].pc = "stopping", ![t].obj = 0]
  /\ UNCHANGED <<dockerVars, faults, servers, room, ctxVars, discVars>>

\* Connect goes on to start the watcher; the watcher back to its events.
Stopped(t) ==
  /\ call[t].pc = "stopping"
  /\ call[t].stop = {}
  /\ call' = [call EXCEPT
       ![t].pc = IF call[t].watching THEN "watch" ELSE "subscribe",
       ![t].watching = TRUE]
  /\ UNCHANGED <<dockerVars, faults, mapVars, ctxVars, discVars>>

-----------------------------------------------------------------------------
(* watchDockerEvents.                                                      *)

\* The event stream starts with what happens from now on.
Subscribe(t) ==
  /\ Step(t, "subscribe", "watch")
  /\ t \in live
  /\ subscribed' = subscribed \cup {t}
  /\ UNCHANGED <<running, title, events, changes, faults, mapVars, ctxVars,
                 discVars>>

SubscribeFails(t) ==
  /\ Step(t, "subscribe", IF t \in live THEN "backoff" ELSE "done")
  /\ Fault(t)
  /\ UNCHANGED <<dockerVars, mapVars, ctxVars, discVars>>

\* Mutant of Handle: "stop" is handled, "die" is not.
HandleStop(t) ==
  /\ call[t].pc = "watch"
  /\ events[t] # <<>>
  /\ LET ev == Head(events[t]) IN
       call' = CASE ev.action = "start" -> [call EXCEPT ![t].pc = "settle"]
                 [] ev.action = "stop" ->
                      [call EXCEPT ![t].pc = "stopping", ![t].stop = {ev.name}]
                 [] ev.action = "die" -> call
  /\ events' = [events EXCEPT ![t] = Tail(@)]
  /\ UNCHANGED <<running, title, subscribed, changes, faults, mapVars, ctxVars,
                 discVars>>

\* Mutant of Handle: no discovery, the start is taken for one already seen.
HandleStartOnce(t) ==
  /\ call[t].pc = "watch"
  /\ events[t] # <<>>
  /\ LET ev == Head(events[t]) IN
       call' = CASE ev.action = "start" /\ room[ev.name] = NoRoom ->
                      [call EXCEPT ![t].pc = "settle"]
                 [] ev.action = "start" /\ room[ev.name] # NoRoom -> call
                 [] ev.action # "start" ->
                      [call EXCEPT ![t].pc = "stopping", ![t].stop = {ev.name}]
  /\ events' = [events EXCEPT ![t] = Tail(@)]
  /\ UNCHANGED <<running, title, subscribed, changes, faults, mapVars, ctxVars,
                 discVars>>

\* handleDockerEvent: five seconds to a discovery, or stopServer.
Handle(t) ==
  /\ call[t].pc = "watch"
  /\ events[t] # <<>>
  /\ LET ev == Head(events[t]) IN
       call' = IF ev.action = "start"
                 THEN [call EXCEPT ![t].pc = "settle"]
                 ELSE [call EXCEPT ![t].pc = "stopping", ![t].stop = {ev.name}]
  /\ events' = [events EXCEPT ![t] = Tail(@)]
  /\ UNCHANGED <<running, title, subscribed, changes, faults, mapVars, ctxVars,
                 discVars>>

\* The wait is over, or cancelled.
Settle(t) ==
  /\ \/ Step(t, "settle", "list")
     \/ Step(t, "settle", "watch") /\ t \notin live
  /\ UNCHANGED <<dockerVars, faults, mapVars, ctxVars, discVars>>

\* The stream ended: it is opened again after a wait, without a discovery.
StreamEnded(t) ==
  /\ Step(t, "watch", IF t \in live THEN "backoff" ELSE "done")
  /\ t \notin subscribed
  /\ events[t] = <<>>
  /\ UNCHANGED <<dockerVars, faults, mapVars, ctxVars, discVars>>

\* Mutant of WatchCancelled: the context is looked at when an event comes.
WatchUncancelled(t) ==
  /\ Step(t, "watch", "done")
  /\ t \notin live
  /\ events[t] # <<>>
  /\ events' = [events EXCEPT ![t] = <<>>]
  /\ subscribed' = subscribed \ {t}
  /\ UNCHANGED <<running, title, changes, faults, mapVars, ctxVars, discVars>>

WatchCancelled(t) ==
  /\ Step(t, "watch", "done")
  /\ t \notin live
  /\ events' = [events EXCEPT ![t] = <<>>]
  /\ subscribed' = subscribed \ {t}
  /\ UNCHANGED <<running, title, changes, faults, mapVars, ctxVars, discVars>>

Backoff(t) ==
  /\ \/ Step(t, "backoff", "subscribe")
     \/ Step(t, "backoff", "done") /\ t \notin live
  /\ UNCHANGED <<dockerVars, faults, mapVars, ctxVars, discVars>>

-----------------------------------------------------------------------------
(* Disconnect.                                                             *)

DisconnectCancel ==
  /\ disconnect = "ready"
  /\ disconnects < MaxDisconnects
  /\ disconnects' = disconnects + 1
  /\ live' = live \ {cancel}
  /\ disconnect' = "clear"
  /\ UNCHANGED <<dockerVars, faults, mapVars, ctx, cancel, call>>

\* With the map locked every server is stopped and the map emptied.
DisconnectClear ==
  /\ disconnect = "clear"
  /\ LET tracked == {servers[n] : n \in Containers} \ {0} IN
       srv' = [o \in DOMAIN srv |->
                 IF o \in tracked
                   THEN [srv[o] EXCEPT !.cancelled = TRUE, !.rcon = "closed"]
                   ELSE srv[o]]
  /\ servers' = [n \in Containers |-> 0]
  /\ disconnect' = "ready"
  /\ UNCHANGED <<dockerVars, faults, room, ctxVars, call, disconnects>>

-----------------------------------------------------------------------------
ConnectStep(t) == ConnectCtx(t) \/ ConnectCancelFunc(t)

DiscoverStep(t) ==
  \/ List(t) \/ ListFails(t)
  \/ \E c \in Listed :
       Inspect(t, c) \/ Skip(t, c) \/ StartNew(t, c) \/ StartExisting(t, c)
  \/ Refresh(t) \/ RefreshFails(t) \/ Check(t) \/ Dial(t) \/ DialFails(t)
  \/ Spawn(t) \/ Portal(t) \/ Create(t) \/ PortalFails(t)
  \/ Push(t) \/ PushFails(t)
  \/ \E n \in Containers : Remove(t, n)
  \/ Sweep(t) \/ Teardown(t) \/ Stopped(t)

WatchStep(t) ==
  \/ Subscribe(t) \/ SubscribeFails(t)
  \/ Handle(t) \/ Settle(t) \/ StreamEnded(t) \/ WatchCancelled(t) \/ Backoff(t)

CallStep(t) == ConnectStep(t) \/ DiscoverStep(t) \/ WatchStep(t)

Next ==
  \/ DockerNext
  \/ \E t \in Calls : ConnectCancel(t) \/ CallStep(t)
  \/ DisconnectCancel
  \/ DisconnectClear

Spec == Init /\ [][Next]_vars

\* A goroutine that can go on does: every request is answered or fails, and
\* rcon.Connect gives up after ten attempts.
Fairness == /\ \A t \in Calls : WF_vars(CallStep(t))
            /\ WF_vars(DisconnectClear)

FairSpec == Spec /\ Fairness

-----------------------------------------------------------------------------
(* Properties.                                                             *)

CallRecord ==
  [pc : {"idle", "publish", "publishCancel", "list", "each", "start",
         "refresh", "check", "dial", "spawn", "portal", "create", "push",
         "stopping", "teardown", "subscribe", "watch", "settle", "backoff",
         "done"},
   watching : BOOLEAN,
   found : SUBSET Containers,
   todo : SUBSET Listed,
   at : SUBSET Listed,
   obj : 0..Len(srv),
   fresh : BOOLEAN,
   info : DisplayNames \cup {NoRoom},
   stop : SUBSET Containers]

\* Types; the map holds every server under its own name, and a call on its
\* way through startServer or stopServer has one in hand.
TypeOK ==
  /\ running \subseteq Containers
  /\ title \in [Containers -> DisplayNames]
  /\ events \in [Calls -> Seq([action : {"start", "die", "stop"},
                               name : Containers])]
  /\ subscribed \subseteq Calls
  /\ changes \in 0..MaxChanges
  /\ faults \in 0..MaxFaults
  /\ srv \in Seq([name : Containers, title : DisplayNames, ctx : Calls,
                  cancelled : BOOLEAN, started : BOOLEAN,
                  rcon : {"open", "closed"}])
  /\ servers \in [Containers -> 0..Len(srv)]
  /\ \A n \in Containers : servers[n] # 0 => srv[servers[n]].name = n
  /\ ctx \in 0..MaxConnects
  /\ cancel \in 0..MaxConnects
  /\ live \subseteq Calls
  /\ room \in [Containers -> DisplayNames \cup {NoRoom}]
  /\ call \in [Calls -> CallRecord]
  /\ \A t \in Calls :
       call[t].pc \in {"refresh", "check", "dial", "spawn", "portal", "create",
                       "push", "teardown"} => call[t].obj # 0
  /\ disconnect \in {"ready", "clear"}
  /\ disconnects \in 0..MaxDisconnects

\* Every server whose goroutines still receive is the one in the map under
\* its name, or in the hands of a stopServer about to cancel it: no container
\* is read twice for good, and none is read that no call can stop any more,
\* however Connect, the watchers and Disconnect interleave.
NoStrayReceiver ==
  \A o \in DOMAIN srv :
    srv[o].started /\ Live(o) =>
      \/ servers[srv[o].name] = o
      \/ \E t \in Calls : call[t].pc = "teardown" /\ call[t].obj = o

\* A cancelled call comes to its end, wherever the cancellation finds it.
CallsEnd ==
  \A t \in Calls : (cancel = t /\ t \notin live) ~> call[t].pc = "done"

Told(t, n, actions) ==
  \E i \in DOMAIN events[t] :
    events[t][i].name = n /\ events[t][i].action \in actions

Served(n) == /\ servers[n] # 0
             /\ Live(servers[n])
             /\ srv[servers[n]].started
             /\ room[n] = title[n]

\* "Docker events (start/stop/die) trigger automatic provisioning or
\* disconnection" (README.md:272): a container whose start the watcher was
\* told of comes to be received in its room, and the room has the name its
\* label gives, unless it stops again, a request fails, the client is
\* disconnected or Connect is called again.
StartIsServed ==
  \A t \in Calls : \A n \in WithPassword :
    Told(t, n, {"start"}) ~>
      \/ Served(n)
      \/ n \notin running \/ faults > 0 \/ disconnects > 0
      \/ \E u \in Calls \ {t} : call[u].pc # "idle"

\* One whose end it was told of leaves the map, unless it starts again or the
\* watcher is cancelled.
StopIsSeen ==
  \A t \in Calls : \A n \in Containers :
    Told(t, n, {"die", "stop"}) ~>
      (servers[n] = 0 \/ n \in running \/ t \notin live)

\* Call t is the watcher and has handled all it was told, nobody else runs and
\* no request has failed.
Settled(t) ==
  /\ call[t].pc = "watch"
  /\ t \in subscribed /\ t \in live
  /\ events[t] = <<>>
  /\ \A u \in Calls \ {t} : call[u].pc \in {"idle", "done"}
  /\ faults = 0 /\ disconnects = 0

\* A display name that the registry has learned is the name of the room
\* (client.go:520-533, 623-625), also when the container was made anew under
\* the eyes of a discovery that keeps its server.  Two calls of Connect may
\* end with an older name: each reads the name before it writes the room.
RoomHasName ==
  \A t \in Calls : Settled(t) /\ (\A u \in Calls \ {t} : call[u].pc = "idle") =>
    \A n \in Containers : servers[n] # 0 => room[n] = srv[servers[n]].title

\* "Automatically connects/disconnects when containers start/stop"
\* (README.md:14): a watcher with nothing left to handle tracks exactly the
\* containers that run.
TracksRunning ==
  \A t \in Calls : Settled(t) =>
    \A n \in WithPassword : servers[n] # 0 <=> n \in running

\* "Cancel any previous Connect()'s background work before starting fresh"
\* (client.go:87): after Connect the servers in the map work.
ConnectStartsFresh ==
  \A t \in Calls : Settled(t) =>
    \A n \in Containers : servers[n] # 0 => Live(servers[n])

\* "Disconnect stops all per-server connections and the Docker event watcher"
\* (client.go:119): when Disconnect is over and the calls have ended, no
\* server is in the map and no RCON connection is open.
DisconnectStops ==
  /\ disconnects > 0 /\ disconnect = "ready"
  /\ \A t \in Calls : call[t].pc \in {"idle", "done"}
  => /\ \A n \in Containers : servers[n] = 0
     /\ \A o \in DOMAIN srv : srv[o].rcon = "closed"

=============================================================================
