---------------------------- MODULE RoomName_proofs ----------------------------
(***************************************************************************)
(* Proofs about MCClient, continued: the rooms are named as their labels   *)
(* say.  RoomHasName speaks of a call that has settled and was never       *)
(* joined by another; the invariant follows that call from its Connect on. *)
(***************************************************************************)
EXTENDS MCClient_proofs

\* Only call t has begun, no request has failed, nobody disconnected.
Alone(t) ==
  /\ faults = 0 /\ disconnects = 0
  /\ \A u \in Calls \ {t} : call[u].pc = "idle"

\* Call t is about to bring the room of its server up to date.
Naming(t) ==
  \/ call[t].pc \in {"refresh", "spawn", "portal", "create", "push"}
  \/ call[t].pc = "dial" /\ call[t].fresh

Starting == Holding \ {"teardown"}

\* What is so as long as call t is alone: the server in its hands is the map's,
\* what it read for the room is still true, and every other room of the map
\* has its name already.
CallNamed(t) ==
  /\ call[t].pc = "idle" => \A n \in Containers : servers[n] = 0
  /\ call[t].pc # "idle" => t \in live
  /\ call[t].pc \in Starting => servers[InHand(t)] = call[t].obj
  /\ call[t].pc \in {"create", "push"} => call[t].info = srv[call[t].obj].title
  /\ call[t].pc = "refresh" => room[InHand(t)] # NoRoom
  /\ \A n \in Containers : servers[n] # 0 =>
       \/ room[n] = srv[servers[n]].title
       \/ Naming(t) /\ call[t].obj = servers[n]

NameInv ==
  /\ disconnect = "clear" => disconnects > 0
  /\ \A t \in Calls : Alone(t) => CallNamed(t)

-----------------------------------------------------------------------------
(* Who can move while a call is alone.                                     *)

\* A step of a call leaves it begun, and only ConnectCancel begins one.
LEMMA StepBegun ==
  ASSUME TypeInv, NEW u \in Calls, ConnectCancel(u) \/ CallStep(u)
  PROVE  /\ call'[u].pc # "idle"
         /\ CallStep(u) => call[u].pc # "idle"
         /\ \A w \in Calls \ {u} : call'[w] = call[w]
<1>0. CallFacts(u)
  BY CallKnown
<1> USE DEF CallFacts
<1>1. CASE ConnectCancel(u) \/ ConnectStep(u)
  <2>1. \A w \in Calls \ {u} : call'[w] = call[w]
    BY <1>1, ConnectMoves, MovesType DEF ConnectStep
  <2>2. call'[u].pc # "idle" /\ (ConnectStep(u) => call[u].pc # "idle")
    BY <1>0, <1>1 DEF ConnectStep, ConnectCancel, ConnectCtx, ConnectCancelFunc,
      Step, CallRecord
  <2>3. ConnectCancel(u) => call[u].pc = "idle"
    BY DEF ConnectCancel, Step
  <2>4. DiscoverStep(u) \/ WatchStep(u) => call[u].pc # "idle"
    BY DEF DiscoverStep, WatchStep, List, ListFails, Inspect, Skip, StartNew,
      StartExisting, Refresh, RefreshFails, Check, Dial, DialFails, Dialled, Spawn,
      Portal, Create, PortalFails, Push, PushFails, Pushed, Remove, Sweep, Teardown,
      Stopped, Subscribe, SubscribeFails, Handle, Settle, StreamEnded,
      WatchCancelled, Backoff, Step
  <2> QED BY <2>1, <2>2, <2>3, <2>4 DEF CallStep
<1>2. CASE DiscoverStep(u)
  <2>1. ASSUME NEW c \in Listed, StartNew(u, c)
        PROVE  /\ call'[u].pc # "idle" /\ call[u].pc # "idle"
               /\ \A w \in Calls \ {u} : call'[w] = call[w]
    BY <2>1, StartNewServer DEF StartNew
  <2>2. CASE ~ \E c \in Listed : StartNew(u, c)
    <3>1. \A w \in Calls \ {u} : call'[w] = call[w]
      BY <1>2, <2>2, DiscoverMoves, ServeMoves, MovesType DEF DiscoverStep
    <3>2. call[u].pc # "idle"
      BY <1>2, <2>2 DEF DiscoverStep, List, ListFails, Inspect, Skip, StartExisting,
        Refresh, RefreshFails, Check, Dial, DialFails, Dialled, Spawn, Portal, Create,
        PortalFails, Push, PushFails, Pushed, Remove, Sweep, Teardown, Stopped, Step
    <3>3. CASE List(u) \/ ListFails(u) \/ Refresh(u) \/ RefreshFails(u) \/ Check(u)
      BY <1>0, <3>1, <3>2, <3>3 DEF List, ListFails, Refresh, RefreshFails, Check, End,
        Step, CallRecord
    <3>4. CASE \/ Dial(u) \/ DialFails(u) \/ Spawn(u) \/ Portal(u) \/ Create(u)
               \/ PortalFails(u) \/ Push(u) \/ PushFails(u)
      BY <1>0, <3>1, <3>2, <3>4 DEF Dial, DialFails, Dialled, Spawn, Portal, Create,
        PortalFails, Push, PushFails, Pushed, End, Step, CallRecord
    <3>5. CASE Sweep(u) \/ Teardown(u) \/ Stopped(u)
      BY <1>0, <3>1, <3>2, <3>5 DEF Sweep, Teardown, Stopped, CallRecord
    <3>7. ASSUME NEW n \in Containers, Remove(u, n) PROVE call'[u].pc # "idle"
      BY <1>0, <3>7 DEF Remove, CallRecord
    <3>6. ASSUME NEW c \in Listed, Inspect(u, c) \/ Skip(u, c) \/ StartExisting(u, c)
          PROVE  call'[u].pc # "idle"
      BY <1>0, <3>6 DEF Inspect, Skip, StartExisting, CallRecord
    <3> QED BY <1>2, <2>2, <3>1, <3>2, <3>3, <3>4, <3>5, <3>6, <3>7 DEF DiscoverStep
  <2> QED BY <2>1, <2>2
<1>3. CASE WatchStep(u)
  <2>1. \A w \in Calls \ {u} : call'[w] = call[w]
    BY <1>3, WatchMoves, MovesType
  <2>2. call'[u].pc # "idle" /\ call[u].pc # "idle"
    BY <1>0, <1>3 DEF WatchStep, Subscribe, SubscribeFails, Handle, Settle,
      StreamEnded, WatchCancelled, Backoff, Step, CallRecord
  <2> QED BY <2>1, <2>2
<1> QED BY <1>1, <1>2, <1>3 DEF CallStep

\* A call counts at most one fault in a step, and leaves Disconnect alone.
LEMMA CallCounts ==
  ASSUME NEW t \in Calls, ConnectCancel(t) \/ CallStep(t)
  PROVE  /\ faults' = faults \/ faults' = faults + 1
         /\ UNCHANGED <<disconnect, disconnects>>
<1>1. CASE ConnectCancel(t) \/ ConnectStep(t)
  BY <1>1 DEF ConnectStep, ConnectCancel, ConnectCtx, ConnectCancelFunc, discVars
<1>2. CASE WatchStep(t)
  BY <1>2 DEF WatchStep, Subscribe, SubscribeFails, Handle, Settle, StreamEnded,
    WatchCancelled, Backoff, Fault, discVars
<1>3. ASSUME NEW c \in Listed,
             Inspect(t, c) \/ Skip(t, c) \/ StartNew(t, c) \/ StartExisting(t, c)
      PROVE  /\ faults' = faults \/ faults' = faults + 1
             /\ UNCHANGED <<disconnect, disconnects>>
  BY <1>3 DEF Inspect, Skip, StartNew, StartExisting, Fault, discVars
<1>4. ASSUME NEW n \in Containers, Remove(t, n)
      PROVE  faults' = faults /\ UNCHANGED <<disconnect, disconnects>>
  BY <1>4 DEF Remove, discVars
<1>5. CASE \/ List(t) \/ ListFails(t) \/ Refresh(t) \/ RefreshFails(t) \/ Check(t)
           \/ Dial(t) \/ DialFails(t) \/ Spawn(t)
  BY <1>5 DEF List, ListFails, Refresh, RefreshFails, Check, Dial, DialFails, Spawn,
    Fault, discVars
<1>6. CASE \/ Portal(t) \/ Create(t) \/ PortalFails(t) \/ Push(t) \/ PushFails(t)
           \/ Sweep(t) \/ Teardown(t) \/ Stopped(t)
  BY <1>6 DEF Portal, Create, PortalFails, Push, PushFails, Sweep, Teardown, Stopped,
    Fault, discVars
<1> QED BY <1>1, <1>2, <1>3, <1>4, <1>5, <1>6 DEF CallStep, DiscoverStep

\* A call that is alone after a step of a call was so before, and made it.
LEMMA AloneBefore ==
  ASSUME TypeInv, NEW t \in Calls, Alone(t)',
         NEW u \in Calls, ConnectCancel(u) \/ CallStep(u)
  PROVE  Alone(t) /\ u = t
<1>1. call'[u].pc # "idle" /\ \A w \in Calls \ {u} : call'[w] = call[w]
  BY StepBegun
<1>2. u = t
  BY <1>1 DEF Alone
<1>3. faults = 0 /\ disconnects = 0
  <2>1. faults \in Nat /\ disconnects \in Nat
    BY ClientAssumption DEF TypeInv, TypeOK
  <2> QED BY <2>1, CallCounts DEF Alone
<1> QED BY <1>1, <1>2, <1>3 DEF Alone

-----------------------------------------------------------------------------
(* The steps of a call that is alone.                                      *)

\* A call with no room to name goes on without touching servers or rooms.
LEMMA QuietNamed ==
  ASSUME TypeInv, NEW t \in Calls, CallNamed(t), call[t].pc # "idle", ~Naming(t),
         UNCHANGED <<srv, servers, room, live>>,
         call'[t].pc \notin Starting \cup {"idle"}
  PROVE  CallNamed(t)'
BY DEF CallNamed, Starting, Holding

\* What call t has in hand stays in hand, and the names stay as they are.
SameHand(t) ==
  /\ call[t].pc \in Starting /\ call'[t].pc \in Starting
  /\ call'[t].obj = call[t].obj
  /\ Len(srv') = Len(srv)
  /\ \A o \in 1..Len(srv) : /\ srv'[o].name = srv[o].name
                            /\ srv'[o].title = srv[o].title
  /\ UNCHANGED <<servers, live>>

\* It goes on with the room still to be named, or there was none to name.
LEMMA HandNamed ==
  ASSUME TypeInv, NEW t \in Calls, CallNamed(t), SameHand(t), room' = room,
         call'[t].pc \in {"create", "push"} =>
           call'[t].info = srv[call[t].obj].title,
         call'[t].pc # "refresh",
         Naming(t) => Naming(t)'
  PROVE  CallNamed(t)'
<1>1. call[t].obj \in 1..Len(srv) /\ InHand(t) \in Containers
  BY HandServer DEF SameHand, Starting
<1>2. InHand(t)' = InHand(t)
  BY <1>1 DEF SameHand, InHand
<1>3. srv'[call'[t].obj].title = srv[call[t].obj].title
  BY <1>1 DEF SameHand
<1>4. call'[t].pc # "idle" /\ t \in live'
  BY DEF SameHand, CallNamed, Starting, Holding
<1>5. \A n \in Containers : servers'[n] # 0 =>
        \/ room'[n] = srv'[servers'[n]].title
        \/ Naming(t)' /\ call'[t].obj = servers'[n]
  BY NamedInMap DEF CallNamed, SameHand
<1>6. servers'[InHand(t)'] = call'[t].obj
  BY <1>2 DEF CallNamed, SameHand
<1>7. call'[t].pc \in {"create", "push"} => call'[t].info = srv'[call'[t].obj].title
  BY <1>3
<1> QED BY <1>4, <1>5, <1>6, <1>7 DEF CallNamed

\* The servers stay as they are.
LEMMA PlainHand ==
  ASSUME TypeInv, NEW t \in Calls, call[t].pc \in Starting, call'[t].pc \in Starting,
         call'[t].obj = call[t].obj, UNCHANGED <<srv, servers, live>>
  PROVE  SameHand(t)
BY DEF SameHand

\* The server in hand changes, but neither its name nor its title.
LEMMA SetHand ==
  ASSUME TypeInv, NEW t \in Calls, call[t].pc \in Starting, call'[t].pc \in Starting,
         call'[t].obj = call[t].obj, UNCHANGED <<servers, live>>,
         NEW s \in Server, s.name = srv[call[t].obj].name,
         s.title = srv[call[t].obj].title, srv' = [srv EXCEPT ![call[t].obj] = s]
  PROVE  SameHand(t)
<1>1. call[t].obj \in 1..Len(srv) /\ srv \in Seq(Server)
  BY HandServer, LenType DEF TypeInv, Starting
<1>2. /\ Len(srv') = Len(srv)
      /\ \A p \in 1..Len(srv) : srv'[p] = IF p = call[t].obj THEN s ELSE srv[p]
  BY <1>1, ExceptSeq
<1> QED BY <1>1, <1>2 DEF SameHand

\* Connect begins: no server is in the map, and its context works.
LEMMA ConnectCancelNamed ==
  ASSUME TypeInv, NEW t \in Calls, CallNamed(t), ConnectCancel(t)
  PROVE  CallNamed(t)'
<1>0. CallFacts(t)
  BY CallKnown
<1>1. call'[t].pc = "publish" /\ call[t].pc = "idle"
  BY <1>0 DEF ConnectCancel, Step, CallFacts, CallRecord
<1>2. t \in live' /\ UNCHANGED <<srv, servers, room>>
  BY DEF ConnectCancel, mapVars
<1> QED BY <1>1, <1>2 DEF CallNamed, Starting, Holding

\* The steps between two containers, and those of the watcher.
LEMMA PauseNamed ==
  ASSUME TypeInv, NEW t \in Calls, CallNamed(t),
         \/ ConnectStep(t) \/ WatchStep(t) \/ List(t) \/ ListFails(t)
         \/ \E c \in Listed : Inspect(t, c) \/ Skip(t, c)
         \/ Sweep(t) \/ Stopped(t)
  PROVE  CallNamed(t)'
<1>0. CallFacts(t)
  BY CallKnown
<1>1. UNCHANGED <<srv, servers, room, live>>
  BY DEF ConnectStep, ConnectCtx, ConnectCancelFunc, WatchStep, Subscribe,
    SubscribeFails, Handle, Settle, StreamEnded, WatchCancelled, Backoff, List,
    ListFails, Inspect, Skip, Sweep, Stopped, mapVars, ctxVars
<1>2. call[t].pc # "idle" /\ ~Naming(t)
  BY DEF ConnectStep, ConnectCtx, ConnectCancelFunc, WatchStep, Subscribe,
    SubscribeFails, Handle, Settle, StreamEnded, WatchCancelled, Backoff, List,
    ListFails, Inspect, Skip, Sweep, Stopped, Step, Naming
<1>3. call'[t].pc \notin Starting \cup {"idle"}
  <2>1. CASE ConnectStep(t) \/ WatchStep(t)
    BY <1>0, <2>1 DEF ConnectStep, ConnectCtx, ConnectCancelFunc, WatchStep,
      Subscribe, SubscribeFails, Handle, Settle, StreamEnded, WatchCancelled, Backoff,
      Step, CallFacts, CallRecord, Starting, Holding
  <2>2. CASE List(t) \/ Sweep(t) \/ Stopped(t)
    <3>1. call'[t].pc \in {"each", "stopping", "watch", "subscribe"}
      BY <1>0, <2>2 DEF List, Sweep, Stopped, CallFacts, CallRecord
    <3> QED BY <3>1 DEF Starting, Holding
  <2>3. ASSUME NEW c \in Listed, Inspect(t, c) \/ Skip(t, c)
        PROVE  call'[t].pc \notin Starting \cup {"idle"}
    <3>1. CASE Inspect(t, c)
      <4>1. call'[t].pc = "start"
        BY <1>0, <3>1 DEF Inspect, CallFacts, CallRecord
      <4> QED BY <4>1 DEF Starting, Holding
    <3>2. CASE Skip(t, c)
      <4>1. call'[t].pc = call[t].pc /\ call[t].pc = "each"
        BY <1>0, <3>2 DEF Skip, CallFacts, CallRecord
      <4> QED BY <4>1 DEF Starting, Holding
    <3> QED BY <2>3, <3>1, <3>2
  <2>4. CASE ListFails(t)
    <3>1. call'[t].pc \in {"watch", "done"}
      BY <1>0, <2>4 DEF ListFails, Step, CallFacts, CallRecord
    <3> QED BY <3>1 DEF Starting, Holding
  <2> QED BY <2>1, <2>2, <2>3, <2>4
<1> QED BY <1>1, <1>2, <1>3, QuietNamed

\* A new server comes into the map; its room is named when the call has
\* dialled.
LEMMA StartNewNamed ==
  ASSUME TypeInv, NEW t \in Calls, CallNamed(t), NEW c \in Listed, StartNew(t, c)
  PROVE  CallNamed(t)'
<1>0. CallFacts(t)
  BY CallKnown
<1>1. /\ Len(srv) \in Nat /\ Len(srv') = Len(srv) + 1
      /\ \A o \in 1..Len(srv) : srv'[o] = srv[o]
      /\ srv'[Len(srv')].name = c.name
      /\ servers' = [servers EXCEPT ![c.name] = Len(srv')]
      /\ call'[t].pc = "dial" /\ call'[t].obj = Len(srv')
  BY StartNewServer
<1>2. call'[t].fresh
  BY <1>0 DEF StartNew, CallFacts, CallRecord
<1>3. call[t].pc = "start" /\ UNCHANGED <<room, live>>
  BY DEF StartNew, ctxVars
<1>4. c.name \in Containers /\ servers \in [Containers -> 0..Len(srv)]
  BY <1>0 DEF Listed, CallFacts
<1>5. InHand(t)' = c.name /\ servers'[c.name] = Len(srv')
  BY <1>1, <1>4 DEF InHand
<1>6. \A n \in Containers : servers'[n] # 0 =>
        \/ room'[n] = srv'[servers'[n]].title
        \/ call'[t].obj = servers'[n]
  <2> SUFFICES ASSUME NEW n \in Containers, servers'[n] # 0, n # c.name
               PROVE  room'[n] = srv'[servers'[n]].title
    BY <1>1, <1>5
  <2>1. servers'[n] = servers[n] /\ servers[n] \in 1..Len(srv)
    BY <1>1, <1>4
  <2>2. room[n] = srv[servers[n]].title
    BY <1>3, <2>1 DEF CallNamed, Naming
  <2> QED BY <1>1, <1>3, <2>1, <2>2
<1> QED BY <1>1, <1>2, <1>3, <1>5, <1>6 DEF CallNamed, Naming

\* A server gets the title of today; the room has the one of before.
LEMMA StartExistingNamed ==
  ASSUME TypeInv, NEW t \in Calls, CallNamed(t), NEW c \in Listed,
         StartExisting(t, c)
  PROVE  CallNamed(t)'
<1> DEFINE o == servers[c.name]
           s == [srv[o] EXCEPT !.title = c.title]
<1>0. CallFacts(t)
  BY CallKnown
<1>1. c.name \in Containers /\ c.title \in DisplayNames
  BY DEF Listed
<1>2. o \in 1..Len(srv) /\ srv[o].name = c.name
  BY <1>1, NamedInMap DEF StartExisting
<1>3. srv \in Seq(Server) /\ srv[o] \in Server
  BY <1>2, LenType DEF TypeInv
<1>4. s \in Server /\ s.name = c.name /\ s.title = c.title
  BY <1>1, <1>2, <1>3 DEF Server
<1>5. srv' = [srv EXCEPT ![o] = s]
  BY <1>3 DEF StartExisting
<1>6. /\ Len(srv') = Len(srv)
      /\ \A p \in 1..Len(srv) : srv'[p] = IF p = o THEN s ELSE srv[p]
  BY <1>2, <1>3, <1>4, <1>5, ExceptSeq
<1>7. /\ call[t].pc = "start"
      /\ call'[t].pc = IF srv[o].title = c.title THEN "check" ELSE "refresh"
      /\ call'[t].obj = o
      /\ UNCHANGED <<servers, room, live>>
  BY <1>0 DEF StartExisting, ctxVars, CallFacts, CallRecord
<1>8. InHand(t)' = c.name
  BY <1>2, <1>4, <1>6, <1>7 DEF InHand
<1>9. room[c.name] = srv[o].title
  BY <1>1, <1>2, <1>7, LenType DEF CallNamed, Naming, TypeInv
<1>10. room[c.name] # NoRoom
  BY <1>3, <1>9, ClientAssumption DEF Server
<1>11. \A n \in Containers : servers'[n] # 0 =>
         \/ room'[n] = srv'[servers'[n]].title
         \/ Naming(t)' /\ call'[t].obj = servers'[n]
  <2> SUFFICES ASSUME NEW n \in Containers, servers[n] # 0
               PROVE  \/ room[n] = srv'[servers[n]].title
                      \/ Naming(t)' /\ o = servers[n]
    BY <1>7
  <2>1. servers[n] \in 1..Len(srv) /\ srv[servers[n]].name = n
    BY NamedInMap
  <2>2. CASE n # c.name
    <3>1. servers[n] # o
      BY <1>2, <2>1, <2>2
    <3>2. room[n] = srv[servers[n]].title
      BY <1>7 DEF CallNamed, Naming
    <3> QED BY <1>6, <2>1, <3>1, <3>2
  <2>3. CASE n = c.name
    <3>1. srv'[o].title = c.title
      BY <1>2, <1>4, <1>6
    <3> QED BY <1>7, <1>9, <2>3, <3>1 DEF Naming
  <2> QED BY <2>2, <2>3
<1>12. call'[t].pc # "idle" /\ t \in live'
  BY <1>7 DEF CallNamed
<1>13. call'[t].pc \notin {"create", "push"}
  BY <1>7
<1> QED BY <1>7, <1>8, <1>10, <1>11, <1>12, <1>13 DEF CallNamed

\* With a server in hand, up to the reading of its title.
LEMMA ServeNamed ==
  ASSUME TypeInv, NEW t \in Calls, CallNamed(t),
         Refresh(t) \/ Check(t) \/ Dial(t) \/ DialFails(t) \/ Spawn(t) \/ Portal(t)
  PROVE  CallNamed(t)'
<1> DEFINE o == call[t].obj
<1>0. CallFacts(t)
  BY CallKnown
<1>1. call[t].pc \in Starting
  BY DEF Refresh, Check, Dial, DialFails, Dialled, Spawn, Portal, Step, Starting,
    Holding
<1>2. /\ o \in 1..Len(srv) /\ srv[o] \in Server /\ InHand(t) \in Containers
      /\ srv \in Seq(Server) /\ Len(srv) \in Nat
  BY <1>1, HandServer, LenType DEF Starting, TypeInv
<1>3. servers[InHand(t)] = o /\ ChatInfo(InHand(t)) = srv[o].title
  BY <1>1, <1>2 DEF CallNamed, ChatInfo
<1>4. UNCHANGED <<servers, room, live>>
  BY DEF Refresh, Check, Dial, DialFails, Spawn, Portal, mapVars, ctxVars
<1>5. CASE Refresh(t)
  <2>1. /\ call'[t].pc = "push" /\ call'[t].obj = o
        /\ call'[t].info = srv[o].title /\ srv' = srv
    BY <1>0, <1>3, <1>5 DEF Refresh, CallNamed, mapVars, CallFacts, CallRecord
  <2>2. SameHand(t)
    BY <1>1, <1>4, <2>1, PlainHand DEF Starting, Holding
  <2>3. Naming(t)'
    BY <2>1 DEF Naming
  <2> QED BY <1>4, <2>1, <2>2, <2>3, HandNamed
<1>6. CASE Check(t)
  <2>1. srv' = srv /\ call[t].pc = "check" /\ ~Naming(t)
    BY <1>6 DEF Check, mapVars, Naming
  <2>2. CASE srv[o].rcon = "open"
    <3>1. call'[t].pc = "each"
      BY <1>0, <1>6, <2>2 DEF Check, End, CallFacts, CallRecord
    <3> QED BY <1>4, <2>1, <3>1, QuietNamed DEF Starting, Holding
  <2>3. CASE srv[o].rcon # "open"
    <3>1. call'[t].pc = "dial" /\ call'[t].obj = o
      BY <1>0, <1>6, <2>3 DEF Check, CallFacts, CallRecord
    <3>2. SameHand(t)
      BY <1>1, <1>4, <2>1, <3>1, PlainHand DEF Starting, Holding
    <3> QED BY <1>4, <2>1, <3>1, <3>2, HandNamed
  <2> QED BY <2>2, <2>3
<1>7. CASE Dial(t) \/ DialFails(t)
  <2>0. call[t].pc = "dial" /\ call[t].fresh \in BOOLEAN
    BY <1>0, <1>7 DEF Dial, DialFails, Dialled, CallFacts, CallRecord
  <2>1. /\ Len(srv') = Len(srv)
        /\ \A p \in 1..Len(srv) : /\ srv'[p].name = srv[p].name
                                  /\ srv'[p].title = srv[p].title
    <3>1. CASE Dial(t)
      <4> DEFINE s == [srv[o] EXCEPT !.rcon = "open"]
      <4>1. s \in Server /\ s.name = srv[o].name /\ s.title = srv[o].title
        BY <1>2 DEF Server
      <4>2. srv' = [srv EXCEPT ![o] = s]
        BY <1>2, <3>1 DEF Dial
      <4> HIDE DEF s
      <4>3. /\ Len(srv') = Len(srv)
            /\ \A p \in 1..Len(srv) : srv'[p] = IF p = o THEN s ELSE srv[p]
        BY <1>2, <4>1, <4>2, ExceptSeq
      <4> QED BY <4>1, <4>3
    <3>2. CASE DialFails(t)
      BY <3>2 DEF DialFails, mapVars
    <3> QED BY <1>7, <3>1, <3>2
  <2>2. CASE call[t].fresh
    <3>1. call'[t].pc = "spawn" /\ call'[t].obj = o
      BY <1>0, <1>7, <2>2 DEF Dial, DialFails, Dialled, CallFacts, CallRecord
    <3>2. SameHand(t)
      BY <1>1, <1>4, <2>1, <3>1 DEF SameHand, Starting, Holding
    <3>3. Naming(t)'
      BY <3>1 DEF Naming
    <3> QED BY <1>4, <3>1, <3>2, <3>3, HandNamed
  <2>3. CASE ~call[t].fresh
    <3>1. call'[t].pc = "each"
      BY <1>0, <1>7, <2>3 DEF Dial, DialFails, Dialled, End, CallFacts, CallRecord
    <3>2. ~Naming(t)
      BY <2>0, <2>3 DEF Naming
    <3>3. t \in live'
      BY <1>4, <2>0 DEF CallNamed
    <3>4. \A n \in Containers : servers'[n] # 0 => room'[n] = srv'[servers'[n]].title
      BY <1>4, <2>1, <3>2, NamedInMap DEF CallNamed
    <3> QED BY <3>1, <3>3, <3>4 DEF CallNamed, Starting, Holding
  <2> QED BY <2>2, <2>3
<1>8. CASE Spawn(t)
  <2> DEFINE s == [srv[o] EXCEPT !.started = TRUE]
  <2>1. s \in Server /\ s.name = srv[o].name /\ s.title = srv[o].title
    BY <1>2 DEF Server
  <2>2. srv' = [srv EXCEPT ![o] = s]
    BY <1>2, <1>8 DEF Spawn
  <2>3. call'[t].pc = "portal" /\ call'[t].obj = o
    BY <1>0, <1>8 DEF Spawn, Step, CallFacts, CallRecord
  <2>4. SameHand(t)
    <3> HIDE DEF s
    <3> QED BY <1>1, <1>4, <2>1, <2>2, <2>3, SetHand DEF Starting, Holding
  <2>5. Naming(t)'
    BY <2>3 DEF Naming
  <2> QED BY <1>4, <2>3, <2>4, <2>5, HandNamed
<1>9. CASE Portal(t)
  <2>1. /\ call'[t].pc = "create" /\ call'[t].obj = o
        /\ call'[t].info = srv[o].title /\ srv' = srv
    BY <1>0, <1>3, <1>9 DEF Portal, mapVars, CallFacts, CallRecord
  <2>2. SameHand(t)
    BY <1>1, <1>4, <2>1, PlainHand DEF Starting, Holding
  <2>3. Naming(t)'
    BY <2>1 DEF Naming
  <2> QED BY <1>4, <2>1, <2>2, <2>3, HandNamed
<1> QED BY <1>5, <1>6, <1>7, <1>8, <1>9

\* The room is made, then named.
LEMMA CreateNamed ==
  ASSUME TypeInv, NEW t \in Calls, CallNamed(t), Create(t)
  PROVE  CallNamed(t)'
<1> DEFINE o == call[t].obj
<1>0. CallFacts(t)
  BY CallKnown
<1>1. /\ call[t].pc = "create" /\ call'[t].pc = "push" /\ call'[t].obj = o
      /\ call'[t].info = call[t].info
      /\ UNCHANGED <<srv, servers, live>>
  BY <1>0 DEF Create, Step, ctxVars, CallFacts, CallRecord
<1>2. o \in 1..Len(srv) /\ InHand(t) \in Containers /\ servers[InHand(t)] = o
  BY <1>1, HandServer DEF CallNamed, Starting, Holding
<1>3. InHand(t)' = InHand(t)
  BY <1>1 DEF InHand
<1>4. room' = [room EXCEPT ![InHand(t)] = room'[InHand(t)]]
      /\ room \in [Containers -> RoomNames]
  BY <1>2 DEF Create, TypeInv, TypeOK, RoomNames
<1>5. \A n \in Containers : servers'[n] # 0 =>
        room'[n] = srv'[servers'[n]].title \/ o = servers'[n]
  <2> SUFFICES ASSUME NEW n \in Containers, servers[n] # 0, n # InHand(t)
               PROVE  room'[n] = srv[servers[n]].title \/ o = servers[n]
    BY <1>1, <1>2
  <2> QED BY <1>4 DEF CallNamed
<1> QED BY <1>1, <1>2, <1>3, <1>5 DEF CallNamed, Naming, Starting, Holding

LEMMA PushNamed ==
  ASSUME TypeInv, NEW t \in Calls, CallNamed(t), Push(t)
  PROVE  CallNamed(t)'
<1> DEFINE o == call[t].obj
<1>0. CallFacts(t)
  BY CallKnown
<1>1. call[t].pc = "push" /\ UNCHANGED <<srv, servers, live>>
  BY DEF Push, Pushed, ctxVars
<1>2. /\ o \in 1..Len(srv) /\ InHand(t) \in Containers /\ servers[InHand(t)] = o
      /\ call[t].info = srv[o].title
  BY <1>1, HandServer DEF CallNamed, Starting, Holding
<1>3. room' = [room EXCEPT ![InHand(t)] = srv[o].title]
      /\ room \in [Containers -> RoomNames]
  BY <1>2 DEF Push, TypeInv, TypeOK, RoomNames
<1>4. \A n \in Containers : servers'[n] # 0 => room'[n] = srv'[servers'[n]].title
  <2> SUFFICES ASSUME NEW n \in Containers, servers[n] # 0
               PROVE  room'[n] = srv[servers[n]].title
    BY <1>1
  <2>1. servers[n] = o => n = InHand(t)
    BY NamedInMap DEF InHand
  <2> QED BY <1>2, <1>3, <2>1 DEF CallNamed
<1>5. \/ call'[t].pc = "each"
      \/ call'[t].pc = "check" /\ call'[t].obj = o
  BY <1>0 DEF Push, Pushed, End, CallFacts, CallRecord
<1>6. InHand(t)' = InHand(t) \/ call'[t].pc = "each"
  BY <1>1, <1>5 DEF InHand
<1>7. t \in live'
  BY <1>1 DEF CallNamed
<1> QED BY <1>1, <1>2, <1>4, <1>5, <1>6, <1>7 DEF CallNamed, Starting, Holding

\* A server leaves the map.
LEMMA RemoveNamed ==
  ASSUME TypeInv, NEW t \in Calls, CallNamed(t), NEW n \in Containers, Remove(t, n)
  PROVE  CallNamed(t)'
<1>0. CallFacts(t)
  BY CallKnown
<1>1. call[t].pc = "stopping" /\ call'[t].pc \in {"stopping", "teardown"}
  BY <1>0 DEF Remove, CallFacts, CallRecord
<1>2. servers' = [servers EXCEPT ![n] = 0] /\ UNCHANGED <<srv, room, live>>
  BY DEF Remove, ctxVars
<1>3. \A m \in Containers : servers'[m] # 0 => servers'[m] = servers[m]
  BY <1>0, <1>2 DEF CallFacts
<1> QED BY <1>1, <1>2, <1>3 DEF CallNamed, Naming, Starting, Holding

LEMMA TeardownNamed ==
  ASSUME TypeInv, NEW t \in Calls, CallNamed(t), Teardown(t)
  PROVE  CallNamed(t)'
<1> DEFINE o == call[t].obj
           s == [srv[o] EXCEPT !.cancelled = TRUE, !.rcon = "closed"]
<1>0. CallFacts(t)
  BY CallKnown
<1>1. /\ call[t].pc = "teardown" /\ call'[t].pc = "stopping"
      /\ UNCHANGED <<servers, room, live>>
  BY <1>0 DEF Teardown, ctxVars, CallFacts, CallRecord
<1>2. o \in 1..Len(srv) /\ srv[o] \in Server /\ srv \in Seq(Server)
  BY <1>1, HandServer, LenType DEF TypeInv, Holding
<1>3. s \in Server /\ s.title = srv[o].title
  BY <1>2 DEF Server
<1>4. srv' = [srv EXCEPT ![o] = s]
  BY <1>2 DEF Teardown, Server
<1> HIDE DEF s
<1>5. \A p \in 1..Len(srv) : srv'[p].title = srv[p].title
  BY <1>2, <1>3, <1>4, ExceptSeq
<1>6. \A n \in Containers : servers'[n] # 0 => room'[n] = srv'[servers'[n]].title
  BY <1>1, <1>5, NamedInMap DEF CallNamed, Naming
<1> QED BY <1>1, <1>6 DEF CallNamed, Starting, Holding

-----------------------------------------------------------------------------
(* Every step.                                                             *)

\* A request of a call that is alone does not fail.
LEMMA NoFault ==
  ASSUME TypeInv, NEW t \in Calls, Alone(t), Alone(t)', CallNamed(t),
         call[t].pc # "idle"
  PROVE  ~Fault(t)
BY DEF Fault, Alone, CallNamed

LEMMA CallStepNamed ==
  ASSUME TypeInv, NEW t \in Calls, Alone(t), Alone(t)', CallNamed(t),
         ConnectCancel(t) \/ CallStep(t)
  PROVE  CallNamed(t)'
<1>1. CASE ConnectCancel(t)
  BY <1>1, ConnectCancelNamed
<1>2. CASE ConnectStep(t) \/ WatchStep(t)
  BY <1>2, PauseNamed
<1>3. CASE DiscoverStep(t)
  <2>1. call[t].pc # "idle"
    BY <1>3, StepBegun DEF CallStep
  <2>2. ~RefreshFails(t) /\ ~PortalFails(t) /\ ~PushFails(t)
    BY <2>1, NoFault DEF RefreshFails, PortalFails, PushFails
  <2>3. ASSUME NEW c \in Listed,
               Inspect(t, c) \/ Skip(t, c) \/ StartNew(t, c) \/ StartExisting(t, c)
        PROVE  CallNamed(t)'
    BY <2>3, PauseNamed, StartNewNamed, StartExistingNamed
  <2>4. CASE \/ Refresh(t) \/ Check(t) \/ Dial(t) \/ DialFails(t) \/ Spawn(t)
             \/ Portal(t) \/ Create(t) \/ Push(t)
    BY <2>4, ServeNamed, CreateNamed, PushNamed
  <2>5. CASE \/ List(t) \/ ListFails(t) \/ Sweep(t) \/ Stopped(t) \/ Teardown(t)
             \/ \E n \in Containers : Remove(t, n)
    BY <2>5, PauseNamed, TeardownNamed, RemoveNamed
  <2> QED BY <1>3, <2>2, <2>3, <2>4, <2>5 DEF DiscoverStep
<1> QED BY <1>1, <1>2, <1>3 DEF CallStep

\* Containers start and stop, and Disconnect is called, without naming rooms.
LEMMA OthersNamed ==
  ASSUME TypeInv, NameInv, NEW t \in Calls, Alone(t)',
         DockerNext \/ DisconnectCancel \/ DisconnectClear
  PROVE  CallNamed(t)'
<1>0. faults \in Nat /\ disconnects \in Nat
  BY ClientAssumption DEF TypeInv, TypeOK
<1>1. CASE DockerNext
  <2>1. ~(\E u \in Calls : StreamBreaks(u)) /\ ~(\E o \in DOMAIN srv : RconDrops(o))
    BY <1>0 DEF StreamBreaks, RconDrops, Alone
  <2>2. UNCHANGED <<faults, disconnects, call, srv, servers, room, live>>
    BY <1>1, <2>1 DEF DockerNext, ContainerStarts, ContainerStops, mapVars, ctxVars,
      discVars
  <2>3. Alone(t) /\ CallNamed(t)
    BY <2>2 DEF Alone, NameInv
  <2> QED BY <2>2, <2>3 DEF CallNamed, Naming, InHand
<1>2. CASE DisconnectCancel
  BY <1>0, <1>2 DEF DisconnectCancel, Alone
<1>3. CASE DisconnectClear
  <2>1. disconnect = "clear" /\ disconnects' = disconnects
    BY <1>3 DEF DisconnectClear
  <2>2. disconnects > 0 /\ disconnects' = 0
    BY <2>1 DEF Alone, NameInv
  <2> QED BY <1>0, <2>1, <2>2
<1> QED BY <1>1, <1>2, <1>3

LEMMA NextNamed == TypeInv /\ NameInv /\ [Next]_vars => NameInv'
<1> SUFFICES ASSUME TypeInv, NameInv, [Next]_vars PROVE NameInv'
  OBVIOUS
<1>1. disconnect' = "clear" => disconnects' > 0
  <2>1. CASE DisconnectCancel
    <3>1. disconnects \in Nat
      BY ClientAssumption DEF TypeInv, TypeOK
    <3>2. disconnects' = disconnects + 1
      BY <2>1 DEF DisconnectCancel
    <3> QED BY <3>1, <3>2
  <2>2. CASE DisconnectClear
    BY <2>2 DEF DisconnectClear
  <2>3. CASE UNCHANGED <<disconnect, disconnects>>
    BY <2>3 DEF NameInv
  <2>4. DockerNext => UNCHANGED <<disconnect, disconnects>>
    BY DEF DockerNext, ContainerStarts, ContainerStops, StreamBreaks, RconDrops,
      discVars
  <2>5. UNCHANGED vars => UNCHANGED <<disconnect, disconnects>>
    BY DEF vars, discVars
  <2> QED BY <2>1, <2>2, <2>3, <2>4, <2>5, CallCounts DEF Next
<1>2. ASSUME NEW t \in Calls, Alone(t)' PROVE CallNamed(t)'
  <2>1. ASSUME NEW u \in Calls, ConnectCancel(u) \/ CallStep(u)
        PROVE  CallNamed(t)'
    <3>1. Alone(t) /\ u = t
      BY <1>2, <2>1, AloneBefore
    <3> QED BY <1>2, <2>1, <3>1, CallStepNamed DEF NameInv
  <2>2. CASE DockerNext \/ DisconnectCancel \/ DisconnectClear
    BY <1>2, <2>2, OthersNamed
  <2>3. CASE UNCHANGED vars
    <3>1. UNCHANGED <<faults, disconnects, call, srv, servers, room, live>>
      BY <2>3 DEF vars, mapVars, ctxVars, discVars
    <3>2. Alone(t) /\ CallNamed(t)
      BY <1>2, <3>1 DEF Alone, NameInv
    <3> QED BY <3>1, <3>2 DEF CallNamed, Naming, InHand
  <2> QED BY <2>1, <2>2, <2>3 DEF Next
<1> QED BY <1>1, <1>2 DEF NameInv

-----------------------------------------------------------------------------
(* The theorem.                                                            *)

\* Whatever containers start and stop under the eyes of one call of Connect and
\* its watcher, and under however many labels they come back: once it has
\* settled, the room of every server in the map has the name the registry
\* learned last (client.go:520-533, 623-625).
THEOREM RoomsAreNamed == Spec => []RoomHasName
<1>1. Init => NameInv
  BY DEF Init, NameInv, Alone, CallNamed, Starting, Holding
<1>2. TypeInv /\ NameInv => RoomHasName
  <2> SUFFICES ASSUME TypeInv, NameInv, NEW t \in Calls, Settled(t),
                      \A u \in Calls \ {t} : call[u].pc = "idle",
                      NEW n \in Containers, servers[n] # 0
               PROVE  room[n] = srv[servers[n]].title
    BY DEF RoomHasName
  <2>1. CallNamed(t) /\ ~Naming(t)
    BY DEF Settled, Alone, NameInv, Naming
  <2> QED BY <2>1 DEF CallNamed
<1> QED BY <1>1, <1>2, TypeInvariant, NextNamed, PTL DEF Spec

=============================================================================
