--------------------------- MODULE MCClient_proofs ---------------------------
(***************************************************************************)
(* Proofs about MCClient, for every set of containers and every number of  *)
(* calls of Connect and Disconnect, of changes and of faults.              *)
(***************************************************************************)
EXTENDS MCClient, SequenceTheorems, TLAPS

Server == [name : Containers, title : DisplayNames, ctx : Calls,
           cancelled : BOOLEAN, started : BOOLEAN, rcon : {"open", "closed"}]

Event == [action : {"start", "die", "stop"}, name : Containers]

Connecting == {"idle", "publish"}

Holding == {"refresh", "check", "dial", "spawn", "portal", "create", "push",
            "teardown"}

RoomNames == DisplayNames \cup {NoRoom}

-----------------------------------------------------------------------------
(* The inductive invariant.                                                *)

\* A call that may make servers finds a context in c.ctx.
CtxInv == \A t \in Calls : call[t].pc \notin Connecting => ctx # 0

TypeInv == TypeOK /\ CtxInv

\* Every server is cancelled, or in the map, or in the hands of a stopServer
\* that will cancel it.
AccountedFor ==
  \A o \in 1..Len(srv) :
    \/ srv[o].cancelled
    \/ servers[srv[o].name] = o
    \/ \E t \in Calls : call[t].pc = "teardown" /\ call[t].obj = o

-----------------------------------------------------------------------------
(* Type correctness.                                                       *)

LEMMA LenType ==
  ASSUME TypeOK
  PROVE  /\ srv \in Seq(Server) /\ Len(srv) \in Nat
         /\ srv \in [1..Len(srv) -> Server] /\ DOMAIN srv = 1..Len(srv)
BY LenProperties DEF TypeOK, Server

LEMMA InitType == Init => TypeInv
<1> SUFFICES ASSUME Init PROVE TypeInv
  OBVIOUS
<1>1. /\ <<>> \in Seq([action : {"start", "die", "stop"}, name : Containers])
      /\ <<>> \in Seq([name : Containers, title : DisplayNames, ctx : Calls,
                       cancelled : BOOLEAN, started : BOOLEAN,
                       rcon : {"open", "closed"}])
      /\ Len(<<>>) = 0
  BY EmptySeq
<1>2. call \in [Calls -> CallRecord] /\ \A t \in Calls : call[t].pc = "idle"
  BY <1>1 DEF Init, CallRecord
<1>3. running \subseteq Containers
      /\ title \in [Containers -> DisplayNames]
      /\ room \in [Containers -> DisplayNames \cup {NoRoom}]
  BY DEF Init, DisplayNames
<1>4. /\ events \in [Calls -> Seq([action : {"start", "die", "stop"},
                                  name : Containers])]
      /\ srv = <<>>
      /\ servers \in [Containers -> {0}]
      /\ subscribed = {} /\ live = {} /\ disconnect = "ready"
      /\ changes \in 0..MaxChanges /\ faults \in 0..MaxFaults
      /\ ctx \in 0..MaxConnects /\ cancel \in 0..MaxConnects
      /\ disconnects \in 0..MaxDisconnects
  BY <1>1, ClientAssumption DEF Init
<1>5. /\ servers \in [Containers -> 0..Len(srv)]
      /\ \A n \in Containers : servers[n] = 0
      /\ srv \in Seq([name : Containers, title : DisplayNames, ctx : Calls,
                      cancelled : BOOLEAN, started : BOOLEAN,
                      rcon : {"open", "closed"}])
  BY <1>1, <1>4
<1>6. TypeOK
  BY <1>2, <1>3, <1>4, <1>5 DEF TypeOK
<1>7. CtxInv
  BY <1>2 DEF CtxInv, Connecting
<1> QED BY <1>6, <1>7 DEF TypeInv

LEMMA FaultType ==
  ASSUME TypeOK, NEW t \in Calls, Fault(t)
  PROVE  faults' \in 0..MaxFaults
BY ClientAssumption DEF Fault, TypeOK

\* What a step of call t may do to the calls.
Moves(t) ==
  /\ call' = [call EXCEPT ![t] = call'[t]]
  /\ call'[t] \in CallRecord
  /\ call'[t].pc \in Holding => call'[t].obj # 0

CallFacts(t) ==
  /\ call \in [Calls -> CallRecord]
  /\ call[t] \in CallRecord
  /\ call[t].pc \in Holding => /\ call[t].obj # 0
                              /\ InHand(t) \in Containers
                              /\ ChatInfo(InHand(t)) \in RoomNames
  /\ running \in SUBSET Containers
  /\ title \in [Containers -> DisplayNames]
  /\ servers \in [Containers -> 0..Len(srv)]
  /\ 0 \in 0..Len(srv)

LEMMA HandServer ==
  ASSUME TypeInv, NEW t \in Calls, call[t].pc \in Holding
  PROVE  /\ call[t].obj \in 1..Len(srv) /\ srv[call[t].obj] \in Server
         /\ InHand(t) \in Containers
<1>1. call[t].obj \in 0..Len(srv) /\ call[t].obj # 0
  BY DEF TypeInv, TypeOK, CallRecord, Holding
<1>2. call[t].obj \in 1..Len(srv)
  BY <1>1, LenType DEF TypeInv
<1>3. srv[call[t].obj] \in Server
  BY <1>2, LenType DEF TypeInv
<1> QED BY <1>2, <1>3 DEF InHand, Server

LEMMA ChatInfoType ==
  ASSUME TypeInv, NEW n \in Containers
  PROVE  ChatInfo(n) \in RoomNames
<1>1. CASE servers[n] = 0
  BY <1>1 DEF ChatInfo, RoomNames, DisplayNames
<1>2. CASE servers[n] # 0
  <2>1. servers[n] \in 0..Len(srv)
    BY DEF TypeInv, TypeOK
  <2>2. srv[servers[n]] \in Server
    BY <1>2, <2>1, LenType DEF TypeInv
  <2> QED BY <1>2, <2>2 DEF ChatInfo, Server, RoomNames
<1> QED BY <1>1, <1>2

LEMMA CallKnown ==
  ASSUME TypeInv, NEW t \in Calls
  PROVE  CallFacts(t)
<1>1. call[t].pc \in Holding => /\ call[t].obj # 0
                               /\ InHand(t) \in Containers
                               /\ ChatInfo(InHand(t)) \in RoomNames
  BY HandServer, ChatInfoType, LenType DEF TypeInv
<1> QED BY <1>1, LenType DEF TypeInv, TypeOK, CallFacts

LEMMA MovesType ==
  ASSUME TypeInv, NEW t \in Calls, Moves(t)
  PROVE  /\ call' \in [Calls -> CallRecord]
         /\ \A u \in Calls \ {t} : call'[u] = call[u]
         /\ \A u \in Calls : call'[u].pc \in Holding => call'[u].obj # 0
<1>1. call \in [Calls -> CallRecord]
      /\ \A u \in Calls : call[u].pc \in Holding => call[u].obj # 0
  BY DEF TypeInv, TypeOK, Holding
<1> QED BY <1>1 DEF Moves

LEMMA ConnectMoves ==
  ASSUME TypeInv, NEW t \in Calls,
         ConnectCancel(t) \/ ConnectCtx(t) \/ ConnectCancelFunc(t)
  PROVE  Moves(t)
<1>0. CallFacts(t)
  BY CallKnown
<1> USE DEF CallFacts
<1>1. CASE ConnectCancel(t)
  <2>1. call'[t] \in CallRecord
    BY <1>0, <1>1 DEF ConnectCancel, Step, CallRecord
  <2>2. call' = [call EXCEPT ![t] = call'[t]]
    BY <1>0, <1>1 DEF ConnectCancel, Step
  <2>3. call'[t].pc \in Holding => call'[t].obj # 0
    BY <1>0, <1>1 DEF ConnectCancel, Step, CallRecord, Holding
  <2> QED BY <2>1, <2>2, <2>3 DEF Moves
<1>2. CASE ConnectCtx(t)
  <2>1. call'[t] \in CallRecord
    BY <1>0, <1>2 DEF ConnectCtx, Step, CallRecord
  <2>2. call' = [call EXCEPT ![t] = call'[t]]
    BY <1>0, <1>2 DEF ConnectCtx, Step
  <2>3. call'[t].pc \in Holding => call'[t].obj # 0
    BY <1>0, <1>2 DEF ConnectCtx, Step, CallRecord, Holding
  <2> QED BY <2>1, <2>2, <2>3 DEF Moves
<1>3. CASE ConnectCancelFunc(t)
  <2>1. call'[t] \in CallRecord
    BY <1>0, <1>3 DEF ConnectCancelFunc, Step, CallRecord
  <2>2. call' = [call EXCEPT ![t] = call'[t]]
    BY <1>0, <1>3 DEF ConnectCancelFunc, Step
  <2>3. call'[t].pc \in Holding => call'[t].obj # 0
    BY <1>0, <1>3 DEF ConnectCancelFunc, Step, CallRecord, Holding
  <2> QED BY <2>1, <2>2, <2>3 DEF Moves
<1> QED BY <1>1, <1>2, <1>3

LEMMA DiscoverMoves ==
  ASSUME TypeInv, NEW t \in Calls,
         \/ List(t) \/ ListFails(t) \/ Check(t) \/ Dial(t) \/ DialFails(t)
         \/ Refresh(t) \/ RefreshFails(t)
         \/ \E c \in Listed :
              Inspect(t, c) \/ Skip(t, c) \/ StartExisting(t, c)
  PROVE  Moves(t)
<1>0. CallFacts(t)
  BY CallKnown
<1> USE DEF CallFacts
<1>1. CASE List(t)
  <2>1. call'[t] \in CallRecord
    <3>1. {[name |-> n, title |-> title[n]] : n \in running} \in SUBSET Listed
      BY <1>0 DEF Listed
    <3>2. call'[t] = [call[t] EXCEPT
            !.pc = "each", !.found = running,
            !.todo = {[name |-> n, title |-> title[n]] : n \in running}]
      BY <1>0, <1>1 DEF List
    <3> DEFINE all == {[name |-> n, title |-> title[n]] : n \in running}
    <3> HIDE DEF all
    <3>3. call'[t] = [call[t] EXCEPT !.pc = "each", !.found = running, !.todo = all]
          /\ all \in SUBSET Listed
      BY <3>1, <3>2 DEF all
    <3> QED BY <1>0, <3>3 DEF CallRecord
  <2>2. call' = [call EXCEPT ![t] = call'[t]]
    BY <1>0, <1>1 DEF List, Listed
  <2>3. call'[t].pc \in Holding => call'[t].obj # 0
    BY <1>0, <1>1 DEF List, Listed, CallRecord, Holding
  <2> QED BY <2>1, <2>2, <2>3 DEF Moves
<1>2. CASE ListFails(t)
  <2>1. call'[t] \in CallRecord
    BY <1>0, <1>2 DEF ListFails, Step, CallRecord
  <2>2. call' = [call EXCEPT ![t] = call'[t]]
    BY <1>0, <1>2 DEF ListFails, Step
  <2>3. call'[t].pc \in Holding => call'[t].obj # 0
    BY <1>0, <1>2 DEF ListFails, Step, CallRecord, Holding
  <2> QED BY <2>1, <2>2, <2>3 DEF Moves
<1>3. ASSUME NEW c \in Listed, Inspect(t, c) PROVE Moves(t)
  <2>1. call'[t] \in CallRecord
    BY <1>0, <1>3 DEF Inspect, CallRecord
  <2>2. call' = [call EXCEPT ![t] = call'[t]]
    BY <1>0, <1>3 DEF Inspect
  <2>3. call'[t].pc \in Holding => call'[t].obj # 0
    BY <1>0, <1>3 DEF Inspect, CallRecord, Holding
  <2> QED BY <2>1, <2>2, <2>3 DEF Moves
<1>4. ASSUME NEW c \in Listed, Skip(t, c) PROVE Moves(t)
  <2>1. call'[t] \in CallRecord
    BY <1>0, <1>4 DEF Skip, CallRecord
  <2>2. call' = [call EXCEPT ![t] = call'[t]]
    BY <1>0, <1>4 DEF Skip
  <2>3. call'[t].pc \in Holding => call'[t].obj # 0
    BY <1>0, <1>4 DEF Skip, CallRecord, Holding
  <2> QED BY <2>1, <2>2, <2>3 DEF Moves
<1>5. ASSUME NEW c \in Listed, StartExisting(t, c) PROVE Moves(t)
  <2>1. call'[t] \in CallRecord
    BY <1>0, <1>5 DEF StartExisting, Listed, CallRecord
  <2>2. call' = [call EXCEPT ![t] = call'[t]]
    BY <1>0, <1>5 DEF StartExisting, Listed
  <2>3. call'[t].pc \in Holding => call'[t].obj # 0
    BY <1>0, <1>5 DEF StartExisting, Listed, CallRecord, Holding
  <2> QED BY <2>1, <2>2, <2>3 DEF Moves
<1>6. CASE Check(t)
  <2>1. call'[t] \in CallRecord
    BY <1>0, <1>6 DEF Check, End, CallRecord
  <2>2. call' = [call EXCEPT ![t] = call'[t]]
    BY <1>0, <1>6 DEF Check, End
  <2>3. call'[t].pc \in Holding => call'[t].obj # 0
    BY <1>0, <1>6 DEF Check, End, CallRecord, Holding
  <2> QED BY <2>1, <2>2, <2>3 DEF Moves
<1>7. CASE Dial(t)
  <2>1. call'[t] \in CallRecord
    BY <1>0, <1>7 DEF Dial, Dialled, End, CallRecord
  <2>2. call' = [call EXCEPT ![t] = call'[t]]
    BY <1>0, <1>7 DEF Dial, Dialled, End
  <2>3. call'[t].pc \in Holding => call'[t].obj # 0
    BY <1>0, <1>7 DEF Dial, Dialled, End, CallRecord, Holding
  <2> QED BY <2>1, <2>2, <2>3 DEF Moves
<1>8. CASE DialFails(t)
  <2>1. call'[t] \in CallRecord
    BY <1>0, <1>8 DEF DialFails, Dialled, End, CallRecord
  <2>2. call' = [call EXCEPT ![t] = call'[t]]
    BY <1>0, <1>8 DEF DialFails, Dialled, End
  <2>3. call'[t].pc \in Holding => call'[t].obj # 0
    BY <1>0, <1>8 DEF DialFails, Dialled, End, CallRecord, Holding
  <2> QED BY <2>1, <2>2, <2>3 DEF Moves
<1>9. CASE Refresh(t)
  <2>1. call'[t] \in CallRecord
    BY <1>0, <1>9 DEF Refresh, RoomNames, Holding, CallRecord
  <2>2. call' = [call EXCEPT ![t] = call'[t]]
    BY <1>0, <1>9 DEF Refresh, RoomNames
  <2>3. call'[t].pc \in Holding => call'[t].obj # 0
    BY <1>0, <1>9 DEF Refresh, RoomNames, CallRecord, Holding
  <2> QED BY <2>1, <2>2, <2>3 DEF Moves
<1>10. CASE RefreshFails(t)
  <2>1. call'[t] \in CallRecord
    BY <1>0, <1>10 DEF RefreshFails, Step, CallRecord
  <2>2. call' = [call EXCEPT ![t] = call'[t]]
    BY <1>0, <1>10 DEF RefreshFails, Step
  <2>3. call'[t].pc \in Holding => call'[t].obj # 0
    BY <1>0, <1>10 DEF RefreshFails, Step, CallRecord, Holding
  <2> QED BY <2>1, <2>2, <2>3 DEF Moves
<1> QED BY <1>1, <1>2, <1>3, <1>4, <1>5, <1>6, <1>7, <1>8, <1>9, <1>10

LEMMA ServeMoves ==
  ASSUME TypeInv, NEW t \in Calls,
         \/ Spawn(t) \/ Portal(t) \/ Create(t) \/ PortalFails(t)
         \/ Push(t) \/ PushFails(t) \/ Sweep(t) \/ Teardown(t) \/ Stopped(t)
         \/ \E n \in Containers : Remove(t, n)
  PROVE  Moves(t)
<1>0. CallFacts(t)
  BY CallKnown
<1> USE DEF CallFacts
<1>1. CASE Spawn(t)
  <2>1. call'[t] \in CallRecord
    BY <1>0, <1>1 DEF Spawn, Step, CallRecord
  <2>2. call' = [call EXCEPT ![t] = call'[t]]
    BY <1>0, <1>1 DEF Spawn, Step
  <2>3. call'[t].pc \in Holding => call'[t].obj # 0
    BY <1>0, <1>1 DEF Spawn, Step, CallRecord, Holding
  <2> QED BY <2>1, <2>2, <2>3 DEF Moves
<1>2. CASE Portal(t)
  <2>1. call'[t] \in CallRecord
    BY <1>0, <1>2 DEF Portal, RoomNames, Holding, CallRecord
  <2>2. call' = [call EXCEPT ![t] = call'[t]]
    BY <1>0, <1>2 DEF Portal, RoomNames
  <2>3. call'[t].pc \in Holding => call'[t].obj # 0
    BY <1>0, <1>2 DEF Portal, RoomNames, CallRecord, Holding
  <2> QED BY <2>1, <2>2, <2>3 DEF Moves
<1>3. CASE Create(t)
  <2>1. call'[t] \in CallRecord
    BY <1>0, <1>3 DEF Create, Step, CallRecord
  <2>2. call' = [call EXCEPT ![t] = call'[t]]
    BY <1>0, <1>3 DEF Create, Step
  <2>3. call'[t].pc \in Holding => call'[t].obj # 0
    BY <1>0, <1>3 DEF Create, Step, CallRecord, Holding
  <2> QED BY <2>1, <2>2, <2>3 DEF Moves
<1>4. CASE PortalFails(t)
  <2>1. call'[t] \in CallRecord
    BY <1>0, <1>4 DEF PortalFails, End, CallRecord
  <2>2. call' = [call EXCEPT ![t] = call'[t]]
    BY <1>0, <1>4 DEF PortalFails, End
  <2>3. call'[t].pc \in Holding => call'[t].obj # 0
    BY <1>0, <1>4 DEF PortalFails, End, CallRecord, Holding
  <2> QED BY <2>1, <2>2, <2>3 DEF Moves
<1>5. CASE Push(t)
  <2>1. call'[t] \in CallRecord
    BY <1>0, <1>5 DEF Push, Pushed, End, CallRecord
  <2>2. call' = [call EXCEPT ![t] = call'[t]]
    BY <1>0, <1>5 DEF Push, Pushed, End
  <2>3. call'[t].pc \in Holding => call'[t].obj # 0
    BY <1>0, <1>5 DEF Push, Pushed, End, CallRecord, Holding
  <2> QED BY <2>1, <2>2, <2>3 DEF Moves
<1>6. CASE PushFails(t)
  <2>1. call'[t] \in CallRecord
    BY <1>0, <1>6 DEF PushFails, Pushed, End, CallRecord
  <2>2. call' = [call EXCEPT ![t] = call'[t]]
    BY <1>0, <1>6 DEF PushFails, Pushed, End
  <2>3. call'[t].pc \in Holding => call'[t].obj # 0
    BY <1>0, <1>6 DEF PushFails, Pushed, End, CallRecord, Holding
  <2> QED BY <2>1, <2>2, <2>3 DEF Moves
<1>7. CASE Sweep(t)
  <2>1. call'[t] \in CallRecord
    BY <1>0, <1>7 DEF Sweep, CallRecord
  <2>2. call' = [call EXCEPT ![t] = call'[t]]
    BY <1>0, <1>7 DEF Sweep
  <2>3. call'[t].pc \in Holding => call'[t].obj # 0
    BY <1>0, <1>7 DEF Sweep, CallRecord, Holding
  <2> QED BY <2>1, <2>2, <2>3 DEF Moves
<1>8. ASSUME NEW n \in Containers, Remove(t, n) PROVE Moves(t)
  <2>1. call'[t] \in CallRecord
    BY <1>0, <1>8 DEF Remove, CallRecord
  <2>2. call' = [call EXCEPT ![t] = call'[t]]
    BY <1>0, <1>8 DEF Remove
  <2>3. call'[t].pc \in Holding => call'[t].obj # 0
    BY <1>0, <1>8 DEF Remove, CallRecord, Holding
  <2> QED BY <2>1, <2>2, <2>3 DEF Moves
<1>9. CASE Teardown(t)
  <2>1. call'[t] \in CallRecord
    BY <1>0, <1>9 DEF Teardown, CallRecord
  <2>2. call' = [call EXCEPT ![t] = call'[t]]
    BY <1>0, <1>9 DEF Teardown
  <2>3. call'[t].pc \in Holding => call'[t].obj # 0
    BY <1>0, <1>9 DEF Teardown, CallRecord, Holding
  <2> QED BY <2>1, <2>2, <2>3 DEF Moves
<1>10. CASE Stopped(t)
  <2>1. call'[t] \in CallRecord
    BY <1>0, <1>10 DEF Stopped, CallRecord
  <2>2. call' = [call EXCEPT ![t] = call'[t]]
    BY <1>0, <1>10 DEF Stopped
  <2>3. call'[t].pc \in Holding => call'[t].obj # 0
    BY <1>0, <1>10 DEF Stopped, CallRecord, Holding
  <2> QED BY <2>1, <2>2, <2>3 DEF Moves
<1> QED BY <1>1, <1>2, <1>3, <1>4, <1>5, <1>6, <1>7, <1>8, <1>9, <1>10

LEMMA WatchMoves ==
  ASSUME TypeInv, NEW t \in Calls,
         WatchStep(t)
  PROVE  Moves(t)
<1>0. call \in [Calls -> CallRecord] /\ call[t] \in CallRecord
  BY DEF TypeInv, TypeOK
<1>H. Handle(t) => Head(events[t]).name \in Containers
  <2> SUFFICES ASSUME Handle(t) PROVE Head(events[t]).name \in Containers
    OBVIOUS
  <2>1. events[t] \in Seq(Event) /\ events[t] # <<>>
    BY DEF Handle, TypeInv, TypeOK, Event
  <2>2. Head(events[t]) \in Event
    BY <2>1, HeadTailProperties
  <2> QED BY <2>2 DEF Event
<1>1. CASE Subscribe(t) \/ SubscribeFails(t)
  <2>1. call'[t] \in CallRecord
    BY <1>0, <1>1 DEF Subscribe, SubscribeFails, Step, CallRecord
  <2>2. call' = [call EXCEPT ![t] = call'[t]]
    BY <1>0, <1>1 DEF Subscribe, SubscribeFails, Step
  <2>3. call'[t].pc \in Holding => call'[t].obj # 0
    BY <1>0, <1>1 DEF Subscribe, SubscribeFails, Step, CallRecord, Holding
  <2> QED BY <2>1, <2>2, <2>3 DEF Moves
<1>2. CASE Handle(t)
  <2>1. call'[t] \in CallRecord
    BY <1>0, <1>2, <1>H DEF Handle, CallRecord
  <2>2. call' = [call EXCEPT ![t] = call'[t]]
    BY <1>0, <1>2 DEF Handle
  <2>3. call'[t].pc \in Holding => call'[t].obj # 0
    BY <1>0, <1>2 DEF Handle, CallRecord, Holding
  <2> QED BY <2>1, <2>2, <2>3 DEF Moves
<1>3. CASE Settle(t)
  <2>1. call'[t] \in CallRecord
    BY <1>0, <1>3 DEF Settle, Step, CallRecord
  <2>2. call' = [call EXCEPT ![t] = call'[t]]
    BY <1>0, <1>3 DEF Settle, Step
  <2>3. call'[t].pc \in Holding => call'[t].obj # 0
    BY <1>0, <1>3 DEF Settle, Step, CallRecord, Holding
  <2> QED BY <2>1, <2>2, <2>3 DEF Moves
<1>4. CASE StreamEnded(t)
  <2>1. call'[t] \in CallRecord
    BY <1>0, <1>4 DEF StreamEnded, Step, CallRecord
  <2>2. call' = [call EXCEPT ![t] = call'[t]]
    BY <1>0, <1>4 DEF StreamEnded, Step
  <2>3. call'[t].pc \in Holding => call'[t].obj # 0
    BY <1>0, <1>4 DEF StreamEnded, Step, CallRecord, Holding
  <2> QED BY <2>1, <2>2, <2>3 DEF Moves
<1>5. CASE WatchCancelled(t)
  <2>1. call'[t] \in CallRecord
    BY <1>0, <1>5 DEF WatchCancelled, Step, CallRecord
  <2>2. call' = [call EXCEPT ![t] = call'[t]]
    BY <1>0, <1>5 DEF WatchCancelled, Step
  <2>3. call'[t].pc \in Holding => call'[t].obj # 0
    BY <1>0, <1>5 DEF WatchCancelled, Step, CallRecord, Holding
  <2> QED BY <2>1, <2>2, <2>3 DEF Moves
<1>6. CASE Backoff(t)
  <2>1. call'[t] \in CallRecord
    BY <1>0, <1>6 DEF Backoff, Step, CallRecord
  <2>2. call' = [call EXCEPT ![t] = call'[t]]
    BY <1>0, <1>6 DEF Backoff, Step
  <2>3. call'[t].pc \in Holding => call'[t].obj # 0
    BY <1>0, <1>6 DEF Backoff, Step, CallRecord, Holding
  <2> QED BY <2>1, <2>2, <2>3 DEF Moves
<1> QED BY <1>1, <1>2, <1>3, <1>4, <1>5, <1>6 DEF WatchStep

\* The daemon's events are of containers.
LEMMA TellType ==
  ASSUME TypeOK, NEW evs \in Seq(Event), Tell(evs)
  PROVE  events' \in [Calls -> Seq(Event)]
<1>1. \A t \in Calls : events[t] \o evs \in Seq(Event)
  BY ConcatProperties DEF TypeOK, Event
<1> QED BY <1>1 DEF Tell, TypeOK, Event

LEMMA NamedInMap ==
  ASSUME TypeInv
  PROVE  \A n \in Containers :
           servers[n] # 0 => servers[n] \in 1..Len(srv) /\ srv[servers[n]].name = n
<1>1. Len(srv) \in Nat
  BY LenType DEF TypeInv
<1>2. servers \in [Containers -> 0..Len(srv)]
      /\ \A n \in Containers : servers[n] # 0 => srv[servers[n]].name = n
  BY DEF TypeInv, TypeOK
<1> QED BY <1>1, <1>2

LEMMA DockerType ==
  ASSUME TypeInv, DockerNext
  PROVE  TypeInv'
<1> USE DEF TypeInv, TypeOK
<1>1. ASSUME NEW n \in Containers, ContainerStarts(n) PROVE TypeInv'
  <2>1. <<[action |-> "start", name |-> n]>> \in Seq(Event)
    BY DEF Event
  <2>2. events' \in [Calls -> Seq(Event)]
    BY <1>1, <2>1, TellType DEF ContainerStarts
  <2>3. changes' \in 0..MaxChanges
    BY <1>1, ClientAssumption DEF ContainerStarts
  <2>4. UNCHANGED <<subscribed, faults, mapVars, ctxVars, call, discVars>>
        /\ title' \in [Containers -> DisplayNames]
    BY <1>1 DEF ContainerStarts
  <2> QED BY <1>1, <2>2, <2>3, <2>4 DEF ContainerStarts, Event, mapVars, ctxVars,
        discVars, CtxInv, CallRecord
<1>2. ASSUME NEW n \in Containers, ContainerStops(n) PROVE TypeInv'
  <2>1. PICK actions \in {<<"die">>, <<"die", "stop">>} :
          Tell([i \in DOMAIN actions |-> [action |-> actions[i], name |-> n]])
    BY <1>2 DEF ContainerStops
  <2>2. [i \in DOMAIN actions |-> [action |-> actions[i], name |-> n]] \in Seq(Event)
    <3>1. \A a \in {"die", "stop"} : [action |-> a, name |-> n] \in Event
      BY DEF Event
    <3>2. CASE actions = <<"die">>
      <4>1. [i \in DOMAIN actions |-> [action |-> actions[i], name |-> n]]
              \in [1..1 -> Event]
        BY <3>1, <3>2
      <4> QED BY <4>1, SeqDef
    <3>3. CASE actions = <<"die", "stop">>
      <4>1. [i \in DOMAIN actions |-> [action |-> actions[i], name |-> n]]
              \in [1..2 -> Event]
        BY <3>1, <3>3
      <4> QED BY <4>1, SeqDef
    <3> QED BY <3>2, <3>3
  <2>3. events' \in [Calls -> Seq(Event)]
    BY <2>1, <2>2, TellType
  <2>4. changes' \in 0..MaxChanges
    BY <1>2, ClientAssumption DEF ContainerStops
  <2>5. UNCHANGED <<title, subscribed, faults, mapVars, ctxVars, call, discVars>>
    BY <1>2 DEF ContainerStops
  <2> QED BY <1>2, <2>3, <2>4, <2>5 DEF ContainerStops, Event, mapVars, ctxVars,
        discVars, CtxInv, CallRecord
<1>3. ASSUME NEW t \in Calls, StreamBreaks(t) PROVE TypeInv'
  <2>1. faults' \in 0..MaxFaults
    BY <1>3, ClientAssumption DEF StreamBreaks
  <2> QED BY <1>3, <2>1 DEF StreamBreaks, mapVars, ctxVars, discVars, CtxInv,
        CallRecord
<1>4. ASSUME NEW o \in DOMAIN srv, RconDrops(o) PROVE TypeInv'
  <2>1. faults' \in 0..MaxFaults
    BY <1>4, ClientAssumption DEF RconDrops
  <2>2. o \in 1..Len(srv) /\ srv[o] \in Server
    BY LenType
  <2>3. [srv[o] EXCEPT !.rcon = "closed"] \in Server
    BY <2>2 DEF Server
  <2>4. srv' = [srv EXCEPT ![o] = [srv[o] EXCEPT !.rcon = "closed"]]
    BY <1>4, <2>2, LenType DEF RconDrops
  <2>5. srv' \in Seq(Server) /\ Len(srv') = Len(srv)
        /\ \A p \in 1..Len(srv) : srv'[p].name = srv[p].name
    BY <2>2, <2>3, <2>4, LenType, ExceptSeq DEF Server
  <2>6. UNCHANGED <<dockerVars, servers, room, ctxVars, call, discVars>>
    BY <1>4 DEF RconDrops
  <2>7. \A n \in Containers : servers'[n] # 0 => srv'[servers'[n]].name = n
    <3> HIDE DEF TypeInv, TypeOK
    <3>1. servers' = servers
      BY <2>6
    <3>2. \A n \in Containers :
            servers[n] # 0 => servers[n] \in 1..Len(srv) /\ srv[servers[n]].name = n
      BY NamedInMap
    <3> QED BY <2>5, <3>1, <3>2
  <2>8. call' \in [Calls -> CallRecord'] /\ servers' \in [Containers -> 0..Len(srv')]
    BY <2>5, <2>6 DEF CallRecord
  <2> QED BY <2>1, <2>5, <2>6, <2>7, <2>8
          DEF dockerVars, ctxVars, discVars, CtxInv, Server
<1> QED BY <1>1, <1>2, <1>3, <1>4 DEF DockerNext

\* A step of a call may change the state of servers, take them from the map,
\* and nothing else about them.
SameServers ==
  /\ srv' \in Seq(Server) /\ Len(srv') = Len(srv)
  /\ \A o \in 1..Len(srv) : srv'[o].name = srv[o].name
  /\ servers' \in [Containers -> 0..Len(srv)]
  /\ \A n \in Containers : servers'[n] \in {0, servers[n]}

LEMMA KeepServers ==
  ASSUME TypeOK, UNCHANGED <<srv, servers>>
  PROVE  SameServers
BY LenType DEF TypeOK, SameServers

LEMMA KeepType ==
  ASSUME TypeInv, NEW t \in Calls, Moves(t), call[t].pc \notin Connecting,
         SameServers, UNCHANGED <<running, changes, ctxVars, discVars>>,
         events' \in [Calls -> Seq(Event)], subscribed' \subseteq Calls,
         faults' \in 0..MaxFaults, room' \in [Containers -> RoomNames], title' = title
  PROVE  TypeInv'
<1>1. /\ call' \in [Calls -> CallRecord']
      /\ \A u \in Calls : call'[u].pc \in Holding => call'[u].obj # 0
  BY MovesType DEF SameServers, CallRecord
<1>2. CtxInv'
  BY MovesType DEF TypeInv, CtxInv, ctxVars
<1>3. /\ servers' \in [Containers -> 0..Len(srv')]
      /\ \A n \in Containers : servers'[n] # 0 => srv'[servers'[n]].name = n
  <2>1. \A n \in Containers : servers[n] \in 0..Len(srv)
                              /\ (servers[n] # 0 => srv[servers[n]].name = n)
    BY DEF TypeInv, TypeOK
  <2> QED BY <2>1, LenType DEF SameServers, TypeInv
<1>4. running' \subseteq Containers /\ title' \in [Containers -> DisplayNames]
      /\ changes' \in 0..MaxChanges
      /\ ctx' \in 0..MaxConnects /\ cancel' \in 0..MaxConnects
      /\ live' \subseteq Calls
      /\ disconnect' \in {"ready", "clear"} /\ disconnects' \in 0..MaxDisconnects
  BY DEF TypeInv, TypeOK, ctxVars, discVars
<1> QED BY <1>1, <1>2, <1>3, <1>4
        DEF TypeInv, TypeOK, SameServers, Event, Server, Holding, RoomNames

LEMMA PlainType ==
  ASSUME TypeInv
  PROVE  /\ TypeOK
         /\ events \in [Calls -> Seq(Event)] /\ subscribed \subseteq Calls
         /\ faults \in 0..MaxFaults /\ room \in [Containers -> RoomNames]
BY DEF TypeInv, TypeOK, Event, RoomNames

LEMMA ConnectType ==
  ASSUME TypeInv, NEW t \in Calls,
         ConnectCancel(t) \/ ConnectCtx(t) \/ ConnectCancelFunc(t)
  PROVE  TypeInv'
<1>1. Moves(t)
  BY ConnectMoves
<1>2. UNCHANGED <<dockerVars, faults, mapVars, discVars>>
  BY DEF ConnectCancel, ConnectCtx, ConnectCancelFunc
<1>3. t \in 1..MaxConnects /\ MaxConnects \in Nat
  BY ClientAssumption DEF Calls
<1>4. /\ ctx' \in 0..MaxConnects /\ cancel' \in 0..MaxConnects
      /\ live' \subseteq Calls
  <2>1. ctx \in 0..MaxConnects /\ cancel \in 0..MaxConnects /\ live \subseteq Calls
    BY DEF TypeInv, TypeOK
  <2>2. t \in 0..MaxConnects
    BY <1>3
  <2>3. CASE ConnectCancel(t)
    BY <2>1, <2>3 DEF ConnectCancel
  <2>4. CASE ConnectCtx(t)
    BY <2>1, <2>2, <2>4 DEF ConnectCtx
  <2>5. CASE ConnectCancelFunc(t)
    BY <2>1, <2>2, <2>5 DEF ConnectCancelFunc
  <2> QED BY <2>3, <2>4, <2>5
<1>5. CtxInv'
  <2>1. /\ \A u \in Calls \ {t} : call'[u] = call[u]
        /\ call \in [Calls -> CallRecord]
    BY <1>1, MovesType DEF TypeInv, TypeOK
  <2>2. CASE ConnectCancel(t)
    <3>1. call'[t].pc = "publish" /\ ctx' = ctx
      BY <2>1, <2>2 DEF ConnectCancel, Step, CallRecord
    <3> QED BY <2>1, <3>1 DEF TypeInv, CtxInv, Connecting
  <2>3. CASE ConnectCtx(t)
    BY <1>3, <2>3 DEF ConnectCtx, CtxInv
  <2>4. CASE ConnectCancelFunc(t)
    <3>1. call[t].pc \notin Connecting /\ ctx' = ctx
      BY <2>4 DEF ConnectCancelFunc, Step, Connecting
    <3> QED BY <2>1, <3>1 DEF TypeInv, CtxInv
  <2> QED BY <2>2, <2>3, <2>4
<1>6. /\ call' \in [Calls -> CallRecord']
      /\ \A u \in Calls : call'[u].pc \in Holding => call'[u].obj # 0
  BY <1>1, <1>2, MovesType DEF mapVars, CallRecord
<1> QED BY <1>2, <1>4, <1>5, <1>6
        DEF TypeInv, TypeOK, dockerVars, mapVars, discVars, Holding

LEMMA DiscoverType ==
  ASSUME TypeInv, NEW t \in Calls,
         \/ List(t) \/ ListFails(t) \/ Refresh(t) \/ RefreshFails(t) \/ Check(t)
         \/ DialFails(t) \/ Portal(t) \/ PortalFails(t) \/ PushFails(t)
         \/ Sweep(t) \/ Stopped(t)
         \/ \E c \in Listed : Inspect(t, c) \/ Skip(t, c)
  PROVE  TypeInv'
<1>1. Moves(t)
  BY DiscoverMoves, ServeMoves
<1>2. call[t].pc \notin Connecting
  BY DEF List, ListFails, Inspect, Skip, Refresh, RefreshFails, Check, DialFails,
    Dialled, Portal, PortalFails, PushFails, Pushed, Sweep, Stopped, Step, Connecting
<1>3. faults' \in 0..MaxFaults
  BY FaultType, PlainType DEF List, ListFails, Inspect, Skip, Refresh, RefreshFails,
    Check, DialFails, Portal, PortalFails, PushFails, Sweep, Stopped
<1>4. UNCHANGED <<dockerVars, mapVars, ctxVars, discVars>>
  BY DEF List, ListFails, Inspect, Skip, Refresh, RefreshFails, Check, DialFails,
    Portal, PortalFails, PushFails, Sweep, Stopped
<1> QED BY <1>1, <1>2, <1>3, <1>4, KeepServers, PlainType, KeepType
        DEF dockerVars, mapVars

\* The room of the container in hand is made or named.
LEMMA RoomType ==
  ASSUME TypeInv, NEW t \in Calls, Create(t) \/ Push(t)
  PROVE  TypeInv'
<1>1. Moves(t)
  BY ServeMoves
<1>2. call[t].pc \notin Connecting
  BY DEF Create, Push, Pushed, Step, Connecting
<1>3. room' \in [Containers -> RoomNames]
  <2>1. call[t].info \in RoomNames
    BY DEF TypeInv, TypeOK, CallRecord, RoomNames
  <2> QED BY <2>1, PlainType DEF Create, Push
<1>4. UNCHANGED <<dockerVars, faults, srv, servers, ctxVars, discVars>>
  BY DEF Create, Push
<1> QED BY <1>1, <1>2, <1>3, <1>4, KeepServers, PlainType, KeepType DEF dockerVars

\* A server is set to another state.
LEMMA ServerSet ==
  ASSUME TypeInv, NEW o \in 1..Len(srv), NEW s \in Server, s.name = srv[o].name,
         srv' = [srv EXCEPT ![o] = s], servers' = servers
  PROVE  SameServers
<1>1. /\ srv' \in Seq(Server) /\ Len(srv') = Len(srv)
      /\ \A p \in 1..Len(srv) : srv'[p] = IF p = o THEN s ELSE srv[p]
  BY LenType, ExceptSeq DEF TypeInv
<1> QED BY <1>1 DEF SameServers, TypeInv, TypeOK

LEMMA SetType ==
  ASSUME TypeInv, NEW t \in Calls, Dial(t) \/ Spawn(t) \/ Teardown(t)
  PROVE  TypeInv'
<1> DEFINE o == call[t].obj
<1>1. o \in 1..Len(srv) /\ srv[o] \in Server /\ srv \in [1..Len(srv) -> Server]
  <2>1. o \in 0..Len(srv) /\ o # 0
    BY DEF Dial, Dialled, Spawn, Step, Teardown, TypeInv, TypeOK, CallRecord
  <2>2. o \in 1..Len(srv)
    BY <2>1, LenType DEF TypeInv
  <2> QED BY <2>2, LenType DEF TypeInv
<1>2. Moves(t) /\ call[t].pc \notin Connecting
  <2>1. Moves(t)
    BY DiscoverMoves, ServeMoves
  <2>2. call[t].pc \notin Connecting
    BY DEF Dial, Dialled, Spawn, Teardown, Step, Connecting
  <2> QED BY <2>1, <2>2
<1>3. SameServers
  <2>1. CASE Dial(t)
    <3>1. [srv[o] EXCEPT !.rcon = "open"] \in Server
          /\ [srv[o] EXCEPT !.rcon = "open"].name = srv[o].name
      BY <1>1 DEF Server
    <3>2. srv' = [srv EXCEPT ![o] = [srv[o] EXCEPT !.rcon = "open"]]
      BY <1>1, <2>1 DEF Dial
    <3> QED BY <1>1, <2>1, <3>1, <3>2, ServerSet DEF Dial
  <2>2. CASE Spawn(t)
    <3>1. [srv[o] EXCEPT !.started = TRUE] \in Server
          /\ [srv[o] EXCEPT !.started = TRUE].name = srv[o].name
      BY <1>1 DEF Server
    <3>2. srv' = [srv EXCEPT ![o] = [srv[o] EXCEPT !.started = TRUE]]
      BY <1>1, <2>2 DEF Spawn
    <3> QED BY <1>1, <2>2, <3>1, <3>2, ServerSet DEF Spawn
  <2>3. CASE Teardown(t)
    <3>1. [srv[o] EXCEPT !.cancelled = TRUE, !.rcon = "closed"] \in Server
          /\ [srv[o] EXCEPT !.cancelled = TRUE, !.rcon = "closed"].name = srv[o].name
      BY <1>1 DEF Server
    <3>2. srv' = [srv EXCEPT ![o] =
                    [srv[o] EXCEPT !.cancelled = TRUE, !.rcon = "closed"]]
      BY <1>1, <2>3 DEF Teardown, Server
    <3> QED BY <1>1, <2>3, <3>1, <3>2, ServerSet DEF Teardown
  <2> QED BY <2>1, <2>2, <2>3
<1>4. UNCHANGED <<dockerVars, faults, room, ctxVars, discVars>>
  BY DEF Dial, Spawn, Teardown
<1> QED BY <1>2, <1>3, <1>4, PlainType, KeepType DEF dockerVars

\* StartExisting changes the title of a server in the map.
LEMMA RetitledServer ==
  ASSUME TypeInv, NEW t \in Calls, NEW c \in Listed, StartExisting(t, c)
  PROVE  /\ servers[c.name] \in 1..Len(srv)
         /\ \E s \in Server :
              /\ s.name = srv[servers[c.name]].name
              /\ s.cancelled = srv[servers[c.name]].cancelled
              /\ srv' = [srv EXCEPT ![servers[c.name]] = s]
<1> DEFINE o == servers[c.name]
           s == [srv[o] EXCEPT !.title = c.title]
<1>1. o \in 1..Len(srv)
  <2>1. c.name \in Containers
    BY DEF Listed
  <2> QED BY <2>1, NamedInMap DEF StartExisting
<1>2. srv[o] \in Server /\ srv \in [1..Len(srv) -> Server]
  BY <1>1, LenType DEF TypeInv
<1>3. s \in Server /\ s.name = srv[o].name /\ s.cancelled = srv[o].cancelled
  BY <1>2 DEF Server, Listed
<1>4. srv' = [srv EXCEPT ![o] = s]
  BY <1>1, <1>2 DEF StartExisting
<1> QED BY <1>1, <1>3, <1>4

LEMMA StartExistingType ==
  ASSUME TypeInv, NEW t \in Calls, NEW c \in Listed, StartExisting(t, c)
  PROVE  TypeInv'
<1>1. Moves(t) /\ call[t].pc \notin Connecting
  BY DiscoverMoves DEF StartExisting, Connecting
<1>2. UNCHANGED <<dockerVars, faults, servers, room, ctxVars, discVars>>
  BY DEF StartExisting
<1>3. SameServers
  BY <1>2, RetitledServer, ServerSet
<1> QED BY <1>1, <1>2, <1>3, PlainType, KeepType DEF dockerVars

LEMMA RemoveType ==
  ASSUME TypeInv, NEW t \in Calls, NEW n \in Containers, Remove(t, n)
  PROVE  TypeInv'
<1>1. Moves(t) /\ call[t].pc \notin Connecting
  BY ServeMoves DEF Remove, Connecting
<1>2. SameServers
  <2>1. srv \in Seq(Server) /\ Len(srv) \in Nat
        /\ servers \in [Containers -> 0..Len(srv)]
    BY LenType DEF TypeInv, TypeOK
  <2> QED BY <2>1 DEF Remove, SameServers
<1>3. UNCHANGED <<dockerVars, faults, room, ctxVars, discVars>>
  BY DEF Remove
<1> QED BY <1>1, <1>2, <1>3, PlainType, KeepType DEF dockerVars

LEMMA WatchType ==
  ASSUME TypeInv, NEW t \in Calls, WatchStep(t)
  PROVE  TypeInv'
<1>1. Moves(t) /\ call[t].pc \notin Connecting
  <2>1. call[t].pc \notin Connecting
    BY DEF WatchStep, Subscribe, SubscribeFails, Handle, Settle, StreamEnded,
      WatchCancelled, Backoff, Step, Connecting
  <2> QED BY <2>1, WatchMoves
<1>2. faults' \in 0..MaxFaults
  BY FaultType, PlainType DEF WatchStep, Subscribe, SubscribeFails, Handle, Settle,
    StreamEnded, WatchCancelled, Backoff
<1>3. subscribed' \subseteq Calls
  BY PlainType DEF WatchStep, Subscribe, SubscribeFails, Handle, Settle, StreamEnded,
    WatchCancelled, Backoff, dockerVars
<1>4. events' \in [Calls -> Seq(Event)]
  <2>1. CASE Handle(t)
    <3>1. events[t] \in Seq(Event) /\ events[t] # <<>>
      BY <2>1, PlainType DEF Handle
    <3>2. Tail(events[t]) \in Seq(Event)
      BY <3>1, HeadTailProperties
    <3> QED BY <2>1, <3>2, PlainType DEF Handle
  <2>2. CASE WatchCancelled(t)
    <3>1. <<>> \in Seq(Event)
      BY EmptySeq
    <3> QED BY <2>2, <3>1, PlainType DEF WatchCancelled
  <2>3. CASE ~Handle(t) /\ ~WatchCancelled(t)
    BY <2>3, PlainType DEF WatchStep, Subscribe, SubscribeFails, Settle, StreamEnded,
      Backoff, dockerVars
  <2> QED BY <2>1, <2>2, <2>3
<1>5. UNCHANGED <<running, title, changes, mapVars, ctxVars, discVars>>
  BY DEF WatchStep, Subscribe, SubscribeFails, Handle, Settle, StreamEnded,
    WatchCancelled, Backoff, dockerVars
<1>6. SameServers
  BY <1>5, KeepServers, PlainType DEF mapVars
<1> QED BY <1>1, <1>2, <1>3, <1>4, <1>5, <1>6, PlainType, KeepType DEF mapVars

\* A new server is the last one, and the map's for its container.
LEMMA StartNewServer ==
  ASSUME TypeInv, NEW t \in Calls, NEW c \in Listed, StartNew(t, c)
  PROVE  /\ srv' \in Seq(Server) /\ Len(srv) \in Nat /\ Len(srv') = Len(srv) + 1
         /\ \A o \in 1..Len(srv) : srv'[o] = srv[o]
         /\ srv'[Len(srv')].name = c.name
         /\ servers' = [servers EXCEPT ![c.name] = Len(srv')]
         /\ call'[t] \in CallRecord' /\ call'[t].pc = "dial" /\ call'[t].obj = Len(srv')
         /\ \A u \in Calls \ {t} : call'[u] = call[u] /\ call[u] \in CallRecord'
         /\ call' \in [Calls -> CallRecord']
<1> DEFINE s == [name |-> c.name, title |-> c.title, ctx |-> ctx,
                 cancelled |-> FALSE, started |-> FALSE, rcon |-> "closed"]
<1>0. CallFacts(t)
  BY CallKnown
<1>1. ctx \in Calls
  <2>1. ctx # 0 /\ ctx \in 0..MaxConnects
    BY DEF StartNew, TypeInv, TypeOK, CtxInv, Connecting
  <2> QED BY <2>1, ClientAssumption DEF Calls
<1>2. s \in Server /\ s.name = c.name
  BY <1>1 DEF Server, Listed
<1>3. srv' = Append(srv, s)
  BY DEF StartNew
<1>4. /\ srv' \in Seq(Server) /\ Len(srv) \in Nat /\ Len(srv') = Len(srv) + 1
      /\ \A o \in 1..Len(srv) : srv'[o] = srv[o]
      /\ srv'[Len(srv')] = s
  BY <1>2, <1>3, AppendProperties, LenType DEF TypeInv
<1>5. \A r \in CallRecord : r \in CallRecord'
  <2>1. \A k \in 0..Len(srv) : k \in 0..Len(srv')
    BY <1>4
  <2> QED BY <2>1 DEF CallRecord
<1>6. Len(srv') \in 0..Len(srv')
  BY <1>4
<1>7. call' = [call EXCEPT ![t].pc = "dial", ![t].at = {}, ![t].obj = Len(srv'),
                           ![t].fresh = TRUE]
  BY DEF StartNew
<1>8. call'[t] \in CallRecord' /\ call'[t].pc = "dial" /\ call'[t].obj = Len(srv')
  BY <1>0, <1>6, <1>7 DEF CallFacts, CallRecord
<1>9. \A u \in Calls \ {t} : call'[u] = call[u] /\ call[u] \in CallRecord'
  BY <1>0, <1>5, <1>7 DEF CallFacts
<1>10. call' \in [Calls -> CallRecord']
  <2>1. \A u \in Calls : call'[u] \in CallRecord'
    BY <1>8, <1>9
  <2>2. call' = [u \in Calls |-> call'[u]]
    BY <1>0, <1>7 DEF CallFacts
  <2> QED BY <2>1, <2>2
<1> QED BY <1>2, <1>4, <1>8, <1>9, <1>10 DEF StartNew

LEMMA StartNewType ==
  ASSUME TypeInv, NEW t \in Calls, NEW c \in Listed, StartNew(t, c)
  PROVE  TypeInv'
<1>1. /\ srv' \in Seq(Server) /\ Len(srv) \in Nat /\ Len(srv') = Len(srv) + 1
      /\ \A o \in 1..Len(srv) : srv'[o] = srv[o]
      /\ srv'[Len(srv')].name = c.name
      /\ servers' = [servers EXCEPT ![c.name] = Len(srv')]
      /\ call'[t].pc = "dial" /\ call'[t].obj = Len(srv')
      /\ \A u \in Calls \ {t} : call'[u] = call[u]
      /\ call' \in [Calls -> CallRecord']
  BY StartNewServer
<1>2. /\ servers' \in [Containers -> 0..Len(srv')]
      /\ \A m \in Containers : servers'[m] # 0 => srv'[servers'[m]].name = m
  <2>1. servers \in [Containers -> 0..Len(srv)]
        /\ \A m \in Containers : servers[m] # 0 => srv[servers[m]].name = m
    BY DEF TypeInv, TypeOK
  <2> QED BY <1>1, <2>1 DEF Listed
<1>3. \A u \in Calls : call'[u].pc \in Holding => call'[u].obj # 0
  <2>1. Len(srv') # 0
    BY <1>1
  <2>2. \A u \in Calls : call[u].pc \in Holding => call[u].obj # 0
    BY DEF TypeInv, TypeOK, Holding
  <2> QED BY <1>1, <2>1, <2>2
<1>4. UNCHANGED <<dockerVars, faults, room, ctxVars, discVars>>
  BY DEF StartNew
<1>5. CtxInv'
  <2>1. call[t].pc = "start"
    BY DEF StartNew
  <2> QED BY <1>1, <1>4, <2>1 DEF TypeInv, CtxInv, Connecting, ctxVars
<1> QED BY <1>1, <1>2, <1>3, <1>4, <1>5
        DEF TypeInv, TypeOK, dockerVars, ctxVars, discVars, Server, Holding

\* What Disconnect does to the servers.
LEMMA ClearServers ==
  ASSUME TypeInv, DisconnectClear
  PROVE  /\ srv' \in Seq(Server) /\ Len(srv') = Len(srv)
         /\ \A o \in 1..Len(srv) :
              /\ srv'[o].name = srv[o].name
              /\ srv[o].cancelled => srv'[o].cancelled
              /\ o \in {servers[n] : n \in Containers} => srv'[o].cancelled
<1> DEFINE tracked == {servers[n] : n \in Containers} \ {0}
           s(o) == IF o \in tracked
                     THEN [srv[o] EXCEPT !.cancelled = TRUE, !.rcon = "closed"]
                     ELSE srv[o]
<1>1. Len(srv) \in Nat /\ srv \in [1..Len(srv) -> Server] /\ DOMAIN srv = 1..Len(srv)
  BY LenType DEF TypeInv
<1>2. srv' = [o \in 1..Len(srv) |-> s(o)]
  BY <1>1 DEF DisconnectClear
<1>3. \A o \in 1..Len(srv) :
        /\ s(o) \in Server
        /\ s(o).name = srv[o].name
        /\ srv[o].cancelled => s(o).cancelled
        /\ o \in tracked => s(o).cancelled
  BY <1>1 DEF Server
<1> HIDE DEF s
<1>4. srv' \in [1..Len(srv) -> Server]
  BY <1>2, <1>3
<1>5. srv' \in Seq(Server) /\ Len(srv') = Len(srv)
  BY <1>1, <1>4, SeqDef
<1>6. \A o \in 1..Len(srv) : o \in {servers[n] : n \in Containers} => o \in tracked
  BY <1>1
<1> QED BY <1>2, <1>3, <1>5, <1>6

LEMMA DisconnectType ==
  ASSUME TypeInv, DisconnectCancel \/ DisconnectClear
  PROVE  TypeInv'
<1>1. CASE DisconnectCancel
  <2>1. disconnects' \in 0..MaxDisconnects
    BY <1>1, ClientAssumption DEF DisconnectCancel, TypeInv, TypeOK
  <2> QED BY <1>1, <2>1 DEF DisconnectCancel, TypeInv, TypeOK, dockerVars, mapVars,
        CtxInv, CallRecord
<1>2. CASE DisconnectClear
  <2>1. srv' \in Seq(Server) /\ Len(srv') = Len(srv)
    BY <1>2, ClearServers
  <2>2. servers' = [n \in Containers |-> 0] /\ Len(srv) \in Nat
    BY <1>2, LenType DEF DisconnectClear, TypeInv
  <2>3. servers' \in [Containers -> 0..Len(srv')]
        /\ \A n \in Containers : servers'[n] = 0
    BY <2>1, <2>2
  <2>4. UNCHANGED <<dockerVars, faults, room, ctxVars, call, disconnects>>
        /\ disconnect' = "ready"
    BY <1>2 DEF DisconnectClear
  <2>5. call' \in [Calls -> CallRecord']
    BY <2>1, <2>4 DEF TypeInv, TypeOK, CallRecord
  <2> QED BY <2>1, <2>3, <2>4, <2>5
          DEF TypeInv, TypeOK, dockerVars, ctxVars, CtxInv, Server
<1> QED BY <1>1, <1>2

LEMMA NextType == TypeInv /\ [Next]_vars => TypeInv'
<1> SUFFICES ASSUME TypeInv, [Next]_vars PROVE TypeInv'
  OBVIOUS
<1>1. CASE DockerNext
  BY <1>1, DockerType
<1>2. ASSUME NEW t \in Calls, ConnectCancel(t) \/ CallStep(t) PROVE TypeInv'
  <2>1. CASE ConnectCancel(t) \/ ConnectStep(t)
    BY <2>1, ConnectType DEF ConnectStep
  <2>2. CASE WatchStep(t)
    BY <2>2, WatchType
  <2>3. ASSUME NEW c \in Listed,
               Inspect(t, c) \/ Skip(t, c) \/ StartNew(t, c) \/ StartExisting(t, c)
        PROVE  TypeInv'
    BY <2>3, DiscoverType, StartNewType, StartExistingType
  <2>4. CASE Dial(t) \/ Spawn(t) \/ Teardown(t)
    BY <2>4, SetType
  <2>5. CASE \/ List(t) \/ ListFails(t) \/ Refresh(t) \/ RefreshFails(t)
             \/ Check(t) \/ DialFails(t) \/ Portal(t) \/ PortalFails(t)
             \/ PushFails(t) \/ Sweep(t) \/ Stopped(t)
    BY <2>5, DiscoverType
  <2>6. CASE Create(t) \/ Push(t)
    BY <2>6, RoomType
  <2>7. ASSUME NEW n \in Containers, Remove(t, n) PROVE TypeInv'
    BY <2>7, RemoveType
  <2> QED BY <1>2, <2>1, <2>2, <2>3, <2>4, <2>5, <2>6, <2>7
          DEF CallStep, DiscoverStep
<1>3. CASE DisconnectCancel \/ DisconnectClear
  BY <1>3, DisconnectType
<1>4. CASE UNCHANGED vars
  BY <1>4 DEF vars, dockerVars, mapVars, ctxVars, discVars, TypeInv, TypeOK, CtxInv,
    CallRecord
<1> QED BY <1>1, <1>2, <1>3, <1>4 DEF Next

-----------------------------------------------------------------------------
(* No stray receiver.                                                      *)

\* The part of a server that AccountedFor is about does not change, its
\* server is in the map as before, and no call lets it go.
KeptBy(t) ==
  /\ Len(srv') = Len(srv)
  /\ \A o \in 1..Len(srv) : /\ srv'[o].name = srv[o].name
                            /\ srv[o].cancelled => srv'[o].cancelled
  /\ \A o \in 1..Len(srv) :
       servers[srv[o].name] = o =>
         \/ srv'[o].cancelled
         \/ servers'[srv[o].name] = o
         \/ call'[t].pc = "teardown" /\ call'[t].obj = o
  /\ call[t].pc = "teardown" =>
       srv'[call[t].obj].cancelled \/ call'[t] = call[t]

LEMMA KeptAccounted ==
  ASSUME TypeInv, AccountedFor, NEW t \in Calls, KeptBy(t),
         \A u \in Calls \ {t} : call'[u] = call[u]
  PROVE  AccountedFor'
<1> SUFFICES ASSUME NEW o \in 1..Len(srv)
             PROVE  \/ srv'[o].cancelled
                    \/ servers'[srv'[o].name] = o
                    \/ \E u \in Calls : call'[u].pc = "teardown" /\ call'[u].obj = o
  BY DEF AccountedFor, KeptBy
<1>0. /\ srv'[o].name = srv[o].name
      /\ srv[o].cancelled => srv'[o].cancelled
  BY DEF KeptBy
<1>1. CASE srv[o].cancelled
  BY <1>0, <1>1
<1>2. CASE servers[srv[o].name] = o
  BY <1>0, <1>2 DEF KeptBy
<1>3. ASSUME NEW u \in Calls, call[u].pc = "teardown", call[u].obj = o
      PROVE  srv'[o].cancelled \/ call'[u] = call[u]
  BY <1>3 DEF KeptBy
<1> QED BY <1>1, <1>2, <1>3 DEF AccountedFor

\* Most steps leave the servers alone and release none.
LEMMA PlainAccounted ==
  ASSUME TypeInv, AccountedFor, NEW t \in Calls, Moves(t),
         call[t].pc # "teardown", UNCHANGED <<srv, servers>>
  PROVE  AccountedFor'
<1>1. \A u \in Calls \ {t} : call'[u] = call[u]
  BY MovesType
<1>2. KeptBy(t)
  BY DEF KeptBy
<1> QED BY <1>1, <1>2, KeptAccounted

LEMMA DockerAccounted ==
  ASSUME TypeInv, AccountedFor, DockerNext
  PROVE  AccountedFor'
<1>1. CASE UNCHANGED <<srv, servers, call>>
  BY <1>1 DEF AccountedFor
<1>2. CASE ~UNCHANGED <<srv, servers, call>>
  <2>1. PICK o \in DOMAIN srv : RconDrops(o)
    BY <1>2 DEF DockerNext, ContainerStarts, ContainerStops, StreamBreaks, mapVars
  <2>2. o \in 1..Len(srv) /\ srv[o] \in Server /\ srv \in Seq(Server)
    BY LenType DEF TypeInv
  <2>3. srv' = [srv EXCEPT ![o] = [srv[o] EXCEPT !.rcon = "closed"]]
    BY <2>1, <2>2 DEF RconDrops
  <2>4. Len(srv') = Len(srv) /\ \A p \in 1..Len(srv) :
                        srv'[p] = IF p = o THEN [srv[o] EXCEPT !.rcon = "closed"]
                                           ELSE srv[p]
    <3>1. [srv[o] EXCEPT !.rcon = "closed"] \in Server
      BY <2>2 DEF Server
    <3> QED BY <2>2, <2>3, <3>1, ExceptSeq
  <2>5. \A p \in 1..Len(srv) : /\ srv'[p].name = srv[p].name
                               /\ srv'[p].cancelled = srv[p].cancelled
    BY <2>2, <2>4 DEF Server
  <2>6. UNCHANGED <<servers, call>>
    BY <2>1 DEF RconDrops
  <2> QED BY <2>4, <2>5, <2>6 DEF AccountedFor
<1> QED BY <1>1, <1>2

\* Dial and Spawn change a server, but neither its name nor its cancellation;
\* Teardown cancels it.
LEMMA SetAccounted ==
  ASSUME TypeInv, AccountedFor, NEW t \in Calls, Dial(t) \/ Spawn(t) \/ Teardown(t)
  PROVE  AccountedFor'
<1> DEFINE o == call[t].obj
<1>1. o \in 1..Len(srv) /\ srv[o] \in Server /\ srv \in Seq(Server)
  <2>1. o \in 0..Len(srv) /\ o # 0
    BY DEF Dial, Dialled, Spawn, Step, Teardown, TypeInv, TypeOK, CallRecord
  <2>2. o \in 1..Len(srv)
    BY <2>1, LenType DEF TypeInv
  <2> QED BY <2>2, LenType DEF TypeInv
<1>2. \A u \in Calls \ {t} : call'[u] = call[u]
  BY DiscoverMoves, ServeMoves, MovesType
<1>3. PICK s \in Server :
        /\ srv' = [srv EXCEPT ![o] = s]
        /\ s.name = srv[o].name
        /\ srv[o].cancelled => s.cancelled
        /\ Teardown(t) => s.cancelled
  <2>1. CASE Dial(t)
    <3> DEFINE s == [srv[o] EXCEPT !.rcon = "open"]
    <3>1. s \in Server /\ s.name = srv[o].name /\ s.cancelled = srv[o].cancelled
      BY <1>1 DEF Server
    <3>2. srv' = [srv EXCEPT ![o] = s] /\ ~Teardown(t)
      BY <1>1, <2>1 DEF Dial, Dialled, Teardown
    <3> QED BY <3>1, <3>2
  <2>2. CASE Spawn(t)
    <3> DEFINE s == [srv[o] EXCEPT !.started = TRUE]
    <3>1. s \in Server /\ s.name = srv[o].name /\ s.cancelled = srv[o].cancelled
      BY <1>1 DEF Server
    <3>2. srv' = [srv EXCEPT ![o] = s] /\ ~Teardown(t)
      BY <1>1, <2>2 DEF Spawn, Step, Teardown
    <3> QED BY <3>1, <3>2
  <2>3. CASE Teardown(t)
    <3> DEFINE s == [srv[o] EXCEPT !.cancelled = TRUE, !.rcon = "closed"]
    <3>1. s \in Server /\ s.name = srv[o].name /\ s.cancelled
      BY <1>1 DEF Server
    <3>2. srv' = [srv EXCEPT ![o] = s]
      BY <1>1, <2>3 DEF Teardown, Server
    <3> QED BY <3>1, <3>2
  <2> QED BY <2>1, <2>2, <2>3
<1>4. Len(srv') = Len(srv)
      /\ \A p \in 1..Len(srv) : srv'[p] = IF p = o THEN s ELSE srv[p]
  BY <1>1, <1>3, ExceptSeq
<1>5. servers' = servers
  BY DEF Dial, Spawn, Teardown
<1>6. call[t].pc = "teardown" => Teardown(t)
  BY DEF Dial, Dialled, Spawn, Step
<1>7. KeptBy(t)
  BY <1>1, <1>3, <1>4, <1>5, <1>6 DEF KeptBy
<1> QED BY <1>2, <1>7, KeptAccounted

LEMMA RemoveAccounted ==
  ASSUME TypeInv, AccountedFor, NEW t \in Calls, NEW n \in Containers, Remove(t, n)
  PROVE  AccountedFor'
<1>1. \A u \in Calls \ {t} : call'[u] = call[u]
  BY ServeMoves, MovesType
<1>2. \A o \in 1..Len(srv) : srv[o].name \in Containers /\ o # 0
  BY LenType DEF TypeInv, Server
<1>3. call \in [Calls -> CallRecord] /\ servers \in [Containers -> 0..Len(srv)]
  BY DEF TypeInv, TypeOK
<1>4. /\ call'[t].pc = IF servers[n] = 0 THEN call[t].pc ELSE "teardown"
      /\ call'[t].obj = servers[n]
      /\ call[t].pc = "stopping"
  BY <1>3 DEF Remove, CallRecord
<1>5. servers' = [servers EXCEPT ![n] = 0] /\ srv' = srv
  BY DEF Remove
<1>6. KeptBy(t)
  BY <1>2, <1>3, <1>4, <1>5 DEF KeptBy
<1> QED BY <1>1, <1>6, KeptAccounted

LEMMA StartExistingAccounted ==
  ASSUME TypeInv, AccountedFor, NEW t \in Calls, NEW c \in Listed,
         StartExisting(t, c)
  PROVE  AccountedFor'
<1>1. PICK s \in Server :
        /\ s.name = srv[servers[c.name]].name
        /\ s.cancelled = srv[servers[c.name]].cancelled
        /\ srv' = [srv EXCEPT ![servers[c.name]] = s]
  BY RetitledServer
<1>2. servers[c.name] \in 1..Len(srv) /\ srv \in Seq(Server)
  BY RetitledServer, LenType DEF TypeInv
<1>3. /\ Len(srv') = Len(srv)
      /\ \A p \in 1..Len(srv) :
           srv'[p] = IF p = servers[c.name] THEN s ELSE srv[p]
  BY <1>1, <1>2, ExceptSeq
<1>4. servers' = servers /\ call[t].pc # "teardown"
  BY DEF StartExisting
<1>5. KeptBy(t)
  BY <1>1, <1>2, <1>3, <1>4 DEF KeptBy
<1>6. \A u \in Calls \ {t} : call'[u] = call[u]
  BY DiscoverMoves, MovesType
<1> QED BY <1>5, <1>6, KeptAccounted

LEMMA StartNewAccounted ==
  ASSUME TypeInv, AccountedFor, NEW t \in Calls, NEW c \in Listed, StartNew(t, c)
  PROVE  AccountedFor'
<1>1. /\ Len(srv) \in Nat /\ Len(srv') = Len(srv) + 1
      /\ \A o \in 1..Len(srv) : srv'[o] = srv[o]
      /\ srv'[Len(srv')].name = c.name
      /\ servers' = [servers EXCEPT ![c.name] = Len(srv')]
      /\ \A u \in Calls \ {t} : call'[u] = call[u]
  BY StartNewServer
<1>2. servers[c.name] = 0 /\ call[t].pc = "start"
  BY DEF StartNew
<1>3. servers \in [Containers -> 0..Len(srv)]
  BY DEF TypeInv, TypeOK
<1> SUFFICES ASSUME NEW o \in 1..Len(srv')
             PROVE  \/ srv'[o].cancelled
                    \/ servers'[srv'[o].name] = o
                    \/ \E u \in Calls : call'[u].pc = "teardown" /\ call'[u].obj = o
  BY DEF AccountedFor
<1>4. CASE o = Len(srv')
  BY <1>1, <1>3, <1>4 DEF Listed
<1>5. CASE o \in 1..Len(srv)
  <2>1. servers[srv[o].name] = o => servers'[srv[o].name] = o
    BY <1>1, <1>2, <1>3, <1>5
  <2>2. \A u \in Calls : call[u].pc = "teardown" => call'[u] = call[u]
    BY <1>1, <1>2
  <2> QED BY <1>1, <1>5, <2>1, <2>2 DEF AccountedFor
<1> QED BY <1>1, <1>4, <1>5

LEMMA DisconnectAccounted ==
  ASSUME TypeInv, AccountedFor, DisconnectCancel \/ DisconnectClear
  PROVE  AccountedFor'
<1>1. CASE DisconnectCancel
  BY <1>1 DEF DisconnectCancel, AccountedFor, mapVars
<1>2. CASE DisconnectClear
  <2>1. /\ Len(srv') = Len(srv)
        /\ \A o \in 1..Len(srv) :
             /\ srv'[o].name = srv[o].name
             /\ srv[o].cancelled => srv'[o].cancelled
             /\ o \in {servers[n] : n \in Containers} => srv'[o].cancelled
    BY <1>2, ClearServers
  <2>2. \A o \in 1..Len(srv) : srv[o].name \in Containers
    BY LenType DEF TypeInv, Server
  <2>3. call' = call
    BY <1>2 DEF DisconnectClear
  <2> QED BY <2>1, <2>2, <2>3 DEF AccountedFor
<1> QED BY <1>1, <1>2

LEMMA NextAccounted == TypeInv /\ AccountedFor /\ [Next]_vars => AccountedFor'
<1> SUFFICES ASSUME TypeInv, AccountedFor, [Next]_vars PROVE AccountedFor'
  OBVIOUS
<1>1. CASE DockerNext
  BY <1>1, DockerAccounted
<1>2. ASSUME NEW t \in Calls, ConnectCancel(t) \/ CallStep(t) PROVE AccountedFor'
  <2>1. CASE ConnectCancel(t) \/ ConnectStep(t)
    <3>1. Moves(t)
      BY <2>1, ConnectMoves DEF ConnectStep
    <3>2. call[t].pc # "teardown" /\ UNCHANGED <<srv, servers>>
      BY <2>1 DEF ConnectStep, ConnectCancel, ConnectCtx, ConnectCancelFunc, Step,
        mapVars
    <3> QED BY <3>1, <3>2, PlainAccounted
  <2>2. CASE WatchStep(t)
    <3>1. Moves(t)
      BY <2>2, WatchMoves
    <3>2. call[t].pc # "teardown" /\ UNCHANGED <<srv, servers>>
      BY <2>2 DEF WatchStep, Subscribe, SubscribeFails, Handle, Settle, StreamEnded,
        WatchCancelled, Backoff, Step, mapVars
    <3> QED BY <3>1, <3>2, PlainAccounted
  <2>3. ASSUME NEW c \in Listed, StartNew(t, c) \/ StartExisting(t, c)
        PROVE  AccountedFor'
    BY <2>3, StartNewAccounted, StartExistingAccounted
  <2>4. CASE Dial(t) \/ Spawn(t) \/ Teardown(t)
    BY <2>4, SetAccounted
  <2>5. CASE \/ List(t) \/ ListFails(t) \/ Refresh(t) \/ RefreshFails(t)
             \/ Check(t) \/ DialFails(t)
             \/ \E c \in Listed : Inspect(t, c) \/ Skip(t, c)
    <3>1. Moves(t)
      BY <2>5, DiscoverMoves
    <3>2. call[t].pc # "teardown" /\ UNCHANGED <<srv, servers>>
      BY <2>5 DEF List, ListFails, Refresh, RefreshFails, Check, DialFails, Dialled,
        Inspect, Skip, Step, mapVars
    <3> QED BY <3>1, <3>2, PlainAccounted
  <2>6. CASE \/ Portal(t) \/ Create(t) \/ PortalFails(t) \/ Push(t) \/ PushFails(t)
             \/ Sweep(t) \/ Stopped(t)
    <3>1. Moves(t)
      BY <2>6, ServeMoves
    <3>2. call[t].pc # "teardown" /\ UNCHANGED <<srv, servers>>
      BY <2>6 DEF Portal, Create, PortalFails, Push, PushFails, Pushed, Sweep,
        Stopped, Step, mapVars
    <3> QED BY <3>1, <3>2, PlainAccounted
  <2>7. ASSUME NEW n \in Containers, Remove(t, n) PROVE AccountedFor'
    BY <2>7, RemoveAccounted
  <2> QED BY <1>2, <2>1, <2>2, <2>3, <2>4, <2>5, <2>6, <2>7
          DEF CallStep, DiscoverStep
<1>3. CASE DisconnectCancel \/ DisconnectClear
  BY <1>3, DisconnectAccounted
<1>4. CASE UNCHANGED vars
  BY <1>4 DEF vars, mapVars, AccountedFor
<1> QED BY <1>1, <1>2, <1>3, <1>4 DEF Next

-----------------------------------------------------------------------------
(* The theorems.                                                           *)

LEMMA TypeInvariant == Spec => []TypeInv
BY InitType, NextType, PTL DEF Spec

\* The registry's types are kept, the map holds every server under its own
\* name, and a call on its way through startServer or stopServer has a server
\* in hand (client.go:340-457).
THEOREM TypeCorrect == Spec => []TypeOK
<1>1. TypeInv => TypeOK
  BY DEF TypeInv
<1> QED BY <1>1, TypeInvariant, PTL

\* However many calls of Connect, watchers and calls of Disconnect interleave,
\* every server whose goroutines still receive is the one in the map under its
\* name or about to be cancelled by a stopServer: no container is read twice
\* for good (client.go:343-457).
THEOREM StraysAccountedFor == Spec => []NoStrayReceiver
<1>1. Init => AccountedFor
  <2> SUFFICES ASSUME Init PROVE AccountedFor
    OBVIOUS
  <2>1. Len(srv) = 0
    BY EmptySeq DEF Init
  <2>2. 1..Len(srv) = {}
    BY <2>1
  <2> QED BY <2>2 DEF AccountedFor
<1>2. TypeInv /\ AccountedFor => NoStrayReceiver
  <2>1. TypeInv => DOMAIN srv = 1..Len(srv)
    BY LenType DEF TypeInv
  <2> QED BY <2>1 DEF AccountedFor, NoStrayReceiver, Live
<1> QED BY <1>1, <1>2, TypeInvariant, NextAccounted, PTL DEF Spec

=============================================================================
