------------------------ MODULE PluginStream_proofs ------------------------
(***************************************************************************)
(* Proofs about PluginStream, for every number of connections, every       *)
(* queue, history and channel size and every bound.                        *)
(***************************************************************************)
EXTENDS PluginStream, SequenceTheorems, TLAPS

-----------------------------------------------------------------------------
(* Sequences with a bounded length.                                        *)

LEMMA AppendType ==
  ASSUME NEW S, NEW s \in Seq(S), NEW x \in S
  PROVE  /\ Append(s, x) \in Seq(S)
         /\ Len(Append(s, x)) = Len(s) + 1
         /\ \A i \in 1..Len(s) : Append(s, x)[i] = s[i]
         /\ Append(s, x)[Len(s) + 1] = x
BY AppendProperties

LEMMA TailType ==
  ASSUME NEW S, NEW s \in Seq(S), s # <<>>
  PROVE  /\ Head(s) \in S
         /\ Head(s) = s[1]
         /\ Tail(s) \in Seq(S)
         /\ Len(s) \in Nat \ {0}
         /\ Len(Tail(s)) = Len(s) - 1
         /\ \A i \in 1..Len(Tail(s)) : Tail(s)[i] = s[i + 1]
BY HeadTailProperties, EmptySeq

LEMMA SubSeqType ==
  ASSUME NEW S, NEW s \in Seq(S), NEW m \in Nat, NEW n \in Nat,
         m >= 1, n <= Len(s), m <= n + 1
  PROVE  /\ SubSeq(s, m, n) \in Seq(S)
         /\ Len(SubSeq(s, m, n)) = n - m + 1
         /\ \A i \in 1..Len(SubSeq(s, m, n)) : SubSeq(s, m, n)[i] = s[m + i - 1]
<1>1. CASE m <= n
  BY <1>1, SubSeqProperties
<1>2. CASE m = n + 1
  BY <1>2, SubSeqProperties
<1> QED BY <1>1, <1>2

LEMMA NothingType == /\ NoId \in Ids
                     /\ <<>> \in Seq(Ids)
                     /\ Len(<<>>) = 0
BY EmptySeq DEF NoId, Ids

\* Remember keeps the history a sequence of ids no longer than HistorySize.
LEMMA RememberType ==
  ASSUME NEW h \in Seq(Ids), Len(h) <= HistorySize, NEW ev \in Ids
  PROVE  Remember(h, ev) \in Seq(Ids) /\ Len(Remember(h, ev)) <= HistorySize
<1> USE SizeAssumption
<1>1. CASE Len(h) < HistorySize
  BY <1>1, AppendType DEF Remember
<1>2. CASE ~(Len(h) < HistorySize)
  <2>1. h # <<>>
    BY <1>2
  <2>2. Tail(h) \in Seq(Ids) /\ Len(Tail(h)) = Len(h) - 1
    BY <2>1, TailType
  <2> QED BY <1>2, <2>2, AppendType DEF Remember
<1> QED BY <1>1, <1>2

\* Offer never lets a queue grow beyond QueueSize.
LEMMA OfferType ==
  ASSUME NEW q \in Seq(Ids), Len(q) <= QueueSize, NEW ev \in Ids
  PROVE  Offer(q, ev) \in Seq(Ids) /\ Len(Offer(q, ev)) <= QueueSize
BY SizeAssumption, AppendType DEF Offer

-----------------------------------------------------------------------------
(* Type correctness.                                                       *)

LEMMA InitType == Init => TypeOK
<1> SUFFICES ASSUME Init PROVE TypeOK
  OBVIOUS
<1>1. boot \in Boots /\ seq \in [Boots -> Nat]
  BY SizeAssumption DEF Init, ServerInit, Boots
<1>2. history \in Seq(Ids) /\ Len(history) <= HistorySize
  BY SizeAssumption, NothingType DEF Init, ServerInit
<1>3. /\ queue \in [Conns -> Seq(Ids)]
      /\ \A c \in Conns : Len(queue[c]) <= QueueSize
  BY SizeAssumption, NothingType DEF Init, ServerInit
<1>4. /\ overflowed \in [Conns -> BOOLEAN]
      /\ handler \in [Conns -> HandlerStates]
      /\ held \in [Conns -> Ids]
      /\ resume \in [Conns -> Ids]
      /\ clients \subseteq Conns
  BY NothingType DEF Init, ServerInit, HandlerStates
<1>5. /\ conn \in Conns \cup {NoConn} /\ up \in BOOLEAN
      /\ status \in {"none", "ok", "busy"} /\ wire \in Seq(Ids) /\ torn \in Ids
  BY NothingType DEF Init, LinkInit
<1>6. /\ bpc \in Phases /\ lastID \in Ids /\ partial \in Ids
      /\ receiver \in BOOLEAN /\ ctxDone \in BOOLEAN /\ posted \in Seq(Ids)
      /\ faults \in Nat
  BY NothingType DEF Init, Phases
<1>7. lineCh \in Seq(Ids) /\ Len(lineCh) <= LineCap
  BY LineAssumption, NothingType DEF Init
<1> QED BY <1>1, <1>2, <1>3, <1>4, <1>5, <1>6, <1>7 DEF TypeOK, ServerTypeOK

LEMMA LeaveType ==
  ASSUME TypeOK, NEW c \in Conns, Leave(c), status' \in {"none", "ok", "busy"},
         UNCHANGED streamVars
  PROVE  TypeOK'
<1>1. /\ queue' \in [Conns -> Seq(Ids)]
      /\ \A d \in Conns : Len(queue'[d]) <= QueueSize
  BY SizeAssumption, NothingType DEF TypeOK, ServerTypeOK, Leave
<1>2. /\ clients' \subseteq Conns
      /\ handler' \in [Conns -> HandlerStates]
      /\ overflowed' \in [Conns -> BOOLEAN]
      /\ held' \in [Conns -> Ids]
      /\ up' \in BOOLEAN
  BY NothingType DEF TypeOK, ServerTypeOK, Leave, HandlerStates
<1>3. UNCHANGED <<boot, seq, history, resume, conn, wire, torn>>
  BY DEF Leave
<1> QED BY <1>1, <1>2, <1>3 DEF TypeOK, ServerTypeOK, streamVars

LEMMA PublishType ==
  ASSUME TypeOK, Publish, UNCHANGED streamVars
  PROVE  TypeOK'
<1> DEFINE ev == [boot |-> boot, seq |-> seq[boot] + 1]
<1> USE DEF TypeOK, ServerTypeOK
<1>0. boot \in Boots /\ boot \in Nat /\ seq[boot] \in Nat
  BY SizeAssumption DEF Boots
<1>1. ev \in Ids
  BY <1>0 DEF Ids
<1>2. seq' \in [Boots -> Nat]
  BY <1>0 DEF Publish
<1>3. history' \in Seq(Ids) /\ Len(history') <= HistorySize
  BY <1>1, RememberType DEF Publish
<1>4. /\ queue' \in [Conns -> Seq(Ids)]
      /\ \A c \in Conns : Len(queue'[c]) <= QueueSize
  <2>1. \A c \in Conns : /\ Offer(queue[c], ev) \in Seq(Ids)
                         /\ Len(Offer(queue[c], ev)) <= QueueSize
    BY <1>1, OfferType
  <2>2. queue' = [c \in Conns |->
                    IF c \in clients THEN Offer(queue[c], ev) ELSE queue[c]]
    BY DEF Publish
  <2> QED BY <2>1, <2>2
<1>5. overflowed' \in [Conns -> BOOLEAN]
  BY DEF Publish
<1> QED BY <1>1, <1>2, <1>3, <1>4, <1>5 DEF Publish, linkVars, streamVars

LEMMA HandlerStepType ==
  ASSUME TypeOK, NEW c \in Conns, HandlerStep(c) \/ WriteFails(c),
         UNCHANGED streamVars
  PROVE  TypeOK'
<1>1. CASE CheckRoom(c)
  BY <1>1 DEF CheckRoom, TypeOK, ServerTypeOK, HandlerStates, linkVars, streamVars
<1>2. CASE Refuse(c)
  BY <1>2, LeaveType DEF Refuse, TypeOK, ServerTypeOK
<1>3. CASE Register(c)
  <2>1. queue' \in [Conns -> Seq(Ids)] /\ \A d \in Conns : Len(queue'[d]) <= QueueSize
    <3>1. CASE resume[c].boot = boot
      <4>1. PICK seen \in 0..Len(history) :
              queue' = [queue EXCEPT ![c] = SubSeq(history, seen + 1, Len(history))]
        BY <1>3, <3>1 DEF Register
      <4>2. /\ SubSeq(history, seen + 1, Len(history)) \in Seq(Ids)
            /\ Len(SubSeq(history, seen + 1, Len(history))) <= HistorySize
        BY <4>1, SubSeqType, LenProperties, SizeAssumption DEF TypeOK, ServerTypeOK
      <4>3. Len(SubSeq(history, seen + 1, Len(history))) <= QueueSize
        BY <4>2, ReplayFits, SizeAssumption, LenProperties
      <4> QED BY <4>1, <4>2, <4>3 DEF TypeOK, ServerTypeOK
    <3>2. CASE resume[c].boot # boot
      BY <1>3, <3>2 DEF Register, TypeOK, ServerTypeOK
    <3> QED BY <3>1, <3>2
  <2>2. clients' \subseteq Conns /\ handler' \in [Conns -> HandlerStates]
    BY <1>3 DEF Register, TypeOK, ServerTypeOK, HandlerStates
  <2>3. UNCHANGED <<boot, seq, history, overflowed, held, resume, linkVars>>
    BY <1>3 DEF Register
  <2> QED BY <2>1, <2>2, <2>3 DEF TypeOK, ServerTypeOK, linkVars, streamVars
<1>4. CASE SendHeaders(c)
  BY <1>4 DEF SendHeaders, TypeOK, ServerTypeOK, HandlerStates, streamVars
<1>5. CASE CheckOverflow(c)
  BY <1>5 DEF CheckOverflow, TypeOK, ServerTypeOK, HandlerStates, linkVars, streamVars
<1>6. CASE DropSlowClient(c) \/ WriteFails(c)
  BY <1>6, LeaveType DEF DropSlowClient, WriteFails, TypeOK, ServerTypeOK
<1>7. CASE Poll(c)
  <2>1. queue' \in [Conns -> Seq(Ids)] /\ \A d \in Conns : Len(queue'[d]) <= QueueSize
    <3>1. CASE queue[c] = <<>>
      BY <1>7, <3>1 DEF Poll, TypeOK, ServerTypeOK
    <3>2. CASE queue[c] # <<>>
      <4>1. Tail(queue[c]) \in Seq(Ids) /\ Len(Tail(queue[c])) <= QueueSize
        BY <3>2, TailType, SizeAssumption DEF TypeOK, ServerTypeOK
      <4> QED BY <1>7, <3>2, <4>1 DEF Poll, TypeOK, ServerTypeOK
    <3> QED BY <3>1, <3>2
  <2>2. held' \in [Conns -> Ids]
    <3>1. queue[c] # <<>> => Head(queue[c]) \in Ids
      BY TailType DEF TypeOK, ServerTypeOK
    <3> QED BY <1>7, <3>1 DEF Poll, TypeOK, ServerTypeOK
  <2>3. handler' \in [Conns -> HandlerStates]
    BY <1>7 DEF Poll, TypeOK, ServerTypeOK, HandlerStates
  <2>4. UNCHANGED <<boot, seq, history, clients, overflowed, resume, linkVars>>
    BY <1>7 DEF Poll
  <2> QED BY <2>1, <2>2, <2>3, <2>4 DEF TypeOK, ServerTypeOK, linkVars, streamVars
<1>8. CASE Write(c)
  <2>1. wire' \in Seq(Ids)
    <3>1. held[c] \in Ids /\ wire \in Seq(Ids)
      BY DEF TypeOK, ServerTypeOK
    <3>2. Append(wire, held[c]) \in Seq(Ids)
      BY <3>1, AppendType
    <3> QED BY <1>8, <3>1, <3>2 DEF Write
  <2>2. held' \in [Conns -> Ids] /\ handler' \in [Conns -> HandlerStates]
    BY <1>8, NothingType DEF Write, TypeOK, ServerTypeOK, HandlerStates
  <2>3. UNCHANGED <<boot, seq, history, clients, queue, overflowed, resume,
                    conn, up, status, torn>>
    BY <1>8 DEF Write
  <2> QED BY <2>1, <2>2, <2>3 DEF TypeOK, ServerTypeOK, streamVars
<1> QED BY <1>1, <1>2, <1>3, <1>4, <1>5, <1>6, <1>7, <1>8 DEF HandlerStep

LEMMA HangupType ==
  ASSUME TypeOK, Hangup, faults' \in Nat
  PROVE  TypeOK'
BY NothingType DEF Hangup, TypeOK, ServerTypeOK, serverVars, Phases

LEMMA CutType ==
  ASSUME TypeOK, Cut \/ IdleTimeout
  PROVE  TypeOK'
<1>1. PICK k \in 0..Len(wire) : CutAt(k)
  BY DEF Cut, IdleTimeout
<1>2. wire' \in Seq(Ids)
  BY <1>1, SubSeqType, LenProperties DEF CutAt, TypeOK, ServerTypeOK
<1>3. torn' \in Ids
  <2>1. k < Len(wire) => wire[k + 1] \in Ids
    BY <1>1, ElementOfSeq, LenProperties DEF TypeOK, ServerTypeOK
  <2> QED BY <1>1, <2>1, NothingType DEF CutAt, TypeOK, ServerTypeOK
<1>4. up' \in BOOLEAN
  BY <1>1 DEF CutAt
<1> QED BY <1>2, <1>3, <1>4 DEF Cut, IdleTimeout, TypeOK, ServerTypeOK, serverVars

LEMMA BridgeStepType ==
  ASSUME TypeOK, BridgeStep
  PROVE  TypeOK'
<1>1. CASE Dial
  BY <1>1, NothingType DEF Dial, TypeOK, ServerTypeOK, HandlerStates, Phases
<1>2. CASE Connected \/ StopWaiting
  BY <1>2 DEF Connected, StopWaiting, TypeOK, ServerTypeOK, serverVars, linkVars, Phases
<1>3. CASE DialError \/ StreamEnd
  BY <1>3, HangupType DEF DialError, StreamEnd, TypeOK
<1>4. CASE ReadEvent
  <2>1. Head(wire) \in Ids /\ Tail(wire) \in Seq(Ids)
    BY <1>4, TailType DEF ReadEvent, TypeOK, ServerTypeOK
  <2> QED BY <1>4, <2>1 DEF ReadEvent, TypeOK, ServerTypeOK, serverVars, Phases
<1>5. CASE ReadTorn
  BY <1>5, NothingType DEF ReadTorn, TypeOK, ServerTypeOK, serverVars
<1>6. CASE Dispatch
  <2>1. lineCh' \in Seq(Ids) /\ Len(lineCh') <= LineCap
    BY <1>6, AppendType, LineAssumption, LenProperties DEF Dispatch, TypeOK
  <2> QED BY <1>6, <2>1, NothingType
          DEF Dispatch, TypeOK, ServerTypeOK, serverVars, linkVars, Phases
<1> QED BY <1>1, <1>2, <1>3, <1>4, <1>5, <1>6 DEF BridgeStep

LEMMA NextType == TypeOK /\ [Next]_vars => TypeOK'
<1> SUFFICES ASSUME TypeOK, [Next]_vars PROVE TypeOK'
  OBVIOUS
<1>1. CASE ServerNext /\ UNCHANGED streamVars
  <2>1. CASE Publish
    BY <1>1, <2>1, PublishType
  <2>2. CASE Restart
    <3>1. boot' \in Boots
      BY <2>2, SizeAssumption DEF Restart, TypeOK, ServerTypeOK, Boots
    <3>2. history' \in Seq(Ids) /\ Len(history') <= HistorySize
      BY <2>2, SizeAssumption, NothingType DEF Restart
    <3>3. /\ queue' \in [Conns -> Seq(Ids)]
          /\ \A c \in Conns : Len(queue'[c]) <= QueueSize
      BY <2>2, SizeAssumption, NothingType DEF Restart
    <3>4. /\ clients' \subseteq Conns
          /\ overflowed' \in [Conns -> BOOLEAN]
          /\ handler' \in [Conns -> HandlerStates]
          /\ held' \in [Conns -> Ids]
          /\ up' \in BOOLEAN
      BY <2>2, NothingType DEF Restart, HandlerStates
    <3>5. UNCHANGED <<seq, resume, conn, status, wire, torn>>
      BY <2>2 DEF Restart
    <3> QED BY <1>1, <3>1, <3>2, <3>3, <3>4, <3>5
            DEF TypeOK, ServerTypeOK, streamVars
  <2>3. ASSUME NEW c \in Conns, HandlerStep(c) \/ WriteFails(c)
        PROVE  TypeOK'
    BY <1>1, <2>3, HandlerStepType
  <2> QED BY <1>1, <2>1, <2>2, <2>3 DEF ServerNext
<1>2. CASE BridgeStep
  BY <1>2, BridgeStepType
<1>3. CASE HeaderTimeout
  BY <1>3, HangupType DEF HeaderTimeout, TypeOK
<1>4. CASE Cut \/ IdleTimeout
  BY <1>4, CutType
<1>5. CASE Cancel
  BY <1>5 DEF Cancel, TypeOK, ServerTypeOK, serverVars
<1>6. CASE Receive
  <2>1. posted' \in Seq(Ids) /\ lineCh' \in Seq(Ids) /\ Len(lineCh') <= LineCap
    BY <1>6, TailType, AppendType, LineAssumption DEF Receive, TypeOK
  <2> QED BY <1>6, <2>1 DEF Receive, TypeOK, ServerTypeOK, serverVars, linkVars
<1>7. CASE ReceiverStop
  BY <1>7 DEF ReceiverStop, TypeOK, ServerTypeOK, serverVars, linkVars
<1>8. CASE UNCHANGED vars
  BY <1>8 DEF vars, serverVars, linkVars, streamVars, TypeOK, ServerTypeOK
<1> QED BY <1>1, <1>2, <1>3, <1>4, <1>5, <1>6, <1>7, <1>8 DEF Next

\* Every variable keeps its type, and the plugin's history and client queues
\* and the bridge's line channel never outgrow their capacities.
THEOREM TypeCorrect == Spec => []TypeOK
<1> QED BY InitType, NextType, PTL DEF Spec

-----------------------------------------------------------------------------
(* The order of ids, and increasing sequences.                             *)

LEMMA BeforeTrans ==
  ASSUME NEW x \in Ids, NEW y \in Ids, NEW z \in Ids
  PROVE  /\ Before(x, y) /\ Before(y, z) => Before(x, z)
         /\ AtMost(x, y) /\ Before(y, z) => Before(x, z)
         /\ Before(x, y) /\ AtMost(y, z) => Before(x, z)
         /\ AtMost(x, y) /\ AtMost(y, z) => AtMost(x, z)
         /\ Before(x, y) => AtMost(x, y)
BY DEF Ids, Before, AtMost

\* Appending an id handed out after every id of an increasing sequence.
LEMMA AppendIncreasing ==
  ASSUME NEW s \in Seq(Ids), NEW x \in Ids, Increasing(s), AllBefore(s, x)
  PROVE  Increasing(Append(s, x))
BY AppendType, LenProperties DEF Increasing, AllBefore

\* The head of an increasing sequence comes before its tail.
LEMMA TailIncreasing ==
  ASSUME NEW s \in Seq(Ids), s # <<>>, Increasing(s)
  PROVE  Increasing(Tail(s)) /\ AllAfter(Head(s), Tail(s))
BY TailType, LenProperties DEF Increasing, AllAfter

LEMMA SubSeqIncreasing ==
  ASSUME NEW s \in Seq(Ids), Increasing(s), NEW m \in Nat, NEW n \in Nat,
         m >= 1, n <= Len(s), m <= n + 1
  PROVE  Increasing(SubSeq(s, m, n))
BY SubSeqType, LenProperties DEF Increasing

\* What holds of every element of a sequence holds of the elements of a
\* sequence made from it.
LEMMA AppendAll ==
  ASSUME NEW s \in Seq(Ids), NEW x \in Ids, NEW y \in Ids
  PROVE  /\ AllAfter(y, s) /\ Before(y, x) => AllAfter(y, Append(s, x))
         /\ UpTo(s, y) /\ AtMost(x, y) => UpTo(Append(s, x), y)
BY AppendType, LenProperties DEF AllAfter, UpTo

LEMMA AppendPrecedes ==
  ASSUME NEW s \in Seq(Ids), NEW x \in Ids, NEW t \in Seq(Ids)
  PROVE  /\ Precedes(s, t) /\ AllAfter(x, t) => Precedes(Append(s, x), t)
         /\ Precedes(t, s) /\ AllBefore(t, x) => Precedes(t, Append(s, x))
BY AppendType, LenProperties DEF Precedes, AllAfter, AllBefore

LEMMA TailAll ==
  ASSUME NEW s \in Seq(Ids), s # <<>>, NEW y \in Ids
  PROVE  /\ AllAfter(y, s) => Before(y, Head(s)) /\ AllAfter(y, Tail(s))
         /\ AllBefore(s, y) => Before(Head(s), y) /\ AllBefore(Tail(s), y)
         /\ UpTo(s, y) => AtMost(Head(s), y) /\ UpTo(Tail(s), y)
BY TailType, LenProperties DEF AllAfter, AllBefore, UpTo

LEMMA TailPrecedes ==
  ASSUME NEW s \in Seq(Ids), s # <<>>, NEW t \in Seq(Ids)
  PROVE  /\ Precedes(s, t) => AllAfter(Head(s), t) /\ Precedes(Tail(s), t)
         /\ Precedes(t, s) => AllBefore(t, Head(s)) /\ Precedes(t, Tail(s))
BY TailType, LenProperties DEF Precedes, AllAfter, AllBefore

LEMMA UpToLater ==
  ASSUME NEW s \in Seq(Ids), NEW y \in Ids, NEW z \in Ids, UpTo(s, y)
  PROVE  /\ Before(y, z) => AllBefore(s, z)
         /\ AtMost(y, z) => UpTo(s, z)
BY BeforeTrans, ElementOfSeq, LenProperties DEF UpTo, AllBefore

LEMMA EmptyAll ==
  ASSUME NEW x, NEW t
  PROVE  /\ Increasing(<<>>) /\ AllAfter(x, <<>>) /\ AllBefore(<<>>, x)
         /\ UpTo(<<>>, x) /\ Precedes(<<>>, t) /\ Precedes(t, <<>>)
BY DEF Increasing, AllAfter, AllBefore, UpTo, Precedes

-----------------------------------------------------------------------------
(* The inductive invariant OrderInv.                                       *)

LEMMA BootType ==
  TypeOK => /\ boot \in Boots /\ boot \in Nat
            /\ seq \in [Boots -> Nat] /\ seq[boot] \in Nat
BY SizeAssumption DEF TypeOK, ServerTypeOK, Boots

LEMMA PlacesType == TypeOK => Latest \in Ids /\ Cursor \in Ids
BY SizeAssumption DEF TypeOK, ServerTypeOK, Boots, Latest, Cursor, Ids

LEMMA CurrentIsKnown ==
  ASSUME TypeOK, NEW x \in Ids, Current(x)
  PROVE  AtMost(x, Latest)
BY SizeAssumption
   DEF TypeOK, ServerTypeOK, Boots, Ids, Current, AtMost, Before, Latest

LEMMA InitOrder == Init => OrderInv
<1> SUFFICES ASSUME Init PROVE OrderInv
  OBVIOUS
<1>1. TypeOK
  BY InitType
<1>2. AtMost(Cursor, Latest)
  BY SizeAssumption
     DEF Init, ServerInit, Cursor, Latest, NoId, AtMost, Before
<1>3. DeliveredInv
  BY <1>2, EmptyAll DEF Init, DeliveredInv
<1>4. WireInv /\ HistoryInv
  BY EmptyAll, NothingType DEF Init, ServerInit, LinkInit, WireInv, HistoryInv
<1>5. \A c \in Conns : QueueInv(c)
  BY EmptyAll, NothingType DEF Init, ServerInit, QueueInv
<1>6. \A c \in Conns : LiveInv(c)
  BY DEF Init, LinkInit, LiveInv, Live
<1> QED BY <1>3, <1>4, <1>5, <1>6 DEF OrderInv

\* The newest id only moves forward.
LEMMA LatestGrows ==
  ASSUME TypeOK, TypeOK', UNCHANGED <<bpc, lastID, partial, wire, lineCh, posted>>,
         Before(Latest, Latest'), DeliveredInv, WireInv
  PROVE  DeliveredInv' /\ WireInv'
<1>1. Latest \in Ids /\ Latest' \in Ids /\ Cursor \in Ids /\ Cursor' = Cursor
  <2>1. Latest' \in Ids
    BY SizeAssumption DEF TypeOK, ServerTypeOK, Boots, Latest, Ids
  <2> QED BY <2>1, PlacesType DEF Cursor
<1>2. AtMost(Latest, Latest')
  BY DEF AtMost
<1>3. AtMost(Cursor', Latest')
  BY <1>1, <1>2, BeforeTrans DEF DeliveredInv
<1>4. UpTo(wire, Latest')
  BY <1>1, <1>2, UpToLater DEF WireInv, TypeOK, ServerTypeOK
<1> QED BY <1>1, <1>3, <1>4 DEF DeliveredInv, WireInv

LEMMA PublishOrder ==
  ASSUME TypeOK, TypeOK', OrderInv, Publish, UNCHANGED streamVars
  PROVE  OrderInv'
<1> DEFINE ev == [boot |-> boot, seq |-> seq[boot] + 1]
           Now(x) == x.boot = boot' /\ x.seq <= seq'[boot']
<1>0. boot \in Boots /\ boot \in Nat /\ seq \in [Boots -> Nat] /\ seq[boot] \in Nat
  BY BootType
<1>1. /\ boot' = boot
      /\ seq'[boot] = seq[boot] + 1
      /\ ev \in Ids
      /\ Latest \in Ids
      /\ history \in Seq(Ids)
      /\ wire \in Seq(Ids)
  BY <1>0, PlacesType DEF Ids, Publish, TypeOK, ServerTypeOK
<1>2. Latest' = ev /\ Before(Latest, ev)
  BY <1>0, <1>1 DEF Latest, Before
<1>3. DeliveredInv' /\ WireInv'
  <2>1. UNCHANGED <<bpc, lastID, partial, wire, lineCh, posted>>
    BY DEF Publish, linkVars, streamVars
  <2>2. Before(Latest, Latest')
    BY <1>2
  <2> QED BY <2>1, <2>2, LatestGrows DEF OrderInv
<1>4. \A x \in Ids : Current(x) => Now(x) /\ Before(x, ev)
  BY <1>0, <1>1 DEF Current, Before, Ids
<1>5. Now(ev)
  BY <1>0, <1>1 DEF Current
<1>6. \A s \in Seq(Ids) :
        (\A i \in 1..Len(s) : Current(s[i])) =>
          /\ AllBefore(s, ev)
          /\ \A i \in 1..Len(s) : Now(s[i])
          /\ \A i \in 1..Len(Append(s, ev)) : Now(Append(s, ev)[i])
  <2> SUFFICES ASSUME NEW s \in Seq(Ids), \A i \in 1..Len(s) : Current(s[i])
               PROVE  /\ AllBefore(s, ev)
                      /\ \A i \in 1..Len(s) : Now(s[i])
                      /\ \A i \in 1..Len(Append(s, ev)) : Now(Append(s, ev)[i])
    OBVIOUS
  <2>1. \A i \in 1..Len(s) : s[i] \in Ids
    BY ElementOfSeq
  <2>2. \A i \in 1..Len(s) : Now(s[i]) /\ Before(s[i], ev)
    BY <1>4, <2>1
  <2>3. ASSUME NEW i \in 1..Len(Append(s, ev))
        PROVE  Now(Append(s, ev)[i])
    <3>1. CASE i = Len(s) + 1
      <4>1. Append(s, ev)[i] = ev
        BY <1>1, <3>1, AppendType
      <4> QED BY <4>1, <1>5
    <3>2. CASE i # Len(s) + 1
      <4>1. i \in 1..Len(s) /\ Append(s, ev)[i] = s[i]
        BY <1>1, <2>3, <3>2, AppendType, LenProperties
      <4> QED BY <4>1, <2>2
    <3> QED BY <3>1, <3>2
  <2> QED BY <2>2, <2>3 DEF AllBefore
<1>7. HistoryInv'
  <2>1. CASE Len(history) < HistorySize
    <3>1. history' = Append(history, ev)
      BY <2>1 DEF Publish, Remember
    <3>2. Increasing(history) /\ \A i \in 1..Len(history) : Current(history[i])
      BY DEF OrderInv, HistoryInv
    <3>3. AllBefore(history, ev) /\ \A i \in 1..Len(history') : Now(history'[i])
      BY <1>1, <1>6, <3>1, <3>2
    <3>4. Increasing(history')
      BY <1>1, <3>1, <3>2, <3>3, AppendIncreasing
    <3> QED BY <3>3, <3>4 DEF HistoryInv, Current
  <2>2. CASE ~(Len(history) < HistorySize)
    <3>1. history' = Append(Tail(history), ev)
      BY <2>2 DEF Publish, Remember
    <3>2. history # <<>>
      BY <2>2, SizeAssumption, NothingType
    <3>3. Tail(history) \in Seq(Ids) /\ Increasing(Tail(history))
      BY <1>1, <3>2, TailType, TailIncreasing DEF HistoryInv, OrderInv
    <3>4. \A i \in 1..Len(Tail(history)) : Current(Tail(history)[i])
      BY <1>1, <3>2, TailType, LenProperties DEF HistoryInv, OrderInv
    <3>5. /\ AllBefore(Tail(history), ev)
          /\ \A i \in 1..Len(history') : Now(history'[i])
      BY <1>1, <1>6, <3>1, <3>3, <3>4
    <3>6. Increasing(history')
      BY <1>1, <3>1, <3>3, <3>5, AppendIncreasing
    <3> QED BY <3>5, <3>6 DEF HistoryInv, Current
  <2> QED BY <2>1, <2>2
<1>8. ASSUME NEW c \in Conns
      PROVE  QueueInv(c)' /\ LiveInv(c)'
  <2>1. QueueInv(c) /\ LiveInv(c) /\ queue[c] \in Seq(Ids) /\ held[c] \in Ids
    BY DEF OrderInv, TypeOK, ServerTypeOK
  <2>2. UNCHANGED <<held, handler, clients, resume, conn, up, status, wire, bpc,
                    lastID, partial>>
    BY DEF Publish, linkVars, streamVars
  <2>3. held[c] # NoId => Now(held[c])
    BY <1>4, <2>1 DEF QueueInv
  <2>4. CASE queue'[c] = queue[c]
    BY <1>6, <2>1, <2>2, <2>3, <2>4 DEF QueueInv, LiveInv, Live, Cursor, Current
  <2>5. CASE c \in clients /\ queue'[c] = Append(queue[c], ev)
    <3>1. AllBefore(queue[c], ev)
      BY <1>6, <2>1 DEF QueueInv
    <3>2. Increasing(queue'[c])
      BY <1>1, <2>1, <2>5, <3>1, AppendIncreasing DEF QueueInv
    <3>3. \A i \in 1..Len(queue'[c]) : Now(queue'[c][i])
      BY <1>6, <2>1, <2>5 DEF QueueInv
    <3>4. held[c] # NoId => AllAfter(held[c], queue'[c])
      BY <1>1, <1>4, <2>1, <2>5, AppendAll DEF QueueInv
    <3>5. QueueInv(c)'
      BY <2>1, <2>2, <2>3, <2>5, <3>2, <3>3, <3>4 DEF QueueInv, Current
    <3>6. Before(Cursor, ev) /\ Cursor \in Ids
      BY <1>1, <1>2, PlacesType, BeforeTrans DEF OrderInv, DeliveredInv
    <3>7. AllBefore(wire, ev)
      BY <1>1, <1>2, UpToLater DEF OrderInv, WireInv
    <3>8. Live(c) => AllAfter(Cursor, queue'[c]) /\ Precedes(wire, queue'[c])
      BY <1>1, <2>1, <2>5, <3>6, <3>7, AppendAll, AppendPrecedes DEF LiveInv
    <3>9. LiveInv(c)'
      BY <2>1, <2>2, <3>8 DEF LiveInv, Live, Cursor
    <3> QED BY <3>5, <3>9
  <2>6. queue'[c] = queue[c] \/ (c \in clients /\ queue'[c] = Append(queue[c], ev))
    BY DEF Publish, Offer
  <2> QED BY <2>4, <2>5, <2>6
<1> QED BY <1>3, <1>7, <1>8 DEF OrderInv

\* A step of a handler that leaves the ids and the wire alone.
LEMMA QuietOrder ==
  ASSUME TypeOK, OrderInv, UNCHANGED streamVars,
         UNCHANGED <<boot, seq, history, wire>>
  PROVE  DeliveredInv' /\ WireInv' /\ HistoryInv'
BY DEF OrderInv, DeliveredInv, WireInv, HistoryInv, Cursor, Latest, Current,
       streamVars

\* Leaving handleEvents empties the handler's own state only.
LEMMA LeaveOrder ==
  ASSUME TypeOK, OrderInv, NEW c \in Conns, Leave(c), UNCHANGED streamVars,
         status' = status \/ conn = c
  PROVE  OrderInv'
<1>1. DeliveredInv' /\ WireInv' /\ HistoryInv'
  BY QuietOrder DEF Leave
<1>2. ASSUME NEW d \in Conns
      PROVE  QueueInv(d)' /\ LiveInv(d)'
  <2>1. QueueInv(d) /\ LiveInv(d)
    BY DEF OrderInv
  <2>2. CASE d = c
    <3>1. /\ queue'[c] = <<>> /\ held'[c] = NoId /\ handler'[c] = "free"
          /\ c \notin clients' /\ (conn' = c => ~up')
      BY DEF Leave, TypeOK, ServerTypeOK
    <3>2. Increasing(queue'[c]) /\ Len(queue'[c]) = 0
      BY <3>1, EmptyAll, NothingType
    <3> QED BY <2>2, <3>1, <3>2 DEF QueueInv, LiveInv, Live
  <2>3. CASE d # c
    <3>1. /\ queue'[d] = queue[d] /\ held'[d] = held[d]
          /\ handler'[d] = handler[d] /\ resume'[d] = resume[d]
          /\ (d \in clients' <=> d \in clients)
          /\ (conn' = d => up' = up /\ conn = d /\ status' = status)
      BY <2>3 DEF Leave, TypeOK, ServerTypeOK
    <3>2. UNCHANGED <<boot, seq, wire, bpc, lastID, partial>>
      BY DEF Leave, streamVars
    <3> QED BY <2>1, <3>1, <3>2 DEF QueueInv, LiveInv, Live, Cursor, Current
  <2> QED BY <2>2, <2>3
<1> QED BY <1>1, <1>2 DEF OrderInv

LEMMA RegisterOrder ==
  ASSUME TypeOK, TypeOK', OrderInv, NEW c \in Conns, Register(c),
         UNCHANGED streamVars
  PROVE  OrderInv'
<1>1. DeliveredInv' /\ WireInv' /\ HistoryInv'
  BY QuietOrder DEF Register, linkVars
<1>2. /\ handler[c] = "register" /\ handler'[c] = "headers"
      /\ clients' = clients \cup {c} /\ held' = held
      /\ \A d \in Conns \ {c} : queue'[d] = queue[d] /\ handler'[d] = handler[d]
      /\ UNCHANGED <<boot, seq, history, resume, linkVars>>
      /\ history \in Seq(Ids)
  BY DEF Register, TypeOK, ServerTypeOK
<1>3. queue[c] = <<>> /\ held[c] = NoId
  BY <1>2 DEF OrderInv, QueueInv
<1>4. /\ Increasing(queue'[c])
      /\ \A i \in 1..Len(queue'[c]) : Current(queue'[c][i])
      /\ Live(c) => AllAfter(lastID, queue'[c])
  <2>1. CASE resume[c].boot = boot
    <3>1. PICK seen \in 0..Len(history) :
            /\ \A i \in 1..Len(history) : i <= seen <=> history[i].seq <= resume[c].seq
            /\ queue' = [queue EXCEPT ![c] = SubSeq(history, seen + 1, Len(history))]
      BY <2>1 DEF Register
    <3>2. queue'[c] = SubSeq(history, seen + 1, Len(history))
      BY <3>1 DEF TypeOK, ServerTypeOK
    <3>3. Len(history) \in Nat
      BY <1>2, LenProperties
    <3>4. Increasing(queue'[c])
      BY <1>2, <3>2, <3>3, SubSeqIncreasing DEF OrderInv, HistoryInv
    <3>5. ASSUME NEW i \in 1..Len(queue'[c])
          PROVE  /\ Current(queue'[c][i])
                 /\ queue'[c][i].seq > resume[c].seq
      <4>1. seen + i \in 1..Len(history) /\ queue'[c][i] = history[seen + i]
        BY <1>2, <3>2, <3>3, SubSeqType
      <4>2. ~(seen + i <= seen)
        BY <3>3
      <4>3. history[seen + i].seq \in Nat /\ resume[c].seq \in Nat
        <5>1. history[seen + i] \in Ids
          BY <1>2, <4>1, ElementOfSeq
        <5>2. resume[c] \in Ids
          BY DEF TypeOK, ServerTypeOK
        <5> QED BY <5>1, <5>2 DEF Ids
      <4>4. Current(history[seen + i])
        BY <4>1 DEF OrderInv, HistoryInv
      <4>5. ~(history[seen + i].seq <= resume[c].seq)
        BY <3>1, <4>1, <4>2
      <4> QED BY <4>1, <4>3, <4>4, <4>5
    <3>6. Live(c) => resume[c] = lastID
      BY <1>2 DEF OrderInv, LiveInv
    <3>7. Live(c) => AllAfter(lastID, queue'[c])
      BY <2>1, <3>5, <3>6 DEF AllAfter, Before, Current, Ids, TypeOK, ServerTypeOK
    <3> QED BY <3>4, <3>5, <3>7
  <2>2. CASE resume[c].boot # boot
    <3>1. queue'[c] = <<>>
      BY <1>3, <2>2 DEF Register
    <3> QED BY <3>1, EmptyAll, NothingType
  <2> QED BY <2>1, <2>2
<1>5. QueueInv(c)' /\ LiveInv(c)'
  <2>1. QueueInv(c)'
    BY <1>2, <1>3, <1>4 DEF QueueInv, Current
  <2>2. Live(c) => wire = <<>> /\ bpc = "dial"
    BY <1>2 DEF OrderInv, LiveInv
  <2>3. Live(c) => Precedes(wire, queue'[c]) /\ AllAfter(Cursor, queue'[c])
    BY <1>4, <2>2, EmptyAll DEF Cursor
  <2> QED BY <1>2, <1>3, <2>1, <2>3 DEF LiveInv, Live, Cursor, linkVars, streamVars
<1>6. ASSUME NEW d \in Conns, d # c
      PROVE  QueueInv(d)' /\ LiveInv(d)'
  <2>1. QueueInv(d) /\ LiveInv(d)
    BY DEF OrderInv
  <2>2. UNCHANGED <<bpc, lastID, partial>>
    BY DEF streamVars
  <2> QED BY <1>2, <1>6, <2>1, <2>2
          DEF QueueInv, LiveInv, Live, Cursor, Current, linkVars
<1> QED BY <1>1, <1>5, <1>6 DEF OrderInv

LEMMA PollOrder ==
  ASSUME TypeOK, TypeOK', OrderInv, NEW c \in Conns, Poll(c), UNCHANGED streamVars
  PROVE  OrderInv'
<1>1. DeliveredInv' /\ WireInv' /\ HistoryInv'
  BY QuietOrder DEF Poll, linkVars
<1>2. /\ handler[c] = "poll" /\ handler'[c] = "write"
      /\ \A d \in Conns \ {c} : /\ queue'[d] = queue[d] /\ held'[d] = held[d]
                               /\ handler'[d] = handler[d]
      /\ UNCHANGED <<boot, seq, clients, resume, linkVars, bpc, lastID, partial>>
      /\ queue[c] \in Seq(Ids) /\ wire \in Seq(Ids)
  BY DEF Poll, TypeOK, ServerTypeOK, streamVars
<1>3. \A d \in Conns : QueueInv(d) /\ LiveInv(d)
  BY DEF OrderInv
<1>4. ASSUME NEW d \in Conns, d # c
      PROVE  QueueInv(d)' /\ LiveInv(d)'
  BY <1>2, <1>3, <1>4 DEF QueueInv, LiveInv, Live, Cursor, Current, linkVars
<1>5. CASE queue[c] = <<>>
  <2>1. queue'[c] = queue[c] /\ held'[c] = held[c]
    BY <1>5 DEF Poll
  <2>2. QueueInv(c)' /\ LiveInv(c)'
    BY <1>2, <1>3, <2>1 DEF QueueInv, LiveInv, Live, Cursor, Current, linkVars
  <2> QED BY <1>1, <1>4, <2>2 DEF OrderInv
<1>6. CASE queue[c] # <<>>
  <2>1. queue'[c] = Tail(queue[c]) /\ held'[c] = Head(queue[c])
    BY <1>6 DEF Poll, TypeOK, ServerTypeOK
  <2>2. Increasing(queue'[c]) /\ AllAfter(held'[c], queue'[c])
    BY <1>2, <1>3, <1>6, <2>1, TailIncreasing DEF QueueInv
  <2>3. /\ Current(held'[c])
        /\ \A i \in 1..Len(queue'[c]) : Current(queue'[c][i])
    BY <1>2, <1>3, <1>6, <2>1, TailType, LenProperties DEF QueueInv
  <2>4. QueueInv(c)'
    BY <1>2, <1>3, <2>2, <2>3 DEF QueueInv, Current
  <2>5. ASSUME Live(c)
        PROVE  /\ AllAfter(Cursor, queue'[c]) /\ Precedes(wire, queue'[c])
               /\ Before(Cursor, held'[c]) /\ AllBefore(wire, held'[c])
    BY <1>2, <1>3, <1>6, <2>1, <2>5, PlacesType, TailAll, TailPrecedes DEF LiveInv
  <2>6. LiveInv(c)'
    BY <1>2, <2>5 DEF LiveInv, Live, Cursor, linkVars
  <2> QED BY <1>1, <1>4, <2>4, <2>6 DEF OrderInv
<1> QED BY <1>5, <1>6

LEMMA WriteOrder ==
  ASSUME TypeOK, TypeOK', OrderInv, NEW c \in Conns, Write(c), UNCHANGED streamVars
  PROVE  OrderInv'
<1>1. /\ handler[c] = "write" /\ handler'[c] = "check" /\ held'[c] = NoId
      /\ \A d \in Conns \ {c} : held'[d] = held[d] /\ handler'[d] = handler[d]
      /\ UNCHANGED <<boot, seq, history, clients, queue, resume, conn, up, status>>
      /\ UNCHANGED <<bpc, lastID, partial, lineCh, posted>>
      /\ held[c] \in Ids /\ wire \in Seq(Ids) /\ queue[c] \in Seq(Ids)
  BY DEF Write, TypeOK, ServerTypeOK, streamVars
<1>2. \A d \in Conns : QueueInv(d) /\ LiveInv(d)
  BY DEF OrderInv
<1>3. DeliveredInv' /\ HistoryInv' /\ \A d \in Conns : QueueInv(d)'
  <2>1. DeliveredInv' /\ HistoryInv'
    BY <1>1 DEF OrderInv, DeliveredInv, HistoryInv, Cursor, Latest, Current
  <2>2. \A d \in Conns : QueueInv(d)'
    BY <1>1, <1>2 DEF QueueInv, Current
  <2> QED BY <2>1, <2>2
<1>4. CASE ~(Live(c) /\ held[c] # NoId)
  <2>1. wire' = wire
    BY <1>4 DEF Write
  <2>2. WireInv'
    BY <1>1, <2>1 DEF OrderInv, WireInv, Cursor, Latest
  <2>3. \A d \in Conns : LiveInv(d)'
    BY <1>1, <1>2, <2>1 DEF LiveInv, Live, Cursor
  <2> QED BY <1>3, <2>2, <2>3 DEF OrderInv
<1>5. CASE Live(c) /\ held[c] # NoId
  <2>1. wire' = Append(wire, held[c])
    BY <1>5 DEF Write
  <2>2. Before(Cursor, held[c]) /\ AllBefore(wire, held[c])
    BY <1>2, <1>5 DEF LiveInv
  <2>3. AtMost(held[c], Latest)
    BY <1>1, <1>2, <1>5, CurrentIsKnown DEF QueueInv
  <2>4. Cursor' = Cursor /\ Latest' = Latest /\ Cursor \in Ids /\ Latest \in Ids
    BY <1>1, PlacesType DEF Cursor, Latest
  <2>5. Increasing(wire')
    BY <1>1, <2>1, <2>2, AppendIncreasing DEF OrderInv, WireInv
  <2>6. AllAfter(Cursor, wire') /\ UpTo(wire', Latest)
    BY <1>1, <2>1, <2>2, <2>3, <2>4, AppendAll DEF OrderInv, WireInv
  <2>7. WireInv'
    BY <2>4, <2>5, <2>6 DEF WireInv
  <2>8. Precedes(wire', queue[c])
    <3>1. AllAfter(held[c], queue[c]) /\ Precedes(wire, queue[c])
      BY <1>2, <1>5 DEF QueueInv, LiveInv
    <3> QED BY <1>1, <2>1, <3>1, AppendPrecedes
  <2>9. ASSUME NEW d \in Conns
        PROVE  LiveInv(d)'
    <3>1. d # c => ~Live(d)'
      BY <1>1, <1>5 DEF Live
    <3>2. LiveInv(c)'
      BY <1>1, <1>2, <1>5, <2>4, <2>8 DEF LiveInv, Live
    <3> QED BY <3>1, <3>2 DEF LiveInv
  <2> QED BY <1>3, <2>7, <2>9 DEF OrderInv
<1> QED BY <1>4, <1>5

\* CheckRoom, SendHeaders and CheckOverflow only move a handler on.
LEMMA MoveOrder ==
  ASSUME TypeOK, TypeOK', OrderInv, NEW c \in Conns,
         CheckRoom(c) \/ SendHeaders(c) \/ CheckOverflow(c), UNCHANGED streamVars
  PROVE  OrderInv'
<1>1. /\ UNCHANGED <<boot, seq, history, clients, queue, held, resume, conn, up, wire>>
      /\ UNCHANGED <<bpc, lastID, partial>>
      /\ \A d \in Conns \ {c} : handler'[d] = handler[d]
      /\ \/ handler[c] = "request" /\ handler'[c] = "register" /\ status' = status
         \/ handler[c] = "headers" /\ handler'[c] = "check"
         \/ handler[c] = "check" /\ handler'[c] = "poll"
      /\ status' = status \/ conn = c
  BY DEF CheckRoom, SendHeaders, CheckOverflow, Live, linkVars, streamVars,
         TypeOK, ServerTypeOK
<1>2. DeliveredInv' /\ WireInv' /\ HistoryInv'
  BY <1>1, QuietOrder
<1>3. ASSUME NEW d \in Conns
      PROVE  QueueInv(d)' /\ LiveInv(d)'
  <2>1. QueueInv(d) /\ LiveInv(d)
    BY DEF OrderInv
  <2>2. QueueInv(d)'
    BY <1>1, <2>1 DEF QueueInv, Current
  <2>3. LiveInv(d)'
    BY <1>1, <2>1 DEF LiveInv, Live, Cursor
  <2> QED BY <2>2, <2>3
<1> QED BY <1>2, <1>3 DEF OrderInv

LEMMA RestartOrder ==
  ASSUME TypeOK, TypeOK', OrderInv, Restart, UNCHANGED streamVars
  PROVE  OrderInv'
<1>1. DeliveredInv' /\ WireInv'
  <2>1. Before(Latest, Latest')
    BY BootType DEF Restart, Latest, Before
  <2> QED BY <2>1, LatestGrows DEF OrderInv, Restart, streamVars
<1>2. HistoryInv'
  BY EmptyAll, NothingType DEF Restart, HistoryInv
<1>3. \A c \in Conns : QueueInv(c)'
  BY EmptyAll, NothingType DEF Restart, QueueInv
<1>4. \A c \in Conns : LiveInv(c)'
  BY DEF Restart, LiveInv, Live
<1> QED BY <1>1, <1>2, <1>3, <1>4 DEF OrderInv

LEMMA ServerOrder ==
  ASSUME TypeOK, TypeOK', OrderInv, ServerNext, UNCHANGED streamVars
  PROVE  OrderInv'
<1>1. CASE Publish
  BY <1>1, PublishOrder
<1>2. CASE Restart
  BY <1>2, RestartOrder
<1>3. ASSUME NEW c \in Conns, HandlerStep(c) \/ WriteFails(c)
      PROVE  OrderInv'
  <2>1. CASE CheckRoom(c) \/ SendHeaders(c) \/ CheckOverflow(c)
    BY <2>1, MoveOrder
  <2>2. CASE Refuse(c) \/ DropSlowClient(c) \/ WriteFails(c)
    BY <2>2, LeaveOrder DEF Refuse, DropSlowClient, WriteFails, Live
  <2>3. CASE Register(c)
    BY <2>3, RegisterOrder
  <2>4. CASE Poll(c)
    BY <2>4, PollOrder
  <2>5. CASE Write(c)
    BY <2>5, WriteOrder
  <2> QED BY <1>3, <2>1, <2>2, <2>3, <2>4, <2>5 DEF HandlerStep
<1> QED BY <1>1, <1>2, <1>3 DEF ServerNext

\* A step that only touches the connection's end or the control state of the
\* bridge: nothing in the server moves, and no handler is live afterwards.
LEMMA DeadOrder ==
  ASSUME TypeOK, OrderInv, UNCHANGED serverVars, ~up',
         UNCHANGED <<lastID, lineCh, posted>>, Cursor' = Cursor,
         bpc' = "dispatch" => bpc = "dispatch",
         Increasing(wire'), AllAfter(Cursor, wire'), UpTo(wire', Latest)
  PROVE  OrderInv'
<1>1. DeliveredInv' /\ WireInv' /\ HistoryInv'
  <2>1. Latest' = Latest
    BY DEF Latest, serverVars
  <2>2. bpc' = "dispatch" => Before(lastID', partial')
    BY DEF Cursor, OrderInv, DeliveredInv
  <2> QED BY <2>1, <2>2
          DEF OrderInv, DeliveredInv, WireInv, HistoryInv, Current, serverVars
<1>2. \A c \in Conns : QueueInv(c)'
  BY DEF OrderInv, QueueInv, Current, serverVars
<1>3. \A c \in Conns : LiveInv(c)'
  BY DEF LiveInv, Live
<1> QED BY <1>1, <1>2, <1>3 DEF OrderInv

LEMMA HangupOrder ==
  ASSUME TypeOK, OrderInv, Hangup, bpc # "dispatch"
  PROVE  OrderInv'
<1>1. wire' = <<>> /\ ~up' /\ bpc' # "dispatch"
  BY DEF Hangup
<1>2. Cursor' = Cursor
  BY <1>1 DEF Hangup, Cursor
<1> QED BY <1>1, <1>2, DeadOrder, EmptyAll DEF Hangup

LEMMA CutOrder ==
  ASSUME TypeOK, OrderInv, Cut \/ IdleTimeout
  PROVE  OrderInv'
<1>1. PICK k \in 0..Len(wire) : CutAt(k)
  BY DEF Cut, IdleTimeout
<1>2. wire \in Seq(Ids) /\ Len(wire) \in Nat
  BY LenProperties DEF TypeOK, ServerTypeOK
<1>3. wire' = SubSeq(wire, 1, k) /\ ~up'
  BY <1>1 DEF CutAt
<1>4. Increasing(wire')
  BY <1>2, <1>3, SubSeqIncreasing DEF OrderInv, WireInv
<1>5. \A i \in 1..Len(wire') : i \in 1..Len(wire) /\ wire'[i] = wire[i]
  BY <1>2, <1>3, SubSeqType
<1>6. AllAfter(Cursor, wire') /\ UpTo(wire', Latest)
  BY <1>5 DEF OrderInv, WireInv, AllAfter, UpTo
<1>7. Cursor' = Cursor /\ (bpc' = "dispatch" => bpc = "dispatch")
  BY DEF Cut, IdleTimeout, Cursor
<1> QED BY <1>3, <1>4, <1>6, <1>7, DeadOrder DEF Cut, IdleTimeout

\* A step that leaves the link and the bridge's ids alone.
LEMMA IdleOrder ==
  ASSUME TypeOK, OrderInv, UNCHANGED <<serverVars, conn, up, status, wire>>,
         UNCHANGED <<lastID, lineCh, posted>>, Cursor' = Cursor,
         bpc' = "dispatch" => bpc = "dispatch",
         bpc' = bpc \/ bpc # "dial" \/ status # "none"
  PROVE  OrderInv'
<1>1. DeliveredInv' /\ WireInv' /\ HistoryInv'
  <2>1. Latest' = Latest
    BY DEF Latest, serverVars
  <2>2. bpc' = "dispatch" => Before(lastID', partial')
    BY DEF Cursor, OrderInv, DeliveredInv
  <2> QED BY <2>1, <2>2
          DEF OrderInv, DeliveredInv, WireInv, HistoryInv, Current, serverVars
<1>2. \A c \in Conns : QueueInv(c)'
  BY DEF OrderInv, QueueInv, Current, serverVars
<1>3. \A c \in Conns : LiveInv(c)'
  BY DEF OrderInv, LiveInv, Live, serverVars
<1> QED BY <1>1, <1>2, <1>3 DEF OrderInv

LEMMA DialOrder ==
  ASSUME TypeOK, OrderInv, Dial
  PROVE  OrderInv'
<1>1. PICK c \in Conns : /\ handler[c] = "free"
                         /\ handler' = [handler EXCEPT ![c] = "request"]
                         /\ resume' = [resume EXCEPT ![c] = lastID]
                         /\ conn' = c
  BY DEF Dial
<1>2. /\ bpc = "backoff" /\ bpc' = "dial" /\ wire' = <<>> /\ status' = "none"
      /\ UNCHANGED <<boot, seq, history, clients, queue, held, lastID, lineCh, posted>>
      /\ handler'[c] = "request" /\ resume'[c] = lastID
      /\ \A d \in Conns \ {c} : handler'[d] = handler[d]
  BY <1>1 DEF Dial, TypeOK, ServerTypeOK
<1>3. Cursor' = Cursor /\ Latest' = Latest
  BY <1>2 DEF Cursor, Latest
<1>4. DeliveredInv' /\ WireInv' /\ HistoryInv'
  BY <1>2, <1>3, EmptyAll, NothingType
     DEF OrderInv, DeliveredInv, WireInv, HistoryInv, Current
<1>5. \A d \in Conns : QueueInv(d)'
  BY <1>1, <1>2 DEF OrderInv, QueueInv, Current
<1>6. ASSUME NEW d \in Conns, Live(d)'
      PROVE  LiveInv(d)'
  <2>1. d = c
    BY <1>1, <1>6 DEF Live
  <2>2. queue'[c] = <<>> /\ held'[c] = NoId
    BY <1>1, <1>2 DEF OrderInv, QueueInv
  <2> QED BY <1>2, <2>1, <2>2, EmptyAll DEF LiveInv
<1>7. \A d \in Conns : LiveInv(d)'
  BY <1>6 DEF LiveInv
<1> QED BY <1>4, <1>5, <1>7 DEF OrderInv

LEMMA ReadOrder ==
  ASSUME TypeOK, OrderInv, ReadEvent
  PROVE  OrderInv'
<1>1. /\ bpc = "read" /\ bpc' = "dispatch" /\ wire # <<>>
      /\ partial' = Head(wire) /\ wire' = Tail(wire) /\ wire \in Seq(Ids)
      /\ UNCHANGED <<serverVars, conn, up, lastID, lineCh, posted>>
  BY DEF ReadEvent, TypeOK, ServerTypeOK
<1>2. Cursor = lastID /\ Cursor' = Head(wire) /\ Latest' = Latest
  BY <1>1 DEF Cursor, Latest, serverVars
<1>3. Head(wire) \in Ids /\ Latest \in Ids /\ lastID \in Ids
  BY <1>1, TailType, PlacesType DEF TypeOK
<1>4. Before(lastID, Head(wire)) /\ AtMost(Head(wire), Latest) /\ UpTo(wire', Latest)
  BY <1>1, <1>2, <1>3, TailAll DEF OrderInv, WireInv
<1>5. Increasing(wire') /\ AllAfter(Head(wire), wire')
  BY <1>1, TailIncreasing DEF OrderInv, WireInv
<1>6. DeliveredInv' /\ WireInv' /\ HistoryInv'
  BY <1>1, <1>2, <1>4, <1>5
     DEF OrderInv, DeliveredInv, WireInv, HistoryInv, Current, serverVars
<1>7. \A c \in Conns : QueueInv(c)'
  BY <1>1 DEF OrderInv, QueueInv, Current, serverVars
<1>8. ASSUME NEW c \in Conns, Live(c)'
      PROVE  LiveInv(c)'
  <2>1. Live(c) /\ LiveInv(c) /\ queue[c] \in Seq(Ids) /\ held[c] \in Ids
    BY <1>1, <1>8 DEF Live, OrderInv, TypeOK, ServerTypeOK
  <2>2. AllAfter(Head(wire), queue[c]) /\ Precedes(wire', queue[c])
    BY <1>1, <2>1, TailPrecedes DEF LiveInv
  <2>3. held[c] # NoId => Before(Head(wire), held[c]) /\ AllBefore(wire', held[c])
    BY <1>1, <2>1, TailAll DEF LiveInv
  <2>4. handler[c] \notin {"request", "register"}
    BY <1>1, <2>1 DEF LiveInv
  <2> QED BY <1>1, <1>2, <2>2, <2>3, <2>4 DEF LiveInv, serverVars
<1>9. \A c \in Conns : LiveInv(c)'
  BY <1>8 DEF LiveInv
<1> QED BY <1>6, <1>7, <1>9 DEF OrderInv

LEMMA DispatchOrder ==
  ASSUME TypeOK, OrderInv, Dispatch
  PROVE  OrderInv'
<1>1. /\ bpc = "dispatch" /\ bpc' = "read" /\ lastID' = partial
      /\ UNCHANGED <<serverVars, linkVars, posted>>
      /\ lineCh \in Seq(Ids) /\ posted \in Seq(Ids) /\ partial \in Ids /\ lastID \in Ids
      /\ lineCh' = lineCh \/ lineCh' = Append(lineCh, partial)
  BY DEF Dispatch, TypeOK
<1>2. Cursor = partial /\ Cursor' = partial /\ Latest' = Latest
  BY <1>1 DEF Cursor, Latest, serverVars
<1>3. /\ Before(lastID, partial)
      /\ Increasing(posted) /\ Increasing(lineCh) /\ Precedes(posted, lineCh)
      /\ UpTo(posted, lastID) /\ UpTo(lineCh, lastID) /\ AtMost(partial, Latest)
  BY <1>1, <1>2 DEF OrderInv, DeliveredInv
<1>4. /\ AllBefore(posted, partial) /\ AllBefore(lineCh, partial)
      /\ UpTo(posted, partial) /\ UpTo(lineCh, partial)
  <2>1. AtMost(lastID, partial)
    BY <1>3 DEF AtMost
  <2> QED BY <1>1, <1>3, <2>1, UpToLater
<1>5. ASSUME lineCh' = lineCh
      PROVE  DeliveredInv'
  BY <1>1, <1>2, <1>3, <1>4, <1>5 DEF DeliveredInv
<1>6. ASSUME lineCh' = Append(lineCh, partial)
      PROVE  DeliveredInv'
  <2>1. Increasing(lineCh')
    BY <1>1, <1>3, <1>4, <1>6, AppendIncreasing
  <2>2. Precedes(posted, lineCh')
    BY <1>1, <1>3, <1>4, <1>6, AppendPrecedes
  <2>3. UpTo(lineCh', partial)
    BY <1>1, <1>4, <1>6, AppendAll DEF AtMost
  <2>4. AtMost(Cursor', Latest')
    BY <1>2, <1>3
  <2> QED BY <1>1, <1>3, <1>4, <2>1, <2>2, <2>3, <2>4 DEF DeliveredInv
<1>7. DeliveredInv'
  BY <1>1, <1>5, <1>6
<1>8. WireInv' /\ HistoryInv'
  BY <1>1, <1>2 DEF OrderInv, WireInv, HistoryInv, Current, serverVars, linkVars
<1>9. ASSUME NEW c \in Conns
      PROVE  QueueInv(c)' /\ LiveInv(c)'
  <2>1. QueueInv(c) /\ LiveInv(c)
    BY DEF OrderInv
  <2> QED BY <1>1, <1>2, <2>1 DEF QueueInv, LiveInv, Live, Current, serverVars, linkVars
<1> QED BY <1>7, <1>8, <1>9 DEF OrderInv

LEMMA ReceiveOrder ==
  ASSUME TypeOK, OrderInv, Receive
  PROVE  OrderInv'
<1>1. /\ lineCh # <<>> /\ lineCh' = Tail(lineCh) /\ posted' = Append(posted, Head(lineCh))
      /\ UNCHANGED <<serverVars, linkVars, bpc, lastID, partial>>
      /\ lineCh \in Seq(Ids) /\ posted \in Seq(Ids) /\ lastID \in Ids
  BY DEF Receive, TypeOK
<1>2. /\ Increasing(posted) /\ Increasing(lineCh) /\ Precedes(posted, lineCh)
      /\ UpTo(posted, lastID) /\ UpTo(lineCh, lastID)
  BY DEF OrderInv, DeliveredInv
<1>3. Head(lineCh) \in Ids /\ Tail(lineCh) \in Seq(Ids)
  BY <1>1, TailType
<1>4. /\ AllBefore(posted, Head(lineCh)) /\ Precedes(posted, Tail(lineCh))
      /\ AllAfter(Head(lineCh), Tail(lineCh)) /\ Increasing(Tail(lineCh))
      /\ AtMost(Head(lineCh), lastID) /\ UpTo(Tail(lineCh), lastID)
  BY <1>1, <1>2, TailPrecedes, TailIncreasing, TailAll
<1>5. Increasing(posted')
  BY <1>1, <1>2, <1>3, <1>4, AppendIncreasing
<1>6. Precedes(posted', lineCh') /\ UpTo(posted', lastID)
  BY <1>1, <1>2, <1>3, <1>4, AppendPrecedes, AppendAll
<1>7. Cursor' = Cursor /\ Latest' = Latest
  BY <1>1 DEF Cursor, Latest, serverVars
<1>8. DeliveredInv'
  BY <1>1, <1>4, <1>5, <1>6, <1>7 DEF OrderInv, DeliveredInv
<1>9. WireInv' /\ HistoryInv'
  BY <1>1, <1>7 DEF OrderInv, WireInv, HistoryInv, Current, serverVars, linkVars
<1>10. \A c \in Conns : QueueInv(c)' /\ LiveInv(c)'
  BY <1>1, <1>7 DEF OrderInv, QueueInv, LiveInv, Live, Current, serverVars, linkVars
<1> QED BY <1>8, <1>9, <1>10 DEF OrderInv

LEMMA NextOrder == TypeOK /\ TypeOK' /\ OrderInv /\ [Next]_vars => OrderInv'
<1> SUFFICES ASSUME TypeOK, TypeOK', OrderInv, [Next]_vars PROVE OrderInv'
  OBVIOUS
<1>1. CASE ServerNext /\ UNCHANGED streamVars
  BY <1>1, ServerOrder
<1>2. CASE BridgeStep
  <2>1. CASE Dial
    BY <2>1, DialOrder
  <2>2. CASE Connected \/ StopWaiting
    <3>1. CASE Connected
      BY <3>1, IdleOrder DEF Connected, Cursor, linkVars
    <3>2. CASE StopWaiting
      BY <3>2, IdleOrder DEF StopWaiting, Cursor, linkVars
    <3> QED BY <2>2, <3>1, <3>2
  <2>3. CASE DialError \/ StreamEnd
    BY <2>3, HangupOrder DEF DialError, StreamEnd
  <2>4. CASE ReadEvent
    BY <2>4, ReadOrder
  <2>5. CASE ReadTorn
    BY <2>5, IdleOrder DEF ReadTorn, Cursor
  <2>6. CASE Dispatch
    BY <2>6, DispatchOrder
  <2> QED BY <1>2, <2>1, <2>2, <2>3, <2>4, <2>5, <2>6 DEF BridgeStep
<1>3. CASE HeaderTimeout
  BY <1>3, HangupOrder DEF HeaderTimeout
<1>4. CASE Cut \/ IdleTimeout
  BY <1>4, CutOrder
<1>5. CASE Cancel
  <2>1. Cursor' = Cursor
    BY <1>5 DEF Cancel, Cursor
  <2> QED BY <1>5, <2>1, DeadOrder DEF Cancel, OrderInv, WireInv
<1>6. CASE Receive
  BY <1>6, ReceiveOrder
<1>7. CASE ReceiverStop \/ UNCHANGED vars
  <2>1. /\ UNCHANGED <<serverVars, linkVars>>
        /\ UNCHANGED <<bpc, partial, lastID, lineCh, posted>>
    BY <1>7 DEF ReceiverStop, vars, streamVars
  <2> QED BY <2>1, IdleOrder DEF Cursor, linkVars
<1> QED BY <1>1, <1>2, <1>3, <1>4, <1>5, <1>6, <1>7 DEF Next

\* Every stage between the plugin and Matrix stays in the order of publishing
\* and behind the stage before it, whatever breaks, fills up or restarts.
THEOREM OrderInvariant == Spec => [](TypeOK /\ OrderInv)
<1>1. Init => TypeOK /\ OrderInv
  BY InitType, InitOrder
<1>2. TypeOK /\ OrderInv /\ [Next]_vars => (TypeOK /\ OrderInv)'
  BY NextType, NextOrder
<1> QED BY <1>1, <1>2, PTL DEF Spec

\* Matrix sees the events of a server in the order the plugin published them
\* and none of them twice.
THEOREM DeliveryInOrder == Spec => []InOrder
<1>1. OrderInv => InOrder
  BY DEF OrderInv, DeliveredInv, InOrder
<1> QED BY <1>1, OrderInvariant, PTL

\* No way out of handleEvents leaves its client counted against MAX_CLIENTS.
THEOREM NoClientLeak == Spec => []ClientsAreServed
<1>1. TypeOK /\ OrderInv => ClientsAreServed
  BY DEF TypeOK, ServerTypeOK, OrderInv, QueueInv, ClientsAreServed
<1> QED BY <1>1, OrderInvariant, PTL

=============================================================================
