-------------------------- MODULE StreamGap_proofs --------------------------
(***************************************************************************)
(* No event is lost without a trace: between two events of one boot that   *)
(* reached Matrix none is missing that the plugin could still replay.      *)
(* With the order of PluginStream_proofs this makes PluginStream an        *)
(* implementation of EventFeed.                                            *)
(***************************************************************************)
EXTENDS PluginStream_proofs

-----------------------------------------------------------------------------
(* Chains of ids.                                                          *)

LEMMA EmptyChain ==
  ASSUME NEW p, NEW x
  PROVE  Chain(p, x, <<>>) /\ Ending(x, <<>>) = x
BY NothingType DEF Chain, Ending

LEMMA EndingType ==
  ASSUME NEW x \in Ids, NEW s \in Seq(Ids)
  PROVE  Ending(x, s) \in Ids
<1>1. CASE s = <<>>
  BY <1>1 DEF Ending
<1>2. CASE s # <<>>
  BY <1>2, EmptySeq, LenProperties, ElementOfSeq DEF Ending
<1> QED BY <1>1, <1>2

\* An id that meets the end of a chain extends it.
LEMMA AppendChain ==
  ASSUME NEW p, NEW x, NEW s \in Seq(Ids), NEW y \in Ids,
         Chain(p, x, s), Meets(p, Ending(x, s), y)
  PROVE  Chain(p, x, Append(s, y)) /\ Ending(x, Append(s, y)) = y
<1> DEFINE t == Append(s, y)
<1>1. /\ t \in Seq(Ids) /\ Len(t) = Len(s) + 1 /\ Len(s) \in Nat
      /\ \A i \in 1..Len(s) : t[i] = s[i]
      /\ t[Len(s) + 1] = y
      /\ t # <<>>
  BY AppendType, LenProperties, EmptySeq
<1>2. ASSUME NEW i \in 1..Len(t)
      PROVE  Meets(p, IF i = 1 THEN x ELSE t[i - 1], t[i])
  <2>1. CASE i <= Len(s)
    <3>1. t[i] = s[i] /\ (i # 1 => t[i - 1] = s[i - 1])
      BY <1>1, <2>1
    <3>2. Meets(p, IF i = 1 THEN x ELSE s[i - 1], s[i])
      BY <1>1, <2>1 DEF Chain
    <3> QED BY <3>1, <3>2
  <2>2. CASE i = Len(s) + 1
    <3>1. CASE s = <<>>
      BY <1>1, <2>2, <3>1, EmptySeq DEF Ending
    <3>2. CASE s # <<>>
      <4>1. i # 1 /\ t[i - 1] = s[Len(s)]
        BY <1>1, <2>2, <3>2, EmptySeq
      <4> QED BY <1>1, <2>2, <3>2, <4>1 DEF Ending
    <3> QED BY <3>1, <3>2
  <2> QED BY <1>1, <2>1, <2>2
<1> HIDE DEF t
<1>3. Chain(p, x, t)
  BY <1>2 DEF Chain
<1>4. Ending(x, t) = y
  BY <1>1 DEF Ending
<1> QED BY <1>3, <1>4 DEF t

\* A chain without its first id is a chain behind that id.
LEMMA TailChain ==
  ASSUME NEW p, NEW x, NEW s \in Seq(Ids), s # <<>>, Chain(p, x, s)
  PROVE  /\ Meets(p, x, Head(s))
         /\ Chain(p, Head(s), Tail(s))
         /\ Ending(Head(s), Tail(s)) = Ending(x, s)
<1>1. /\ Head(s) = s[1] /\ Len(s) \in Nat \ {0}
      /\ Tail(s) \in Seq(Ids) /\ Len(Tail(s)) = Len(s) - 1
      /\ \A i \in 1..Len(Tail(s)) : Tail(s)[i] = s[i + 1]
  BY TailType
<1>2. Meets(p, x, Head(s))
  BY <1>1 DEF Chain
<1>3. ASSUME NEW i \in 1..Len(Tail(s))
      PROVE  Meets(p, IF i = 1 THEN Head(s) ELSE Tail(s)[i - 1], Tail(s)[i])
  <2>1. Meets(p, s[i], s[i + 1])
    <3>1. i + 1 \in 1..Len(s) /\ i + 1 # 1 /\ (i + 1) - 1 = i
      BY <1>1
    <3> QED BY <3>1 DEF Chain
  <2>2. (IF i = 1 THEN Head(s) ELSE Tail(s)[i - 1]) = s[i]
    BY <1>1
  <2> QED BY <1>1, <2>1, <2>2
<1>4. Ending(Head(s), Tail(s)) = Ending(x, s)
  <2>1. CASE Tail(s) = <<>>
    <3>1. Len(s) = 1
      BY <1>1, <2>1, NothingType
    <3> QED BY <1>1, <2>1, <3>1 DEF Ending
  <2>2. CASE Tail(s) # <<>>
    <3>1. Len(Tail(s)) \in 1..Len(Tail(s))
      BY <1>1, <2>2, EmptySeq, LenProperties
    <3> QED BY <1>1, <2>2, <3>1 DEF Ending
  <2> QED BY <2>1, <2>2
<1> QED BY <1>2, <1>3, <1>4 DEF Chain

LEMMA PrefixChain ==
  ASSUME NEW p, NEW x, NEW s \in Seq(Ids), NEW k \in 0..Len(s), Chain(p, x, s)
  PROVE  Chain(p, x, SubSeq(s, 1, k))
<1>1. Len(s) \in Nat /\ k \in Nat
  BY LenProperties
<1>2. /\ Len(SubSeq(s, 1, k)) = k
      /\ \A i \in 1..k : SubSeq(s, 1, k)[i] = s[i]
  BY <1>1, SubSeqType
<1> QED BY <1>1, <1>2 DEF Chain

\* What has left the history stays out of it.
LEMMA MeetsGrows ==
  ASSUME NEW p \in [Boots -> Nat], NEW q \in [Boots -> Nat],
         \A b \in Boots : p[b] <= q[b],
         NEW x, NEW y \in Ids, y.boot \in Boots, Meets(p, x, y)
  PROVE  Meets(q, x, y)
BY SizeAssumption DEF Meets, Ids

LEMMA ChainGrows ==
  ASSUME NEW p \in [Boots -> Nat], NEW q \in [Boots -> Nat],
         \A b \in Boots : p[b] <= q[b],
         NEW x, NEW s \in Seq(Ids), \A i \in 1..Len(s) : s[i].boot \in Boots,
         Chain(p, x, s)
  PROVE  Chain(q, x, s)
<1>1. ASSUME NEW i \in 1..Len(s)
      PROVE  Meets(q, IF i = 1 THEN x ELSE s[i - 1], s[i])
  <2>1. s[i] \in Ids /\ s[i].boot \in Boots
    BY ElementOfSeq
  <2>2. Meets(p, IF i = 1 THEN x ELSE s[i - 1], s[i])
    BY DEF Chain
  <2> QED BY <2>1, <2>2, MeetsGrows
<1> QED BY <1>1 DEF Chain

-----------------------------------------------------------------------------
(* What travels has been published.                                        *)

LEMMA SeqGrows ==
  ASSUME NEW S, NEW T, S \subseteq T, NEW s \in Seq(S)
  PROVE  s \in Seq(T)
<1>1. s \in [1..Len(s) -> S] /\ Len(s) \in Nat
  BY LenProperties
<1> QED BY <1>1, SeqDef

LEMMA PublishedType ==
  TypeOK => /\ PublishedIds \subseteq Ids
            /\ \A x \in PublishedIds : x.boot \in Boots
            /\ NoId \notin PublishedIds
BY BootType, SizeAssumption DEF PublishedIds, Boots, NoId

LEMMA PublishedGrows ==
  ASSUME TypeOK, TypeOK', boot <= boot', \A b \in Boots : seq[b] <= seq'[b]
  PROVE  PublishedIds \subseteq PublishedIds'
<1>1. /\ boot \in Boots /\ boot' \in Boots
      /\ seq \in [Boots -> Nat] /\ seq' \in [Boots -> Nat]
  BY DEF TypeOK, ServerTypeOK
<1>2. ASSUME NEW x \in PublishedIds
      PROVE  x \in Ids /\ x.boot \in 1..boot' /\ x.seq \in 1..seq'[x.boot]
  <2>1. x \in Ids /\ x.boot \in 1..boot /\ x.seq \in 1..seq[x.boot]
    BY DEF PublishedIds
  <2>2. x.boot \in Boots /\ x.boot \in 1..boot'
    BY <1>1, <2>1, SizeAssumption DEF Boots
  <2>3. seq[x.boot] \in Nat /\ seq'[x.boot] \in Nat /\ seq[x.boot] <= seq'[x.boot]
    BY <1>1, <2>2
  <2> QED BY <2>1, <2>2, <2>3
<1> QED BY <1>2 DEF PublishedIds

LEMMA InitPublished == Init => PublishedInv
<1> SUFFICES ASSUME Init PROVE PublishedInv
  OBVIOUS
<1>1. <<>> \in Seq(PublishedIds)
  BY EmptySeq
<1> QED BY <1>1, SizeAssumption
        DEF Init, ServerInit, LinkInit, PublishedInv, Boots

\* A step that publishes nothing and starts no boot keeps the published ids.
LEMMA PublishedSame ==
  ASSUME UNCHANGED <<boot, seq>>
  PROVE  PublishedIds' = PublishedIds
BY DEF PublishedIds

LEMMA PublishPublished ==
  ASSUME TypeOK, TypeOK', PublishedInv, Publish, UNCHANGED streamVars
  PROVE  PublishedInv'
<1> DEFINE ev == [boot |-> boot, seq |-> seq[boot] + 1]
           P == PublishedIds'
<1>1. /\ boot' = boot /\ boot \in Boots /\ boot \in Nat \ {0}
      /\ seq' = [seq EXCEPT ![boot] = @ + 1]
      /\ seq \in [Boots -> Nat] /\ seq[boot] \in Nat
  BY BootType, SizeAssumption DEF Publish, Boots
<1>2. PublishedIds \subseteq P
  <2>1. \A b \in Boots : seq[b] <= seq'[b]
    BY <1>1
  <2> QED BY <1>1, <2>1, PublishedGrows
<1>3. ev \in P
  BY <1>1 DEF PublishedIds, Ids
<1>4. \A s \in Seq(PublishedIds) : s \in Seq(P) /\ Append(s, ev) \in Seq(P)
  <2> HIDE DEF ev, P
  <2> QED BY <1>2, <1>3, SeqGrows, AppendType
<1>5. \A b \in Boots : b > boot' => seq'[b] = 0
  BY <1>1 DEF PublishedInv
<1>6. history' \in Seq(P)
  <2>1. CASE Len(history) < HistorySize
    BY <1>4, <2>1 DEF Publish, Remember, PublishedInv
  <2>2. CASE ~(Len(history) < HistorySize)
    <3>1. history # <<>>
      BY <2>2, SizeAssumption, NothingType
    <3>2. Tail(history) \in Seq(PublishedIds)
      BY <3>1, TailType DEF PublishedInv
    <3> QED BY <1>4, <2>2, <3>2 DEF Publish, Remember
  <2> QED BY <2>1, <2>2
<1>7. queue' \in [Conns -> Seq(P)]
  <2>1. \A c \in Conns : queue[c] \in Seq(PublishedIds)
    BY DEF PublishedInv
  <2>2. \A c \in Conns : queue[c] \in Seq(P) /\ Offer(queue[c], ev) \in Seq(P)
    BY <1>4, <2>1 DEF Offer
  <2>3. queue' = [c \in Conns |->
                    IF c \in clients THEN Offer(queue[c], ev) ELSE queue[c]]
    BY DEF Publish
  <2> HIDE DEF ev, P
  <2> QED BY <2>2, <2>3
<1>8. UNCHANGED <<posted, lineCh, wire, held, bpc, partial>>
  BY DEF Publish, linkVars, streamVars
<1> HIDE DEF P
<1>9. /\ posted' \in Seq(P) /\ lineCh' \in Seq(P) /\ wire' \in Seq(P)
      /\ (bpc' = "dispatch" => partial' \in P)
      /\ held' \in [Conns -> P \cup {NoId}]
  BY <1>2, <1>4, <1>8 DEF PublishedInv
<1> QED BY <1>5, <1>6, <1>7, <1>9 DEF PublishedInv, P

LEMMA RestartPublished ==
  ASSUME TypeOK, TypeOK', PublishedInv, Restart, UNCHANGED streamVars
  PROVE  PublishedInv'
<1> DEFINE P == PublishedIds'
<1>1. /\ boot' = boot + 1 /\ seq' = seq /\ boot \in Nat /\ boot' \in Boots
      /\ seq \in [Boots -> Nat]
  BY BootType DEF Restart, TypeOK, ServerTypeOK
<1>2. PublishedIds \subseteq P
  BY <1>1, PublishedGrows
<1>3. \A b \in Boots : b > boot' => seq'[b] = 0
  BY <1>1, SizeAssumption DEF PublishedInv, Boots
<1>4. UNCHANGED <<posted, lineCh, wire, bpc, partial>>
  BY DEF Restart, streamVars
<1> HIDE DEF P
<1>5. /\ posted' \in Seq(P) /\ lineCh' \in Seq(P) /\ wire' \in Seq(P)
      /\ (bpc' = "dispatch" => partial' \in P)
  BY <1>2, <1>4, SeqGrows DEF PublishedInv
<1>6. /\ history' \in Seq(P)
      /\ queue' \in [Conns -> Seq(P)]
      /\ held' \in [Conns -> P \cup {NoId}]
  BY EmptySeq DEF Restart
<1> QED BY <1>3, <1>5, <1>6 DEF PublishedInv, P

LEMMA HandlerPublished ==
  ASSUME TypeOK, PublishedInv, NEW c \in Conns, HandlerStep(c) \/ WriteFails(c),
         UNCHANGED streamVars
  PROVE  PublishedInv'
<1>1. UNCHANGED <<boot, seq, history, posted, lineCh, bpc, partial>>
  BY DEF HandlerStep, CheckRoom, Refuse, Register, SendHeaders, CheckOverflow,
         DropSlowClient, Poll, Write, WriteFails, Leave, streamVars
<1>2. PublishedIds' = PublishedIds
  BY <1>1, PublishedSame
<1>3. /\ queue \in [Conns -> Seq(PublishedIds)]
      /\ held \in [Conns -> PublishedIds \cup {NoId}]
      /\ wire \in Seq(PublishedIds) /\ history \in Seq(PublishedIds)
      /\ Len(history) \in Nat
  BY LenProperties DEF PublishedInv
<1>4. /\ queue' \in [Conns -> Seq(PublishedIds)]
      /\ held' \in [Conns -> PublishedIds \cup {NoId}]
      /\ wire' \in Seq(PublishedIds)
  <2>1. CASE CheckRoom(c) \/ SendHeaders(c) \/ CheckOverflow(c)
    BY <1>3, <2>1 DEF CheckRoom, SendHeaders, CheckOverflow, linkVars
  <2>2. CASE Refuse(c) \/ DropSlowClient(c) \/ WriteFails(c)
    <3>1. /\ queue' = [queue EXCEPT ![c] = <<>>]
          /\ held' = [held EXCEPT ![c] = NoId]
          /\ wire' = wire
      BY <2>2 DEF Refuse, DropSlowClient, WriteFails, Leave
    <3>2. <<>> \in Seq(PublishedIds)
      BY EmptySeq
    <3> QED BY <1>3, <3>1, <3>2
  <2>3. CASE Register(c)
    <3>1. \A k \in 0..Len(history) : SubSeq(history, k + 1, Len(history)) \in Seq(PublishedIds)
      BY <1>3, SubSeqType
    <3> QED BY <1>3, <2>3, <3>1 DEF Register, linkVars
  <2>4. CASE Poll(c)
    <3>1. queue[c] # <<>> => /\ Head(queue[c]) \in PublishedIds
                             /\ Tail(queue[c]) \in Seq(PublishedIds)
      BY <1>3, TailType
    <3> QED BY <1>3, <2>4, <3>1 DEF Poll, linkVars
  <2>5. CASE Write(c)
    <3>1. held[c] # NoId => Append(wire, held[c]) \in Seq(PublishedIds)
      BY <1>3, AppendType
    <3> QED BY <1>3, <2>5, <3>1 DEF Write
  <2> QED BY <2>1, <2>2, <2>3, <2>4, <2>5 DEF HandlerStep
<1> QED BY <1>1, <1>2, <1>4 DEF PublishedInv

LEMMA StreamPublished ==
  ASSUME TypeOK, PublishedInv,
         \/ BridgeStep \/ HeaderTimeout \/ Cut \/ IdleTimeout \/ Cancel
         \/ Receive \/ ReceiverStop \/ UNCHANGED vars
  PROVE  PublishedInv'
<1>1. UNCHANGED <<boot, seq, history, queue, held>>
  BY DEF BridgeStep, Dial, Connected, DialError, ReadEvent, ReadTorn,
         Dispatch, StreamEnd, StopWaiting, Hangup, HeaderTimeout, Cut,
         IdleTimeout, Cancel, Receive, ReceiverStop, vars, serverVars
<1>2. PublishedIds' = PublishedIds
  BY <1>1, PublishedSame
<1>3. /\ wire \in Seq(PublishedIds) /\ lineCh \in Seq(PublishedIds)
      /\ posted \in Seq(PublishedIds) /\ Len(wire) \in Nat
      /\ <<>> \in Seq(PublishedIds)
  BY LenProperties, EmptySeq DEF PublishedInv
<1>4. wire' \in Seq(PublishedIds)
  <2>1. wire # <<>> => Tail(wire) \in Seq(PublishedIds)
    BY <1>3, TailType
  <2>2. \A k \in 0..Len(wire) : SubSeq(wire, 1, k) \in Seq(PublishedIds)
    BY <1>3, SubSeqType
  <2> QED BY <1>3, <2>1, <2>2
          DEF BridgeStep, Dial, Connected, DialError, ReadEvent, ReadTorn,
              Dispatch, StreamEnd, StopWaiting, Hangup, HeaderTimeout, Cut,
              IdleTimeout, CutAt, Cancel, Receive, ReceiverStop, vars, linkVars
<1>5. bpc' = "dispatch" => partial' \in PublishedIds
  <2>1. wire # <<>> => Head(wire) \in PublishedIds
    BY <1>3, TailType
  <2> QED BY <2>1
          DEF PublishedInv, BridgeStep, Dial, Connected, DialError,
              ReadEvent, ReadTorn, Dispatch, StreamEnd, StopWaiting, Hangup,
              HeaderTimeout, Cut, IdleTimeout, Cancel, Receive, ReceiverStop,
              vars, streamVars
<1>6. posted' \in Seq(PublishedIds) /\ lineCh' \in Seq(PublishedIds)
  <2>1. CASE Receive
    <3>1. /\ Head(lineCh) \in PublishedIds /\ Tail(lineCh) \in Seq(PublishedIds)
          /\ posted' = Append(posted, Head(lineCh)) /\ lineCh' = Tail(lineCh)
      BY <1>3, <2>1, TailType DEF Receive
    <3> QED BY <1>3, <3>1, AppendType
  <2>2. CASE Dispatch
    <3>1. partial \in PublishedIds /\ posted' = posted
      BY <2>2 DEF Dispatch, PublishedInv
    <3>2. Append(lineCh, partial) \in Seq(PublishedIds)
      BY <1>3, <3>1, AppendType
    <3> QED BY <1>3, <2>2, <3>1, <3>2 DEF Dispatch
  <2>3. CASE ~Receive /\ ~Dispatch
    <3>1. UNCHANGED <<posted, lineCh>>
      BY <2>3
         DEF BridgeStep, Dial, Connected, DialError, ReadEvent, ReadTorn,
             StreamEnd, StopWaiting, Hangup, HeaderTimeout, Cut, IdleTimeout,
             Cancel, ReceiverStop, vars, streamVars
    <3> QED BY <1>3, <3>1
  <2> QED BY <2>1, <2>2, <2>3
<1> QED BY <1>1, <1>2, <1>4, <1>5, <1>6 DEF PublishedInv

LEMMA NextPublished ==
  TypeOK /\ TypeOK' /\ PublishedInv /\ [Next]_vars => PublishedInv'
<1> SUFFICES ASSUME TypeOK, TypeOK', PublishedInv, [Next]_vars
             PROVE  PublishedInv'
  OBVIOUS
<1>1. CASE ServerNext /\ UNCHANGED streamVars
  BY <1>1, PublishPublished, RestartPublished, HandlerPublished DEF ServerNext
<1>2. CASE \/ BridgeStep \/ HeaderTimeout \/ Cut \/ IdleTimeout \/ Cancel
           \/ Receive \/ ReceiverStop \/ UNCHANGED vars
  BY <1>2, StreamPublished
<1> QED BY <1>1, <1>2 DEF Next

-----------------------------------------------------------------------------
(* The history.                                                            *)

LEMMA PublishHistory ==
  ASSUME TypeOK, HistoryIsSuffix, Publish
  PROVE  HistoryIsSuffix'
<1> DEFINE n == seq[boot]
           L == Len(history)
           ev == [boot |-> boot, seq |-> n + 1]
<1>1. /\ boot' = boot /\ n \in Nat /\ seq'[boot'] = n + 1
      /\ history \in Seq(Ids) /\ L \in Nat /\ L <= HistorySize /\ HistorySize \in Nat \ {0}
      /\ ev \in Ids
  <2>1. boot' = boot /\ n \in Nat /\ seq'[boot'] = n + 1 /\ boot \in Nat
    BY BootType DEF Publish
  <2>2. history \in Seq(Ids) /\ L <= HistorySize
    BY DEF TypeOK, ServerTypeOK
  <2> QED BY <2>1, <2>2, LenProperties, SizeAssumption DEF Ids
<1>2. /\ L = n \/ (L = HistorySize /\ HistorySize <= n)
      /\ \A i \in 1..L : history[i] = [boot |-> boot, seq |-> n - L + i]
  BY DEF HistoryIsSuffix
<1>3. history' = Remember(history, ev)
  BY DEF Publish
<1>4. CASE L < HistorySize
  <2>1. /\ history' = Append(history, ev) /\ L = n
    BY <1>1, <1>2, <1>3, <1>4 DEF Remember
  <2>2. /\ Len(history') = L + 1
        /\ \A i \in 1..L : history'[i] = history[i]
        /\ history'[L + 1] = ev
    BY <1>1, <2>1, AppendType
  <2>3. ASSUME NEW i \in 1..(L + 1)
        PROVE  history'[i] = [boot |-> boot, seq |-> (n + 1) - (L + 1) + i]
    <3>1. CASE i <= L
      <4>1. history'[i] = [boot |-> boot, seq |-> n - L + i]
        <5>1. i \in 1..L
          BY <1>1, <3>1
        <5> QED BY <1>2, <2>2, <5>1
      <4>2. n - L + i = (n + 1) - (L + 1) + i
        BY <1>1
      <4> QED BY <4>1, <4>2
    <3>2. CASE i = L + 1
      <4>1. n + 1 = (n + 1) - (L + 1) + i
        BY <1>1, <3>2
      <4> QED BY <2>2, <3>2, <4>1
    <3> QED BY <1>1, <3>1, <3>2
  <2> QED BY <1>1, <2>1, <2>2, <2>3 DEF HistoryIsSuffix
<1>5. CASE ~(L < HistorySize)
  <2>1. history' = Append(Tail(history), ev) /\ L = HistorySize /\ HistorySize <= n
    BY <1>1, <1>2, <1>3, <1>5 DEF Remember
  <2>2. history # <<>>
    BY <1>1, <2>1, NothingType
  <2>3. /\ Tail(history) \in Seq(Ids) /\ Len(Tail(history)) = L - 1
        /\ \A i \in 1..(L - 1) : Tail(history)[i] = history[i + 1]
    BY <1>1, <2>2, TailType
  <2>4. /\ Len(history') = L
        /\ \A i \in 1..(L - 1) : history'[i] = history[i + 1]
        /\ history'[L] = ev
    <3>1. /\ Len(Append(Tail(history), ev)) = (L - 1) + 1
          /\ \A i \in 1..(L - 1) : Append(Tail(history), ev)[i] = Tail(history)[i]
          /\ Append(Tail(history), ev)[(L - 1) + 1] = ev
      BY <1>1, <2>3, AppendType
    <3> QED BY <1>1, <2>1, <2>3, <3>1
  <2>5. ASSUME NEW i \in 1..L
        PROVE  history'[i] = [boot |-> boot, seq |-> (n + 1) - L + i]
    <3>1. CASE i < L
      <4>1. history'[i] = [boot |-> boot, seq |-> n - L + (i + 1)]
        <5>1. i \in 1..(L - 1) /\ i + 1 \in 1..L
          BY <1>1, <3>1
        <5> QED BY <1>2, <2>4, <5>1
      <4>2. n - L + (i + 1) = (n + 1) - L + i
        BY <1>1
      <4> QED BY <4>1, <4>2
    <3>2. CASE i = L
      <4>1. n + 1 = (n + 1) - L + i
        BY <1>1, <3>2
      <4> QED BY <2>4, <3>2, <4>1
    <3> QED BY <1>1, <3>1, <3>2
  <2>6. Len(history') = HistorySize /\ HistorySize <= seq'[boot']
    BY <1>1, <2>1, <2>4
  <2> QED BY <1>1, <2>4, <2>5, <2>6 DEF HistoryIsSuffix
<1> QED BY <1>4, <1>5

LEMMA NextHistory ==
  TypeOK /\ PublishedInv /\ HistoryIsSuffix /\ [Next]_vars => HistoryIsSuffix'
<1> SUFFICES ASSUME TypeOK, PublishedInv, HistoryIsSuffix, [Next]_vars
             PROVE  HistoryIsSuffix'
  OBVIOUS
<1>1. CASE Publish
  BY <1>1, PublishHistory
<1>2. CASE Restart
  <2>1. boot' \in Boots /\ boot' > boot /\ seq' = seq /\ history' = <<>>
    BY <1>2, BootType, SizeAssumption DEF Restart, Boots
  <2>2. seq'[boot'] = 0
    BY <2>1 DEF PublishedInv
  <2> QED BY <2>1, <2>2, NothingType DEF HistoryIsSuffix
<1>3. CASE UNCHANGED <<boot, seq, history>>
  BY <1>3 DEF HistoryIsSuffix
<1>4. Publish \/ Restart \/ UNCHANGED <<boot, seq, history>>
  <2>1. ASSUME NEW c \in Conns, HandlerStep(c) \/ WriteFails(c)
        PROVE  UNCHANGED <<boot, seq, history>>
    BY <2>1 DEF HandlerStep, CheckRoom, Refuse, Register, SendHeaders,
                CheckOverflow, DropSlowClient, Poll, Write, WriteFails, Leave
  <2>2. CASE ~ServerNext
    BY <2>2 DEF Next, BridgeStep, Dial, Connected, DialError, ReadEvent, ReadTorn,
                Dispatch, StreamEnd, StopWaiting, Hangup, HeaderTimeout, Cut,
                IdleTimeout, Cancel, Receive, ReceiverStop, vars, serverVars
  <2> QED BY <2>1, <2>2 DEF ServerNext
<1> QED BY <1>1, <1>2, <1>3, <1>4

-----------------------------------------------------------------------------
(* The chain through the handlers and the bridge.                          *)

\* A handler whose part of the chain a step leaves alone: it may move on, but
\* to polling only as long as it has lost nothing.
LEMMA HandlerSame ==
  ASSUME NEW d \in Conns, HandlerChain(d), UNCHANGED <<boot, seq>>,
         held'[d] = held[d], queue'[d] = queue[d], overflowed'[d] = overflowed[d],
         d \in clients' <=> d \in clients,
         handler'[d] = "poll" => handler[d] = "poll" \/ ~overflowed[d],
         Live(d)' => Live(d) /\ Ending(Cursor, wire)' = Ending(Cursor, wire)
  PROVE  HandlerChain(d)'
<1>1. overflowed[d] \/ ~overflowed[d]
  OBVIOUS
<1>2. CASE ~Live(d)'
  BY <1>2 DEF HandlerChain
<1>3. CASE Live(d)'
  <2>1. Live(d) /\ Ending(Cursor, wire)' = Ending(Cursor, wire)
    BY <1>3
  <2>2. Ahead(d)' = Ahead(d)
    BY <2>1 DEF Ahead
  <2> QED BY <2>1, <2>2 DEF HandlerChain, CaughtUp
<1> QED BY <1>2, <1>3

\* The bridge's part of the chain, by a step that touches none of it.
LEMMA BridgeSame ==
  ASSUME BridgeChain, UNCHANGED <<seq, wire, posted, lineCh, lastID>>,
         Cursor' = Cursor,
         bpc' = "dispatch" => bpc = "dispatch" /\ partial' = partial
  PROVE  BridgeChain'
BY DEF BridgeChain

LEMMA InitGap == Init => GapInv
<1> SUFFICES ASSUME Init PROVE GapInv
  OBVIOUS
<1>1. PublishedInv
  BY InitPublished
<1>2. HistoryIsSuffix
  BY SizeAssumption, NothingType DEF Init, ServerInit, HistoryIsSuffix, Boots
<1>3. BridgeChain
  BY EmptyChain DEF Init, LinkInit, BridgeChain
<1>4. \A c \in Conns : HandlerChain(c)
  BY DEF Init, ServerInit, LinkInit, HandlerChain, Live
<1> QED BY <1>1, <1>2, <1>3, <1>4 DEF GapInv

LEMMA PublishChain ==
  ASSUME TypeOK, TypeOK', OrderInv, PublishedInv, BridgeChain,
         \A c \in Conns : HandlerChain(c), Publish, UNCHANGED streamVars
  PROVE  BridgeChain' /\ \A c \in Conns : HandlerChain(c)'
<1> DEFINE ev == [boot |-> boot, seq |-> seq[boot] + 1]
<1>1. /\ boot' = boot /\ boot \in Boots /\ boot \in Nat
      /\ seq \in [Boots -> Nat] /\ seq' \in [Boots -> Nat]
      /\ seq'[boot] = seq[boot] + 1 /\ seq[boot] \in Nat
      /\ \A b \in Boots : seq[b] <= seq'[b]
      /\ ev \in Ids
  BY BootType DEF Publish, Ids
<1>2. \A x : \A y \in PublishedIds : Meets(seq, x, y) => Meets(seq', x, y)
  BY <1>1, PublishedType, MeetsGrows
<1>3. \A x : \A s \in Seq(PublishedIds) : Chain(seq, x, s) => Chain(seq', x, s)
  <2> SUFFICES ASSUME NEW x, NEW s \in Seq(PublishedIds), Chain(seq, x, s)
               PROVE  Chain(seq', x, s)
    OBVIOUS
  <2>1. s \in Seq(Ids) /\ \A i \in 1..Len(s) : s[i].boot \in Boots
    BY PublishedType, SeqGrows, ElementOfSeq
  <2> QED BY <1>1, <2>1, ChainGrows
<1>4. \A x : CaughtUp(boot, seq, x) => Meets(seq', x, ev)
  BY <1>1 DEF CaughtUp, Meets
<1>5. UNCHANGED <<clients, handler, held, conn, up, wire, bpc, lastID, partial,
                  lineCh, posted>>
  BY DEF Publish, linkVars, streamVars
<1>6. Cursor' = Cursor /\ Cursor \in Ids /\ wire \in Seq(Ids)
  BY <1>5, PlacesType DEF Cursor, TypeOK, ServerTypeOK
<1>7. BridgeChain'
  BY <1>2, <1>3, <1>5, <1>6 DEF BridgeChain, PublishedInv
<1>8. ASSUME NEW c \in Conns
      PROVE  HandlerChain(c)'
  <2>1. /\ overflowed'[c] <=> (overflowed[c] \/ (c \in clients /\ Len(queue[c]) = QueueSize))
        /\ queue'[c] = IF c \in clients THEN Offer(queue[c], ev) ELSE queue[c]
        /\ queue[c] \in Seq(PublishedIds) /\ queue[c] \in Seq(Ids)
        /\ Len(queue[c]) <= QueueSize /\ Len(queue[c]) \in Nat
        /\ overflowed[c] \in BOOLEAN
    BY LenProperties DEF Publish, PublishedInv, TypeOK, ServerTypeOK
  <2>2. HandlerChain(c)
    OBVIOUS
  <2>3. CASE ~(Live(c) /\ c \in clients)
    BY <1>5, <2>1, <2>2, <2>3 DEF HandlerChain, Live
  <2>4. CASE Live(c) /\ c \in clients
    <3>1. Ahead(c)' = Ahead(c) /\ Ahead(c) \in Ids
      BY <1>5, <1>6, EndingType DEF Ahead, TypeOK, ServerTypeOK
    <3>2. held'[c] # NoId => Meets(seq', Ending(Cursor', wire'), held'[c])
      BY <1>2, <1>5, <1>6, <2>2, <2>4 DEF HandlerChain, PublishedInv
    <3>3. ASSUME ~overflowed'[c]
          PROVE  /\ Chain(seq', Ahead(c), queue'[c])
                 /\ Ending(Ahead(c), queue'[c]) = ev
      <4>1. ~overflowed[c] /\ queue'[c] = Append(queue[c], ev)
        <5>1. ~overflowed[c] /\ Len(queue[c]) < QueueSize
          BY <2>1, <2>4, <3>3, SizeAssumption
        <5> QED BY <2>1, <2>4, <5>1 DEF Offer
      <4>2. /\ Chain(seq', Ahead(c), queue[c])
            /\ Meets(seq', Ending(Ahead(c), queue[c]), ev)
        BY <1>3, <1>4, <2>1, <2>2, <2>4, <4>1 DEF HandlerChain
      <4>3. Ahead(c) \in Ids /\ queue[c] \in Seq(Ids) /\ ev \in Ids
        BY <1>1, <2>1, <3>1
      <4> HIDE DEF ev
      <4>4. /\ Chain(seq', Ahead(c), Append(queue[c], ev))
            /\ Ending(Ahead(c), Append(queue[c], ev)) = ev
        BY <4>2, <4>3, AppendChain
      <4> QED BY <4>1, <4>4
    <3>4. CaughtUp(boot', seq', ev)
      BY <1>1 DEF CaughtUp
    <3>5. ASSUME handler'[c] = "poll", overflowed'[c]
          PROVE  queue'[c] # <<>> /\ Meets(seq', Ahead(c), queue'[c][1])
      <4>1. queue[c] # <<>> /\ Meets(seq, Ahead(c), queue[c][1])
        <5>1. CASE overflowed[c]
          BY <1>5, <2>2, <2>4, <3>5, <5>1 DEF HandlerChain
        <5>2. CASE ~overflowed[c]
          <6>1. Len(queue[c]) = QueueSize
            BY <2>1, <3>5, <5>2
          <6>2. queue[c] # <<>> /\ 1 \in 1..Len(queue[c])
            BY <2>1, <6>1, SizeAssumption, NothingType
          <6>3. Chain(seq, Ahead(c), queue[c])
            BY <2>2, <2>4, <5>2 DEF HandlerChain
          <6> QED BY <6>2, <6>3 DEF Chain
        <5> QED BY <5>1, <5>2
      <4>2. Len(queue[c]) \in Nat \ {0}
        BY <2>1, <4>1, EmptySeq
      <4>3. queue[c][1] \in PublishedIds
        BY <2>1, <4>2, ElementOfSeq
      <4>4. Meets(seq', Ahead(c), queue[c][1])
        BY <1>2, <4>1, <4>3
      <4>5. queue'[c] # <<>> /\ queue'[c][1] = queue[c][1]
        <5>1. /\ Len(Append(queue[c], ev)) = Len(queue[c]) + 1
              /\ Append(queue[c], ev)[1] = queue[c][1]
          BY <1>1, <2>1, <4>2, AppendType
        <5>2. Append(queue[c], ev) # <<>>
          BY <4>2, <5>1, NothingType
        <5> QED BY <2>1, <4>1, <5>1, <5>2 DEF Offer
      <4> QED BY <4>4, <4>5
    <3>6. ~overflowed'[c] => CaughtUp(boot', seq', Ending(Ahead(c), queue'[c]))
      BY <3>1, <3>3, <3>4
    <3>7. c \in clients'
      BY <1>5, <2>4
    <3> HIDE DEF ev
    <3> QED BY <1>5, <1>6, <3>1, <3>2, <3>3, <3>5, <3>6, <3>7 DEF HandlerChain
  <2> QED BY <2>3, <2>4
<1> QED BY <1>7, <1>8

\* The replay starts right behind the resume point, or with the oldest event
\* there is, and ends with the newest.
LEMMA ReplayChain ==
  ASSUME TypeOK, HistoryIsSuffix, NEW x \in Ids, x.boot = boot, AtMost(x, Latest),
         NEW seen \in 0..Len(history),
         \A i \in 1..Len(history) : i <= seen <=> history[i].seq <= x.seq
  PROVE  LET q == SubSeq(history, seen + 1, Len(history)) IN
           Chain(seq, x, q) /\ CaughtUp(boot, seq, Ending(x, q))
<1> DEFINE n == seq[boot]
           L == Len(history)
           q == SubSeq(history, seen + 1, L)
<1>1. /\ n \in Nat /\ L \in Nat /\ seen \in Nat /\ seen <= L /\ x.seq \in Nat
      /\ HistorySize \in Nat \ {0} /\ boot \in Nat
      /\ history \in Seq(Ids)
  <2>1. history \in Seq(Ids) /\ n \in Nat /\ boot \in Nat
    BY BootType DEF TypeOK, ServerTypeOK
  <2> QED BY <2>1, LenProperties, SizeAssumption DEF Ids
<1>2. x.seq <= n
  BY <1>1 DEF AtMost, Before, Latest
<1>3. /\ L = n \/ (L = HistorySize /\ HistorySize <= n)
      /\ \A i \in 1..L : history[i] = [boot |-> boot, seq |-> n - L + i]
  BY DEF HistoryIsSuffix
<1>4. /\ q \in Seq(Ids) /\ Len(q) = L - seen
      /\ \A i \in 1..(L - seen) : q[i] = history[seen + i]
  <2>1. /\ SubSeq(history, seen + 1, L) \in Seq(Ids)
        /\ Len(SubSeq(history, seen + 1, L)) = L - (seen + 1) + 1
        /\ \A i \in 1..Len(SubSeq(history, seen + 1, L)) :
             SubSeq(history, seen + 1, L)[i] = history[(seen + 1) + i - 1]
    BY <1>1, SubSeqType
  <2>2. L - (seen + 1) + 1 = L - seen
    BY <1>1
  <2>3. \A i \in 1..(L - seen) : (seen + 1) + i - 1 = seen + i
    BY <1>1
  <2> QED BY <2>1, <2>2, <2>3
<1> HIDE DEF q
<1>5. \A i \in 1..(L - seen) : q[i] = [boot |-> boot, seq |-> n - L + (seen + i)]
  <2> TAKE i \in 1..(L - seen)
  <2>1. seen + i \in 1..L
    BY <1>1
  <2> QED BY <1>3, <1>4, <2>1
<1>6. seen >= 1 => n - L + seen <= x.seq
  <2> HAVE seen >= 1
  <2>1. seen \in 1..L /\ seen <= seen
    BY <1>1
  <2>2. history[seen].seq <= x.seq
    BY <2>1
  <2>3. history[seen] = [boot |-> boot, seq |-> n - L + seen]
    BY <1>3, <2>1
  <2> QED BY <2>2, <2>3
<1>7. seen < L => n - L + (seen + 1) > x.seq
  <2> HAVE seen < L
  <2>1. seen + 1 \in 1..L /\ ~(seen + 1 <= seen)
    BY <1>1
  <2>2. ~(history[seen + 1].seq <= x.seq)
    BY <2>1
  <2>3. history[seen + 1] = [boot |-> boot, seq |-> n - L + (seen + 1)]
    BY <1>3, <2>1
  <2>4. ~(n - L + (seen + 1) <= x.seq)
    BY <2>2, <2>3
  <2> QED BY <1>1, <2>4
<1>8. ASSUME NEW i \in 1..Len(q)
      PROVE  Meets(seq, IF i = 1 THEN x ELSE q[i - 1], q[i])
  <2>1. i \in 1..(L - seen) /\ q[i] = [boot |-> boot, seq |-> n - L + (seen + i)]
    BY <1>4, <1>5
  <2>2. CASE i = 1
    <3>1. q[i].seq = n - L + (seen + 1) /\ q[i].boot = boot
      BY <2>1, <2>2
    <3>2. n - L + (seen + 1) > x.seq
      BY <1>1, <1>7, <2>1
    <3>3. CASE seen >= 1
      <4>1. n - L + (seen + 1) = x.seq + 1
        <5>1. n - L + seen <= x.seq
          BY <1>6, <3>3
        <5>2. n \in Int /\ L \in Int /\ seen \in Int /\ x.seq \in Int
          BY <1>1
        <5> HIDE DEF n, L
        <5> QED BY <3>2, <5>1, <5>2
      <4>2. q[i].seq = x.seq + 1
        BY <3>1, <4>1
      <4>3. Meets(seq, x, q[i])
        BY <4>2 DEF Meets
      <4> QED BY <2>2, <4>3
    <3>4. CASE seen = 0 /\ L = n
      BY <1>1, <2>2, <3>1, <3>2, <3>4 DEF Meets
    <3>5. CASE seen = 0 /\ L = HistorySize
      BY <1>1, <2>2, <3>1, <3>5 DEF Meets
    <3>6. seen >= 1 \/ seen = 0
      BY <1>1
    <3>7. L = n \/ L = HistorySize
      BY <1>3
    <3> HIDE DEF n, L
    <3> QED BY <3>3, <3>4, <3>5, <3>6, <3>7
  <2>3. CASE i # 1
    <3>1. i - 1 \in 1..(L - seen)
      BY <1>1, <2>1, <2>3
    <3>2. q[i - 1] = [boot |-> boot, seq |-> n - L + (seen + (i - 1))]
      BY <1>5, <3>1
    <3> QED BY <1>1, <2>1, <2>3, <3>2 DEF Meets
  <2> QED BY <2>2, <2>3
<1>9. CaughtUp(boot, seq, Ending(x, q))
  <2>1. CASE q = <<>>
    <3>1. seen = L
      BY <1>1, <1>4, <2>1, NothingType
    <3>2. x.seq = n
      BY <1>1, <1>2, <1>3, <1>6, <3>1
    <3> QED BY <2>1, <3>2 DEF CaughtUp, Ending
  <2>2. CASE q # <<>>
    <3>1. Len(q) \in 1..(L - seen) /\ Len(q) = L - seen
      BY <1>1, <1>4, <2>2, EmptySeq
    <3>2. q[Len(q)] = [boot |-> boot, seq |-> n - L + (seen + (L - seen))]
      BY <1>5, <3>1
    <3>3. n - L + (seen + (L - seen)) = n
      BY <1>1
    <3> QED BY <2>2, <3>2, <3>3 DEF CaughtUp, Ending
  <2> QED BY <2>1, <2>2
<1> QED BY <1>8, <1>9 DEF Chain, q

LEMMA RegisterChain ==
  ASSUME TypeOK, OrderInv, HistoryIsSuffix, BridgeChain, NEW c \in Conns,
         HandlerChain(c), Register(c), UNCHANGED streamVars
  PROVE  HandlerChain(c)'
<1>1. /\ handler[c] = "register" /\ handler'[c] = "headers" /\ c \in clients'
      /\ UNCHANGED <<boot, seq, history, overflowed, held, resume, conn, up, wire>>
      /\ UNCHANGED <<bpc, lastID, partial>>
  BY DEF Register, linkVars, streamVars, TypeOK, ServerTypeOK
<1>2. queue[c] = <<>> /\ held[c] = NoId /\ c \notin clients
  BY <1>1 DEF OrderInv, QueueInv
<1>3. CASE ~Live(c)
  BY <1>1, <1>3 DEF HandlerChain, Live
<1>4. CASE Live(c)
  <2>1. wire = <<>> /\ bpc = "dial" /\ resume[c] = lastID
    BY <1>1, <1>4 DEF OrderInv, LiveInv
  <2>2. Ahead(c)' = lastID /\ lastID \in Ids /\ Cursor = lastID
    BY <1>1, <1>2, <2>1 DEF Ahead, Ending, Cursor, TypeOK
  <2>3. /\ Chain(seq, lastID, queue'[c])
        /\ CaughtUp(boot, seq, Ending(lastID, queue'[c]))
    <3>1. CASE resume[c].boot = boot
      <4>1. PICK seen \in 0..Len(history) :
              /\ \A i \in 1..Len(history) : i <= seen <=> history[i].seq <= resume[c].seq
              /\ queue' = [queue EXCEPT ![c] = SubSeq(history, seen + 1, Len(history))]
        BY <3>1 DEF Register
      <4>2. queue'[c] = SubSeq(history, seen + 1, Len(history))
        BY <4>1 DEF TypeOK, ServerTypeOK
      <4>3. AtMost(lastID, Latest)
        BY <2>2 DEF OrderInv, DeliveredInv
      <4> QED BY <2>1, <2>2, <3>1, <4>1, <4>2, <4>3, ReplayChain
    <3>2. CASE resume[c].boot # boot
      <4>1. queue'[c] = <<>>
        BY <1>2, <3>2 DEF Register
      <4> QED BY <2>1, <3>2, <4>1, EmptyChain DEF CaughtUp
    <3> QED BY <3>1, <3>2
  <2> QED BY <1>1, <1>2, <2>2, <2>3 DEF HandlerChain
<1> QED BY <1>3, <1>4

LEMMA PollChain ==
  ASSUME TypeOK, OrderInv, PublishedInv, NEW c \in Conns,
         HandlerChain(c), Poll(c), UNCHANGED streamVars
  PROVE  HandlerChain(c)'
<1>1. /\ handler[c] = "poll" /\ handler'[c] = "write"
      /\ UNCHANGED <<boot, seq, clients, overflowed, conn, up, wire>>
      /\ UNCHANGED <<bpc, lastID, partial>>
      /\ queue[c] \in Seq(Ids) /\ queue[c] \in Seq(PublishedIds)
      /\ Cursor' = Cursor
  BY DEF Poll, linkVars, streamVars, TypeOK, ServerTypeOK, PublishedInv, Cursor
<1>2. held[c] = NoId /\ c \in clients
  BY <1>1 DEF OrderInv, QueueInv
<1>3. CASE ~Live(c)
  BY <1>1, <1>3 DEF HandlerChain, Live
<1>4. CASE Live(c) /\ queue[c] = <<>>
  <2>1. queue'[c] = queue[c] /\ held'[c] = held[c]
    BY <1>4 DEF Poll
  <2> QED BY <1>1, <1>4, <2>1, HandlerSame DEF Live
<1>5. CASE Live(c) /\ queue[c] # <<>>
  <2>1. queue'[c] = Tail(queue[c]) /\ held'[c] = Head(queue[c])
    BY <1>5 DEF Poll, TypeOK, ServerTypeOK
  <2>2. Head(queue[c]) # NoId /\ Head(queue[c]) = queue[c][1]
    BY <1>1, <1>5, TailType, PublishedType
  <2>3. Ahead(c) = Ending(Cursor, wire) /\ Ahead(c)' = Head(queue[c])
    BY <1>2, <2>1, <2>2 DEF Ahead
  <2>4. Meets(seq, Ending(Cursor, wire), Head(queue[c]))
    <3>1. CASE overflowed[c]
      BY <1>1, <1>2, <1>5, <2>2, <2>3, <3>1 DEF HandlerChain
    <3>2. CASE ~overflowed[c]
      BY <1>1, <1>2, <1>5, <2>3, <3>2, TailChain DEF HandlerChain
    <3> QED BY <3>1, <3>2
  <2>5. ~overflowed[c] => /\ Chain(seq, Head(queue[c]), Tail(queue[c]))
                          /\ CaughtUp(boot, seq, Ending(Head(queue[c]), Tail(queue[c])))
    BY <1>1, <1>2, <1>5, <2>3, TailChain DEF HandlerChain
  <2> QED BY <1>1, <1>2, <2>1, <2>3, <2>4, <2>5 DEF HandlerChain
<1> QED BY <1>3, <1>4, <1>5

LEMMA WriteChain ==
  ASSUME TypeOK, BridgeChain, \A c \in Conns : HandlerChain(c), OrderInv,
         NEW c \in Conns, Write(c), UNCHANGED streamVars
  PROVE  BridgeChain' /\ \A d \in Conns : HandlerChain(d)'
<1>1. /\ handler[c] = "write" /\ handler'[c] = "check" /\ held'[c] = NoId
      /\ \A d \in Conns \ {c} : held'[d] = held[d] /\ handler'[d] = handler[d]
      /\ UNCHANGED <<boot, seq, clients, queue, overflowed, conn, up>>
      /\ UNCHANGED <<bpc, lastID, partial, lineCh, posted>>
      /\ held[c] \in Ids /\ wire \in Seq(Ids) /\ Cursor \in Ids /\ Cursor' = Cursor
  BY PlacesType DEF Write, TypeOK, ServerTypeOK, streamVars, Cursor
<1>2. CASE ~(Live(c) /\ held[c] # NoId)
  <2>1. wire' = wire
    BY <1>2 DEF Write
  <2>2. BridgeChain'
    BY <1>1, <2>1, BridgeSame
  <2>3. ASSUME NEW d \in Conns, d # c
        PROVE  HandlerChain(d)'
    BY <1>1, <2>1, <2>3, HandlerSame DEF Live
  <2>4. HandlerChain(c)'
    <3>1. CASE Live(c)
      <4>1. held'[c] = held[c]
        BY <1>1, <1>2, <3>1
      <4> QED BY <1>1, <2>1, <4>1, HandlerSame DEF Live
    <3>2. CASE ~Live(c)
      BY <1>1, <3>2 DEF HandlerChain, Live
    <3> QED BY <3>1, <3>2
  <2> QED BY <2>2, <2>3, <2>4
<1>3. CASE Live(c) /\ held[c] # NoId
  <2>1. wire' = Append(wire, held[c])
    BY <1>3 DEF Write
  <2>2. c \in clients
    BY <1>1 DEF OrderInv, QueueInv
  <2>3. Chain(seq, Cursor, wire') /\ Ending(Cursor, wire') = held[c]
    <3>1. Meets(seq, Ending(Cursor, wire), held[c]) /\ Chain(seq, Cursor, wire)
      BY <1>3, <2>2 DEF HandlerChain, BridgeChain
    <3> QED BY <1>1, <2>1, <3>1, AppendChain
  <2>4. BridgeChain'
    BY <1>1, <2>3 DEF BridgeChain
  <2>5. ASSUME NEW d \in Conns, d # c
        PROVE  HandlerChain(d)'
    <3>1. ~Live(d)'
      BY <1>1, <1>3, <2>5 DEF Live
    <3> QED BY <1>1, <3>1 DEF HandlerChain
  <2>6. HandlerChain(c)'
    <3>1. Ahead(c) = held[c] /\ Ahead(c)' = held[c]
      BY <1>1, <1>3, <2>3 DEF Ahead
    <3> QED BY <1>1, <1>3, <2>2, <3>1 DEF HandlerChain, Live
  <2> QED BY <2>4, <2>5, <2>6
<1> QED BY <1>2, <1>3

LEMMA ServerChain ==
  ASSUME TypeOK, TypeOK', OrderInv, PublishedInv, HistoryIsSuffix, BridgeChain,
         \A c \in Conns : HandlerChain(c), ServerNext, UNCHANGED streamVars
  PROVE  BridgeChain' /\ \A c \in Conns : HandlerChain(c)'
<1>1. CASE Publish
  BY <1>1, PublishChain
<1>2. CASE Restart
  <2>1. BridgeChain'
    BY <1>2, BridgeSame DEF Restart, streamVars, Cursor
  <2>2. \A c \in Conns : HandlerChain(c)'
    BY <1>2 DEF Restart, HandlerChain, Live
  <2> QED BY <2>1, <2>2
<1>3. ASSUME NEW c \in Conns, HandlerStep(c) \/ WriteFails(c)
      PROVE  BridgeChain' /\ \A d \in Conns : HandlerChain(d)'
  <2>1. CASE Write(c)
    BY <2>1, WriteChain
  <2>2. CASE ~Write(c)
    <3>1. /\ UNCHANGED <<boot, seq, wire, conn>>
          /\ UNCHANGED <<bpc, lastID, partial, lineCh, posted>>
          /\ up' => up
      BY <1>3, <2>2
         DEF HandlerStep, CheckRoom, Refuse, Register, SendHeaders, CheckOverflow,
             DropSlowClient, Poll, WriteFails, Leave, linkVars, streamVars
    <3>2. Cursor' = Cursor
      BY <3>1 DEF Cursor
    <3>3. BridgeChain'
      BY <3>1, <3>2, BridgeSame
    <3>4. ASSUME NEW d \in Conns, d # c
          PROVE  HandlerChain(d)'
      <4>1. /\ held'[d] = held[d] /\ queue'[d] = queue[d]
            /\ overflowed'[d] = overflowed[d] /\ handler'[d] = handler[d]
            /\ (d \in clients' <=> d \in clients)
        BY <1>3, <2>2, <3>4
           DEF HandlerStep, CheckRoom, Refuse, Register, SendHeaders,
               CheckOverflow, DropSlowClient, Poll, WriteFails, Leave, TypeOK,
               ServerTypeOK
      <4> QED BY <3>1, <3>2, <4>1, HandlerSame DEF Live
    <3>5. CASE CheckRoom(c) \/ SendHeaders(c) \/ CheckOverflow(c)
      <4>1. /\ UNCHANGED <<held, queue, overflowed, clients>>
            /\ handler'[c] = "poll" => ~overflowed[c]
        BY <3>5 DEF CheckRoom, SendHeaders, CheckOverflow, TypeOK, ServerTypeOK
      <4>2. HandlerChain(c)'
        BY <3>1, <3>2, <4>1, HandlerSame DEF Live
      <4> QED BY <3>3, <3>4, <4>2
    <3>6. CASE Refuse(c) \/ DropSlowClient(c) \/ WriteFails(c)
      <4>1. ~overflowed'[c] /\ c \notin clients'
        BY <3>6 DEF Refuse, DropSlowClient, WriteFails, Leave, TypeOK, ServerTypeOK
      <4>2. HandlerChain(c)'
        BY <4>1 DEF HandlerChain
      <4> QED BY <3>3, <3>4, <4>2
    <3>7. CASE Register(c)
      BY <3>3, <3>4, <3>7, RegisterChain
    <3>8. CASE Poll(c)
      BY <3>3, <3>4, <3>8, PollChain
    <3> QED BY <1>3, <2>2, <3>5, <3>6, <3>7, <3>8 DEF HandlerStep
  <2> QED BY <2>1, <2>2
<1> QED BY <1>1, <1>2, <1>3 DEF ServerNext

\* A step of the bridge after which no handler is live.
LEMMA DeadChain ==
  ASSUME \A c \in Conns : HandlerChain(c), UNCHANGED serverVars, ~up'
  PROVE  \A c \in Conns : HandlerChain(c)'
BY DEF HandlerChain, Live, serverVars

\* A step of the bridge that leaves the connection alone.
LEMMA KeptChain ==
  ASSUME \A c \in Conns : HandlerChain(c), UNCHANGED <<serverVars, conn, up>>,
         Ending(Cursor, wire)' = Ending(Cursor, wire)
  PROVE  \A c \in Conns : HandlerChain(c)'
<1> TAKE c \in Conns
<1>1. UNCHANGED <<boot, seq, held, queue, overflowed, clients, handler, conn, up>>
  BY DEF serverVars
<1> QED BY <1>1, HandlerSame DEF Live

LEMMA DialChain ==
  ASSUME TypeOK, OrderInv, BridgeChain, \A c \in Conns : HandlerChain(c), Dial
  PROVE  BridgeChain' /\ \A c \in Conns : HandlerChain(c)'
<1>1. PICK c \in Conns : handler[c] = "free" /\ conn' = c
  BY DEF Dial
<1>2. /\ bpc = "backoff" /\ bpc' = "dial" /\ wire' = <<>>
      /\ UNCHANGED <<boot, seq, clients, queue, overflowed, held, lastID, lineCh, posted>>
  BY DEF Dial
<1>3. BridgeChain'
  BY <1>2, EmptyChain DEF BridgeChain
<1>4. ASSUME NEW d \in Conns
      PROVE  HandlerChain(d)'
  <2>1. d \notin clients => ~overflowed[d]
    BY DEF HandlerChain
  <2>2. CASE d = c
    <3>1. d \notin clients
      BY <1>1, <2>2 DEF OrderInv, QueueInv
    <3> QED BY <1>2, <2>1, <3>1 DEF HandlerChain
  <2>3. CASE d # c
    BY <1>1, <1>2, <2>1, <2>3 DEF HandlerChain, Live
  <2> QED BY <2>2, <2>3
<1> QED BY <1>3, <1>4

LEMMA HangupChain ==
  ASSUME BridgeChain, \A c \in Conns : HandlerChain(c), Hangup
  PROVE  BridgeChain' /\ \A c \in Conns : HandlerChain(c)'
<1>1. /\ wire' = <<>> /\ ~up' /\ bpc' # "dispatch"
      /\ UNCHANGED <<serverVars, lastID, lineCh, posted>>
  BY DEF Hangup
<1>2. BridgeChain'
  BY <1>1, EmptyChain DEF BridgeChain, serverVars
<1> QED BY <1>1, <1>2, DeadChain

LEMMA CutChain ==
  ASSUME TypeOK, BridgeChain, \A c \in Conns : HandlerChain(c), Cut \/ IdleTimeout
  PROVE  BridgeChain' /\ \A c \in Conns : HandlerChain(c)'
<1>1. /\ ~up' /\ \E k \in 0..Len(wire) : wire' = SubSeq(wire, 1, k)
      /\ UNCHANGED <<serverVars, bpc, lastID, partial, lineCh, posted>>
      /\ wire \in Seq(Ids)
  BY DEF Cut, IdleTimeout, CutAt, TypeOK, ServerTypeOK
<1>2. Chain(seq, Cursor, wire')
  BY <1>1, PrefixChain DEF BridgeChain
<1>3. BridgeChain'
  BY <1>1, <1>2 DEF BridgeChain, Cursor, serverVars
<1> QED BY <1>1, <1>3, DeadChain

LEMMA ReadChain ==
  ASSUME TypeOK, BridgeChain, \A c \in Conns : HandlerChain(c), ReadEvent
  PROVE  BridgeChain' /\ \A c \in Conns : HandlerChain(c)'
<1>1. /\ bpc = "read" /\ bpc' = "dispatch" /\ wire # <<>>
      /\ partial' = Head(wire) /\ wire' = Tail(wire) /\ wire \in Seq(Ids)
      /\ UNCHANGED <<serverVars, conn, up, lastID, lineCh, posted>>
  BY DEF ReadEvent, TypeOK, ServerTypeOK
<1>2. Cursor = lastID /\ Cursor' = Head(wire)
  BY <1>1 DEF Cursor
<1>3. /\ Meets(seq, lastID, Head(wire))
      /\ Chain(seq, Head(wire), Tail(wire))
      /\ Ending(Head(wire), Tail(wire)) = Ending(lastID, wire)
  BY <1>1, <1>2, TailChain DEF BridgeChain
<1>4. BridgeChain'
  BY <1>1, <1>2, <1>3 DEF BridgeChain, serverVars
<1>5. Ending(Cursor, wire)' = Ending(Cursor, wire)
  BY <1>1, <1>2, <1>3
<1> QED BY <1>1, <1>4, <1>5, KeptChain

LEMMA DispatchChain ==
  ASSUME TypeOK, BridgeChain, \A c \in Conns : HandlerChain(c), Dispatch, ~ctxDone
  PROVE  BridgeChain' /\ \A c \in Conns : HandlerChain(c)'
<1>1. /\ bpc = "dispatch" /\ bpc' = "read" /\ lastID' = partial
      /\ lineCh' = Append(lineCh, partial)
      /\ UNCHANGED <<serverVars, linkVars, posted>>
      /\ lineCh \in Seq(Ids) /\ partial \in Ids
  BY DEF Dispatch, TypeOK
<1>2. Cursor = partial /\ Cursor' = partial
  BY <1>1 DEF Cursor
<1>3. /\ Chain(seq, Ending(NoId, posted), lineCh')
      /\ Ending(Ending(NoId, posted), lineCh') = partial
  <2>1. /\ Chain(seq, Ending(NoId, posted), lineCh)
        /\ Meets(seq, Ending(Ending(NoId, posted), lineCh), partial)
    BY <1>1 DEF BridgeChain
  <2> QED BY <1>1, <2>1, AppendChain
<1>4. BridgeChain'
  BY <1>1, <1>2, <1>3 DEF BridgeChain, serverVars, linkVars
<1>5. Ending(Cursor, wire)' = Ending(Cursor, wire)
  BY <1>1, <1>2 DEF linkVars
<1> QED BY <1>1, <1>4, <1>5, KeptChain DEF linkVars

LEMMA ReceiveChain ==
  ASSUME TypeOK, BridgeChain, \A c \in Conns : HandlerChain(c), Receive
  PROVE  BridgeChain' /\ \A c \in Conns : HandlerChain(c)'
<1>1. /\ lineCh # <<>> /\ lineCh' = Tail(lineCh) /\ posted' = Append(posted, Head(lineCh))
      /\ UNCHANGED <<serverVars, linkVars, bpc, lastID, partial>>
      /\ lineCh \in Seq(Ids) /\ posted \in Seq(Ids)
  BY DEF Receive, TypeOK
<1>2. Head(lineCh) \in Ids /\ NoId \in Ids
  BY <1>1, TailType, NothingType
<1>3. /\ Meets(seq, Ending(NoId, posted), Head(lineCh))
      /\ Chain(seq, Head(lineCh), Tail(lineCh))
      /\ Ending(Head(lineCh), Tail(lineCh)) = lastID
  BY <1>1, TailChain DEF BridgeChain
<1>4. Chain(seq, NoId, posted') /\ Ending(NoId, posted') = Head(lineCh)
  BY <1>1, <1>2, <1>3, AppendChain DEF BridgeChain
<1>5. BridgeChain'
  BY <1>1, <1>3, <1>4 DEF BridgeChain, Cursor, serverVars, linkVars
<1>6. Ending(Cursor, wire)' = Ending(Cursor, wire)
  BY <1>1 DEF Cursor, linkVars
<1> QED BY <1>1, <1>5, <1>6, KeptChain DEF linkVars

\* Connected, StopWaiting, ReadTorn and ReceiverStop.
LEMMA IdleChain ==
  ASSUME BridgeChain, \A c \in Conns : HandlerChain(c),
         UNCHANGED <<serverVars, conn, up, wire, posted, lineCh, lastID>>,
         Cursor' = Cursor,
         bpc' = "dispatch" => bpc = "dispatch" /\ partial' = partial
  PROVE  BridgeChain' /\ \A c \in Conns : HandlerChain(c)'
<1>1. BridgeChain'
  BY BridgeSame DEF serverVars
<1>2. Ending(Cursor, wire)' = Ending(Cursor, wire)
  OBVIOUS
<1> QED BY <1>1, <1>2, KeptChain

LEMMA NextChain ==
  ASSUME TypeOK, TypeOK', OrderInv, GapInv, [Next]_vars, ~ctxDone'
  PROVE  BridgeChain' /\ \A c \in Conns : HandlerChain(c)'
<1>1. CASE Cancel
  BY <1>1 DEF Cancel
<1>2. CASE ~Cancel
  <2>1. ~ctxDone
    BY <1>2
       DEF Next, BridgeStep, Dial, Connected, DialError, ReadEvent, ReadTorn,
           Dispatch, StreamEnd, StopWaiting, Hangup, HeaderTimeout, Cut,
           IdleTimeout, Receive, ReceiverStop, vars, streamVars
  <2>2. /\ PublishedInv /\ HistoryIsSuffix /\ BridgeChain
        /\ \A c \in Conns : HandlerChain(c)
    BY <2>1 DEF GapInv
  <2>3. CASE ServerNext /\ UNCHANGED streamVars
    BY <2>2, <2>3, ServerChain
  <2>4. CASE BridgeStep
    <3>1. CASE Dial
      BY <2>2, <3>1, DialChain
    <3>2. CASE Connected
      BY <2>2, <3>2, IdleChain DEF Connected, Cursor, linkVars
    <3>3. CASE StopWaiting
      BY <2>2, <3>3, IdleChain DEF StopWaiting, Cursor, linkVars
    <3>4. CASE DialError \/ StreamEnd
      BY <2>2, <3>4, HangupChain DEF DialError, StreamEnd
    <3>5. CASE ReadEvent
      BY <2>2, <3>5, ReadChain
    <3>6. CASE ReadTorn
      BY <2>2, <3>6, IdleChain DEF ReadTorn, Cursor
    <3>7. CASE Dispatch
      BY <2>1, <2>2, <3>7, DispatchChain
    <3> QED BY <2>4, <3>1, <3>2, <3>3, <3>4, <3>5, <3>6, <3>7 DEF BridgeStep
  <2>5. CASE HeaderTimeout
    BY <2>2, <2>5, HangupChain DEF HeaderTimeout
  <2>6. CASE Cut \/ IdleTimeout
    BY <2>2, <2>6, CutChain
  <2>7. CASE Receive
    BY <2>2, <2>7, ReceiveChain
  <2>8. CASE ReceiverStop \/ UNCHANGED vars
    <3>1. /\ UNCHANGED <<serverVars, linkVars>>
          /\ UNCHANGED <<bpc, lastID, partial, lineCh, posted>>
      BY <2>8 DEF ReceiverStop, vars, streamVars
    <3> QED BY <2>2, <3>1, IdleChain DEF Cursor, linkVars
  <2> QED BY <1>2, <2>3, <2>4, <2>5, <2>6, <2>7, <2>8 DEF Next
<1> QED BY <1>1, <1>2

LEMMA NextGap ==
  TypeOK /\ TypeOK' /\ OrderInv /\ GapInv /\ [Next]_vars => GapInv'
<1> SUFFICES ASSUME TypeOK, TypeOK', OrderInv, GapInv, [Next]_vars
             PROVE  GapInv'
  OBVIOUS
<1>1. PublishedInv'
  BY NextPublished DEF GapInv
<1>2. HistoryIsSuffix'
  BY NextHistory DEF GapInv
<1>3. ~ctxDone' => BridgeChain' /\ \A c \in Conns : HandlerChain(c)'
  BY NextChain
<1> QED BY <1>1, <1>2, <1>3 DEF GapInv

-----------------------------------------------------------------------------
(* The theorems.                                                           *)

\* From Matrix back to the plugin the ids form one chain, which only a client
\* about to be dropped has broken.
THEOREM GapInvariant == Spec => [](TypeOK /\ OrderInv /\ GapInv)
<1>1. Init => TypeOK /\ OrderInv /\ GapInv
  BY InitType, InitOrder, InitGap
<1>2. TypeOK /\ OrderInv /\ GapInv /\ [Next]_vars => (TypeOK /\ OrderInv /\ GapInv)'
  BY NextType, NextOrder, NextGap
<1> QED BY <1>1, <1>2, PTL DEF Spec

\* Between two events of one boot that reached Matrix none is missing, unless
\* the history had lost it: reconnecting closes every gap that an overflow, a
\* cut or a timeout opens.
THEOREM NoGapInDelivery == Spec => []NoSilentGap
<1>1. ASSUME TypeOK, GapInv PROVE NoSilentGap
  <2>1. SUFFICES ASSUME ~ctxDone, NEW i \in 2..Len(posted),
                        posted[i - 1].boot = posted[i].boot
                 PROVE  \/ posted[i].seq = posted[i - 1].seq + 1
                        \/ Evicted(posted[i].boot, posted[i].seq - 1)
    BY DEF NoSilentGap
  <2>2. i \in 1..Len(posted) /\ i # 1
    OBVIOUS
  <2>3. Meets(seq, posted[i - 1], posted[i])
    BY <1>1, <2>1, <2>2 DEF GapInv, BridgeChain, Chain
  <2> QED BY <2>1, <2>3 DEF Meets, Evicted
<1> QED BY <1>1, GapInvariant, PTL

-----------------------------------------------------------------------------
(* The stream implements the feed.                                         *)

LEMMA InitFeed == Init => Feed!FeedInit
BY DEF Init, ServerInit, Feed!FeedInit, Boots

LEMMA ReceiveFeed ==
  ASSUME TypeOK, OrderInv, GapInv, Receive
  PROVE  Feed!FeedDeliver
<1> DEFINE e == Head(lineCh)
<1>1. /\ lineCh # <<>> /\ posted' = Append(posted, e)
      /\ UNCHANGED <<boot, seq, ctxDone>>
      /\ lineCh \in Seq(PublishedIds) /\ lineCh \in Seq(Ids) /\ posted \in Seq(Ids)
  BY DEF Receive, serverVars, GapInv, PublishedInv, TypeOK
<1>2. e \in PublishedIds /\ e = lineCh[1] /\ Len(lineCh) \in Nat \ {0}
  BY <1>1, TailType
<1>3. e \in Ids /\ e.boot \in 1..boot /\ e.seq \in 1..seq[e.boot]
  BY <1>2 DEF PublishedIds
<1>4. e = [boot |-> e.boot, seq |-> e.seq]
  BY <1>3 DEF Ids
<1>5. posted # <<>> => Feed!Follows(posted[Len(posted)], e)
  <2> SUFFICES ASSUME posted # <<>> PROVE Feed!Follows(posted[Len(posted)], e)
    OBVIOUS
  <2>1. Len(posted) \in 1..Len(posted)
    BY <1>1, EmptySeq, LenProperties
  <2>2. Before(posted[Len(posted)], e)
    <3>1. 1 \in 1..Len(lineCh)
      BY <1>2
    <3> QED BY <1>2, <2>1, <3>1 DEF OrderInv, DeliveredInv, Precedes
  <2>3. ~ctxDone => Meets(seq, posted[Len(posted)], e)
    <3>1. ~ctxDone => Chain(seq, posted[Len(posted)], lineCh)
      BY DEF GapInv, BridgeChain, Ending
    <3> QED BY <1>2, <3>1 DEF Chain
  <2> QED BY <2>2, <2>3 DEF Feed!Follows, Feed!Before, Feed!Evicted, Before, Meets
<1> QED BY <1>1, <1>3, <1>4, <1>5 DEF Feed!FeedDeliver

LEMMA NextFeed ==
  ASSUME TypeOK, OrderInv, GapInv, [Next]_vars
  PROVE  [Feed!FeedNext]_(Feed!feedVars)
<1> USE DEF Feed!FeedNext, Feed!feedVars
<1>1. CASE Publish /\ UNCHANGED streamVars
  BY <1>1 DEF Publish, streamVars, Feed!FeedPublish
<1>2. CASE Restart /\ UNCHANGED streamVars
  BY <1>2 DEF Restart, streamVars, Feed!FeedRestart
<1>3. CASE Receive
  BY <1>3, ReceiveFeed
<1>4. CASE Cancel
  BY <1>4 DEF Cancel, serverVars, Feed!FeedStop
<1>5. ASSUME NEW c \in Conns, HandlerStep(c) \/ WriteFails(c), UNCHANGED streamVars
      PROVE  UNCHANGED Feed!feedVars
  BY <1>5 DEF HandlerStep, CheckRoom, Refuse, Register, SendHeaders,
              CheckOverflow, DropSlowClient, Poll, Write, WriteFails, Leave,
              streamVars
<1>6. CASE \/ BridgeStep \/ HeaderTimeout \/ Cut \/ IdleTimeout
           \/ ReceiverStop \/ UNCHANGED vars
  <2>1. UNCHANGED <<boot, seq, posted, ctxDone>>
    BY <1>6
       DEF BridgeStep, Dial, Connected, DialError, ReadEvent, ReadTorn, Dispatch,
           StreamEnd, StopWaiting, Hangup, HeaderTimeout, Cut, IdleTimeout,
           ReceiverStop, vars, serverVars, streamVars
  <2> QED BY <2>1
<1> QED BY <1>1, <1>2, <1>3, <1>4, <1>5, <1>6 DEF Next, ServerNext

\* The plugin's server, the connection and the bridge's stream client together
\* keep the promise of EventFeed, for every size, bound and fault.
THEOREM StreamImplementsFeed == Spec => ImplementsFeed
<1>1. Init => Feed!FeedInit
  BY InitFeed
<1>2. TypeOK /\ OrderInv /\ GapInv /\ [Next]_vars => [Feed!FeedNext]_(Feed!feedVars)
  BY NextFeed
<1> QED BY <1>1, <1>2, GapInvariant, PTL DEF Spec, ImplementsFeed, Feed!FeedSpec

=============================================================================
