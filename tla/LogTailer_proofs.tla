--------------------------- MODULE LogTailer_proofs ---------------------------
(***************************************************************************)
(* Proofs about LogTailer, for every capacity of lineCh and any number of  *)
(* lines, log streams and faults: its types, the order of what it passes   *)
(* on, and that it implements EventFeed.                                   *)
(***************************************************************************)
EXTENDS LogTailer, SequenceTheorems, FiniteSetTheorems,
        WellFoundedInduction, TLAPS

-----------------------------------------------------------------------------
(* The inductive invariant.                                                *)

\* Everything sent to lineCh, whether receiveLoop has taken it or not.
out == posted \o lineCh

Newest == IF out = <<>> THEN 0 ELSE out[Len(out)]

\* The newest line that was sent or is being sent.
Sent == IF held # 0 THEN held ELSE Newest

\* Every event between two lines was out of reach.
Clear(from, to) ==
  \A n \in from + 1 .. to - 1 : log[n].kind = "event" => OutOfReach(n)

\* Which of held, inHand and src hold something.
StageInv ==
  /\ pc = "send" <=> held # 0
  /\ copier = "write" <=> inHand # 0
  /\ pc \in {"open", "inspect", "backoff", "done"} => copier = "none"
  /\ pc \in {"open", "backoff", "done"} => src = <<>>
  /\ pc \in {"scan", "send"} => (mux <=> copier # "none")
  /\ pc \in {"inspect", "scan", "send", "drain"} => stream # 0

Before(i) == IF i = 1 THEN 0 ELSE out[i - 1]

OutInv ==
  \A i \in 1..Len(out) : /\ Before(i) < out[i]
                         /\ log[out[i]].kind = "event"
                         /\ ~ctxDone => Clear(Before(i), out[i])

HeldInv ==
  held # 0 => /\ Newest < held
              /\ log[held].kind = "event"
              /\ ~ctxDone => Clear(Newest, held)

\* What is still to be scanned comes after what was sent, in order, and from
\* the stream opened last.
FrontInv ==
  /\ inHand # 0 => Sent < inHand
  /\ \A i \in 1..Len(src) :
       /\ Sent < src[i] /\ inHand < src[i]
       /\ log[src[i]].stream = stream
       /\ \A j \in 1..(i - 1) : src[j] < src[i]

ToScan(n) == n = inHand \/ \E i \in 1..Len(src) : src[i] = n

\* An event that was not sent is still to be scanned, or out of reach.
MissInv ==
  ~ctxDone =>
    \A n \in Sent + 1 .. Len(log) :
      log[n].kind = "event" => ToScan(n) \/ OutOfReach(n)

\* Nothing that can be reached will come any more on this stream.
Spent ==
  \/ stream \in garbled
  \/ src = <<>> /\ ended
  \/ \E l \in 1..Len(log) : /\ log[l].kind = "long" /\ log[l].stream = stream
                            /\ \A i \in 1..Len(src) : l < src[i]

SpentInv ==
  ~ctxDone => /\ copier = "done" => Spent
              /\ pc = "drain" => copier = "write" \/ Spent

\* A TTY's stream the copier has started on is garbled.
GarbledInv == tty /\ copier # "none" => stream \in garbled

TailInv == OutInv /\ HeldInv /\ FrontInv /\ MissInv /\ SpentInv /\ GarbledInv

-----------------------------------------------------------------------------
(* Facts about the sequences.                                              *)

Line == [kind : Kinds, stream : 0..MaxStreams]

LEMMA Types ==
  ASSUME TypeOK
  PROVE  /\ log \in Seq(Line) /\ Len(log) \in Nat
         /\ \A n \in 1..Len(log) : log[n] \in Line
         /\ src \in Seq(1..Len(log)) /\ Len(src) \in Nat
         /\ \A i \in 1..Len(src) : src[i] \in 1..Len(log)
         /\ lineCh \in Seq(1..Len(log)) /\ posted \in Seq(1..Len(log))
         /\ inHand \in 0..Len(log) /\ held \in 0..Len(log)
<1>1. log \in Seq(Line) /\ src \in Seq(1..Len(log))
  BY DEF TypeOK, Line
<1>2. /\ Len(log) \in Nat /\ \A n \in 1..Len(log) : log[n] \in Line
  BY <1>1, LenProperties, ElementOfSeq
<1>3. /\ Len(src) \in Nat /\ \A i \in 1..Len(src) : src[i] \in 1..Len(log)
  BY <1>1, LenProperties, ElementOfSeq
<1> QED BY <1>1, <1>2, <1>3 DEF TypeOK

LEMMA OutType ==
  ASSUME TypeOK
  PROVE  /\ out \in Seq(1..Len(log)) /\ Len(out) \in Nat
         /\ \A i \in 1..Len(out) : out[i] \in 1..Len(log)
         /\ Newest \in 0..Len(log) /\ Sent \in 0..Len(log)
<1>1. out \in Seq(1..Len(log))
  BY Types, ConcatProperties DEF out
<1>2. Len(out) \in Nat /\ \A i \in 1..Len(out) : out[i] \in 1..Len(log)
  BY <1>1, LenProperties, ElementOfSeq
<1>3. out # <<>> => Len(out) \in 1..Len(out)
  BY <1>1, <1>2, EmptySeq
<1>4. Newest \in 0..Len(log)
  BY <1>2, <1>3, Types DEF Newest
<1> QED BY <1>1, <1>2, <1>4, Types DEF Sent

LEMMA Widen ==
  ASSUME NEW m \in Nat, NEW n \in Nat, m <= n
  PROVE  Seq(1..m) \subseteq Seq(1..n)
BY SeqMonotonic

\* receiveLoop takes a line from the channel: nothing is lost or moved.
LEMMA TakenFromChannel ==
  ASSUME TypeOK, lineCh # <<>>, posted' = Append(posted, Head(lineCh)),
         lineCh' = Tail(lineCh), log' = log
  PROVE  /\ out' = out
         /\ posted' \in Seq(1..Len(log)) /\ lineCh' \in Seq(1..Len(log))
         /\ Len(lineCh') <= Len(lineCh)
<1> DEFINE S == 1..Len(log)
           h == Head(lineCh)
<1>1. posted \in Seq(S) /\ lineCh \in Seq(S)
  BY Types
<1>2. /\ h \in S /\ h = lineCh[1]
      /\ Tail(lineCh) \in Seq(S) /\ Len(Tail(lineCh)) = Len(lineCh) - 1
      /\ \A i \in 1..Len(Tail(lineCh)) : Tail(lineCh)[i] = lineCh[i + 1]
  BY <1>1, HeadTailProperties
<1>3. /\ Append(posted, h) \in Seq(S) /\ Len(Append(posted, h)) = Len(posted) + 1
      /\ \A i \in 1..Len(posted) : Append(posted, h)[i] = posted[i]
      /\ Append(posted, h)[Len(posted) + 1] = h
  BY <1>1, <1>2, AppendProperties
<1> HIDE DEF S, h
<1>4. Len(posted) \in Nat /\ Len(lineCh) \in Nat /\ Len(lineCh) >= 1
  BY <1>1, <1>2, LenProperties
<1>5. /\ posted \o lineCh \in Seq(S)
      /\ Len(posted \o lineCh) = Len(posted) + Len(lineCh)
      /\ \A i \in 1..Len(posted) + Len(lineCh) :
           (posted \o lineCh)[i] = IF i <= Len(posted) THEN posted[i]
                                   ELSE lineCh[i - Len(posted)]
  BY <1>1, ConcatProperties
<1>6. /\ posted' \o lineCh' \in Seq(S)
      /\ Len(posted' \o lineCh') = Len(posted) + Len(lineCh)
      /\ \A i \in 1..Len(posted) + Len(lineCh) :
           (posted' \o lineCh')[i] = IF i <= Len(posted) + 1 THEN posted'[i]
                                     ELSE lineCh'[i - (Len(posted) + 1)]
  <2>1. posted' \in Seq(S) /\ lineCh' \in Seq(S)
    BY <1>2, <1>3 DEF h
  <2>2. Len(posted') = Len(posted) + 1 /\ Len(lineCh') = Len(lineCh) - 1
    BY <1>2, <1>3 DEF h
  <2>3. /\ posted' \o lineCh' \in Seq(S)
        /\ Len(posted' \o lineCh') = Len(posted') + Len(lineCh')
        /\ \A i \in 1..Len(posted') + Len(lineCh') :
             (posted' \o lineCh')[i] = IF i <= Len(posted') THEN posted'[i]
                                       ELSE lineCh'[i - Len(posted')]
    BY <2>1, ConcatProperties
  <2>4. Len(posted') + Len(lineCh') = Len(posted) + Len(lineCh)
    BY <1>4, <2>2
  <2> QED BY <2>2, <2>3, <2>4
<1>7. \A i \in 1..Len(posted) + Len(lineCh) :
        (posted' \o lineCh')[i] = (posted \o lineCh)[i]
  <2> SUFFICES ASSUME NEW i \in 1..Len(posted) + Len(lineCh)
               PROVE  (posted' \o lineCh')[i] = (posted \o lineCh)[i]
    OBVIOUS
  <2>1. CASE i <= Len(posted)
    <3>1. posted'[i] = posted[i]
      BY <1>3, <2>1 DEF h
    <3> QED BY <1>4, <1>5, <1>6, <2>1, <3>1
  <2>2. CASE i = Len(posted) + 1
    <3>1. posted'[i] = lineCh[1]
      BY <1>2, <1>3, <2>2 DEF h
    <3> QED BY <1>4, <1>5, <1>6, <2>2, <3>1
  <2>3. CASE i > Len(posted) + 1
    <3>1. i - (Len(posted) + 1) \in 1..(Len(lineCh) - 1)
      BY <1>4, <2>3
    <3>2. lineCh'[i - (Len(posted) + 1)] = lineCh[i - (Len(posted) + 1) + 1]
      BY <1>2, <3>1
    <3>3. i - (Len(posted) + 1) + 1 = i - Len(posted)
      BY <1>4
    <3> QED BY <1>4, <1>5, <1>6, <2>3, <3>2, <3>3
  <2> QED BY <1>4, <2>1, <2>2, <2>3
<1>8. posted' \o lineCh' = posted \o lineCh
  BY <1>5, <1>6, <1>7, SeqEqual
<1> QED BY <1>2, <1>3, <1>4, <1>8 DEF out, S, h

\* A line is put on the channel.
LEMMA PutOnChannel ==
  ASSUME TypeOK, held # 0, lineCh' = Append(lineCh, held), posted' = posted,
         log' = log
  PROVE  /\ out' = Append(out, held)
         /\ lineCh' \in Seq(1..Len(log)) /\ Len(lineCh') = Len(lineCh) + 1
<1>1. held \in 1..Len(log)
  BY Types
<1>2. posted \in Seq(1..Len(log)) /\ lineCh \in Seq(1..Len(log))
  BY Types
<1>3. /\ lineCh' \in Seq(1..Len(log)) /\ Len(lineCh') = Len(lineCh) + 1
  BY <1>1, <1>2, AppendProperties
<1>4. /\ Append(lineCh, held) = lineCh \o <<held>>
      /\ Append(posted \o lineCh, held) = (posted \o lineCh) \o <<held>>
  BY <1>1, <1>2, ConcatProperties, AppendIsConcat
<1>5. (posted \o lineCh) \o <<held>> = posted \o (lineCh \o <<held>>)
  <2>1. <<held>> \in Seq(1..Len(log))
    BY <1>1
  <2> QED BY <1>2, <2>1, ConcatAssociative
<1> QED BY <1>3, <1>4, <1>5 DEF out

-----------------------------------------------------------------------------
(* Type correctness.                                                       *)

TypeInv == TypeOK /\ StageInv

LEMMA InitType == Init => TypeInv
<1> SUFFICES ASSUME Init PROVE TypeInv
  OBVIOUS
<1>1. /\ <<>> \in Seq(Line) /\ <<>> \in Seq(1..0) /\ Len(<<>>) = 0
  BY EmptySeq
<1>2. /\ log \in Seq(Line) /\ Len(log) = 0
      /\ src \in Seq(1..Len(log)) /\ posted \in Seq(1..Len(log))
      /\ lineCh \in Seq(1..Len(log)) /\ Len(lineCh) <= LineCap
  BY <1>1, TailAssumption DEF Init
<1>3. /\ faults \in 0..MaxFaults /\ stream \in 0..MaxStreams
      /\ garbled \subseteq 1..MaxStreams
      /\ inHand \in 0..Len(log) /\ held \in 0..Len(log)
  BY <1>2, TailAssumption DEF Init
<1>4. /\ running \in BOOLEAN /\ tty \in BOOLEAN /\ ended \in BOOLEAN
      /\ mux \in BOOLEAN /\ receiver \in BOOLEAN /\ ctxDone \in BOOLEAN
  BY DEF Init
<1>5. /\ pc \in {"open", "inspect", "scan", "send", "drain", "backoff", "done"}
      /\ copier \in {"none", "read", "write", "done"}
  BY DEF Init
<1>6. TypeOK
  BY <1>2, <1>3, <1>4, <1>5 DEF TypeOK, Line
<1> QED BY <1>6 DEF TypeInv, StageInv, Init

LEMMA ConsoleLineType ==
  ASSUME TypeInv, NEW kind \in Kinds, ConsoleLine(kind)
  PROVE  /\ TypeInv'
         /\ Len(log') = Len(log) + 1
         /\ \A n \in 1..Len(log) : log'[n] = log[n]
         /\ log'[Len(log) + 1].stream = IF Attached THEN stream ELSE 0
<1> DEFINE line == [kind |-> kind, stream |-> IF Attached THEN stream ELSE 0]
<1>1. /\ log \in Seq(Line) /\ Len(log) \in Nat /\ src \in Seq(1..Len(log))
      /\ lineCh \in Seq(1..Len(log)) /\ posted \in Seq(1..Len(log))
      /\ inHand \in 0..Len(log) /\ held \in 0..Len(log)
  BY Types DEF TypeInv
<1>2. line \in Line /\ log' = Append(log, line)
  BY TailAssumption DEF TypeInv, TypeOK, Line, ConsoleLine
<1>3. line.stream = IF Attached THEN stream ELSE 0
  OBVIOUS
<1> HIDE DEF line
<1>4. /\ log' \in Seq(Line) /\ Len(log') = Len(log) + 1
      /\ \A n \in 1..Len(log) : log'[n] = log[n]
      /\ log'[Len(log) + 1] = line
  BY <1>1, <1>2, AppendProperties
<1>5. Seq(1..Len(log)) \subseteq Seq(1..Len(log'))
  BY <1>1, <1>4, Widen
<1>6. src' \in Seq(1..Len(log'))
  <2>1. Len(log) + 1 \in 1..Len(log') /\ src \in Seq(1..Len(log'))
    BY <1>1, <1>4, <1>5
  <2>2. Append(src, Len(log) + 1) \in Seq(1..Len(log'))
    BY <2>1, AppendProperties
  <2> QED BY <2>1, <2>2 DEF ConsoleLine
<1>7. /\ lineCh' = lineCh /\ posted' = posted /\ inHand' = inHand
      /\ held' = held /\ pc' = pc /\ stream' = stream /\ mux' = mux
      /\ copier' = copier /\ receiver' = receiver /\ ctxDone' = ctxDone
      /\ running' = running /\ tty' = tty /\ ended' = ended
      /\ garbled' = garbled /\ faults' = faults
  BY DEF ConsoleLine, tailVars
<1>8. lineCh' \in Seq(1..Len(log')) /\ posted' \in Seq(1..Len(log'))
  BY <1>1, <1>5, <1>7
<1>9. inHand' \in 0..Len(log') /\ held' \in 0..Len(log')
  BY <1>1, <1>4, <1>7
<1>10. TypeOK'
  <2>1. log' \in Seq([kind : Kinds, stream : 0..MaxStreams])
    BY <1>4 DEF Line
  <2> QED BY <2>1, <1>6, <1>7, <1>8, <1>9 DEF TypeInv, TypeOK
<1>11. StageInv'
  <2>1. pc \in {"open", "backoff", "done"} => src' = src
    BY DEF ConsoleLine, Attached
  <2> QED BY <2>1, <1>7 DEF TypeInv, StageInv
<1> QED BY <1>3, <1>4, <1>10, <1>11 DEF TypeInv

LEMMA DockerType ==
  ASSUME TypeInv, ContainerStop \/ ContainerStart \/ StreamBreaks
  PROVE  TypeInv'
<1>1. faults' \in 0..MaxFaults
  BY TailAssumption DEF TypeInv, TypeOK, ContainerStop, ContainerStart, StreamBreaks
<1>2. /\ running' \in BOOLEAN /\ ended' \in BOOLEAN
  BY DEF TypeInv, TypeOK, ContainerStop, ContainerStart, StreamBreaks
<1>3. UNCHANGED <<tty, log, src, garbled, tailVars>>
  BY DEF ContainerStop, ContainerStart, StreamBreaks
<1> QED BY <1>1, <1>2, <1>3 DEF TypeInv, TypeOK, StageInv, tailVars

LEMMA OpenType ==
  ASSUME TypeInv, Open \/ OpenFails \/ Inspect \/ Backoff
  PROVE  TypeInv'
<1> USE TailAssumption DEF TypeInv, StageInv
<1>1. CASE Open
  <2>1. src' \in Seq(1..Len(log))
    BY <1>1, EmptySeq DEF Open
  <2>2. stream' \in 1..MaxStreams
    BY <1>1 DEF Open, TypeOK
  <2>3. TypeOK'
    BY <1>1, <2>1, <2>2 DEF Open, TypeOK
  <2> QED BY <1>1, <2>2, <2>3 DEF Open
<1>2. CASE OpenFails
  BY <1>2 DEF OpenFails, TypeOK
<1>3. CASE Inspect
  <2>1. garbled' \subseteq 1..MaxStreams
    BY <1>3 DEF Inspect, TypeOK
  <2>2. mux' \in BOOLEAN /\ copier' \in {"none", "read", "write", "done"}
    BY <1>3 DEF Inspect, TypeOK
  <2>3. faults' \in 0..MaxFaults
    BY <1>3 DEF Inspect, TypeOK
  <2> QED BY <1>3, <2>1, <2>2, <2>3 DEF Inspect, TypeOK
<1>4. CASE Backoff
  <2>1. pc' \in {"open", "done"}
    BY <1>4 DEF Backoff
  <2> QED BY <1>4, <2>1 DEF Backoff, TypeOK, dockerVars
<1> QED BY <1>1, <1>2, <1>3, <1>4

\* The line a scan takes, and what is left of the stream.
LEMMA SrcTail ==
  ASSUME TypeOK, src # <<>>
  PROVE  /\ Head(src) \in 1..Len(log) /\ Head(src) = src[1] /\ Len(src) >= 1
         /\ Tail(src) \in Seq(1..Len(log)) /\ Len(Tail(src)) = Len(src) - 1
         /\ \A i \in 1..Len(Tail(src)) : Tail(src)[i] = src[i + 1]
<1>1. src \in Seq(1..Len(log))
  BY Types
<1>2. Len(src) \in Nat \ {0}
  BY <1>1, EmptySeq
<1> QED BY <1>1, <1>2, HeadTailProperties

LEMMA TakeType ==
  ASSUME TypeInv, NEW n \in 1..Len(log), Take(n), pc = "scan"
  PROVE  /\ pc' \in {"scan", "send", "drain"} /\ held' \in 0..Len(log)
         /\ pc' = "send" <=> held' # 0
         /\ pc' = "drain" => log[n].kind = "long"
<1>1. log[n] \in Line
  BY Types DEF TypeInv
<1>2. log[n].kind \in {"event", "noise", "long"}
  BY <1>1 DEF Line, Kinds
<1>3. held = 0 /\ Len(log) \in Nat
  BY Types DEF TypeInv, StageInv
<1> QED BY <1>2, <1>3 DEF Take

LEMMA ScanType ==
  ASSUME TypeInv, ScanPipe \/ ScanRaw \/ ScanEnd
  PROVE  TypeInv'
<1>1. CASE ScanPipe
  <2>1. inHand \in 1..Len(log)
    BY <1>1, Types DEF ScanPipe, TypeInv, StageInv
  <2>2. /\ pc' \in {"scan", "send", "drain"} /\ held' \in 0..Len(log)
        /\ pc' = "send" <=> held' # 0
        /\ pc' = "drain" => log[inHand].kind = "long"
    BY <1>1, <2>1, TakeType DEF ScanPipe
  <2>3. /\ copier' \in {"read", "write"} /\ inHand' \in 0..Len(log)
        /\ copier' = "write" <=> inHand' # 0
    BY <1>1, <2>1 DEF ScanPipe
  <2>4. TypeOK'
    BY <1>1, <2>2, <2>3 DEF ScanPipe, TypeInv, TypeOK, dockerVars
  <2>5. StageInv'
    BY <1>1, <2>2, <2>3 DEF ScanPipe, TypeInv, StageInv, dockerVars
  <2> QED BY <2>4, <2>5 DEF TypeInv
<1>2. CASE ScanRaw
  <2>1. /\ Head(src) \in 1..Len(log) /\ Tail(src) \in Seq(1..Len(log))
    BY <1>2, SrcTail DEF ScanRaw, TypeInv
  <2>2. /\ pc' \in {"scan", "send", "drain"} /\ held' \in 0..Len(log)
        /\ pc' = "send" <=> held' # 0
    BY <1>2, <2>1, TakeType DEF ScanRaw
  <2>3. TypeOK'
    BY <1>2, <2>1, <2>2 DEF ScanRaw, TypeInv, TypeOK
  <2>4. StageInv'
    BY <1>2, <2>2 DEF ScanRaw, TypeInv, StageInv
  <2> QED BY <2>3, <2>4 DEF TypeInv
<1>3. CASE ScanEnd
  BY <1>3 DEF ScanEnd, TypeInv, TypeOK, StageInv, dockerVars
<1> QED BY <1>1, <1>2, <1>3

LEMMA SendType ==
  ASSUME TypeInv, Send
  PROVE  TypeInv'
<1>1. held # 0 /\ held' = 0 /\ pc' \in {"scan", "drain"} /\ posted' = posted
      /\ log' = log
  BY DEF Send, TypeInv, StageInv, dockerVars
<1>2. lineCh' \in Seq(1..Len(log)) /\ Len(lineCh') <= LineCap
  <2>1. CASE Len(lineCh) < LineCap /\ lineCh' = Append(lineCh, held)
    <3>1. lineCh' \in Seq(1..Len(log)) /\ Len(lineCh') = Len(lineCh) + 1
      BY <1>1, <2>1, PutOnChannel DEF TypeInv
    <3>2. Len(lineCh) \in Nat
      BY Types, LenProperties DEF TypeInv
    <3> QED BY <2>1, <3>1, <3>2, TailAssumption
  <2>2. CASE lineCh' = lineCh
    BY <2>2 DEF TypeInv, TypeOK
  <2> QED BY <2>1, <2>2 DEF Send
<1>3. TypeOK'
  <2>1. held' \in 0..Len(log)
    BY <1>1, Types DEF TypeInv
  <2> QED BY <1>1, <1>2, <2>1 DEF Send, TypeInv, TypeOK, dockerVars
<1>4. StageInv'
  BY <1>1 DEF Send, TypeInv, StageInv, dockerVars
<1> QED BY <1>3, <1>4 DEF TypeInv

LEMMA ReturnType ==
  ASSUME TypeInv, Return
  PROVE  TypeInv'
<1>1. src' \in Seq(1..Len(log))
  BY EmptySeq DEF Return
<1> QED BY <1>1 DEF Return, TypeInv, TypeOK, StageInv

LEMMA CopyType ==
  ASSUME TypeInv, CopyRead \/ CopyEnd
  PROVE  TypeInv'
<1>1. CASE CopyRead
  <2>1. /\ Head(src) \in 1..Len(log) /\ Tail(src) \in Seq(1..Len(log))
    BY <1>1, SrcTail DEF CopyRead, TypeInv
  <2>2. Len(log) \in Nat
    BY Types DEF TypeInv
  <2>3. /\ copier' \in {"none", "read", "write", "done"}
        /\ src' \in Seq(1..Len(log)) /\ inHand' \in 0..Len(log)
    <3>1. src \in Seq(1..Len(log)) /\ inHand \in 0..Len(log)
      BY Types DEF TypeInv
    <3>2. CASE tty
      BY <1>1, <3>1, <3>2 DEF CopyRead
    <3>3. CASE ~tty
      <4>1. copier' = "write" /\ inHand' = Head(src) /\ src' = Tail(src)
        BY <1>1, <3>3 DEF CopyRead
      <4>2. inHand' \in 0..Len(log)
        BY <2>1, <2>2, <4>1
      <4> QED BY <2>1, <4>1, <4>2
    <3> QED BY <3>2, <3>3
  <2>4. /\ UNCHANGED <<running, tty, log, ended, garbled, faults>>
        /\ UNCHANGED <<pc, stream, mux, held, lineCh, receiver, ctxDone, posted>>
    BY <1>1 DEF CopyRead
  <2>5. TypeOK'
    BY <2>3, <2>4 DEF TypeInv, TypeOK
  <2>6. StageInv'
    BY <1>1, <2>1, <2>2 DEF CopyRead, TypeInv, StageInv
  <2> QED BY <2>5, <2>6 DEF TypeInv
<1>2. CASE CopyEnd
  BY <1>2 DEF CopyEnd, TypeInv, TypeOK, StageInv, dockerVars
<1> QED BY <1>1, <1>2

LEMMA ReceiveType ==
  ASSUME TypeInv, Receive \/ ReceiverStop \/ Cancel
  PROVE  TypeInv'
<1>1. CASE Receive
  <2>1. /\ posted' \in Seq(1..Len(log)) /\ lineCh' \in Seq(1..Len(log))
        /\ Len(lineCh') <= Len(lineCh)
    BY <1>1, TakenFromChannel DEF Receive, TypeInv, dockerVars
  <2>2. Len(lineCh') <= LineCap
    <3>1. Len(lineCh) \in Nat /\ Len(lineCh') \in Nat
      BY <2>1, Types, LenProperties DEF TypeInv
    <3> QED BY <2>1, <3>1, TailAssumption DEF TypeInv, TypeOK
  <2> QED BY <1>1, <2>1, <2>2 DEF Receive, TypeInv, TypeOK, StageInv, dockerVars
<1>2. CASE ReceiverStop
  BY <1>2 DEF ReceiverStop, TypeInv, TypeOK, StageInv, dockerVars
<1>3. CASE Cancel
  BY <1>3 DEF Cancel, TypeInv, TypeOK, StageInv, dockerVars
<1> QED BY <1>1, <1>2, <1>3

LEMMA StutterType ==
  ASSUME TypeInv, UNCHANGED vars
  PROVE  TypeInv'
BY DEF vars, dockerVars, tailVars, TypeInv, TypeOK, StageInv

LEMMA NextType == TypeInv /\ [Next]_vars => TypeInv'
<1> SUFFICES ASSUME TypeInv, [Next]_vars PROVE TypeInv'
  OBVIOUS
<1>1. CASE DockerNext
  BY <1>1, ConsoleLineType, DockerType DEF DockerNext
<1>2. CASE Open \/ OpenFails \/ Inspect \/ Backoff
  BY <1>2, OpenType
<1>3. CASE ScanPipe \/ ScanRaw \/ ScanEnd
  BY <1>3, ScanType
<1>4. CASE Send
  BY <1>4, SendType
<1>5. CASE Return
  BY <1>5, ReturnType
<1>6. CASE CopyRead \/ CopyEnd
  BY <1>6, CopyType
<1>7. CASE Receive \/ ReceiverStop \/ Cancel
  BY <1>7, ReceiveType
<1>8. CASE UNCHANGED vars
  BY <1>8, StutterType
<1> QED BY <1>1, <1>2, <1>3, <1>4, <1>5, <1>6, <1>7, <1>8 DEF Next

\* Every variable keeps its type, and a line in hand or being sent is one the
\* console printed, whatever the goroutines of the tailer, the container and
\* the Docker daemon do.
THEOREM TypeCorrect == Spec => []TypeOK
<1>1. Spec => []TypeInv
  BY InitType, NextType, PTL DEF Spec
<1>2. TypeInv => TypeOK
  BY DEF TypeInv
<1> QED BY <1>1, <1>2, PTL

-----------------------------------------------------------------------------
(* What a step that only adds keeps.                                       *)

\* The log and the set of garbled streams only grow, and a cancelled context
\* stays cancelled.
Grows == /\ Len(log) <= Len(log')
         /\ \A n \in 1..Len(log) : log'[n] = log[n]
         /\ garbled \subseteq garbled'
         /\ ctxDone => ctxDone'

\* A line out of reach stays out of reach.
LEMMA ReachKept ==
  ASSUME TypeInv, Grows, NEW n \in 1..Len(log), OutOfReach(n)
  PROVE  OutOfReach(n)'
<1>1. Len(log) \in Nat
  BY Types DEF TypeInv
<1>2. log'[n] = log[n]
  BY DEF Grows
<1>3. CASE log[n].stream = 0
  BY <1>2, <1>3 DEF OutOfReach
<1>4. CASE log[n].stream \in garbled
  BY <1>2, <1>4 DEF OutOfReach, Grows
<1>5. ASSUME NEW l \in 1..(n - 1), log[l].kind = "long",
             log[l].stream = log[n].stream
      PROVE  OutOfReach(n)'
  <2>1. l \in 1..Len(log)
    BY <1>1, <1>5
  <2>2. log'[l] = log[l]
    BY <2>1 DEF Grows
  <2> QED BY <1>2, <1>5, <2>2 DEF OutOfReach
<1> QED BY <1>3, <1>4, <1>5 DEF OutOfReach

LEMMA ClearKept ==
  ASSUME TypeInv, Grows, NEW from \in 0..Len(log), NEW to \in 0..Len(log),
         Clear(from, to)
  PROVE  Clear(from, to)'
<1>1. Len(log) \in Nat
  BY Types DEF TypeInv
<1> SUFFICES ASSUME NEW n \in from + 1 .. to - 1, log'[n].kind = "event"
             PROVE  OutOfReach(n)'
  BY DEF Clear
<1>2. n \in 1..Len(log)
  BY <1>1
<1>3. log'[n] = log[n]
  BY <1>2 DEF Grows
<1>4. OutOfReach(n)
  BY <1>3 DEF Clear
<1> QED BY <1>2, <1>4, ReachKept

LEMMA OutKept ==
  ASSUME TypeInv, OutInv, Grows, out' = out
  PROVE  OutInv'
<1>1. /\ Len(log) \in Nat /\ Len(out) \in Nat
      /\ \A i \in 1..Len(out) : out[i] \in 1..Len(log)
  BY Types, OutType DEF TypeInv
<1>2. \A a \in 0..Len(log) : \A b \in 0..Len(log) : Clear(a, b) => Clear(a, b)'
  BY ClearKept
<1> SUFFICES ASSUME NEW i \in 1..Len(out)
             PROVE  /\ Before(i)' < out'[i]
                    /\ log'[out'[i]].kind = "event"
                    /\ ~ctxDone' => Clear(Before(i), out[i])'
  BY DEF OutInv
<1>3. /\ Before(i) < out[i] /\ log[out[i]].kind = "event"
      /\ ~ctxDone => Clear(Before(i), out[i])
  BY DEF OutInv
<1>4. Before(i)' = Before(i) /\ Before(i) \in 0..Len(log)
  <2>1. i # 1 => i - 1 \in 1..Len(out)
    BY <1>1
  <2> QED BY <1>1, <2>1 DEF Before
<1>5. log'[out[i]] = log[out[i]]
  BY <1>1 DEF Grows
<1> QED BY <1>1, <1>2, <1>3, <1>4, <1>5 DEF Grows

LEMMA HeldKept ==
  ASSUME TypeInv, HeldInv, Grows, out' = out, held' = held
  PROVE  HeldInv'
<1>1. Newest \in 0..Len(log) /\ held \in 0..Len(log) /\ Len(log) \in Nat
  BY Types, OutType DEF TypeInv
<1>2. Newest' = Newest
  BY DEF Newest
<1>3. \A a \in 0..Len(log) : \A b \in 0..Len(log) : Clear(a, b) => Clear(a, b)'
  BY ClearKept
<1> SUFFICES ASSUME held # 0
             PROVE  /\ Newest < held /\ log'[held].kind = "event"
                    /\ ~ctxDone' => Clear(Newest, held)'
  BY <1>2 DEF HeldInv
<1>4. /\ Newest < held /\ log[held].kind = "event"
      /\ ~ctxDone => Clear(Newest, held)
  BY DEF HeldInv
<1>5. log'[held] = log[held]
  BY <1>1 DEF Grows
<1> QED BY <1>1, <1>2, <1>3, <1>4, <1>5 DEF Grows

LEMMA MissKept ==
  ASSUME TypeInv, MissInv, Grows, log' = log, Sent' \in Nat, Sent <= Sent',
         \A n \in 1..Len(log) :
           Sent' < n /\ log[n].kind = "event" /\ ToScan(n) /\ ~ctxDone' =>
             ToScan(n)' \/ OutOfReach(n)'
  PROVE  MissInv'
<1>1. Len(log) \in Nat /\ Sent \in 0..Len(log)
  BY Types, OutType DEF TypeInv
<1> SUFFICES ASSUME ~ctxDone', NEW n \in Sent' + 1 .. Len(log),
                    log[n].kind = "event"
             PROVE  ToScan(n)' \/ OutOfReach(n)'
  BY DEF MissInv
<1>2. n \in 1..Len(log) /\ n \in Sent + 1 .. Len(log) /\ Sent' < n
  <2>1. \A a, b, l \in Nat : \A k \in b + 1 .. l :
          a <= b => k \in 1..l /\ k \in a + 1 .. l /\ b < k
    OBVIOUS
  <2>2. Sent \in Nat
    BY <1>1
  <2> QED BY <1>1, <2>1, <2>2
<1>3. ToScan(n) \/ OutOfReach(n)
  BY <1>2 DEF MissInv, Grows
<1>4. OutOfReach(n) => OutOfReach(n)'
  BY <1>2, ReachKept
<1> QED BY <1>2, <1>3, <1>4

LEMMA SentKept ==
  ASSUME TypeInv, out' = out, held' = held
  PROVE  Newest' = Newest /\ Sent' = Sent /\ Sent \in 0..Len(log) /\ Len(log) \in Nat
BY Types, OutType DEF Newest, Sent, TypeInv

LEMMA FrontKept ==
  ASSUME TypeInv, FrontInv, out' = out, held' = held, src' = src,
         inHand' = inHand, log' = log, stream' = stream
  PROVE  FrontInv'
BY SentKept DEF FrontInv

\* A step that moves no line.
LEMMA QuietStep ==
  ASSUME TypeInv, OutInv, HeldInv, MissInv, Grows, log' = log, out' = out,
         held' = held, src' = src, inHand' = inHand
  PROVE  OutInv' /\ HeldInv' /\ MissInv'
<1>1. Sent' = Sent /\ Sent \in 0..Len(log) /\ Len(log) \in Nat
  BY SentKept
<1>2. \A n \in 1..Len(log) : ToScan(n) => ToScan(n)'
  BY DEF ToScan
<1>3. Sent' \in Nat /\ Sent <= Sent'
  BY <1>1
<1>4. MissInv'
  BY <1>2, <1>3, MissKept
<1> QED BY <1>4, OutKept, HeldKept

-----------------------------------------------------------------------------
(* One lemma per action.                                                   *)

OrderInv == TypeInv /\ TailInv

LEMMA InitOrder == Init => TailInv
<1> SUFFICES ASSUME Init PROVE TailInv
  OBVIOUS
<1>1. out = <<>> /\ Len(out) = 0
  BY EmptySeq, ConcatEmptySeq DEF Init, out
<1>2. Len(log) = 0 /\ Len(src) = 0
  BY EmptySeq DEF Init
<1>3. OutInv
  BY <1>1 DEF OutInv
<1>4. HeldInv /\ FrontInv /\ SpentInv /\ GarbledInv
  BY <1>2 DEF Init, HeldInv, FrontInv, SpentInv, GarbledInv
<1>5. MissInv
  <2>1. Sent = 0
    BY <1>1 DEF Sent, Newest, Init
  <2> QED BY <1>2, <2>1 DEF MissInv
<1> QED BY <1>3, <1>4, <1>5 DEF TailInv

\* The container and the daemon change what is still to come, not what came.
LEMMA DockerOrder ==
  ASSUME OrderInv, ContainerStop \/ ContainerStart \/ StreamBreaks
  PROVE  TailInv'
<1>1. /\ UNCHANGED <<tty, log, src, garbled, tailVars>> /\ (ended => ended')
  BY DEF ContainerStop, ContainerStart, StreamBreaks
<1>2. /\ out' = out /\ log' = log /\ held' = held /\ src' = src
      /\ inHand' = inHand /\ stream' = stream /\ garbled' = garbled
      /\ ctxDone' = ctxDone /\ copier' = copier /\ pc' = pc /\ tty' = tty
  BY <1>1 DEF out, tailVars
<1>3. Grows
  BY <1>2, Types DEF Grows, OrderInv, TypeInv
<1>4. OutInv' /\ HeldInv' /\ MissInv' /\ FrontInv'
  BY <1>2, <1>3, QuietStep, FrontKept DEF OrderInv, TailInv
<1>5. Spent => Spent'
  BY <1>1, <1>2 DEF Spent
<1>6. SpentInv' /\ GarbledInv'
  BY <1>2, <1>5 DEF OrderInv, TailInv, SpentInv, GarbledInv
<1> QED BY <1>4, <1>6 DEF TailInv

LEMMA OpenOrder ==
  ASSUME OrderInv, Open \/ OpenFails \/ Backoff
  PROVE  TailInv'
<1>1. /\ UNCHANGED <<log, tty, garbled, copier, inHand, held, lineCh, ctxDone, posted>>
      /\ copier = "none" /\ inHand = 0 /\ src = <<>> /\ src' = <<>>
      /\ pc' \in {"inspect", "open", "backoff", "done"}
  BY DEF Open, OpenFails, Backoff, dockerVars, OrderInv, TypeInv, StageInv
<1>2. out' = out /\ Grows
  BY <1>1, Types DEF out, Grows, OrderInv, TypeInv
<1>3. OutInv' /\ HeldInv' /\ MissInv'
  BY <1>1, <1>2, QuietStep DEF OrderInv, TailInv
<1>4. FrontInv'
  <2>1. Len(src') = 0
    BY <1>1, EmptySeq
  <2> QED BY <1>1, <2>1 DEF FrontInv
<1>5. SpentInv' /\ GarbledInv'
  BY <1>1 DEF SpentInv, GarbledInv
<1> QED BY <1>3, <1>4, <1>5 DEF TailInv

LEMMA InspectOrder ==
  ASSUME OrderInv, Inspect
  PROVE  TailInv'
<1>1. /\ UNCHANGED <<log, tty, src, inHand, held, lineCh, ctxDone, posted, stream>>
      /\ copier' \in {"read", "none"} /\ pc' = "scan"
      /\ garbled \subseteq garbled'
  BY DEF Inspect
<1>2. out' = out /\ Grows
  BY <1>1, Types DEF out, Grows, OrderInv, TypeInv
<1>3. OutInv' /\ HeldInv' /\ MissInv' /\ FrontInv'
  BY <1>1, <1>2, QuietStep, FrontKept DEF OrderInv, TailInv
<1>4. SpentInv'
  BY <1>1 DEF SpentInv
<1>5. GarbledInv'
  BY DEF GarbledInv, Inspect
<1> QED BY <1>3, <1>4, <1>5 DEF TailInv

LEMMA ScanEndOrder ==
  ASSUME OrderInv, ScanEnd
  PROVE  TailInv'
<1>1. /\ UNCHANGED <<log, tty, src, ended, garbled, copier, inHand, held>>
      /\ UNCHANGED <<lineCh, ctxDone, posted, stream>>
      /\ pc' = "drain"
      /\ copier = "done" \/ ctxDone \/ (src = <<>> /\ ended)
  BY DEF ScanEnd, dockerVars
<1>2. out' = out /\ Grows
  BY <1>1, Types DEF out, Grows, OrderInv, TypeInv
<1>3. OutInv' /\ HeldInv' /\ MissInv' /\ FrontInv'
  BY <1>1, <1>2, QuietStep, FrontKept DEF OrderInv, TailInv
<1>4. ~ctxDone => Spent
  BY <1>1 DEF Spent, SpentInv, OrderInv, TailInv
<1>5. Spent => Spent'
  BY <1>1 DEF Spent
<1>6. SpentInv' /\ GarbledInv'
  BY <1>1, <1>4, <1>5 DEF OrderInv, TailInv, SpentInv, GarbledInv
<1> QED BY <1>3, <1>6 DEF TailInv

LEMMA CopyEndOrder ==
  ASSUME OrderInv, CopyEnd
  PROVE  TailInv'
<1>1. /\ UNCHANGED <<log, tty, src, ended, garbled, inHand, held>>
      /\ UNCHANGED <<lineCh, ctxDone, posted, stream, pc>>
      /\ ctxDone \/ (src = <<>> /\ ended)
      /\ copier = "read" /\ copier' = "done"
  BY DEF CopyEnd, dockerVars
<1>2. out' = out /\ Grows
  BY <1>1, Types DEF out, Grows, OrderInv, TypeInv
<1>3. OutInv' /\ HeldInv' /\ MissInv' /\ FrontInv'
  BY <1>1, <1>2, QuietStep, FrontKept DEF OrderInv, TailInv
<1>4. ~ctxDone => Spent
  BY <1>1 DEF Spent
<1>5. Spent => Spent'
  BY <1>1 DEF Spent
<1>6. SpentInv' /\ GarbledInv'
  BY <1>1, <1>4, <1>5 DEF OrderInv, TailInv, SpentInv, GarbledInv
<1> QED BY <1>3, <1>6 DEF TailInv

\* receiveLoop, its end and the cancellation.
LEMMA ReceiveOrder ==
  ASSUME OrderInv, Receive \/ ReceiverStop \/ Cancel
  PROVE  TailInv'
<1>1. /\ UNCHANGED <<log, tty, src, ended, garbled, copier, inHand, held>>
      /\ UNCHANGED <<stream, pc>> /\ (ctxDone => ctxDone')
  BY DEF Receive, ReceiverStop, Cancel, dockerVars
<1>2. out' = out
  <2>1. CASE Receive
    BY <1>1, <2>1, TakenFromChannel DEF Receive, OrderInv, TypeInv
  <2>2. CASE ReceiverStop \/ Cancel
    BY <2>2 DEF ReceiverStop, Cancel, out
  <2> QED BY <2>1, <2>2
<1>3. Grows
  BY <1>1, Types DEF Grows, OrderInv, TypeInv
<1>4. OutInv' /\ HeldInv' /\ MissInv' /\ FrontInv'
  BY <1>1, <1>2, <1>3, QuietStep, FrontKept DEF OrderInv, TailInv
<1>5. Spent' <=> Spent
  BY <1>1 DEF Spent
<1>6. SpentInv' /\ GarbledInv'
  BY <1>1, <1>5 DEF OrderInv, TailInv, SpentInv, GarbledInv
<1> QED BY <1>4, <1>6 DEF TailInv

\* A new line is behind everything there is, and is read or out of reach.
LEMMA ConsoleLineOrder ==
  ASSUME OrderInv, NEW kind \in Kinds, ConsoleLine(kind)
  PROVE  TailInv'
<1> DEFINE new == Len(log) + 1
<1>1. /\ Len(log') = new /\ \A n \in 1..Len(log) : log'[n] = log[n]
      /\ log'[new].stream = IF Attached THEN stream ELSE 0
  BY ConsoleLineType DEF OrderInv
<1>2. /\ UNCHANGED <<tty, ended, garbled, copier, inHand, held>>
      /\ UNCHANGED <<lineCh, ctxDone, posted, stream, pc>>
      /\ src' = IF Attached THEN Append(src, new) ELSE src
  BY DEF ConsoleLine, tailVars
<1>3. /\ Len(log) \in Nat /\ Len(src) \in Nat /\ src \in Seq(1..Len(log))
      /\ \A i \in 1..Len(src) : src[i] \in 1..Len(log)
      /\ inHand \in 0..Len(log)
  BY Types DEF OrderInv, TypeInv
<1>4. out' = out /\ held' = held /\ Grows
  BY <1>1, <1>2, <1>3 DEF out, Grows
<1>5. Newest' = Newest /\ Sent' = Sent /\ Sent \in 0..Len(log)
  BY <1>4, SentKept DEF OrderInv
<1>6. OutInv' /\ HeldInv'
  BY <1>4, OutKept, HeldKept DEF OrderInv, TailInv
<1>7. Attached => /\ Len(src') = Len(src) + 1 /\ src'[Len(src) + 1] = new
                  /\ \A i \in 1..Len(src) : src'[i] = src[i]
  <2>1. src \in Seq(1..new) /\ new \in 1..new
    BY <1>3, Widen
  <2> QED BY <1>2, <2>1, AppendProperties
<1>8. FrontInv'
  <2>1. inHand # 0 => Sent < inHand
    BY DEF OrderInv, TailInv, FrontInv
  <2>2. ASSUME NEW i \in 1..Len(src')
        PROVE  /\ Sent < src'[i] /\ inHand < src'[i]
               /\ log'[src'[i]].stream = stream
               /\ \A j \in 1..(i - 1) : src'[j] < src'[i]
    <3>1. \A k \in 1..Len(src) :
            /\ Sent < src[k] /\ inHand < src[k]
            /\ log[src[k]].stream = stream
            /\ \A j \in 1..(k - 1) : src[j] < src[k]
      BY DEF OrderInv, TailInv, FrontInv
    <3>2. \A k \in 1..Len(src) : log'[src[k]] = log[src[k]]
      BY <1>1, <1>3
    <3>3. CASE ~Attached
      BY <1>2, <2>2, <3>1, <3>2, <3>3
    <3>4. CASE Attached /\ i \in 1..Len(src)
      <4>1. \A j \in 1..(i - 1) : j \in 1..Len(src)
        BY <1>3, <3>4
      <4> QED BY <1>7, <3>1, <3>2, <3>4, <4>1
    <3>5. CASE Attached /\ i = Len(src) + 1
      <4>1. src'[i] = new /\ log'[new].stream = stream
        BY <1>1, <1>7, <3>5
      <4>2. \A j \in 1..(i - 1) : src'[j] < new
        BY <1>3, <1>7, <3>5
      <4> QED BY <1>3, <1>5, <4>1, <4>2
    <3> QED BY <1>3, <1>7, <2>2, <3>3, <3>4, <3>5
  <2> QED BY <1>2, <1>5, <2>1, <2>2 DEF FrontInv
<1>9. MissInv'
  <2> SUFFICES ASSUME ~ctxDone, NEW n \in Sent + 1 .. new,
                      log'[n].kind = "event"
               PROVE  ToScan(n)' \/ OutOfReach(n)'
    BY <1>1, <1>2, <1>5 DEF MissInv
  <2>1. CASE n \in 1..Len(log)
    <3>1. n \in Sent + 1 .. Len(log) /\ log[n].kind = "event"
      BY <1>1, <1>3, <1>5, <2>1
    <3>2. ToScan(n) \/ OutOfReach(n)
      BY <3>1 DEF OrderInv, TailInv, MissInv
    <3>3. ToScan(n) => ToScan(n)'
      BY <1>2, <1>3, <1>7 DEF ToScan
    <3>4. OutOfReach(n) => OutOfReach(n)'
      BY <1>4, <2>1, ReachKept DEF OrderInv
    <3> QED BY <3>2, <3>3, <3>4
  <2>2. CASE n = new /\ Attached
    <3>1. Len(src) + 1 \in 1..Len(src') /\ src'[Len(src) + 1] = n
      BY <1>3, <1>7, <2>2
    <3> QED BY <3>1 DEF ToScan
  <2>3. CASE n = new /\ ~Attached
    BY <1>1, <2>3 DEF OutOfReach
  <2> QED BY <1>3, <1>5, <2>1, <2>2, <2>3
<1>10. ~ctxDone /\ Spent => Spent'
  <2>1. CASE stream \in garbled
    BY <1>2, <2>1 DEF Spent
  <2>2. CASE src = <<>> /\ ended
    BY <1>2, <2>2 DEF Spent, Attached
  <2>3. ASSUME NEW l \in 1..Len(log), log[l].kind = "long",
               log[l].stream = stream, \A i \in 1..Len(src) : l < src[i]
        PROVE  Spent'
    <3>1. l \in 1..Len(log') /\ log'[l] = log[l]
      BY <1>1, <1>3
    <3>2. \A i \in 1..Len(src') : l < src'[i]
      BY <1>2, <1>3, <1>7, <2>3
    <3> QED BY <1>2, <2>3, <3>1, <3>2 DEF Spent
  <2> QED BY <2>1, <2>2, <2>3 DEF Spent
<1>11. SpentInv' /\ GarbledInv'
  BY <1>2, <1>10 DEF OrderInv, TailInv, SpentInv, GarbledInv
<1> QED BY <1>6, <1>8, <1>9, <1>11 DEF TailInv

\* A frame moves from the stream to the copier's hand.
LEMMA CopyReadOrder ==
  ASSUME OrderInv, CopyRead
  PROVE  TailInv'
<1>1. /\ UNCHANGED <<log, tty, ended, garbled, held, lineCh, ctxDone, posted>>
      /\ UNCHANGED <<stream, pc>> /\ copier = "read" /\ src # <<>>
  BY DEF CopyRead
<1>2. inHand = 0 /\ Len(log) \in Nat /\ Len(src) \in Nat
  BY <1>1, Types DEF OrderInv, TypeInv, StageInv
<1>3. out' = out /\ Grows
  BY <1>1, <1>2 DEF out, Grows
<1>4. Sent' = Sent /\ Sent \in 0..Len(log)
  BY <1>1, <1>3, SentKept DEF OrderInv
<1>5. CASE tty
  <2>1. src' = src /\ inHand' = inHand /\ copier' = "done"
    BY <1>5 DEF CopyRead
  <2>2. OutInv' /\ HeldInv' /\ MissInv' /\ FrontInv'
    BY <1>1, <1>3, <2>1, QuietStep, FrontKept DEF OrderInv, TailInv
  <2>3. stream \in garbled
    BY <1>1, <1>5 DEF OrderInv, TailInv, GarbledInv
  <2>4. Spent'
    BY <1>1, <2>3 DEF Spent
  <2>5. SpentInv' /\ GarbledInv'
    BY <1>1, <2>3, <2>4 DEF SpentInv, GarbledInv
  <2> QED BY <2>2, <2>5 DEF TailInv
<1>6. CASE ~tty
  <2>1. src' = Tail(src) /\ inHand' = src[1] /\ copier' = "write"
    BY <1>1, <1>6, SrcTail DEF CopyRead, OrderInv, TypeInv
  <2>2. /\ Len(src) >= 1 /\ Len(src') = Len(src) - 1
        /\ \A i \in 1..Len(src') : src'[i] = src[i + 1]
    BY <1>1, <2>1, SrcTail DEF OrderInv, TypeInv
  <2>3. OutInv' /\ HeldInv'
    BY <1>1, <1>3, OutKept, HeldKept DEF OrderInv, TailInv
  <2>4. \A i \in 1..Len(src) : /\ Sent < src[i] /\ log[src[i]].stream = stream
                               /\ \A j \in 1..(i - 1) : src[j] < src[i]
    BY DEF OrderInv, TailInv, FrontInv
  <2>5. FrontInv'
    <3>1. Sent < inHand'
      BY <1>2, <2>1, <2>2, <2>4
    <3>2. ASSUME NEW i \in 1..Len(src')
          PROVE  /\ Sent < src'[i] /\ inHand' < src'[i]
                 /\ log[src'[i]].stream = stream
                 /\ \A j \in 1..(i - 1) : src'[j] < src'[i]
      <4>1. i + 1 \in 1..Len(src) /\ src'[i] = src[i + 1] /\ 1 \in 1..i
        BY <1>2, <2>2
      <4>2. \A j \in 1..(i - 1) : j + 1 \in 1..i /\ src'[j] = src[j + 1]
        BY <1>2, <2>2
      <4>3. \A j \in 1..i : src[j] < src[i + 1]
        BY <2>4, <4>1
      <4> QED BY <2>1, <2>4, <4>1, <4>2, <4>3
    <3> QED BY <1>1, <1>4, <3>1, <3>2 DEF FrontInv
  <2>6. \A n \in 1..Len(log) : ToScan(n) => ToScan(n)'
    <3> SUFFICES ASSUME NEW i \in 1..Len(src)
                 PROVE  \/ src[i] = inHand'
                        \/ \E j \in 1..Len(src') : src'[j] = src[i]
      BY <1>2 DEF ToScan
    <3>1. CASE i = 1
      BY <2>1, <3>1
    <3>2. CASE i # 1
      <4>1. i - 1 \in 1..Len(src') /\ (i - 1) + 1 = i
        BY <1>2, <2>2, <3>2
      <4> QED BY <2>2, <4>1
    <3> QED BY <3>1, <3>2
  <2>7. MissInv'
    <3>1. Sent' \in Nat /\ Sent <= Sent'
      BY <1>2, <1>4
    <3> QED BY <1>1, <1>3, <2>6, <3>1, MissKept DEF OrderInv, TailInv
  <2>8. SpentInv' /\ GarbledInv'
    BY <1>1, <1>6, <2>1 DEF SpentInv, GarbledInv
  <2> QED BY <2>3, <2>5, <2>7, <2>8 DEF TailInv
<1> QED BY <1>5, <1>6

\* tail returns only when nothing more could be read from the stream.
LEMMA ReturnOrder ==
  ASSUME OrderInv, Return
  PROVE  TailInv'
<1>1. /\ UNCHANGED <<log, tty, garbled, held, lineCh, ctxDone, posted, stream>>
      /\ UNCHANGED inHand /\ copier \in {"none", "done"} /\ pc = "drain"
      /\ copier' = "none" /\ src' = <<>> /\ pc' \in {"done", "backoff"}
  BY DEF Return
<1>2. inHand = 0 /\ Len(log) \in Nat /\ Len(src) \in Nat
  BY <1>1, Types DEF OrderInv, TypeInv, StageInv
<1>3. out' = out /\ Grows
  BY <1>1, <1>2 DEF out, Grows
<1>4. Sent' \in Nat /\ Sent <= Sent'
  BY <1>1, <1>2, <1>3, SentKept DEF OrderInv
<1>5. OutInv' /\ HeldInv'
  BY <1>1, <1>3, OutKept, HeldKept DEF OrderInv, TailInv
<1>6. ~ctxDone => Spent
  BY <1>1 DEF OrderInv, TailInv, SpentInv
<1>7. ASSUME ~ctxDone, NEW n \in 1..Len(log), ToScan(n)
      PROVE  OutOfReach(n)
  <2>1. PICK i \in 1..Len(src) : src[i] = n
    BY <1>2, <1>7 DEF ToScan
  <2>2. log[n].stream = stream
    BY <2>1 DEF OrderInv, TailInv, FrontInv
  <2>3. CASE stream \in garbled
    BY <2>2, <2>3 DEF OutOfReach
  <2>4. CASE src = <<>>
    BY <1>2, <2>1, <2>4, EmptySeq
  <2>5. ASSUME NEW l \in 1..Len(log), log[l].kind = "long",
               log[l].stream = stream, \A j \in 1..Len(src) : l < src[j]
        PROVE  OutOfReach(n)
    <3>1. l \in 1..(n - 1)
      BY <1>2, <2>1, <2>5
    <3> QED BY <2>2, <2>5, <3>1 DEF OutOfReach
  <2> QED BY <1>6, <1>7, <2>3, <2>4, <2>5 DEF Spent
<1>8. MissInv'
  <2>1. \A n \in 1..Len(log) : ToScan(n) /\ ~ctxDone => OutOfReach(n)'
    BY <1>3, <1>7, ReachKept DEF OrderInv
  <2> QED BY <1>1, <1>3, <1>4, <2>1, MissKept DEF OrderInv, TailInv
<1>9. FrontInv'
  BY <1>1, <1>2, EmptySeq DEF FrontInv
<1>10. SpentInv' /\ GarbledInv'
  BY <1>1 DEF SpentInv, GarbledInv
<1> QED BY <1>5, <1>8, <1>9, <1>10 DEF TailInv

\* Sending the held line makes it the newest; giving it up needs a cancelled
\* context.
LEMMA SendOrder ==
  ASSUME OrderInv, Send
  PROVE  TailInv'
<1>1. /\ UNCHANGED <<log, tty, src, ended, garbled, copier, inHand>>
      /\ UNCHANGED <<ctxDone, posted, stream>>
      /\ held # 0 /\ held' = 0 /\ pc' \in {"scan", "drain"}
      /\ pc' = "drain" => ctxDone
  BY DEF Send, dockerVars, OrderInv, TypeInv, StageInv
<1>2. /\ Len(log) \in Nat /\ Len(src) \in Nat /\ held \in 1..Len(log)
      /\ inHand \in 0..Len(log) /\ \A i \in 1..Len(src) : src[i] \in 1..Len(log)
  BY <1>1, Types DEF OrderInv, TypeInv
<1>3. /\ out \in Seq(1..Len(log)) /\ Len(out) \in Nat
      /\ \A i \in 1..Len(out) : out[i] \in 1..Len(log)
      /\ Newest \in 0..Len(log) /\ Sent = held
  BY <1>1, OutType DEF OrderInv, TypeInv, Sent
<1>4. Grows
  BY <1>1, <1>2 DEF Grows
<1>5. /\ Newest < held /\ log[held].kind = "event"
      /\ ~ctxDone => Clear(Newest, held)
  BY <1>1 DEF OrderInv, TailInv, HeldInv
<1>6. HeldInv'
  BY <1>1 DEF HeldInv
<1>7. Spent' <=> Spent
  BY <1>1 DEF Spent
<1>8. SpentInv' /\ GarbledInv'
  BY <1>1, <1>7 DEF OrderInv, TailInv, SpentInv, GarbledInv
<1>9. CASE lineCh' = Append(lineCh, held)
  <2>1. out' = Append(out, held)
    BY <1>1, <1>9, PutOnChannel DEF OrderInv, TypeInv
  <2>2. /\ Len(out') = Len(out) + 1 /\ out'[Len(out) + 1] = held /\ out' # <<>>
        /\ \A i \in 1..Len(out) : out'[i] = out[i]
    <3>1. /\ Len(Append(out, held)) = Len(out) + 1
          /\ Append(out, held)[Len(out) + 1] = held
          /\ \A i \in 1..Len(out) : Append(out, held)[i] = out[i]
          /\ Append(out, held) # <<>>
      BY <1>2, <1>3, AppendProperties
    <3> QED BY <2>1, <3>1
  <2>3. Newest' = held /\ Sent' = held
    BY <1>1, <2>2 DEF Newest, Sent
  <2>4. FrontInv'
    BY <1>1, <1>3, <2>3 DEF OrderInv, TailInv, FrontInv
  <2>5. MissInv'
    <3>1. \A n \in 1..Len(log) : ToScan(n) => ToScan(n)'
      BY <1>1 DEF ToScan
    <3>2. Sent' \in Nat /\ Sent <= Sent'
      BY <1>2, <1>3, <2>3
    <3> QED BY <1>1, <1>4, <3>1, <3>2, MissKept DEF OrderInv, TailInv
  <2>6. OutInv'
    <3>1. \A a \in 0..Len(log) : \A b \in 0..Len(log) : Clear(a, b) => Clear(a, b)'
      BY <1>4, ClearKept DEF OrderInv
    <3> SUFFICES ASSUME NEW i \in 1..Len(out')
                 PROVE  /\ Before(i)' < out'[i]
                        /\ log'[out'[i]].kind = "event"
                        /\ ~ctxDone' => Clear(Before(i), out[i])'
      BY DEF OutInv
    <3>2. CASE i \in 1..Len(out)
      <4>1. i # 1 => i - 1 \in 1..Len(out)
        BY <1>3, <3>2
      <4>2. Before(i)' = Before(i) /\ out'[i] = out[i]
        BY <2>2, <3>2, <4>1 DEF Before
      <4>3. /\ Before(i) < out[i] /\ log[out[i]].kind = "event"
            /\ ~ctxDone => Clear(Before(i), out[i])
        BY <3>2 DEF OrderInv, TailInv, OutInv
      <4>4. Before(i) \in 0..Len(log) /\ out[i] \in 0..Len(log)
        BY <1>2, <1>3, <3>2, <4>1 DEF Before
      <4> QED BY <1>1, <3>1, <4>2, <4>3, <4>4
    <3>3. CASE i = Len(out) + 1
      <4>1. Before(i)' = Newest /\ out'[i] = held
        <5>1. CASE out = <<>>
          BY <2>2, <3>3, <5>1, EmptySeq DEF Newest, Before
        <5>2. CASE out # <<>>
          <6>1. Len(out) \in 1..Len(out) /\ i # 1 /\ i - 1 = Len(out)
            BY <1>3, <3>3, <5>2, EmptySeq
          <6> QED BY <2>2, <3>3, <5>2, <6>1 DEF Newest, Before
        <5> QED BY <5>1, <5>2
      <4>2. Newest \in 0..Len(log) /\ held \in 0..Len(log)
        BY <1>2, <1>3
      <4> QED BY <1>1, <1>5, <3>1, <4>1, <4>2
    <3> QED BY <1>3, <2>2, <3>2, <3>3
  <2> QED BY <1>6, <1>8, <2>4, <2>5, <2>6 DEF TailInv
<1>10. CASE ctxDone /\ lineCh' = lineCh
  <2>1. out' = out
    BY <1>1, <1>10 DEF out
  <2>2. Newest' = Newest /\ Sent' = Newest
    BY <1>1, <2>1 DEF Newest, Sent
  <2>3. OutInv'
    BY <1>4, <2>1, OutKept DEF OrderInv, TailInv
  <2>4. MissInv'
    BY <1>1, <1>10 DEF MissInv
  <2>5. FrontInv'
    <3>1. /\ inHand # 0 => Sent < inHand
          /\ \A i \in 1..Len(src) :
               /\ Sent < src[i] /\ inHand < src[i]
               /\ log[src[i]].stream = stream
               /\ \A j \in 1..(i - 1) : src[j] < src[i]
      BY DEF OrderInv, TailInv, FrontInv
    <3>2. inHand # 0 => Newest < inHand
      BY <1>2, <1>3, <1>5, <3>1
    <3>3. \A i \in 1..Len(src) : Newest < src[i]
      BY <1>2, <1>3, <1>5, <3>1
    <3> QED BY <1>1, <2>2, <3>1, <3>2, <3>3 DEF FrontInv
  <2> QED BY <1>6, <1>8, <2>3, <2>4, <2>5 DEF TailInv
<1> QED BY <1>9, <1>10 DEF Send

\* What a scan does with line n, the first of those still to be scanned.
LEMMA TakeOrder ==
  ASSUME OrderInv, Grows, NEW n \in 1..Len(log), Take(n), pc = "scan",
         log' = log, out' = out, Sent < n,
         \A k \in 1..Len(log) : ToScan(k) => n <= k /\ (k = n \/ ToScan(k)')
  PROVE  /\ OutInv' /\ HeldInv' /\ MissInv'
         /\ Sent' = IF log[n].kind = "event" THEN n ELSE Sent
<1>1. Len(log) \in Nat /\ Sent \in 0..Len(log) /\ Newest \in 0..Len(log)
  BY Types, OutType DEF OrderInv, TypeInv
<1>2. held = 0 /\ Sent = Newest /\ Newest' = Newest
  BY DEF OrderInv, TypeInv, StageInv, Sent, Newest
<1>3. held' = IF log[n].kind = "event" THEN n ELSE 0
  BY <1>2 DEF Take
<1>4. Sent' = IF log[n].kind = "event" THEN n ELSE Sent
  BY <1>1, <1>2, <1>3 DEF Sent
<1>5. OutInv'
  BY OutKept DEF OrderInv, TailInv
<1>6. HeldInv'
  <2> SUFFICES ASSUME held' # 0
               PROVE  /\ Newest < n /\ held' = n /\ log[n].kind = "event"
                      /\ ~ctxDone' => Clear(Newest, n)'
    BY <1>2 DEF HeldInv
  <2>1. held' = n /\ log[n].kind = "event"
    BY <1>3
  <2>2. ASSUME ~ctxDone, NEW m \in Newest + 1 .. n - 1, log[m].kind = "event"
        PROVE  OutOfReach(m)
    <3>1. m \in Sent + 1 .. Len(log) /\ m \in 1..Len(log) /\ m < n
      BY <1>1, <1>2
    <3>2. ToScan(m) \/ OutOfReach(m)
      BY <2>2, <3>1 DEF OrderInv, TailInv, MissInv
    <3>3. ~ToScan(m)
      BY <1>1, <3>1
    <3> QED BY <3>2, <3>3
  <2>3. ~ctxDone => Clear(Newest, n)
    BY <2>2 DEF Clear
  <2>4. \A a \in 0..Len(log) : \A b \in 0..Len(log) : Clear(a, b) => Clear(a, b)'
    BY ClearKept DEF OrderInv
  <2>5. n \in 0..Len(log)
    BY <1>1
  <2> QED BY <1>1, <1>2, <2>1, <2>3, <2>4, <2>5 DEF Grows
<1>7. MissInv'
  <2>1. Sent' \in Nat /\ Sent <= Sent'
    BY <1>1, <1>4
  <2>2. \A k \in 1..Len(log) :
          Sent' < k /\ log[k].kind = "event" /\ ToScan(k) => ToScan(k)'
    BY <1>4
  <2> QED BY <2>1, <2>2, MissKept DEF OrderInv, TailInv
<1> QED BY <1>4, <1>5, <1>6, <1>7

LEMMA ScanPipeOrder ==
  ASSUME OrderInv, ScanPipe
  PROVE  TailInv'
<1> DEFINE n == inHand
<1>1. /\ UNCHANGED <<log, tty, src, ended, garbled, lineCh, ctxDone, posted, stream>>
      /\ pc = "scan" /\ mux /\ copier = "write" /\ Take(n)
      /\ copier' = IF log[n].kind = "long" THEN "write" ELSE "read"
      /\ inHand' = IF log[n].kind = "long" THEN n ELSE 0
  BY DEF ScanPipe, dockerVars
<1>2. n \in 1..Len(log) /\ Len(log) \in Nat /\ Len(src) \in Nat
  BY <1>1, Types DEF OrderInv, TypeInv, StageInv
<1>3. out' = out /\ Grows
  BY <1>1, <1>2 DEF out, Grows
<1>4. /\ Sent < n
      /\ \A i \in 1..Len(src) :
           /\ Sent < src[i] /\ n < src[i] /\ log[src[i]].stream = stream
           /\ \A j \in 1..(i - 1) : src[j] < src[i]
  BY <1>2 DEF OrderInv, TailInv, FrontInv
<1>5. \A k \in 1..Len(log) : ToScan(k) => n <= k /\ (k = n \/ ToScan(k)')
  BY <1>1, <1>2, <1>4 DEF ToScan
<1>6. /\ OutInv' /\ HeldInv' /\ MissInv'
      /\ Sent' = IF log[n].kind = "event" THEN n ELSE Sent
  BY <1>1, <1>2, <1>3, <1>4, <1>5, TakeOrder
<1>7. pc' = "drain" => log[n].kind = "long"
  BY <1>1, <1>2, TakeType DEF OrderInv
<1>8. FrontInv'
  <2>1. inHand' # 0 => Sent' < inHand'
    BY <1>1, <1>4, <1>6
  <2>2. \A i \in 1..Len(src) : Sent' < src[i] /\ inHand' < src[i]
    <3>1. \A i \in 1..Len(src) : src[i] \in 1..Len(log)
      BY Types DEF OrderInv, TypeInv
    <3> QED BY <1>1, <1>2, <1>4, <1>6, <3>1
  <2> QED BY <1>1, <1>4, <2>1, <2>2 DEF FrontInv
<1>9. SpentInv' /\ GarbledInv'
  BY <1>1, <1>7 DEF OrderInv, TailInv, SpentInv, GarbledInv
<1> QED BY <1>6, <1>8, <1>9 DEF TailInv

LEMMA ScanRawOrder ==
  ASSUME OrderInv, ScanRaw
  PROVE  TailInv'
<1> DEFINE n == src[1]
<1>1. /\ UNCHANGED <<log, tty, ended, garbled, lineCh, ctxDone, posted, stream>>
      /\ UNCHANGED <<copier, inHand>>
      /\ pc = "scan" /\ ~mux /\ src # <<>>
  BY DEF ScanRaw
<1>2. /\ Len(src) >= 1 /\ n \in 1..Len(log) /\ Take(n) /\ Len(src') = Len(src) - 1
      /\ \A i \in 1..Len(src') : src'[i] = src[i + 1]
  BY <1>1, SrcTail DEF ScanRaw, OrderInv, TypeInv
<1>3. /\ copier = "none" /\ inHand = 0 /\ Len(log) \in Nat /\ Len(src) \in Nat
      /\ \A i \in 1..Len(src) : src[i] \in 1..Len(log)
  BY <1>1, Types DEF OrderInv, TypeInv, StageInv
<1>4. out' = out /\ Grows
  BY <1>1, <1>3 DEF out, Grows
<1>5. \A i \in 1..Len(src) : /\ Sent < src[i] /\ log[src[i]].stream = stream
                             /\ \A j \in 1..(i - 1) : src[j] < src[i]
  BY DEF OrderInv, TailInv, FrontInv
<1>6. \A i \in 1..Len(src') : /\ i + 1 \in 1..Len(src) /\ src'[i] = src[i + 1]
                              /\ n < src'[i]
  <2>1. ASSUME NEW i \in 1..Len(src')
        PROVE  i + 1 \in 1..Len(src) /\ src'[i] = src[i + 1] /\ 1 \in 1..i
    BY <1>2, <1>3
  <2> QED BY <1>5, <2>1
<1>7. \A k \in 1..Len(log) : ToScan(k) => n <= k /\ (k = n \/ ToScan(k)')
  <2> SUFFICES ASSUME NEW i \in 1..Len(src)
               PROVE  /\ n <= src[i]
                      /\ src[i] = n \/ \E j \in 1..Len(src') : src'[j] = src[i]
    BY <1>3 DEF ToScan
  <2>1. CASE i = 1
    BY <1>3, <2>1
  <2>2. CASE i # 1
    <3>1. i - 1 \in 1..Len(src') /\ (i - 1) + 1 = i
      BY <1>2, <1>3, <2>2
    <3>2. src'[i - 1] = src[i] /\ n < src[i]
      BY <1>6, <3>1
    <3> QED BY <1>3, <3>1, <3>2
  <2> QED BY <2>1, <2>2
<1>8. Sent < n
  BY <1>2, <1>3, <1>5
<1>9. /\ OutInv' /\ HeldInv' /\ MissInv'
      /\ Sent' = IF log[n].kind = "event" THEN n ELSE Sent
  BY <1>1, <1>2, <1>4, <1>7, <1>8, TakeOrder
<1>10. FrontInv'
  <2>1. ASSUME NEW i \in 1..Len(src')
        PROVE  /\ Sent' < src'[i] /\ 0 < src'[i]
               /\ log[src'[i]].stream = stream
               /\ \A j \in 1..(i - 1) : src'[j] < src'[i]
    <3>1. /\ i + 1 \in 1..Len(src) /\ src'[i] = src[i + 1] /\ n < src'[i]
          /\ src'[i] \in 1..Len(log)
      BY <1>3, <1>6
    <3>2. \A j \in 1..(i - 1) : j + 1 \in 1..i /\ src'[j] = src[j + 1]
      BY <1>2, <1>3
    <3>3. \A j \in 1..i : src[j] < src[i + 1]
      BY <1>5, <3>1
    <3> QED BY <1>3, <1>5, <1>9, <3>1, <3>2, <3>3
  <2> QED BY <1>1, <1>3, <2>1 DEF FrontInv
<1>11. pc' = "drain" => log[n].kind = "long"
  BY <1>1, <1>2, TakeType DEF OrderInv
<1>12. pc' = "drain" => Spent'
  <2>1. log[n].stream = stream
    BY <1>2, <1>3, <1>5
  <2> QED BY <1>1, <1>2, <1>6, <1>11, <2>1 DEF Spent
<1>13. SpentInv' /\ GarbledInv'
  BY <1>1, <1>3, <1>12 DEF SpentInv, GarbledInv
<1> QED BY <1>9, <1>10, <1>13 DEF TailInv

LEMMA StutterOrder ==
  ASSUME OrderInv, UNCHANGED vars
  PROVE  TailInv'
<1>1. /\ UNCHANGED <<log, tty, src, ended, garbled, copier, inHand, held>>
      /\ UNCHANGED <<lineCh, ctxDone, posted, stream, pc>>
  BY DEF vars, dockerVars, tailVars
<1>2. out' = out /\ Grows
  BY <1>1, Types DEF out, Grows, OrderInv, TypeInv
<1>3. OutInv' /\ HeldInv' /\ MissInv' /\ FrontInv'
  BY <1>1, <1>2, QuietStep, FrontKept DEF OrderInv, TailInv
<1>4. Spent' <=> Spent
  BY <1>1 DEF Spent
<1>5. SpentInv' /\ GarbledInv'
  BY <1>1, <1>4 DEF OrderInv, TailInv, SpentInv, GarbledInv
<1> QED BY <1>3, <1>5 DEF TailInv

LEMMA NextOrder == OrderInv /\ [Next]_vars => OrderInv'
<1> SUFFICES ASSUME OrderInv, [Next]_vars PROVE OrderInv'
  OBVIOUS
<1>1. TypeInv'
  BY NextType DEF OrderInv
<1>2. CASE DockerNext
  BY <1>1, <1>2, ConsoleLineOrder, DockerOrder DEF DockerNext, OrderInv
<1>3. CASE Open \/ OpenFails \/ Backoff
  BY <1>1, <1>3, OpenOrder DEF OrderInv
<1>4. CASE Inspect
  BY <1>1, <1>4, InspectOrder DEF OrderInv
<1>5. CASE ScanPipe \/ ScanRaw \/ ScanEnd
  BY <1>1, <1>5, ScanPipeOrder, ScanRawOrder, ScanEndOrder DEF OrderInv
<1>6. CASE Send \/ Return
  BY <1>1, <1>6, SendOrder, ReturnOrder DEF OrderInv
<1>7. CASE CopyRead \/ CopyEnd
  BY <1>1, <1>7, CopyReadOrder, CopyEndOrder DEF OrderInv
<1>8. CASE Receive \/ ReceiverStop \/ Cancel
  BY <1>1, <1>8, ReceiveOrder DEF OrderInv
<1>9. CASE UNCHANGED vars
  BY <1>1, <1>9, StutterOrder DEF OrderInv
<1> QED BY <1>2, <1>3, <1>4, <1>5, <1>6, <1>7, <1>8, <1>9 DEF Next

-----------------------------------------------------------------------------
(* Numbers of events.  A log is a parameter here: its numbers are compared *)
(* before and after a step.                                                *)

LEMMA CarriedFinite ==
  ASSUME NEW L, NEW s, NEW n \in Nat
  PROVE  /\ IsFiniteSet(Carried(L, s, n)) /\ Cardinality(Carried(L, s, n)) \in Nat
         /\ Carried(L, s, 0) = {}
<1>1. IsFiniteSet(1..n)
  BY FS_Interval
<1>2. Carried(L, s, n) \in SUBSET (1..n)
  BY DEF Carried
<1>3. IsFiniteSet(Carried(L, s, n))
  BY <1>1, <1>2, FS_Subset
<1> QED BY <1>3, FS_CardinalityType DEF Carried

\* Only the lines up to n count.
LEMMA CarriedSame ==
  ASSUME NEW K, NEW L, NEW s, NEW n \in Nat, \A i \in 1..n : K[i] = L[i]
  PROVE  Carried(K, s, n) = Carried(L, s, n)
BY DEF Carried

\* The stretch from m to n holds no event of the stream.
LEMMA CarriedOver ==
  ASSUME NEW L, NEW s, NEW m \in Nat, NEW n \in Nat, m <= n,
         \A i \in m + 1 .. n : ~(L[i].kind = "event" /\ L[i].stream = s)
  PROVE  Carried(L, s, n) = Carried(L, s, m)
BY DEF Carried

LEMMA CarriedMore ==
  ASSUME NEW L, NEW s, NEW m \in Nat, NEW n \in Nat, m <= n
  PROVE  Cardinality(Carried(L, s, m)) <= Cardinality(Carried(L, s, n))
<1>1. Carried(L, s, m) \in SUBSET Carried(L, s, n)
  BY DEF Carried
<1> QED BY <1>1, CarriedFinite, FS_Subset

LEMMA CarriedAdds ==
  ASSUME NEW L, NEW n \in Nat, L[n + 1].kind = "event"
  PROVE  Cardinality(Carried(L, L[n + 1].stream, n + 1))
           = Cardinality(Carried(L, L[n + 1].stream, n)) + 1
<1> DEFINE s == L[n + 1].stream
           S == Carried(L, s, n)
<1>1. Carried(L, s, n + 1) = S \cup {n + 1} /\ n + 1 \notin S
  BY DEF Carried
<1>2. IsFiniteSet(S)
  BY CarriedFinite
<1> HIDE DEF S
<1>3. Cardinality(S \cup {n + 1}) = Cardinality(S) + 1
  BY <1>1, <1>2, FS_AddElement
<1> QED BY <1>1, <1>3 DEF S

\* A later event of a stream has the larger number; the next one the next.
LEMMA RankOrder ==
  ASSUME NEW L, NEW m \in Nat \ {0}, NEW n \in Nat \ {0}, m < n,
         L[n].kind = "event", L[m].stream = L[n].stream
  PROVE  /\ EventId(L, m).boot = EventId(L, n).boot
         /\ EventId(L, m).seq < EventId(L, n).seq
         /\ (\A i \in m + 1 .. n - 1 :
               ~(L[i].kind = "event" /\ L[i].stream = L[n].stream))
              => EventId(L, n).seq = EventId(L, m).seq + 1
<1> DEFINE s == L[n].stream
           M == Cardinality(Carried(L, s, m))
           P == Cardinality(Carried(L, s, n - 1))
           N == Cardinality(Carried(L, s, n))
<1>1. /\ EventId(L, m).boot = EventId(L, n).boot
      /\ EventId(L, m).seq = M /\ EventId(L, n).seq = N
  BY DEF EventId
<1>2. n - 1 \in Nat /\ (n - 1) + 1 = n /\ m <= n - 1
  OBVIOUS
<1>3. N = P + 1
  BY <1>2, CarriedAdds
<1>4. M <= P /\ M \in Nat /\ P \in Nat
  BY <1>2, CarriedMore, CarriedFinite
<1>5. (\A i \in m + 1 .. n - 1 : ~(L[i].kind = "event" /\ L[i].stream = s)) => P = M
  <2> SUFFICES ASSUME \A i \in m + 1 .. n - 1 : ~(L[i].kind = "event" /\ L[i].stream = s)
               PROVE  P = M
    OBVIOUS
  <2>1. Carried(L, s, n - 1) = Carried(L, s, m)
    BY <1>2, CarriedOver
  <2> QED BY <2>1
<1> HIDE DEF M, P, N
<1> QED BY <1>1, <1>3, <1>4, <1>5

\* The numbers of what was handed on.
IdsOf(L, s) == [i \in 1..Len(s) |-> EventId(L, s[i])]

LEMMA IdsSame ==
  ASSUME NEW K, NEW L, NEW n \in Nat, \A i \in 1..n : K[i] = L[i],
         NEW s \in Seq(1..n)
  PROVE  IdsOf(K, s) = IdsOf(L, s)
<1>1. ASSUME NEW i \in 1..Len(s)
      PROVE  EventId(K, s[i]) = EventId(L, s[i])
  <2>1. s[i] \in 1..n
    BY ElementOfSeq
  <2>2. PICK m \in 1..n : m = s[i]
    BY <2>1
  <2>3. K[m] = L[m] /\ \A j \in 1..m : K[j] = L[j]
    OBVIOUS
  <2>4. Carried(K, K[m].stream, m) = Carried(L, L[m].stream, m)
    BY <2>3, CarriedSame
  <2> QED BY <2>2, <2>3, <2>4 DEF EventId
<1> QED BY <1>1 DEF IdsOf

LEMMA FunctionIsSeq ==
  ASSUME NEW S, NEW n \in Nat, NEW f \in [1..n -> S]
  PROVE  f \in Seq(S) /\ Len(f) = n
<1>1. f \in Seq(S)
  BY SeqDef
<1>2. DOMAIN f = 1..n /\ DOMAIN f = 1..Len(f) /\ Len(f) \in Nat
  BY <1>1, LenProperties
<1> QED BY <1>1, <1>2

LEMMA IdsAppend ==
  ASSUME NEW L, NEW n \in Nat, NEW s \in Seq(1..n), NEW x \in 1..n
  PROVE  /\ IdsOf(L, Append(s, x)) = Append(IdsOf(L, s), EventId(L, x))
         /\ Len(IdsOf(L, s)) = Len(s)
         /\ \A i \in 1..Len(s) : IdsOf(L, s)[i] = EventId(L, s[i])
<1> DEFINE T == {EventId(L, i) : i \in 1..n}
           t == Append(s, x)
           a == IdsOf(L, s)
           b == IdsOf(L, t)
           y == EventId(L, x)
<1>1. /\ Len(s) \in Nat /\ \A i \in 1..Len(s) : s[i] \in 1..n
      /\ t \in Seq(1..n) /\ Len(t) = Len(s) + 1 /\ t[Len(s) + 1] = x
      /\ \A i \in 1..Len(s) : t[i] = s[i]
  BY LenProperties, ElementOfSeq, AppendProperties
<1>2. \A i \in 1..Len(t) : t[i] \in 1..n
  BY <1>1, ElementOfSeq
<1>3. /\ a \in [1..Len(s) -> T] /\ b \in [1..Len(t) -> T] /\ y \in T
      /\ \A i \in 1..Len(s) : a[i] = EventId(L, s[i])
      /\ \A i \in 1..Len(t) : b[i] = EventId(L, t[i])
  BY <1>1, <1>2 DEF IdsOf
<1> HIDE DEF T, t, a, b, y
<1>4. Len(t) \in Nat
  BY <1>1
<1>5. /\ a \in Seq(T) /\ b \in Seq(T)
      /\ Len(a) = Len(s) /\ Len(b) = Len(t)
  BY <1>1, <1>3, <1>4, FunctionIsSeq
<1>6. /\ Append(a, y) \in Seq(T) /\ Len(Append(a, y)) = Len(s) + 1
      /\ \A i \in 1..Len(s) : Append(a, y)[i] = a[i]
      /\ Append(a, y)[Len(s) + 1] = y
  BY <1>3, <1>5, AppendProperties
<1>7. \A i \in 1..Len(b) : b[i] = Append(a, y)[i]
  <2> SUFFICES ASSUME NEW i \in 1..Len(b) PROVE b[i] = Append(a, y)[i]
    OBVIOUS
  <2>1. CASE i \in 1..Len(s)
    BY <1>1, <1>3, <1>5, <1>6, <2>1
  <2>2. CASE i = Len(s) + 1
    BY <1>1, <1>3, <1>5, <1>6, <2>2 DEF y
  <2> QED BY <1>1, <1>5, <2>1, <2>2
<1>8. b = Append(a, y)
  BY <1>1, <1>5, <1>6, <1>7, SeqEqual
<1> QED BY <1>3, <1>5, <1>8 DEF a, b, t, y

LEMMA IdsEmpty ==
  ASSUME NEW L, NEW s, Len(s) = 0
  PROVE  IdsOf(L, s) = <<>>
<1>1. IdsOf(L, s) \in [1..0 -> {0}]
  BY DEF IdsOf
<1>2. IdsOf(L, s) \in Seq({0}) /\ Len(IdsOf(L, s)) = 0
  BY <1>1, FunctionIsSeq
<1> QED BY <1>2, EmptySeq

-----------------------------------------------------------------------------
(* Nothing is handed on that was out of reach.                             *)

\* The console's lines go to one stream after the other, and nothing has come
\* yet from the stream just opened.
StreamsInv ==
  /\ \A n \in 1..Len(log) : log[n].stream <= stream
  /\ \A n \in 1..Len(log) : \A m \in 1..n :
       log[n].stream # 0 => log[m].stream <= log[n].stream
  /\ inHand # 0 => log[inHand].stream = stream
  /\ pc = "inspect" => \A i \in 1..Len(out) : log[out[i]].stream # stream

\* Nothing is read from a stream in the wrong mode.
ModeInv ==
  /\ garbled \subseteq 1..stream
  /\ garbled # {} => tty
  /\ copier = "write" => ~tty
  /\ pc = "inspect" \/ (pc \in {"scan", "send"} /\ ~mux) => stream \notin garbled

\* An over-long line of the stream is still ahead of the scan.
LongInv ==
  pc \in {"inspect", "scan", "send"} =>
    \A l \in 1..Len(log) :
      log[l].kind = "long" /\ log[l].stream = stream => ToScan(l)

ReachInv ==
  /\ \A i \in 1..Len(out) : ~OutOfReach(out[i])
  /\ held # 0 => ~OutOfReach(held)

ScopeInv == StreamsInv /\ ModeInv /\ LongInv /\ ReachInv

\* What was in reach stays so while its stream is not found garbled.
LEMMA ReachNotGained ==
  ASSUME TypeInv, Len(log) <= Len(log'), \A i \in 1..Len(log) : log'[i] = log[i],
         NEW n \in 1..Len(log), ~OutOfReach(n),
         log[n].stream \in garbled' => log[n].stream \in garbled
  PROVE  ~OutOfReach(n)'
<1>1. Len(log) \in Nat
  BY Types DEF TypeInv
<1>2. \A l \in 1..(n - 1) : l \in 1..Len(log)
  BY <1>1
<1> QED BY <1>2 DEF OutOfReach

LEMMA InitScope == Init => ScopeInv
<1> SUFFICES ASSUME Init PROVE ScopeInv
  OBVIOUS
<1>1. out = <<>> /\ Len(out) = 0
  BY EmptySeq, ConcatEmptySeq DEF Init, out
<1>2. Len(log) = 0
  BY EmptySeq DEF Init
<1>3. StreamsInv
  BY <1>2 DEF StreamsInv, Init
<1>4. ModeInv /\ LongInv /\ ReachInv
  BY <1>1, <1>2 DEF ModeInv, LongInv, ReachInv, Init
<1> QED BY <1>3, <1>4 DEF ScopeInv

\* A step that neither opens nor reads a stream.
LEMMA QuietScope ==
  ASSUME TypeInv, ScopeInv,
         UNCHANGED <<log, garbled, tty, stream, mux, inHand, out>>,
         held' \in {0, held}, copier' = "write" => copier = "write",
         pc' = "inspect" => pc = "inspect",
         pc' \in {"scan", "send"} => pc \in {"scan", "send"},
         pc' \in {"inspect", "scan", "send"} => src' = src
  PROVE  ScopeInv'
<1>1. StreamsInv'
  BY DEF ScopeInv, StreamsInv
<1>2. ModeInv'
  BY DEF ScopeInv, ModeInv
<1>3. LongInv'
  BY DEF ScopeInv, LongInv, ToScan
<1>4. ReachInv'
  BY DEF ScopeInv, ReachInv, OutOfReach
<1> QED BY <1>1, <1>2, <1>3, <1>4 DEF ScopeInv

LEMMA IdleScope ==
  ASSUME TypeInv, ScopeInv,
         \/ ContainerStop \/ ContainerStart \/ StreamBreaks \/ OpenFails
         \/ ScanEnd \/ Return \/ Backoff \/ CopyEnd \/ ReceiverStop \/ Cancel
         \/ UNCHANGED vars
  PROVE  ScopeInv'
<1>1. /\ UNCHANGED <<log, garbled, tty, stream, mux, inHand, posted, lineCh, held>>
      /\ copier' = "write" => copier = "write"
      /\ pc' = "inspect" => pc = "inspect"
      /\ pc' \in {"scan", "send"} => pc \in {"scan", "send"}
      /\ pc' \in {"inspect", "scan", "send"} => src' = src
  <2>1. CASE ContainerStop \/ ContainerStart \/ StreamBreaks
    BY <2>1 DEF ContainerStop, ContainerStart, StreamBreaks, tailVars
  <2>2. CASE OpenFails \/ ScanEnd \/ Return \/ Backoff
    BY <2>2 DEF OpenFails, ScanEnd, Return, Backoff, dockerVars
  <2>3. CASE CopyEnd \/ ReceiverStop \/ Cancel \/ UNCHANGED vars
    BY <2>3 DEF CopyEnd, ReceiverStop, Cancel, vars, dockerVars, tailVars
  <2> QED BY <2>1, <2>2, <2>3
<1>2. out' = out
  BY <1>1 DEF out
<1> QED BY <1>1, <1>2, QuietScope

LEMMA ReceiveScope ==
  ASSUME TypeInv, ScopeInv, Receive
  PROVE  ScopeInv'
<1>1. /\ UNCHANGED <<log, garbled, tty, stream, mux, inHand, held, copier, pc, src>>
      /\ lineCh # <<>> /\ posted' = Append(posted, Head(lineCh))
      /\ lineCh' = Tail(lineCh)
  BY DEF Receive, dockerVars
<1>2. out' = out
  BY <1>1, TakenFromChannel DEF TypeInv
<1> QED BY <1>1, <1>2, QuietScope

LEMMA OpenScope ==
  ASSUME TypeInv, ScopeInv, Open
  PROVE  ScopeInv'
<1>1. /\ UNCHANGED <<log, garbled, tty, inHand, held, lineCh, posted, copier>>
      /\ stream' = stream + 1 /\ pc' = "inspect" /\ copier = "none" /\ inHand = 0
      /\ held = 0
  BY DEF Open, TypeInv, StageInv
<1>2. /\ out' = out /\ stream \in Nat
      /\ \A n \in 1..Len(log) : log[n].stream \in Nat
      /\ \A i \in 1..Len(out) : out[i] \in 1..Len(log)
  BY <1>1, Types, OutType, TailAssumption DEF out, TypeInv, TypeOK, Line
<1>3. \A n \in 1..Len(log) : log[n].stream <= stream
  BY DEF ScopeInv, StreamsInv
<1>4. \A n \in 1..Len(log) : log[n].stream <= stream' /\ log[n].stream # stream'
  BY <1>1, <1>2, <1>3
<1>5. StreamsInv'
  <2>1. \A i \in 1..Len(out) : log[out[i]].stream # stream'
    BY <1>2, <1>4
  <2> QED BY <1>1, <1>2, <1>4, <2>1 DEF ScopeInv, StreamsInv
<1>6. ModeInv'
  BY <1>1, <1>2 DEF ScopeInv, ModeInv
<1>7. LongInv'
  BY <1>1, <1>4 DEF LongInv
<1>8. ReachInv'
  BY <1>1, <1>2 DEF ScopeInv, ReachInv, OutOfReach
<1> QED BY <1>5, <1>6, <1>7, <1>8 DEF ScopeInv

\* The wrong mode concerns a stream from which nothing has come.
LEMMA InspectScope ==
  ASSUME TypeInv, ScopeInv, Inspect
  PROVE  ScopeInv'
<1>1. /\ UNCHANGED <<log, tty, src, inHand, held, lineCh, posted, stream>>
      /\ pc = "inspect" /\ pc' = "scan" /\ copier' # "write" /\ held = 0
      /\ copier = "none" /\ inHand = 0
      /\ garbled' = IF mux' /\ tty THEN garbled \cup {stream} ELSE garbled
      /\ mux' \/ (~mux' /\ tty)
  BY DEF Inspect, TypeInv, StageInv, TypeOK
<1>2. /\ out' = out /\ stream \in 1..MaxStreams /\ MaxStreams \in Nat
      /\ \A i \in 1..Len(out) : out[i] \in 1..Len(log)
  BY <1>1, OutType, TailAssumption DEF out, TypeInv, StageInv, TypeOK
<1>3. StreamsInv'
  BY <1>1, <1>2 DEF ScopeInv, StreamsInv
<1>4. ModeInv'
  <2>1. garbled \subseteq 1..stream /\ (garbled # {} => tty) /\ stream \notin garbled
    BY <1>1 DEF ScopeInv, ModeInv
  <2>2. garbled' \subseteq 1..stream'
    BY <1>1, <1>2, <2>1
  <2> QED BY <1>1, <2>1, <2>2 DEF ModeInv
<1>5. LongInv'
  BY <1>1 DEF ScopeInv, LongInv, ToScan
<1>6. ReachInv'
  <2>1. ASSUME NEW i \in 1..Len(out)
        PROVE  ~OutOfReach(out[i])'
    <3>1. PICK n \in 1..Len(log) : n = out[i]
      BY <1>2
    <3>2. ~OutOfReach(n) /\ log[n].stream # stream
      BY <1>1, <3>1 DEF ScopeInv, ReachInv, StreamsInv
    <3>3. log[n].stream \in garbled' => log[n].stream \in garbled
      BY <1>1, <3>2
    <3>4. Len(log) <= Len(log')
      BY <1>1, Types DEF TypeInv
    <3>5. ~OutOfReach(n)'
      BY <1>1, <3>2, <3>3, <3>4, ReachNotGained
    <3> QED BY <1>2, <3>1, <3>5 DEF OutOfReach
  <2> QED BY <1>1, <1>2, <2>1 DEF ReachInv, OutOfReach
<1> QED BY <1>3, <1>4, <1>5, <1>6 DEF ScopeInv

LEMMA ConsoleLineScope ==
  ASSUME TypeInv, ScopeInv, NEW kind \in Kinds, ConsoleLine(kind)
  PROVE  ScopeInv'
<1> DEFINE new == Len(log) + 1
<1>1. /\ Len(log') = new /\ Len(log) \in Nat
      /\ \A n \in 1..Len(log) : log'[n] = log[n]
      /\ log'[new].stream = IF Attached THEN stream ELSE 0
  BY ConsoleLineType, Types DEF TypeInv
<1>2. /\ UNCHANGED <<tty, ended, garbled, copier, inHand, held, mux>>
      /\ UNCHANGED <<lineCh, posted, stream, pc>>
      /\ src' = IF Attached THEN Append(src, new) ELSE src
  BY DEF ConsoleLine, tailVars
<1>3. /\ src \in Seq(1..Len(log)) /\ Len(src) \in Nat
      /\ inHand \in 0..Len(log) /\ held \in 0..Len(log)
      /\ \A n \in 1..Len(log) : log[n].stream \in Nat
      /\ stream \in Nat
  BY Types, TailAssumption DEF TypeInv, TypeOK, Line
<1>4. /\ out' = out /\ \A i \in 1..Len(out) : out[i] \in 1..Len(log)
  BY <1>2, OutType DEF out, TypeInv
<1>5. StreamsInv'
  <2>1. /\ \A n \in 1..Len(log) : log[n].stream <= stream
        /\ \A n \in 1..Len(log) : \A m \in 1..n :
             log[n].stream # 0 => log[m].stream <= log[n].stream
        /\ inHand # 0 => log[inHand].stream = stream
        /\ pc = "inspect" => \A i \in 1..Len(out) : log[out[i]].stream # stream
    BY DEF ScopeInv, StreamsInv
  <2>2. \A n \in 1..new : log'[n].stream <= stream
    BY <1>1, <1>3, <2>1
  <2>3. ASSUME NEW n \in 1..new, NEW m \in 1..n, log'[n].stream # 0
        PROVE  log'[m].stream <= log'[n].stream
    <3>1. CASE n \in 1..Len(log)
      <4>1. m \in 1..Len(log)
        BY <1>1, <3>1
      <4> QED BY <1>1, <2>1, <2>3, <3>1, <4>1
    <3>2. CASE n = new
      BY <1>1, <2>2, <2>3, <3>2
    <3> QED BY <1>1, <3>1, <3>2
  <2> QED BY <1>1, <1>2, <1>3, <1>4, <2>1, <2>2, <2>3 DEF StreamsInv
<1>6. ModeInv'
  BY <1>2 DEF ScopeInv, ModeInv
<1>7. LongInv'
  <2> SUFFICES ASSUME pc \in {"inspect", "scan", "send"},
                      NEW l \in 1..new, log'[l].kind = "long", log'[l].stream = stream
               PROVE  ToScan(l)'
    BY <1>1, <1>2 DEF LongInv
  <2>1. Attached => /\ Len(src') = Len(src) + 1 /\ src'[Len(src) + 1] = new
                    /\ \A i \in 1..Len(src) : src'[i] = src[i]
    <3>1. src \in Seq(1..new) /\ new \in 1..new
      BY <1>1, <1>3, Widen
    <3> QED BY <1>2, <3>1, AppendProperties
  <2>2. CASE l \in 1..Len(log)
    <3>1. ToScan(l)
      BY <1>1, <2>2 DEF ScopeInv, LongInv
    <3>2. \A i \in 1..Len(src) : i \in 1..Len(src') /\ src'[i] = src[i]
      BY <1>2, <1>3, <2>1
    <3> QED BY <1>2, <3>1, <3>2 DEF ToScan
  <2>3. CASE l = new
    <3>1. stream # 0
      BY DEF TypeInv, StageInv
    <3>2. Attached
      BY <1>1, <2>3, <3>1
    <3>3. Len(src) + 1 \in 1..Len(src')
      BY <1>3, <2>1, <3>2
    <3> QED BY <2>1, <2>3, <3>2, <3>3 DEF ToScan
  <2> QED BY <1>1, <2>2, <2>3
<1>8. ReachInv'
  <2>1. \A n \in 1..Len(log) : ~OutOfReach(n) => ~OutOfReach(n)'
    BY <1>1, <1>2, ReachNotGained
  <2> QED BY <1>2, <1>3, <1>4, <2>1 DEF ScopeInv, ReachInv
<1> QED BY <1>5, <1>6, <1>7, <1>8 DEF ScopeInv

\* The line a scan takes, the first one ahead of it, is in reach.
LEMMA TakeScope ==
  ASSUME TypeInv, ScopeInv, NEW n \in 1..Len(log), Take(n), pc = "scan",
         log[n].stream = stream, stream \notin garbled,
         \A k \in 1..Len(log) : ToScan(k) => n <= k /\ (k = n \/ ToScan(k)'),
         UNCHANGED <<log, garbled, tty, stream, mux, out>>,
         inHand' \in {0, inHand}, copier' = "write" => copier = "write",
         copier' = "write" <=> inHand' # 0
  PROVE  ScopeInv'
<1>1. /\ Len(log) \in Nat /\ stream \in Nat \ {0} /\ held = 0 /\ log[n] \in Line
      /\ pc' \in {"scan", "send", "drain"} /\ (pc' = "drain" <=> log[n].kind = "long")
      /\ held' = IF log[n].kind = "event" THEN n ELSE 0
  <2>1. log[n].kind \in Kinds
    BY Types DEF TypeInv, Line
  <2>2. /\ pc' \in {"scan", "send", "drain"} /\ (pc' = "drain" <=> log[n].kind = "long")
    BY <2>1 DEF Take, Kinds
  <2>3. held = 0 /\ stream # 0 /\ stream \in Nat
    BY TailAssumption DEF TypeInv, TypeOK, StageInv
  <2> QED BY <2>2, <2>3, Types DEF TypeInv, Take
<1>2. ~OutOfReach(n)
  <2>1. ASSUME NEW l \in 1..(n - 1), log[l].kind = "long", log[l].stream = stream
        PROVE  FALSE
    <3>1. l \in 1..Len(log) /\ l < n
      BY <1>1
    <3>2. ToScan(l)
      BY <2>1, <3>1 DEF ScopeInv, LongInv
    <3> QED BY <1>1, <3>1, <3>2
  <2> QED BY <1>1, <2>1 DEF OutOfReach
<1>3. StreamsInv'
  BY <1>1 DEF ScopeInv, StreamsInv
<1>4. ModeInv'
  BY <1>1 DEF ScopeInv, ModeInv
<1>5. LongInv'
  <2> SUFFICES ASSUME pc' # "drain", NEW l \in 1..Len(log), log[l].kind = "long",
                      log[l].stream = stream
               PROVE  ToScan(l)'
    BY DEF LongInv
  <2>1. ToScan(l) /\ log[n].kind # "long"
    BY <1>1 DEF ScopeInv, LongInv
  <2> QED BY <2>1
<1>6. ReachInv'
  <2>1. \A k \in 1..Len(log) : OutOfReach(k)' <=> OutOfReach(k)
    BY DEF OutOfReach
  <2>2. \A i \in 1..Len(out) : out[i] \in 1..Len(log) /\ ~OutOfReach(out[i])
    BY OutType DEF ScopeInv, ReachInv, TypeInv
  <2> QED BY <1>1, <1>2, <2>1, <2>2 DEF ReachInv
<1> QED BY <1>3, <1>4, <1>5, <1>6 DEF ScopeInv

LEMMA ScanPipeScope ==
  ASSUME OrderInv, ScopeInv, ScanPipe
  PROVE  ScopeInv'
<1> DEFINE n == inHand
<1>1. /\ UNCHANGED <<log, tty, src, garbled, lineCh, posted, stream, mux>>
      /\ pc = "scan" /\ copier = "write" /\ Take(n)
      /\ copier' = IF log[n].kind = "long" THEN "write" ELSE "read"
      /\ inHand' = IF log[n].kind = "long" THEN n ELSE 0
  BY DEF ScanPipe, dockerVars
<1>2. n \in 1..Len(log) /\ Len(log) \in Nat
  BY <1>1, Types DEF OrderInv, TypeInv, StageInv
<1>3. out' = out
  BY <1>1 DEF out
<1>4. log[n].stream = stream /\ stream \notin garbled
  BY <1>1, <1>2 DEF ScopeInv, StreamsInv, ModeInv
<1>5. \A i \in 1..Len(src) : n < src[i]
  BY DEF OrderInv, TailInv, FrontInv
<1>6. \A k \in 1..Len(log) : ToScan(k) => n <= k /\ (k = n \/ ToScan(k)')
  BY <1>1, <1>2, <1>5 DEF ToScan
<1> QED BY <1>1, <1>2, <1>3, <1>4, <1>6, TakeScope DEF OrderInv

LEMMA ScanRawScope ==
  ASSUME OrderInv, ScopeInv, ScanRaw
  PROVE  ScopeInv'
<1> DEFINE n == src[1]
<1>1. /\ UNCHANGED <<log, tty, garbled, lineCh, posted, stream, mux, copier, inHand>>
      /\ pc = "scan" /\ ~mux /\ src # <<>>
  BY DEF ScanRaw
<1>2. /\ Len(src) >= 1 /\ n \in 1..Len(log) /\ Take(n) /\ Len(src') = Len(src) - 1
      /\ \A i \in 1..Len(src') : src'[i] = src[i + 1]
  BY <1>1, SrcTail DEF ScanRaw, OrderInv, TypeInv
<1>3. /\ copier = "none" /\ inHand = 0 /\ Len(log) \in Nat /\ Len(src) \in Nat
      /\ \A i \in 1..Len(src) : src[i] \in 1..Len(log)
  BY <1>1, Types DEF OrderInv, TypeInv, StageInv
<1>4. out' = out
  BY <1>1 DEF out
<1>5. \A i \in 1..Len(src) : /\ log[src[i]].stream = stream
                             /\ \A j \in 1..(i - 1) : src[j] < src[i]
  BY DEF OrderInv, TailInv, FrontInv
<1>6. log[n].stream = stream /\ stream \notin garbled
  BY <1>1, <1>2, <1>3, <1>5 DEF ScopeInv, ModeInv
<1>7. \A k \in 1..Len(log) : ToScan(k) => n <= k /\ (k = n \/ ToScan(k)')
  <2> SUFFICES ASSUME NEW i \in 1..Len(src)
               PROVE  /\ n <= src[i]
                      /\ src[i] = n \/ \E j \in 1..Len(src') : src'[j] = src[i]
    BY <1>3 DEF ToScan
  <2>1. CASE i = 1
    BY <1>3, <2>1
  <2>2. CASE i # 1
    <3>1. i - 1 \in 1..Len(src') /\ (i - 1) + 1 = i /\ 1 \in 1..(i - 1)
      BY <1>2, <1>3, <2>2
    <3>2. src'[i - 1] = src[i] /\ n < src[i]
      BY <1>2, <1>5, <3>1
    <3> QED BY <1>3, <3>1, <3>2
  <2> QED BY <2>1, <2>2
<1> QED BY <1>1, <1>2, <1>3, <1>4, <1>6, <1>7, TakeScope DEF OrderInv

LEMMA SendScope ==
  ASSUME TypeInv, ScopeInv, Send
  PROVE  ScopeInv'
<1>1. /\ UNCHANGED <<log, tty, src, garbled, posted, stream, mux, copier, inHand>>
      /\ pc = "send" /\ pc' \in {"scan", "drain"} /\ held # 0 /\ held' = 0
  BY DEF Send, dockerVars, TypeInv, StageInv
<1>2. CASE lineCh' = lineCh
  <2>1. out' = out
    BY <1>1, <1>2 DEF out
  <2> QED BY <1>1, <2>1, QuietScope
<1>3. CASE lineCh' = Append(lineCh, held)
  <2>1. out' = Append(out, held)
    BY <1>1, <1>3, PutOnChannel DEF TypeInv
  <2>2. /\ Len(out') = Len(out) + 1 /\ out'[Len(out) + 1] = held
        /\ \A i \in 1..Len(out) : out'[i] = out[i]
        /\ Len(out) \in Nat
    <3>1. held \in 1..Len(log) /\ out \in Seq(1..Len(log)) /\ Len(out) \in Nat
      BY <1>1, Types, OutType DEF TypeInv
    <3> QED BY <2>1, <3>1, AppendProperties
  <2>3. StreamsInv' /\ ModeInv' /\ LongInv'
    BY <1>1 DEF ScopeInv, StreamsInv, ModeInv, LongInv, ToScan
  <2>4. ReachInv'
    <3>1. \A i \in 1..Len(out') : i \in 1..Len(out) \/ i = Len(out) + 1
      BY <2>2
    <3>2. \A i \in 1..Len(out') : ~OutOfReach(out'[i])
      BY <1>1, <2>2, <3>1 DEF ScopeInv, ReachInv
    <3> QED BY <1>1, <3>2 DEF ReachInv, OutOfReach
  <2> QED BY <2>3, <2>4 DEF ScopeInv
<1> QED BY <1>2, <1>3 DEF Send

LEMMA CopyReadScope ==
  ASSUME OrderInv, ScopeInv, CopyRead
  PROVE  ScopeInv'
<1>1. /\ UNCHANGED <<log, tty, garbled, posted, lineCh, stream, mux, held, pc>>
      /\ copier = "read" /\ src # <<>> /\ inHand = 0
  BY DEF CopyRead, OrderInv, TypeInv, StageInv
<1>2. out' = out
  BY <1>1 DEF out
<1>3. CASE tty
  <2>1. copier' = "done" /\ src' = src /\ inHand' = inHand
    BY <1>3 DEF CopyRead
  <2> QED BY <1>1, <1>2, <2>1, QuietScope DEF OrderInv
<1>4. CASE ~tty
  <2>1. /\ Len(src) >= 1 /\ inHand' = src[1] /\ Len(src') = Len(src) - 1
        /\ \A i \in 1..Len(src') : src'[i] = src[i + 1]
        /\ copier' = "write" /\ Len(src) \in Nat
    BY <1>1, <1>4, SrcTail, Types DEF CopyRead, OrderInv, TypeInv
  <2>2. log[src[1]].stream = stream
    BY <2>1 DEF OrderInv, TailInv, FrontInv
  <2>3. StreamsInv'
    BY <1>1, <1>2, <2>1, <2>2 DEF ScopeInv, StreamsInv
  <2>4. ModeInv'
    BY <1>1, <1>4 DEF ScopeInv, ModeInv
  <2>5. \A i \in 1..Len(src) : i = 1 \/ (i - 1 \in 1..Len(src') /\ (i - 1) + 1 = i)
    BY <2>1
  <2>6. \A k \in 1..Len(log) : ToScan(k) => ToScan(k)'
    <3> SUFFICES ASSUME NEW k \in 1..Len(log), NEW i \in 1..Len(src), src[i] = k
                 PROVE  ToScan(k)'
      BY <1>1, Types DEF ToScan, OrderInv, TypeInv
    <3>1. CASE i = 1
      BY <2>1, <3>1 DEF ToScan
    <3>2. CASE i # 1
      BY <2>1, <2>5, <3>2 DEF ToScan
    <3> QED BY <3>1, <3>2
  <2>7. LongInv'
    BY <1>1, <2>6 DEF ScopeInv, LongInv
  <2>8. ReachInv'
    BY <1>1, <1>2 DEF ScopeInv, ReachInv, OutOfReach
  <2> QED BY <2>3, <2>4, <2>7, <2>8 DEF ScopeInv
<1> QED BY <1>3, <1>4

LEMMA NextScope == OrderInv /\ ScopeInv /\ [Next]_vars => ScopeInv'
<1> SUFFICES ASSUME OrderInv, ScopeInv, [Next]_vars PROVE ScopeInv'
  OBVIOUS
<1>1. TypeInv
  BY DEF OrderInv
<1>2. CASE DockerNext
  BY <1>1, <1>2, ConsoleLineScope, IdleScope DEF DockerNext
<1>3. CASE Open \/ OpenFails \/ Inspect \/ Backoff
  BY <1>1, <1>3, OpenScope, InspectScope, IdleScope
<1>4. CASE ScanPipe \/ ScanRaw \/ ScanEnd
  BY <1>1, <1>4, ScanPipeScope, ScanRawScope, IdleScope
<1>5. CASE Send \/ Return
  BY <1>1, <1>5, SendScope, IdleScope
<1>6. CASE CopyRead \/ CopyEnd
  BY <1>1, <1>6, CopyReadScope, IdleScope
<1>7. CASE Receive \/ ReceiverStop \/ Cancel \/ UNCHANGED vars
  BY <1>1, <1>7, ReceiveScope, IdleScope
<1> QED BY <1>2, <1>3, <1>4, <1>5, <1>6, <1>7 DEF Next

\* What receiveLoop took is the front of everything that was sent.
LEMMA OrderImplies == OrderInv /\ ScopeInv => TailedInOrder
<1> SUFFICES ASSUME OrderInv, ScopeInv PROVE TailedInOrder
  OBVIOUS
<1>1. posted \in Seq(1..Len(log)) /\ lineCh \in Seq(1..Len(log))
  BY Types DEF OrderInv, TypeInv
<1>2. /\ Len(posted) \in Nat /\ Len(lineCh) \in Nat
      /\ Len(out) = Len(posted) + Len(lineCh)
      /\ \A i \in 1..Len(posted) + Len(lineCh) :
           out[i] = IF i <= Len(posted) THEN posted[i] ELSE lineCh[i - Len(posted)]
  BY <1>1, LenProperties, ConcatProperties DEF out
<1>3. \A i \in 1..Len(posted) : i \in 1..Len(out) /\ out[i] = posted[i]
  BY <1>2
<1>4. ASSUME NEW i \in 1..Len(posted)
      PROVE  LET from == IF i = 1 THEN 0 ELSE posted[i - 1] IN
               /\ from < posted[i]
               /\ log[posted[i]].kind = "event" /\ ~OutOfReach(posted[i])
               /\ ~ctxDone => Clear(from, posted[i])
  <2>1. i # 1 => i - 1 \in 1..Len(posted)
    BY <1>2
  <2>2. /\ Before(i) = (IF i = 1 THEN 0 ELSE posted[i - 1])
        /\ i \in 1..Len(out) /\ out[i] = posted[i]
    BY <1>3, <2>1 DEF Before
  <2> QED BY <2>2 DEF OrderInv, TailInv, OutInv, ScopeInv, ReachInv
<1> QED BY <1>4 DEF TailedInOrder, Clear

\* What was sent came in order from what was in reach, on the way from the
\* console to Matrix through stream, copier, pipe, scanner and lineCh.
THEOREM ReachInvariant == Spec => [](OrderInv /\ ScopeInv)
<1>1. Init => OrderInv /\ ScopeInv
  BY InitType, InitOrder, InitScope DEF OrderInv
<1>2. OrderInv /\ ScopeInv /\ [Next]_vars => (OrderInv /\ ScopeInv)'
  BY NextOrder, NextScope
<1> QED BY <1>1, <1>2, PTL DEF Spec

\* Whatever the pipe, the full channel, the container and the daemon do,
\* Matrix sees the events of the console in order, each once, and until the
\* cancellation exactly those that the tailer could have read.
THEOREM LinesInOrder == Spec => []TailedInOrder
BY ReachInvariant, OrderImplies, PTL

\* Up to the newest event that Matrix has of a log stream, it has all of them.
WholePrefixes ==
  ~ctxDone =>
    \A i \in 1..Len(posted) : \A n \in 1..posted[i] :
      log[n].kind = "event" /\ log[n].stream = log[posted[i]].stream =>
        \E j \in 1..i : posted[j] = n

Below == {p \in Nat \X Nat : p[1] < p[2]}

LEMMA NatMin ==
  ASSUME NEW T \in SUBSET Nat, T # {}
  PROVE  \E x \in T : \A y \in T : ~(y < x)
<1>1. IsWellFoundedOn(Below, Nat)
  BY NatLessThanWellFounded DEF OpToRel, Below
<1>2. \E x \in T : \A y \in T : <<y, x>> \notin Below
  BY <1>1, WFMin
<1> QED BY <1>2 DEF Below

LEMMA OrderGivesPrefixes ==
  ASSUME TypeOK, TailedInOrder
  PROVE  WholePrefixes
<1> SUFFICES ASSUME ~ctxDone, NEW i \in 1..Len(posted), NEW n \in 1..posted[i],
                    log[n].kind = "event", log[n].stream = log[posted[i]].stream
             PROVE  \E j \in 1..i : posted[j] = n
  BY DEF WholePrefixes
<1> DEFINE Past == {j \in 1..i : n <= posted[j]}
<1>1. /\ Len(posted) \in Nat /\ Len(log) \in Nat
      /\ \A j \in 1..Len(posted) : posted[j] \in 1..Len(log)
  BY Types, LenProperties, ElementOfSeq
<1>2. i \in Past /\ Past \in SUBSET Nat
  BY <1>1
<1>3. PICK j \in Past : \A k \in Past : ~(k < j)
  BY <1>2, NatMin
<1>4. j \in 1..i /\ j \in 1..Len(posted) /\ n <= posted[j] /\ posted[j] \in Nat
  BY <1>1, <1>3
<1> DEFINE from == IF j = 1 THEN 0 ELSE posted[j - 1]
<1>5. from < n
  <2>1. CASE j = 1
    BY <2>1
  <2>2. CASE j # 1
    <3>1. j - 1 \in 1..i /\ j - 1 < j /\ posted[j - 1] \in Nat
      BY <1>1, <1>4, <2>2
    <3>2. j - 1 \notin Past
      BY <1>3, <3>1
    <3> QED BY <1>1, <2>2, <3>1, <3>2
  <2> QED BY <2>1, <2>2
<1>6. ~OutOfReach(posted[i]) /\ \A m \in from + 1 .. posted[j] - 1 :
                                 log[m].kind = "event" => OutOfReach(m)
  BY <1>4 DEF TailedInOrder
<1>7. ~OutOfReach(n)
  <2>1. \A l \in 1..(n - 1) : l \in 1..(posted[i] - 1)
    BY <1>1
  <2> QED BY <1>6, <2>1 DEF OutOfReach
<1>8. n \notin from + 1 .. posted[j] - 1
  BY <1>6, <1>7
<1>9. from \in Nat
  <2>1. j # 1 => j - 1 \in 1..Len(posted)
    BY <1>1, <1>4
  <2> QED BY <1>1, <2>1
<1> HIDE DEF from, Past
<1>10. n = posted[j]
  BY <1>1, <1>4, <1>5, <1>8, <1>9
<1> QED BY <1>4, <1>10

\* A log stream is never entered in the middle: before the first of its events
\* that reaches Matrix it carried none (tail's loop, logtailer.go:243-258).
THEOREM StreamsFromTheStart == Spec => []WholePrefixes
BY TypeCorrect, LinesInOrder, OrderGivesPrefixes, PTL

-----------------------------------------------------------------------------
(* The tailer implements the feed.                                         *)

\* How many events each log stream carried, by the number of the feed's life.
Counts(L) ==
  [b \in 1..(MaxStreams + 1) |->
     IF b = 1 THEN 0 ELSE Cardinality(Carried(L, b - 1, Len(L)))]

LEMMA InitFeed == Init => Feed!FeedInit
<1> SUFFICES ASSUME Init PROVE Feed!FeedInit
  OBVIOUS
<1>1. /\ stream = 0 /\ log = <<>> /\ posted = <<>> /\ ctxDone = FALSE
      /\ Len(log) = 0 /\ Len(posted) = 0
  BY EmptySeq DEF Init
<1>2. stream + 1 = 1
  BY <1>1
<1>3. Counts(log) = [b \in 1..(MaxStreams + 1) |-> 0]
  <2>1. \A s : Cardinality(Carried(log, s, 0)) = 0
    BY FS_EmptySet, CarriedFinite
  <2> QED BY <1>1, <2>1 DEF Counts
<1>4. IdsOf(log, posted) = <<>>
  BY <1>1, IdsEmpty
<1> QED BY <1>1, <1>2, <1>3, <1>4 DEF Feed!FeedInit, Counts, IdsOf

\* An event on an open stream is published; any other line is nothing to the
\* feed.
LEMMA ConsoleLineFeed ==
  ASSUME TypeInv, NEW kind \in Kinds, ConsoleLine(kind)
  PROVE  Feed!FeedPublish \/ UNCHANGED Feed!feedVars
<1> DEFINE n == Len(log)
           d == stream + 1
<1>1. /\ Len(log') = n + 1 /\ n \in Nat
      /\ \A i \in 1..n : log'[i] = log[i]
      /\ log'[n + 1].stream = IF Attached THEN stream ELSE 0
      /\ log'[n + 1].kind = kind
  <2>1. log \in Seq(Line) /\ Len(log) \in Nat
    BY Types DEF TypeInv
  <2>2. PICK line \in Line :
          /\ log' = Append(log, line) /\ line.kind = kind
          /\ line.stream = IF Attached THEN stream ELSE 0
    <3> DEFINE line == [kind |-> kind, stream |-> IF Attached THEN stream ELSE 0]
    <3>1. line \in Line /\ log' = Append(log, line)
      BY TailAssumption DEF ConsoleLine, Line, TypeInv, TypeOK
    <3>2. line.kind = kind /\ line.stream = IF Attached THEN stream ELSE 0
      OBVIOUS
    <3> HIDE DEF line
    <3> QED BY <3>1, <3>2
  <2> QED BY <2>1, <2>2, AppendProperties
<1>2. UNCHANGED <<stream, posted, ctxDone>>
  BY DEF ConsoleLine, tailVars
<1>3. stream \in 0..MaxStreams /\ MaxStreams \in Nat /\ (Attached => stream # 0)
  BY TailAssumption DEF TypeInv, TypeOK, StageInv, Attached
<1>4. IdsOf(log', posted') = IdsOf(log, posted)
  BY <1>1, <1>2, IdsSame, Types DEF TypeInv
<1>5. ASSUME NEW s \in Nat
      PROVE  Carried(log', s, n) = Carried(log, s, n)
  BY <1>1, CarriedSame
<1>6. ASSUME NEW s \in Nat, ~(kind = "event" /\ log'[n + 1].stream = s)
      PROVE  Carried(log', s, n + 1) = Carried(log, s, n)
  <2>1. Carried(log', s, n + 1) = Carried(log', s, n)
    BY <1>1, <1>6, CarriedOver
  <2> QED BY <1>5, <2>1
<1>7. CASE kind = "event" /\ Attached
  <2>1. Cardinality(Carried(log', stream, n + 1))
          = Cardinality(Carried(log, stream, n)) + 1
    <3>1. log'[n + 1].stream = stream
      BY <1>1, <1>7
    <3>2. Cardinality(Carried(log', stream, n + 1))
            = Cardinality(Carried(log', stream, n)) + 1
      BY <1>1, <1>7, <3>1, CarriedAdds
    <3> QED BY <1>3, <1>5, <3>2
  <2>2. ASSUME NEW b \in 1..(MaxStreams + 1)
        PROVE  Counts(log')[b] = [Counts(log) EXCEPT ![d] = @ + 1][b]
    <3>1. CASE b = 1
      BY <1>3, <1>7, <3>1 DEF Counts
    <3>2. CASE b = d
      <4>1. d # 1 /\ d - 1 = stream
        BY <1>3, <1>7
      <4> QED BY <1>1, <2>1, <3>2, <4>1 DEF Counts
    <3>3. CASE b # 1 /\ b # d
      <4>1. b - 1 \in Nat /\ b - 1 # stream
        BY <1>3, <3>3
      <4>2. Carried(log', b - 1, n + 1) = Carried(log, b - 1, n)
        BY <1>1, <1>6, <1>7, <4>1
      <4> QED BY <1>1, <3>3, <4>2 DEF Counts
    <3> QED BY <3>1, <3>2, <3>3
  <2>3. Counts(log') = [Counts(log) EXCEPT ![d] = @ + 1]
    BY <2>2 DEF Counts
  <2> QED BY <1>2, <1>4, <2>3 DEF Feed!FeedPublish, Counts, IdsOf
<1>8. CASE ~(kind = "event" /\ Attached)
  <2>1. ASSUME NEW b \in 1..(MaxStreams + 1)
        PROVE  Counts(log')[b] = Counts(log)[b]
    <3>1. CASE b = 1
      BY <3>1 DEF Counts
    <3>2. CASE b # 1
      <4>1. b - 1 \in Nat /\ b - 1 # 0
        BY <1>3, <3>2
      <4>2. Carried(log', b - 1, n + 1) = Carried(log, b - 1, n)
        BY <1>1, <1>6, <1>8, <4>1
      <4> QED BY <1>1, <3>2, <4>2 DEF Counts
    <3> QED BY <3>1, <3>2
  <2>2. Counts(log') = Counts(log)
    BY <2>1 DEF Counts
  <2> QED BY <1>2, <1>4, <2>2 DEF Feed!feedVars, Counts, IdsOf
<1> QED BY <1>7, <1>8

LEMMA OpenFeed ==
  ASSUME TypeInv, Open
  PROVE  Feed!FeedRestart
<1>1. /\ stream' = stream + 1 /\ stream < MaxStreams
      /\ UNCHANGED <<log, posted, ctxDone>>
  BY DEF Open
<1>2. stream + 1 < MaxStreams + 1 /\ stream' + 1 = (stream + 1) + 1
  BY <1>1, TailAssumption DEF TypeInv, TypeOK
<1> QED BY <1>1, <1>2 DEF Feed!FeedRestart

\* What receiveLoop takes comes right after what it took before, if both came
\* from one stream.
LEMMA ReceiveFeed ==
  ASSUME OrderInv, ScopeInv, Receive
  PROVE  Feed!FeedDeliver
<1> DEFINE N == Len(log)
           p == Len(posted)
<1>1. /\ lineCh # <<>> /\ posted' = Append(posted, Head(lineCh))
      /\ UNCHANGED <<log, stream, ctxDone>>
  BY DEF Receive, dockerVars
<1>2. /\ posted \in Seq(1..N) /\ lineCh \in Seq(1..N) /\ N \in Nat
      /\ p \in Nat /\ Len(lineCh) \in Nat \ {0}
      /\ \A i \in 1..N : log[i].stream \in Nat
      /\ stream \in 0..MaxStreams /\ MaxStreams \in Nat
  BY <1>1, Types, LenProperties, EmptySeq, TailAssumption
     DEF OrderInv, TypeInv, TypeOK, Line
<1>3. PICK y \in 1..N : y = Head(lineCh) /\ y = lineCh[1]
  BY <1>1, <1>2, HeadTailProperties
<1>4. /\ Len(out) = p + Len(lineCh) /\ out[p + 1] = y
      /\ \A i \in 1..p : out[i] = posted[i]
  <2>1. /\ Len(out) = p + Len(lineCh)
        /\ \A i \in 1..p + Len(lineCh) :
             out[i] = IF i <= p THEN posted[i] ELSE lineCh[i - p]
    BY <1>2, ConcatProperties DEF out
  <2>2. p + 1 \in 1..p + Len(lineCh) /\ ~(p + 1 <= p) /\ (p + 1) - p = 1
    BY <1>2
  <2>3. \A i \in 1..p : i \in 1..p + Len(lineCh) /\ i <= p
    BY <1>2
  <2> QED BY <1>3, <2>1, <2>2, <2>3
<1>5. p + 1 \in 1..Len(out)
  BY <1>2, <1>4
<1>6. log[y].kind = "event" /\ ~OutOfReach(y)
  BY <1>4, <1>5 DEF OrderInv, TailInv, OutInv, ScopeInv, ReachInv
<1>7. log[y].stream \in 1..stream /\ log[y].stream \notin garbled
  <2>1. log[y].stream <= stream /\ log[y].stream # 0 /\ log[y].stream \notin garbled
    BY <1>6 DEF OutOfReach, ScopeInv, StreamsInv
  <2> QED BY <1>2, <2>1
<1>8. ASSUME p # 0
      PROVE  Feed!Follows(EventId(log, posted[p]), EventId(log, y))
  <2>1. PICK x \in 1..N : x = posted[p] /\ x = out[p]
    <3>1. p \in 1..Len(posted)
      BY <1>2, <1>8
    <3> QED BY <1>2, <1>4, <3>1, ElementOfSeq
  <2>2. x < y /\ (~ctxDone => Clear(x, y))
    <3>1. p + 1 # 1 /\ (p + 1) - 1 = p
      BY <1>2, <1>8
    <3>2. Before(p + 1) = x
      BY <2>1, <3>1 DEF Before
    <3> QED BY <1>4, <1>5, <3>2 DEF OrderInv, TailInv, OutInv
  <2>3. log[x].stream <= log[y].stream
    <3>1. x \in 1..y
      BY <2>2
    <3> QED BY <1>6, <3>1 DEF ScopeInv, StreamsInv, OutOfReach
  <2>4. CASE log[x].stream # log[y].stream
    <3>1. /\ EventId(log, x).boot < EventId(log, y).boot
          /\ EventId(log, x).boot # EventId(log, y).boot
      BY <1>2, <2>3, <2>4 DEF EventId
    <3> QED BY <2>1, <3>1 DEF Feed!Follows, Feed!Before
  <2>5. CASE log[x].stream = log[y].stream
    <3>1. /\ EventId(log, x).boot = EventId(log, y).boot
          /\ EventId(log, x).seq < EventId(log, y).seq
          /\ (\A i \in x + 1 .. y - 1 :
                ~(log[i].kind = "event" /\ log[i].stream = log[y].stream))
               => EventId(log, y).seq = EventId(log, x).seq + 1
      BY <1>6, <2>2, <2>5, RankOrder
    <3>2. ASSUME ~ctxDone, NEW i \in x + 1 .. y - 1, log[i].kind = "event",
                 log[i].stream = log[y].stream
          PROVE  FALSE
      <4>1. OutOfReach(i)
        BY <2>2, <3>2 DEF Clear
      <4>2. \A l \in 1..(i - 1) : l \in 1..(y - 1)
        BY <1>2
      <4> QED BY <1>6, <3>2, <4>1, <4>2 DEF OutOfReach
    <3>3. ctxDone \/ EventId(log, y).seq = EventId(log, x).seq + 1
      BY <3>1, <3>2
    <3> QED BY <2>1, <3>1, <3>3 DEF Feed!Follows, Feed!Before
  <2> QED BY <2>4, <2>5
<1>9. /\ IdsOf(log, posted') = Append(IdsOf(log, posted), EventId(log, y))
      /\ Len(IdsOf(log, posted)) = p
      /\ \A i \in 1..p : IdsOf(log, posted)[i] = EventId(log, posted[i])
      /\ IdsOf(log, posted) # <<>> => p # 0
  <2>1. p = 0 => IdsOf(log, posted) = <<>>
    BY IdsEmpty
  <2>2. /\ IdsOf(log, Append(posted, y)) = Append(IdsOf(log, posted), EventId(log, y))
        /\ Len(IdsOf(log, posted)) = Len(posted)
        /\ \A i \in 1..Len(posted) : IdsOf(log, posted)[i] = EventId(log, posted[i])
    BY <1>2, IdsAppend
  <2>3. posted' = Append(posted, y)
    BY <1>1, <1>3
  <2> QED BY <2>1, <2>2, <2>3
<1>10. IdsOf(log, posted) # <<>> =>
         Feed!Follows(IdsOf(log, posted)[Len(IdsOf(log, posted))], EventId(log, y))
  <2> SUFFICES ASSUME p # 0
               PROVE  Feed!Follows(IdsOf(log, posted)[p], EventId(log, y))
    BY <1>9
  <2>1. p \in 1..p
    BY <1>2
  <2> QED BY <1>8, <1>9, <2>1
<1>11. PICK b \in Nat, r \in Nat :
         /\ EventId(log, y) = [boot |-> b, seq |-> r]
         /\ b \in 1..(stream + 1) /\ r \in 1..Counts(log)[b]
  <2> DEFINE s == log[y].stream
             r == Cardinality(Carried(log, s, y))
  <2>1. EventId(log, y) = [boot |-> s + 1, seq |-> r]
    BY DEF EventId
  <2>2. s + 1 \in 1..(stream + 1) /\ s + 1 \in 1..(MaxStreams + 1) /\ s + 1 # 1
        /\ (s + 1) - 1 = s
    BY <1>2, <1>7
  <2>3. Counts(log)[s + 1] = Cardinality(Carried(log, s, N))
    BY <2>2 DEF Counts
  <2>4. r <= Cardinality(Carried(log, s, N)) /\ r \in Nat
        /\ Cardinality(Carried(log, s, N)) \in Nat
    BY <1>2, CarriedMore, CarriedFinite
  <2>5. r >= 1
    <3>1. y - 1 \in Nat /\ (y - 1) + 1 = y
      OBVIOUS
    <3>2. r = Cardinality(Carried(log, s, y - 1)) + 1
      BY <1>6, <3>1, CarriedAdds
    <3>3. Cardinality(Carried(log, s, y - 1)) \in Nat
      BY <3>1, CarriedFinite
    <3> HIDE DEF r
    <3> QED BY <3>2, <3>3
  <2> HIDE DEF r
  <2>6. r \in 1..Counts(log)[s + 1]
    BY <2>3, <2>4, <2>5
  <2> QED BY <2>1, <2>2, <2>4, <2>6
<1>12. /\ IdsOf(log, posted) # <<>> =>
            Feed!Follows(IdsOf(log, posted)[Len(IdsOf(log, posted))],
                         [boot |-> b, seq |-> r])
       /\ IdsOf(log, posted') = Append(IdsOf(log, posted), [boot |-> b, seq |-> r])
  BY <1>9, <1>10, <1>11
<1>13. /\ IdsOf(log', posted') = IdsOf(log, posted')
       /\ stream' = stream /\ ctxDone' = ctxDone /\ Counts(log') = Counts(log)
  BY <1>1
<1> QED BY <1>11, <1>12, <1>13 DEF Feed!FeedDeliver, IdsOf, Counts

LEMMA NextFeed ==
  ASSUME OrderInv, ScopeInv, [Next]_vars
  PROVE  [Feed!FeedNext]_(Feed!feedVars)
<1> USE DEF Feed!FeedNext
<1>1. TypeInv
  BY DEF OrderInv
<1>2. ASSUME NEW kind \in Kinds, ConsoleLine(kind)
      PROVE  Feed!FeedNext \/ UNCHANGED Feed!feedVars
  BY <1>1, <1>2, ConsoleLineFeed
<1>3. CASE Open
  BY <1>1, <1>3, OpenFeed
<1>4. CASE Receive
  BY <1>4, ReceiveFeed
<1>5. CASE Cancel
  <2>1. UNCHANGED <<log, stream, posted>> /\ ctxDone' = TRUE
    BY <1>5 DEF Cancel, dockerVars
  <2> QED BY <2>1 DEF Feed!FeedStop
<1>6. CASE UNCHANGED <<log, stream, posted, ctxDone>>
  BY <1>6 DEF Feed!feedVars
<1>7. CASE ContainerStop \/ ContainerStart \/ StreamBreaks
  BY <1>6, <1>7 DEF ContainerStop, ContainerStart, StreamBreaks, tailVars
<1>8. CASE OpenFails \/ Inspect \/ ScanPipe \/ ScanRaw \/ ScanEnd \/ Send
  BY <1>6, <1>8 DEF OpenFails, Inspect, ScanPipe, ScanRaw, ScanEnd, Send, dockerVars
<1>9. CASE \/ Return \/ Backoff \/ CopyRead \/ CopyEnd \/ ReceiverStop
           \/ UNCHANGED vars
  BY <1>6, <1>9
     DEF Return, Backoff, CopyRead, CopyEnd, ReceiverStop, vars, dockerVars, tailVars
<1> QED BY <1>2, <1>3, <1>4, <1>5, <1>7, <1>8, <1>9 DEF Next, DockerNext

\* Docker, the scanner, the pipe and lineCh together keep the promise of
\* EventFeed, a log stream in the place of a life of the plugin, for every
\* capacity, bound and fault.
THEOREM TailImplementsFeed == Spec => ImplementsFeed
<1>1. OrderInv /\ ScopeInv /\ [Next]_vars => [Feed!FeedNext]_(Feed!feedVars)
  BY NextFeed
<1> QED BY <1>1, ReachInvariant, InitFeed, PTL DEF Spec, ImplementsFeed, Feed!FeedSpec

=============================================================================
