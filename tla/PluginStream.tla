---------------------------- MODULE PluginStream ----------------------------
(***************************************************************************)
(* The bridge's side of the event stream (pluginstream.go) joined to the   *)
(* plugin's side (EventServer): the goroutine running PluginStream.Start,  *)
(* the channel lineCh, and MCClient.receiveLoop, which takes lines from it *)
(* and queues them to Matrix (posted).  Both goroutines run under the      *)
(* server's context; ctxDone is its cancellation.                          *)
(*                                                                         *)
(* Every event here is one that dispatch can decode (an unknown one only   *)
(* moves lastID).  Delays (backoff, idle timeout) are not measured: a      *)
(* timer may fire whenever the code has it armed.                          *)
(***************************************************************************)
EXTENDS EventServer

CONSTANTS
  LineCap,      \* capacity of lineCh (64 in startServer)
  MaxFaults     \* bound: connections lost to the network or to a timer

ASSUME LineAssumption == LineCap \in Nat \ {0} /\ MaxFaults \in Nat

VARIABLES
  bpc,          \* where Start and stream stand
  lastID,       \* Start's lastID
  partial,      \* stream's id and data, between the lines of one event
  lineCh,       \* mcServer.lineCh
  receiver,     \* receiveLoop is running
  ctxDone,      \* srvCtx is cancelled
  posted,       \* what receiveLoop has handed on, in order
  faults        \* faults so far

streamVars == <<bpc, lastID, partial, lineCh, receiver, ctxDone, posted, faults>>
vars == <<serverVars, linkVars, streamVars>>

Phases == {"backoff", "dial", "read", "dispatch", "done"}

Init ==
  /\ ServerInit
  /\ LinkInit
  /\ bpc = "backoff"
  /\ lastID = NoId
  /\ partial = NoId
  /\ lineCh = <<>>
  /\ receiver = TRUE
  /\ ctxDone = FALSE
  /\ posted = <<>>
  /\ faults = 0

-----------------------------------------------------------------------------
(* Start and stream.                                                       *)

\* stream() opens a connection and sends the request, with the last id seen
\* if there is one.  A refused dial is no step: the loop stays in backoff.
Dial ==
  /\ bpc = "backoff"
  /\ ~ctxDone
  /\ \E c \in Conns :
       /\ handler[c] = "free"
       /\ handler' = [handler EXCEPT ![c] = "request"]
       /\ resume' = [resume EXCEPT ![c] = lastID]
       /\ conn' = c
  /\ up' = TRUE
  /\ status' = "none"
  /\ wire' = <<>>
  /\ torn' = NoId
  /\ bpc' = "dial"
  /\ UNCHANGED <<boot, seq, history, clients, queue, overflowed, held, lastID,
                 partial, lineCh, receiver, ctxDone, posted, faults>>

\* client.Do returns 200.
Connected ==
  /\ bpc = "dial"
  /\ status = "ok"
  /\ bpc' = "read"
  /\ UNCHANGED <<serverVars, linkVars, lastID, partial, lineCh, receiver,
                 ctxDone, posted, faults>>

\* stream() returns: the body is closed, its locals are gone, and Start ends
\* or waits for the next attempt.
Hangup ==
  /\ conn' = NoConn
  /\ up' = FALSE
  /\ status' = "none"
  /\ wire' = <<>>
  /\ torn' = NoId
  /\ partial' = NoId
  /\ bpc' = IF ctxDone THEN "done" ELSE "backoff"
  /\ UNCHANGED <<serverVars, lastID, lineCh, receiver, ctxDone, posted>>

\* client.Do returns an error or a status other than 200.
DialError ==
  /\ bpc = "dial"
  /\ status = "busy" \/ ~up
  /\ Hangup
  /\ faults' = faults

\* ResponseHeaderTimeout: the request is there, the answer is late.
HeaderTimeout ==
  /\ bpc = "dial"
  /\ up
  /\ faults < MaxFaults
  /\ Hangup
  /\ faults' = faults + 1

\* The id, data and blank lines of one event.
ReadEvent ==
  /\ bpc = "read"
  /\ wire # <<>>
  /\ partial' = Head(wire)
  /\ wire' = Tail(wire)
  /\ bpc' = "dispatch"
  /\ UNCHANGED <<serverVars, conn, up, status, torn, lastID, lineCh, receiver,
                 ctxDone, posted, faults>>

\* Mutant of ReadTorn: lastID moves on the id line, not after dispatch.
ReadTornAdvances ==
  /\ bpc = "read"
  /\ wire = <<>>
  /\ torn # NoId
  /\ partial' = torn
  /\ lastID' = torn
  /\ torn' = NoId
  /\ UNCHANGED <<serverVars, conn, up, status, wire, bpc, lineCh, receiver,
                 ctxDone, posted, faults>>

\* The id and data lines of an event whose blank line never comes.
ReadTorn ==
  /\ bpc = "read"
  /\ wire = <<>>
  /\ torn # NoId
  /\ partial' = torn
  /\ torn' = NoId
  /\ UNCHANGED <<serverVars, conn, up, status, wire, bpc, lastID, lineCh,
                 receiver, ctxDone, posted, faults>>

\* Mutant of Dispatch: a bare send, without the select on the context.
DispatchBlocks ==
  /\ bpc = "dispatch"
  /\ Len(lineCh) < LineCap
  /\ lineCh' = Append(lineCh, partial)
  /\ lastID' = partial
  /\ partial' = NoId
  /\ bpc' = "read"
  /\ UNCHANGED <<serverVars, linkVars, receiver, ctxDone, posted, faults>>

\* dispatch() and *lastID = id.  The send waits for room; once the context
\* is cancelled the select may drop the line instead.
Dispatch ==
  /\ bpc = "dispatch"
  /\ \/ Len(lineCh) < LineCap /\ lineCh' = Append(lineCh, partial)
     \/ ctxDone /\ lineCh' = lineCh
  /\ lastID' = partial
  /\ partial' = NoId
  /\ bpc' = "read"
  /\ UNCHANGED <<serverVars, linkVars, receiver, ctxDone, posted, faults>>

\* The scanner has drained what arrived, or the cancelled request fails the
\* read at once.
StreamEnd ==
  /\ bpc = "read"
  /\ ~up
  /\ ctxDone \/ (wire = <<>> /\ torn = NoId)
  /\ Hangup
  /\ faults' = faults

\* Start sees the cancellation while it waits for its backoff.
StopWaiting ==
  /\ bpc = "backoff"
  /\ ctxDone
  /\ bpc' = "done"
  /\ UNCHANGED <<serverVars, linkVars, lastID, partial, lineCh, receiver,
                 ctxDone, posted, faults>>

BridgeStep == \/ Dial \/ Connected \/ DialError \/ ReadEvent \/ ReadTorn
              \/ Dispatch \/ StreamEnd \/ StopWaiting

-----------------------------------------------------------------------------
(* The network, the idle timer and the context.                            *)

\* The connection breaks; of what is in flight a prefix arrives, its last
\* event possibly without the blank line.
CutAt(k) ==
  /\ wire' = SubSeq(wire, 1, k)
  /\ torn' \in IF k < Len(wire) THEN {NoId, wire[k + 1]} ELSE {torn}
  /\ up' = FALSE

Cut ==
  /\ bpc \in {"read", "dispatch"}
  /\ up
  /\ faults < MaxFaults
  /\ \E k \in 0..Len(wire) : CutAt(k)
  /\ faults' = faults + 1
  /\ UNCHANGED <<serverVars, conn, status, bpc, lastID, partial, lineCh,
                 receiver, ctxDone, posted>>

\* idle fires and cancels connCtx: the stream is silent, or dispatch has been
\* waiting for room in lineCh since the timer was last reset.
IdleTimeout ==
  /\ \/ bpc = "read" /\ wire = <<>>
     \/ bpc = "dispatch" /\ Len(lineCh) = LineCap
  /\ up
  /\ faults < MaxFaults
  /\ \E k \in 0..Len(wire) : CutAt(k)
  /\ faults' = faults + 1
  /\ UNCHANGED <<serverVars, conn, status, bpc, lastID, partial, lineCh,
                 receiver, ctxDone, posted>>

\* stopServer, Disconnect or a new Connect cancels the server's context.
Cancel ==
  /\ ~ctxDone
  /\ ctxDone' = TRUE
  /\ up' = FALSE
  /\ UNCHANGED <<serverVars, conn, status, wire, torn, bpc, lastID, partial,
                 lineCh, receiver, posted, faults>>

-----------------------------------------------------------------------------
(* receiveLoop.                                                            *)

Receive ==
  /\ receiver
  /\ lineCh # <<>>
  /\ posted' = Append(posted, Head(lineCh))
  /\ lineCh' = Tail(lineCh)
  /\ UNCHANGED <<serverVars, linkVars, bpc, lastID, partial, receiver, ctxDone,
                 faults>>

ReceiverStop ==
  /\ receiver
  /\ ctxDone
  /\ receiver' = FALSE
  /\ UNCHANGED <<serverVars, linkVars, bpc, lastID, partial, lineCh, ctxDone,
                 posted, faults>>

-----------------------------------------------------------------------------
Next ==
  \/ ServerNext /\ UNCHANGED streamVars
  \/ BridgeStep
  \/ HeaderTimeout
  \/ Cut
  \/ IdleTimeout
  \/ Cancel
  \/ Receive
  \/ ReceiverStop

Spec == Init /\ [][Next]_vars

\* Every goroutine and every handler thread keeps running.  A handler that
\* writes to a dead connection over and over is told in the end: TCP gives up
\* retransmitting and the write throws.
Fairness ==
  /\ \A c \in Conns : /\ WF_vars(HandlerStep(c) /\ UNCHANGED streamVars)
                      /\ SF_vars(WriteFails(c) /\ UNCHANGED streamVars)
  /\ WF_vars(BridgeStep)
  /\ WF_vars(Receive)
  /\ WF_vars(ReceiverStop)

FairSpec == Spec /\ Fairness

-----------------------------------------------------------------------------
(* Properties.                                                             *)

\* Types of the variables; the history, the queues and lineCh stay within
\* their capacities (EventServer.java:34-36, client.go:555).
TypeOK ==
  /\ ServerTypeOK
  /\ bpc \in Phases
  /\ lastID \in Ids
  /\ partial \in Ids
  /\ lineCh \in Seq(Ids) /\ Len(lineCh) <= LineCap
  /\ receiver \in BOOLEAN
  /\ ctxDone \in BOOLEAN
  /\ posted \in Seq(Ids)
  /\ faults \in Nat

\* Matrix sees the events of a server in the order the plugin published them
\* and none of them twice, across reconnects with replay, torn events,
\* overflowing queues and restarts of the plugin.
InOrder == Increasing(posted)

\* The events of boot b up to and including seq s are out of the history.
Evicted(b, s) == s + HistorySize <= seq[b]

\* Between two events of one boot that reached Matrix none is missing, unless
\* the history had lost it: the replay on reconnect closes every gap an
\* overflow, a cut or a timeout opens (pluginstream.go:90-92).
NoSilentGap ==
  ctxDone \/
  \A i \in 2..Len(posted) :
    LET x == posted[i - 1]
        y == posted[i]
    IN x.boot = y.boot => y.seq = x.seq + 1 \/ Evicted(y.boot, y.seq - 1)

\* The clients the plugin counts against MAX_CLIENTS are the requests being
\* served: no way out of handleEvents leaves its client behind.
ClientsAreServed ==
  clients = {c \in Conns : handler[c] \in {"headers", "check", "poll", "write"}}

\* What is promised to the rest of the bridge.
Feed == INSTANCE EventFeed WITH
          Retention <- HistorySize,
          published <- seq,
          delivered <- posted,
          stopped <- ctxDone

ImplementsFeed == Feed!FeedSpec

\* Once an event of the running boot has been delivered, every later event of
\* that boot is followed by its own arrival or a later event's: reconnects,
\* 503 answers while dead clients hold their slots, and drops of a slow client
\* delay the stream but never end it.
Arrived(s) == \E i \in 1..Len(posted) : posted[i].boot = boot /\ posted[i].seq >= s

KeepsUp ==
  \A s \in 2..MaxSeq :
    (seq[boot] >= s /\ lastID.boot = boot /\ lastID.seq < s)
      ~> (Arrived(s) \/ ctxDone \/ (lastID.boot # boot))

\* A client whose connection the bridge has left does not hold its slot
\* forever: the ping on an idle queue makes the write that finds it dead.
DeadClientsLeave ==
  \A c \in Conns : (c \in clients /\ ~Live(c)) ~> (c \notin clients \/ Live(c))

\* Cancelling the context ends both goroutines, also while dispatch waits
\* for room in lineCh ("until ctx is cancelled", pluginstream.go:90).
CancelStops == ctxDone ~> (bpc = "done" /\ ~receiver)

-----------------------------------------------------------------------------
(* The inductive invariant behind InOrder.  Every stage an event passes    *)
(* through on its way to Matrix is increasing and lies behind the stage    *)
(* before it: posted, lineCh, the event being dispatched, wire, held,      *)
(* queue; and nothing lies beyond the newest event published.              *)

AtMost(x, y) == x = y \/ Before(x, y)
UpTo(s, y) == \A i \in 1..Len(s) : AtMost(s[i], y)

\* The newest event taken off the wire for delivery.
Cursor == IF bpc = "dispatch" THEN partial ELSE lastID

DeliveredInv ==
  /\ Increasing(posted)
  /\ Increasing(lineCh)
  /\ Precedes(posted, lineCh)
  /\ UpTo(posted, lastID)
  /\ UpTo(lineCh, lastID)
  /\ bpc = "dispatch" => Before(lastID, partial)
  /\ AtMost(Cursor, Latest)

WireInv ==
  /\ Increasing(wire)
  /\ AllAfter(Cursor, wire)
  /\ UpTo(wire, Latest)

\* An id of the running boot that has been published.
Current(x) == x.boot = boot /\ x.seq <= seq[boot]

HistoryInv ==
  /\ Increasing(history)
  /\ \A i \in 1..Len(history) : Current(history[i])

\* What waits in the handler of c.
QueueInv(c) ==
  /\ Increasing(queue[c])
  /\ \A i \in 1..Len(queue[c]) : Current(queue[c][i])
  /\ held[c] # NoId => Current(held[c]) /\ AllAfter(held[c], queue[c])
  /\ handler[c] # "write" => held[c] = NoId
  /\ handler[c] \in {"free", "request", "register"} => queue[c] = <<>>
  /\ c \in clients <=> handler[c] \in {"headers", "check", "poll", "write"}

\* What the handler of the bridge's connection still has to send is new to
\* the bridge.
LiveInv(c) ==
  Live(c) =>
    /\ AllAfter(Cursor, queue[c])
    /\ Precedes(wire, queue[c])
    /\ held[c] # NoId => Before(Cursor, held[c]) /\ AllBefore(wire, held[c])
    /\ handler[c] \in {"request", "register"}
         => /\ bpc = "dial"
            /\ status = "none"
            /\ wire = <<>>
            /\ resume[c] = lastID

OrderInv ==
  /\ DeliveredInv
  /\ WireInv
  /\ HistoryInv
  /\ \A c \in Conns : QueueInv(c) /\ LiveInv(c)

-----------------------------------------------------------------------------
(* The inductive invariant behind NoSilentGap.  Read from Matrix back to   *)
(* the plugin, the stages form one chain in which every id meets the one   *)
(* before it, and the chain of the bridge's own connection ends at the     *)
(* newest event; only a client that has overflowed has a broken chain, and *)
(* its handler drops it before it sends what lies behind the break.        *)

\* The ids of the events that have been published.
PublishedIds == {x \in Ids : x.boot \in 1..boot /\ x.seq \in 1..seq[x.boot]}

PublishedInv ==
  /\ \A b \in Boots : b > boot => seq[b] = 0
  /\ posted \in Seq(PublishedIds)
  /\ lineCh \in Seq(PublishedIds)
  /\ bpc = "dispatch" => partial \in PublishedIds
  /\ wire \in Seq(PublishedIds)
  /\ history \in Seq(PublishedIds)
  /\ queue \in [Conns -> Seq(PublishedIds)]
  /\ held \in [Conns -> PublishedIds \cup {NoId}]

\* With p[b] events published in boot b, nothing that can still be replayed
\* lies between x and y.
Meets(p, x, y) ==
  x.boot = y.boot => y.seq = x.seq + 1 \/ y.seq - 1 + HistorySize <= p[y.boot]

\* The ids of s, in their order behind x, are such a chain.
Chain(p, x, s) ==
  \A i \in 1..Len(s) : Meets(p, IF i = 1 THEN x ELSE s[i - 1], s[i])

\* The last id of s behind x.
Ending(x, s) == IF s = <<>> THEN x ELSE s[Len(s)]

\* The history is the end of the running boot's events, and goes back to the
\* first one until it is full.
HistoryIsSuffix ==
  /\ Len(history) = seq[boot] \/ (Len(history) = HistorySize /\ HistorySize <= seq[boot])
  /\ \A i \in 1..Len(history) :
       history[i] = [boot |-> boot, seq |-> seq[boot] - Len(history) + i]

\* The newest id the handler of c has taken for the bridge.
Ahead(c) == IF held[c] # NoId THEN held[c] ELSE Ending(Cursor, wire)

\* With boot b running, nothing of it was published after x.
CaughtUp(b, p, x) == x.boot = b => x.seq = p[b]

\* The chain through the bridge.
BridgeChain ==
  /\ Chain(seq, NoId, posted)
  /\ Chain(seq, Ending(NoId, posted), lineCh)
  /\ lastID = Ending(Ending(NoId, posted), lineCh)
  /\ bpc = "dispatch" => Meets(seq, lastID, partial)
  /\ Chain(seq, Cursor, wire)

\* The chain through the handler of c, if the bridge listens to it.
HandlerChain(c) ==
  /\ c \notin clients => ~overflowed[c]
  /\ Live(c) /\ c \in clients =>
       /\ held[c] # NoId => Meets(seq, Ending(Cursor, wire), held[c])
       /\ ~overflowed[c] => /\ Chain(seq, Ahead(c), queue[c])
                            /\ CaughtUp(boot, seq, Ending(Ahead(c), queue[c]))
       /\ handler[c] = "poll" /\ overflowed[c]
            => queue[c] # <<>> /\ Meets(seq, Ahead(c), queue[c][1])

GapInv ==
  /\ PublishedInv
  /\ HistoryIsSuffix
  /\ ~ctxDone => BridgeChain /\ \A c \in Conns : HandlerChain(c)

=============================================================================
