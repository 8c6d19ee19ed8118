------------------------------ MODULE LogTailer ------------------------------
(***************************************************************************)
(* The fallback event source (logtailer.go): LogTailer.Start keeps a       *)
(* following Docker log stream open and puts the events it finds on        *)
(* lineCh, from where MCClient.receiveLoop takes them.  For a container    *)
(* without a TTY a second goroutine demultiplexes the stream into an       *)
(* io.Pipe; a Write to the pipe returns only when the scanner has read it. *)
(*                                                                         *)
(* A line is its number in the console's output; what it is (an event, a   *)
(* line no pattern matches, a line longer than the scanner's 1 MB) and     *)
(* which log stream carried it is kept in `log`.                           *)
(***************************************************************************)
EXTENDS Naturals, Sequences, FiniteSets

CONSTANTS
  LineCap,      \* capacity of lineCh
  MaxLines,     \* bound: lines the console prints
  MaxStreams,   \* bound: log streams opened
  MaxFaults     \* bound: stops and starts of the container, Docker errors

ASSUME TailAssumption == /\ LineCap \in Nat \ {0}
                         /\ MaxLines \in Nat
                         /\ MaxStreams \in Nat
                         /\ MaxFaults \in Nat

VARIABLES
  running,      \* the container runs
  tty,          \* it was created with a TTY
  log,          \* log[n]: kind of line n and the stream it went to (0: none)
  src,          \* lines in the open log stream not yet read
  ended,        \* nothing more will come on the open log stream
  garbled,      \* streams of a TTY container read as if multiplexed
  faults

VARIABLES
  pc,           \* where Start and tail stand
  stream,       \* number of the log stream opened last
  mux,          \* tail demultiplexes
  copier,       \* the StdCopy goroutine
  inHand,       \* the line it is writing to the pipe
  held,         \* the matched line tail is sending
  lineCh,
  receiver,     \* receiveLoop is running
  ctxDone,      \* srvCtx is cancelled
  posted        \* what receiveLoop has handed on, in order

dockerVars == <<running, tty, log, src, ended, garbled, faults>>
tailVars == <<pc, stream, mux, copier, inHand, held, lineCh, receiver, ctxDone,
              posted>>
vars == <<dockerVars, tailVars>>

Kinds == {"event", "noise", "long"}
Lines == 1..MaxLines

Init ==
  /\ running \in BOOLEAN
  /\ tty \in BOOLEAN
  /\ log = <<>>
  /\ src = <<>>
  /\ ended = FALSE
  /\ garbled = {}
  /\ faults = 0
  /\ pc = "open"
  /\ stream = 0
  /\ mux = FALSE
  /\ copier = "none"
  /\ inHand = 0
  /\ held = 0
  /\ lineCh = <<>>
  /\ receiver = TRUE
  /\ ctxDone = FALSE
  /\ posted = <<>>

-----------------------------------------------------------------------------
(* The container and the Docker daemon.                                    *)

Attached == pc \in {"inspect", "scan", "send", "drain"} /\ ~ended

\* The console prints a line; an open stream carries it.
ConsoleLine(kind) ==
  /\ running
  /\ Len(log) < MaxLines
  /\ log' = Append(log, [kind |-> kind, stream |-> IF Attached THEN stream ELSE 0])
  /\ src' = IF Attached THEN Append(src, Len(log) + 1) ELSE src
  /\ UNCHANGED <<running, tty, ended, garbled, faults, tailVars>>

ContainerStop ==
  /\ running
  /\ faults < MaxFaults
  /\ running' = FALSE
  /\ ended' = TRUE
  /\ faults' = faults + 1
  /\ UNCHANGED <<tty, log, src, garbled, tailVars>>

ContainerStart ==
  /\ ~running
  /\ faults < MaxFaults
  /\ running' = TRUE
  /\ faults' = faults + 1
  /\ UNCHANGED <<tty, log, src, ended, garbled, tailVars>>

\* The daemon closes the stream of a running container.
StreamBreaks ==
  /\ Attached
  /\ faults < MaxFaults
  /\ ended' = TRUE
  /\ faults' = faults + 1
  /\ UNCHANGED <<running, tty, log, src, garbled, tailVars>>

DockerNext == \/ \E kind \in Kinds : ConsoleLine(kind)
              \/ ContainerStop \/ ContainerStart \/ StreamBreaks

-----------------------------------------------------------------------------
(* Start and tail.                                                         *)

\* ContainerLogs with Tail "0": the stream starts with the next line.  That
\* of a stopped container is at its end.
Open ==
  /\ pc = "open"
  /\ ~ctxDone
  /\ stream < MaxStreams
  /\ stream' = stream + 1
  /\ src' = <<>>
  /\ ended' = ~running
  /\ pc' = "inspect"
  /\ UNCHANGED <<running, tty, log, garbled, faults, mux, copier, inHand, held,
                 lineCh, receiver, ctxDone, posted>>

\* ContainerLogs returns an error.
OpenFails ==
  /\ pc = "open"
  /\ \/ ctxDone /\ faults' = faults
     \/ faults < MaxFaults /\ faults' = faults + 1
  /\ pc' = IF ctxDone THEN "done" ELSE "backoff"
  /\ UNCHANGED <<running, tty, log, src, ended, garbled, stream, mux, copier,
                 inHand, held, lineCh, receiver, ctxDone, posted>>

\* ContainerInspect; when it fails the container is taken to have no TTY.
Inspect ==
  /\ pc = "inspect"
  /\ \/ mux' = ~tty /\ faults' = faults
     \/ mux' = TRUE /\ ctxDone /\ faults' = faults
     \/ mux' = TRUE /\ faults < MaxFaults /\ faults' = faults + 1
  /\ copier' = IF mux' THEN "read" ELSE "none"
  /\ garbled' = IF mux' /\ tty THEN garbled \cup {stream} ELSE garbled
  /\ pc' = "scan"
  /\ UNCHANGED <<running, tty, log, src, ended, stream, inHand, held, lineCh,
                 receiver, ctxDone, posted>>

\* What the loop does with line n: an event is sent, a line over the buffer
\* size ends the scan, any other line is passed over.
Take(n) ==
  /\ held' = IF log[n].kind = "event" THEN n ELSE held
  /\ pc' = CASE log[n].kind = "event" -> "send"
             [] log[n].kind = "noise" -> "scan"
             [] log[n].kind = "long"  -> "drain"

\* Scan on the pipe: the copier's Write returns, unless the line is too long
\* and the rest of it stays unread.
ScanPipe ==
  /\ pc = "scan"
  /\ mux
  /\ copier = "write"
  /\ Take(inHand)
  /\ copier' = IF log[inHand].kind = "long" THEN "write" ELSE "read"
  /\ inHand' = IF log[inHand].kind = "long" THEN inHand ELSE 0
  /\ UNCHANGED <<dockerVars, stream, mux, lineCh, receiver, ctxDone, posted>>

\* Scan on the raw stream of a TTY.
ScanRaw ==
  /\ pc = "scan"
  /\ ~mux
  /\ src # <<>>
  /\ Take(Head(src))
  /\ src' = Tail(src)
  /\ UNCHANGED <<running, tty, log, ended, garbled, faults, stream, mux, copier,
                 inHand, lineCh, receiver, ctxDone, posted>>

\* Scan returns false: the pipe is closed, or the raw stream is at its end or
\* cancelled.
ScanEnd ==
  /\ pc = "scan"
  /\ IF mux THEN copier = "done" ELSE ctxDone \/ (src = <<>> /\ ended)
  /\ pc' = "drain"
  /\ UNCHANGED <<dockerVars, stream, mux, copier, inHand, held, lineCh, receiver,
                 ctxDone, posted>>

\* Mutant of Send: the channel is taken to have one place more.
SendOverfull ==
  /\ pc = "send"
  /\ \/ Len(lineCh) <= LineCap /\ lineCh' = Append(lineCh, held) /\ pc' = "scan"
     \/ ctxDone /\ lineCh' = lineCh /\ pc' = "drain"
  /\ held' = 0
  /\ UNCHANGED <<dockerVars, stream, mux, copier, inHand, receiver, ctxDone,
                 posted>>

\* Mutant of Send: a full channel is treated as "drop the line".
SendDrops ==
  /\ pc = "send"
  /\ lineCh' = IF Len(lineCh) < LineCap THEN Append(lineCh, held) ELSE lineCh
  /\ pc' = "scan"
  /\ held' = 0
  /\ UNCHANGED <<dockerVars, stream, mux, copier, inHand, receiver, ctxDone,
                 posted>>

\* Mutant of Send: a bare send, without the select on the context.
SendBlocks ==
  /\ pc = "send"
  /\ Len(lineCh) < LineCap
  /\ lineCh' = Append(lineCh, held)
  /\ pc' = "scan"
  /\ held' = 0
  /\ UNCHANGED <<dockerVars, stream, mux, copier, inHand, receiver, ctxDone,
                 posted>>

\* lineCh <- *cl, or return when the context is cancelled.
Send ==
  /\ pc = "send"
  /\ \/ Len(lineCh) < LineCap /\ lineCh' = Append(lineCh, held) /\ pc' = "scan"
     \/ ctxDone /\ lineCh' = lineCh /\ pc' = "drain"
  /\ held' = 0
  /\ UNCHANGED <<dockerVars, stream, mux, copier, inHand, receiver, ctxDone,
                 posted>>

\* Mutant of Return: the loop ends with the first stream that ends.
ReturnForGood ==
  /\ pc = "drain"
  /\ copier \in {"none", "done"}
  /\ copier' = "none"
  /\ src' = <<>>
  /\ ended' = TRUE
  /\ pc' = "done"
  /\ UNCHANGED <<running, tty, log, garbled, faults, stream, mux, inHand, held,
                 lineCh, receiver, ctxDone, posted>>

\* tail returns: wg.Wait() first, then reader.Close().
Return ==
  /\ pc = "drain"
  /\ copier \in {"none", "done"}
  /\ copier' = "none"
  /\ src' = <<>>
  /\ ended' = TRUE
  /\ pc' = IF ctxDone THEN "done" ELSE "backoff"
  /\ UNCHANGED <<running, tty, log, garbled, faults, stream, mux, inHand, held,
                 lineCh, receiver, ctxDone, posted>>

\* The wait between two attempts.
Backoff ==
  /\ pc = "backoff"
  /\ pc' \in IF ctxDone THEN {"done", "open"} ELSE {"open"}
  /\ UNCHANGED <<dockerVars, stream, mux, copier, inHand, held, lineCh, receiver,
                 ctxDone, posted>>

TailStep == \/ Open \/ Inspect \/ ScanPipe \/ ScanRaw \/ ScanEnd \/ Send
            \/ Return \/ Backoff \/ (OpenFails /\ ctxDone)

-----------------------------------------------------------------------------
(* The StdCopy goroutine.                                                  *)

\* Mutant of CopyRead: a frame read while the pipe's reader is busy is lost.
CopyReadAgain ==
  /\ copier \in {"read", "write"}
  /\ src # <<>>
  /\ IF tty
       THEN copier' = "done" /\ UNCHANGED <<src, inHand>>
       ELSE /\ copier' = "write"
            /\ inHand' = Head(src)
            /\ src' = Tail(src)
  /\ UNCHANGED <<running, tty, log, ended, garbled, faults, pc, stream, mux, held,
                 lineCh, receiver, ctxDone, posted>>

\* It reads a frame and starts writing it to the pipe; the raw output of a
\* TTY has no frame header, which ends it.
CopyRead ==
  /\ copier = "read"
  /\ src # <<>>
  /\ IF tty
       THEN copier' = "done" /\ UNCHANGED <<src, inHand>>
       ELSE /\ copier' = "write"
            /\ inHand' = Head(src)
            /\ src' = Tail(src)
  /\ UNCHANGED <<running, tty, log, ended, garbled, faults, pc, stream, mux, held,
                 lineCh, receiver, ctxDone, posted>>

\* The stream ends or the cancelled request fails the read: pw.Close().
CopyEnd ==
  /\ copier = "read"
  /\ ctxDone \/ (src = <<>> /\ ended)
  /\ copier' = "done"
  /\ UNCHANGED <<dockerVars, pc, stream, mux, inHand, held, lineCh, receiver,
                 ctxDone, posted>>

-----------------------------------------------------------------------------
(* receiveLoop and the context.                                            *)

Receive ==
  /\ receiver
  /\ lineCh # <<>>
  /\ posted' = Append(posted, Head(lineCh))
  /\ lineCh' = Tail(lineCh)
  /\ UNCHANGED <<dockerVars, pc, stream, mux, copier, inHand, held, receiver,
                 ctxDone>>

ReceiverStop ==
  /\ receiver
  /\ ctxDone
  /\ receiver' = FALSE
  /\ UNCHANGED <<dockerVars, pc, stream, mux, copier, inHand, held, lineCh,
                 ctxDone, posted>>

Cancel ==
  /\ ~ctxDone
  /\ ctxDone' = TRUE
  /\ UNCHANGED <<dockerVars, pc, stream, mux, copier, inHand, held, lineCh,
                 receiver, posted>>

-----------------------------------------------------------------------------
Next ==
  \/ DockerNext
  \/ Open \/ OpenFails \/ Inspect \/ ScanPipe \/ ScanRaw \/ ScanEnd \/ Send
  \/ Return \/ Backoff
  \/ CopyRead \/ CopyEnd
  \/ Receive \/ ReceiverStop
  \/ Cancel

Spec == Init /\ [][Next]_vars

\* The three goroutines keep running; a blocked Write or channel send is a
\* step that is not enabled.
Fairness == /\ WF_vars(TailStep)
            /\ WF_vars(CopyRead \/ CopyEnd)
            /\ WF_vars(Receive)
            /\ WF_vars(ReceiverStop)

FairSpec == Spec /\ Fairness

-----------------------------------------------------------------------------
(* Properties.                                                             *)

\* Types; a line in hand or being sent is one the console printed.
TypeOK ==
  /\ running \in BOOLEAN /\ tty \in BOOLEAN /\ ended \in BOOLEAN
  /\ log \in Seq([kind : Kinds, stream : 0..MaxStreams])
  /\ src \in Seq(1..Len(log))
  /\ garbled \subseteq 1..MaxStreams
  /\ faults \in 0..MaxFaults
  /\ pc \in {"open", "inspect", "scan", "send", "drain", "backoff", "done"}
  /\ stream \in 0..MaxStreams
  /\ mux \in BOOLEAN
  /\ copier \in {"none", "read", "write", "done"}
  /\ inHand \in 0..Len(log)
  /\ held \in 0..Len(log)
  /\ lineCh \in Seq(1..Len(log)) /\ Len(lineCh) <= LineCap
  /\ receiver \in BOOLEAN /\ ctxDone \in BOOLEAN
  /\ posted \in Seq(1..Len(log))

\* A line no part of the tailer could deliver: nothing was attached when it
\* was printed, an over-long line had ended its stream's scan, or its stream
\* was read in the wrong mode.
OutOfReach(n) ==
  \/ log[n].stream = 0
  \/ \E l \in 1..(n - 1) : log[l].kind = "long" /\ log[l].stream = log[n].stream
  \/ log[n].stream \in garbled

\* Matrix sees the events of the console in order, each once, those in reach
\* and no other, however the two goroutines and the full channel interleave.
TailedInOrder ==
  \A i \in 1..Len(posted) :
    LET from == IF i = 1 THEN 0 ELSE posted[i - 1] IN
      /\ from < posted[i]
      /\ log[posted[i]].kind = "event" /\ ~OutOfReach(posted[i])
      /\ ~ctxDone =>
           \A n \in from + 1 .. posted[i] - 1 :
             log[n].kind = "event" => OutOfReach(n)

\* The copier is stuck in its Write: tail waits for it in wg.Wait() and no
\* longer reads the pipe.
Stuck == pc = "drain" /\ copier = "write"

\* The events among the first n lines of a log that log stream s carried.
Carried(lines, s, n) ==
  {m \in 1..n : lines[m].kind = "event" /\ lines[m].stream = s}

\* Number of a carried event: its stream, and its place in that stream.  The
\* feed starts in its first life, the tailer before its first stream.
EventId(lines, n) ==
  [boot |-> lines[n].stream + 1,
   seq |-> Cardinality(Carried(lines, lines[n].stream, n))]

\* What is promised to the rest of the bridge, a log stream in the place of a
\* life of the plugin; in a stream nothing is ever passed over.
Feed == INSTANCE EventFeed WITH
          MaxBoot <- MaxStreams + 1,
          Retention <- MaxLines + 1,
          boot <- stream + 1,
          published <- [b \in 1..(MaxStreams + 1) |->
                          IF b = 1 THEN 0
                          ELSE Cardinality(Carried(log, b - 1, Len(log)))],
          delivered <- [i \in 1..Len(posted) |-> EventId(log, posted[i])],
          stopped <- ctxDone

\* The fallback keeps the promise of the plugin's stream, but for what happens
\* between two log streams: between two events of one stream that Matrix sees
\* none is missing, whatever the pipe, the channel, over-long lines and wrong
\* modes do.
ImplementsFeed == Feed!FeedSpec

\* A cancelled tailer ends, unless the copier was in the middle of a Write.
CancelEndsOrSticks == ctxDone ~> (pc = "done" \/ Stuck)

\* "Has internal retry logic" (logtailer.go:132): whatever ends a stream, the
\* next one is opened, as long as the copier is not stuck in its Write.
Retries ==
  \A s \in 1..(MaxStreams - 1) :
    (stream = s /\ ended) ~> (stream > s \/ ctxDone \/ Stuck)

\* "Runs until ctx is cancelled" (logtailer.go:132).
CancelEnds == ctxDone ~> pc = "done"

=============================================================================
