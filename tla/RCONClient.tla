----------------------------- MODULE RCONClient -----------------------------
(***************************************************************************)
(* One server's RCON client (rcon.go) and the calls that share it:         *)
(* HandleMatrixMessage sends a message and reconnects first if it has to,  *)
(* startServer connects or reconnects, stopServer and Disconnect close.    *)
(* Dialling happens without the mutex; a command holds it until its reply. *)
(* A connection is its number; it belongs to one boot of the game server.  *)
(***************************************************************************)
EXTENDS Naturals, Sequences

CONSTANTS
  Callers,      \* the calls made to the client
  NoOne,        \* nobody holds the mutex
  MaxAttempts,  \* dial attempts of one Connect (10 in the code)
  MaxFaults     \* bound: restarts of the server, failed dials, lost replies

ASSUME RconAssumption == /\ NoOne \notin Callers
                         /\ MaxAttempts \in Nat \ {0}
                         /\ MaxFaults \in Nat

VARIABLES
  up,           \* the server accepts and answers RCON
  boot,         \* number of its current boot
  conns,        \* every connection dialled
  shown,        \* the messages players saw, in order
  faults,
  conn,         \* r.conn, 0 for nil
  mu,           \* who holds r.mu
  pc,
  role,         \* what the call is
  tries,        \* dial attempts of a call that failed
  mine,         \* the connection a call has dialled or is using
  result

serverVars == <<up, boot, shown>>
vars == <<serverVars, conns, faults, conn, mu, pc, role, tries, mine, result>>

Roles == {"message", "reconnect", "start", "stop"}

Init ==
  /\ up \in BOOLEAN
  /\ boot = 0
  /\ conns = <<>>
  /\ shown = <<>>
  /\ faults = 0
  /\ conn = 0
  /\ mu = NoOne
  /\ pc = [h \in Callers |-> "idle"]
  /\ role \in [Callers -> Roles]
  /\ tries = [h \in Callers |-> 0]
  /\ mine = [h \in Callers |-> 0]
  /\ result = [h \in Callers |-> "none"]

Step(h, from, to) ==
  /\ pc[h] = from
  /\ pc' = [pc EXCEPT ![h] = to]

Return(h, from, value) ==
  /\ Step(h, from, "done")
  /\ result' = [result EXCEPT ![h] = value]

Fault == faults < MaxFaults /\ faults' = faults + 1

\* The server at the other end of connection c still runs.
Answers(c) == up /\ conns[c].boot = boot

-----------------------------------------------------------------------------
(* The game server.                                                        *)

ServerStops ==
  /\ up
  /\ Fault
  /\ up' = FALSE
  /\ UNCHANGED <<boot, shown, conns, conn, mu, pc, role, tries, mine, result>>

ServerStarts ==
  /\ ~up
  /\ Fault
  /\ up' = TRUE
  /\ boot' = boot + 1
  /\ UNCHANGED <<shown, conns, conn, mu, pc, role, tries, mine, result>>

-----------------------------------------------------------------------------
(* Connecting.                                                             *)

\* startServer connects a new client without looking, stopServer closes, the
\* others ask first.
Begin(h) ==
  /\ Step(h, "idle", CASE role[h] = "start" -> "dial"
                       [] role[h] = "stop"  -> "disconnect"
                       [] OTHER             -> "check")
  /\ UNCHANGED <<serverVars, conns, faults, conn, mu, role, tries, mine, result>>

\* IsConnected, at a moment when nobody holds the mutex.
Connected(h) ==
  /\ mu = NoOne
  /\ conn # 0
  /\ IF role[h] = "message"
       THEN Step(h, "check", "lock") /\ UNCHANGED result
       ELSE Return(h, "check", "ok")
  /\ UNCHANGED <<serverVars, conns, faults, conn, mu, role, tries, mine>>

NotConnected(h) ==
  /\ mu = NoOne
  /\ conn = 0
  /\ Step(h, "check", "dial")
  /\ UNCHANGED <<serverVars, conns, faults, conn, mu, role, tries, mine, result>>

\* rcon.Dial
Dial(h) ==
  /\ Step(h, "dial", "assign")
  /\ up
  /\ conns' = Append(conns, [boot |-> boot, open |-> TRUE])
  /\ mine' = [mine EXCEPT ![h] = Len(conns')]
  /\ UNCHANGED <<serverVars, faults, conn, mu, role, tries, result>>

\* Mutant of DialFails: attempts are not counted.
DialFailsForever(h) ==
  /\ pc[h] = "dial"
  /\ (~up /\ faults' = faults) \/ Fault
  /\ tries' = [tries EXCEPT ![h] = 1 - @]
  /\ UNCHANGED <<serverVars, conns, conn, mu, pc, role, mine, result>>

\* Mutant of DialFails: one attempt too many.
DialFailsLate(h) ==
  /\ (~up /\ faults' = faults) \/ Fault
  /\ tries' = [tries EXCEPT ![h] = @ + 1]
  /\ IF tries'[h] <= MaxAttempts
       THEN Step(h, "dial", "dial") /\ UNCHANGED result
       ELSE Return(h, "dial", "error")
  /\ UNCHANGED <<serverVars, conns, conn, mu, role, mine>>

\* A failed attempt is followed by a wait and the next one, the last one by
\* an error.
DialFails(h) ==
  /\ (~up /\ faults' = faults) \/ Fault
  /\ tries' = [tries EXCEPT ![h] = @ + 1]
  /\ IF tries'[h] < MaxAttempts
       THEN Step(h, "dial", "dial") /\ UNCHANGED result
       ELSE Return(h, "dial", "error")
  /\ UNCHANGED <<serverVars, conns, conn, mu, role, mine>>

\* The caller's context is cancelled during the wait.
DialCancelled(h) ==
  /\ tries[h] > 0
  /\ Fault
  /\ Return(h, "dial", "error")
  /\ UNCHANGED <<serverVars, conns, conn, mu, role, tries, mine>>

\* What a Connect that has its connection goes on to.
HaveConn(h) ==
  /\ conn' = mine[h]
  /\ mine' = [mine EXCEPT ![h] = 0]
  /\ IF role[h] = "message"
       THEN Step(h, "assign", "lock") /\ UNCHANGED result
       ELSE Return(h, "assign", "ok")
  /\ UNCHANGED <<serverVars, conns, faults, mu, role, tries>>

\* Mutant of Assign: the field is written without the mutex.
AssignUnlocked(h) == HaveConn(h)

\* r.conn is set; the connection it held, if another call was faster, is not
\* closed.
Assign(h) == mu = NoOne /\ HaveConn(h)

-----------------------------------------------------------------------------
(* execute.                                                                *)

Lock(h) ==
  /\ mu = NoOne
  /\ conn # 0
  /\ Step(h, "lock", "execute")
  /\ mu' = h
  /\ mine' = [mine EXCEPT ![h] = conn]
  /\ UNCHANGED <<serverVars, conns, faults, conn, role, tries, result>>

\* Mutant of LockFails: no error when there is no connection.
LockFailsSilently(h) ==
  /\ mu = NoOne
  /\ conn = 0
  /\ Return(h, "lock", "ok")
  /\ UNCHANGED <<serverVars, conns, faults, conn, mu, role, tries, mine>>

\* "not connected to RCON"
LockFails(h) ==
  /\ mu = NoOne
  /\ conn = 0
  /\ Return(h, "lock", "error")
  /\ UNCHANGED <<serverVars, conns, faults, conn, mu, role, tries, mine>>

\* The command is written; a server that runs carries it out.
Execute(h) ==
  /\ Step(h, "execute", "reply")
  /\ shown' = IF Answers(conn) THEN Append(shown, h) ELSE shown
  /\ UNCHANGED <<up, boot, conns, faults, conn, mu, role, tries, mine, result>>

ReplyOk(h) ==
  /\ Return(h, "reply", "ok")
  /\ Answers(conn)
  /\ mu' = NoOne
  /\ mine' = [mine EXCEPT ![h] = 0]
  /\ UNCHANGED <<serverVars, conns, faults, conn, role, tries>>

\* Mutant of ReplyFails: the connection is closed but kept.
ReplyFailsKeeps(h) ==
  /\ Return(h, "reply", "error")
  /\ (~Answers(conn) /\ faults' = faults) \/ Fault
  /\ conns' = [conns EXCEPT ![conn].open = FALSE]
  /\ mu' = NoOne
  /\ mine' = [mine EXCEPT ![h] = 0]
  /\ UNCHANGED <<serverVars, conn, role, tries>>

\* The connection is broken or no reply comes in time: it is given up.
ReplyFails(h) ==
  /\ Return(h, "reply", "error")
  /\ (~Answers(conn) /\ faults' = faults) \/ Fault
  /\ conns' = [conns EXCEPT ![conn].open = FALSE]
  /\ conn' = 0
  /\ mu' = NoOne
  /\ mine' = [mine EXCEPT ![h] = 0]
  /\ UNCHANGED <<serverVars, role, tries>>

-----------------------------------------------------------------------------
Disconnect(h) ==
  /\ mu = NoOne
  /\ Return(h, "disconnect", "ok")
  /\ conns' = [c \in DOMAIN conns |->
                 IF c = conn THEN [conns[c] EXCEPT !.open = FALSE] ELSE conns[c]]
  /\ conn' = 0
  /\ UNCHANGED <<serverVars, faults, mu, role, tries, mine>>

-----------------------------------------------------------------------------
CallerStep(h) ==
  \/ Connected(h) \/ NotConnected(h)
  \/ Dial(h) \/ DialFails(h) \/ DialCancelled(h) \/ Assign(h)
  \/ Lock(h) \/ LockFails(h) \/ Execute(h) \/ ReplyOk(h) \/ ReplyFails(h)
  \/ Disconnect(h)

Next ==
  \/ ServerStops
  \/ ServerStarts
  \/ \E h \in Callers : Begin(h) \/ CallerStep(h)

Spec == Init /\ [][Next]_vars

\* As long as some call that has begun can go on, one does.
Fairness == WF_vars(\E h \in Callers : CallerStep(h))

FairSpec == Spec /\ Fairness

-----------------------------------------------------------------------------
(* Properties.                                                             *)

\* Types.
TypeOK ==
  /\ up \in BOOLEAN
  /\ boot \in 0..MaxFaults
  /\ conns \in Seq([boot : 0..MaxFaults, open : BOOLEAN])
  /\ shown \in Seq(Callers)
  /\ faults \in 0..MaxFaults
  /\ conn \in 0..Len(conns)
  /\ mu \in Callers \cup {NoOne}
  /\ pc \in [Callers -> {"idle", "check", "dial", "assign", "lock", "execute",
                         "reply", "disconnect", "done"}]
  /\ role \in [Callers -> Roles]
  /\ tries \in [Callers -> 0..MaxAttempts]
  /\ mine \in [Callers -> 0..Len(conns)]
  /\ result \in [Callers -> {"none", "ok", "error"}]

\* "gorcon/rcon is NOT thread-safe - always use the mutex" (rcon.go:15): the
\* connection of a command under way is used by no other call, and is neither
\* closed nor replaced before its reply, whatever calls race with it.
CommandOwnsConnection ==
  \A h \in Callers : pc[h] \in {"execute", "reply"} =>
    /\ mu = h
    /\ conn = mine[h] /\ conn # 0
    /\ conns[conn].open

\* r.conn is never a connection that was given up: what IsConnected answers
\* for is still open on this side.
ConnIsOpen == conn # 0 => conns[conn].open

\* A message Matrix is told was delivered was shown, and no message is shown
\* twice, even when the reply was lost or the connection made anew.
DeliveredIsShown ==
  /\ \A h \in Callers : role[h] = "message" /\ result[h] = "ok" =>
       \E i \in DOMAIN shown : shown[i] = h
  /\ \A i, j \in DOMAIN shown : shown[i] = shown[j] => i = j

\* Every call returns, with the server down as well as up.
CallsReturn == \A h \in Callers : pc[h] # "idle" ~> pc[h] = "done"

=============================================================================
