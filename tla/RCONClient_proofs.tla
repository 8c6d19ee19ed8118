--------------------------- MODULE RCONClient_proofs ---------------------------
(***************************************************************************)
(* Proofs about RCONClient, for every number of calls, of dial attempts    *)
(* and of faults.                                                          *)
(***************************************************************************)
EXTENDS RCONClient, SequenceTheorems, TLAPS

Conn == [boot : 0..MaxFaults, open : BOOLEAN]

States == {"idle", "check", "dial", "assign", "lock", "execute", "reply",
           "disconnect", "done"}

-----------------------------------------------------------------------------
(* What happens to the connections.                                        *)

\* A dialled connection is open and new; the others stay as they are.
LEMMA DialConn ==
  ASSUME conns \in Seq(Conn), boot \in 0..MaxFaults, NEW h \in Callers, Dial(h)
  PROVE  /\ conns' \in Seq(Conn)
         /\ Len(conns) \in Nat
         /\ Len(conns') = Len(conns) + 1
         /\ \A c \in 1..Len(conns) : conns'[c] = conns[c]
         /\ conns'[Len(conns')] = [boot |-> boot, open |-> TRUE]
<1>1. [boot |-> boot, open |-> TRUE] \in Conn
  BY DEF Conn
<1>2. conns' = Append(conns, [boot |-> boot, open |-> TRUE])
  BY DEF Dial
<1> QED BY <1>1, <1>2, AppendProperties, LenProperties

\* At most r.conn is closed.
Closing ==
  /\ conns' \in Seq(Conn)
  /\ Len(conns') = Len(conns)
  /\ \A c \in 1..Len(conns) : /\ conns'[c].boot = conns[c].boot
                              /\ c # conn => conns'[c] = conns[c]

LEMMA ReplyFailsCloses ==
  ASSUME conns \in Seq(Conn), conn \in 1..Len(conns), NEW h \in Callers,
         ReplyFails(h)
  PROVE  Closing
<1>1. conns \in [1..Len(conns) -> Conn]
  BY LenProperties
<1>2. conns' = [conns EXCEPT ![conn] = [conns[conn] EXCEPT !.open = FALSE]]
  BY <1>1 DEF ReplyFails
<1>3. [conns[conn] EXCEPT !.open = FALSE] \in Conn
  BY <1>1 DEF Conn
<1>4. [conns[conn] EXCEPT !.open = FALSE].boot = conns[conn].boot
  BY <1>1 DEF Conn
<1> QED BY <1>2, <1>3, <1>4, ExceptSeq DEF Closing

LEMMA DisconnectCloses ==
  ASSUME conns \in Seq(Conn), NEW h \in Callers, Disconnect(h)
  PROVE  Closing
<1>1. conns \in [1..Len(conns) -> Conn] /\ DOMAIN conns = 1..Len(conns)
      /\ Len(conns) \in Nat
  BY LenProperties
<1>2. conns' = [c \in 1..Len(conns) |->
                 IF c = conn THEN [conns[c] EXCEPT !.open = FALSE] ELSE conns[c]]
  BY <1>1 DEF Disconnect
<1>3. \A c \in 1..Len(conns) : [conns[c] EXCEPT !.open = FALSE] \in Conn
  BY <1>1 DEF Conn
<1>4. conns' \in [1..Len(conns) -> Conn]
  BY <1>1, <1>2, <1>3
<1>5. conns' \in Seq(Conn) /\ Len(conns') = Len(conns)
  BY <1>1, <1>4, SeqDef
<1>6. \A c \in 1..Len(conns) : [conns[c] EXCEPT !.open = FALSE].boot = conns[c].boot
  BY <1>1 DEF Conn
<1> QED BY <1>2, <1>5, <1>6 DEF Closing

-----------------------------------------------------------------------------
(* The inductive invariant.                                                *)

\* Boots are counted by faults, a connection is not younger than the server,
\* and who may still dial has an attempt left.
BoundInv ==
  /\ boot <= faults
  /\ \A c \in 1..Len(conns) : conns[c].boot <= boot
  /\ \A h \in Callers : pc[h] \in {"idle", "check", "dial"} =>
                          tries[h] < MaxAttempts

TypeInv == TypeOK /\ BoundInv

\* The connection a call has dialled and not assigned yet is open and nobody
\* else's.
DialledInv ==
  \A h \in Callers : pc[h] = "assign" =>
    /\ mine[h] # 0 /\ mine[h] # conn /\ conns[mine[h]].open
    /\ \A k \in Callers \ {h} : pc[k] = "assign" => mine[k] # mine[h]

ConnInv == CommandOwnsConnection /\ ConnIsOpen /\ DialledInv

WasShown(h) == \E i \in DOMAIN shown : shown[i] = h

\* A message is shown by its Execute only, and one that waits for the reply
\* without having been shown waits on a connection that will not answer.
ShownInv ==
  /\ \A i \in DOMAIN shown : pc[shown[i]] \in {"reply", "done"}
  /\ \A h \in Callers :
       /\ pc[h] = "reply" => WasShown(h) \/ ~Answers(conn)
       /\ pc[h] = "disconnect" => role[h] = "stop"
       /\ result[h] # "none" => pc[h] = "done"

DeliveryInv == DeliveredIsShown /\ ShownInv

-----------------------------------------------------------------------------
(* Type correctness.                                                       *)

LEMMA InitType == Init => TypeInv
<1> SUFFICES ASSUME Init PROVE TypeInv
  OBVIOUS
<1>1. /\ <<>> \in Seq([boot : 0..MaxFaults, open : BOOLEAN])
      /\ <<>> \in Seq(Callers)
      /\ Len(<<>>) = 0
  BY EmptySeq
<1>2. BoundInv
  BY <1>1, RconAssumption DEF Init, BoundInv
<1> QED BY <1>1, <1>2, RconAssumption DEF Init, TypeInv, TypeOK

LEMMA FaultType ==
  ASSUME TypeInv, Fault
  PROVE  faults' \in 0..MaxFaults /\ faults \in Nat /\ faults' = faults + 1
BY RconAssumption DEF TypeInv, TypeOK, Fault

LEMMA ServerType ==
  ASSUME TypeInv, ServerStops \/ ServerStarts
  PROVE  TypeInv'
<1>1. /\ faults' \in 0..MaxFaults /\ faults \in Nat /\ faults' = faults + 1
  BY FaultType DEF ServerStops, ServerStarts
<1>2. boot \in Nat /\ boot <= faults
  BY DEF TypeInv, TypeOK, BoundInv
<1>3. boot' \in 0..MaxFaults /\ boot <= boot' /\ boot' <= faults'
  BY <1>1, <1>2, RconAssumption DEF ServerStops, ServerStarts
<1>4. UNCHANGED <<shown, conns, conn, mu, pc, role, tries, mine, result>>
      /\ up' \in BOOLEAN
  BY DEF ServerStops, ServerStarts
<1>5. \A c \in 1..Len(conns) : conns[c].boot <= boot'
  <2>1. \A c \in 1..Len(conns) : conns[c].boot \in Nat /\ conns[c].boot <= boot
    <3>1. \A c \in 1..Len(conns) : conns[c] \in Conn
      BY ElementOfSeq DEF TypeInv, TypeOK, Conn
    <3> QED BY <3>1 DEF TypeInv, BoundInv, Conn
  <2> QED BY <1>2, <1>3, <2>1
<1>6. BoundInv'
  BY <1>3, <1>4, <1>5 DEF TypeInv, BoundInv
<1> QED BY <1>1, <1>3, <1>4, <1>6 DEF TypeInv, TypeOK

LEMMA DialType ==
  ASSUME TypeInv, NEW h \in Callers, Dial(h)
  PROVE  TypeInv'
<1>1. /\ conns' \in Seq(Conn) /\ Len(conns) \in Nat
      /\ Len(conns') = Len(conns) + 1
      /\ \A c \in 1..Len(conns) : conns'[c] = conns[c]
      /\ conns'[Len(conns')] = [boot |-> boot, open |-> TRUE]
  BY DialConn DEF TypeInv, TypeOK, Conn
<1>2. conn' \in 0..Len(conns') /\ mine' \in [Callers -> 0..Len(conns')]
  BY <1>1 DEF Dial, TypeInv, TypeOK
<1>3. pc' \in [Callers -> States] /\ pc'[h] = "assign"
      /\ \A k \in Callers \ {h} : pc'[k] = pc[k]
  BY DEF Dial, Step, TypeInv, TypeOK, States
<1>4. /\ UNCHANGED <<up, boot, shown, faults, mu, role, tries, result>>
  BY DEF Dial, serverVars
<1>5. \A c \in 1..Len(conns') : conns'[c].boot <= boot'
  <2>1. boot \in Nat /\ boot' = boot
    BY <1>4 DEF TypeInv, TypeOK
  <2>2. conns'[Len(conns')].boot = boot
    BY <1>1
  <2>3. \A c \in 1..Len(conns) : conns'[c].boot <= boot
    BY <1>1 DEF TypeInv, BoundInv
  <2>4. \A c \in 1..Len(conns') : c \in 1..Len(conns) \/ c = Len(conns')
    BY <1>1
  <2> QED BY <2>1, <2>2, <2>3, <2>4
<1>6. BoundInv'
  BY <1>3, <1>4, <1>5 DEF TypeInv, BoundInv
<1> QED BY <1>1, <1>2, <1>3, <1>4, <1>6 DEF TypeInv, TypeOK, Conn, States

LEMMA DialFailsType ==
  ASSUME TypeInv, NEW h \in Callers, DialFails(h)
  PROVE  TypeInv'
<1>1. faults' \in 0..MaxFaults /\ boot <= faults'
  BY FaultType DEF DialFails, TypeInv, TypeOK, BoundInv
<1>2. tries \in [Callers -> 0..MaxAttempts] /\ tries[h] < MaxAttempts
      /\ MaxAttempts \in Nat
  BY RconAssumption DEF DialFails, Step, Return, TypeInv, TypeOK, BoundInv
<1>3. tries' = [tries EXCEPT ![h] = @ + 1]
  BY DEF DialFails
<1>4. /\ tries' \in [Callers -> 0..MaxAttempts]
      /\ \A k \in Callers \ {h} : tries'[k] = tries[k]
  BY <1>2, <1>3
<1>5. /\ pc' \in [Callers -> States]
      /\ \A k \in Callers \ {h} : pc'[k] = pc[k]
      /\ pc'[h] \in {"idle", "check", "dial"} => tries'[h] < MaxAttempts
      /\ result' \in [Callers -> {"none", "ok", "error"}]
  BY DEF DialFails, Step, Return, TypeInv, TypeOK, States
<1>6. UNCHANGED <<up, boot, shown, conns, conn, mu, role, mine>>
  BY DEF DialFails, serverVars
<1>7. BoundInv'
  BY <1>1, <1>4, <1>5, <1>6 DEF TypeInv, BoundInv
<1> QED BY <1>1, <1>4, <1>5, <1>6, <1>7 DEF TypeInv, TypeOK, States

LEMMA CloseType ==
  ASSUME TypeInv, NEW h \in Callers, Closing, ReplyFails(h) \/ Disconnect(h)
  PROVE  TypeInv'
<1>1. faults' \in 0..MaxFaults /\ boot <= faults'
  BY FaultType DEF ReplyFails, Disconnect, TypeInv, TypeOK, BoundInv
<1>2. Len(conns) \in Nat
  BY LenProperties DEF TypeInv, TypeOK
<1>3. /\ pc' \in [Callers -> States]
      /\ pc'[h] = "done"
      /\ \A k \in Callers \ {h} : pc'[k] = pc[k]
      /\ result' \in [Callers -> {"none", "ok", "error"}]
  BY DEF ReplyFails, Disconnect, Step, Return, TypeInv, TypeOK, States
<1>4. conn' \in 0..Len(conns') /\ mine' \in [Callers -> 0..Len(conns')]
  BY <1>2 DEF ReplyFails, Disconnect, Closing, TypeInv, TypeOK
<1>5. mu' \in Callers \cup {NoOne}
  BY DEF ReplyFails, Disconnect, TypeInv, TypeOK
<1>6. UNCHANGED <<up, boot, shown, role, tries>>
  BY DEF ReplyFails, Disconnect, serverVars
<1>7. BoundInv'
  BY <1>1, <1>3, <1>6 DEF TypeInv, BoundInv, Closing
<1> QED BY <1>1, <1>3, <1>4, <1>5, <1>6, <1>7
        DEF TypeInv, TypeOK, Closing, Conn, States

\* The steps of a call that leave the connections as they are.
LEMMA CallType ==
  ASSUME TypeInv, NEW h \in Callers,
         \/ Begin(h) \/ Connected(h) \/ NotConnected(h) \/ DialCancelled(h)
         \/ Assign(h) \/ Lock(h) \/ LockFails(h) \/ Execute(h) \/ ReplyOk(h)
  PROVE  TypeInv'
<1> USE DEF TypeInv, TypeOK
<1>1. faults' \in 0..MaxFaults /\ boot <= faults'
  BY FaultType DEF Begin, Connected, NotConnected, DialCancelled, Assign, HaveConn,
    Lock, LockFails, Execute, ReplyOk, BoundInv
<1>2. pc' \in [Callers -> States] /\ result' \in [Callers -> {"none", "ok", "error"}]
  <2>1. CASE Begin(h)
    <3>1. (CASE role[h] = "start" -> "dial" [] role[h] = "stop" -> "disconnect"
             [] OTHER -> "check") \in States
      BY DEF States
    <3> QED BY <2>1, <3>1 DEF Begin, Step, States
  <2>2. CASE ~Begin(h)
    BY <2>2 DEF Connected, NotConnected, DialCancelled, Assign, HaveConn, Lock,
      LockFails, Execute, ReplyOk, Step, Return, States
  <2> QED BY <2>1, <2>2
<1>3. /\ \A k \in Callers \ {h} : pc'[k] = pc[k]
      /\ pc'[h] \in {"idle", "check", "dial"} => pc[h] \in {"idle", "check"}
  BY DEF Begin, Connected, NotConnected, DialCancelled, Assign, HaveConn, Lock,
    LockFails, Execute, ReplyOk, Step, Return
<1>4. UNCHANGED <<up, boot, conns, role, tries>>
  BY DEF Begin, Connected, NotConnected, DialCancelled, Assign, HaveConn, Lock,
    LockFails, Execute, ReplyOk, serverVars
<1>5. shown' \in Seq(Callers)
  <2>1. Append(shown, h) \in Seq(Callers)
    BY AppendProperties
  <2> QED BY <2>1 DEF Begin, Connected, NotConnected, DialCancelled, Assign, HaveConn,
        Lock, LockFails, Execute, ReplyOk, serverVars
<1>6. Len(conns) \in Nat
  BY LenProperties
<1>7. /\ conn' \in 0..Len(conns)
      /\ mu' \in Callers \cup {NoOne}
      /\ mine' \in [Callers -> 0..Len(conns)]
  BY <1>6 DEF Begin, Connected, NotConnected, DialCancelled, Assign, HaveConn, Lock,
    LockFails, Execute, ReplyOk
<1>8. BoundInv'
  BY <1>1, <1>3, <1>4 DEF BoundInv
<1> QED BY <1>1, <1>2, <1>4, <1>5, <1>7, <1>8 DEF States

LEMMA NextType == TypeInv /\ CommandOwnsConnection /\ [Next]_vars => TypeInv'
<1> SUFFICES ASSUME TypeInv, CommandOwnsConnection, [Next]_vars PROVE TypeInv'
  OBVIOUS
<1>1. ASSUME NEW h \in Callers, ReplyFails(h) PROVE TypeInv'
  <2>1. conn \in 1..Len(conns) /\ conns \in Seq(Conn)
    BY <1>1, LenProperties
       DEF ReplyFails, Return, Step, CommandOwnsConnection, TypeInv, TypeOK, Conn
  <2> QED BY <1>1, <2>1, ReplyFailsCloses, CloseType
<1>2. ASSUME NEW h \in Callers, Disconnect(h) PROVE TypeInv'
  <2>1. conns \in Seq(Conn)
    BY DEF TypeInv, TypeOK, Conn
  <2> QED BY <1>2, <2>1, DisconnectCloses, CloseType
<1>3. CASE UNCHANGED vars
  BY <1>3 DEF vars, serverVars, TypeInv, TypeOK, BoundInv
<1> QED BY <1>1, <1>2, <1>3, ServerType, DialType, DialFailsType, CallType
        DEF Next, CallerStep

-----------------------------------------------------------------------------
(* Commands and connections.                                               *)

LEMMA InitConn == Init => ConnInv
BY DEF Init, ConnInv, CommandOwnsConnection, ConnIsOpen, DialledInv

\* A connection that is dialled is different from all that are in use.
LEMMA DialOwn ==
  ASSUME TypeInv, ConnInv, NEW h \in Callers, Dial(h)
  PROVE  ConnInv'
<1>1. /\ conns' \in Seq(Conn) /\ Len(conns) \in Nat
      /\ Len(conns') = Len(conns) + 1
      /\ \A c \in 1..Len(conns) : conns'[c] = conns[c]
      /\ conns'[Len(conns')] = [boot |-> boot, open |-> TRUE]
  BY DialConn DEF TypeInv, TypeOK, Conn
<1>2. /\ pc' = [pc EXCEPT ![h] = "assign"]
      /\ mine' = [mine EXCEPT ![h] = Len(conns')]
      /\ UNCHANGED <<conn, mu>>
  BY DEF Dial, Step
<1>3. /\ pc \in [Callers -> States] /\ mine \in [Callers -> 0..Len(conns)]
      /\ conn \in 0..Len(conns)
  BY DEF TypeInv, TypeOK, States
<1>4. CommandOwnsConnection' /\ ConnIsOpen'
  BY <1>1, <1>2, <1>3 DEF ConnInv, CommandOwnsConnection, ConnIsOpen
<1>5. DialledInv'
  <2>1. conns'[mine'[h]].open /\ mine'[h] # 0 /\ mine'[h] # conn'
    BY <1>1, <1>2, <1>3
  <2>2. ASSUME NEW k \in Callers \ {h}, pc'[k] = "assign"
        PROVE  /\ mine'[k] # 0 /\ mine'[k] # conn' /\ conns'[mine'[k]].open
               /\ mine'[k] # mine'[h]
    BY <1>1, <1>2, <1>3, <2>2 DEF ConnInv, DialledInv
  <2>3. ASSUME NEW k \in Callers \ {h}, NEW l \in Callers \ {h, k},
               pc'[k] = "assign", pc'[l] = "assign"
        PROVE  mine'[k] # mine'[l]
    BY <1>2, <1>3, <2>3 DEF ConnInv, DialledInv
  <2> QED BY <2>1, <2>2, <2>3 DEF DialledInv
<1> QED BY <1>4, <1>5 DEF ConnInv

\* What is closed is r.conn, which no call has dialled and not yet assigned
\* and, since the mutex is held or free, no other command uses.
LEMMA CloseOwn ==
  ASSUME TypeInv, ConnInv, NEW h \in Callers, Closing,
         ReplyFails(h) \/ Disconnect(h)
  PROVE  ConnInv'
<1>1. /\ pc \in [Callers -> States] /\ mine \in [Callers -> 0..Len(conns)]
      /\ Len(conns) \in Nat
  BY LenProperties DEF TypeInv, TypeOK, States
<1>2. /\ conn' = 0
      /\ pc'[h] = "done"
      /\ \A k \in Callers \ {h} : pc'[k] = pc[k] /\ mine'[k] = mine[k]
  BY <1>1 DEF ReplyFails, Disconnect, Return, Step
<1>3. \A k \in Callers \ {h} : pc[k] \notin {"execute", "reply"}
  BY RconAssumption DEF ReplyFails, Disconnect, Return, Step, ConnInv,
    CommandOwnsConnection
<1>4. \A c \in 1..Len(conns) : c # conn => conns'[c] = conns[c]
  BY DEF Closing
<1>5. DialledInv'
  BY <1>1, <1>2, <1>4 DEF ConnInv, DialledInv
<1> QED BY <1>2, <1>3, <1>5 DEF ConnInv, CommandOwnsConnection, ConnIsOpen

\* r.conn is replaced only while no command is under way.
LEMMA AssignOwn ==
  ASSUME TypeInv, ConnInv, NEW h \in Callers, Assign(h)
  PROVE  ConnInv'
<1>1. /\ pc \in [Callers -> States] /\ mine \in [Callers -> 0..Len(conns)]
  BY DEF TypeInv, TypeOK, States
<1>2. /\ pc[h] = "assign" /\ mu = NoOne
      /\ conn' = mine[h] /\ conns' = conns
      /\ pc'[h] \in {"lock", "done"}
      /\ \A k \in Callers \ {h} : pc'[k] = pc[k] /\ mine'[k] = mine[k]
  BY <1>1 DEF Assign, HaveConn, Return, Step
<1>3. \A k \in Callers : pc'[k] \notin {"execute", "reply"}
  BY <1>2, RconAssumption DEF ConnInv, CommandOwnsConnection
<1>4. DialledInv'
  BY <1>2 DEF ConnInv, DialledInv
<1> QED BY <1>2, <1>3, <1>4
        DEF ConnInv, CommandOwnsConnection, ConnIsOpen, DialledInv

\* One command at a time goes through lock, execute and reply.
LEMMA CommandOwn ==
  ASSUME TypeInv, ConnInv, NEW h \in Callers, Lock(h) \/ Execute(h) \/ ReplyOk(h)
  PROVE  ConnInv'
<1>1. /\ pc \in [Callers -> States] /\ mine \in [Callers -> 0..Len(conns)]
  BY DEF TypeInv, TypeOK, States
<1>2. /\ UNCHANGED <<conn, conns>>
      /\ pc'[h] # "assign"
      /\ \A k \in Callers \ {h} : pc'[k] = pc[k] /\ mine'[k] = mine[k]
  BY <1>1 DEF Lock, Execute, ReplyOk, Return, Step, serverVars
<1>3. \A k \in Callers \ {h} : pc[k] \notin {"execute", "reply"}
  BY RconAssumption DEF Lock, Execute, ReplyOk, Return, Step, ConnInv,
    CommandOwnsConnection
<1>4. pc'[h] \in {"execute", "reply"} =>
        mu' = h /\ conn' = mine'[h] /\ conn' # 0 /\ conns'[conn'].open
  BY <1>1, <1>2 DEF Lock, Execute, ReplyOk, Return, Step, ConnInv,
    CommandOwnsConnection, ConnIsOpen
<1>5. CommandOwnsConnection'
  BY <1>2, <1>3, <1>4 DEF CommandOwnsConnection
<1> QED BY <1>2, <1>5 DEF ConnInv, ConnIsOpen, DialledInv

\* The other steps of a call touch no connection.
LEMMA QuietStep ==
  ASSUME TypeInv, NEW h \in Callers,
         \/ Begin(h) \/ Connected(h) \/ NotConnected(h) \/ DialFails(h)
         \/ DialCancelled(h) \/ LockFails(h)
  PROVE  /\ UNCHANGED <<conns, conn, mu, mine, up, boot, shown, role>>
         /\ pc[h] \notin {"assign", "execute", "reply", "done"}
         /\ pc'[h] \notin {"assign", "execute", "reply"}
         /\ \A k \in Callers \ {h} : pc'[k] = pc[k]
<1>1. pc \in [Callers -> States]
  BY DEF TypeInv, TypeOK, States
<1> QED BY <1>1 DEF Begin, Connected, NotConnected, DialFails, DialCancelled,
             LockFails, Return, Step, serverVars

LEMMA NextConn ==
  ASSUME TypeInv, ConnInv, [Next]_vars
  PROVE  ConnInv'
<1>1. CASE UNCHANGED <<conns, conn, mu, pc, mine>>
  BY <1>1 DEF ConnInv, CommandOwnsConnection, ConnIsOpen, DialledInv
<1>2. ASSUME NEW h \in Callers,
             \/ Begin(h) \/ Connected(h) \/ NotConnected(h) \/ DialFails(h)
             \/ DialCancelled(h) \/ LockFails(h)
      PROVE  ConnInv'
  BY <1>2, QuietStep DEF ConnInv, CommandOwnsConnection, ConnIsOpen, DialledInv
<1>3. ASSUME NEW h \in Callers, ReplyFails(h) PROVE ConnInv'
  <2>1. conn \in 1..Len(conns) /\ conns \in Seq(Conn)
    BY <1>3, LenProperties DEF ReplyFails, Return, Step, ConnInv,
       CommandOwnsConnection, TypeInv, TypeOK, Conn
  <2> QED BY <1>3, <2>1, ReplyFailsCloses, CloseOwn
<1>4. ASSUME NEW h \in Callers, Disconnect(h) PROVE ConnInv'
  <2>1. conns \in Seq(Conn)
    BY DEF TypeInv, TypeOK, Conn
  <2> QED BY <1>4, <2>1, DisconnectCloses, CloseOwn
<1>5. CASE ServerStops \/ ServerStarts \/ UNCHANGED vars
  BY <1>1, <1>5 DEF ServerStops, ServerStarts, vars
<1> QED BY <1>2, <1>3, <1>4, <1>5, DialOwn, AssignOwn, CommandOwn
        DEF Next, CallerStep

LEMMA NextTypeConn == TypeInv /\ ConnInv /\ [Next]_vars => (TypeInv /\ ConnInv)'
BY NextType, NextConn DEF ConnInv

\* Every reachable state has its types.
THEOREM TypeCorrect == Spec => []TypeOK
<1>1. Init => TypeInv /\ ConnInv
  BY InitType, InitConn
<1>2. TypeInv => TypeOK
  BY DEF TypeInv
<1> QED BY <1>1, <1>2, NextTypeConn, PTL DEF Spec

\* The mutex of rcon.go keeps every command's connection to itself, open,
\* from its Execute to its reply.
THEOREM MutexOwnsConnection == Spec => []CommandOwnsConnection
<1>1. Init => TypeInv /\ ConnInv
  BY InitType, InitConn
<1>2. ConnInv => CommandOwnsConnection
  BY DEF ConnInv
<1> QED BY <1>1, <1>2, NextTypeConn, PTL DEF Spec

\* r.conn is never a connection that was closed.
THEOREM KeptConnIsOpen == Spec => []ConnIsOpen
<1>1. Init => TypeInv /\ ConnInv
  BY InitType, InitConn
<1>2. ConnInv => ConnIsOpen
  BY DEF ConnInv
<1> QED BY <1>1, <1>2, NextTypeConn, PTL DEF Spec

-----------------------------------------------------------------------------
(* Delivery.                                                               *)

LEMMA InitDelivery == Init => DeliveryInv
<1> SUFFICES ASSUME Init PROVE DeliveryInv
  OBVIOUS
<1>1. DOMAIN shown = {}
  BY DEF Init
<1> QED BY <1>1 DEF Init, DeliveryInv, DeliveredIsShown, ShownInv

\* A step that shows nothing, after which every call that waits for a reply
\* waited before and has no better answer to hope for.
LEMMA NothingShown ==
  ASSUME TypeInv, DeliveryInv, shown' = shown, role' = role,
         \A k \in Callers :
           /\ pc[k] \in {"reply", "done"} => pc'[k] \in {"reply", "done"}
           /\ pc'[k] = "reply" =>
                pc[k] = "reply" /\ (Answers(conn)' => Answers(conn))
           /\ pc'[k] = "disconnect" => pc[k] = "disconnect" \/ role[k] = "stop"
           /\ result'[k] # "none" => pc'[k] = "done"
           /\ role[k] = "message" /\ result'[k] = "ok" =>
                result[k] = "ok" \/ WasShown(k)
  PROVE  DeliveryInv'
<1>1. shown \in Seq(Callers) /\ \A i \in DOMAIN shown : shown[i] \in Callers
  BY ElementOfSeq, LenProperties DEF TypeInv, TypeOK
<1>2. ShownInv'
  BY <1>1 DEF DeliveryInv, ShownInv, WasShown
<1>3. DeliveredIsShown'
  BY DEF DeliveryInv, DeliveredIsShown, WasShown
<1> QED BY <1>2, <1>3 DEF DeliveryInv

LEMMA ExecuteDelivers ==
  ASSUME TypeInv, DeliveryInv, NEW h \in Callers, Execute(h)
  PROVE  DeliveryInv'
<1>1. /\ pc \in [Callers -> States] /\ shown \in Seq(Callers)
      /\ Len(shown) \in Nat /\ DOMAIN shown = 1..Len(shown)
  BY LenProperties DEF TypeInv, TypeOK, States
<1>2. /\ pc[h] = "execute" /\ pc' = [pc EXCEPT ![h] = "reply"]
      /\ shown' = IF Answers(conn) THEN Append(shown, h) ELSE shown
      /\ UNCHANGED <<up, boot, conns, conn, role, result>>
  BY DEF Execute, Step
<1>3. (Answers(conn))' <=> Answers(conn)
  BY <1>2 DEF Answers
<1>4. \A i \in DOMAIN shown : shown[i] # h
  BY <1>2 DEF DeliveryInv, ShownInv
<1>5. CASE Answers(conn)
  <2>1. /\ Len(shown') = Len(shown) + 1
        /\ DOMAIN shown' = 1..Len(shown')
        /\ \A i \in 1..Len(shown) : shown'[i] = shown[i]
        /\ shown'[Len(shown) + 1] = h
    <3>1. shown' = Append(shown, h)
      BY <1>2, <1>5
    <3> QED BY <1>1, <3>1, AppendProperties, LenProperties
  <2>2. \A i \in DOMAIN shown' : i \in DOMAIN shown \/ i = Len(shown) + 1
    BY <1>1, <2>1
  <2>3. \A k \in Callers : WasShown(k) => WasShown(k)'
    BY <1>1, <2>1 DEF WasShown
  <2>4. WasShown(h)'
    BY <1>1, <2>1 DEF WasShown
  <2>5. \A i \in DOMAIN shown' : pc'[shown'[i]] \in {"reply", "done"}
    <3>1. \A i \in DOMAIN shown : pc'[shown[i]] = pc[shown[i]]
      BY <1>1, <1>2, <1>4
    <3> QED BY <1>1, <1>2, <2>1, <2>2, <3>1 DEF DeliveryInv, ShownInv
  <2>6. ShownInv'
    BY <1>1, <1>2, <1>3, <2>3, <2>4, <2>5 DEF DeliveryInv, ShownInv
  <2>7. \A i, j \in DOMAIN shown' : shown'[i] = shown'[j] => i = j
    BY <1>1, <1>4, <2>1, <2>2 DEF DeliveryInv, DeliveredIsShown
  <2>8. DeliveredIsShown'
    BY <1>2, <2>3, <2>7 DEF DeliveryInv, DeliveredIsShown, WasShown
  <2> QED BY <2>6, <2>8 DEF DeliveryInv
<1>6. CASE ~Answers(conn)
  <2>1. \A i \in DOMAIN shown : pc'[shown[i]] = pc[shown[i]]
    BY <1>1, <1>2, <1>4
  <2>2. shown' = shown
    BY <1>2, <1>6
  <2>3. ShownInv'
    BY <1>1, <1>2, <1>3, <1>6, <2>1, <2>2 DEF DeliveryInv, ShownInv, WasShown
  <2> QED BY <1>2, <2>2, <2>3 DEF DeliveryInv, DeliveredIsShown
<1> QED BY <1>5, <1>6

\* A server that starts anew answers on no old connection.
LEMMA ServerDelivers ==
  ASSUME TypeInv, ConnInv, DeliveryInv, ServerStops \/ ServerStarts
  PROVE  DeliveryInv'
<1>1. UNCHANGED <<shown, conns, conn, pc, role, result>>
  BY DEF ServerStops, ServerStarts
<1>2. ASSUME NEW k \in Callers, pc[k] = "reply" PROVE ~(Answers(conn))'
  <2>1. CASE ServerStops
    BY <2>1 DEF ServerStops, Answers
  <2>2. CASE ServerStarts
    <3>1. conn \in 1..Len(conns) /\ conns \in Seq(Conn)
      BY <1>2, LenProperties DEF ConnInv, CommandOwnsConnection, TypeInv, TypeOK, Conn
    <3>2. conns[conn] \in Conn
      BY <3>1, ElementOfSeq
    <3>3. conns[conn].boot <= boot /\ boot \in Nat /\ conns[conn].boot \in Nat
      BY <3>1, <3>2 DEF TypeInv, TypeOK, BoundInv, Conn
    <3>4. conns'[conn'].boot # boot'
      BY <1>1, <2>2, <3>3 DEF ServerStarts
    <3> QED BY <3>4 DEF Answers
  <2> QED BY <2>1, <2>2
<1>3. \A k \in Callers : result[k] # "none" => pc[k] = "done"
  BY DEF DeliveryInv, ShownInv
<1> QED BY <1>1, <1>2, <1>3, NothingShown

\* The steps of a call other than Execute show nothing; only ReplyOk reports
\* success of a message, on a connection that answers.
LEMMA CallDelivers ==
  ASSUME TypeInv, ConnInv, DeliveryInv, NEW h \in Callers,
         Begin(h) \/ (CallerStep(h) /\ ~Execute(h))
  PROVE  DeliveryInv'
<1>1. /\ pc \in [Callers -> States] /\ result \in [Callers -> {"none", "ok", "error"}]
      /\ role \in [Callers -> Roles]
      /\ conns \in Seq(Conn) /\ conn \in 0..Len(conns) /\ Len(conns) \in Nat
  BY LenProperties DEF TypeInv, TypeOK, States, Conn
<1>2. UNCHANGED <<shown, role, up, boot>>
  BY DEF Begin, CallerStep, Connected, NotConnected, Dial, DialFails, DialCancelled,
    Assign, HaveConn, Lock, LockFails, ReplyOk, ReplyFails, Disconnect, serverVars
<1>3. \A k \in Callers \ {h} : pc'[k] = pc[k] /\ result'[k] = result[k]
  BY <1>1 DEF Begin, CallerStep, Connected, NotConnected, Dial, DialFails, DialCancelled,
    Assign, HaveConn, Lock, LockFails, ReplyOk, ReplyFails, Disconnect, Return, Step
<1>4. /\ pc[h] # "done" /\ pc'[h] # "reply"
      /\ pc[h] = "reply" => pc'[h] = "done"
  BY <1>1 DEF Begin, CallerStep, Connected, NotConnected, Dial, DialFails, DialCancelled,
    Assign, HaveConn, Lock, LockFails, ReplyOk, ReplyFails, Disconnect, Return, Step
<1>5. pc'[h] = "disconnect" => role[h] = "stop"
  <2>1. CASE Begin(h)
    BY <1>1, <2>1 DEF Begin, Step, Roles
  <2>2. CASE CallerStep(h)
    BY <1>1, <2>2 DEF CallerStep, Connected, NotConnected, Dial, DialFails, DialCancelled,
      Assign, HaveConn, Lock, LockFails, Execute, ReplyOk, ReplyFails, Disconnect,
      Return, Step
  <2> QED BY <2>1, <2>2
<1>6. result'[h] # "none" => pc'[h] = "done"
  <2>1. result[h] = "none"
    BY <1>4 DEF DeliveryInv, ShownInv
  <2> QED BY <1>1, <2>1 DEF Begin, CallerStep, Connected, NotConnected, Dial, DialFails,
        DialCancelled, Assign, HaveConn, Lock, LockFails, ReplyOk, ReplyFails,
        Disconnect, Return, Step
<1>7. role[h] = "message" /\ result'[h] = "ok" => WasShown(h)
  <2> SUFFICES ASSUME role[h] = "message", result'[h] = "ok" PROVE WasShown(h)
    OBVIOUS
  <2>1. result[h] = "none"
    BY <1>4 DEF DeliveryInv, ShownInv
  <2>2. CASE ReplyOk(h)
    BY <2>2 DEF ReplyOk, Return, Step, DeliveryInv, ShownInv
  <2>3. CASE Disconnect(h)
    BY <2>3 DEF Disconnect, Return, Step, DeliveryInv, ShownInv
  <2>4. CASE ~ReplyOk(h) /\ ~Disconnect(h)
    BY <1>1, <2>1, <2>4 DEF Begin, CallerStep, Connected, NotConnected, Dial, DialFails,
      DialCancelled, Assign, HaveConn, Lock, LockFails, ReplyFails, Return, Step
  <2> QED BY <2>2, <2>3, <2>4
<1>8. ASSUME NEW k \in Callers \ {h}, pc[k] = "reply", (Answers(conn))'
      PROVE  Answers(conn)
  <2>1. mu = k /\ conn # 0
    BY <1>8 DEF ConnInv, CommandOwnsConnection
  <2>2. mu # NoOne /\ mu # h
    BY <2>1, RconAssumption
  <2>3. pc[h] \notin {"execute", "reply"}
    BY <2>2 DEF ConnInv, CommandOwnsConnection
  <2>4. CASE Dial(h)
    <3>1. conns'[conn] = conns[conn] /\ conn' = conn
      BY <1>1, <2>1, <2>4, DialConn DEF Dial, TypeInv, TypeOK
    <3> QED BY <1>2, <1>8, <3>1 DEF Answers
  <2>5. CASE ~Dial(h)
    <3>1. UNCHANGED <<conns, conn>>
      BY <2>2, <2>3, <2>5 DEF Begin, CallerStep, Connected, NotConnected, DialFails,
        DialCancelled, Assign, Lock, LockFails, ReplyOk, ReplyFails, Disconnect,
        Return, Step
    <3> QED BY <1>2, <1>8, <3>1 DEF Answers
  <2> QED BY <2>4, <2>5
<1>9. \A k \in Callers : result[k] # "none" => pc[k] = "done"
  BY DEF DeliveryInv, ShownInv
<1> QED BY <1>2, <1>3, <1>4, <1>5, <1>6, <1>7, <1>8, <1>9, NothingShown

LEMMA NextDelivery ==
  ASSUME TypeInv, ConnInv, DeliveryInv, [Next]_vars
  PROVE  DeliveryInv'
<1>1. CASE UNCHANGED vars
  BY <1>1 DEF vars, serverVars, DeliveryInv, DeliveredIsShown, ShownInv, WasShown,
    Answers
<1> QED BY <1>1, ServerDelivers, ExecuteDelivers, CallDelivers DEF Next, CallerStep

\* A message reported as delivered was shown to the players, and none is
\* shown twice.
THEOREM DeliveredWasShown == Spec => []DeliveredIsShown
<1> DEFINE Inv == TypeInv /\ ConnInv /\ DeliveryInv
<1>1. Init => Inv
  BY InitType, InitConn, InitDelivery
<1>2. Inv /\ [Next]_vars => Inv'
  BY NextTypeConn, NextDelivery
<1>3. Inv => DeliveredIsShown
  BY DEF DeliveryInv
<1> QED BY <1>1, <1>2, <1>3, PTL DEF Spec

=============================================================================
