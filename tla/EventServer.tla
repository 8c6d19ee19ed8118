----------------------------- MODULE EventServer -----------------------------
(***************************************************************************)
(* The companion plugin's event server (EventServer.java) and the TCP      *)
(* connection it writes to.  Every GET /events runs on a thread of its     *)
(* own; a connection c is one such request.  publish() and register() are  *)
(* synchronized and so are single steps; everything else a handler does is *)
(* a step of its own, because the publishing thread, the other handlers    *)
(* and the network run in between.                                         *)
(*                                                                         *)
(* The bridge holds at most one connection, conn.  The handler of any      *)
(* other connection writes into a dead socket and goes on until a write    *)
(* fails.                                                                  *)
(***************************************************************************)
EXTENDS EventIds, FiniteSets

CONSTANTS
  Conns,        \* requests the server can be handling at once
  NoConn,       \* the bridge holds no connection
  HistorySize,  \* HISTORY_SIZE
  QueueSize,    \* CLIENT_QUEUE_SIZE
  MaxClients,   \* MAX_CLIENTS
  WireSize,     \* bound: events in flight on the connection
  MaxSeq,       \* bound: events of the first boot; each later one has one less
  MaxBoot       \* bound: lives of the plugin

ASSUME SizeAssumption ==
  /\ HistorySize \in Nat \ {0}
  /\ QueueSize \in Nat \ {0}
  /\ MaxClients \in Nat \ {0}
  /\ WireSize \in Nat \ {0}
  /\ MaxSeq \in Nat
  /\ MaxBoot \in Nat \ {0}
  /\ NoConn \notin Conns

\* A whole history fits into the queue of a new client, so the result of
\* offer() in register() can be ignored (256 against 1024 in the code).
ASSUME ReplayFits == HistorySize <= QueueSize

VARIABLES
  boot,         \* the running EventServer object (bootId)
  seq,          \* seq of every boot, frozen when the boot ends
  history,      \* the last HistorySize events of the running boot
  clients,      \* the registered clients
  queue,        \* queue[c]: Client.queue
  overflowed,   \* overflowed[c]: Client.overflowed
  handler,      \* handler[c]: where handleEvents stands for c
  held,         \* held[c]: event polled and not yet written; NoId for a ping
  resume        \* resume[c]: the Last-Event-ID header of the request

VARIABLES
  conn,         \* the connection the bridge has open, or NoConn
  up,           \* bytes written to conn still reach the bridge
  status,       \* answer to the request on conn: "none", "ok", "busy"
  wire,         \* complete events in flight to the bridge
  torn          \* event whose blank line was cut off, behind the wire

serverVars == <<boot, seq, history, clients, queue, overflowed, handler,
                held, resume>>
linkVars == <<conn, up, status, wire, torn>>

Boots == 1..MaxBoot
HandlerStates == {"free", "request", "register", "headers", "check", "poll",
                  "write"}

\* What the handler of c writes reaches the bridge.
Live(c) == conn = c /\ up

\* The id of the newest event.
Latest == [boot |-> boot, seq |-> seq[boot]]

ServerInit ==
  /\ boot = 1
  /\ seq = [b \in Boots |-> 0]
  /\ history = <<>>
  /\ clients = {}
  /\ queue = [c \in Conns |-> <<>>]
  /\ overflowed = [c \in Conns |-> FALSE]
  /\ handler = [c \in Conns |-> "free"]
  /\ held = [c \in Conns |-> NoId]
  /\ resume = [c \in Conns |-> NoId]

LinkInit ==
  /\ conn = NoConn
  /\ up = FALSE
  /\ status = "none"
  /\ wire = <<>>
  /\ torn = NoId

-----------------------------------------------------------------------------
\* Mutant of Remember: removes the oldest one event too late.
RememberOneTooMany(h, ev) ==
  IF Len(h) <= HistorySize THEN Append(h, ev) ELSE Append(Tail(h), ev)

\* history.addLast, then removeFirst when over the size.
Remember(h, ev) ==
  IF Len(h) < HistorySize THEN Append(h, ev) ELSE Append(Tail(h), ev)

\* c.queue.offer(ev).
Offer(q, ev) == IF Len(q) < QueueSize THEN Append(q, ev) ELSE q

\* publish(): one event to the history and to every client's queue; a client
\* whose queue is full loses it and is marked.
Publish ==
  /\ seq[boot] + boot <= MaxSeq
  /\ LET ev == [boot |-> boot, seq |-> seq[boot] + 1] IN
       /\ seq' = [seq EXCEPT ![boot] = @ + 1]
       /\ history' = Remember(history, ev)
       /\ queue' = [c \in Conns |->
                      IF c \in clients THEN Offer(queue[c], ev) ELSE queue[c]]
       /\ overflowed' = [c \in Conns |->
                           overflowed[c] \/ (c \in clients /\ Len(queue[c]) = QueueSize)]
  /\ UNCHANGED <<boot, clients, handler, held, resume, linkVars>>

\* Leaving handleEvents: clients.remove, then ex.close(), which ends the
\* response.  The Client object is garbage.
Leave(c) ==
  /\ clients' = clients \ {c}
  /\ handler' = [handler EXCEPT ![c] = "free"]
  /\ queue' = [queue EXCEPT ![c] = <<>>]
  /\ overflowed' = [overflowed EXCEPT ![c] = FALSE]
  /\ held' = [held EXCEPT ![c] = NoId]
  /\ up' = IF conn = c THEN FALSE ELSE up
  /\ UNCHANGED <<boot, seq, history, resume, conn, wire, torn>>

\* The size check, made outside the lock: room now need not be room when the
\* client registers.
CheckRoom(c) ==
  /\ handler[c] = "request"
  /\ Cardinality(clients) < MaxClients
  /\ handler' = [handler EXCEPT ![c] = "register"]
  /\ UNCHANGED <<boot, seq, history, clients, queue, overflowed, held, resume,
                 linkVars>>

\* 503 and return.
Refuse(c) ==
  /\ handler[c] = "request"
  /\ Cardinality(clients) >= MaxClients
  /\ status' = IF Live(c) THEN "busy" ELSE status
  /\ Leave(c)

\* Mutant of Register: replays the event of the resume point again.
RegisterInclusive(c) ==
  /\ handler[c] = "register"
  /\ IF resume[c].boot = boot
       THEN \E seen \in 0..Len(history) :
              /\ \A i \in 1..Len(history) : i <= seen <=> history[i].seq < resume[c].seq
              /\ queue' = [queue EXCEPT ![c] = SubSeq(history, seen + 1, Len(history))]
       ELSE queue' = queue
  /\ clients' = clients \cup {c}
  /\ handler' = [handler EXCEPT ![c] = "headers"]
  /\ UNCHANGED <<boot, seq, history, overflowed, held, resume, linkVars>>

\* Mutant of Register: adds the client and forgets the replay.
RegisterNoReplay(c) ==
  /\ handler[c] = "register"
  /\ clients' = clients \cup {c}
  /\ handler' = [handler EXCEPT ![c] = "headers"]
  /\ UNCHANGED <<boot, seq, history, queue, overflowed, held, resume, linkVars>>

\* register(): the events of the history the client has not seen, if it
\* resumes from this boot, and from now on everything published.  The first
\* `seen` events of the history are those up to the resume point.
Register(c) ==
  /\ handler[c] = "register"
  /\ IF resume[c].boot = boot
       THEN \E seen \in 0..Len(history) :
              /\ \A i \in 1..Len(history) : i <= seen <=> history[i].seq <= resume[c].seq
              /\ queue' = [queue EXCEPT ![c] = SubSeq(history, seen + 1, Len(history))]
       ELSE queue' = queue
  /\ clients' = clients \cup {c}
  /\ handler' = [handler EXCEPT ![c] = "headers"]
  /\ UNCHANGED <<boot, seq, history, overflowed, held, resume, linkVars>>

\* sendResponseHeaders(200) and the ": connected" comment.  On a connection
\* the bridge has left, the write lands in a socket buffer.
SendHeaders(c) ==
  /\ handler[c] = "headers"
  /\ handler' = [handler EXCEPT ![c] = "check"]
  /\ status' = IF Live(c) THEN "ok" ELSE status
  /\ UNCHANGED <<boot, seq, history, clients, queue, overflowed, held, resume,
                 conn, up, wire, torn>>

\* Mutant of CheckOverflow: keeps serving a client that has lost events.
CheckNothing(c) ==
  /\ handler[c] = "check"
  /\ handler' = [handler EXCEPT ![c] = "poll"]
  /\ UNCHANGED <<boot, seq, history, clients, queue, overflowed, held, resume,
                 linkVars>>

\* while (!client.overflowed)
CheckOverflow(c) ==
  /\ handler[c] = "check"
  /\ ~overflowed[c]
  /\ handler' = [handler EXCEPT ![c] = "poll"]
  /\ UNCHANGED <<boot, seq, history, clients, queue, overflowed, held, resume,
                 linkVars>>

\* "Bridge client fell too far behind, dropping connection".
DropSlowClient(c) ==
  /\ handler[c] = "check"
  /\ overflowed[c]
  /\ Leave(c)
  /\ status' = status

\* Mutant of Poll: take() instead of poll(), so no ping on an idle queue.
PollWithoutPing(c) ==
  /\ handler[c] = "poll"
  /\ queue[c] # <<>>
  /\ handler' = [handler EXCEPT ![c] = "write"]
  /\ held' = [held EXCEPT ![c] = Head(queue[c])]
  /\ queue' = [queue EXCEPT ![c] = Tail(queue[c])]
  /\ UNCHANGED <<boot, seq, history, clients, overflowed, resume, linkVars>>

\* queue.poll returns the next event, or nothing after PING_SECONDS.
Poll(c) ==
  /\ handler[c] = "poll"
  /\ handler' = [handler EXCEPT ![c] = "write"]
  /\ IF queue[c] = <<>>
       THEN UNCHANGED <<queue, held>>
       ELSE /\ held' = [held EXCEPT ![c] = Head(queue[c])]
            /\ queue' = [queue EXCEPT ![c] = Tail(queue[c])]
  /\ UNCHANGED <<boot, seq, history, clients, overflowed, resume, linkVars>>

\* write(out, event) or write(out, ": ping").  It blocks while the connection
\* takes no more bytes; on a dead connection the bytes go nowhere.
Write(c) ==
  /\ handler[c] = "write"
  /\ IF Live(c) /\ held[c] # NoId
       THEN Len(wire) < WireSize /\ wire' = Append(wire, held[c])
       ELSE wire' = wire
  /\ handler' = [handler EXCEPT ![c] = "check"]
  /\ held' = [held EXCEPT ![c] = NoId]
  /\ UNCHANGED <<boot, seq, history, clients, queue, overflowed, resume,
                 conn, up, status, torn>>

\* Mutant of WriteFails: the exception skips clients.remove.
WriteFailsKeepsClient(c) ==
  /\ handler[c] \in {"headers", "write"}
  /\ ~Live(c)
  /\ handler' = [handler EXCEPT ![c] = "free"]
  /\ held' = [held EXCEPT ![c] = NoId]
  /\ UNCHANGED <<boot, seq, history, clients, queue, overflowed, resume, linkVars>>

\* A write to a connection the bridge has left throws IOException.
WriteFails(c) ==
  /\ handler[c] \in {"headers", "write"}
  /\ ~Live(c)
  /\ Leave(c)
  /\ status' = status

\* The plugin is disabled and enabled again: stop() closes every exchange and
\* interrupts the handlers, and a new EventServer starts with a new bootId.
Restart ==
  /\ boot < MaxBoot
  /\ boot' = boot + 1
  /\ history' = <<>>
  /\ clients' = {}
  /\ queue' = [c \in Conns |-> <<>>]
  /\ overflowed' = [c \in Conns |-> FALSE]
  /\ handler' = [c \in Conns |-> "free"]
  /\ held' = [c \in Conns |-> NoId]
  /\ up' = FALSE
  /\ UNCHANGED <<seq, resume, conn, status, wire, torn>>

HandlerStep(c) ==
  \/ CheckRoom(c)
  \/ Refuse(c)
  \/ Register(c)
  \/ SendHeaders(c)
  \/ CheckOverflow(c)
  \/ DropSlowClient(c)
  \/ Poll(c)
  \/ Write(c)

\* Everything the plugin's threads do.
ServerNext ==
  \/ Publish
  \/ Restart
  \/ \E c \in Conns : HandlerStep(c) \/ WriteFails(c)

-----------------------------------------------------------------------------
\* Types, and the plugin's two bounds on memory.
ServerTypeOK ==
  /\ boot \in Boots
  /\ seq \in [Boots -> Nat]
  /\ history \in Seq(Ids) /\ Len(history) <= HistorySize
  /\ clients \subseteq Conns
  /\ queue \in [Conns -> Seq(Ids)]
  /\ \A c \in Conns : Len(queue[c]) <= QueueSize
  /\ overflowed \in [Conns -> BOOLEAN]
  /\ handler \in [Conns -> HandlerStates]
  /\ held \in [Conns -> Ids]
  /\ resume \in [Conns -> Ids]
  /\ conn \in Conns \cup {NoConn}
  /\ up \in BOOLEAN
  /\ status \in {"none", "ok", "busy"}
  /\ wire \in Seq(Ids)
  /\ torn \in Ids

=============================================================================
