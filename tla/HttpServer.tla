----------------------------- MODULE HttpServer -----------------------------
(***************************************************************************)
(* common/http: server, connection and request_handler.  Threads of a pool *)
(* run the handlers of one io_context: the accept chain, one chain of      *)
(* reads and a write per connection, and the stop on a signal.             *)
(*                                                                         *)
(* A handler starts the next operation of its chain; the operation's       *)
(* completion, with an error or without, queues the next handler.  A       *)
(* connection lives as long as an operation or a handler refers to it.     *)
(***************************************************************************)
EXTENDS RequestParser, FiniteSets

CONSTANTS
  Threads,    \* the thread pool
  Inputs,     \* what the peer of each connection may send, in order
  ReadSizes,  \* bound: how much is read at once, if there is as much
  MaxErrors   \* bound: accepts that fail

ASSUME HttpAssumption ==
  /\ IsFiniteSet(Threads)
  /\ Inputs \in Seq(SUBSET Seq(Char)) \ {<<>>}
  /\ ReadSizes \subseteq Nat \ {0} /\ MaxErrors \in Nat

VARIABLES
  queue,      \* handlers that are ready to run
  thread,     \* the handler each thread runs, or that it waits or has exited
  conn,       \* the connections, New before they are used and when freed
  new_connection,  \* the connection the next accept is for
  signalled,  \* a termination signal was raised
  stopped,    \* io_context_.stop() was called
  errors      \* accepts that failed so far

vars == <<queue, thread, conn, new_connection, signalled, stopped, errors>>

Conns    == DOMAIN Inputs
Statuses == {"ok", "bad_request", "not_found"}

Handler(on, c, ok, n) == [on |-> on, c |-> c, ok |-> ok, n |-> n]
Waits  == Handler("waits", 0, TRUE, 0)
Exited == Handler("exited", 0, TRUE, 0)

\* A connection: its outstanding operation, what it was sent and how much of
\* that was read, its parser and its reply.
New == [op |-> "none", input |-> <<>>, at |-> 0, parser |-> NewParser, reply |-> "none"]

\* new_connection_.reset and async_accept; after the last of Conns nobody
\* connects any more.
start_accept(cs, c) ==
  /\ new_connection' = c
  /\ conn' = [d \in Conns |-> IF d = c THEN [New EXCEPT !.op = "accept"] ELSE cs[d]]

Init ==
  /\ queue = <<>>
  /\ thread = [t \in Threads |-> Waits]
  /\ new_connection = 1
  /\ conn = [c \in Conns |-> IF c = 1 THEN [New EXCEPT !.op = "accept"] ELSE New]
  /\ signalled = FALSE /\ stopped = FALSE
  /\ errors = 0

-----------------------------------------------------------------------------
(* Completions.  The pool's threads also wait for them: none after the stop *)

Complete(c, op, handler) ==
  /\ ~stopped /\ conn[c].op = op
  /\ queue' = Append(queue, handler) /\ UNCHANGED new_connection

Accepted(c) ==
  /\ Complete(c, "accept", Handler("accept", c, TRUE, 0))
  /\ \E s \in Inputs[c] : conn' = [conn EXCEPT ![c].op = "none", ![c].input = s]
  /\ UNCHANGED <<thread, signalled, stopped, errors>>

AcceptFailed(c) ==
  /\ errors < MaxErrors /\ errors' = errors + 1
  /\ Complete(c, "accept", Handler("accept", c, FALSE, 0))
  /\ conn' = [conn EXCEPT ![c].op = "none"]
  /\ UNCHANGED <<thread, signalled, stopped>>

\* Some of what the peer sent; the buffer holds 8192 bytes.
SomeRead(c, size) ==
  LET rest == Len(conn[c].input) - conn[c].at
      n == Min({size, rest})
  IN
  /\ rest > 0
  /\ Complete(c, "read", Handler("read", c, TRUE, n))
  /\ conn' = [conn EXCEPT ![c].op = "none", ![c].at = @ + n]
  /\ UNCHANGED <<thread, signalled, stopped, errors>>

Written(c) ==
  /\ Complete(c, "write", Handler("write", c, TRUE, 0))
  /\ conn' = [conn EXCEPT ![c].op = "none"]
  /\ UNCHANGED <<thread, signalled, stopped, errors>>

\* The peer closes or resets the connection.
PeerGone(c) ==
  /\ conn[c].op \in {"read", "write"}
  /\ Complete(c, conn[c].op, Handler(conn[c].op, c, FALSE, 0))
  /\ conn' = [conn EXCEPT ![c].op = "none"]
  /\ UNCHANGED <<thread, signalled, stopped, errors>>

Signal ==
  /\ ~signalled /\ signalled' = TRUE
  /\ queue' = Append(queue, Handler("stop", 0, TRUE, 0))
  /\ UNCHANGED <<thread, conn, new_connection, stopped, errors>>

-----------------------------------------------------------------------------
(* The thread pool *)

Take(t) ==
  /\ thread[t] = Waits /\ ~stopped /\ queue # <<>>
  /\ thread' = [thread EXCEPT ![t] = Head(queue)] /\ queue' = Tail(queue)
  /\ UNCHANGED <<conn, new_connection, signalled, stopped, errors>>

Exit(t) ==
  /\ thread[t] = Waits /\ stopped
  /\ thread' = [thread EXCEPT ![t] = Exited]
  /\ UNCHANGED <<queue, conn, new_connection, signalled, stopped, errors>>

Running(t, on) ==
  /\ thread[t].on = on
  /\ thread' = [thread EXCEPT ![t] = Waits]
  /\ UNCHANGED <<queue, signalled, errors>>

\* Variant: an error ends the accept chain.
handle_accept_ending(t) ==
  LET h == thread[t]
  IN /\ Running(t, "accept")
     /\ \/ h.ok /\ start_accept([conn EXCEPT ![h.c].op = "read"], h.c + 1)
        \/ ~h.ok /\ UNCHANGED <<conn, new_connection>>
     /\ UNCHANGED stopped

\* start() of the connection, and the next accept in any case.
handle_accept(t) ==
  LET h == thread[t]
  IN /\ Running(t, "accept")
     /\ \/ h.ok /\ start_accept([conn EXCEPT ![h.c].op = "read"], h.c + 1)
        \/ ~h.ok /\ start_accept(conn, h.c)
     /\ UNCHANGED stopped

\* The status handle_request gives a request; paths and files are abstract.
handle_request == Statuses

\* Variant: the bad request is written without a reply.
handle_read_silent(t) ==
  LET h == thread[t]
      c == conn[h.c]
      next(p, op, reply) ==
        conn' = [conn EXCEPT ![h.c].parser = p, ![h.c].op = op, ![h.c].reply = reply]
  IN /\ Running(t, "read")
     /\ \/ ~h.ok /\ conn' = [conn EXCEPT ![h.c] = New]
        \/ h.ok /\ \E p \in {parse(c.parser, SubSeq(c.input, c.at - h.n + 1, c.at))} :
             \/ p.state = "true" /\ \E status \in handle_request : next(p, "write", status)
             \/ p.state = "false" /\ next(p, "write", "none")
             \/ p.state \notin {"true", "false"} /\ next(p, "read", "none")
     /\ UNCHANGED <<new_connection, stopped>>

\* An error ends the chain; a verdict is answered, else more is read.
handle_read(t) ==
  LET h == thread[t]
      c == conn[h.c]
      next(p, op, reply) ==
        conn' = [conn EXCEPT ![h.c].parser = p, ![h.c].op = op, ![h.c].reply = reply]
  IN /\ Running(t, "read")
     /\ \/ ~h.ok /\ conn' = [conn EXCEPT ![h.c] = New]
        \/ h.ok /\ \E p \in {parse(c.parser, SubSeq(c.input, c.at - h.n + 1, c.at))} :
             \/ p.state = "true" /\ \E status \in handle_request : next(p, "write", status)
             \/ p.state = "false" /\ next(p, "write", "bad_request")
             \/ p.state \notin {"true", "false"} /\ next(p, "read", "none")
     /\ UNCHANGED <<new_connection, stopped>>

\* The connection is shut down, or broken already, and freed.
handle_write(t) ==
  /\ Running(t, "write")
  /\ conn' = [conn EXCEPT ![thread[t].c] = New]
  /\ UNCHANGED <<new_connection, stopped>>

\* Variant: stop lets the handlers that are ready run first.
handle_stop_draining(t) ==
  /\ Running(t, "stop")
  /\ stopped' = (queue = <<>>)
  /\ UNCHANGED <<conn, new_connection>>

handle_stop(t) ==
  /\ Running(t, "stop")
  /\ stopped' = TRUE
  /\ UNCHANGED <<conn, new_connection>>

Pool(t) ==
  \/ Take(t) \/ Exit(t)
  \/ handle_accept(t) \/ handle_read(t) \/ handle_write(t) \/ handle_stop(t)

Next ==
  \/ \E c \in Conns :
       \/ Accepted(c) \/ AcceptFailed(c) \/ Written(c) \/ PeerGone(c)
       \/ \E size \in ReadSizes : SomeRead(c, size)
  \/ Signal
  \/ \E t \in Threads : Pool(t)

Spec == Init /\ [][Next]_vars /\ \A t \in Threads : WF_vars(Pool(t))

-----------------------------------------------------------------------------
(* Properties *)

TypeOK ==
  /\ \A h \in ToSet(queue) \cup {thread[t] : t \in Threads} :
       /\ h.on \in {"waits", "exited", "accept", "read", "write", "stop"}
       /\ h.c \in Conns \cup {0} /\ h.ok \in BOOLEAN /\ h.n \in Nat
  /\ \A c \in Conns :
       /\ conn[c].op \in {"none", "accept", "read", "write"}
       /\ conn[c].at \in 0..Len(conn[c].input)
       /\ conn[c].parser \in Parser
       /\ conn[c].reply \in (IF conn[c].op = "write" THEN Statuses ELSE Statuses \cup {"none"})
  /\ new_connection \in Conns \cup {Cardinality(Conns) + 1}
  /\ signalled \in BOOLEAN /\ stopped \in BOOLEAN
  /\ errors \in 0..MaxErrors

\* However what the peer sent is cut into reads: a request is found as soon as
\* one was read, as the grammar has it, and it is refused only if what the
\* peer sends does not begin with one.
VerdictsAreTheGrammars ==
  \A c \in Conns :
    LET k == conn[c]
        parsed == SubSeq(k.input, 1, k.at)
        quiet == k.op \in {"read", "write"}  \* every byte read was parsed
    IN /\ k.parser.state = "true" => HasRequest(parsed)
       /\ k.parser.state = "false" => ~HasRequest(k.input)
       /\ k.parser.state \notin {"true", "false"} /\ quiet => ~HasRequest(parsed)

\* A connection never has two operations or handlers at once, which would race
\* on its parser and reply or free it twice; and the server never stops
\* accepting, whatever error an accept has.
References(c) ==
  Cardinality({t \in Threads : thread[t].c = c}) + Cardinality({i \in DOMAIN queue : queue[i].c = c})
    + (IF conn[c].op = "none" THEN 0 ELSE 1)
Accepts ==
  Cardinality({t \in Threads : thread[t].on = "accept"})
    + Cardinality({i \in DOMAIN queue : queue[i].on = "accept"})
    + Cardinality({c \in Conns : conn[c].op = "accept"})
OneChainEach ==
  /\ \A c \in Conns : References(c) <= 1
  /\ new_connection \in Conns => Accepts = 1

\* After a signal every thread of the pool leaves run(), so that the server's
\* run() returns, whatever connections are open.
StopReturns == signalled ~> \A t \in Threads : thread[t] = Exited
=============================================================================
