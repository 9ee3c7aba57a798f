-------------------------- MODULE NetworkIpcStream ---------------------------
(***************************************************************************)
(* The event stream a subscriber of NetworkIpcServer hears, as the         *)
(* abstract EventStream: the refinement mapping and the promise.           *)
(***************************************************************************)
EXTENDS NetworkIpcServer, FiniteSetsExt

\* The number a subscribed session heard last, or the one before its first event.
Position(c) ==
    LET todo == Pipe(conn[c])
    IN  IF app[c].heard # 0 THEN app[c].heard ELSE todo[Min(Events(todo))].seq - 1

Promise == INSTANCE EventStream WITH
    last <- last_sequence,
    sub  <- {c \in Consumers : Subscribed(c)},
    pos  <- [c \in Consumers |-> IF Subscribed(c) THEN Position(c) ELSE 0]

\* The server implements the abstract event stream: queues, sockets, flushes,
\* overflow and exhausted numbers are invisible behind one numbered stream that a
\* subscriber hears from its own subscription on without a gap, or is cut off.
StreamPromised == Promise!Spec
=============================================================================
