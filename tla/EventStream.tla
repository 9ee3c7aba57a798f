----------------------------- MODULE EventStream -----------------------------
(***************************************************************************)
(* What the v1 event stream promises, without queues, sockets or frames:   *)
(* one numbered stream for everyone; a subscriber hears every number from  *)
(* the one of its own subscription on, in order, or loses its session.     *)
(* NetworkIpcServer implements it (see Promise in NetworkIpcStream).       *)
(***************************************************************************)
EXTENDS Naturals

CONSTANTS
    Consumers,
    MaxSeq     \* largest sequence number

VARIABLES
    last,      \* last number given to an event
    sub,       \* consumers with a subscribed session
    pos        \* the number each of them heard last, 0 for the others

evars == <<last, sub, pos>>

Init == last = 0 /\ sub = {} /\ pos = [c \in Consumers |-> 0]

\* A new event, possibly the one that announces the subscription of c.  Anyone
\* too slow to take it is dropped.
Allocate(joining, dropped) ==
    /\ last < MaxSeq /\ last' = last + 1
    /\ joining \cap sub = {} /\ \A c, d \in joining : c = d
    /\ sub' = (sub \cup joining) \ dropped
    /\ pos' = [c \in Consumers |-> IF c \notin sub' THEN 0
                                   ELSE IF c \in joining THEN last ELSE pos[c]]

Hear(c) ==
    /\ c \in sub /\ pos[c] < last
    /\ pos' = [pos EXCEPT ![c] = @ + 1]
    /\ UNCHANGED <<last, sub>>

Leave(c) ==
    /\ c \in sub
    /\ sub' = sub \ {c}
    /\ pos' = [pos EXCEPT ![c] = 0]
    /\ UNCHANGED last

Next ==
    \/ \E joining, dropped \in SUBSET Consumers : Allocate(joining, dropped)
    \/ \E c \in Consumers : Hear(c) \/ Leave(c)

Spec == Init /\ [][Next]_evars
=============================================================================
