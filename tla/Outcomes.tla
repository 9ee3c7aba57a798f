------------------------------ MODULE Outcomes ------------------------------
(***************************************************************************)
(* A function that makes several fallible calls is a set of outcomes       *)
(* [ok, s]: its return value and the state it leaves, one per pattern of   *)
(* failures.  The record s carries, as s.faults, how many calls may still  *)
(* fail.                                                                   *)
(***************************************************************************)
EXTENDS Integers

Ok(s) == {[ok |-> TRUE, s |-> s]}
Failed(s) == IF s.faults > 0 THEN {[ok |-> FALSE, s |-> [s EXCEPT !.faults = @ - 1]]} ELSE {}
\* Go on only after success (an early return on failure).
Then(outs, F(_)) == UNION {IF o.ok THEN F(o.s) ELSE {o} : o \in outs}
\* Go on whatever the result: (void)call.
Always(outs, F(_)) == UNION {F(o.s) : o \in outs}
\* On failure clean up, whatever the result, and keep failing.
Rollback(outs, F(_)) ==
    UNION {IF o.ok THEN {o} ELSE {[ok |-> FALSE, s |-> u.s] : u \in F(o.s)} : o \in outs}
=============================================================================
