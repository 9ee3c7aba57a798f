----------------------------- MODULE Supervisor -----------------------------
(***************************************************************************)
(* The init script packaging/S40network_service and the process ownership  *)
(* of src/src/main.cpp: an operator runs start and stop one after the      *)
(* other; start launches a supervisor, a shell loop that launches the      *)
(* daemon again whenever it exits; the daemon owns a process lock.         *)
(*                                                                         *)
(* A step is one command of the script: reading a pidfile and checking the *)
(* process it names is one, and what is done about it is another.  start   *)
(* gives up after START_CHECK_SECONDS however far its supervisor is.       *)
(*                                                                         *)
(* A supervisor is a shell: a SIGTERM that arrives while its trap is set   *)
(* runs the trap before the next command, at once if it waits for its      *)
(* child; without the trap it ends the shell.  The daemon dies of a        *)
(* SIGTERM before its handler is installed, ignores it until the wake pipe *)
(* is published, and shuts down after that.  Before its exec it does not   *)
(* have the command line that child_pid_valid looks for.                   *)
(***************************************************************************)
EXTENDS Naturals

CONSTANTS
    MaxStarts,    \* bound: supervisors launched
    MaxLaunches,  \* bound: daemons launched
    MaxFaults,    \* bound: crashes, failed system calls, starts that give up
    Prompt        \* shells are done with their commands within the script's polls

ASSUME BoundAssumption == MaxStarts \in Nat /\ MaxLaunches \in Nat /\ MaxFaults \in Nat
ASSUME PromptAssumption == Prompt \in BOOLEAN

Sups    == 1..MaxStarts
Daemons == 1..MaxLaunches

VARIABLES
    spc,         \* where each supervisor is in run_supervisor
    stopping, child_pid,   \* its variables; $! is the daemon last launched by it
    launched,    \* $!
    pending,     \* supervisors with a SIGTERM their trap has not handled yet
    daemon,      \* what each daemon is doing
    rc,          \* its exit code: 0, 3, or 1 for any other
    sup_file, child_file, lockdir,   \* pidfiles (0: none) and lock directory
    op,          \* the operator's script: place, pids it read, last command done
    overdue,     \* history: a start gave up on a supervisor that was still coming up
    faults

shell  == <<stopping, child_pid, launched, pending>>
sup    == <<spc, shell>>
files  == <<sup_file, child_file, lockdir>>
vars   == <<sup, daemon, rc, files, op, overdue, faults>>

\* Commands of cleanup_stale_supervisor_artifacts; a supervisor before it has
\* written its pidfile; one whose trap is set.
Cleaning == {"check_sup", "rm_sup", "rm_lock", "check_child", "rm_child"}
Early    == Cleaning \cup {"lock", "holder", "evict", "relock", "pidfile"}
Trapping == {"loop", "setpid", "publish", "wait", "reap"}

Running(d) == daemon[d] \notin {"none", "gone"}
Owner(d) == daemon[d] \in {"locked", "deaf", "serving", "closing"}

supervisor_pid_valid(n) == n # 0 /\ spc[n] \notin {"none", "gone", "killed"}
child_pid_valid(d) == d # 0 /\ Running(d) /\ daemon[d] # "fork"
current_supervisor_pid == IF supervisor_pid_valid(sup_file) THEN sup_file ELSE 0
current_child_pid == IF child_pid_valid(child_file) THEN child_file ELSE 0

\* The next process to be launched, if any is left.
Fresh(state) ==
    {k \in DOMAIN state : state[k] = "none" /\ \A j \in 1..(k - 1) : state[j] # "none"}

Fault == faults > 0 /\ faults' = faults - 1

Init ==
    /\ spc = [n \in Sups |-> "none"]
    /\ stopping = [n \in Sups |-> FALSE]
    /\ child_pid = [n \in Sups |-> 0] /\ launched = [n \in Sups |-> 0]
    /\ pending = {}
    /\ daemon = [d \in Daemons |-> "none"] /\ rc = [d \in Daemons |-> 0]
    /\ sup_file = 0 /\ child_file = 0 /\ lockdir = FALSE
    /\ op = [at |-> "idle", sup |-> 0, child |-> 0, last |-> "start"]
    /\ overdue = FALSE
    /\ faults = MaxFaults

-----------------------------------------------------------------------------
(* The daemon: main. *)
Exit(d, code) ==
    /\ daemon' = [daemon EXCEPT ![d] = "gone"]
    /\ rc' = [rc EXCEPT ![d] = code]
    /\ UNCHANGED <<sup, files, op, overdue>>

Enter(d, place) ==
    /\ daemon' = [daemon EXCEPT ![d] = place]
    /\ UNCHANGED <<sup, rc, files, op, overdue, faults>>

Exec(d) == daemon[d] = "fork" /\ Enter(d, "boot")

\* Mutant: the lock file is opened and not locked.
acquire_Unlocked(d) == daemon[d] = "boot" /\ Enter(d, "locked")

\* Any failure of ProcessSingletonLock::acquire ends the process with 3.
acquire(d) ==
    /\ daemon[d] = "boot"
    /\ \/ (\A e \in Daemons : ~Owner(e)) /\ Enter(d, "locked")
       \/ (\E e \in Daemons : Owner(e)) /\ Exit(d, 3) /\ UNCHANGED faults
       \/ Exit(d, 3) /\ Fault

\* signal(SIGTERM, handle_signal).
InstallHandler(d) == daemon[d] = "locked" /\ Enter(d, "deaf")

\* set_wake_fd and listen.
Serve(d) ==
    /\ daemon[d] = "deaf"
    /\ \/ Enter(d, "serving")
       \/ Exit(d, 1) /\ Fault

ShutDown(d) == daemon[d] = "closing" /\ Exit(d, 0) /\ UNCHANGED faults

\* A crash, or an exec that fails.
Crash(d) == Running(d) /\ Exit(d, 1) /\ Fault

\* kill -TERM as seen by the daemon (handle_signal).
Signalled(d) ==
    CASE daemon[d] \in {"boot", "locked"} -> "gone"
      [] daemon[d] = "serving" -> "closing"
      [] OTHER -> daemon[d]
TermChild(d) == daemon' = IF child_pid_valid(d) THEN [daemon EXCEPT ![d] = Signalled(d)] ELSE daemon

-----------------------------------------------------------------------------
(* run_supervisor. *)
\* Mutant: whatever the pidfile says, the artifacts go.
cleanup_stale_supervisor_artifacts_Always(at, after) ==
    CASE at = "check_sup"   -> "rm_sup"
      [] at = "rm_sup"      -> "rm_lock"
      [] at = "rm_lock"     -> "check_child"
      [] at = "check_child" -> "rm_child"
      [] at = "rm_child"    -> after

\* The command after the one at "at": an artifact is removed if its process was
\* not valid when it was checked, whatever was written since.
cleanup_stale_supervisor_artifacts(at, after) ==
    CASE at = "check_sup"   -> IF current_supervisor_pid = 0 THEN "rm_sup" ELSE "check_child"
      [] at = "rm_sup"      -> "rm_lock"
      [] at = "rm_lock"     -> "check_child"
      [] at = "check_child" -> IF current_child_pid = 0 THEN "rm_child" ELSE after
      [] at = "rm_child"    -> after

\* What that command does to the files.
Removed(at) ==
    /\ sup_file' = IF at = "rm_sup" THEN 0 ELSE sup_file
    /\ lockdir' = (lockdir /\ at # "rm_lock")
    /\ child_file' = IF at = "rm_child" THEN 0 ELSE child_file

Goto(n, from, to) ==
    /\ spc[n] = from /\ n \notin pending
    /\ spc' = [spc EXCEPT ![n] = to]

\* A process that ends takes its variables and its signals with it.
End(n, place) ==
    /\ spc' = [spc EXCEPT ![n] = place]
    /\ stopping' = [stopping EXCEPT ![n] = FALSE]
    /\ child_pid' = [child_pid EXCEPT ![n] = 0]
    /\ launched' = [launched EXCEPT ![n] = 0]
    /\ pending' = pending \ {n}

Cleanup(n) ==
    /\ spc[n] \in Cleaning
    /\ Goto(n, spc[n], cleanup_stale_supervisor_artifacts(spc[n], "lock"))
    /\ Removed(spc[n])
    /\ UNCHANGED <<shell, daemon, rc, op, overdue, faults>>

\* mkdir.
Lock(n) ==
    /\ Goto(n, "lock", IF lockdir THEN "holder" ELSE "pidfile")
    /\ lockdir' = TRUE
    /\ UNCHANGED <<shell, daemon, rc, sup_file, child_file, op, overdue, faults>>

\* A lock directory without a live supervisor is removed and made once more; if
\* that fails the supervisor gives way.
LockHeld(n) ==
    /\ Goto(n, "holder", IF current_supervisor_pid # 0 THEN "gone" ELSE "evict")
    /\ UNCHANGED <<shell, daemon, rc, files, op, overdue, faults>>

Evict(n) ==
    /\ Goto(n, "evict", "relock")
    /\ lockdir' = FALSE
    /\ UNCHANGED <<shell, daemon, rc, sup_file, child_file, op, overdue, faults>>

Relock(n) ==
    /\ Goto(n, "relock", IF lockdir THEN "gone" ELSE "pidfile")
    /\ lockdir' = TRUE
    /\ UNCHANGED <<shell, daemon, rc, sup_file, child_file, op, overdue, faults>>

\* After a failed write, which may have emptied the file, the lock is given back.
WritePidfile(n) ==
    /\ \/ Goto(n, "pidfile", "trap") /\ sup_file' = n /\ UNCHANGED faults
       \/ Goto(n, "pidfile", "unlock") /\ sup_file' \in {0, sup_file} /\ Fault
    /\ UNCHANGED <<shell, daemon, rc, child_file, lockdir, op, overdue>>

SetTrap(n) ==
    /\ Goto(n, "trap", "loop")
    /\ UNCHANGED <<shell, daemon, rc, files, op, overdue, faults>>

\* The loop test, and the daemon in the background.
Loop(n) ==
    \/ /\ stopping[n] /\ Goto(n, "loop", "remove")
       /\ UNCHANGED <<shell, daemon, rc, files, op, overdue, faults>>
    \/ /\ ~stopping[n] /\ Goto(n, "loop", "setpid")
       /\ \E d \in Fresh(daemon) :
            /\ daemon' = [daemon EXCEPT ![d] = "fork"]
            /\ launched' = [launched EXCEPT ![n] = d]
       /\ UNCHANGED <<stopping, child_pid, pending, rc, files, op, overdue, faults>>

SetChildPid(n) ==
    /\ Goto(n, "setpid", "publish")
    /\ child_pid' = [child_pid EXCEPT ![n] = launched[n]]
    /\ launched' = [launched EXCEPT ![n] = 0]
    /\ UNCHANGED <<stopping, pending, daemon, rc, files, op, overdue, faults>>

PublishChild(n) ==
    /\ Goto(n, "publish", "wait")
    /\ child_file' = child_pid[n]
    /\ UNCHANGED <<shell, daemon, rc, sup_file, lockdir, op, overdue, faults>>

Wait(n) ==
    /\ Goto(n, "wait", "reap")
    /\ ~Running(child_pid[n])
    /\ UNCHANGED <<shell, daemon, rc, files, op, overdue, faults>>

\* Mutant: an exit code other than 0 is the end.
Reap_NoRestart(n) ==
    /\ Goto(n, "reap", IF stopping[n] \/ rc[child_pid[n]] # 0 THEN "remove" ELSE "loop")
    /\ child_file' = 0
    /\ child_pid' = [child_pid EXCEPT ![n] = 0]
    /\ UNCHANGED <<stopping, launched, pending, daemon, rc, sup_file, lockdir, op, overdue, faults>>

\* Exit code 3 is the singleton's refusal; any other exit leads to a restart.
Reap(n) ==
    /\ Goto(n, "reap", IF stopping[n] \/ rc[child_pid[n]] = 3 THEN "remove" ELSE "loop")
    /\ child_file' = 0
    /\ child_pid' = [child_pid EXCEPT ![n] = 0]
    /\ UNCHANGED <<stopping, launched, pending, daemon, rc, sup_file, lockdir, op, overdue, faults>>

RemovePidfiles(n) ==
    /\ Goto(n, "remove", "unlock")
    /\ sup_file' = 0 /\ child_file' = 0
    /\ UNCHANGED <<shell, daemon, rc, lockdir, op, overdue, faults>>

Unlock(n) ==
    /\ spc[n] = "unlock" /\ End(n, "gone")
    /\ lockdir' = FALSE
    /\ UNCHANGED <<daemon, rc, sup_file, child_file, op, overdue, faults>>

\* request_stop; a wait that is interrupted returns.
request_stop(n) ==
    /\ n \in pending /\ pending' = pending \ {n}
    /\ stopping' = [stopping EXCEPT ![n] = TRUE]
    /\ TermChild(child_pid[n])
    /\ spc' = [spc EXCEPT ![n] = IF @ = "wait" THEN "reap" ELSE @]
    /\ UNCHANGED <<child_pid, launched, rc, files, op, overdue, faults>>

SupervisorDies(n) ==
    /\ supervisor_pid_valid(n) /\ Fault
    /\ End(n, "killed")
    /\ UNCHANGED <<daemon, rc, files, op, overdue>>

run_supervisor(n) ==
    \/ Cleanup(n) \/ Lock(n) \/ LockHeld(n) \/ Evict(n) \/ Relock(n) \/ WritePidfile(n)
    \/ SetTrap(n) \/ Loop(n) \/ SetChildPid(n) \/ PublishChild(n)
    \/ Wait(n) \/ Reap(n) \/ RemovePidfiles(n) \/ Unlock(n) \/ request_stop(n)

-----------------------------------------------------------------------------
(* start_service and stop_service. *)
StartBegin ==
    /\ op.at = "idle" /\ Fresh(spc) # {}
    /\ op' = [op EXCEPT !.at = cleanup_stale_supervisor_artifacts("check_sup", "decide")]
    /\ UNCHANGED <<sup, daemon, rc, files, overdue, faults>>

StartCleanup ==
    /\ op.at \in Cleaning
    /\ op' = [op EXCEPT !.at = cleanup_stale_supervisor_artifacts(op.at, "decide")]
    /\ Removed(op.at)
    /\ UNCHANGED <<sup, daemon, rc, overdue, faults>>

StartDecide ==
    /\ op.at = "decide"
    /\ op' = IF current_supervisor_pid # 0 THEN [op EXCEPT !.at = "idle", !.last = "start"]
                                           ELSE [op EXCEPT !.at = "launch"]
    /\ UNCHANGED <<sup, daemon, rc, files, overdue, faults>>

StartLaunch ==
    /\ op.at = "launch"
    /\ \E n \in Fresh(spc) :
         /\ spc' = [spc EXCEPT ![n] = "check_sup"]
         /\ op' = [op EXCEPT !.at = "check", !.sup = n]
    /\ UNCHANGED <<shell, daemon, rc, files, overdue, faults>>

\* Both pids are valid, or the supervisor is gone, or START_CHECK_SECONDS are over:
\* what ends the checks makes no difference to what is left.
StartReturn ==
    /\ op.at = "check"
    /\ Prompt => current_child_pid # 0 \/ ~supervisor_pid_valid(op.sup)
    /\ IF spc[op.sup] \in Early THEN overdue' = TRUE /\ Fault ELSE UNCHANGED <<overdue, faults>>
    /\ op' = [op EXCEPT !.at = "idle", !.sup = 0, !.last = "start"]
    /\ UNCHANGED <<sup, daemon, rc, files>>

\* The supervisor is ended by a signal, if it still runs.
Kill(n) == IF supervisor_pid_valid(n) THEN End(n, "gone") ELSE UNCHANGED sup

\* Both pids are read before anything is signalled.
StopRead ==
    /\ op.at = "idle"
    /\ op' = [op EXCEPT !.at = "read", !.sup = current_supervisor_pid]
    /\ UNCHANGED <<sup, daemon, rc, files, overdue, faults>>

StopReadChild ==
    /\ op.at = "read"
    /\ op' = [op EXCEPT !.at = IF op.sup # 0 THEN "term" ELSE "child", !.child = current_child_pid]
    /\ UNCHANGED <<sup, daemon, rc, files, overdue, faults>>

\* Between its loop and trap - the supervisor still has the trap, which finds
\* no child; after trap - the signal kills it.
StopTerm ==
    /\ op.at = "term"
    /\ op' = [op EXCEPT !.at = "poll"]
    /\ IF spc[op.sup] \in Trapping
       THEN pending' = pending \cup {op.sup} /\ UNCHANGED <<spc, stopping, child_pid, launched>>
       ELSE \/ Kill(op.sup)
            \/ spc[op.sup] = "remove" /\ UNCHANGED sup
    /\ UNCHANGED <<daemon, rc, files, overdue, faults>>

\* Mutant: after five polls the supervisor is left to itself.
StopPoll_NoKill ==
    /\ op.at = "poll"
    /\ op' = [op EXCEPT !.at = "child"]
    /\ UNCHANGED <<sup, daemon, rc, files, overdue, faults>>

\* Five polls, then SIGKILL to a supervisor that is still there, for example
\* because its child does not exit.
StopPoll ==
    /\ op.at = "poll"
    /\ Prompt /\ supervisor_pid_valid(op.sup) => spc[op.sup] = "wait" /\ op.sup \notin pending
    /\ op' = [op EXCEPT !.at = "child"]
    /\ Kill(op.sup)
    /\ UNCHANGED <<daemon, rc, files, overdue, faults>>

StopChild ==
    /\ op.at = "child"
    /\ TermChild(op.child)
    /\ op' = [op EXCEPT !.at = "remove", !.sup = 0, !.child = 0]
    /\ UNCHANGED <<sup, rc, files, overdue, faults>>

StopRemove ==
    /\ op.at = "remove"
    /\ sup_file' = 0 /\ child_file' = 0
    /\ op' = [op EXCEPT !.at = "unlock"]
    /\ UNCHANGED <<sup, daemon, rc, lockdir, overdue, faults>>

StopUnlock ==
    /\ op.at = "unlock"
    /\ lockdir' = FALSE
    /\ op' = [op EXCEPT !.at = "idle", !.last = "stop"]
    /\ UNCHANGED <<sup, daemon, rc, sup_file, child_file, overdue, faults>>

start_service == StartCleanup \/ StartDecide \/ StartLaunch \/ StartReturn
stop_service == StopReadChild \/ StopTerm \/ StopPoll \/ StopChild \/ StopRemove \/ StopUnlock
main(d) == Exec(d) \/ acquire(d) \/ InstallHandler(d) \/ Serve(d) \/ ShutDown(d)

Next ==
    \/ StartBegin \/ start_service
    \/ StopRead \/ stop_service
    \/ \E n \in Sups : run_supervisor(n) \/ SupervisorDies(n)
    \/ \E d \in Daemons : main(d) \/ Crash(d)

Spec == Init /\ [][Next]_vars

\* Processes that can run do; commands of the operator and crashes need not come.
FairSpec ==
    /\ Spec
    /\ \A n \in Sups : WF_vars(run_supervisor(n))
    /\ \A d \in Daemons : WF_vars(main(d))

-----------------------------------------------------------------------------
(* Properties *)
\* Types of the variables.
TypeOK ==
    /\ spc \in [Sups -> {"none", "trap", "remove", "unlock", "gone", "killed"} \cup Early \cup Trapping]
    /\ stopping \in [Sups -> BOOLEAN]
    /\ child_pid \in [Sups -> 0..MaxLaunches] /\ launched \in [Sups -> 0..MaxLaunches]
    /\ pending \subseteq Sups
    /\ daemon \in [Daemons -> {"none", "fork", "boot", "locked", "deaf", "serving", "closing", "gone"}]
    /\ rc \in [Daemons -> Nat]
    /\ sup_file \in 0..MaxStarts /\ child_file \in 0..MaxLaunches /\ lockdir \in BOOLEAN
    /\ op \in [at : Cleaning \cup {"idle", "decide", "launch", "check", "read", "term", "poll",
                                   "child", "remove", "unlock"},
               sup : 0..MaxStarts, child : 0..MaxLaunches, last : {"start", "stop"}]
    /\ overdue \in BOOLEAN /\ faults \in Nat

\* What stop and status rely on, unless a start gave up on its supervisor: a
\* supervisor in its loop is the one the pidfile names, so there is one at most;
\* and while it waits for a daemon the other pidfile names that one or is missing,
\* which a start that looked before it was written may cause, but names no other.
PidfilesTrue ==
    ~overdue =>
        \A n \in Sups :
            /\ spc[n] \in Trapping => sup_file = n
            /\ spc[n] = "wait" => child_file \in {0, child_pid[n]}

\* A stop is complete as far as supervisors go (network_service_supervisor_test.sh:
\* "stop left ownership artifacts"), unless a start gave up on its supervisor: none
\* is left that could launch a daemon, and no pidfile or lock either.
StopEndsSupervision ==
    ~overdue /\ op.at = "idle" /\ op.last = "stop" =>
        /\ \A n \in Sups : spc[n] \in {"none", "unlock", "gone", "killed"}
        /\ sup_file = 0 /\ child_file = 0 /\ ~lockdir

\* network_service_supervisor_test.sh: "stop left child process running".  After a
\* stop no daemon is left that is not on its way out.
StopEndsDaemon ==
    op.at = "idle" /\ op.last = "stop" =>
        \A d \in Daemons : Running(d) => daemon[d] = "closing"

\* The service comes back: a supervisor in its loop gets a daemon serving, however
\* often it exits, unless it is stopped or killed or the process lock is refused.
Supervised ==
    \A n \in Sups :
        spc[n] \in Trapping ~>
            \/ \E d \in Daemons : daemon[d] = "serving"
            \/ stopping[n] \/ n \in pending \/ spc[n] = "killed"
            \/ child_pid[n] # 0 /\ rc[child_pid[n]] = 3
            \/ Fresh(daemon) = {}

\* Two supervisors, which a start that gave up can lead to, do not stay: the daemon
\* of one is refused by the process lock, and that supervisor leaves instead of
\* launching it again and again (the comment on exit code 3 in run_supervisor).
SupervisorsSettle ==
    (\E n, m \in Sups : n # m /\ spc[n] \in Trapping /\ spc[m] \in Trapping) ~>
        \/ \A n, m \in Sups : spc[n] \in Trapping /\ spc[m] \in Trapping => n = m
        \/ Fresh(daemon) = {} /\ \E n \in Sups : spc[n] = "loop"
=============================================================================
