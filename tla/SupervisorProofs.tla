-------------------------- MODULE SupervisorProofs --------------------------
(***************************************************************************)
(* Proofs about Supervisor for any number of supervisors, daemons and      *)
(* faults, whether or not Prompt holds.  What they say is conditional on   *)
(* no start having given up on a supervisor that was still coming up.      *)
(***************************************************************************)
EXTENDS Supervisor, TLAPS

\* Time limits of the leaves that name no prover.
USE SMTT(60), ZenonT(60)

\* A supervisor that has written its pidfile and did not remove it yet.
Owning == {"trap", "remove"} \cup Trapping

DaemonPlaces == {"none", "fork", "boot", "locked", "deaf", "serving", "closing", "gone"}
OpPlaces ==
    Cleaning \cup {"idle", "decide", "launch", "check", "read", "term", "poll",
                   "child", "remove", "unlock"}

\* The script waits for, signals and kills a process that was launched.
Target == op.at \in {"check", "term", "poll"} => op.sup \in Sups

NoOwner == \A n \in Sups : spc[n] \notin Owning

\* The pidfile is the lock: it names the one supervisor past its start, a start
\* returns only when its supervisor is no longer early, and artifacts are removed,
\* and supervisors launched, only when none is left that owns them.
Ownership ==
    /\ \A n \in Sups : spc[n] \in Owning => sup_file = n
    /\ sup_file # 0 => spc[sup_file] \in Owning \cup {"gone", "killed"}
    /\ \A n \in Sups : spc[n] \in Early => op.at = "check" /\ op.sup = n /\ NoOwner
    /\ op.at \in {"read", "term", "poll"} => \A n \in Sups : spc[n] \in Owning => n = op.sup
    /\ op.at \in {"rm_sup", "rm_lock", "launch", "child", "remove", "unlock"} => NoOwner
    /\ op.at = "unlock" => sup_file = 0 /\ child_file = 0

\* The child's pidfile names no daemon but the one its supervisor waits for.
ChildPublished ==
    \A n \in Sups : spc[n] = "wait" => child_file \in {0, child_pid[n]}

-----------------------------------------------------------------------------
\* Pid 0 stands for no process.
LEMMA Pids ==
    /\ 0 \in 0..MaxStarts /\ 0 \in 0..MaxLaunches
    /\ \A n \in Sups : n \in 0..MaxStarts /\ n # 0
    /\ \A n \in 0..MaxStarts : n # 0 => n \in Sups
    /\ \A d \in Daemons : d \in 0..MaxLaunches /\ d # 0
    /\ \A d \in 0..MaxLaunches : d # 0 => d \in Daemons
  BY BoundAssumption DEF Sups, Daemons

LEMMA FreshIsNew ==
    ASSUME NEW state, NEW k \in Fresh(state)
    PROVE  k \in DOMAIN state /\ state[k] = "none"
  BY DEF Fresh

\* A SIGTERM leaves a daemon in one of its states.
LEMMA SignalledType ==
    ASSUME TypeOK, NEW d \in Daemons
    PROVE  Signalled(d) \in DaemonPlaces
<1>1. daemon[d] \in DaemonPlaces
  BY DEF TypeOK, DaemonPlaces
<1>2. CASE daemon[d] \in {"boot", "locked"}  BY <1>2 DEF Signalled, DaemonPlaces
<1>3. CASE daemon[d] = "serving"  BY <1>3 DEF Signalled, DaemonPlaces
<1>4. CASE daemon[d] \notin {"boot", "locked", "serving"}
  <2>1. Signalled(d) = daemon[d]  BY <1>4 DEF Signalled
  <2> QED BY <1>1, <2>1
<1> QED BY <1>2, <1>3, <1>4

LEMMA TermChildType ==
    ASSUME TypeOK, NEW d \in 0..MaxLaunches, TermChild(d)
    PROVE  daemon' \in [Daemons -> DaemonPlaces]
<1>1. CASE child_pid_valid(d)
  <2>1. d \in Daemons
    BY <1>1, Pids DEF child_pid_valid
  <2> QED BY <1>1, <2>1, SignalledType DEF TermChild, TypeOK, DaemonPlaces
<1>2. CASE ~child_pid_valid(d)
  BY <1>2 DEF TermChild, TypeOK, DaemonPlaces
<1> QED BY <1>1, <1>2

\* Cleaning up goes from one of its commands to another or is done.
LEMMA CleanupNext ==
    ASSUME NEW at \in Cleaning, NEW after
    PROVE  /\ cleanup_stale_supervisor_artifacts(at, after) \in Cleaning \cup {after}
           /\ cleanup_stale_supervisor_artifacts(at, after) = "rm_sup" /\ after # "rm_sup" =>
                at = "check_sup" /\ current_supervisor_pid = 0
           /\ cleanup_stale_supervisor_artifacts(at, after) = "rm_lock" /\ after # "rm_lock" =>
                at = "rm_sup"
<1> USE DEF cleanup_stale_supervisor_artifacts, Cleaning
<1>1. CASE at = "check_sup"    BY <1>1
<1>2. CASE at = "rm_sup"       BY <1>2
<1>3. CASE at = "rm_lock"      BY <1>3
<1>4. CASE at = "check_child"  BY <1>4
<1>5. CASE at = "rm_child"     BY <1>5
<1> QED BY <1>1, <1>2, <1>3, <1>4, <1>5

LEMMA RemovedType ==
    ASSUME TypeOK, NEW at, Removed(at)
    PROVE  /\ sup_file' \in 0..MaxStarts /\ child_file' \in 0..MaxLaunches
           /\ lockdir' \in BOOLEAN
  BY Pids DEF TypeOK, Removed

\* The end of a supervisor.
LEMMA EndType ==
    ASSUME TypeOK, NEW n \in Sups, NEW place \in {"gone", "killed"}, End(n, place)
    PROVE  /\ spc' \in [Sups -> {"none", "trap", "remove", "unlock", "gone", "killed"}
                                   \cup Early \cup Trapping]
           /\ stopping' \in [Sups -> BOOLEAN]
           /\ child_pid' \in [Sups -> 0..MaxLaunches] /\ launched' \in [Sups -> 0..MaxLaunches]
           /\ pending' \subseteq Sups
  BY Pids DEF End, TypeOK

\* Every command of the script keeps the types.
LEMMA ScriptType ==
    ASSUME TypeOK, Target, StartBegin \/ start_service \/ StopRead \/ stop_service
    PROVE  TypeOK' /\ Target'
<1> USE Pids
<1> DEFINE Rec == [at : OpPlaces, sup : 0..MaxStarts, child : 0..MaxLaunches,
                   last : {"start", "stop"}]
<1>0. current_supervisor_pid \in 0..MaxStarts /\ current_child_pid \in 0..MaxLaunches
  BY DEF TypeOK, current_supervisor_pid, current_child_pid
<1>1. CASE StartBegin
  <2>1. cleanup_stale_supervisor_artifacts("check_sup", "decide") \in Cleaning \cup {"decide"}
    BY CleanupNext DEF Cleaning
  <2>2. op' \in Rec /\ op'.at \in Cleaning \cup {"decide"}
    BY <1>1, <2>1 DEF StartBegin, TypeOK, OpPlaces
  <2>3. Target'
    BY <2>2 DEF Target, Cleaning
  <2> QED BY <1>1, <2>2, <2>3 DEF StartBegin, TypeOK, OpPlaces, sup, shell, files
<1>2. CASE StartCleanup
  <2>1. cleanup_stale_supervisor_artifacts(op.at, "decide") \in Cleaning \cup {"decide"}
    BY <1>2, CleanupNext DEF StartCleanup
  <2>2. op' \in Rec /\ op'.at \in Cleaning \cup {"decide"}
    BY <1>2, <2>1 DEF StartCleanup, TypeOK, OpPlaces
  <2>3. Target'
    BY <2>2 DEF Target, Cleaning
  <2> QED BY <1>2, <2>2, <2>3, RemovedType DEF StartCleanup, TypeOK, OpPlaces, sup, shell
<1>3. CASE StartDecide
  <2>1. op' \in Rec /\ op'.at \in {"idle", "launch"}
    BY <1>3, ZenonT(60) DEF StartDecide, TypeOK, OpPlaces
  <2>2. Target'
    BY <2>1 DEF Target
  <2> QED BY <1>3, <2>1, <2>2 DEF StartDecide, TypeOK, OpPlaces, sup, shell, files
<1>4. CASE StartLaunch
  <2>1. PICK n \in Fresh(spc) : /\ spc' = [spc EXCEPT ![n] = "check_sup"]
                                /\ op' = [op EXCEPT !.at = "check", !.sup = n]
    BY <1>4, ZenonT(60) DEF StartLaunch
  <2>2. n \in Sups
    BY <2>1, FreshIsNew DEF TypeOK
  <2>3. op' \in Rec /\ op'.sup = n
    BY <2>1, <2>2, ZenonT(60) DEF TypeOK, OpPlaces
  <2>4. Target'
    BY <2>2, <2>3 DEF Target
  <2>5. spc' \in [Sups -> {"none", "trap", "remove", "unlock", "gone", "killed"}
                             \cup Early \cup Trapping]
    BY <2>1, <2>2 DEF TypeOK, Early, Cleaning
  <2> QED BY <1>4, <2>3, <2>4, <2>5 DEF StartLaunch, TypeOK, OpPlaces, shell, files
<1>5. CASE StartReturn
  <2>1. op' \in Rec /\ op'.at = "idle"
    BY <1>5, ZenonT(60) DEF StartReturn, TypeOK, OpPlaces
  <2>2. Target'
    BY <2>1 DEF Target
  <2>3. overdue' \in BOOLEAN /\ faults' \in Nat
    <3>1. overdue \in BOOLEAN /\ faults \in Nat
      BY DEF TypeOK
    <3>2. CASE overdue' = TRUE /\ Fault
      BY <3>1, <3>2 DEF Fault
    <3>3. CASE UNCHANGED <<overdue, faults>>
      BY <3>1, <3>3
    <3> QED BY <1>5, <3>2, <3>3, ZenonT(60) DEF StartReturn
  <2> QED BY <1>5, <2>1, <2>2, <2>3 DEF StartReturn, TypeOK, OpPlaces, sup, shell, files
<1>6. CASE StopRead
  <2>1. op' \in Rec /\ op'.at = "read"
    BY <1>0, <1>6, ZenonT(60) DEF StopRead, TypeOK, OpPlaces
  <2>2. Target'
    BY <2>1 DEF Target
  <2> QED BY <1>6, <2>1, <2>2 DEF StopRead, TypeOK, OpPlaces, sup, shell, files
<1>7. CASE StopReadChild
  <2>1. op' \in Rec /\ op'.at \in {"term", "child"} /\ (op'.at = "term" => op'.sup # 0)
    BY <1>0, <1>7, ZenonT(60) DEF StopReadChild, TypeOK, OpPlaces
  <2>2. Target'
    BY <2>1 DEF Target
  <2> QED BY <1>7, <2>1, <2>2 DEF StopReadChild, TypeOK, OpPlaces, sup, shell, files
<1>8. ASSUME NEW n \in Sups, Kill(n)
      PROVE  /\ spc' \in [Sups -> {"none", "trap", "remove", "unlock", "gone", "killed"}
                                     \cup Early \cup Trapping]
             /\ stopping' \in [Sups -> BOOLEAN]
             /\ child_pid' \in [Sups -> 0..MaxLaunches] /\ launched' \in [Sups -> 0..MaxLaunches]
             /\ pending' \subseteq Sups
  <2>1. CASE UNCHANGED sup  BY <2>1 DEF sup, shell, TypeOK
  <2>2. CASE End(n, "gone")  BY <2>2, EndType
  <2> QED BY <1>8, <2>1, <2>2 DEF Kill
<1>9. CASE StopTerm
  <2>1. op' \in Rec /\ op'.sup = op.sup /\ op.sup \in Sups
    BY <1>9 DEF StopTerm, TypeOK, OpPlaces, Target
  <2>2. Target'
    BY <2>1 DEF Target
  <2>3. CASE Kill(op.sup)
    BY <1>8, <1>9, <2>1, <2>2, <2>3 DEF StopTerm, TypeOK, OpPlaces, files
  <2>4. CASE pending' = pending \cup {op.sup} /\ UNCHANGED <<spc, stopping, child_pid, launched>>
    BY <1>9, <2>1, <2>2, <2>4 DEF StopTerm, TypeOK, OpPlaces, files
  <2>5. CASE UNCHANGED sup
    BY <1>9, <2>1, <2>2, <2>5 DEF StopTerm, TypeOK, OpPlaces, files, sup, shell
  <2> QED BY <1>9, <2>3, <2>4, <2>5 DEF StopTerm
<1>10. CASE StopPoll
  <2>1. op' \in Rec /\ op'.at = "child" /\ op.sup \in Sups
    BY <1>10 DEF StopPoll, TypeOK, OpPlaces, Target
  <2>2. Target'
    BY <2>1 DEF Target
  <2> QED BY <1>8, <1>10, <2>1, <2>2 DEF StopPoll, TypeOK, OpPlaces, files
<1>11. CASE StopChild
  <2>1. op.child \in 0..MaxLaunches
    BY DEF TypeOK
  <2>2. daemon' \in [Daemons -> DaemonPlaces]
    BY <1>11, <2>1, TermChildType DEF StopChild
  <2>3. op' \in Rec /\ op'.at = "remove"
    BY <1>11, ZenonT(60) DEF StopChild, TypeOK, OpPlaces
  <2>4. Target'
    BY <2>3 DEF Target
  <2> QED BY <1>11, <2>2, <2>3, <2>4 DEF StopChild, TypeOK, DaemonPlaces, OpPlaces, sup, shell, files
<1>12. CASE StopRemove
  <2>1. op' \in Rec /\ op'.at = "unlock"
    BY <1>12 DEF StopRemove, TypeOK, OpPlaces
  <2>2. Target'
    BY <2>1 DEF Target
  <2> QED BY <1>12, <2>1, <2>2 DEF StopRemove, TypeOK, OpPlaces, sup, shell
<1>13. CASE StopUnlock
  <2>1. op' \in Rec /\ op'.at = "idle"
    BY <1>13, ZenonT(60) DEF StopUnlock, TypeOK, OpPlaces
  <2>2. Target'
    BY <2>1 DEF Target
  <2> QED BY <1>13, <2>1, <2>2, ZenonT(60) DEF StopUnlock, TypeOK, OpPlaces, sup, shell
<1> QED
  BY <1>1, <1>2, <1>3, <1>4, <1>5, <1>6, <1>7, <1>9, <1>10, <1>11, <1>12, <1>13
  DEF start_service, stop_service

\* Every command of a supervisor, and its death, keeps the types.
LEMMA SupervisorType ==
    ASSUME TypeOK, NEW n \in Sups, run_supervisor(n) \/ SupervisorDies(n)
    PROVE  TypeOK' /\ op' = op
<1> USE Pids
<1> DEFINE Places == {"none", "trap", "remove", "unlock", "gone", "killed"} \cup Early \cup Trapping
<1>0. ASSUME NEW to \in Places, spc' = [spc EXCEPT ![n] = to]
      PROVE  spc' \in [Sups -> Places]
  BY <1>0 DEF TypeOK
<1>1. CASE Cleanup(n)
  <2>1. cleanup_stale_supervisor_artifacts(spc[n], "lock") \in Cleaning \cup {"lock"}
    BY <1>1, CleanupNext DEF Cleanup
  <2>2. spc' \in [Sups -> Places]
    BY <1>0, <1>1, <2>1, ZenonT(60) DEF Cleanup, Goto, Early
  <2> QED BY <1>1, <2>2, RemovedType DEF Cleanup, TypeOK, shell
<1>2. CASE Lock(n)
  <2>1. spc' \in [Sups -> Places]
    BY <1>0, <1>2, ZenonT(60) DEF Lock, Goto, Early
  <2> QED BY <1>2, <2>1 DEF Lock, TypeOK, shell
<1>3. CASE LockHeld(n)
  <2>1. spc' \in [Sups -> Places]
    BY <1>0, <1>3, ZenonT(60) DEF LockHeld, Goto, Early
  <2> QED BY <1>3, <2>1 DEF LockHeld, TypeOK, shell, files
<1>4. CASE Evict(n)
  <2>1. spc' \in [Sups -> Places]
    BY <1>0, <1>4, ZenonT(60) DEF Evict, Goto, Early
  <2> QED BY <1>4, <2>1, ZenonT(60) DEF Evict, TypeOK, shell
<1>5. CASE Relock(n)
  <2>1. spc' \in [Sups -> Places]
    BY <1>0, <1>5, ZenonT(60) DEF Relock, Goto, Early
  <2> QED BY <1>5, <2>1 DEF Relock, TypeOK, shell
<1>6. CASE WritePidfile(n)
  <2>1. CASE Goto(n, "pidfile", "trap") /\ sup_file' = n /\ UNCHANGED faults
    <3>1. spc' \in [Sups -> Places]
      BY <1>0, <2>1, ZenonT(60) DEF Goto
    <3> QED BY <1>6, <2>1, <3>1 DEF WritePidfile, TypeOK, shell
  <2>2. CASE Goto(n, "pidfile", "unlock") /\ sup_file' \in {0, sup_file} /\ Fault
    <3>1. spc' \in [Sups -> Places]
      BY <1>0, <2>2, ZenonT(60) DEF Goto
    <3>2. faults' \in Nat
      BY <2>2 DEF Fault, TypeOK
    <3> QED BY <1>6, <2>2, <3>1, <3>2, ZenonT(60) DEF WritePidfile, TypeOK, shell
  <2> QED BY <1>6, <2>1, <2>2, ZenonT(60) DEF WritePidfile
<1>7. CASE SetTrap(n)
  <2>1. spc' \in [Sups -> Places]
    BY <1>0, <1>7, ZenonT(60) DEF SetTrap, Goto, Trapping
  <2> QED BY <1>7, <2>1 DEF SetTrap, TypeOK, shell, files
<1>8. CASE Loop(n)
  <2>1. spc' \in [Sups -> Places] /\ op' = op
    BY <1>0, <1>8 DEF Loop, Goto, Trapping
  <2>2. CASE stopping[n]
    BY <1>8, <2>1, <2>2 DEF Loop, TypeOK, shell, files
  <2>3. CASE ~stopping[n]
    <3>1. PICK d \in Fresh(daemon) : /\ daemon' = [daemon EXCEPT ![d] = "fork"]
                                     /\ launched' = [launched EXCEPT ![n] = d]
      BY <1>8, <2>3 DEF Loop
    <3>2. d \in Daemons
      BY <3>1, FreshIsNew DEF TypeOK
    <3>3. launched' \in [Sups -> 0..MaxLaunches] /\ daemon' \in [Daemons -> DaemonPlaces]
      BY <3>1, <3>2, ZenonT(60) DEF TypeOK, DaemonPlaces
    <3>4. UNCHANGED <<stopping, child_pid, pending, rc, files, op, overdue, faults>>
      BY <1>8, <2>3 DEF Loop
    <3> QED BY <2>1, <3>3, <3>4 DEF TypeOK, DaemonPlaces, files
  <2> QED BY <2>2, <2>3
<1>9. CASE SetChildPid(n)
  <2>1. spc' \in [Sups -> Places]
    BY <1>0, <1>9, ZenonT(60) DEF SetChildPid, Goto, Trapping
  <2> QED BY <1>9, <2>1, ZenonT(60) DEF SetChildPid, TypeOK, files
<1>10. CASE PublishChild(n)
  <2>1. spc' \in [Sups -> Places]
    BY <1>0, <1>10, ZenonT(60) DEF PublishChild, Goto, Trapping
  <2> QED BY <1>10, <2>1 DEF PublishChild, TypeOK, shell
<1>11. CASE Wait(n)
  <2>1. spc' \in [Sups -> Places]
    BY <1>0, <1>11, ZenonT(60) DEF Wait, Goto, Trapping
  <2> QED BY <1>11, <2>1 DEF Wait, TypeOK, shell, files
<1>12. CASE Reap(n)
  <2>1. spc' \in [Sups -> Places]
    BY <1>0, <1>12, ZenonT(60) DEF Reap, Goto, Trapping
  <2> QED BY <1>12, <2>1, ZenonT(60) DEF Reap, TypeOK
<1>13. CASE RemovePidfiles(n)
  <2>1. spc' \in [Sups -> Places]
    BY <1>0, <1>13, ZenonT(60) DEF RemovePidfiles, Goto
  <2> QED BY <1>13, <2>1 DEF RemovePidfiles, TypeOK, shell
<1>14. CASE Unlock(n)
  BY <1>14, EndType, ZenonT(60) DEF Unlock, TypeOK
<1>15. CASE request_stop(n)
  <2>1. child_pid[n] \in 0..MaxLaunches
    BY DEF TypeOK
  <2>2. daemon' \in [Daemons -> DaemonPlaces]
    BY <1>15, <2>1, TermChildType DEF request_stop
  <2>3. spc' \in [Sups -> Places]
    BY <1>15 DEF request_stop, Trapping, TypeOK
  <2> QED BY <1>15, <2>2, <2>3 DEF request_stop, TypeOK, DaemonPlaces, files
<1>16. CASE SupervisorDies(n)
  <2>1. faults' \in Nat
    BY <1>16 DEF SupervisorDies, Fault, TypeOK
  <2> QED BY <1>16, <2>1, EndType, ZenonT(60) DEF SupervisorDies, TypeOK, files
<1> QED
  BY <1>1, <1>2, <1>3, <1>4, <1>5, <1>6, <1>7, <1>8, <1>9, <1>10, <1>11, <1>12, <1>13,
     <1>14, <1>15, <1>16 DEF run_supervisor

\* A daemon's step changes the daemon alone.
LEMMA DaemonType ==
    ASSUME TypeOK, NEW d \in Daemons, main(d) \/ Crash(d)
    PROVE  TypeOK' /\ UNCHANGED <<sup, files, op, overdue>>
<1>1. ASSUME NEW place \in DaemonPlaces, Enter(d, place)
      PROVE  TypeOK' /\ UNCHANGED <<sup, files, op, overdue>>
  BY <1>1 DEF Enter, TypeOK, DaemonPlaces, sup, shell, files
<1>2. ASSUME NEW code \in Nat, Exit(d, code), Fault \/ UNCHANGED faults
      PROVE  TypeOK' /\ UNCHANGED <<sup, files, op, overdue>>
  <2>1. faults' \in Nat
    BY <1>2 DEF Fault, TypeOK
  <2> QED BY <1>2, <2>1 DEF Exit, TypeOK, sup, shell, files
<1> QED
  BY <1>1, <1>2 DEF main, Exec, acquire, InstallHandler, Serve, ShutDown, Crash, DaemonPlaces

LEMMA TypeStep ==
    ASSUME TypeOK, Target, [Next]_vars
    PROVE  TypeOK' /\ Target'
<1>1. ASSUME op' = op PROVE Target'
  BY <1>1 DEF Target
<1>2. CASE UNCHANGED vars
  BY <1>1, <1>2 DEF vars, sup, shell, files, TypeOK
<1>3. ASSUME NEW n \in Sups, run_supervisor(n) \/ SupervisorDies(n) PROVE TypeOK' /\ Target'
  BY <1>1, <1>3, SupervisorType
<1>4. ASSUME NEW d \in Daemons, main(d) \/ Crash(d) PROVE TypeOK' /\ Target'
  BY <1>1, <1>4, DaemonType
<1> QED BY <1>2, <1>3, <1>4, ScriptType, ZenonT(60) DEF Next

-----------------------------------------------------------------------------
\* The pid that current_supervisor_pid returns is the owner's.
LEMMA CurrentOwner ==
    ASSUME TypeOK, Ownership
    PROVE  /\ current_supervisor_pid \in 0..MaxStarts
           /\ \A n \in Sups : spc[n] \in Owning => n = current_supervisor_pid
           /\ current_supervisor_pid = 0 => NoOwner
<1>1. current_supervisor_pid \in 0..MaxStarts
  BY Pids DEF current_supervisor_pid, TypeOK
<1>2. ASSUME NEW n \in Sups, spc[n] \in Owning PROVE n = current_supervisor_pid
  BY <1>2, Pids DEF current_supervisor_pid, supervisor_pid_valid, Ownership, Owning, Trapping
<1> QED BY <1>1, <1>2, Pids DEF NoOwner

\* Two supervisors never own the pidfile.
LEMMA OneOwner ==
    ASSUME Ownership, NEW n \in Sups, NEW m \in Sups, spc[n] \in Owning, spc[m] \in Owning
    PROVE  n = m
  BY DEF Ownership

\* A supervisor's step that leaves its pidfile and the operator alone keeps
\* Ownership, if it starts nothing that it does not own already.
LEMMA Moved ==
    ASSUME TypeOK, Ownership, NEW n \in Sups, NEW to,
           spc' = [spc EXCEPT ![n] = to], UNCHANGED <<sup_file, op>>,
           spc[n] \in Owning \cup Early \/ UNCHANGED child_file,
           spc[n] \notin {"gone", "killed"},
           to \in Early => spc[n] \in Early, to \in Owning => spc[n] \in Owning,
           spc[n] \in Owning => to \in Owning \cup {"gone", "killed"}
    PROVE  Ownership'
<1>1. \A m \in Sups : spc'[m] = IF m = n THEN to ELSE spc[m]
  BY DEF TypeOK
<1>2. sup_file # 0 => sup_file \in Sups
  BY Pids DEF TypeOK
<1>3. NoOwner => NoOwner'
  BY <1>1 DEF NoOwner
<1>4. op.at = "unlock" => UNCHANGED child_file
  BY DEF Ownership, NoOwner
<1> QED BY <1>1, <1>2, <1>3, <1>4 DEF Ownership

\* A step of the script that only changes where it is.
LEMMA Advanced ==
    ASSUME Ownership, UNCHANGED <<spc, sup_file>>, op.at # "check",
           op'.at \notin {"read", "term", "poll", "rm_sup", "rm_lock", "launch", "child",
                          "remove", "unlock"}
    PROVE  Ownership'
  BY DEF Ownership, NoOwner

\* The commands of start_service keep Ownership.
LEMMA StartOwnership ==
    ASSUME TypeOK, Target, Ownership, ~overdue', StartBegin \/ start_service
    PROVE  Ownership'
<1> USE Pids
<1>0. \A n \in Sups : spc[n] \notin Early \/ op.at = "check"
  BY DEF Ownership
<1>1. ASSUME UNCHANGED spc, NoOwner, op.at # "check", sup_file' \in {0, sup_file},
             op'.at \in {"rm_sup", "rm_lock", "check_child", "launch"}
      PROVE  Ownership'
  BY <1>0, <1>1 DEF Ownership, NoOwner
<1>2. CASE StartBegin
  <2>1. UNCHANGED <<spc, sup_file>> /\ op.at = "idle"
    BY <1>2 DEF StartBegin, sup, files
  <2>2. op'.at = cleanup_stale_supervisor_artifacts("check_sup", "decide")
    BY <1>2 DEF StartBegin, TypeOK
  <2>3. op'.at \in {"rm_sup", "check_child"} /\ (op'.at = "rm_sup" => NoOwner)
    BY <2>2, CurrentOwner DEF cleanup_stale_supervisor_artifacts
  <2> QED BY <1>1, <2>1, <2>3, Advanced
<1>3. CASE StartCleanup
  <2>1. UNCHANGED spc /\ op.at \in Cleaning
    BY <1>3 DEF StartCleanup, sup
  <2>2. op'.at = cleanup_stale_supervisor_artifacts(op.at, "decide")
    BY <1>3, ZenonT(60) DEF StartCleanup, TypeOK
  <2>3. sup_file' = IF op.at = "rm_sup" THEN 0 ELSE sup_file
    BY <1>3 DEF StartCleanup, Removed
  <2>4. CASE op.at = "check_sup"
    <3>1. op'.at \in {"rm_sup", "check_child"} /\ (op'.at = "rm_sup" => NoOwner)
      BY <2>2, <2>4, CurrentOwner DEF cleanup_stale_supervisor_artifacts
    <3> QED BY <1>1, <2>1, <2>3, <2>4, <3>1, Advanced
  <2>5. CASE op.at \in {"rm_sup", "rm_lock"}
    <3>1. op'.at \in {"rm_lock", "check_child"}
      BY <2>2, <2>5 DEF cleanup_stale_supervisor_artifacts
    <3>2. NoOwner
      BY <2>5 DEF Ownership
    <3> QED BY <1>1, <2>1, <2>3, <2>5, <3>1, <3>2
  <2>6. CASE op.at \in {"check_child", "rm_child"}
    <3>1. op'.at \in {"rm_child", "decide"}
      BY <2>2, <2>6 DEF cleanup_stale_supervisor_artifacts
    <3> QED BY <2>1, <2>3, <2>6, <3>1, Advanced
  <2> QED BY <2>1, <2>4, <2>5, <2>6 DEF Cleaning
<1>4. CASE StartDecide
  <2>1. UNCHANGED <<spc, sup_file>> /\ op.at = "decide"
    BY <1>4 DEF StartDecide, sup, files
  <2>2. op'.at = IF current_supervisor_pid # 0 THEN "idle" ELSE "launch"
    BY <1>4, ZenonT(60) DEF StartDecide, TypeOK
  <2> QED BY <1>1, <2>1, <2>2, CurrentOwner, Advanced
<1>5. CASE StartLaunch
  <2>1. PICK n \in Fresh(spc) : /\ spc' = [spc EXCEPT ![n] = "check_sup"]
                                /\ op' = [op EXCEPT !.at = "check", !.sup = n]
    BY <1>5, ZenonT(60) DEF StartLaunch
  <2>2. n \in Sups /\ spc[n] = "none" /\ sup_file' = sup_file
    BY <1>5, <2>1, FreshIsNew DEF TypeOK, StartLaunch, files
  <2>3. \A m \in Sups : spc'[m] = IF m = n THEN "check_sup" ELSE spc[m]
    BY <2>1, <2>2 DEF TypeOK
  <2>4. op.at = "launch" /\ op'.at = "check" /\ op'.sup = n
    BY <1>5, <2>1, ZenonT(60) DEF StartLaunch, TypeOK
  <2>5. sup_file # 0 => sup_file \in Sups /\ sup_file # n
    BY <2>2 DEF Ownership, Owning, Trapping, TypeOK
  <2>6. NoOwner /\ NoOwner'
    BY <2>3, <2>4 DEF Ownership, NoOwner, Owning, Trapping
  <2>7. \A m \in Sups : spc'[m] \in Early => m = n
    BY <1>0, <2>3, <2>4
  <2> QED BY <2>2, <2>3, <2>4, <2>5, <2>6, <2>7 DEF Ownership, NoOwner
<1>6. CASE StartReturn
  <2>1. spc[op.sup] \notin Early /\ op.at = "check" /\ UNCHANGED <<spc, sup_file>>
    BY <1>6 DEF StartReturn, sup, files
  <2>2. \A n \in Sups : spc[n] \notin Early
    BY <2>1 DEF Ownership
  <2>3. op'.at = "idle"
    BY <1>6, ZenonT(60) DEF StartReturn, TypeOK
  <2> QED BY <2>1, <2>2, <2>3 DEF Ownership, NoOwner
<1> QED BY <1>2, <1>3, <1>4, <1>5, <1>6 DEF start_service

\* So do the commands of stop_service.
LEMMA StopOwnership ==
    ASSUME TypeOK, Target, Ownership, StopRead \/ stop_service
    PROVE  Ownership'
<1> USE Pids
<1>0. sup_file # 0 => sup_file \in Sups
  BY DEF TypeOK
<1>1. ASSUME NEW n \in Sups, Kill(n)
      PROVE  \A m \in Sups : spc'[m] = IF m = n /\ supervisor_pid_valid(m) THEN "gone" ELSE spc[m]
  <2>1. CASE supervisor_pid_valid(n)
    BY <1>1, <2>1 DEF Kill, End, TypeOK
  <2>2. CASE ~supervisor_pid_valid(n)
    <3>1. spc' = spc
      BY <1>1, <2>2 DEF Kill, sup
    <3> QED BY <2>2, <3>1
  <2> QED BY <2>1, <2>2
<1>2. CASE StopRead
  <2>1. UNCHANGED <<spc, sup_file>> /\ op.at = "idle"
    BY <1>2 DEF StopRead, sup, files
  <2>2. op'.at = "read" /\ op'.sup = current_supervisor_pid
    BY <1>2, ZenonT(60) DEF StopRead, TypeOK
  <2> QED BY <2>1, <2>2, CurrentOwner DEF Ownership, NoOwner
<1>3. CASE StopReadChild
  <2>1. UNCHANGED <<spc, sup_file>> /\ op.at = "read"
    BY <1>3 DEF StopReadChild, sup, files
  <2>2. op'.at = (IF op.sup # 0 THEN "term" ELSE "child") /\ op'.sup = op.sup
    BY <1>3, ZenonT(60) DEF StopReadChild, TypeOK
  <2> QED BY <2>1, <2>2 DEF Ownership, NoOwner
<1>4. CASE StopTerm
  <2>1. op.at = "term" /\ op'.at = "poll" /\ op'.sup = op.sup /\ op.sup \in Sups
    BY <1>4 DEF StopTerm, TypeOK, Target
  <2>2. \A m \in Sups : spc'[m] = spc[m] \/ (m = op.sup /\ spc'[m] = "gone")
    BY <1>1, <1>4, <2>1 DEF StopTerm, sup
  <2>3. sup_file' = sup_file
    BY <1>4 DEF StopTerm, files
  <2> QED BY <1>0, <2>1, <2>2, <2>3 DEF Ownership, NoOwner, Owning, Trapping, Early, Cleaning
<1>5. CASE StopPoll
  <2>1. op.at = "poll" /\ op'.at = "child" /\ op.sup \in Sups
    BY <1>5 DEF StopPoll, TypeOK, Target
  <2>2. \A m \in Sups : spc'[m] = IF m = op.sup /\ supervisor_pid_valid(m) THEN "gone" ELSE spc[m]
    BY <1>1, <1>5, <2>1 DEF StopPoll
  <2>3. sup_file' = sup_file
    BY <1>5 DEF StopPoll, files
  <2>4. NoOwner'
    BY <2>1, <2>2 DEF Ownership, NoOwner, Owning, Trapping, supervisor_pid_valid
  <2>5. \A m \in Sups : spc'[m] \notin Early
    BY <2>1, <2>2 DEF Ownership, Early, Cleaning
  <2> QED BY <1>0, <2>1, <2>2, <2>3, <2>4, <2>5 DEF Ownership, NoOwner
<1>6. CASE StopChild
  <2>1. UNCHANGED <<spc, sup_file>> /\ op.at = "child"
    BY <1>6 DEF StopChild, sup, files
  <2>2. op'.at = "remove"
    BY <1>6, ZenonT(60) DEF StopChild, TypeOK
  <2> QED BY <2>1, <2>2 DEF Ownership, NoOwner
<1>7. CASE StopRemove
  <2>1. UNCHANGED spc /\ op.at = "remove" /\ sup_file' = 0 /\ child_file' = 0
    BY <1>7 DEF StopRemove, sup
  <2>2. op'.at = "unlock"
    BY <1>7, ZenonT(60) DEF StopRemove, TypeOK
  <2> QED BY <2>1, <2>2 DEF Ownership, NoOwner
<1>8. CASE StopUnlock
  <2>1. UNCHANGED <<spc, sup_file>> /\ op.at = "unlock"
    BY <1>8 DEF StopUnlock, sup
  <2>2. op'.at = "idle"
    BY <1>8, ZenonT(60) DEF StopUnlock, TypeOK
  <2> QED BY <2>1, <2>2, Advanced
<1> QED BY <1>2, <1>3, <1>4, <1>5, <1>6, <1>7, <1>8 DEF stop_service

\* A supervisor cleans up and writes its pidfile while there is no owner, and the
\* files of an owner are removed by nobody but itself.
LEMMA SupervisorOwnership ==
    ASSUME TypeOK, Ownership, NEW n \in Sups, run_supervisor(n) \/ SupervisorDies(n)
    PROVE  Ownership'
<1> USE Pids DEF Goto, Owning, Trapping, Early, Cleaning
<1>0. op' = op
  BY SupervisorType
<1>1. ASSUME NEW to, spc' = [spc EXCEPT ![n] = to] PROVE \A m \in Sups : spc'[m] = IF m = n THEN to ELSE spc[m]
  BY <1>1 DEF TypeOK
<1>2. CASE Cleanup(n)
  <2>1. spc[n] \in Early /\ NoOwner /\ op.at = "check"
    BY <1>2 DEF Cleanup, Ownership
  <2>2. cleanup_stale_supervisor_artifacts(spc[n], "lock") \in Early
    BY <1>2, CleanupNext DEF Cleanup
  <2>3. \A m \in Sups : spc'[m] = IF m = n THEN cleanup_stale_supervisor_artifacts(spc[n], "lock")
                                           ELSE spc[m]
    BY <1>1, <1>2, ZenonT(60) DEF Cleanup
  <2>4. sup_file' \in {0, sup_file}
    BY <1>2 DEF Cleanup, Removed
  <2>5. NoOwner'
    BY <2>1, <2>2, <2>3 DEF NoOwner
  <2>6. sup_file # 0 => sup_file \in Sups /\ sup_file # n
    BY <2>1 DEF Ownership, TypeOK
  <2> QED BY <1>0, <2>1, <2>2, <2>3, <2>4, <2>5, <2>6, ZenonT(60) DEF Ownership, NoOwner
<1>3. CASE Lock(n)            BY <1>0, <1>3, Moved, ZenonT(60) DEF Lock
<1>4. CASE LockHeld(n)        BY <1>0, <1>4, Moved, ZenonT(60) DEF LockHeld, files
<1>5. CASE Evict(n)           BY <1>0, <1>5, Moved, ZenonT(60) DEF Evict
<1>6. CASE Relock(n)          BY <1>0, <1>6, Moved, ZenonT(60) DEF Relock
<1>7. CASE WritePidfile(n)
  <2>0. spc[n] = "pidfile" /\ op.at = "check" /\ op.sup = n /\ NoOwner
    BY <1>7 DEF WritePidfile, Ownership
  <2>1. CASE spc' = [spc EXCEPT ![n] = "trap"] /\ sup_file' = n
    <3>1. \A m \in Sups : spc'[m] = IF m = n THEN "trap" ELSE spc[m]
      BY <1>1, <2>1, ZenonT(60)
    <3>2. \A m \in Sups : spc'[m] \in Owning => m = n
      BY <2>0, <3>1 DEF NoOwner
    <3>3. \A m \in Sups : spc'[m] \notin Early
      BY <2>0, <3>1 DEF Ownership
    <3> QED BY <1>0, <2>0, <2>1, <3>1, <3>2, <3>3 DEF Ownership
  <2>2. CASE spc' = [spc EXCEPT ![n] = "unlock"] /\ sup_file' \in {0, sup_file}
    <3>1. \A m \in Sups : spc'[m] = IF m = n THEN "unlock" ELSE spc[m]
      BY <1>1, <2>2, ZenonT(60)
    <3>2. NoOwner'
      BY <2>0, <3>1 DEF NoOwner
    <3>3. \A m \in Sups : spc'[m] \notin Early
      BY <2>0, <3>1 DEF Ownership
    <3>4. sup_file # 0 => sup_file \in Sups /\ sup_file # n
      BY <2>0 DEF Ownership, TypeOK
    <3> QED BY <1>0, <2>0, <2>2, <3>1, <3>2, <3>3, <3>4 DEF Ownership, NoOwner
  <2> QED BY <1>7, <2>1, <2>2 DEF WritePidfile
<1>8. CASE SetTrap(n)         BY <1>0, <1>8, Moved, ZenonT(60) DEF SetTrap, files
<1>9. CASE Loop(n)            BY <1>0, <1>9, Moved DEF Loop, files
<1>10. CASE SetChildPid(n)    BY <1>0, <1>10, Moved, ZenonT(60) DEF SetChildPid, files
<1>11. CASE PublishChild(n)   BY <1>0, <1>11, Moved, ZenonT(60) DEF PublishChild
<1>12. CASE Wait(n)           BY <1>0, <1>12, Moved, ZenonT(60) DEF Wait, files
<1>13. CASE Reap(n)           BY <1>0, <1>13, Moved, ZenonT(60) DEF Reap
<1>14. CASE RemovePidfiles(n)
  <2>1. \A m \in Sups : spc'[m] = IF m = n THEN "unlock" ELSE spc[m]
    BY <1>1, <1>14, ZenonT(60) DEF RemovePidfiles
  <2>2. NoOwner'
    BY <1>14, <2>1, OneOwner DEF RemovePidfiles, NoOwner
  <2>3. \A m \in Sups : spc'[m] \notin Early
    BY <1>14, <2>1 DEF RemovePidfiles, Ownership, NoOwner
  <2> QED BY <1>0, <1>14, <2>2, <2>3 DEF RemovePidfiles, Ownership, NoOwner
<1>15. CASE Unlock(n)         BY <1>0, <1>15, Moved, ZenonT(60) DEF Unlock, End
<1>16. CASE request_stop(n)
  <2>1. CASE spc[n] = "wait"  BY <1>0, <1>16, <2>1, Moved, ZenonT(60) DEF request_stop, files
  <2>2. CASE spc[n] # "wait"
    <3>1. spc' = spc          BY <1>16, <2>2 DEF request_stop, TypeOK
    <3> QED BY <1>0, <1>16, <3>1 DEF request_stop, Ownership, NoOwner, files
  <2> QED BY <2>1, <2>2
<1>17. CASE SupervisorDies(n)
  BY <1>0, <1>17, Moved, ZenonT(60) DEF SupervisorDies, supervisor_pid_valid, End, files
<1> QED
  BY <1>2, <1>3, <1>4, <1>5, <1>6, <1>7, <1>8, <1>9, <1>10, <1>11, <1>12, <1>13, <1>14,
     <1>15, <1>16, <1>17 DEF run_supervisor

LEMMA OwnershipStep ==
    ASSUME TypeOK, Target, Ownership, ~overdue', [Next]_vars
    PROVE  Ownership'
<1>1. ASSUME UNCHANGED <<sup, files, op>> PROVE Ownership'
  BY <1>1 DEF sup, files, Ownership, NoOwner
<1>2. CASE UNCHANGED vars
  BY <1>1, <1>2 DEF vars
<1>3. ASSUME NEW d \in Daemons, main(d) \/ Crash(d) PROVE Ownership'
  BY <1>1, <1>3, DaemonType
<1> QED BY <1>2, <1>3, StartOwnership, StopOwnership, SupervisorOwnership, ZenonT(60) DEF Next

-----------------------------------------------------------------------------
\* A step that may remove the file, and lets no supervisor begin to wait or change
\* the child it waits for.
LEMMA ChildKept ==
    ASSUME ChildPublished, child_file' \in {0, child_file},
           \A m \in Sups : spc'[m] = "wait" => spc[m] = "wait" /\ child_pid'[m] = child_pid[m]
    PROVE  ChildPublished'
  BY DEF ChildPublished

\* The script writes no child's pidfile and lets no supervisor wait.
LEMMA ScriptChild ==
    ASSUME TypeOK, Target, ChildPublished, StartBegin \/ start_service \/ StopRead \/ stop_service
    PROVE  ChildPublished'
<1>1. ASSUME UNCHANGED sup, child_file' \in {0, child_file} PROVE ChildPublished'
  BY <1>1, ChildKept DEF sup, shell
<1>2. CASE StartBegin     BY <1>1, <1>2, ZenonT(60) DEF StartBegin, files
<1>3. CASE StartCleanup   BY <1>1, <1>3 DEF StartCleanup, Removed
<1>4. CASE StartDecide    BY <1>1, <1>4, ZenonT(60) DEF StartDecide, files
<1>5. CASE StartLaunch
  <2>1. PICK n \in Fresh(spc) : spc' = [spc EXCEPT ![n] = "check_sup"]
    BY <1>5, ZenonT(60) DEF StartLaunch
  <2>2. \A m \in Sups : spc'[m] = "wait" => spc[m] = "wait"
    BY <2>1, FreshIsNew DEF TypeOK
  <2> QED BY <1>5, <2>2, ChildKept, ZenonT(60) DEF StartLaunch, shell, files
<1>6. CASE StartReturn    BY <1>1, <1>6, ZenonT(60) DEF StartReturn, files
<1>7. CASE StopRead       BY <1>1, <1>7, ZenonT(60) DEF StopRead, files
<1>8. CASE StopReadChild  BY <1>1, <1>8, ZenonT(60) DEF StopReadChild, files
<1>9. ASSUME NEW n \in Sups, Kill(n), UNCHANGED child_file PROVE ChildPublished'
  <2>1. CASE UNCHANGED sup  BY <1>1, <1>9, <2>1
  <2>2. CASE End(n, "gone")
    <3>1. \A m \in Sups : spc'[m] = "wait" => spc[m] = "wait" /\ child_pid'[m] = child_pid[m]
      BY <2>2 DEF End, TypeOK
    <3> QED BY <1>9, <3>1, ChildKept
  <2> QED BY <1>9, <2>1, <2>2 DEF Kill
<1>10. CASE StopTerm
  <2>1. op.sup \in Sups /\ UNCHANGED child_file
    BY <1>10 DEF StopTerm, Target, files
  <2>2. CASE Kill(op.sup)  BY <1>9, <2>1, <2>2
  <2>3. CASE UNCHANGED <<spc, stopping, child_pid, launched>>
    BY <2>1, <2>3, ChildKept
  <2>4. CASE UNCHANGED sup  BY <2>3, <2>4 DEF sup, shell
  <2> QED BY <1>10, <2>2, <2>3, <2>4 DEF StopTerm
<1>11. CASE StopPoll      BY <1>9, <1>11 DEF StopPoll, Target, files
<1>12. CASE StopChild     BY <1>1, <1>12, ZenonT(60) DEF StopChild, files
<1>13. CASE StopRemove    BY <1>1, <1>13, ZenonT(60) DEF StopRemove
<1>14. CASE StopUnlock    BY <1>1, <1>14, ZenonT(60) DEF StopUnlock
<1> QED
  BY <1>2, <1>3, <1>4, <1>5, <1>6, <1>7, <1>8, <1>10, <1>11, <1>12, <1>13, <1>14
  DEF start_service, stop_service

\* The one supervisor that owns the pidfiles writes the child's before it waits.
LEMMA SupervisorChild ==
    ASSUME TypeOK, Ownership, ChildPublished, NEW n \in Sups, run_supervisor(n) \/ SupervisorDies(n)
    PROVE  ChildPublished'
<1>1. ASSUME NEW to, spc' = [spc EXCEPT ![n] = to], to # "wait",
             \A m \in Sups \ {n} : child_pid'[m] = child_pid[m], child_file' \in {0, child_file}
      PROVE  ChildPublished'
  <2>1. \A m \in Sups : spc'[m] = "wait" => spc[m] = "wait" /\ child_pid'[m] = child_pid[m]
    BY <1>1 DEF TypeOK
  <2> QED BY <1>1, <2>1, ChildKept
<1> USE DEF Goto, files, shell
<1>2. CASE Cleanup(n)
  <2>1. cleanup_stale_supervisor_artifacts(spc[n], "lock") \in Cleaning \cup {"lock"}
    BY <1>2, CleanupNext DEF Cleanup
  <2> QED BY <1>1, <1>2, <2>1, ZenonT(60) DEF Cleanup, Removed, Cleaning
<1>3. CASE Lock(n)            BY <1>1, <1>3, ZenonT(60) DEF Lock
<1>4. CASE LockHeld(n)        BY <1>1, <1>4, ZenonT(60) DEF LockHeld
<1>5. CASE Evict(n)           BY <1>1, <1>5, ZenonT(60) DEF Evict
<1>6. CASE Relock(n)          BY <1>1, <1>6, ZenonT(60) DEF Relock
<1>7. CASE WritePidfile(n)    BY <1>1, <1>7, ZenonT(60) DEF WritePidfile
<1>8. CASE SetTrap(n)         BY <1>1, <1>8, ZenonT(60) DEF SetTrap
<1>9. CASE Loop(n)            BY <1>1, <1>9, ZenonT(60) DEF Loop
<1>10. CASE SetChildPid(n)
  <2>1. \A m \in Sups \ {n} : child_pid'[m] = child_pid[m]
    BY <1>10 DEF SetChildPid, TypeOK
  <2> QED BY <1>1, <1>10, <2>1, ZenonT(60) DEF SetChildPid
<1>11. CASE PublishChild(n)
  <2>1. ASSUME NEW m \in Sups, spc'[m] = "wait" PROVE m = n
    <3>1. m = n \/ spc[m] = "wait"
      BY <1>11, <2>1 DEF PublishChild, TypeOK
    <3> QED BY <1>11, <3>1, OneOwner DEF PublishChild, Owning, Trapping
  <2> QED BY <1>11, <2>1 DEF PublishChild, ChildPublished
<1>12. CASE Wait(n)           BY <1>1, <1>12, ZenonT(60) DEF Wait
<1>13. CASE Reap(n)
  <2>1. \A m \in Sups \ {n} : child_pid'[m] = child_pid[m]
    BY <1>13 DEF Reap, TypeOK
  <2> QED BY <1>1, <1>13, <2>1, ZenonT(60) DEF Reap
<1>14. CASE RemovePidfiles(n) BY <1>1, <1>14, ZenonT(60) DEF RemovePidfiles
<1>15. ASSUME End(n, "gone") \/ End(n, "killed"), UNCHANGED child_file PROVE ChildPublished'
  <2>1. \A m \in Sups \ {n} : child_pid'[m] = child_pid[m]
    BY <1>15 DEF End, TypeOK
  <2> QED BY <1>1, <1>15, <2>1, ZenonT(60) DEF End
<1>16. CASE Unlock(n)         BY <1>15, <1>16, ZenonT(60) DEF Unlock
<1>17. CASE request_stop(n)
  <2>1. \A m \in Sups : spc'[m] = "wait" => spc[m] = "wait"
    BY <1>17 DEF request_stop, TypeOK
  <2> QED BY <1>17, <2>1, ChildKept, ZenonT(60) DEF request_stop
<1>18. CASE SupervisorDies(n) BY <1>15, <1>18, ZenonT(60) DEF SupervisorDies
<1> QED
  BY <1>2, <1>3, <1>4, <1>5, <1>6, <1>7, <1>8, <1>9, <1>10, <1>11, <1>12, <1>13, <1>14,
     <1>16, <1>17, <1>18 DEF run_supervisor

LEMMA ChildPublishedStep ==
    ASSUME TypeOK, Target, Ownership, ChildPublished, [Next]_vars
    PROVE  ChildPublished'
<1>1. ASSUME UNCHANGED <<sup, files>> PROVE ChildPublished'
  BY <1>1 DEF sup, shell, files, ChildPublished
<1>2. CASE UNCHANGED vars
  BY <1>1, <1>2 DEF vars
<1>3. ASSUME NEW d \in Daemons, main(d) \/ Crash(d) PROVE ChildPublished'
  BY <1>1, <1>3, DaemonType
<1> QED BY <1>2, <1>3, ScriptChild, SupervisorChild, ZenonT(60) DEF Next

-----------------------------------------------------------------------------
\* What a finished stop leaves behind.
Stopped ==
    /\ \A n \in Sups : spc[n] \in {"none", "unlock", "gone", "killed"}
    /\ sup_file = 0 /\ child_file = 0 /\ ~lockdir

\* When stop removes the files nobody owns them; after that only a start launches
\* a supervisor, and the one that may still be unlocking touches the lock alone.
LEMMA StopStep ==
    ASSUME TypeOK, Ownership, [Next]_vars,
           op.at = "idle" /\ op.last = "stop" => Stopped,
           op'.at = "idle", op'.last = "stop"
    PROVE  Stopped'
<1>1. ASSUME \/ StartBegin \/ start_service \/ StopRead \/ StopReadChild \/ StopTerm
             \/ StopPoll \/ StopChild \/ StopRemove
      PROVE  FALSE
  <2> USE DEF TypeOK
  <2>1. CASE StartBegin
    <3>1. op'.at = cleanup_stale_supervisor_artifacts("check_sup", "decide")
      BY <2>1 DEF StartBegin
    <3> QED BY <3>1, CleanupNext DEF Cleaning
  <2>2. CASE StartCleanup
    <3>1. op'.at = cleanup_stale_supervisor_artifacts(op.at, "decide") /\ op.at \in Cleaning
      BY <2>2, ZenonT(60) DEF StartCleanup
    <3> QED BY <3>1, CleanupNext DEF Cleaning
  <2>3. CASE StartDecide    BY <2>3 DEF StartDecide
  <2>4. CASE StartLaunch    BY <2>4 DEF StartLaunch
  <2>5. CASE StartReturn    BY <2>5, ZenonT(60) DEF StartReturn
  <2>6. CASE StopRead       BY <2>6 DEF StopRead
  <2>7. CASE StopReadChild  BY <2>7 DEF StopReadChild
  <2>8. CASE StopTerm       BY <2>8 DEF StopTerm
  <2>9. CASE StopPoll       BY <2>9 DEF StopPoll
  <2>10. CASE StopChild     BY <2>10 DEF StopChild
  <2>11. CASE StopRemove    BY <2>11 DEF StopRemove
  <2> QED BY <1>1, <2>1, <2>2, <2>3, <2>4, <2>5, <2>6, <2>7, <2>8, <2>9, <2>10, <2>11
          DEF start_service
<1>2. CASE StopUnlock
  <2>1. \A n \in Sups : spc[n] \notin Owning \cup Early
    BY <1>2 DEF StopUnlock, Ownership, NoOwner
  <2>2. \A n \in Sups : spc[n] \in {"none", "unlock", "gone", "killed"}
    BY <2>1 DEF Owning, TypeOK
  <2> QED BY <1>2, <2>2 DEF StopUnlock, Ownership, Stopped, sup
<1>3. ASSUME op' = op PROVE Stopped
  BY <1>3
<1>4. ASSUME NEW n \in Sups, run_supervisor(n) \/ SupervisorDies(n) PROVE Stopped'
  <2>1. Stopped
    BY <1>3, <1>4, SupervisorType
  <2>2. spc[n] \in {"none", "unlock", "gone", "killed"}
    BY <2>1 DEF Stopped
  <2>3. Unlock(n) \/ request_stop(n) \/ SupervisorDies(n)
    BY <1>4, <2>2 DEF run_supervisor, Cleanup, Cleaning, Lock, LockHeld, Evict, Relock, WritePidfile,
                SetTrap, Loop, SetChildPid, PublishChild, Wait, Reap, RemovePidfiles, Goto
  <2>4. ASSUME End(n, "gone") \/ End(n, "killed"), UNCHANGED <<sup_file, child_file>>,
               lockdir' = FALSE \/ UNCHANGED lockdir
        PROVE  Stopped'
    BY <2>1, <2>4 DEF End, Stopped, TypeOK
  <2>5. CASE Unlock(n)          BY <2>4, <2>5, ZenonT(60) DEF Unlock
  <2>6. CASE request_stop(n)    BY <2>1, <2>6 DEF request_stop, files, TypeOK, Stopped
  <2>7. CASE SupervisorDies(n)  BY <2>4, <2>7, ZenonT(60) DEF SupervisorDies, files
  <2> QED BY <2>3, <2>5, <2>6, <2>7
<1>5. ASSUME UNCHANGED <<sup, files, op>> PROVE Stopped'
  BY <1>3, <1>5 DEF sup, files, Stopped
<1>6. ASSUME NEW d \in Daemons, main(d) \/ Crash(d) PROVE Stopped'
  BY <1>5, <1>6, DaemonType
<1>7. CASE UNCHANGED vars
  BY <1>5, <1>7 DEF vars
<1> QED BY <1>1, <1>2, <1>4, <1>6, <1>7, ZenonT(60) DEF Next, stop_service

\* overdue, once set, stays set.
LEMMA OverdueStays ==
    ASSUME TypeOK, [Next]_vars, overdue
    PROVE  overdue'
<1>1. ASSUME StartBegin \/ start_service \/ StopRead \/ stop_service PROVE overdue'
  BY <1>1, ZenonT(60) DEF start_service, stop_service, StartBegin, StartCleanup, StartDecide, StartLaunch,
              StartReturn, StopRead, StopReadChild, StopTerm, StopPoll, StopChild, StopRemove, StopUnlock
<1>2. ASSUME NEW n \in Sups, run_supervisor(n) \/ SupervisorDies(n) PROVE overdue'
  BY <1>2, ZenonT(60) DEF run_supervisor, SupervisorDies, Cleanup, Lock, LockHeld, Evict, Relock, WritePidfile,
              SetTrap, Loop, SetChildPid, PublishChild, Wait, Reap, RemovePidfiles, Unlock, request_stop
<1>3. ASSUME NEW d \in Daemons, main(d) \/ Crash(d) PROVE overdue'
  BY <1>3, DaemonType, ZenonT(60)
<1>4. CASE UNCHANGED vars
  BY <1>4 DEF vars
<1> QED BY <1>1, <1>2, <1>3, <1>4, ZenonT(60) DEF Next

-----------------------------------------------------------------------------
\* The inductive invariant.
Inv ==
    /\ TypeOK /\ Target
    /\ ~overdue => Ownership /\ ChildPublished

\* The inductive invariant holds from the start and forever.
THEOREM Invariance == Spec => []Inv
<1>1. Init => Inv
  <2> SUFFICES ASSUME Init PROVE Inv
    OBVIOUS
  <2>1. TypeOK
    BY Pids, BoundAssumption, ZenonT(60) DEF Init, TypeOK
  <2>2. Target /\ Ownership /\ ChildPublished
    BY DEF Init, Target, Ownership, NoOwner, ChildPublished, Owning, Early, Cleaning, Trapping
  <2> QED BY <2>1, <2>2 DEF Inv
<1>2. Inv /\ [Next]_vars => Inv'
  <2> SUFFICES ASSUME Inv, [Next]_vars PROVE Inv'
    OBVIOUS
  <2>1. TypeOK' /\ Target'
    BY TypeStep DEF Inv
  <2>2. ASSUME ~overdue' PROVE Ownership' /\ ChildPublished'
    BY <2>2, OverdueStays, OwnershipStep, ChildPublishedStep DEF Inv
  <2> QED BY <2>1, <2>2 DEF Inv
<1> QED BY <1>1, <1>2, PTL DEF Spec

\* The pidfiles can be trusted as long as no start gave up on its supervisor:
\* whatever starts, stops, exits and kills came before, a supervisor in its loop is
\* the one that network_service_supervisor.pid names, so there is one at most, and
\* while it waits for a daemon the child's pidfile names no other daemon.
THEOREM PidfilesAlwaysTrue == Spec => []PidfilesTrue
<1>1. Inv => PidfilesTrue
  BY DEF Inv, Ownership, ChildPublished, PidfilesTrue, Owning
<1> QED BY <1>1, Invariance, PTL

\* As long as no start gave up on its supervisor, a finished stop_service leaves no
\* supervisor that could launch a daemon, no pidfile and no lock directory, until
\* the next start.
THEOREM StopAlwaysEndsSupervision == Spec => []StopEndsSupervision
<1>1. Init => StopEndsSupervision
  BY DEF Init, StopEndsSupervision
<1>2. Inv /\ StopEndsSupervision /\ [Next]_vars => StopEndsSupervision'
  <2> SUFFICES ASSUME Inv, StopEndsSupervision, [Next]_vars, ~overdue', op'.at = "idle",
                      op'.last = "stop"
               PROVE  Stopped'
    BY DEF StopEndsSupervision, Stopped
  <2>1. ~overdue /\ TypeOK /\ Ownership
    BY OverdueStays DEF Inv
  <2>2. op.at = "idle" /\ op.last = "stop" => Stopped
    BY <2>1 DEF StopEndsSupervision, Stopped
  <2> QED BY <2>1, <2>2, StopStep
<1> QED BY <1>1, <1>2, Invariance, PTL DEF Spec
=============================================================================
