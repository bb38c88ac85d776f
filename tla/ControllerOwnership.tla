------------------------ MODULE ControllerOwnership ------------------------
(***************************************************************************)
(* Controllers starting on, serving from and leaving one database          *)
(* (cmd/controller/main.go).  The database belongs to the controller whose *)
(* pid is in the lock file beside it; a lock whose owner is not running is *)
(* removed by the next controller that starts.                             *)
(*                                                                         *)
(* A controller process is identified with its pid and runs once.  Several *)
(* processes may be under way, so every file operation is a step.          *)
(***************************************************************************)
EXTENDS Integers, FiniteSets

CONSTANTS Controllers,
          None,
          Overlap      \* may a controller start while another is starting?

VARIABLES pc,          \* where each process is
          lock,        \* the lock file: None, or who made it and whether its pid is in it
          seen,        \* the pid a starting process has read from the lock file
          caretaker    \* the processes whose caretaker goroutine runs

vars == <<pc, lock, seen, caretaker>>

Starting == {"open", "create", "write", "read", "probe", "remove", "recreate", "rewrite"}
Owning == {"prepare", "recover", "serving", "stopping", "unlock"}

Running(c) == pc[c] \notin {"new", "gone"}

Goto(c, l) == pc' = [pc EXCEPT ![c] = l]

Init ==
    /\ pc = [c \in Controllers |-> "new"]
    /\ lock = None
    /\ seen = [c \in Controllers |-> None]
    /\ caretaker = {}

(* Configuration and settings are resolved; nothing is shared yet.         *)
Start(c) ==
    /\ pc[c] = "new"
    /\ Overlap \/ \A d \in Controllers : pc[d] \notin Starting
    /\ \E l \in {"open", "gone"} : Goto(c, l)
    /\ UNCHANGED <<lock, seen, caretaker>>

(* initWorkflowExecutionStore comes before ownership is asked for.         *)
initWorkflowExecutionStore(c) ==
    /\ pc[c] = "open"
    /\ \E l \in {"create", "gone"} : Goto(c, l)
    /\ UNCHANGED <<lock, seen, caretaker>>

(* createControllerDatabaseLockFile tries twice to create the file, with   *)
(* O_EXCL; in between it looks whether the file it found is stale.         *)
createControllerDatabaseLockFile(c) ==
    /\ pc[c] \in {"create", "recreate"}
    /\ IF lock = None
       THEN /\ lock' = [by |-> c, pid |-> FALSE]
            /\ Goto(c, IF pc[c] = "create" THEN "write" ELSE "rewrite")
       ELSE /\ Goto(c, IF pc[c] = "create" THEN "read" ELSE "gone")
            /\ UNCHANGED lock
    /\ UNCHANGED <<seen, caretaker>>

(* The pid goes into the file this process made, even if it has been       *)
(* removed meanwhile; when the write fails, what is at the path goes.      *)
writeControllerDatabaseLockFile(c) ==
    /\ pc[c] \in {"write", "rewrite"}
    /\ \/ /\ lock' = IF lock = [by |-> c, pid |-> FALSE] THEN [by |-> c, pid |-> TRUE] ELSE lock
          /\ Goto(c, "prepare")
       \/ lock' = None /\ Goto(c, "gone")
    /\ UNCHANGED <<seen, caretaker>>

(* removeStaleControllerDatabaseLockFile: read, probe the pid, remove.  A  *)
(* file without a pid counts as owned.                                     *)
ReadLockFile(c) ==
    /\ pc[c] = "read"
    /\ IF lock = None
       THEN Goto(c, "recreate") /\ UNCHANGED seen
       ELSE IF lock.pid
       THEN Goto(c, "probe") /\ seen' = [seen EXCEPT ![c] = lock.by]
       ELSE Goto(c, "gone") /\ UNCHANGED seen
    /\ UNCHANGED <<lock, caretaker>>

(* Faulty: takes every lock it finds for a stale one.                      *)
TakesOver(p) == FALSE

controllerDatabaseLockOwnerProcessActive(p) == Running(p)

ProbeOwner(c) ==
    /\ pc[c] = "probe"
    /\ Goto(c, IF controllerDatabaseLockOwnerProcessActive(seen[c]) THEN "gone" ELSE "remove")
    /\ UNCHANGED <<lock, seen, caretaker>>

(* os.Remove of whatever file is there by now.                             *)
removeStaleControllerDatabaseLockFile(c) ==
    /\ pc[c] = "remove"
    /\ lock' = None
    /\ Goto(c, "recreate")
    /\ UNCHANGED <<seen, caretaker>>

(* Paths, policy, execution environment, log sink and source cache; then   *)
(* recovery.  An error of any of them gives the database up again.         *)
Prepare(c) ==
    /\ pc[c] = "prepare"
    /\ \E l \in {"recover", "unlock"} : Goto(c, l)
    /\ UNCHANGED <<lock, seen, caretaker>>

(* verifyActiveRunSources, then normal admission, the caretaker's settings *)
(* and its start, and the routes.                                          *)
completeStartupRecovery(c) ==
    /\ pc[c] = "recover"
    /\ \/ /\ Goto(c, "serving")
          /\ caretaker' = caretaker \cup {c}
       \/ Goto(c, "unlock") /\ UNCHANGED caretaker
    /\ UNCHANGED <<lock, seen>>

(* Shutdown closes the listener and ListenAndServe returns at once; the    *)
(* handlers under way go on.  So it does when it cannot listen.            *)
shutdownHandler(c) ==
    /\ pc[c] = "serving"
    /\ Goto(c, "stopping")
    /\ UNCHANGED <<lock, seen, caretaker>>

(* stopCareTaker returns when the goroutine has ended.                     *)
stopCareTaker(c) == caretaker' = caretaker \ {c}

StopLoops(c) ==
    /\ pc[c] = "stopping"
    /\ stopCareTaker(c)
    /\ Goto(c, "unlock")
    /\ UNCHANGED <<lock, seen>>

(* Removes the lock file, whosever it is, then closes the store.           *)
releaseDatabaseOwnership(c) ==
    /\ pc[c] = "unlock"
    /\ lock' = None
    /\ Goto(c, "close")
    /\ UNCHANGED <<seen, caretaker>>

Exit(c) ==
    /\ Goto(c, "gone")
    /\ caretaker' = caretaker \ {c}
    /\ UNCHANGED <<lock, seen>>

CloseStore(c) == pc[c] = "close" /\ Exit(c)

(* The process is killed.  No signal is handled: the lock file stays.      *)
Crash(c) == Running(c) /\ Exit(c)

Next ==
    \E c \in Controllers :
        \/ Start(c) \/ initWorkflowExecutionStore(c)
        \/ createControllerDatabaseLockFile(c) \/ writeControllerDatabaseLockFile(c)
        \/ ReadLockFile(c) \/ ProbeOwner(c) \/ removeStaleControllerDatabaseLockFile(c)
        \/ Prepare(c) \/ completeStartupRecovery(c)
        \/ shutdownHandler(c) \/ StopLoops(c) \/ releaseDatabaseOwnership(c) \/ CloseStore(c)
        \/ Crash(c)

Spec == Init /\ [][Next]_vars
-----------------------------------------------------------------------------
TypeOK ==
    /\ pc \in [Controllers -> {"new", "gone", "close"} \cup Starting \cup Owning]
    /\ lock \in {None} \cup [by : Controllers, pid : BOOLEAN]
    /\ seen \in [Controllers -> Controllers \cup {None}]
    /\ caretaker \subseteq Controllers

(* At most one controller is past its ownership check and has not given    *)
(* the database up.                                                        *)
OneOwner == \A c, d \in Controllers : pc[c] \in Owning /\ pc[d] \in Owning => c = d

(* Only the owner's caretaker expires sessions and starts workers: while a *)
(* loop runs, the lock file carries that controller's pid.                 *)
CareTakerOwns == \A c \in caretaker : lock = [by |-> c, pid |-> TRUE]

(* One controller has the database and it alone looks after the fleet.     *)
OneController == OneOwner /\ CareTakerOwns
============================================================================
