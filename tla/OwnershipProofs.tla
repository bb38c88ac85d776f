-------------------------- MODULE OwnershipProofs --------------------------
(***************************************************************************)
(* One controller owns the database, whatever the number of controllers    *)
(* and wherever they are killed, as long as they start one after another.  *)
(*                                                                         *)
(* OneOwner is not inductive: what protects an owner is its pid in the     *)
(* lock file, and what protects that is what the one starting controller   *)
(* knows of the file at each of its steps.                                 *)
(***************************************************************************)
EXTENDS ControllerOwnership, TLAPS

LockOf(c, pid) == [by |-> c, pid |-> pid]

(* What a controller at a step of its start, or past it, knows of the lock *)
(* file.                                                                   *)
Knows(c) ==
    /\ pc[c] \in Owning => lock = LockOf(c, TRUE)
    /\ pc[c] \in {"write", "rewrite"} => lock = LockOf(c, FALSE)
    /\ pc[c] \in {"probe", "remove"} => seen[c] \in Controllers /\ lock \in {None, LockOf(seen[c], TRUE)}
    /\ pc[c] = "remove" => ~Running(seen[c])
    /\ pc[c] = "recreate" => lock = None

OneStarting == \A c, d \in Controllers : pc[c] \in Starting /\ pc[d] \in Starting => c = d

LoopsServe == \A c \in caretaker : pc[c] \in {"serving", "stopping"}

Inv == TypeOK /\ OneStarting /\ LoopsServe /\ \A c \in Controllers : Knows(c)
-----------------------------------------------------------------------------
(* None is not the content of a lock file.                                 *)
NoneIsNoLock == \A c \in Controllers, pid \in BOOLEAN : None # LockOf(c, pid)

(* What createControllerDatabaseLockFile leaves has the type of a lock.    *)
LEMMA LockTyped == \A c \in Controllers, pid \in BOOLEAN : LockOf(c, pid) \in [by : Controllers, pid : BOOLEAN]
BY Zenon DEF LockOf

(* The invariant gives what the run checks: two owners would both have     *)
(* their pid in the lock file, and a loop runs only in an owner.           *)
LEMMA InvImplies == Inv => OneController
<1> SUFFICES ASSUME Inv PROVE OneController
  BY Zenon
<1>1. OneOwner
  BY DEF Inv, Knows, LockOf, OneOwner, TypeOK
<1>2. CareTakerOwns
  BY Zenon DEF Inv, Knows, LockOf, LoopsServe, CareTakerOwns, Owning, TypeOK
<1> QED
  BY Zenon, <1>1, <1>2 DEF OneController

(* No controller runs and there is no lock file at first.                  *)
LEMMA InitInv == Init => Inv
BY Zenon DEF Init, Inv, TypeOK, OneStarting, LoopsServe, Knows, Starting, Owning

Labels == {"new", "gone", "close"} \cup Starting \cup Owning

(* A running controller that takes a step leaves the others what they know *)
(* of the lock file, which it touches only when nobody owns the database   *)
(* or to give up its own.                                                  *)
LEMMA StepInv ==
    ASSUME Inv, NoneIsNoLock, NEW c \in Controllers, NEW label \in Labels, pc' = [pc EXCEPT ![c] = label],
           Running(c), label \in Starting => pc[c] \in Starting,
           seen' \in [Controllers -> Controllers \cup {None}],
           \A d \in Controllers \ {c} : seen'[d] = seen[d],
           lock' \in {None} \cup [by : Controllers, pid : BOOLEAN],
           \/ lock' = lock
           \/ pc[c] \in Starting /\ \A d \in Controllers \ {c} : pc[d] \notin Owning
           \/ pc[c] \in Owning /\ lock' = None,
           caretaker' \subseteq caretaker \cup {c},
           c \in caretaker' => label \in {"serving", "stopping"},
           Knows(c)'
    PROVE  Inv'
<1>1. pc'[c] = label /\ \A d \in Controllers \ {c} : pc'[d] = pc[d]
  BY Zenon DEF Inv, TypeOK
<1>2. TypeOK'
  BY Zenon DEF Inv, TypeOK, Labels
<1>3. OneStarting'
  BY ZenonT(30), <1>1 DEF Inv, OneStarting
<1>4. LoopsServe'
  BY Zenon, <1>1 DEF Inv, LoopsServe, TypeOK
<1>5. ASSUME NEW d \in Controllers \ {c} PROVE Knows(d)'
  <2>0. Knows(d) /\ Knows(c) /\ pc'[d] = pc[d] /\ seen'[d] = seen[d]
    BY Zenon, <1>1 DEF Inv
  <2>1. pc[d] = "remove" => ~Running(seen[d])'
    BY Zenon, <1>1, <2>0 DEF Knows, Running
  <2>2. CASE lock' = lock
    BY Zenon, <2>0, <2>1, <2>2 DEF Knows
  <2>3. CASE pc[c] \in Starting /\ \A e \in Controllers \ {c} : pc[e] \notin Owning
    <3>1. pc[d] \notin Starting /\ pc[d] \notin Owning
      BY Zenon, <2>3 DEF Inv, OneStarting
    <3> QED
      BY Zenon, <2>0, <3>1 DEF Knows, Starting
  <2>4. CASE pc[c] \in Owning /\ lock' = None
    <3>1. lock = LockOf(c, TRUE)
      BY Zenon, <2>0, <2>4 DEF Knows
    <3>2. \A pid \in BOOLEAN : lock # LockOf(d, pid)
      BY Zenon, <3>1 DEF LockOf
    <3>3. pc[d] \notin Owning \cup {"write", "rewrite"}
      BY Zenon, <2>0, <3>2 DEF Knows
    <3> QED
      BY Zenon, <2>0, <2>1, <2>4, <3>3 DEF Knows
  <2> QED
    BY Zenon, <2>2, <2>3, <2>4
<1> QED
  BY Zenon, <1>2, <1>3, <1>4, <1>5 DEF Inv

(* Who would own the database has its pid in the lock file.                *)
LEMMA OwnersPid ==
    ASSUME Inv, NEW d \in Controllers, pc[d] \in Owning
    PROVE  lock = LockOf(d, TRUE) /\ Running(d)
BY Zenon DEF Inv, Knows, Owning, Running

(* Every step of every controller keeps the invariant.                     *)
LEMMA NextInv ==
    ASSUME ~Overlap, NoneIsNoLock, Inv, [Next]_vars
    PROVE  Inv'
<1>0. TypeOK /\ LoopsServe /\ \A c \in Controllers : Knows(c)
  BY Zenon DEF Inv
<1>1. CASE UNCHANGED vars
  BY Zenon, <1>1 DEF vars, Inv, TypeOK, OneStarting, LoopsServe, Knows, Running
<1>2. ASSUME NEW c \in Controllers, Start(c) PROVE Inv'
  <2>1. PICK label \in {"open", "gone"} : pc' = [pc EXCEPT ![c] = label]
    BY Zenon, <1>2 DEF Start, Goto
  <2>2. /\ pc[c] = "new" /\ UNCHANGED <<lock, seen, caretaker>>
        /\ \A d \in Controllers : pc[d] \notin Starting
    BY Zenon, <1>2 DEF Start
  <2>3. pc'[c] = label /\ \A d \in Controllers \ {c} : pc'[d] = pc[d]
    BY Zenon, <1>0, <2>1 DEF TypeOK
  <2>4. TypeOK' /\ LoopsServe'
    BY Zenon, <1>0, <2>1, <2>2, <2>3 DEF TypeOK, LoopsServe, Starting
  <2>5. OneStarting'
    BY Zenon, <2>2, <2>3 DEF OneStarting
  <2>6. \A d \in Controllers : Knows(d)'
    BY Zenon, <1>0, <2>2, <2>3 DEF Knows, Starting, Owning
  <2> QED
    BY Zenon, <2>4, <2>5, <2>6 DEF Inv
<1>3. ASSUME NEW c \in Controllers, NEW label \in Labels, Running(c), Goto(c, label),
             UNCHANGED <<lock, seen>>, caretaker' \subseteq caretaker \cup {c},
             label \in Starting => pc[c] \in Starting,
             c \in caretaker' => label \in {"serving", "stopping"},
             Knows(c)'
      PROVE  Inv'
  BY Zenon, <1>0, <1>3, StepInv DEF Goto, TypeOK
<1>4. ASSUME NEW c \in Controllers, initWorkflowExecutionStore(c) PROVE Inv'
  <2>1. PICK label \in {"create", "gone"} : Goto(c, label)
    BY Zenon, <1>4 DEF initWorkflowExecutionStore
  <2>2. pc[c] = "open" /\ UNCHANGED <<lock, seen, caretaker>> /\ pc'[c] = label
    BY Zenon, <1>0, <1>4, <2>1 DEF initWorkflowExecutionStore, Goto, TypeOK
  <2>3. Knows(c)' /\ c \notin caretaker
    BY Zenon, <1>0, <2>2 DEF Knows, LoopsServe, Owning
  <2> QED
    BY Zenon, <1>3, <2>1, <2>2, <2>3 DEF Labels, Starting, Running
<1>5. ASSUME NEW c \in Controllers, createControllerDatabaseLockFile(c) PROVE Inv'
  <2>1. pc[c] \in {"create", "recreate"} /\ UNCHANGED <<seen, caretaker>> /\ c \notin caretaker
    BY Zenon, <1>0, <1>5 DEF createControllerDatabaseLockFile, LoopsServe
  <2>2. CASE lock = None
    <3>1. PICK label \in {"write", "rewrite"} : pc' = [pc EXCEPT ![c] = label] /\ lock' = LockOf(c, FALSE)
      BY Zenon, <1>5, <2>2 DEF createControllerDatabaseLockFile, Goto, LockOf
    <3>2. \A d \in Controllers : pc[d] \notin Owning
      BY Zenon, <2>2, OwnersPid DEF NoneIsNoLock
    <3>3. Knows(c)'
      BY Zenon, <1>0, <3>1 DEF Knows, Owning, TypeOK
    <3> QED
      BY Zenon, <1>0, <2>1, <3>1, <3>2, <3>3, LockTyped, StepInv DEF Labels, Starting, Running, TypeOK
  <2>3. CASE lock # None
    <3>1. PICK label \in {"read", "gone"} : Goto(c, label) /\ UNCHANGED lock
      BY Zenon, <1>5, <2>3 DEF createControllerDatabaseLockFile
    <3>2. Knows(c)'
      BY Zenon, <1>0, <3>1 DEF Knows, Owning, TypeOK, Goto
    <3> QED
      BY Zenon, <1>3, <2>1, <3>1, <3>2 DEF Labels, Starting, Running
  <2> QED
    BY Zenon, <2>2, <2>3
<1>6. ASSUME NEW c \in Controllers, writeControllerDatabaseLockFile(c) PROVE Inv'
  <2>1. pc[c] \in {"write", "rewrite"} /\ UNCHANGED <<seen, caretaker>> /\ c \notin caretaker
    BY Zenon, <1>0, <1>6 DEF writeControllerDatabaseLockFile, LoopsServe
  <2>2. lock = LockOf(c, FALSE)
    BY Zenon, <1>0, <2>1 DEF Knows
  <2>3. PICK label \in {"prepare", "gone"} :
            pc' = [pc EXCEPT ![c] = label] /\ lock' = IF label = "prepare" THEN LockOf(c, TRUE) ELSE None
    BY Zenon, <1>6, <2>2 DEF writeControllerDatabaseLockFile, Goto, LockOf
  <2>4. \A d \in Controllers : pc[d] \notin Owning
    <3>1. \A d \in Controllers : lock # LockOf(d, TRUE)
      BY Zenon, <2>2 DEF LockOf
    <3> QED
      BY Zenon, <3>1, OwnersPid
  <2>5. Knows(c)'
    BY Zenon, <1>0, <2>3 DEF Knows, Owning, TypeOK
  <2>6. lock' \in {None} \cup [by : Controllers, pid : BOOLEAN]
    BY Zenon, <2>3, LockTyped
  <2>7. label \in Labels /\ label \notin Starting /\ pc[c] \in Starting /\ Running(c)
    BY Zenon, <2>1 DEF Labels, Starting, Owning, Running
  <2> QED
    BY Zenon, <1>0, <2>1, <2>3, <2>4, <2>5, <2>6, <2>7, StepInv DEF TypeOK
<1>7. ASSUME NEW c \in Controllers, ReadLockFile(c) PROVE Inv'
  <2>1. pc[c] = "read" /\ UNCHANGED <<lock, caretaker>> /\ c \notin caretaker
    BY Zenon, <1>0, <1>7 DEF ReadLockFile, LoopsServe
  <2>2. CASE lock = None \/ ~lock.pid
    <3>1. PICK label \in {"recreate", "gone"} :
              Goto(c, label) /\ UNCHANGED seen /\ (label = "recreate" => lock = None)
      BY Zenon, <1>7, <2>2 DEF ReadLockFile
    <3>2. Knows(c)'
      BY Zenon, <1>0, <2>1, <3>1 DEF Knows, Owning, TypeOK, Goto
    <3> QED
      BY Zenon, <1>3, <2>1, <3>1, <3>2 DEF Labels, Starting, Running
  <2>3. CASE lock # None /\ lock.pid
    <3>1. pc' = [pc EXCEPT ![c] = "probe"] /\ seen' = [seen EXCEPT ![c] = lock.by]
      BY Zenon, <1>7, <2>3 DEF ReadLockFile, Goto
    <3>2. lock.by \in Controllers /\ lock = LockOf(lock.by, TRUE)
      BY Zenon, <1>0, <2>3 DEF TypeOK, LockOf
    <3>3. Knows(c)'
      BY Zenon, <1>0, <2>1, <3>1, <3>2 DEF Knows, Owning, TypeOK
    <3>4. seen' \in [Controllers -> Controllers \cup {None}] /\ \A d \in Controllers \ {c} : seen'[d] = seen[d]
      BY Zenon, <1>0, <3>1, <3>2 DEF TypeOK
    <3> QED
      BY Zenon, <1>0, <2>1, <3>1, <3>3, <3>4, StepInv DEF Labels, Starting, Running, TypeOK
  <2> QED
    BY Zenon, <2>2, <2>3
<1>8. ASSUME NEW c \in Controllers, ProbeOwner(c) PROVE Inv'
  <2>1. pc[c] = "probe" /\ UNCHANGED <<lock, seen, caretaker>> /\ c \notin caretaker
    BY Zenon, <1>0, <1>8 DEF ProbeOwner, LoopsServe
  <2>2. PICK label \in {"gone", "remove"} : Goto(c, label) /\ (label = "remove" => ~Running(seen[c]))
    BY Zenon, <1>8 DEF ProbeOwner, controllerDatabaseLockOwnerProcessActive
  <2>3. seen[c] \in Controllers /\ lock \in {None, LockOf(seen[c], TRUE)}
    BY Zenon, <1>0, <2>1 DEF Knows
  <2>4. label = "remove" => ~Running(seen[c])'
    BY Zenon, <1>0, <2>1, <2>2, <2>3 DEF Running, Goto, TypeOK
  <2>5. Knows(c)'
    BY Zenon, <1>0, <2>1, <2>2, <2>3, <2>4 DEF Knows, Owning, TypeOK, Goto
  <2> QED
    BY Zenon, <1>3, <2>1, <2>2, <2>5 DEF Labels, Starting, Running
<1>9. ASSUME NEW c \in Controllers, removeStaleControllerDatabaseLockFile(c) PROVE Inv'
  <2>1. /\ pc[c] = "remove" /\ lock' = None /\ pc' = [pc EXCEPT ![c] = "recreate"]
        /\ UNCHANGED <<seen, caretaker>> /\ c \notin caretaker
    BY Zenon, <1>0, <1>9 DEF removeStaleControllerDatabaseLockFile, LoopsServe, Goto
  <2>2. ASSUME NEW d \in Controllers, pc[d] \in Owning PROVE FALSE
    <3>1. lock = LockOf(d, TRUE) /\ Running(d)
      BY Zenon, <2>2, OwnersPid
    <3>2. lock = LockOf(seen[c], TRUE) /\ ~Running(seen[c])
      BY Zenon, <1>0, <2>1, <3>1 DEF Knows, NoneIsNoLock
    <3> QED
      BY <3>1, <3>2 DEF LockOf
  <2>3. Knows(c)'
    BY Zenon, <1>0, <2>1 DEF Knows, Owning, TypeOK
  <2> QED
    BY Zenon, <1>0, <2>1, <2>2, <2>3, StepInv DEF Labels, Starting, Running, TypeOK
<1>10. ASSUME NEW c \in Controllers, Prepare(c) PROVE Inv'
  <2>1. pc[c] = "prepare" /\ UNCHANGED <<lock, seen, caretaker>> /\ c \notin caretaker
    BY Zenon, <1>0, <1>10 DEF Prepare, LoopsServe
  <2>2. PICK label \in {"recover", "unlock"} : Goto(c, label)
    BY Zenon, <1>10 DEF Prepare
  <2>3. Knows(c)'
    BY Zenon, <1>0, <2>1, <2>2 DEF Knows, Owning, TypeOK, Goto
  <2> QED
    BY Zenon, <1>3, <2>1, <2>2, <2>3 DEF Labels, Starting, Owning, Running
<1>11. ASSUME NEW c \in Controllers, completeStartupRecovery(c) PROVE Inv'
  <2>1. pc[c] = "recover" /\ UNCHANGED <<lock, seen>> /\ c \notin caretaker
    BY Zenon, <1>0, <1>11 DEF completeStartupRecovery, LoopsServe
  <2>2. PICK label \in {"serving", "unlock"} :
            Goto(c, label) /\ caretaker' = IF label = "serving" THEN caretaker \cup {c} ELSE caretaker
    BY Zenon, <1>11 DEF completeStartupRecovery
  <2>3. Knows(c)'
    BY Zenon, <1>0, <2>1, <2>2 DEF Knows, Owning, TypeOK, Goto
  <2> QED
    BY Zenon, <1>3, <2>1, <2>2, <2>3 DEF Labels, Starting, Owning, Running
<1>12. ASSUME NEW c \in Controllers, shutdownHandler(c) PROVE Inv'
  <2>1. pc[c] = "serving" /\ UNCHANGED <<lock, seen, caretaker>> /\ Goto(c, "stopping")
    BY Zenon, <1>12 DEF shutdownHandler
  <2>2. Knows(c)'
    BY Zenon, <1>0, <2>1 DEF Knows, Owning, TypeOK, Goto
  <2> QED
    BY Zenon, <1>3, <2>1, <2>2 DEF Labels, Starting, Owning, Running
<1>13. ASSUME NEW c \in Controllers, StopLoops(c) PROVE Inv'
  <2>1. pc[c] = "stopping" /\ UNCHANGED <<lock, seen>> /\ caretaker' = caretaker \ {c} /\ Goto(c, "unlock")
    BY Zenon, <1>13 DEF StopLoops, stopCareTaker
  <2>2. Knows(c)'
    BY Zenon, <1>0, <2>1 DEF Knows, Owning, TypeOK, Goto
  <2> QED
    BY Zenon, <1>3, <2>1, <2>2 DEF Labels, Starting, Owning, Running
<1>14. ASSUME NEW c \in Controllers, releaseDatabaseOwnership(c) PROVE Inv'
  <2>1. /\ pc[c] = "unlock" /\ lock' = None /\ pc' = [pc EXCEPT ![c] = "close"]
        /\ UNCHANGED <<seen, caretaker>> /\ c \notin caretaker
    BY Zenon, <1>0, <1>14 DEF releaseDatabaseOwnership, LoopsServe, Goto
  <2>2. Knows(c)'
    BY Zenon, <1>0, <2>1 DEF Knows, Owning, TypeOK
  <2>3. "close" \in Labels /\ "close" \notin Starting /\ pc[c] \in Owning /\ Running(c)
    BY Zenon, <2>1 DEF Labels, Starting, Owning, Running
  <2> QED
    BY Zenon, <1>0, <2>1, <2>2, <2>3, StepInv DEF TypeOK
<1>15. ASSUME NEW c \in Controllers, CloseStore(c) \/ Crash(c) PROVE Inv'
  <2>1. Running(c) /\ UNCHANGED <<lock, seen>> /\ caretaker' = caretaker \ {c} /\ Goto(c, "gone")
    BY Zenon, <1>15 DEF CloseStore, Crash, Exit, Running
  <2>2. Knows(c)'
    BY Zenon, <1>0, <2>1 DEF Knows, Owning, TypeOK, Goto
  <2> QED
    BY Zenon, <1>3, <2>1, <2>2 DEF Labels, Starting
<1> QED
  BY Zenon, <1>1, <1>2, <1>4, <1>5, <1>6, <1>7, <1>8, <1>9, <1>10, <1>11, <1>12, <1>13, <1>14, <1>15 DEF Next

(* With one controller starting at a time, at most one is past its         *)
(* ownership check and has not given the database up, and the caretaker    *)
(* loops that run are the owner's.                                         *)
THEOREM OneControllerOwns ==
    ASSUME ~Overlap, NoneIsNoLock
    PROVE  Spec => []OneController
<1>1. Inv /\ [Next]_vars => Inv'
  BY Zenon, NextInv
<1> QED
  BY InitInv, <1>1, InvImplies, PTL DEF Spec
============================================================================
