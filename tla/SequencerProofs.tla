--------------------------- MODULE SequencerProofs ---------------------------
(***************************************************************************)
(* What pause, stop and resume guarantee, for any number of users, commands *)
(* and calls.  AtMostOneLateCommand needs three facts beside itself: nobody *)
(* is inside pause or resume while stop has the object or the sequence is   *)
(* cancelled (Borrow); a Running sequence has no late command and one whose *)
(* task stored its last state has no task (Periods); and once the one late  *)
(* command has begun, the task is on its way to a check (Spent).            *)
(***************************************************************************)
EXTENDS Sequencer, TLAPS

\* Inside the loop the task is at a command of the list.
InList == task \in {"gate", "park", "parked", "woken", "ready", "exec", "failing"} => step <= Steps

\* Nobody is in pause or resume while stop or Drop holds the object, nor once the
\* sequence is cancelled.
Borrow ==
    /\ owner # "free" => \A u \in Users : user[u] = "out"
    /\ state = "Cancelled" => \A u \in Users : user[u] \notin {"pausing", "resuming"}

\* No command is late while the state is Running, and none begins any more once
\* the task has stored Completed or Failed, or before it is spawned.
Periods ==
    /\ state = "Running" => late = 0
    /\ state = "Idle" => task = "none" /\ late = 0 /\ owner \in {"free", "dropped"}
                         /\ \A u \in Users : user[u] = "out"
    /\ state \in {"Completed", "Failed"} => task = "ended"

\* The late command has begun: the next one is a check away.
Spent ==
    late # 0 =>
        /\ late = 1
        /\ task # "ready"
        /\ state = "Cancelled" =>
               task \in {"exec", "top", "failing", "final", "completing", "ended"}

TypeInv == TypeOK /\ InList
IInv    == TypeInv /\ Borrow /\ Periods /\ Spent

-----------------------------------------------------------------------------
LEMMA TypeInit == Init => TypeInv
<1> SUFFICES ASSUME Init PROVE TypeInv
  OBVIOUS
<1>1. 1 \in 1..(Steps + 1) /\ 0 \in 0..MaxCalls
  BY SequencerAssumption
<1>2. TypeOK
  BY <1>1 DEF Init, TypeOK, States, Places
<1> QED
  BY <1>2 DEF Init, TypeInv, InList

\* The types and the list position are inductive by themselves.
LEMMA TypeNext == TypeInv /\ [Next]_vars => TypeInv'
<1> SUFFICES ASSUME TypeInv, [Next]_vars PROVE TypeInv'
  OBVIOUS
<1> USE SequencerAssumption DEF TypeInv, TypeOK, InList
<1>1. CASE UNCHANGED vars
  BY <1>1 DEF vars, taskVars
<1>2. ASSUME NEW u \in Users, User(u) PROVE TypeInv'
  <2>1. CASE PauseCheck(u) \/ ResumeCheck(u)
    BY <2>1 DEF PauseCheck, ResumeCheck, taskVars
  <2>2. CASE PauseStore(u) \/ ResumeStore(u)
    BY <2>2 DEF PauseStore, ResumeStore, Store, taskVars, States
  <2>3. CASE ResumeNotify(u)
    BY <2>3 DEF ResumeNotify, NotifyOne, Places
  <2> QED BY <1>2, <2>1, <2>2, <2>3 DEF User
<1>3. CASE Owner
  <2>1. CASE Start
    BY <2>1 DEF Start, Store, States, Places
  <2>2. CASE StopCheck \/ StopAbort \/ Drop
    BY <2>2 DEF StopCheck, StopAbort, Drop, taskVars
  <2>3. CASE StopStore
    BY <2>3 DEF StopStore, Store, taskVars, States, Finished
  <2>4. CASE StopNotify
    BY <2>4 DEF StopNotify, NotifyOne, Places
  <2> QED BY <1>3, <2>1, <2>2, <2>3, <2>4 DEF Owner
<1>4. CASE Command
  BY <1>4 DEF Command, CommandOk, CommandFails, CommandPanics, Goto, Places
<1>5. CASE Task
  <2>1. CASE Top
    BY <2>1 DEF Top, Goto, Places
  <2>2. CASE Gate \/ Park \/ Woken
    BY <2>2 DEF Gate, Park, Woken, Goto, Places
  <2>3. CASE Begin
    BY <2>3 DEF Begin, Goto, Places
  <2>4. CASE Final \/ Aborted
    BY <2>4 DEF Final, Aborted, Goto, Places
  <2>5. CASE Fail \/ Complete
    BY <2>5 DEF Fail, Complete, Store, Places, States, Finished
  <2> QED BY <1>5, <2>1, <2>2, <2>3, <2>4, <2>5 DEF Task
<1>6. CASE Gone
  BY <1>1, <1>6 DEF Gone
<1> QED
  BY <1>1, <1>2, <1>3, <1>4, <1>5, <1>6 DEF Next

\* The sequence object, its users and its task keep every variable in its type,
\* and the task never runs past the list of commands.
THEOREM TypeCorrect == Spec => []TypeOK
<1>1. Spec => []TypeInv
  BY TypeInit, TypeNext, PTL DEF Spec
<1> QED
  BY <1>1, PTL DEF TypeInv

-----------------------------------------------------------------------------
LEMMA IInvInit == Init => IInv
  BY TypeInit DEF Init, IInv, Borrow, Periods, Spent

\* Calls of users: their stores open a new period.
LEMMA UserStep ==
    ASSUME IInv, NEW u \in Users, User(u)
    PROVE  (Borrow /\ Periods /\ Spent)'
<1> USE DEF IInv, TypeInv, TypeOK, Borrow, Periods, Spent
<1>1. CASE PauseCheck(u) \/ ResumeCheck(u)
  BY <1>1 DEF PauseCheck, ResumeCheck, taskVars
<1>2. CASE PauseStore(u)
  BY <1>2 DEF PauseStore, Store, taskVars
<1>3. CASE ResumeStore(u)
  BY <1>3 DEF ResumeStore, Store, taskVars
<1>4. CASE ResumeNotify(u)
  BY <1>4 DEF ResumeNotify, NotifyOne
<1> QED
  BY <1>1, <1>2, <1>3, <1>4 DEF User

\* Calls of the exclusive borrower.
LEMMA OwnerStep ==
    ASSUME IInv, Owner
    PROVE  (Borrow /\ Periods /\ Spent)'
<1> USE DEF IInv, TypeInv, TypeOK, Borrow, Periods, Spent, Exclusive
<1>1. CASE Start
  BY <1>1 DEF Start, Store
<1>2. CASE StopCheck
  BY <1>2 DEF StopCheck, taskVars
<1>3. CASE StopStore
  <2>1. /\ state' = "Cancelled" /\ UNCHANGED <<task, user>>
        /\ late' = IF state = "Cancelled" THEN late ELSE 0
        /\ \A u \in Users : user[u] = "out"
    BY <1>3 DEF StopStore, Store, taskVars
  <2> QED BY <2>1
<1>4. CASE StopNotify
  BY <1>4 DEF StopNotify, NotifyOne
<1>5. CASE StopAbort \/ Drop
  BY <1>5 DEF StopAbort, Drop, taskVars
<1> QED
  BY <1>1, <1>2, <1>3, <1>4, <1>5 DEF Owner

\* Steps of the task and of its commands.
LEMMA TaskStep ==
    ASSUME IInv, Task \/ Command
    PROVE  (Borrow /\ Periods /\ Spent)'
<1> USE DEF IInv, TypeInv, TypeOK, Borrow, Periods, Spent, Goto
<1>1. CASE Top
  BY <1>1, SequencerAssumption DEF Top
<1>2. CASE Gate
  BY <1>2 DEF Gate, States, Finished
<1>3. CASE Park \/ Woken
  BY <1>3 DEF Park, Woken
<1>4. CASE Begin
  BY <1>4 DEF Begin
<1>5. CASE Fail \/ Complete
  BY <1>5 DEF Fail, Complete, Store
<1>6. CASE Final \/ Aborted
  BY <1>6 DEF Final, Aborted
<1>7. CASE Command
  BY <1>7 DEF Command, CommandOk, CommandFails, CommandPanics
<1> QED
  BY <1>1, <1>2, <1>3, <1>4, <1>5, <1>6, <1>7 DEF Task

LEMMA IInvNext == IInv /\ [Next]_vars => IInv'
<1> SUFFICES ASSUME IInv, [Next]_vars PROVE IInv'
  OBVIOUS
<1>1. TypeInv'
  BY TypeNext DEF IInv
<1>2. CASE UNCHANGED vars
  BY <1>1, <1>2 DEF IInv, Borrow, Periods, Spent, vars, taskVars
<1>3. CASE Gone
  BY <1>2, <1>3 DEF Gone
<1> QED
  BY <1>1, <1>2, <1>3, UserStep, OwnerStep, TaskStep DEF Next, IInv

\* Between a pause, or a stop, and the next resume at most one command begins.
THEOREM OneLateCommand == Spec => []AtMostOneLateCommand
<1>1. Spec => []IInv
  BY IInvInit, IInvNext, PTL DEF Spec
<1>2. IInv => AtMostOneLateCommand
  BY DEF IInv, Spent, TypeInv, TypeOK, AtMostOneLateCommand
<1> QED
  BY <1>1, <1>2, PTL

-----------------------------------------------------------------------------
\* A resume that has stored Running has not notified yet, or left its permit, or
\* has woken the task: this needs the types only.
LEMMA WakeupNext == TypeInv /\ NoLostWakeup /\ [Next]_vars => NoLostWakeup'
<1> SUFFICES ASSUME TypeInv, NoLostWakeup, [Next]_vars PROVE NoLostWakeup'
  OBVIOUS
<1> USE DEF TypeInv, TypeOK, NoLostWakeup
<1>1. CASE UNCHANGED vars
  BY <1>1 DEF vars, taskVars
<1>2. ASSUME NEW u \in Users, User(u) PROVE NoLostWakeup'
  <2>1. CASE PauseCheck(u) \/ ResumeCheck(u)
    BY <2>1 DEF PauseCheck, ResumeCheck, taskVars
  <2>2. CASE PauseStore(u)
    BY <2>2 DEF PauseStore, Store
  <2>3. CASE ResumeStore(u)
    <3>1. user'[u] = "notify"
      BY <2>3 DEF ResumeStore
    <3> QED BY <3>1
  <2>4. CASE ResumeNotify(u)
    BY <2>4 DEF ResumeNotify, NotifyOne
  <2> QED BY <1>2, <2>1, <2>2, <2>3, <2>4 DEF User
<1>3. CASE Owner
  BY <1>3 DEF Owner, Start, StopCheck, StopStore, StopAbort, StopNotify, Drop, Store, NotifyOne,
              taskVars
<1>4. CASE Command
  BY <1>4 DEF Command, CommandOk, CommandFails, CommandPanics, Goto
<1>5. CASE Task
  BY <1>5 DEF Task, Top, Gate, Park, Woken, Begin, Fail, Final, Complete, Aborted, Goto, Store
<1>6. CASE Gone
  BY <1>1, <1>6 DEF Gone
<1> QED
  BY <1>1, <1>2, <1>3, <1>4, <1>5, <1>6 DEF Next

\* A task that waits while the sequence is Running has a wakeup coming.
THEOREM NoLostWakeupHolds == Spec => []NoLostWakeup
<1>1. Init => NoLostWakeup
  BY DEF Init, NoLostWakeup
<1> QED
  BY <1>1, TypeInit, TypeNext, WakeupNext, PTL DEF Spec
=============================================================================
