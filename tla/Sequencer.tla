------------------------------ MODULE Sequencer ------------------------------
(***************************************************************************)
(* An observation sequence of the scopinator crate (sequencer/sequence.rs): *)
(* the Sequence object its users call, and the spawned task run_sequence    *)
(* that executes the commands one after the other.  Object and task share  *)
(* two things only, an AtomicU8 with the state and a tokio Notify, and     *)
(* every call is a load of the state followed by a store: each load, store *)
(* and notification is a step of its own here.                             *)
(*                                                                         *)
(* pause and resume take &self, so several users may be inside them at     *)
(* once; start, stop and Drop take &mut self or own the object, so nobody  *)
(* else is inside a call then (`owner` is Rust's exclusive borrow).        *)
(***************************************************************************)
EXTENDS Integers

CONSTANTS
    Users,      \* threads that share the Sequence
    Steps,      \* number of commands of the sequence
    Outcomes,   \* how a command may end: "ok", "error", "panic"
    MaxCalls    \* bound: calls of pause and resume that get past their check

ASSUME SequencerAssumption ==
    /\ Steps \in Nat
    /\ Outcomes \subseteq {"ok", "error", "panic"}
    /\ MaxCalls \in Nat

VARIABLES
    state,     \* Sequence.state
    permit,    \* the permit stored in resume_notify
    task,      \* where the run_sequence task is
    step,      \* the command it is at, from 1
    aborted,   \* abort was called on its JoinHandle
    user,      \* where each user is in pause or resume
    owner,     \* where the exclusive borrower is in stop; "dropped" at last
    calls,     \* calls of pause and resume so far
    late       \* history: commands begun since the state last left Running
               \* or went from Paused to Cancelled

taskVars == <<task, step>>
vars == <<state, permit, task, step, aborted, user, owner, calls, late>>

Finished == {"Completed", "Failed", "Cancelled"}      \* is_finished
States   == {"Idle", "Running", "Paused"} \union Finished

\* The task is at one of: `top` the load at the head of the for loop; `gate` the
\* load of the while condition; `park` calling notified(); `parked` suspended in
\* it; `woken` the load after it; `ready` about to execute the command; `exec`
\* inside execute_command; `failing` storing Failed; `final` the load after the
\* loop; `completing` storing Completed.
Places == {"none", "top", "gate", "park", "parked", "woken", "ready", "exec",
           "failing", "final", "completing", "ended"}

Init ==
    /\ state = "Idle"
    /\ permit = FALSE
    /\ task = "none"
    /\ step = 1
    /\ aborted = FALSE
    /\ user = [u \in Users |-> "out"]
    /\ owner = "free"
    /\ calls = 0
    /\ late = 0

-----------------------------------------------------------------------------
(* The shared primitives *)

\* notify_one: wake the suspended task, or leave one permit for its next wait.
NotifyOne ==
    IF task = "parked"
    THEN task' = "woken" /\ UNCHANGED permit
    ELSE permit' = TRUE  /\ UNCHANGED task

\* state.store(s).  Only a change of state opens a new period of `late`.
Store(s) ==
    /\ state' = s
    /\ late' = IF state = s THEN late ELSE 0

Exclusive == owner = "free" /\ \A u \in Users : user[u] = "out"

-----------------------------------------------------------------------------
(* Calls on the Sequence.  A call whose check fails returns and changes nothing. *)

\* start: nothing else can observe the state between its steps.
Start ==
    /\ Exclusive
    /\ state = "Idle"
    /\ Store("Running")
    /\ task' = "top"
    /\ UNCHANGED <<permit, step, aborted, user, owner, calls>>

\* stop loads the state twice; only the task may run in between, and it stores no
\* state that passes the check, so the last load decides.
StopCheck ==
    /\ Exclusive
    /\ state \in {"Running", "Paused"}
    /\ owner' = "cancel"
    /\ UNCHANGED <<state, permit, taskVars, aborted, user, calls, late>>

StopStore ==
    /\ owner = "cancel"
    /\ Store("Cancelled")
    /\ owner' = "abort"
    /\ UNCHANGED <<permit, taskVars, aborted, user, calls>>

StopDetaches ==        \* Mutant: the handle is dropped, not aborted
    /\ owner = "abort"
    /\ owner' = "notify"
    /\ UNCHANGED <<state, permit, taskVars, aborted, user, calls, late>>

StopAbort ==
    /\ owner = "abort"
    /\ aborted' = TRUE
    /\ owner' = "notify"
    /\ UNCHANGED <<state, permit, taskVars, user, calls, late>>

StopNotify ==
    /\ owner = "notify"
    /\ NotifyOne
    /\ owner' = "free"
    /\ UNCHANGED <<state, step, aborted, user, calls, late>>

\* Drop for Sequence: the state is not touched.
Drop ==
    /\ Exclusive
    /\ aborted' = (aborted \/ task # "none")
    /\ owner' = "dropped"
    /\ UNCHANGED <<state, permit, taskVars, user, calls, late>>

PauseCheck(u) ==
    /\ owner = "free" /\ user[u] = "out" /\ calls < MaxCalls
    /\ state = "Running"
    /\ user' = [user EXCEPT ![u] = "pausing"]
    /\ calls' = calls + 1
    /\ UNCHANGED <<state, permit, taskVars, aborted, owner, late>>

PauseStore(u) ==
    /\ user[u] = "pausing"
    /\ Store("Paused")
    /\ user' = [user EXCEPT ![u] = "out"]
    /\ UNCHANGED <<permit, taskVars, aborted, owner, calls>>

ResumeCheck(u) ==
    /\ owner = "free" /\ user[u] = "out" /\ calls < MaxCalls
    /\ state = "Paused"
    /\ user' = [user EXCEPT ![u] = "resuming"]
    /\ calls' = calls + 1
    /\ UNCHANGED <<state, permit, taskVars, aborted, owner, late>>

ResumeStore(u) ==
    /\ user[u] = "resuming"
    /\ Store("Running")
    /\ user' = [user EXCEPT ![u] = "notify"]
    /\ UNCHANGED <<permit, taskVars, aborted, owner, calls>>

ResumeForgets(u) ==      \* Mutant: no notification
    /\ user[u] = "notify"
    /\ user' = [user EXCEPT ![u] = "out"]
    /\ UNCHANGED <<state, permit, taskVars, aborted, owner, calls, late>>

ResumeNotify(u) ==
    /\ user[u] = "notify"
    /\ NotifyOne
    /\ user' = [user EXCEPT ![u] = "out"]
    /\ UNCHANGED <<state, step, aborted, owner, calls, late>>

-----------------------------------------------------------------------------
(* The task: run_sequence *)

Goto(p) ==
    /\ task' = p
    /\ UNCHANGED <<state, step, aborted, user, owner, calls>>

TopOffByOne ==        \* Mutant: one step too many
    /\ task = "top"
    /\ Goto(CASE step > Steps + 1      -> "final"
              [] state = "Cancelled"   -> "ended"
              [] OTHER                 -> "gate")
    /\ UNCHANGED <<permit, late>>

\* The for loop: it is over, or the cancellation check at its head.
Top ==
    /\ task = "top"
    /\ Goto(CASE step > Steps          -> "final"
              [] step <= Steps /\ state = "Cancelled" -> "ended"
              [] OTHER                 -> "gate")
    /\ UNCHANGED <<permit, late>>

Gate ==
    /\ task = "gate"
    /\ Goto(IF state = "Paused" THEN "park" ELSE "ready")
    /\ UNCHANGED <<permit, late>>

\* notified().await takes the permit, or suspends.
Park ==
    /\ task = "park"
    /\ Goto(IF permit THEN "woken" ELSE "parked")
    /\ permit' = FALSE
    /\ UNCHANGED late

WokenProceeds ==      \* Mutant: `if` for `while`
    /\ task = "woken"
    /\ Goto(IF state = "Cancelled" THEN "ended" ELSE "ready")
    /\ UNCHANGED <<permit, late>>

WokenParksAgain ==    \* Mutant: the state is not looked at again
    /\ task = "woken"
    /\ Goto(IF state = "Cancelled" THEN "ended" ELSE "park")
    /\ UNCHANGED <<permit, late>>

Woken ==
    /\ task = "woken"
    /\ Goto(IF state = "Cancelled" THEN "ended" ELSE "gate")
    /\ UNCHANGED <<permit, late>>

\* execute_command is polled: the command may reach the telescope from here on.
Begin ==
    /\ task = "ready"
    /\ Goto("exec")
    /\ late' = IF state = "Running" THEN 0 ELSE late + 1
    /\ UNCHANGED permit

CommandOk ==
    /\ task = "exec" /\ "ok" \in Outcomes
    /\ task' = "top"
    /\ step' = step + 1
    /\ UNCHANGED <<state, permit, aborted, user, owner, calls, late>>

CommandFails ==
    /\ task = "exec" /\ "error" \in Outcomes
    /\ Goto("failing")
    /\ UNCHANGED <<permit, late>>

\* WaitMinutes: Duration::from_secs_f64 panics on a negative number of minutes.
CommandPanics ==
    /\ task = "exec" /\ "panic" \in Outcomes
    /\ Goto("ended")
    /\ UNCHANGED <<permit, late>>

Fail ==
    /\ task = "failing"
    /\ Store("Failed")
    /\ task' = "ended"
    /\ UNCHANGED <<permit, step, aborted, user, owner, calls>>

Final ==
    /\ task = "final"
    /\ Goto(IF state = "Running" THEN "completing" ELSE "ended")
    /\ UNCHANGED <<permit, late>>

Complete ==
    /\ task = "completing"
    /\ Store("Completed")
    /\ task' = "ended"
    /\ UNCHANGED <<permit, step, aborted, user, owner, calls>>

\* An aborted task ends at an await, or before it is polled for the first time:
\* what it executes between two awaits is executed.
Aborted ==
    /\ aborted
    /\ task \in {"parked", "woken", "exec"} \/ (task = "top" /\ step = 1)
    /\ Goto("ended")
    /\ UNCHANGED <<permit, late>>

-----------------------------------------------------------------------------
\* The object is gone and its task too.
Gone == owner = "dropped" /\ task \in {"none", "ended"} /\ UNCHANGED vars

User(u) == PauseCheck(u) \/ PauseStore(u) \/ ResumeCheck(u) \/ ResumeStore(u) \/ ResumeNotify(u)
Owner   == Start \/ StopCheck \/ StopStore \/ StopAbort \/ StopNotify \/ Drop
Command == CommandOk \/ CommandFails \/ CommandPanics
Task    == Top \/ Gate \/ Park \/ Woken \/ Begin \/ Fail \/ Final \/ Complete \/ Aborted

Next == (\E u \in Users : User(u)) \/ Owner \/ Command \/ Task \/ Gone

Spec == Init /\ [][Next]_vars

\* The scheduler polls a task that can run, and a call that was entered is
\* synchronous code that returns.  Nothing makes a user call anything, and no
\* bound is put on a command: WaitUntilTime may wait for days.
Fairness ==
    /\ WF_vars(Task)
    /\ WF_vars(StopStore \/ StopAbort \/ StopNotify)
    /\ \A u \in Users : WF_vars(PauseStore(u) \/ ResumeStore(u) \/ ResumeNotify(u))

FairSpec == Spec /\ Fairness

-----------------------------------------------------------------------------
(* Properties *)

\* Every variable stays in its type; the task never runs past the list.
TypeOK ==
    /\ state \in States
    /\ permit \in BOOLEAN
    /\ task \in Places
    /\ step \in 1..(Steps + 1)
    /\ aborted \in BOOLEAN
    /\ user \in [Users -> {"out", "pausing", "resuming", "notify"}]
    /\ owner \in {"free", "cancel", "abort", "notify", "dropped"}
    /\ calls \in 0..MaxCalls
    /\ late \in Nat

\* After a pause at most the one command the task was already past its check for
\* begins, until a resume; likewise after a stop: a permit left over from an
\* earlier resume lets no command through.
AtMostOneLateCommand == late <= 1

\* No resume is lost, whatever other users pause and resume meanwhile: a task
\* that waits while the state is Running has a notification coming.
NoLostWakeup ==
    task \in {"park", "parked"} /\ state = "Running"
        => permit \/ \E u \in Users : user[u] = "notify"

\* A task between two commands gets to the next one, or ends, unless paused.
ProgressUnlessPaused ==
    task \notin {"none", "exec", "ended"} ~> task \in {"exec", "ended"} \/ state = "Paused"

\* A stopped sequence stops: its task ends, even inside a command that never ends.
StopEndsTask == state = "Cancelled" ~> task = "ended"

\* sequence.rs, of is_finished: "Returns true if the sequence has finished
\* (completed, failed, or cancelled)".  When the task has ended and no call is
\* under way, the sequence has finished.
EndedIsFinished == task = "ended" /\ Exclusive => state \in Finished
=============================================================================
