---------------------------- MODULE TaskExecutor ----------------------------
(***************************************************************************)
(* What a fixed-size executor of tasks promises its users, with no mutex,  *)
(* no condition variable and no thread: tasks are accepted in some order,  *)
(* begun in that same order, each on one free slot and at most once, and   *)
(* the executor is gone only after every task accepted before it was       *)
(* closed has finished.  ThreadPool implements this.                       *)
(***************************************************************************)
EXTENDS Naturals, Sequences

CONSTANTS Slots,   \* how many tasks may run at a time
          Tasks,   \* the tasks users submit, each at most once
          NoTask   \* what a free slot holds

VARIABLES accepted,  \* the tasks accepted, in order
          begun,     \* how many of them were begun
          active,    \* the task each slot runs
          finished,  \* the tasks that ran to their end
          owed,      \* the tasks accepted before the executor was closed
          phase      \* "open", "closed" or "gone"

vars == <<accepted, begun, active, finished, owed, phase>>

AcceptedSet == {accepted[i] : i \in 1..Len(accepted)}

Init ==
  /\ accepted = <<>>
  /\ begun = 0
  /\ active = [s \in Slots |-> NoTask]
  /\ finished = {}
  /\ owed = {}
  /\ phase = "open"

Accept(k) ==
  /\ k \notin AcceptedSet
  /\ accepted' = Append(accepted, k)
  /\ UNCHANGED <<begun, active, finished, owed, phase>>

Begin(s) ==
  /\ active[s] = NoTask
  /\ begun < Len(accepted)
  /\ begun' = begun + 1
  /\ active' = [active EXCEPT ![s] = accepted[begun + 1]]
  /\ UNCHANGED <<accepted, finished, owed, phase>>

Finish(s) ==
  /\ active[s] # NoTask
  /\ finished' = finished \cup {active[s]}
  /\ active' = [active EXCEPT ![s] = NoTask]
  /\ UNCHANGED <<accepted, begun, owed, phase>>

Close ==
  /\ phase = "open"
  /\ phase' = "closed"
  /\ owed' = AcceptedSet
  /\ UNCHANGED <<accepted, begun, active, finished>>

Leave ==
  /\ phase = "closed"
  /\ owed \subseteq finished
  /\ \A s \in Slots : active[s] = NoTask
  /\ phase' = "gone"
  /\ UNCHANGED <<accepted, begun, active, finished, owed>>

Next ==
  \/ \E k \in Tasks : Accept(k)
  \/ \E s \in Slots : Begin(s) \/ Finish(s)
  \/ Close
  \/ Leave

Spec == Init /\ [][Next]_vars
=============================================================================
