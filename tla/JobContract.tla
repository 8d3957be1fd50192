---------------------------- MODULE JobContract ----------------------------
(***************************************************************************)
(* What the job queue promises, with no workers, locks or clock: a job is  *)
(* accepted once, starts only while it waits, publishes only while it      *)
(* runs, completes only after it published, is given up only after         *)
(* MaxAttempts starts, and is never touched again once it ended.           *)
(***************************************************************************)
EXTENDS Naturals

CONSTANTS Job, MaxAttempts

VARIABLES state, starts, published

contractVars == <<state, starts, published>>

Init ==
  /\ state = [j \in Job |-> "none"]
  /\ starts = [j \in Job |-> 0]
  /\ published = {}

Move(j, from, to) ==
  /\ state[j] = from
  /\ state' = [state EXCEPT ![j] = to]

Accept(j) == Move(j, "none", "pending") /\ UNCHANGED <<starts, published>>

Start(j) ==
  /\ Move(j, "pending", "processing")
  /\ starts' = [starts EXCEPT ![j] = @ + 1]
  /\ UNCHANGED published

Publish(j) ==
  /\ state[j] = "processing"
  /\ published' = published \cup {j}
  /\ UNCHANGED <<state, starts>>

\* Attempts that were lost or failed go back to wait, several at once when
\* they went stale together.
GiveBack(S) ==
  /\ \A j \in S : state[j] = "processing"
  /\ state' = [j \in Job |-> IF j \in S THEN "pending" ELSE state[j]]
  /\ UNCHANGED <<starts, published>>

Complete(j) ==
  /\ j \in published
  /\ Move(j, "processing", "done")
  /\ UNCHANGED <<starts, published>>

GiveUp(j) ==
  /\ starts[j] >= MaxAttempts
  /\ Move(j, "processing", "failed")
  /\ UNCHANGED <<starts, published>>

Next ==
  \/ \E j \in Job : Accept(j) \/ Start(j) \/ Publish(j) \/ Complete(j) \/ GiveUp(j)
  \/ \E S \in SUBSET Job : GiveBack(S)

Spec == Init /\ [][Next]_contractVars
=============================================================================
