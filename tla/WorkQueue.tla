------------------------------ MODULE WorkQueue ------------------------------
(***************************************************************************)
(* What the transformation queues promise the service: a message submitted *)
(* for a job stays unsettled until the job is accounted for, and is then   *)
(* settled exactly once.  Messages are neither lost nor multiplied.        *)
(***************************************************************************)
EXTENDS Naturals

CONSTANTS Jobs

VARIABLES
  unsettled,   \* messages submitted and not yet settled, per job
  accounted    \* jobs for which an outcome was announced or given up

vars == <<unsettled, accounted>>

Init ==
  /\ unsettled = [j \in Jobs |-> 0]
  /\ accounted = {}

Submit(j) ==
  /\ unsettled' = [unsettled EXCEPT ![j] = @ + 1]
  /\ UNCHANGED accounted

Account(j) ==
  /\ unsettled[j] > 0 /\ j \notin accounted
  /\ accounted' = accounted \cup {j}
  /\ UNCHANGED unsettled

Settle(j) ==
  /\ unsettled[j] > 0 /\ j \in accounted
  /\ unsettled' = [unsettled EXCEPT ![j] = @ - 1]
  /\ UNCHANGED accounted

Next == \E j \in Jobs : Submit(j) \/ Account(j) \/ Settle(j)

Spec == Init /\ [][Next]_vars

FairSpec ==
  /\ Spec
  /\ \A j \in Jobs : WF_vars(Account(j)) /\ WF_vars(Settle(j))
=============================================================================
