---------------------------- MODULE JobLifecycle ----------------------------
(***************************************************************************)
(* What a client expects of a job's row: it is PENDING, may be PROCESSING, *)
(* and once PROCESSED or FAILED stays so.  Nothing is promised any more of *)
(* a job once a handler of it has overtaken another (OVERTAKEN).           *)
(***************************************************************************)
CONSTANTS Jobs

VARIABLES row

Init == row = [j \in Jobs |-> "PENDING"]

Start(j) ==
  /\ row[j] = "PENDING"
  /\ row' = [row EXCEPT ![j] = "PROCESSING"]

Finish(j) ==
  /\ row[j] \in {"PENDING", "PROCESSING"}
  /\ \E s \in {"PROCESSED", "FAILED"} : row' = [row EXCEPT ![j] = s]

Overtake(j) ==
  /\ row[j] # "OVERTAKEN"
  /\ row' = [row EXCEPT ![j] = "OVERTAKEN"]

Next == \E j \in Jobs : Start(j) \/ Finish(j) \/ Overtake(j)

Spec == Init /\ [][Next]_row
=============================================================================
