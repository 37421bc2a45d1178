------------------------------ MODULE Pipeline ------------------------------
(***************************************************************************)
(* The worker pool and the status consumer, joined by status_queue.        *)
(***************************************************************************)
EXTENDS WorkerPool, StatusConsumer

pipelineVars == <<vars, consumerVars>>

PipelineInit == Init /\ ConsumerInit

\* What PublishOk says is appended to status_queue.
Publish(w) == PublishOk(w) /\ Enqueue(holding[w], Says[stage[w]])

PipelineNext ==
  \/ \E w \in Workers : Publish(w)
  \/ Quiet /\ UNCHANGED consumerVars
  \/ ConsumerNext /\ UNCHANGED vars

PipelineSpec == PipelineInit /\ [][PipelineNext]_pipelineVars

\* The pool's fairness, and the event loop runs every handler on: a delivery
\* is handled, its UPDATE ends, its continuation is scheduled.
PipelineFairness ==
  /\ WF_pipelineVars(OpenStatusChannel /\ UNCHANGED consumerVars)
  /\ \A w \in Workers :
       WF_pipelineVars(Publish(w) \/ (QuietWork(w) /\ UNCHANGED consumerVars))
  /\ WF_pipelineVars(Handle /\ UNCHANGED vars)

FairPipelineSpec == PipelineSpec /\ PipelineFairness

-----------------------------------------------------------------------------
(* Properties.                                                             *)

\* A row that says PROCESSED has its processed object in S3, whatever order the
\* handlers write in and however often runs and deliveries are repeated.
RowHasResult == \A j \in Jobs : row[j] = "PROCESSED" => j \in s3out

\* Jobs of whose status nothing is promised on the way from the worker to the row:
\* handlers of them overlapped, an UPDATE failed, a final status was swallowed, or
\* a run was ended for good by a fatal publish or by a crash.
Failed == crossed \cup failed \cup unheard \cup aborted \cup stranded

\* Clients that follow the notifications are not left behind: when no message of a
\* job is left, the last notification says what its row says, unless two of its
\* handlers overlapped or its UPDATE failed (the emit after the UPDATE in
\* processGoWorkerStatus; handlers of different jobs may overlap as they like).
NotifiedMatchesRow ==
  \A j \in Jobs \ (crossed \cup failed) :
    (\A i \in DOMAIN inbox : inbox[i].job # j) =>
      \/ notified[j] = row[j]
      \/ notified[j] = "none" /\ row[j] = "PENDING"

\* Nothing of job j is on its way: no message, no run, no status message.
AllDone(j) ==
  /\ submitted[j] > 0 /\ ready[j] = 0
  /\ \A w \in Workers : holding[w] # j
  /\ \A i \in DOMAIN inbox : inbox[i].job # j

\* No job is left half-way: once nothing of it is on its way its row is final,
\* however often it was run and its messages were delivered, unless the job is
\* among the Failed (the order of publishes, UPDATE, ack and Ack in both programs).
DoneRowsFinal == \A j \in Jobs \ Failed : AllDone(j) => row[j] \in Outcomes

\* The client forgets a job at its first final status: a row that is PROCESSED or
\* FAILED stays so, at least while no handlers of its job overlap.
FinalStatusStable ==
  [][\A j \in Jobs \ crossed' : row[j] \in Outcomes => row'[j] = row[j]]_<<row, crossed>>

\* The same whether they overlap or not: no handler takes a final row back.
FinalStatusNotUndone ==
  [][\A j \in Jobs : row[j] \in Outcomes => row'[j] \in Outcomes]_row

\* With single deliveries rows follow the lifecycle the client expects, each until
\* handlers of its job overlap.
Lifecycle == INSTANCE JobLifecycle WITH
  row <- [j \in Jobs |-> IF j \in crossed THEN "OVERTAKEN" ELSE row[j]]
ImplementsLifecycle == Lifecycle!Spec

\* Every submitted job's row becomes and stays final, unless the job is among the
\* Failed: crashes of either process and lost channels only repeat work.
RowSettles ==
  \A j \in Jobs : submitted[j] > 0 ~> [](row[j] \in Outcomes \/ j \in Failed)
=============================================================================
