--------------------------- MODULE PipelineProofs ---------------------------
(***************************************************************************)
(* Theorems about Pipeline: what WorkerPoolProofs shows of the pool holds  *)
(* in the composition, and carries over to the rows the consumer writes,   *)
(* however its handlers overlap.                                           *)
(***************************************************************************)
EXTENDS Pipeline, WorkerPoolProofs, StatusConsumerProofs

-----------------------------------------------------------------------------
(* The pool and the consumer within the pipeline.                          *)

\* Every step of the pipeline is a step of the pool or leaves it alone.
LEMMA PoolStep == [PipelineNext]_pipelineVars => [Next]_vars
BY DEF PipelineNext, pipelineVars, Publish, Next

\* So the pool behaves in the pipeline as it does alone, and what is proved of it
\* holds there too.
THEOREM PoolWithinPipeline == PipelineSpec => Spec
<1>1. PipelineInit => Init
  BY DEF PipelineInit
<1> QED BY PoolStep, <1>1, PTL DEF PipelineSpec, Spec

\* The pool's invariant among them.
LEMMA PoolInvariance == PipelineSpec => []IInv
BY PoolWithinPipeline, Invariance, PTL

\* Nothing deletes a processed object.
LEMMA ResultsStay == [Next]_vars => s3out \subseteq s3out'
BY DEF Next, Quiet, QuietWork, Clean, Fault, Submit, OpenStatusChannel, Connect, Receive,
       PublishOk, PublishSwallowed, PublishFatal, DownloadOk, DownloadFails, TransformOk,
       TransformFails, UploadOk, UploadFails, FireBackgroundCleanup, Settle,
       RemoveLocalRaw, RemoveLocalProcessed, DeleteS3Object, Advances, LoseChannel,
       LoseStatusChannel, Crash, fileVars, vars

\* What a worker publishes names a job and a status.
LEMMA PublishTypes ==
  ASSUME TypeOK, NEW w \in Workers, Publish(w)
  PROVE  holding[w] \in Jobs /\ Says[stage[w]] \in Statuses
BY DEF Publish, PublishOk, Publishing, Says, Busy, TypeOK, Statuses, Outcomes

\* Every variable of the consumer keeps its type in the pipeline, only handlers at
\* work outlive a channel, and no client is told of a job whose row is PENDING.
THEOREM ConsumerTypeCorrect == PipelineSpec => []ConsumerTypeOK
<1>1. PipelineInit => ConsumerTypeOK
  BY ConsumerTypeInit DEF PipelineInit
<1>2. ConsumerTypeOK /\ IInv /\ [PipelineNext]_pipelineVars => ConsumerTypeOK'
  <2> SUFFICES ASSUME ConsumerTypeOK, IInv, [PipelineNext]_pipelineVars
               PROVE  ConsumerTypeOK'
    OBVIOUS
  <2>1. ASSUME NEW w \in Workers, Publish(w) PROVE ConsumerTypeOK'
    BY <2>1, PublishTypes, EnqueueType DEF Publish, IInv
  <2>2. CASE ConsumerNext
    BY <2>2, ConsumerTypeStep
  <2>3. CASE UNCHANGED consumerVars
    BY <2>3, ConsumerTypeStep
  <2> QED BY <2>1, <2>2, <2>3 DEF PipelineNext, pipelineVars
<1> QED
  BY <1>1, <1>2, PoolInvariance, PTL DEF PipelineSpec

\* Jobs that are not crossed have their handlers one at a time, and the row says
\* what the handler has written.
HInv == \A j \in Jobs \ crossed : OneAtATime(j) /\ WrittenIsRow(j)

\* Both hold throughout.
LEMMA HandlersInvariance == PipelineSpec => [](IInv /\ ConsumerTypeOK /\ HInv)
<1>1. PipelineInit => HInv
  <2> SUFFICES ASSUME PipelineInit PROVE HInv
    OBVIOUS
  <2>1. BagToSet(orphans) = {} /\ DOMAIN inbox = {}
    BY DEF PipelineInit, ConsumerInit, BagToSet, EmptyBag, SetToBag
  <2> QED BY <2>1 DEF HInv, OneAtATime, WrittenIsRow, Written, InProgress
<1>2. IInv /\ ConsumerTypeOK /\ HInv /\ [PipelineNext]_pipelineVars => HInv'
  <2> SUFFICES ASSUME IInv, ConsumerTypeOK, HInv, [PipelineNext]_pipelineVars,
                      NEW j \in Jobs, j \notin crossed'
               PROVE  OneAtATime(j)' /\ WrittenIsRow(j)'
    BY DEF HInv
  <2>1. ASSUME NEW w \in Workers, Publish(w) PROVE OneAtATime(j)' /\ WrittenIsRow(j)'
    <3>1. crossed' = crossed
      BY <2>1 DEF Publish, Enqueue, consumerHistory
    <3> QED BY <2>1, <3>1, PublishTypes, EnqueueStep DEF Publish, IInv, HInv
  <2>2. CASE ConsumerNext
    BY <2>2, HistoryGrows, OneAtATimeStep, WrittenIsRowStep DEF HInv
  <2>3. CASE UNCHANGED consumerVars
    <3>1. UNCHANGED <<inbox, orphans, row, crossed>>
      BY <2>3 DEF consumerVars, consumerHistory
    <3> QED BY <3>1 DEF HInv, OneAtATime, FirstOf, WrittenIsRow, Written, InProgress
  <2> QED BY <2>1, <2>2, <2>3 DEF PipelineNext, pipelineVars
<1> QED
  BY <1>1, <1>2, PoolInvariance, ConsumerTypeCorrect, PTL DEF PipelineSpec

-----------------------------------------------------------------------------
(* Rows and their objects.  The invariant follows PROCESSED on its way from *)
(* the pool to the row: in the queue, with a handler, with an orphan.      *)

RInv ==
  /\ \A i \in DOMAIN inbox : inbox[i].status = "PROCESSED" => inbox[i].job \in s3out
  /\ \A m \in BagToSet(orphans) : m.status = "PROCESSED" => m.job \in s3out
  /\ RowHasResult

\* The consumer's steps write what has its object.
LEMMA ConsumerKeepsRInv ==
  ASSUME ConsumerTypeOK, RInv, ConsumerNext, UNCHANGED s3out
  PROVE  RInv'
<1>1. PICK f : Carries(f)
  BY QueueStep
<1>2. \A i \in DOMAIN inbox' : inbox'[i].status = "PROCESSED" => inbox'[i].job \in s3out
  BY <1>1 DEF Carries, RInv
<1>3. \A m \in BagToSet(orphans') : m.status = "PROCESSED" => m.job \in s3out
  BY OrphanStep DEF RInv, InProgress
<1>4. \A m : AtHand(m) /\ m.status = "PROCESSED" => m.job \in s3out
  BY DEF AtHand, RInv, InProgress
<1>5. RowHasResult'
  BY <1>4, RowStep DEF RInv, RowHasResult, ConsumerTypeOK
<1> QED BY <1>2, <1>3, <1>5 DEF RInv

\* A worker publishes PROCESSED after it has put the object in S3.
LEMMA PublishKeepsRInv ==
  ASSUME ConsumerTypeOK, RInv, TypeOK, StageFacts, NEW w \in Workers, Publish(w)
  PROVE  RInv'
<1> DEFINE m == [job |-> holding[w], status |-> Says[stage[w]], phase |-> "queued"]
<1>1. UNCHANGED <<s3out, orphans, row>> /\ inbox' = Append(inbox, m)
  BY DEF Publish, PublishOk, Enqueue, fileVars
<1>2. Says[stage[w]] = "PROCESSED" => holding[w] \in s3out
  BY DEF Publish, PublishOk, Publishing, Says, StageFacts
<1>3. m \in Message /\ (m.status = "PROCESSED" => m.job \in s3out)
  BY <1>2, PublishTypes DEF Message, Phases
<1> HIDE DEF m
<1>4. \A i \in DOMAIN inbox' : inbox'[i] = m \/ (i \in DOMAIN inbox /\ inbox'[i] = inbox[i])
  BY <1>1, <1>3 DEF ConsumerTypeOK
<1> QED BY <1>1, <1>3, <1>4 DEF RInv, RowHasResult

\* A row that says PROCESSED has its object, whatever handlers overlap and
\* whatever is lost.
THEOREM RowsHaveResults == PipelineSpec => []RowHasResult
<1>1. PipelineInit => RInv
  BY DEF PipelineInit, ConsumerInit, RInv, RowHasResult, BagToSet, EmptyBag, SetToBag
<1>2. RInv /\ IInv /\ ConsumerTypeOK /\ [PipelineNext]_pipelineVars => RInv'
  <2> SUFFICES ASSUME RInv, IInv, ConsumerTypeOK, [PipelineNext]_pipelineVars PROVE RInv'
    OBVIOUS
  <2>1. ASSUME NEW w \in Workers, Publish(w) PROVE RInv'
    BY <2>1, PublishKeepsRInv DEF IInv, Facts
  <2>2. CASE UNCHANGED consumerVars
    BY <2>2, PoolStep, ResultsStay DEF RInv, RowHasResult, consumerVars
  <2>3. CASE ConsumerNext /\ UNCHANGED vars
    BY <2>3, ConsumerKeepsRInv DEF vars, fileVars
  <2> QED BY <2>1, <2>2, <2>3 DEF PipelineNext, pipelineVars
<1>3. RInv => RowHasResult
  BY DEF RInv
<1> QED
  BY <1>1, <1>2, <1>3, HandlersInvariance, PTL DEF PipelineSpec

-----------------------------------------------------------------------------
(* Notifications and rows.                                                 *)

\* The queue has no message of job j.
NoMessage(j) == \A i \in DOMAIN inbox : inbox[i].job # j

\* Then no handler of it is at work, and the consumer does nothing about it.
LEMMA NothingHappens ==
  ASSUME ConsumerTypeOK, NEW j \in Jobs, OneAtATime(j), ConsumerNext, NoMessage(j)
  PROVE  row'[j] = row[j] /\ notified'[j] = notified[j] /\ NoMessage(j)'
<1>1. row'[j] = row[j]
  BY FirstWritten DEF NoMessage, FirstOf
<1>2. \A m : Written(m) => AtHand(m)
  BY DEF Written, AtHand, InProgress
<1>3. \A m : AtHand(m) => m.job # j
  BY HasFirst DEF NoMessage, FirstOf
<1>4. notified'[j] = notified[j]
  BY <1>2, <1>3, NotifiedStep DEF ConsumerTypeOK
<1>5. NoMessage(j)'
  BY QueueStep DEF Carries, NoMessage
<1> QED BY <1>1, <1>4, <1>5

\* When a message leaves, its status is in the row and has been emitted, unless its
\* UPDATE failed.
LEMMA LeavesSettled ==
  ASSUME ConsumerTypeOK, NEW j \in Jobs, WrittenIsRow(j), ConsumerNext, j \notin failed',
         NEW f, Carries(f), NEW k \in DOMAIN inbox, inbox[k].job = j,
         \A l \in DOMAIN inbox' : f[l] # k
  PROVE  /\ k \in InProgress
         /\ row'[j] = inbox[k].status /\ notified'[j] = inbox[k].status
<1>1. /\ k \in InProgress /\ inbox[k].phase = "written" /\ UNCHANGED row
      /\ notified' = [notified EXCEPT ![j] = inbox[k].status]
  BY DEF Carries
<1>2. inbox[k] \in Message
  BY DEF ConsumerTypeOK
<1>3. row[j] = inbox[k].status
  BY <1>1, <1>2 DEF WrittenIsRow, Written
<1> QED BY <1>1, <1>3 DEF ConsumerTypeOK

\* Clients that follow the notifications are not left behind: without a message of
\* a job its last notification says what its row says, whatever crashes, is lost or
\* overlaps for other jobs (the emit after the UPDATE in processGoWorkerStatus).
THEOREM NotificationsFollowRows == PipelineSpec => []NotifiedMatchesRow
<1>1. PipelineInit => NotifiedMatchesRow
  BY DEF PipelineInit, ConsumerInit, NotifiedMatchesRow
<1>2. /\ NotifiedMatchesRow /\ IInv /\ ConsumerTypeOK /\ HInv /\ [PipelineNext]_pipelineVars
      => NotifiedMatchesRow'
  <2> SUFFICES ASSUME NotifiedMatchesRow, IInv, ConsumerTypeOK, HInv,
                      [PipelineNext]_pipelineVars,
                      NEW j \in Jobs, j \notin crossed', j \notin failed', NoMessage(j)'
               PROVE  \/ notified'[j] = row'[j]
                      \/ notified'[j] = "none" /\ row'[j] = "PENDING"
    BY DEF NotifiedMatchesRow, NoMessage
  <2>a. ASSUME NoMessage(j), j \notin crossed, j \notin failed,
               row'[j] = row[j], notified'[j] = notified[j]
        PROVE  \/ notified'[j] = row'[j]
               \/ notified'[j] = "none" /\ row'[j] = "PENDING"
    BY <2>a DEF NotifiedMatchesRow, NoMessage
  <2>1. ASSUME NEW w \in Workers, Publish(w)
        PROVE  \/ notified'[j] = row'[j]
               \/ notified'[j] = "none" /\ row'[j] = "PENDING"
    <3> DEFINE m == [job |-> holding[w], status |-> Says[stage[w]], phase |-> "queued"]
    <3>1. inbox' = Append(inbox, m) /\ UNCHANGED <<row, notified, crossed, failed>>
      BY <2>1 DEF Publish, Enqueue, consumerHistory
    <3>2. m \in Message
      BY <2>1, PublishTypes DEF Message, Phases, IInv
    <3> HIDE DEF m
    <3>3. \A i \in DOMAIN inbox : i \in DOMAIN inbox' /\ inbox'[i] = inbox[i]
      BY <3>1, <3>2 DEF ConsumerTypeOK
    <3> QED BY <2>a, <3>1, <3>3 DEF NoMessage
  <2>2. CASE ConsumerNext
    <3>1. j \notin crossed /\ j \notin failed
      BY <2>2, HistoryGrows
    <3>2. CASE NoMessage(j)
      BY <2>2, <2>a, <3>1, <3>2, NothingHappens DEF HInv
    <3>3. CASE ~ NoMessage(j)
      <4>1. PICK f : Carries(f)
        BY <2>2, QueueStep
      <4>2. PICK k \in DOMAIN inbox : inbox[k].job = j
        BY <3>3 DEF NoMessage
      <4>3. \A l \in DOMAIN inbox' : f[l] # k
        BY <4>1, <4>2 DEF Carries, NoMessage
      <4> QED BY <2>2, <3>1, <4>1, <4>2, <4>3, LeavesSettled DEF HInv
    <3> QED BY <3>2, <3>3
  <2>3. CASE UNCHANGED consumerVars
    BY <2>3, <2>a DEF consumerVars, consumerHistory, NoMessage
  <2> QED BY <2>1, <2>2, <2>3 DEF PipelineNext, pipelineVars
<1> QED
  BY <1>1, <1>2, HandlersInvariance, PTL DEF PipelineSpec

-----------------------------------------------------------------------------
(* No job is left half-way.  The invariant: a job that nothing has gone wrong *)
(* with is still under way in the pool, or the last that the pool said of it *)
(* is an outcome, on the queue or in the row.                              *)

\* Message k is the last of job j on the queue.
LastOf(j, k) == inbox[k].job = j /\ \A l \in DOMAIN inbox : l > k => inbox[l].job # j

Concluded(j) ==
  /\ \A i \in DOMAIN inbox : LastOf(j, i) => inbox[i].status \in Outcomes
  /\ NoMessage(j) => row[j] \in Outcomes

\* A run of job j that will say more, or will be repeated.
Undecided == Publishing \cup {"download", "transform", "upload"}
Running(j, w) ==
  /\ holding[w] = j
  /\ stage[w] \in Undecided \/ (stage[w] = "requeue" /\ owned[w])

Underway(j) == ready[j] > 0 \/ \E w \in Workers : Running(j, w)

DInv == \A j \in Jobs \ Failed : submitted[j] > 0 => Underway(j) \/ Concluded(j)

\* What has gone wrong with a job is remembered.
LEMMA FailedGrows == [PipelineNext]_pipelineVars => Failed \subseteq Failed'
<1> SUFFICES ASSUME [PipelineNext]_pipelineVars PROVE Failed \subseteq Failed'
  OBVIOUS
<1>1. crossed \subseteq crossed' /\ failed \subseteq failed'
  BY HistoryGrows
  DEF PipelineNext, Publish, Enqueue, pipelineVars, consumerVars, consumerHistory
<1>2. unheard \subseteq unheard' /\ aborted \subseteq aborted' /\ stranded \subseteq stranded'
  BY PoolStep
  DEF Next, Quiet, QuietWork, Clean, Fault, Submit, OpenStatusChannel, Connect, Receive,
      PublishOk, PublishSwallowed, PublishFatal, DownloadOk, DownloadFails, TransformOk,
      TransformFails, UploadOk, UploadFails, AttemptFails, TryAgainOr, FireBackgroundCleanup,
      Settle, RemoveLocalRaw, RemoveLocalProcessed, DeleteS3Object, Advances, LoseChannel,
      LoseStatusChannel, Crash, statusVars, lossVars, vars
<1> QED BY <1>1, <1>2 DEF Failed

\* A step of one worker that keeps the queue keeps the runs of the others.
LEMMA OthersRun ==
  ASSUME NEW j \in Jobs, Underway(j), NEW w \in Workers,
         \A v \in Workers \ {w} :
           stage'[v] = stage[v] /\ holding'[v] = holding[v] /\ owned'[v] = owned[v],
         ready[j] > 0 => Underway(j)', Running(j, w) => Underway(j)'
  PROVE  Underway(j)'
<1>1. ASSUME NEW v \in Workers \ {w}, Running(j, v) PROVE Running(j, v)'
  BY <1>1 DEF Running
<1> QED BY <1>1 DEF Underway

\* The pool's quiet steps end a run that says no more only where that is remembered.
LEMMA QuietKeepsUnderway ==
  ASSUME TypeOK, Quiet, NEW j \in Jobs, Underway(j),
         j \notin unheard', j \notin aborted', j \notin stranded'
  PROVE  Underway(j)'
<1>0. /\ ready \in [Jobs -> Nat]
      /\ stage \in [Workers -> Stages] /\ owned \in [Workers -> BOOLEAN]
      /\ holding \in [Workers -> Jobs \cup {None}]
  BY DEF TypeOK
<1> HIDE DEF Stages
<1> DEFINE Kept(w) == \A v \in Workers \ {w} :
             stage'[v] = stage[v] /\ holding'[v] = holding[v] /\ owned'[v] = owned[v]
<1>1. ASSUME NEW i \in Jobs, Submit(i) PROVE Underway(j)'
  <2>1. ready[j] > 0 => ready'[j] > 0
    BY <1>0, <1>1 DEF Submit
  <2> QED BY <1>1, <2>1 DEF Submit, Underway, Running, workerVars
<1>2. CASE UNCHANGED <<ready, stage, holding, owned>>
  BY <1>2 DEF Underway, Running
<1>3. ASSUME NEW w \in Workers, Connect(w) PROVE Underway(j)'
  <2>1. Kept(w) /\ UNCHANGED ready
    BY <1>3 DEF Connect, brokerVars
  <2>2. ~ Running(j, w)
    BY <1>3 DEF Connect, Running, Undecided, Publishing, Says
  <2> QED BY <2>1, <2>2, OthersRun DEF Underway
<1>4. ASSUME NEW w \in Workers, NEW i \in Jobs, Receive(w, i) PROVE Underway(j)'
  <2>1. Kept(w) /\ stage[w] = "idle"
    BY <1>4 DEF Receive
  <2>2. ~ Running(j, w)
    BY <2>1 DEF Running, Undecided, Publishing, Says
  <2>3. i = j => Running(j, w)'
    BY <1>0, <1>4 DEF Receive, Running, Undecided, Publishing, Says
  <2>4. i # j => ready'[j] = ready[j]
    BY <1>4 DEF Receive
  <2> QED BY <2>1, <2>2, <2>3, <2>4, OthersRun DEF Underway
<1>5. ASSUME NEW w \in Workers, PublishSwallowed(w) PROVE Underway(j)'
  <2>1. Kept(w) /\ UNCHANGED ready /\ UNCHANGED <<holding, owned>>
        /\ stage[w] \in Publishing /\ stage'[w] = Continues[stage[w]]
    BY <1>0, <1>5 DEF PublishSwallowed, brokerVars
  <2>2. holding[w] = j => stage[w] = "announce"
    BY <1>5, <2>1 DEF PublishSwallowed, Publishing, Says, Outcomes
  <2>3. Running(j, w) => Running(j, w)'
    BY <2>1, <2>2 DEF Running, Continues, Undecided
  <2> QED BY <2>1, <2>3, OthersRun DEF Underway
<1>6. ASSUME NEW w \in Workers, NEW verdict \in {"drop", "requeue"}, PublishFatal(w, verdict)
      PROVE  Underway(j)'
  <2>1. Kept(w) /\ UNCHANGED ready /\ UNCHANGED <<holding, owned>> /\ stage'[w] = verdict
    BY <1>0, <1>6 DEF PublishFatal, brokerVars
  <2>2. holding[w] = j => verdict = "requeue" /\ owned[w]
    BY <1>6 DEF PublishFatal
  <2>3. Running(j, w) => Running(j, w)'
    BY <2>1, <2>2 DEF Running
  <2> QED BY <2>1, <2>3, OthersRun DEF Underway
<1>7. ASSUME NEW w \in Workers,
             \/ DownloadOk(w) \/ DownloadFails(w) \/ TransformOk(w) \/ TransformFails(w)
             \/ UploadOk(w) \/ UploadFails(w)
      PROVE  Underway(j)'
  <2>1. UNCHANGED <<ready, holding, owned>>
    BY <1>7 DEF DownloadOk, DownloadFails, TransformOk, TransformFails, UploadOk,
                UploadFails, AttemptFails, TryAgainOr, brokerVars
  <2>2. (\A v \in Workers \ {w} : stage'[v] = stage[v]) /\ stage'[w] \in Undecided
    BY <1>0, <1>7
    DEF DownloadOk, DownloadFails, TransformOk, TransformFails, UploadOk, UploadFails,
        AttemptFails, TryAgainOr, Undecided, Publishing, Says
  <2>3. Running(j, w) => Running(j, w)'
    BY <2>1, <2>2 DEF Running
  <2> QED BY <2>1, <2>2, <2>3, OthersRun DEF Underway
<1>8. ASSUME NEW w \in Workers, FireBackgroundCleanup(w) PROVE Underway(j)'
  <2>1. Kept(w) /\ UNCHANGED ready
    BY <1>8 DEF FireBackgroundCleanup, brokerVars
  <2>2. ~ Running(j, w)
    BY <1>8 DEF FireBackgroundCleanup, Running, Undecided, Publishing, Says
  <2> QED BY <2>1, <2>2, OthersRun DEF Underway
<1>9. ASSUME NEW w \in Workers, Settle(w) PROVE Underway(j)'
  <2>1. Kept(w) /\ stage[w] \in Settling
    BY <1>9 DEF Settle
  <2>2. ready[j] > 0 => ready'[j] > 0
    BY <1>0, <1>9 DEF Settle
  <2>3. Running(j, w) => stage[w] = "requeue" /\ owned[w] /\ holding[w] = j
    BY <2>1 DEF Running, Undecided, Settling, Publishing, Says
  <2>4. Running(j, w) => ready'[j] > 0
    BY <1>0, <1>9, <2>3 DEF Settle, GoesBack
  <2> QED BY <2>1, <2>2, <2>4, OthersRun DEF Underway
<1>10. ASSUME NEW w \in Workers, LoseChannel(w) PROVE Underway(j)'
  <2>1. Kept(w) /\ UNCHANGED holding
    BY <1>0, <1>10 DEF LoseChannel
  <2>2. ready[j] > 0 => ready'[j] > 0
    BY <1>0, <1>10 DEF LoseChannel
  <2>3. Running(j, w) /\ owned[w] => ready'[j] > 0
    BY <1>0, <1>10 DEF LoseChannel, Running, Undecided, Publishing, Says
  <2>4. Running(j, w) /\ ~ owned[w] => Running(j, w)'
    BY <1>10 DEF LoseChannel, Running, Undecided, Publishing, Says
  <2> QED BY <2>1, <2>2, <2>3, <2>4, OthersRun DEF Underway
<1>11. CASE Crash
  <2>1. ready'[j] = ready[j] + Cardinality(Owners(j))
    BY <1>11 DEF Crash, Requeues
  <2>2. IsFiniteSet(Owners(j)) /\ Cardinality(Owners(j)) \in Nat
    BY SetsAssumption, FS_Subset, FS_CardinalityType DEF Owners
  <2>3. ready[j] > 0 => ready'[j] > 0
    BY <1>0, <2>1, <2>2
  <2>4. ASSUME NEW w \in Workers, Running(j, w) PROVE ready'[j] > 0
    <3>1. w \in Owners(j)
      BY <1>11, <2>4 DEF Crash, Stray, Running, Owners
    <3>2. Cardinality(Owners(j)) # 0
      BY <2>2, <3>1, FS_EmptySet
    <3> QED BY <1>0, <2>1, <2>2, <3>2
  <2> QED BY <2>3, <2>4 DEF Underway
<1> HIDE DEF Kept
<1>12. ASSUME NEW i \in Jobs, Clean(i) PROVE UNCHANGED <<ready, stage, holding, owned>>
  BY <1>12 DEF Clean, RemoveLocalRaw, RemoveLocalProcessed, DeleteS3Object, Advances,
               brokerVars, workerVars
<1>13. OpenStatusChannel \/ LoseStatusChannel => UNCHANGED <<ready, stage, holding, owned>>
  BY DEF OpenStatusChannel, LoseStatusChannel, brokerVars, workerVars
<1> QED
  BY <1>1, <1>2, <1>3, <1>4, <1>5, <1>6, <1>7, <1>8, <1>9, <1>10, <1>11, <1>12, <1>13
  DEF Quiet, QuietWork, Fault

\* What Publish appends, and where.
LEMMA PublishAppends ==
  ASSUME ConsumerTypeOK, TypeOK, NEW w \in Workers, Publish(w)
  PROVE  /\ inbox' \in Seq(Message) /\ Len(inbox) \in Nat
         /\ DOMAIN inbox = 1 .. Len(inbox) /\ DOMAIN inbox' = 1 .. Len(inbox) + 1
         /\ \A k \in DOMAIN inbox : inbox'[k] = inbox[k]
         /\ inbox'[Len(inbox) + 1] =
              [job |-> holding[w], status |-> Says[stage[w]], phase |-> "queued"]
         /\ UNCHANGED <<orphans, row, crossed, failed>>
<1> DEFINE m == [job |-> holding[w], status |-> Says[stage[w]], phase |-> "queued"]
<1>1. inbox' = Append(inbox, m) /\ UNCHANGED <<orphans, row, crossed, failed>>
  BY DEF Publish, Enqueue, consumerHistory
<1>2. m \in Message
  BY PublishTypes DEF Message, Phases
<1> HIDE DEF m
<1>3. inbox \in Seq(Message)
  BY DEF ConsumerTypeOK
<1>4. inbox' \in Seq(Message) /\ Len(inbox') = Len(inbox) + 1 /\ Len(inbox) \in Nat
  BY <1>1, <1>2, <1>3
<1>5. (\A k \in DOMAIN inbox : inbox'[k] = inbox[k]) /\ inbox'[Len(inbox) + 1] = m
  BY <1>1, <1>2, <1>3
<1> QED BY <1>1, <1>3, <1>4, <1>5 DEF m

\* A publish of a run that goes on leaves it under way; one that does not concludes
\* its job; and those of other jobs keep theirs.
LEMMA PublishKeepsDInv ==
  ASSUME ConsumerTypeOK, TypeOK, NEW w \in Workers, Publish(w), NEW j \in Jobs,
         Underway(j) \/ Concluded(j)
  PROVE  Underway(j)' \/ Concluded(j)'
<1> DEFINE m == [job |-> holding[w], status |-> Says[stage[w]], phase |-> "queued"]
<1>1. /\ inbox' \in Seq(Message) /\ Len(inbox) \in Nat
      /\ DOMAIN inbox = 1 .. Len(inbox) /\ DOMAIN inbox' = 1 .. Len(inbox) + 1
      /\ \A k \in DOMAIN inbox : inbox'[k] = inbox[k]
      /\ inbox'[Len(inbox) + 1] = m
      /\ UNCHANGED row
  BY PublishAppends
<1>2. m.job = holding[w] /\ m.status = Says[stage[w]]
  OBVIOUS
<1> HIDE DEF m
<1>3. /\ stage[w] \in Publishing /\ stage' = [stage EXCEPT ![w] = Continues[stage[w]]]
      /\ UNCHANGED <<ready, holding, owned>>
  BY DEF Publish, PublishOk, brokerVars
<1>4. stage \in [Workers -> Stages]
  BY DEF TypeOK
<1> HIDE DEF Stages
<1>5. CASE holding[w] = j /\ stage[w] = "announce"
  <2>1. Running(j, w)'
    BY <1>3, <1>4, <1>5 DEF Running, Continues, Undecided
  <2> QED BY <2>1 DEF Underway
<1>6. CASE holding[w] = j /\ stage[w] # "announce"
  <2>1. m.status \in Outcomes
    BY <1>2, <1>3, <1>6 DEF Publishing, Says, Outcomes
  <2>2. \A i \in DOMAIN inbox' : LastOf(j, i)' => i = Len(inbox) + 1
    BY <1>1, <1>2, <1>6 DEF LastOf
  <2>3. ~ NoMessage(j)'
    BY <1>1, <1>2, <1>6 DEF NoMessage
  <2> QED BY <1>1, <2>1, <2>2, <2>3 DEF Concluded
<1>7. CASE holding[w] # j
  <2>1. CASE Underway(j)
    <3>1. \A v \in Workers : Running(j, v) => Running(j, v)'
      BY <1>3, <1>4, <1>7 DEF Running
    <3> QED BY <1>3, <2>1, <3>1 DEF Underway
  <2>2. CASE Concluded(j)
    <3>1. \A i \in DOMAIN inbox' : LastOf(j, i)' => i \in DOMAIN inbox /\ LastOf(j, i)
      BY <1>1, <1>2, <1>7 DEF LastOf
    <3>2. NoMessage(j)' => NoMessage(j)
      BY <1>1 DEF NoMessage
    <3> QED BY <1>1, <2>2, <3>1, <3>2 DEF Concluded
  <2> QED BY <2>1, <2>2
<1> QED BY <1>5, <1>6, <1>7

\* The consumer takes the messages of a job in their order, and leaves the last one's
\* status in the row.
LEMMA ConsumerKeepsConcluded ==
  ASSUME ConsumerTypeOK, NEW j \in Jobs, OneAtATime(j), WrittenIsRow(j), ConsumerNext,
         j \notin failed', Concluded(j)
  PROVE  Concluded(j)'
<1>1. PICK f : Carries(f)
  BY QueueStep
<1>2. /\ inbox \in Seq(Message) /\ inbox' \in Seq(Message)
      /\ \A k \in DOMAIN inbox : k \in Nat
      /\ \A k \in DOMAIN inbox' : k \in Nat /\ f[k] \in DOMAIN inbox
      /\ \A k \in DOMAIN inbox' : /\ inbox'[k].job = inbox[f[k]].job
                                  /\ inbox'[k].status = inbox[f[k]].status
      /\ \A k, l \in DOMAIN inbox' : k < l => f[k] < f[l]
  BY <1>1, QueueStep DEF Carries, ConsumerTypeOK
<1>3. ASSUME NEW k \in DOMAIN inbox, inbox[k].job = j, \A l \in DOMAIN inbox' : f[l] # k
      PROVE  FirstOf(j, k) /\ row'[j] = inbox[k].status
  BY <1>1, <1>3, LeavesSettled DEF OneAtATime
<1>4. ASSUME NEW i \in DOMAIN inbox', LastOf(j, i)' PROVE inbox'[i].status \in Outcomes
  <2>1. inbox'[i].job = j /\ \A l \in DOMAIN inbox' : l > i => inbox'[l].job # j
    BY <1>4 DEF LastOf
  <2>2. ASSUME NEW k \in DOMAIN inbox, k > f[i], inbox[k].job = j PROVE FALSE
    <3>1. CASE \E l \in DOMAIN inbox' : f[l] = k
      <4>1. PICK l \in DOMAIN inbox' : f[l] = k
        BY <3>1
      <4>2. l > i
        BY <1>2, <2>2, <4>1
      <4> QED BY <1>2, <2>1, <2>2, <4>1, <4>2
    <3>2. CASE \A l \in DOMAIN inbox' : f[l] # k
      <4>1. FirstOf(j, k)
        BY <1>3, <2>2, <3>2
      <4>2. f[i] < k /\ inbox[f[i]].job = j /\ f[i] \in DOMAIN inbox
        BY <1>2, <2>1, <2>2
      <4> QED BY <4>1, <4>2 DEF FirstOf
    <3> QED BY <3>1, <3>2
  <2>3. LastOf(j, f[i])
    BY <1>2, <2>1, <2>2 DEF LastOf
  <2> QED BY <1>2, <2>3 DEF Concluded
<1>5. ASSUME NoMessage(j)' PROVE row'[j] \in Outcomes
  <2>1. CASE NoMessage(j)
    BY <2>1, NothingHappens DEF Concluded
  <2>2. CASE ~ NoMessage(j)
    <3>1. PICK k \in DOMAIN inbox : inbox[k].job = j
      BY <2>2 DEF NoMessage
    <3>2. ASSUME NEW l \in DOMAIN inbox, inbox[l].job = j
          PROVE  FirstOf(j, l) /\ row'[j] = inbox[l].status
      <4>1. \A i \in DOMAIN inbox' : f[i] # l
        BY <1>2, <1>5, <3>2 DEF NoMessage
      <4> QED BY <1>3, <3>2, <4>1
    <3>3. LastOf(j, k)
      BY <1>2, <3>1, <3>2 DEF LastOf, FirstOf
    <3> QED BY <3>1, <3>2, <3>3 DEF Concluded
  <2> QED BY <2>1, <2>2
<1> QED BY <1>4, <1>5 DEF Concluded

\* No job is left half-way: once nothing of a job is on its way its row is final,
\* however often its runs and its messages were repeated, by crashes of either
\* process and lost channels, unless the job is among the Failed (the order of
\* ProcessMessage's publishes, the UPDATE, the emit and the two acks).
THEOREM NoRowHalfWay == PipelineSpec => []DoneRowsFinal
<1>1. PipelineInit => DInv
  BY DEF PipelineInit, Init, DInv
<1>2. /\ DInv /\ IInv /\ ConsumerTypeOK /\ HInv /\ [PipelineNext]_pipelineVars
      => DInv'
  <2> SUFFICES ASSUME DInv, IInv, ConsumerTypeOK, HInv, [PipelineNext]_pipelineVars,
                      NEW j \in Jobs, j \notin Failed', submitted'[j] > 0
               PROVE  Underway(j)' \/ Concluded(j)'
    BY DEF DInv
  <2>1. j \notin Failed /\ TypeOK
    BY FailedGrows DEF IInv
  <2>2. ASSUME NEW w \in Workers, Publish(w) PROVE Underway(j)' \/ Concluded(j)'
    <3>1. submitted' = submitted
      BY <2>2 DEF Publish, PublishOk, brokerVars
    <3> QED BY <2>1, <2>2, <3>1, PublishKeepsDInv DEF DInv
  <2>3. CASE Quiet /\ UNCHANGED consumerVars
    <3>1. Concluded(j) => Concluded(j)'
      BY <2>3 DEF consumerVars, Concluded, LastOf, NoMessage
    <3>2. CASE Underway(j)
      BY <2>1, <2>3, <3>2, QuietKeepsUnderway DEF Failed
    <3>3. CASE submitted[j] > 0
      BY <2>1, <3>1, <3>2, <3>3 DEF DInv
    <3>4. CASE ~ (submitted[j] > 0)
      <4>1. submitted[j] \in Nat
        BY <2>1 DEF TypeOK
      <4>2. PICK i \in Jobs : Submit(i)
        BY <2>3, <3>4
        DEF Quiet, QuietWork, Clean, Fault, OpenStatusChannel, Connect, Receive,
            PublishSwallowed, PublishFatal, DownloadOk, DownloadFails, TransformOk,
            TransformFails, UploadOk, UploadFails, AttemptFails, TryAgainOr,
            FireBackgroundCleanup, Settle, RemoveLocalRaw, RemoveLocalProcessed,
            DeleteS3Object, Advances, LoseChannel, LoseStatusChannel, Crash, brokerVars
      <4>3. i = j
        BY <3>4, <4>2 DEF Submit
      <4>4. ready'[j] > 0
        BY <2>1, <4>2, <4>3 DEF Submit, TypeOK
      <4> QED BY <4>4 DEF Underway
    <3> QED BY <3>3, <3>4
  <2>4. CASE ConsumerNext /\ UNCHANGED vars
    <3>1. /\ UNCHANGED <<submitted, ready, stage, holding, owned>>
      BY <2>4 DEF vars, brokerVars, workerVars
    <3>2. Underway(j) => Underway(j)'
      BY <3>1 DEF Underway, Running
    <3>3. j \notin crossed /\ j \notin failed'
      BY <2>1 DEF Failed
    <3>4. Concluded(j) => Concluded(j)'
      BY <2>4, <3>3, ConsumerKeepsConcluded DEF HInv
    <3> QED BY <2>1, <3>1, <3>2, <3>4 DEF DInv
  <2>5. CASE UNCHANGED pipelineVars
    <3>1. UNCHANGED <<submitted, ready, stage, holding, owned, inbox, row>>
      BY <2>5 DEF pipelineVars, vars, brokerVars, workerVars, consumerVars
    <3> QED BY <2>1, <3>1 DEF DInv, Underway, Running, Concluded, LastOf, NoMessage
  <2> QED BY <2>2, <2>3, <2>4, <2>5 DEF PipelineNext
<1>3. DInv /\ IInv => DoneRowsFinal
  <2> SUFFICES ASSUME DInv, NEW j \in Jobs \ Failed, AllDone(j) PROVE row[j] \in Outcomes
    BY DEF DoneRowsFinal
  <2>1. ~ Underway(j) /\ NoMessage(j)
    BY DEF AllDone, Underway, Running, NoMessage
  <2> QED BY <2>1 DEF DInv, Concluded, AllDone
<1> QED
  BY <1>1, <1>2, <1>3, HandlersInvariance, PTL DEF PipelineSpec

-----------------------------------------------------------------------------
(* The lifecycle of rows, with single deliveries.                          *)

\* The pool's invariant of single deliveries holds in the pipeline.
LEMMA PoolSingle ==
  SingleDelivery => (PipelineSpec => [](TypeOK /\ SInv /\ ConsumerTypeOK /\ HInv))
<1> SUFFICES ASSUME SingleDelivery
             PROVE  PipelineSpec => [](TypeOK /\ SInv /\ ConsumerTypeOK /\ HInv)
  OBVIOUS
<1>1. TypeOK /\ SInv /\ [Next]_vars => SInv'
  BY SInvStep
<1> QED
  BY <1>1, SingleInit, TypeCorrect, PoolWithinPipeline, HandlersInvariance, PTL DEF Spec

\* Row and queue hold nothing of job j.
Fresh(j) == row[j] = "PENDING" /\ NoMessage(j)

\* While the status channel has not broken, what was never submitted, still waits
\* or is about to be announced is fresh; only a broken channel requeues.
Untouched ==
  /\ \A w \in Workers : stage[w] = "requeue" => statusCh = "closed"
  /\ \A j \in Jobs \ crossed : statusCh # "closed" =>
       /\ submitted[j] = 0 \/ ready[j] > 0 => Fresh(j)
       /\ \A w \in Workers : holding[w] = j /\ stage[w] = "announce" => Fresh(j)

\* status_queue has PROCESSING before the outcome of a job, once each; a final
\* row is that outcome, and what is left on the queue of its job repeats it.
Ordered(j) ==
  /\ \A i, k \in DOMAIN inbox : i < k /\ inbox[i].job = j /\ inbox[k].job = j =>
       inbox[i].status = "PROCESSING" /\ inbox[k].status \in Outcomes
  /\ \A i \in DOMAIN inbox : inbox[i].job = j /\ inbox[i].status \in Outcomes =>
       <<j, inbox[i].status>> \in outcomes
  /\ row[j] \in Outcomes =>
       /\ <<j, row[j]>> \in outcomes
       /\ \A i \in DOMAIN inbox : inbox[i].job = j => inbox[i].status = row[j]

LInv == Untouched /\ \A j \in Jobs \ crossed : Ordered(j)

\* The steps of the pool that put nothing on status_queue.
LEMMA QuietKeepsUntouched ==
  ASSUME SingleDelivery, TypeOK, SInv, Untouched, [Quiet]_vars, UNCHANGED consumerVars
  PROVE  Untouched'
<1>0. crossed' = crossed /\ \A j : Fresh(j)' <=> Fresh(j)
  BY DEF consumerVars, consumerHistory, Fresh, NoMessage
<1> HIDE DEF Fresh
<1>1. ASSUME NEW j \in Jobs, Submit(j) PROVE Untouched'
  <2>1. submitted[j] = 0
    BY <1>1 DEF Submit, SingleDelivery, TypeOK
  <2> QED BY <1>0, <1>1, <2>1 DEF Submit, Untouched, TypeOK, workerVars, statusVars
<1>2. CASE OpenStatusChannel
  BY <1>0, <1>2 DEF OpenStatusChannel, Untouched, workerVars, brokerVars
<1>3. ASSUME NEW w \in Workers, NEW j \in Jobs, Receive(w, j) PROVE Untouched'
  BY <1>0, <1>3 DEF Receive, Untouched, TypeOK, statusVars
<1>4. ASSUME NEW w \in Workers, Settle(w) PROVE Untouched'
  BY <1>0, <1>4 DEF Settle, GoesBack, Untouched, TypeOK, statusVars
<1>5. ASSUME NEW w \in Workers,
             PublishSwallowed(w) \/ \E verdict \in {"drop", "requeue"} : PublishFatal(w, verdict)
      PROVE  Untouched'
  BY <1>0, <1>5 DEF PublishSwallowed, PublishFatal, BreakStatusChannel, Untouched, TypeOK,
                    Continues, Publishing, Says, brokerVars
<1>6. ASSUME NEW w \in Workers, UNCHANGED <<submitted, ready, holding, statusCh>>,
             \A v \in Workers \ {w} : stage'[v] = stage[v],
             stage'[w] \notin {"announce", "requeue"} \/ stage'[w] = stage[w]
      PROVE  Untouched'
  BY <1>0, <1>6 DEF Untouched
<1>7. ASSUME NEW w \in Workers,
             \/ Connect(w) \/ DownloadOk(w) \/ DownloadFails(w) \/ TransformOk(w)
             \/ TransformFails(w) \/ UploadOk(w) \/ UploadFails(w) \/ FireBackgroundCleanup(w)
      PROVE  Untouched'
  <2>1. UNCHANGED <<submitted, ready, holding, statusCh>>
    BY <1>7 DEF Connect, DownloadOk, DownloadFails, TransformOk, TransformFails, UploadOk,
                UploadFails, AttemptFails, TryAgainOr, FireBackgroundCleanup, brokerVars,
                statusVars
  <2>2. \A v \in Workers \ {w} : stage'[v] = stage[v]
    BY <1>7 DEF Connect, DownloadOk, DownloadFails, TransformOk, TransformFails, UploadOk,
                UploadFails, AttemptFails, TryAgainOr, FireBackgroundCleanup, TypeOK
  <2>3. stage'[w] \notin {"announce", "requeue"} \/ stage'[w] = stage[w]
    BY <1>7 DEF Connect, DownloadOk, DownloadFails, TransformOk, TransformFails, UploadOk,
                UploadFails, AttemptFails, TryAgainOr, FireBackgroundCleanup, TypeOK, Verdict
  <2> QED BY <1>6, <2>1, <2>2, <2>3
<1>8. CASE UNCHANGED <<submitted, ready, holding, stage>> /\ statusCh' \in {statusCh, "closed"}
  BY <1>0, <1>8 DEF Untouched
<1> QED
  BY <1>1, <1>2, <1>3, <1>4, <1>5, <1>7, <1>8, NothingRedelivers
  DEF Quiet, QuietWork, Clean, Fault, RemoveLocalRaw, RemoveLocalProcessed, DeleteS3Object,
      Advances, LoseStatusChannel, BreakStatusChannel, brokerVars, workerVars, statusVars, vars

\* A worker announces a fresh job, and decides one that has no outcome yet.
LEMMA PublishKeepsLInv ==
  ASSUME ConsumerTypeOK, TypeOK, SInv, LInv, NEW w \in Workers, Publish(w)
  PROVE  LInv'
<1> DEFINE j == holding[w]
           s == Says[stage[w]]
           m == [job |-> j, status |-> s, phase |-> "queued"]
<1>1. UNCHANGED <<row, crossed, submitted, ready, holding, statusCh>>
  BY PublishAppends DEF Publish, PublishOk, brokerVars
<1>2. /\ stage[w] \in Publishing /\ statusCh = "open"
      /\ stage' = [stage EXCEPT ![w] = Continues[stage[w]]]
      /\ outcomes \subseteq outcomes' /\ (s \in Outcomes => <<j, s>> \in outcomes')
  BY PublishTypes DEF Publish, PublishOk
<1>3. j \in Jobs /\ s \in Statuses /\ (s \in Outcomes \/ stage[w] = "announce")
  BY <1>2 DEF TypeOK, Busy, Publishing, Says, Statuses, Outcomes
<1>4. m.job = j /\ m.status = s
  OBVIOUS
<1>5. submitted[j] > 0 /\ ready[j] = 0 /\ \A v \in Workers \ {w} : holding[v] # j
  BY <1>3, SetsAssumption DEF SInv, HeldSubmitted, SingleRuns, TypeOK
<1>6. \A t \in Outcomes : <<j, t>> \notin outcomes
  BY <1>2, <1>3 DEF SInv, Decided, Publishing, Says
<1>7. stage[w] = "announce" /\ j \notin crossed => Fresh(j)
  BY <1>2, <1>3 DEF LInv, Untouched
<1>8. stage'[w] \notin {"announce", "requeue"} /\ \A v \in Workers \ {w} : stage'[v] = stage[v]
  BY <1>2 DEF TypeOK, Continues, Publishing, Says
<1>9. /\ Len(inbox) \in Nat
      /\ DOMAIN inbox = 1 .. Len(inbox) /\ DOMAIN inbox' = 1 .. Len(inbox) + 1
      /\ \A k \in DOMAIN inbox : inbox'[k] = inbox[k]
      /\ inbox'[Len(inbox) + 1] = m
  BY PublishAppends
<1> HIDE DEF m, j, s
<1>10. Untouched'
  <2>1. \A k \in Jobs \ {j} : Fresh(k) => Fresh(k)'
    BY <1>1, <1>4, <1>9 DEF Fresh, NoMessage
  <2>2. \A v \in Workers : stage'[v] = "requeue" => statusCh' = "closed"
    BY <1>1, <1>8 DEF LInv, Untouched
  <2>3. ASSUME NEW k \in Jobs \ crossed', statusCh' # "closed", submitted'[k] = 0 \/ ready'[k] > 0
        PROVE  Fresh(k)'
    BY <1>1, <1>5, <2>1, <2>3 DEF LInv, Untouched, TypeOK
  <2>4. ASSUME NEW k \in Jobs \ crossed', statusCh' # "closed",
               NEW v \in Workers, holding'[v] = k, stage'[v] = "announce"
        PROVE  Fresh(k)'
    BY <1>1, <1>5, <1>8, <2>1, <2>4 DEF LInv, Untouched
  <2> QED BY <2>2, <2>3, <2>4 DEF Untouched
<1>11. ASSUME NEW k \in Jobs \ crossed' PROVE Ordered(k)'
  <2>1. k \notin crossed /\ Ordered(k)
    BY <1>1 DEF LInv
  <2>2. CASE k # j
    <3>1. \A i \in DOMAIN inbox' : inbox'[i].job = k => i \in DOMAIN inbox /\ inbox'[i] = inbox[i]
      BY <1>4, <1>9, <2>2
    <3> QED BY <1>1, <1>2, <2>1, <3>1 DEF Ordered
  <2>3. CASE k = j
    <3>1. ASSUME NEW i \in DOMAIN inbox, inbox[i].job = j
          PROVE  inbox[i].status = "PROCESSING" /\ s \in Outcomes
      <4>1. inbox[i].status \notin Outcomes
        BY <1>6, <2>1, <2>3, <3>1 DEF Ordered
      <4>2. inbox[i] \in Message
        BY DEF ConsumerTypeOK
      <4> QED BY <1>3, <1>7, <2>1, <2>3, <3>1, <4>1, <4>2
              DEF Fresh, NoMessage, Message, Statuses
    <3>2. row'[j] \notin Outcomes
      BY <1>1, <1>6, <2>1, <2>3 DEF Ordered
    <3>3. \A i \in DOMAIN inbox' :
            (i \in DOMAIN inbox /\ inbox'[i] = inbox[i]) \/ (i = Len(inbox) + 1 /\ inbox'[i] = m)
      BY <1>9
    <3>4. ASSUME NEW i \in DOMAIN inbox', NEW l \in DOMAIN inbox', i < l,
                 inbox'[i].job = j, inbox'[l].job = j
          PROVE  inbox'[i].status = "PROCESSING" /\ inbox'[l].status \in Outcomes
      <4>1. i \in DOMAIN inbox /\ inbox'[i] = inbox[i]
        BY <1>9, <3>4
      <4>2. inbox[i].status = "PROCESSING" /\ s \in Outcomes
        BY <3>1, <3>4, <4>1
      <4>3. CASE l \in DOMAIN inbox
        BY <1>9, <2>1, <2>3, <3>4, <4>1, <4>3 DEF Ordered
      <4>4. CASE l \notin DOMAIN inbox
        BY <1>4, <3>3, <4>1, <4>2, <4>4
      <4> QED BY <4>3, <4>4
    <3>5. ASSUME NEW i \in DOMAIN inbox', inbox'[i].job = j, inbox'[i].status \in Outcomes
          PROVE  <<j, inbox'[i].status>> \in outcomes'
      BY <1>2, <1>4, <2>1, <2>3, <3>3, <3>5 DEF Ordered
    <3> QED BY <2>3, <3>2, <3>4, <3>5 DEF Ordered
  <2> QED BY <2>2, <2>3
<1> QED BY <1>10, <1>11 DEF LInv

\* Handlers one at a time write the messages of a job in their order.
LEMMA ConsumerKeepsOrdered ==
  ASSUME ConsumerTypeOK, NEW j \in Jobs, OneAtATime(j), Ordered(j), ConsumerNext,
         UNCHANGED outcomes
  PROVE  /\ Ordered(j)'
         /\ row'[j] # row[j] =>
              \/ row[j] = "PENDING" /\ row'[j] = "PROCESSING"
              \/ row[j] \in {"PENDING", "PROCESSING"} /\ row'[j] \in Outcomes
<1>1. PICK f : Carries(f)
  BY QueueStep
<1>2. /\ \A k \in DOMAIN inbox : k \in Nat /\ inbox[k] \in Message
      /\ \A k \in DOMAIN inbox' : /\ f[k] \in DOMAIN inbox
                                  /\ inbox'[k].job = inbox[f[k]].job
                                  /\ inbox'[k].status = inbox[f[k]].status
      /\ \A k, l \in DOMAIN inbox' : k < l => f[k] < f[l]
  BY <1>1 DEF Carries, ConsumerTypeOK
<1>3. ASSUME row'[j] # row[j]
      PROVE  /\ row[j] \notin Outcomes /\ row'[j] \in Statuses
             /\ row'[j] \in Outcomes =>
                  /\ <<j, row'[j]>> \in outcomes
                  /\ \A i \in DOMAIN inbox : inbox[i].job = j => inbox[i].status = row'[j]
  <2>1. PICK k \in DOMAIN inbox : FirstOf(j, k) /\ row'[j] = inbox[k].status
    BY <1>3, FirstWritten
  <2>2. inbox[k].job = j /\ \A l \in DOMAIN inbox : inbox[l].job = j => k <= l
    BY <1>2, <2>1 DEF FirstOf
  <2>3. row[j] \notin Outcomes
    BY <1>3, <2>1, <2>2 DEF Ordered
  <2>4. inbox[k].status \in Statuses
    BY <1>2 DEF Message
  <2>5. ASSUME row'[j] \in Outcomes, NEW i \in DOMAIN inbox, inbox[i].job = j
        PROVE  inbox[i].status = row'[j]
    <3>1. ~ (k < i)
      BY <2>1, <2>2, <2>5 DEF Ordered, Outcomes
    <3>2. k = i
      BY <1>2, <2>2, <2>5, <3>1
    <3> QED BY <2>1, <3>2
  <2>6. row'[j] \in Outcomes => <<j, row'[j]>> \in outcomes
    BY <2>1, <2>2 DEF Ordered
  <2> QED BY <2>1, <2>3, <2>4, <2>5, <2>6
<1>4. row'[j] \in Outcomes =>
        /\ <<j, row'[j]>> \in outcomes
        /\ \A i \in DOMAIN inbox : inbox[i].job = j => inbox[i].status = row'[j]
  BY <1>3 DEF Ordered
<1>5. Ordered(j)'
  BY <1>2, <1>4 DEF Ordered
<1>6. row[j] \in {"PENDING", "PROCESSING"} \cup Outcomes
  BY DEF ConsumerTypeOK, Statuses
<1> QED BY <1>3, <1>5, <1>6 DEF Statuses

\* The consumer's steps keep the invariant.
LEMMA ConsumerKeepsLInv ==
  ASSUME ConsumerTypeOK, HInv, LInv, ConsumerNext, UNCHANGED vars
  PROVE  LInv'
<1>1. UNCHANGED <<submitted, ready, stage, holding, statusCh, outcomes>>
  BY DEF vars, brokerVars, workerVars, statusVars
<1>2. ASSUME NEW j \in Jobs \ crossed' PROVE j \notin crossed /\ (Fresh(j) => Fresh(j)')
  BY HistoryGrows, NothingHappens DEF HInv, Fresh
<1>3. Untouched'
  BY <1>1, <1>2 DEF LInv, Untouched
<1>4. ASSUME NEW j \in Jobs \ crossed' PROVE Ordered(j)'
  BY <1>1, <1>2, ConsumerKeepsOrdered DEF HInv, LInv
<1> QED BY <1>3, <1>4 DEF LInv

\* So do all steps.
LEMMA LInvariance == SingleDelivery => (PipelineSpec => [](ConsumerTypeOK /\ HInv /\ LInv))
<1> SUFFICES ASSUME SingleDelivery
             PROVE  PipelineSpec => [](ConsumerTypeOK /\ HInv /\ LInv)
  OBVIOUS
<1>1. PipelineInit => LInv
  <2> SUFFICES ASSUME PipelineInit PROVE LInv
    OBVIOUS
  <2>1. DOMAIN inbox = {} /\ \A j \in Jobs : row[j] = "PENDING"
    BY DEF PipelineInit, ConsumerInit
  <2>2. \A w \in Workers : stage[w] = "connecting"
    BY DEF PipelineInit, Init
  <2> QED BY <2>1, <2>2 DEF LInv, Untouched, Ordered, Fresh, NoMessage, Outcomes
<1>2. /\ TypeOK /\ SInv /\ ConsumerTypeOK /\ HInv /\ LInv /\ [PipelineNext]_pipelineVars
      => LInv'
  <2> SUFFICES ASSUME TypeOK, SInv, ConsumerTypeOK, HInv, LInv, [PipelineNext]_pipelineVars
               PROVE  LInv'
    OBVIOUS
  <2>1. ASSUME NEW w \in Workers, Publish(w) PROVE LInv'
    BY <2>1, PublishKeepsLInv
  <2>2. CASE [Quiet]_vars /\ UNCHANGED consumerVars
    <3>1. Untouched'
      BY <2>2, QuietKeepsUntouched DEF LInv
    <3>2. UNCHANGED outcomes
      BY <2>2
      DEF Quiet, QuietWork, Clean, Fault, Submit, OpenStatusChannel, Connect, Receive,
          PublishSwallowed, PublishFatal, DownloadOk, DownloadFails, TransformOk,
          TransformFails, UploadOk, UploadFails, AttemptFails, TryAgainOr,
          FireBackgroundCleanup, Settle, RemoveLocalRaw, RemoveLocalProcessed,
          DeleteS3Object, Advances, LoseChannel, LoseStatusChannel, Crash, statusVars, vars
    <3>3. UNCHANGED <<inbox, row, crossed>>
      BY <2>2 DEF consumerVars, consumerHistory
    <3> QED BY <3>1, <3>2, <3>3 DEF LInv, Ordered
  <2>3. CASE ConsumerNext /\ UNCHANGED vars
    BY <2>3, ConsumerKeepsLInv
  <2> QED BY <2>1, <2>2, <2>3 DEF PipelineNext, pipelineVars
<1> QED
  BY <1>1, <1>2, PoolSingle, PTL DEF PipelineSpec

\* Only a handler that starts beside another of its job makes the job crossed.
LEMMA CrossedStep ==
  ASSUME ConsumerTypeOK, ConsumerNext
  PROVE  \/ UNCHANGED crossed
         \/ \E j \in Jobs \ crossed : crossed' = crossed \cup {j} /\ UNCHANGED row
<1>1. ASSUME NEW i \in DOMAIN inbox, HandleStatus(i)
      PROVE  \/ UNCHANGED crossed
             \/ \E j \in Jobs \ crossed : crossed' = crossed \cup {j} /\ UNCHANGED row
  <2>1. inbox[i] \in Message
    BY DEF ConsumerTypeOK
  <2>2. inbox[i].job \in Jobs /\ crossed' \in {crossed, crossed \cup {inbox[i].job}} /\ UNCHANGED row
    BY <1>1, <2>1 DEF HandleStatus, Message
  <2> QED BY <2>2
<1> QED
  BY <1>1
  DEF ConsumerNext, Handle, UpdateRow, EmitAndAck, UpdateFails, OrphanUpdatesRow, OrphanEmits,
      OrphanUpdateFails, WriteRow, FailWrite, EmitStatus, ConsumerCrash, LoseConsumerChannel,
      consumerHistory

\* What the consumer does to the rows is a step of the lifecycle.
LEMMA LifecycleStep ==
  ASSUME ConsumerTypeOK, HInv, LInv, ConsumerNext, UNCHANGED vars
  PROVE  Lifecycle!Next
         \/ UNCHANGED [j \in Jobs |-> IF j \in crossed THEN "OVERTAKEN" ELSE row[j]]
<1>1. UNCHANGED outcomes
  BY DEF vars, statusVars
<1>2. row \in [Jobs -> Statuses \cup {"PENDING"}]
  BY DEF ConsumerTypeOK
<1>3. CASE \E j \in Jobs \ crossed : crossed' = crossed \cup {j} /\ UNCHANGED row
  <2>1. PICK j \in Jobs \ crossed : crossed' = crossed \cup {j} /\ UNCHANGED row
    BY <1>3
  <2>2. row[j] # "OVERTAKEN"
    BY <1>2 DEF Statuses, Outcomes
  <2>3. Lifecycle!Overtake(j)
    BY <2>1, <2>2 DEF Lifecycle!Overtake
  <2> QED BY <2>3 DEF Lifecycle!Next
<1>4. CASE UNCHANGED crossed
  <2>1. CASE UNCHANGED row
    BY <1>4, <2>1
  <2>2. ASSUME NEW m \in Message, row' = [row EXCEPT ![m.job] = m.status],
               row'[m.job] # row[m.job], m.job \notin crossed
        PROVE  Lifecycle!Next
    <3>1. PICK j \in Jobs : j = m.job
      BY DEF Message
    <3>2. row' = [row EXCEPT ![j] = row'[j]] /\ j \notin crossed /\ row'[j] # row[j]
      BY <1>2, <2>2, <3>1
    <3>3. \/ row[j] = "PENDING" /\ row'[j] = "PROCESSING"
          \/ row[j] \in {"PENDING", "PROCESSING"} /\ row'[j] \in Outcomes
      BY <1>1, <3>2, ConsumerKeepsOrdered DEF HInv, LInv
    <3>4. CASE row[j] = "PENDING" /\ row'[j] = "PROCESSING"
      <4>1. Lifecycle!Start(j)
        BY <1>2, <1>4, <3>2, <3>4 DEF Lifecycle!Start
      <4> QED BY <4>1 DEF Lifecycle!Next
    <3>5. CASE row[j] \in {"PENDING", "PROCESSING"} /\ row'[j] \in Outcomes
      <4>1. Lifecycle!Finish(j)
        BY <1>2, <1>4, <3>2, <3>5 DEF Lifecycle!Finish, Outcomes
      <4> QED BY <4>1 DEF Lifecycle!Next
    <3> QED BY <3>3, <3>4, <3>5
  <2>3. ASSUME NEW m \in Message, row' = [row EXCEPT ![m.job] = m.status], m.job \in crossed
        PROVE  UNCHANGED [j \in Jobs |-> IF j \in crossed THEN "OVERTAKEN" ELSE row[j]]
    BY <1>2, <1>4, <2>3
  <2>4. ASSUME NEW m \in Message, row' = [row EXCEPT ![m.job] = m.status],
               row'[m.job] = row[m.job]
        PROVE  UNCHANGED row
    BY <1>2, <2>4
  <2> QED BY <2>1, <2>2, <2>3, <2>4, RowStep
<1> QED BY <1>3, <1>4, CrossedStep

\* Rows follow the lifecycle the client expects: with single deliveries the rows of
\* jobs whose handlers do not overlap implement JobLifecycle, whatever is lost of the
\* status channel or the consumer's, however often the service crashes and whichever
\* updates fail (the UPDATE of handleStatus, which looks at no status, after the
\* publishes of ProcessMessage).
THEOREM RowsFollowLifecycle ==
  ASSUME SingleDelivery
  PROVE  PipelineSpec => ImplementsLifecycle
<1>1. PipelineInit => Lifecycle!Init
  BY DEF PipelineInit, ConsumerInit, Lifecycle!Init
<1>2. ConsumerTypeOK /\ HInv /\ LInv /\ [PipelineNext]_pipelineVars
      => [Lifecycle!Next]_[j \in Jobs |-> IF j \in crossed THEN "OVERTAKEN" ELSE row[j]]
  <2> SUFFICES ASSUME ConsumerTypeOK, HInv, LInv, [PipelineNext]_pipelineVars
               PROVE  \/ Lifecycle!Next
                      \/ UNCHANGED [j \in Jobs |-> IF j \in crossed THEN "OVERTAKEN" ELSE row[j]]
    OBVIOUS
  <2>1. CASE UNCHANGED <<row, crossed>>
    BY <2>1
  <2>2. CASE ConsumerNext /\ UNCHANGED vars
    BY <2>2, LifecycleStep
  <2> QED
    BY <2>1, <2>2
    DEF PipelineNext, Publish, Enqueue, pipelineVars, consumerVars, consumerHistory
<1> QED
  BY <1>1, <1>2, LInvariance, PTL DEF PipelineSpec, ImplementsLifecycle, Lifecycle!Spec

\* Final rows stay: with single deliveries a row that says PROCESSED or FAILED never
\* changes while no handlers of its job overlap, as the client takes for granted when
\* it forgets the job (handleStatus, run over the queue in order).
THEOREM FinalRowsStay ==
  ASSUME SingleDelivery
  PROVE  PipelineSpec => FinalStatusStable
<1>1. ConsumerTypeOK /\ HInv /\ LInv /\ [PipelineNext]_pipelineVars
      => [\A j \in Jobs \ crossed' : row[j] \in Outcomes => row'[j] = row[j]]_<<row, crossed>>
  <2> SUFFICES ASSUME ConsumerTypeOK, HInv, LInv, [PipelineNext]_pipelineVars,
                      NEW j \in Jobs \ crossed', row[j] \in Outcomes
               PROVE  row'[j] = row[j]
    OBVIOUS
  <2>1. CASE UNCHANGED row
    BY <2>1
  <2>2. CASE ConsumerNext /\ UNCHANGED vars
    <3>1. UNCHANGED outcomes /\ j \notin crossed
      BY <2>2, HistoryGrows DEF vars, statusVars
    <3> QED BY <2>2, <3>1, ConsumerKeepsOrdered DEF HInv, LInv, Outcomes
  <2> QED
    BY <2>1, <2>2 DEF PipelineNext, Publish, Enqueue, pipelineVars, consumerVars
<1> QED
  BY <1>1, LInvariance, PTL DEF PipelineSpec, FinalStatusStable
=============================================================================
