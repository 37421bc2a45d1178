----------------------------- MODULE WorkerPool -----------------------------
(***************************************************************************)
(* The Go worker process: consumer goroutines take transformation messages *)
(* from RabbitMQ, run ProcessMessage on each, publish status messages on   *)
(* one shared channel, start background cleanups, and acknowledge.         *)
(*                                                                         *)
(* A job stands for one image_processing row with its S3 raw key, its      *)
(* local files and its transformation queue.  A message of job j is an     *)
(* element of the count ready[j] until a worker receives it; what the      *)
(* client library has prefetched but the goroutine has not read is still   *)
(* counted in ready.                                                       *)
(***************************************************************************)
EXTENDS JobStatus, Naturals, FiniteSets

CONSTANTS
  Workers,           \* consumer goroutines
  None,              \* no job
  Route,             \* Route[w]: the jobs whose queue worker w consumes
  Misnamed,          \* CONVERT jobs whose upload looks for a name transform did not write
  Unswept,           \* CONVERT jobs whose cleanup removes a name transform did not write
  StatusFirst,       \* status_queue comes first in RABBITMQ_QUEUES
  MaxTries,          \* attempts at a download or an upload (3 in the code)
  MaxCopies,         \* bound: messages submitted per job
  MaxCrashes,        \* bound: exits of the process
  MaxChannelLosses,  \* bound: losses of a worker's consumer channel
  MaxStatusLosses,   \* bound: losses of the status channel
  MaxUnremoved       \* bound: local files that a removal fails to remove

ASSUME SetsAssumption ==
  /\ IsFiniteSet(Jobs) /\ IsFiniteSet(Workers)
  /\ None \notin Jobs
  /\ Route \in [Workers -> SUBSET Jobs]
  /\ Misnamed \subseteq Jobs /\ Unswept \subseteq Jobs
  /\ StatusFirst \in BOOLEAN
ASSUME BoundsAssumption ==
  /\ MaxTries \in Nat \ {0}
  /\ MaxCopies \in Nat /\ MaxCrashes \in Nat
  /\ MaxChannelLosses \in Nat /\ MaxStatusLosses \in Nat /\ MaxUnremoved \in Nat

VARIABLES
  submitted,      \* messages the service has put on the queue, per job
  ready,          \* messages on the queue, per job
  stage,          \* where each worker is in its loop and in ProcessMessage
  holding,        \* the job of the delivery a worker is processing
  owned,          \* that delivery's channel is still open: its ack will count
  tries,          \* failed attempts of the current download or upload
  plan,           \* the cleanup mode the run ends with
  cleanups,       \* running cleanup goroutines, per job and remaining work
  s3raw, s3out,   \* jobs whose raw, whose processed object is in S3
  rawFile, outFile,       \* jobs whose downloaded, whose transformed file is on local disk
  statusCh,       \* statusQueueChannel: unset, open or closed
  crashes, channelLosses, statusLosses,  \* faults so far
  outcomes,       \* history: final statuses that reached status_queue
  unheard,        \* history: jobs a final status of which was swallowed
  aborted,        \* history: jobs a run of which a fatal publish ended for good
  stranded,       \* history: jobs a crash took a run of that nobody repeats
  unremoved       \* history: local files a failed removal has left behind

brokerVars  == <<submitted, ready>>
workerVars  == <<stage, holding, owned, tries, plan>>
fileVars    == <<s3raw, s3out, rawFile, outFile>>
statusVars  == <<statusCh, outcomes, unheard, aborted>>
lossVars    == <<stranded, unremoved>>
faultVars   == <<crashes, channelLosses, statusLosses>>
vars == <<brokerVars, workerVars, cleanups, fileVars, statusVars, faultVars, lossVars>>

\* What a publishing stage says, and where ProcessMessage continues after it
\* (SaysCopied: the success branch's status copied into the failure branches).
SaysCopied == [announce |-> "PROCESSING", fail |-> "PROCESSED", succeed |-> "PROCESSED"]
Says      == [announce |-> "PROCESSING", fail |-> "FAILED", succeed |-> "PROCESSED"]
Continues == [announce |-> "download",   fail |-> "tidy",   succeed |-> "tidy"]
Publishing == DOMAIN Says

Settling == {"ack", "drop", "requeue"}
Busy     == Publishing \cup {"download", "transform", "upload", "tidy"} \cup Settling
Stages   == {"connecting", "idle"} \cup Busy

Modes == {"delete_s3", "remove_local_and_delete_s3",
          "remove_local_all_and_delete_s3", "cleanup_all"}
\* What a cleanup goroutine still has to do.  Both "all" modes do the same
\* three removals and only log what fails, so one name stands for both.
Remaining == {"cleanup_all", "processed_and_s3", "remove_local_and_delete_s3", "delete_s3"}
\* (StartsS3Only, a mutant: every mode falls into the default branch.)
StartsS3Only(m) == "delete_s3"
Starts(m) == IF m = "remove_local_all_and_delete_s3" THEN "cleanup_all" ELSE m

Owners(j) == {w \in Workers : owned[w] /\ holding[w] = j}
NoCleanups == [j \in Jobs |-> [r \in Remaining |-> 0]]

Init ==
  /\ submitted = [j \in Jobs |-> 0]
  /\ ready = [j \in Jobs |-> 0]
  /\ stage = [w \in Workers |-> "connecting"]
  /\ holding = [w \in Workers |-> None]
  /\ owned = [w \in Workers |-> FALSE]
  /\ tries = [w \in Workers |-> 0]
  /\ plan = [w \in Workers |-> "none"]
  /\ cleanups = NoCleanups
  /\ s3raw = {} /\ s3out = {} /\ rawFile = {} /\ outFile = {}
  /\ statusCh = "unset"
  /\ crashes = 0 /\ channelLosses = 0 /\ statusLosses = 0
  /\ outcomes = {} /\ unheard = {} /\ aborted = {} /\ stranded = {} /\ unremoved = {}

-----------------------------------------------------------------------------
(* The service in front of the queue.                                      *)

\* The client has put the raw object in S3 and the webhook enqueues the job.
\* A repeated notification enqueues it again; a repeated upload also restores
\* the object.
Submit(j) ==
  /\ submitted[j] < MaxCopies
  /\ submitted' = [submitted EXCEPT ![j] = @ + 1]
  /\ ready' = [ready EXCEPT ![j] = @ + 1]
  /\ s3raw' \in (IF submitted[j] = 0 THEN {} ELSE {s3raw}) \cup {s3raw \cup {j}}
  /\ UNCHANGED <<workerVars, cleanups, s3out, rawFile, outFile, statusVars, faultVars, lossVars>>

-----------------------------------------------------------------------------
(* Start and the consumer loop.                                            *)

\* Start reaches status_queue: the only place that sets statusQueueChannel.
OpenStatusChannel ==
  /\ statusCh = "unset"
  /\ statusCh' = "open"
  /\ UNCHANGED <<brokerVars, workerVars, cleanups, fileVars, outcomes,
                 unheard, aborted, faultVars, lossVars>>

\* A worker dials, opens its own channel and consumes.
Connect(w) ==
  /\ stage[w] = "connecting"
  /\ StatusFirst => statusCh # "unset"
  /\ stage' = [stage EXCEPT ![w] = "idle"]
  /\ UNCHANGED <<brokerVars, holding, owned, tries, plan, cleanups, fileVars,
                 statusVars, faultVars, lossVars>>

\* A delivery reaches ProcessMessage.
Receive(w, j) ==
  /\ stage[w] = "idle" /\ j \in Route[w] /\ ready[j] > 0
  /\ ready' = [ready EXCEPT ![j] = @ - 1]
  /\ stage' = [stage EXCEPT ![w] = "announce"]
  /\ holding' = [holding EXCEPT ![w] = j]
  /\ owned' = [owned EXCEPT ![w] = TRUE]
  /\ UNCHANGED <<submitted, tries, plan, cleanups, fileVars, statusVars, faultVars, lossVars>>

\* The broker takes a delivery back on Nack with requeue (mutant: never).
NeverBack(w) == FALSE
GoesBack(w) == owned[w] /\ stage[w] = "requeue"

\* Ack, Nack without and Nack with requeue.  On a lost channel the call fails,
\* its result is ignored, and the loop finds the delivery channel closed.
Settle(w) ==
  /\ stage[w] \in Settling
  /\ stage' = [stage EXCEPT ![w] = IF owned[w] THEN "idle" ELSE "connecting"]
  /\ ready' = IF GoesBack(w)
              THEN [ready EXCEPT ![holding[w]] = @ + 1] ELSE ready
  /\ holding' = [holding EXCEPT ![w] = None]
  /\ owned' = [owned EXCEPT ![w] = FALSE]
  /\ UNCHANGED <<submitted, tries, plan, cleanups, fileVars, statusVars, faultVars, lossVars>>

-----------------------------------------------------------------------------
(* ProcessMessage, one action per step that another actor can observe.     *)

\* PublishToChannelHelper with the message on its way to status_queue.
PublishOk(w) ==
  /\ stage[w] \in Publishing /\ statusCh = "open"
  /\ outcomes' = outcomes \cup ({<<holding[w], Says[stage[w]]>>} \cap (Jobs \X Outcomes))
  /\ stage' = [stage EXCEPT ![w] = Continues[stage[w]]]
  /\ UNCHANGED <<brokerVars, holding, owned, tries, plan, cleanups, fileVars,
                 statusCh, unheard, aborted, faultVars, lossVars>>

\* The connection under the status channel breaks; nothing reopens it.
BreakStatusChannel ==
  /\ statusCh = "open" /\ statusLosses < MaxStatusLosses
  /\ statusCh' = "closed"
  /\ statusLosses' = statusLosses + 1

\* The channel is nil or closed, or breaks under the publish: the error is one
\* IsFatalError does not know, or there is none, since nothing waits for a confirm.
\* Nothing reaches status_queue, and ProcessMessage goes on.
PublishSwallowed(w) ==
  /\ stage[w] \in Publishing
  /\ \/ statusCh # "open" /\ UNCHANGED <<statusCh, statusLosses>>
     \/ BreakStatusChannel
  /\ unheard' = IF Says[stage[w]] \in Outcomes THEN unheard \cup {holding[w]} ELSE unheard
  /\ stage' = [stage EXCEPT ![w] = Continues[stage[w]]]
  /\ UNCHANGED <<brokerVars, holding, owned, tries, plan, cleanups, fileVars, outcomes,
                 aborted, crashes, channelLosses, lossVars>>

\* The publish fails with an error IsFatalError knows: ProcessMessage returns at
\* once, and IsTransientError of the same text decides what the Nack does.  On a
\* lost channel no Nack takes the message back.
PublishFatal(w, verdict) ==
  /\ stage[w] \in Publishing
  /\ BreakStatusChannel
  /\ aborted' = IF verdict = "requeue" /\ owned[w] THEN aborted ELSE aborted \cup {holding[w]}
  /\ stage' = [stage EXCEPT ![w] = verdict]
  /\ plan' = [plan EXCEPT ![w] = "none"]
  /\ UNCHANGED <<brokerVars, holding, owned, tries, cleanups, fileVars, outcomes,
                 unheard, crashes, channelLosses, lossVars>>

DownloadOk(w) ==
  /\ stage[w] = "download" /\ holding[w] \in s3raw
  /\ rawFile' = rawFile \cup {holding[w]}
  /\ tries' = [tries EXCEPT ![w] = 0]
  /\ stage' = [stage EXCEPT ![w] = "transform"]
  /\ UNCHANGED <<brokerVars, holding, owned, plan, cleanups, s3raw, s3out, outFile,
                 statusVars, faultVars, lossVars>>

\* An attempt fails: try again while fewer than limit have failed, else give
\* up, keep the cleanup mode m and go on at stage next.
TryAgainOr(w, m, limit, next) ==
  /\ IF tries[w] + 1 < limit
     THEN /\ tries' = [tries EXCEPT ![w] = @ + 1]
          /\ UNCHANGED <<stage, plan>>
     ELSE /\ tries' = [tries EXCEPT ![w] = 0]
          /\ stage' = [stage EXCEPT ![w] = next]
          /\ plan' = [plan EXCEPT ![w] = m]
  /\ UNCHANGED <<brokerVars, holding, owned, cleanups, statusVars, faultVars, lossVars>>

\* Mutants: one attempt too many, no count of the attempts, no report at the end.
AttemptFailsOnceMore(w, m) == TryAgainOr(w, m, MaxTries + 1, "fail")
AttemptFailsUncounted(w, m) ==
  UNCHANGED <<brokerVars, workerVars, cleanups, statusVars, faultVars, lossVars>>
AttemptFailsUnreported(w, m) == TryAgainOr(w, m, MaxTries, "tidy")

\* A failed attempt of a download or an upload; the last one is reported FAILED.
AttemptFails(w, m) == TryAgainOr(w, m, MaxTries, "fail")

\* The object is absent, S3 does not answer in a second, or the copy breaks off
\* after os.Create and leaves a file behind.
DownloadFails(w) ==
  /\ stage[w] = "download"
  /\ rawFile' \in {rawFile} \cup {rawFile \cup ({holding[w]} \cap s3raw)}
  /\ AttemptFails(w, "delete_s3")
  /\ UNCHANGED <<s3raw, s3out, outFile>>

TransformOk(w) ==
  /\ stage[w] = "transform" /\ holding[w] \in rawFile
  /\ outFile' = outFile \cup {holding[w]}
  /\ stage' = [stage EXCEPT ![w] = "upload"]
  /\ UNCHANGED <<brokerVars, holding, owned, tries, plan, cleanups, s3raw, s3out,
                 rawFile, statusVars, faultVars, lossVars>>

\* The file is gone, the image or its parameters are refused, or the write
\* breaks off and leaves a file behind.
TransformFails(w) ==
  /\ stage[w] = "transform"
  /\ outFile' \in {outFile} \cup {outFile \cup ({holding[w]} \cap rawFile)}
  /\ stage' = [stage EXCEPT ![w] = "fail"]
  /\ plan' = [plan EXCEPT ![w] = "remove_local_and_delete_s3"]
  /\ UNCHANGED <<brokerVars, holding, owned, tries, cleanups, s3raw, s3out, rawFile,
                 statusVars, faultVars, lossVars>>

\* UploadtoS3Object reads the transformed file under the name it expects.
Readable(j) == j \in outFile /\ j \notin Misnamed

UploadOk(w) ==
  /\ stage[w] = "upload" /\ Readable(holding[w])
  /\ s3out' = s3out \cup {holding[w]}
  /\ tries' = [tries EXCEPT ![w] = 0]
  /\ stage' = [stage EXCEPT ![w] = "succeed"]
  /\ plan' = [plan EXCEPT ![w] = "cleanup_all"]
  /\ UNCHANGED <<brokerVars, holding, owned, cleanups, s3raw, rawFile, outFile,
                 statusVars, faultVars, lossVars>>

\* Mutant: the last upload error is not looked at.
UploadFailsUnchecked(w) ==
  /\ stage[w] = "upload"
  /\ TryAgainOr(w, "cleanup_all", MaxTries, "succeed")
  /\ UNCHANGED fileVars

\* The file cannot be read, PutObject fails, or presigning fails after the put.
UploadFails(w) ==
  /\ stage[w] = "upload"
  /\ s3out' \in {s3out} \cup {s3out \cup {j \in {holding[w]} : Readable(j)}}
  /\ AttemptFails(w, "remove_local_all_and_delete_s3")
  /\ UNCHANGED <<s3raw, rawFile, outFile>>

\* What the loop does with the delivery after a run of cleanup mode m: a
\* ProcessingError is built with Requeue FALSE everywhere (mutant: TRUE).
VerdictRequeue(m) == IF m = "cleanup_all" THEN "ack" ELSE "requeue"
Verdict(m) == IF m = "cleanup_all" THEN "ack" ELSE "drop"

\* fireBackgroundCleanup, then ProcessMessage returns nil or a ProcessingError.
FireBackgroundCleanup(w) ==
  /\ stage[w] = "tidy"
  /\ cleanups' = [cleanups EXCEPT ![holding[w]][Starts(plan[w])] = @ + 1]
  /\ stage' = [stage EXCEPT ![w] = Verdict(plan[w])]
  /\ plan' = [plan EXCEPT ![w] = "none"]
  /\ UNCHANGED <<brokerVars, holding, owned, tries, fileVars, statusVars, faultVars, lossVars>>

-----------------------------------------------------------------------------
(* The steps of a cleanup goroutine, in their order.                       *)

Advances(j, from, to) ==
  /\ cleanups[j][from] > 0
  /\ cleanups' = [cleanups EXCEPT ![j][from] = @ - 1, ![j][to] = @ + 1]
  /\ UNCHANGED <<brokerVars, workerVars, s3raw, s3out, statusVars, faultVars, stranded>>

\* What os.Remove of job j's file among those that are there leaves: it goes, or
\* the removal fails, which is logged, and the cleanup goes on all the same.
Leaves(j, kind, files, left) ==
  \/ left = files \ {j} /\ UNCHANGED unremoved
  \/ /\ Cardinality(unremoved) < MaxUnremoved
     /\ j \in files /\ left = files
     /\ unremoved' = unremoved \cup {<<j, kind>>}

RemoveLocalRaw(j) ==
  /\ \/ Advances(j, "cleanup_all", "processed_and_s3")
     \/ Advances(j, "remove_local_and_delete_s3", "delete_s3")
  /\ Leaves(j, "raw", rawFile, rawFile')
  /\ UNCHANGED outFile

RemoveLocalProcessed(j) ==
  /\ Advances(j, "processed_and_s3", "delete_s3")
  /\ IF j \in Unswept THEN UNCHANGED <<outFile, unremoved>>
                       ELSE Leaves(j, "processed", outFile, outFile')
  /\ UNCHANGED rawFile

\* The goroutine ends whether or not S3 deletes the object.
DeleteS3Object(j) ==
  /\ cleanups[j]["delete_s3"] > 0
  /\ cleanups' = [cleanups EXCEPT ![j]["delete_s3"] = @ - 1]
  /\ s3raw' \in {s3raw, s3raw \ {j}}
  /\ UNCHANGED <<brokerVars, workerVars, s3out, rawFile, outFile, statusVars, faultVars, lossVars>>

-----------------------------------------------------------------------------
(* Faults.                                                                 *)

\* A worker's connection closes: the broker requeues what is unacknowledged,
\* while a run in progress goes on unaware.
LoseChannel(w) ==
  /\ channelLosses < MaxChannelLosses
  /\ \/ stage[w] = "idle" /\ stage' = [stage EXCEPT ![w] = "connecting"]
                          /\ UNCHANGED <<ready, owned>>
     \/ owned[w] /\ ready' = [ready EXCEPT ![holding[w]] = @ + 1]
                 /\ owned' = [owned EXCEPT ![w] = FALSE]
                 /\ UNCHANGED stage
  /\ channelLosses' = channelLosses + 1
  /\ UNCHANGED <<submitted, holding, tries, plan, cleanups, fileVars, statusVars,
                 crashes, statusLosses, lossVars>>

LoseStatusChannel ==
  /\ BreakStatusChannel
  /\ UNCHANGED <<brokerVars, workerVars, cleanups, fileVars, outcomes, unheard,
                 aborted, crashes, channelLosses, lossVars>>

\* What the broker requeues of job j when the process exits (mutant: nothing,
\* as if deliveries were acknowledged on receipt).
RequeuesNothing(j) == 0
Requeues(j) == Cardinality(Owners(j))

\* The jobs of runs whose delivery the broker has already taken back.
Stray == {j \in Jobs : \E w \in Workers : holding[w] = j /\ ~ owned[w]}

\* The process exits (a kill, or the nil connection a worker dereferences when
\* its dial fails) and the container restarts it on the same disk.
Crash ==
  /\ crashes < MaxCrashes
  /\ crashes' = crashes + 1
  /\ ready' = [j \in Jobs |-> ready[j] + Requeues(j)]
  /\ stage' = [w \in Workers |-> "connecting"]
  /\ holding' = [w \in Workers |-> None]
  /\ owned' = [w \in Workers |-> FALSE]
  /\ tries' = [w \in Workers |-> 0]
  /\ plan' = [w \in Workers |-> "none"]
  /\ cleanups' = NoCleanups
  /\ statusCh' = "unset"
  /\ stranded' = stranded \cup Stray
  /\ UNCHANGED <<submitted, fileVars, outcomes, unheard, aborted, unremoved,
                 channelLosses, statusLosses>>

-----------------------------------------------------------------------------
\* The worker's steps that put nothing on status_queue.
QuietWork(w) ==
  \/ Connect(w)
  \/ \E j \in Jobs : Receive(w, j)
  \/ PublishSwallowed(w)
  \/ \E verdict \in {"drop", "requeue"} : PublishFatal(w, verdict)
  \/ DownloadOk(w)
  \/ DownloadFails(w)
  \/ TransformOk(w)
  \/ TransformFails(w)
  \/ UploadOk(w)
  \/ UploadFails(w)
  \/ FireBackgroundCleanup(w)
  \/ Settle(w)

Work(w) == PublishOk(w) \/ QuietWork(w)

Clean(j) ==
  \/ RemoveLocalRaw(j)
  \/ RemoveLocalProcessed(j)
  \/ DeleteS3Object(j)

Fault ==
  \/ \E w \in Workers : LoseChannel(w)
  \/ LoseStatusChannel
  \/ Crash

Quiet ==
  \/ \E j \in Jobs : Submit(j)
  \/ OpenStatusChannel
  \/ \E w \in Workers : QuietWork(w)
  \/ \E j \in Jobs : Clean(j)
  \/ Fault

Next ==
  \/ \E w \in Workers : PublishOk(w)
  \/ Quiet

Spec == Init /\ [][Next]_vars

\* Go schedules every runnable goroutine, every S3 call and every retry has a
\* timeout, and Start does not block before it has opened the status channel.
Fairness ==
  /\ WF_vars(OpenStatusChannel)
  /\ \A w \in Workers : WF_vars(Work(w))

FairSpec == Spec /\ Fairness

-----------------------------------------------------------------------------
(* Properties.                                                             *)

\* Jobs with an outcome on status_queue.
Announced == {j \in Jobs : \E o \in Outcomes : <<j, o>> \in outcomes}

\* The pool implements an at-least-once work queue: a message is unsettled
\* while it is on the queue or unacknowledged at a worker, and a job is
\* accounted for once an outcome was published, in vain or not, or its run given up.
Queue == INSTANCE WorkQueue WITH
  unsettled <- [j \in Jobs |-> ready[j] + Cardinality(Owners(j))],
  accounted <- Announced \cup unheard \cup aborted

\* Crashes, lost channels, requeues and the two Nacks neither lose a message
\* nor create one, and no message goes before its job is accounted for; every
\* message goes in the end (ProcessMessage and the Ack and Nack of Start).
ImplementsWorkQueue == Queue!FairSpec

\* Every variable keeps its type; a worker holds a job exactly while it is busy
\* in ProcessMessage or about to settle, and has a cleanup mode exactly when an
\* outcome has been decided and its cleanup not yet started.
TypeOK ==
  /\ submitted \in [Jobs -> 0 .. MaxCopies]
  /\ ready \in [Jobs -> Nat]
  /\ stage \in [Workers -> Stages]
  /\ holding \in [Workers -> Jobs \cup {None}]
  /\ owned \in [Workers -> BOOLEAN]
  /\ tries \in [Workers -> 0 .. MaxTries - 1]
  /\ plan \in [Workers -> Modes \cup {"none"}]
  /\ cleanups \in [Jobs -> [Remaining -> Nat]]
  /\ s3raw \subseteq Jobs /\ s3out \subseteq Jobs
  /\ rawFile \subseteq Jobs /\ outFile \subseteq Jobs
  /\ statusCh \in {"unset", "open", "closed"}
  /\ crashes \in 0 .. MaxCrashes
  /\ channelLosses \in 0 .. MaxChannelLosses
  /\ statusLosses \in 0 .. MaxStatusLosses
  /\ outcomes \subseteq Jobs \X Outcomes
  /\ unheard \subseteq Jobs /\ aborted \subseteq Jobs /\ stranded \subseteq Jobs
  /\ unremoved \subseteq Jobs \X {"raw", "processed"}
  /\ \A w \in Workers :
       /\ (holding[w] # None) <=> (stage[w] \in Busy)
       /\ owned[w] => holding[w] # None
       /\ (plan[w] # "none") <=> (stage[w] \in {"fail", "succeed", "tidy"})

\* The final status of a job was swallowed, as it is while the status channel is
\* broken, or not yet open because other queues come before status_queue.
Swallowed(j) == j \in unheard /\ (StatusFirst => statusLosses > 0)

\* No submitted job is lost but by the status channel: one of its messages is on
\* the queue or unacknowledged at a worker, or an outcome of it has reached
\* status_queue; or the status channel failed it, so that its outcome was
\* swallowed or its run ended by a fatal error (the Ack and Nack of Start).
NoSilentLoss ==
  \A j \in Jobs : submitted[j] > 0 =>
    \/ ready[j] > 0
    \/ Owners(j) # {}
    \/ j \in Announced
    \/ Swallowed(j)
    \/ j \in aborted /\ statusLosses > 0

\* The raw object outlives the work: a cleanup deletes it from S3 only when an
\* outcome has reached status_queue or was swallowed on a status channel that is
\* broken or not yet open.  A run cut short before its outcome can be repeated.
InputOutlivesWork ==
  \A j \in Jobs : submitted[j] > 0 /\ j \notin s3raw => j \in Announced \/ Swallowed(j)

\* What the load test waits for: a job whose messages are settled has an outcome
\* on status_queue, unless a fatal publish error ended its run.
SettledIsAnnounced ==
  \A j \in Jobs : submitted[j] > 0 /\ ready[j] = 0 /\ Owners(j) = {}
                   => j \in Announced \cup aborted

\* Whoever reads PROCESSED from status_queue finds the processed object in S3,
\* whatever other runs of the same job, their cleanups and crashes have done.
ProcessedHasResult ==
  \A j \in Jobs : <<j, "PROCESSED">> \in outcomes => j \in s3out

\* One delivery, one verdict: a job is not reported both PROCESSED and FAILED.
\* It holds while every message is delivered once.
OneVerdict ==
  \A j \in Jobs : ~ ({j} \X Outcomes \subseteq outcomes)

\* A run that ends well leaves on the disk only what a removal failed to remove:
\* once no message, worker or cleanup goroutine is busy with a PROCESSED job, each
\* of its two files is gone or its own removal has failed, which stops nothing else
\* (CleanupAll).  It holds for single deliveries, without crashes, where the cleanup
\* looks for the file under the name that transform wrote.
AtRest(j) ==
  /\ ready[j] = 0 /\ cleanups[j] = NoCleanups[j]
  /\ \A w \in Workers : holding[w] # j
SuccessLeavesNoFiles ==
  \A j \in Jobs : <<j, "PROCESSED">> \in outcomes /\ AtRest(j) =>
    /\ j \in rawFile => <<j, "raw">> \in unremoved
    /\ j \in outFile => <<j, "processed">> \in unremoved

\* The comment of transform.go: the path where TransformImage saves the image is
\* the one from where it can be uploaded.
SavedWhereUploaded ==
  \A w \in Workers : stage[w] = "upload" /\ holding[w] \in outFile => Readable(holding[w])

\* IsFatalError's comment: a failure of the infrastructure stops the worker, so
\* after one no worker takes a further message.
FatalStopsWorker ==
  [][aborted # {} => ~ \E w \in Workers : stage[w] = "idle" /\ stage'[w] = "announce"]_vars
=============================================================================
