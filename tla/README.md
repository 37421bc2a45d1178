# TLA+ models of the image-processing service and its Go workers

The repository is two programs. `src/image-processing-service` (NestJS) accepts
uploads, learns from S3 events that an image has arrived, enqueues its
transformation and shows the client what became of it. `src/go-workers` takes
transformations from RabbitMQ, does them and reports on `status_queue`. This
directory models what is hard to test in them: messages delivered twice, workers
on the same files, lost channels, crashes between two steps, asynchronous
handlers that overtake each other.

Short paths below: `service.go` is `src/go-workers/internal/queue/service.go`;
`s3Operations.go`, `cleanup.go`, `rabbitmq.go`, `transform.go` are in
`src/go-workers/internal/`; TypeScript files are in
`src/image-processing-service/src/`.

## 1. The system

```
 client --POST upload--> upload.service --row PENDING, presigned URL--> client
 client --PUT--> S3 raw/... --event--> SNS --> webhook.service
 webhook.service --message--> transformation queue (one of six) --> Go worker
 Go worker: download raw, transform, upload processed, clean up
 Go worker --PROCESSING / PROCESSED / FAILED--> status_queue
 status-event.controller: UPDATE the row, emit, ack
 emit --> SSE --> client
 client --PATCH upload/status--> UPDATE the row --> Redis --> emit --> SSE --> client
```

| Component | State it keeps | Operations | What is hard |
|---|---|---|---|
| Worker: `Start`, `ProcessMessage` (`service.go`) | queues, the delivery of each goroutine, the shared status channel, retry counters | receive, publish, download, transform, upload, start a cleanup, ack, nack | redelivery while a run goes on; one status channel that is opened once; a fatal publish in the middle |
| Worker: files and objects (`s3Operations.go`, `cleanup.go`, `transform.go`) | local raw and processed file, S3 raw and processed object | as above, and the removals of the cleanup goroutines | two runs of a job share every file; partial files; names derived in three places |
| Status consumer (`status/status-event.controller.ts`) | the row's status, the last notification | handle, UPDATE, emit, ack | handlers overlap; crash between UPDATE and ack; a channel lost under a running handler; a failed UPDATE is acknowledged |
| Upload (`upload/upload.service.ts`) | row, key, presigned URL | create, sign, store key | two-step creation |
| Webhook (`webhook/*.ts`) | none of its own | look the row up, enqueue | answers 200 before it has done the work; duplicate notifications |
| Status PATCH (`upload/upload.controller.ts`, `upload.service.ts`) | the row | find, compare, UPDATE, two notifications | check-then-act across an await; a second writer of the row |
| Notifications (`shared/pubsub`, `status/status.controller.ts`) | subscriptions, streams | subscribe, publish, emit | at most once, late subscribers, two ways to the emitter |
| Accounts (`auth/*.ts`, `auth.guard.ts`, `exception.filters.ts`) | users, cookies | register, log in, guard a route | check-then-act across awaits, an index error outside the HTTP exceptions |
| Stuck-upload sweep (`shared/crons`) | none | delete rows | not registered: nothing runs it |

What makes them correct:

- worker: only the status channel can cost a submitted job its outcome; its input
  survives until there is one; PROCESSED has a result behind it; every message is
  settled; a success leaves no file but one whose removal failed;
- status consumer: a row ends final, and the last notification agrees with it,
  unless handlers of the same job overlap or a fault takes the outcome;
- upload and webhook: a URL handed out leads to a row its event will find, and a
  stored object leads to a message on a queue;
- PATCH: the same status is not written twice, and the sender's reason is heard;
- notifications: a client is misled only by overlapping writers or a loss, and
  hears of a worker's failure only after one;
- accounts: one account per address, whoever was welcomed is known, every request
  is answered.

PROJECT.json lists the hazards line by line with the properties that cover them.

## 2. The modules

| Module | What it is |
|---|---|
| `JobStatus` | the statuses both programs know |
| `WorkerPool` | the worker process with its broker and S3 as far as it sees them |
| `WorkQueue` | abstract: an at-least-once work queue that settles each message once |
| `StatusConsumer` | the service's handler of `status_queue` |
| `JobLifecycle` | abstract: what a client expects of a row |
| `Pipeline` | `WorkerPool` and `StatusConsumer` joined by `status_queue` |
| `UploadIngest` | the service from `POST upload/url` to the transformation queue |
| `Notifications` | extends `StatusConsumer` with `PATCH upload/status`, Redis and the client's stream |
| `Accounts` | registration, login and guarded routes |
| `KeyNaming` | the names of a job's transformed file in three pieces of code |
| `MCWorkerPool`, `MCPipeline`, `MCAccounts` | routes, uploads and symmetry for TLC |
| `WorkerPoolProofs`, `StatusConsumerProofs`, `PipelineProofs`, `UploadIngestProofs`, `KeyNamingProofs`, `AccountsProofs`, `WorkQueueProofs`, `NotificationsProofs` | theorems about the module they are named for |

### WorkerPool and the code

A job is one `image_processing` row with its key, its local files and its queue.
`stage[w]` is where goroutine `w` is:

| Stage | Code |
|---|---|
| `connecting` | the outer loop of a consumer goroutine, `service.go:302-340` |
| `idle` | waiting for a delivery, `341` |
| `announce` | publish PROCESSING, `139-146` |
| `download` | the download and its retries, `148-172` |
| `transform` | `174-186` |
| `upload` | name, upload and retries, `188-237` |
| `fail`, `succeed` | the publish of FAILED or PROCESSED |
| `tidy` | `fireBackgroundCleanup`, `57-84` |
| `ack`, `drop`, `requeue` | `d.Ack`, `d.Nack(false,false)`, `d.Nack(false,true)`, `356-377` |

Each stage is an action of its own because other goroutines, cleanups, the broker
and crashes can act between two of them. Code between two such points is one
action. What each variable abstracts:

- **Messages.** `ready[j]` counts the messages of `j` that no goroutine has read.
  Deliveries the client library has prefetched are still in `ready`: the library
  gives them back when the channel closes, as it does with unread messages. The
  delivery a goroutine works on is `holding[w]`, and `owned[w]` says that its
  channel is still open. `LoseChannel` gives the message back and leaves the
  goroutine running. Its later ack fails, and `Start` ignores that.
- **Outcomes.** `outcomes` are the final statuses that have reached `status_queue`,
  and nothing else. The histories beside it say what else became of a job:
  `unheard`, a final status of it was swallowed; `aborted`, a fatal publish ended
  a run of it whose message does not come back; `stranded`, a crash ended a run
  whose message the broker had taken back already, so that the run is nobody's to
  repeat.
- **The status channel.** `Start` opens it when its loop reaches `status_queue`
  and nothing reopens it. `PublishToChannelHelper` knows three endings:
  `PublishOk`, `PublishSwallowed` (channel nil or closed, or an error
  `IsFatalError` does not know: logged, and the run goes on), `PublishFatal`
  (`ProcessMessage` returns at once, and `IsTransientError` of the same text
  picks the Nack). A closed channel answers `ErrClosed`, whose text is neither;
  only the publish under which the connection breaks can be fatal, and it may as
  well be swallowed: nothing waits for a confirm, so it may even return no error.
  Without `StatusFirst` a worker may publish before the channel is opened.
- **Files.** Four sets say which jobs have a raw object, a processed object, a
  raw and a processed local file. A broken copy may leave a file behind
  (`DownloadFails`, `TransformFails`), a failed presign leaves the object
  (`UploadFails`).
- **Names.** A CONVERT job's result is named by three pieces of code.
  `Misnamed` are the jobs whose upload looks for another name than transform
  wrote, `Unswept` those whose cleanup does. They are parameters of `WorkerPool`,
  and its theorems hold for every value of them; `convert_upload` computes them
  with `KeyNaming` from the types, formats and keys of its jobs, and in the other runs
  there are none.
- **Cleanups.** `cleanups[j][r]` counts goroutines with work `r` left. The modes
  `cleanup_all` and `remove_local_all_and_delete_s3` do the same three removals
  and log what fails, so after the start they share a name. A failed `os.Remove`
  leaves its file and the cleanup goes on (`Leaves`); `unremoved` remembers the
  file, and `MaxUnremoved` bounds how many there are. The S3 delete may fail
  silently.
- **Crash.** The process exits, the broker requeues, the container restarts on
  the same disk. A failed dial is a crash too: `NewChannel` dereferences the nil
  connection (`service.go:310-328`).

Left out: messages that do not decode, a missing exchange or binding (they are
durable), `ctx.Done` (`main` passes a context nobody cancels), pixel work (a
transformation succeeds or fails).

### StatusConsumer, Pipeline

`inbox` is `status_queue` in order, each message `queued`, `received` (handler
started, UPDATE not committed) or `written`. `main.ts` sets no prefetch, so a
handler starts for every delivery, whatever else is at work: any number of them
overlap, of one job or of several, and their UPDATEs commit in any order.
`EmitAndAck` is one action: after the awaited UPDATE the handler runs to its ack
without yielding. `publicUrl` and `errorMessage` are written by the same UPDATE as
the status and come from the message, so the row is its status.

`UpdateFails` is the query that throws: nothing is emitted and the message is
acknowledged all the same. The UPDATE may have committed (`commits`), as it may
have for PATCH; it has by then or it never will. When only the consumer's
channel is lost, the client library opens another and the broker delivers again,
while the handlers of the old channel go on: their messages move to the bag
`orphans`. An orphan writes and emits like any handler; its ack throws and is
logged (`status-event.controller.ts:35-45`), so it settles nothing.

The history `crossed` has the jobs one of whose handlers started while another of
the same job was at work, orphans included; `failed` the jobs an UPDATE of which
has failed. Properties that such a handler can break except these jobs by name,
and no others: handlers of other jobs overlap freely. `Pipeline` joins `PublishOk`
with `Enqueue`; every other step moves one side only.

### Notifications

One service process, as `docker-compose.yml` starts it, and one client that owns
all jobs. A PATCH goes through `stage`: `reading` (its `findFirst` is under way),
`checked` (found and another status: its UPDATE is under way), `written` (the
UPDATE has returned), `answered`. `asks` is what it asks for and `returned` the
reason in the row its UPDATE returned. `FindRow` and `RefusePatch` are the two
results of the comparison, `WritePatch` the unconditional UPDATE, `AnnouncePatch`
the two publishes, between which nothing but resolved promises is awaited.
`PatchFails` is a failed query, of the UPDATE also after it has committed.

Both publishes go to Redis: `UploadService` and `UploadController` inject the
same `PUB_SUB` client. The first carries the `errorMsg` of the query, the second
the row's `errorMessage` if the new status is FAILED (`Announces`). `redis` holds
them in order until `DeliverNotification` emits them in the process; the status
consumer emits there directly (`Told`). A consumer's UPDATE that commits before its
query fails writes the row and announces nothing (`ConsumerFails`); the announcement
that will never be made counts as missed. `Hear` is the stream: it passes on what is
emitted while it is open. Everything is at most once, so `LoseNotification`,
`BreakStream` and `ServiceCrash` lose what is under way. The histories `raced`,
`overlapped` and `missed` say what may excuse a wrong picture; `Due` says that an
announcement of a job is still to come.

A worker's messages arrive in any order and content (`Report`): the pool is not
part of this module.

### Accounts

`stage` follows the awaited calls of a request: `lookup`, `hash`, then `create` for
a registration and `count`, the awaited `updateRateLimits`, for a login, `respond`,
with `throw` for what `CatchEverythingFilter` has to answer; each query may fail and
be answered 500. Two registrations may both pass the lookup; `Taken` is the unique
index of `user.email`, and its error is no `HttpException`, hence a 500. `register` and
`login` inject the reply themselves (`@Res`), so a path without `send` or throw
would leave the request open. `cookies` are valid token cookies; `Guard` lets a
visit in with one, `Expire` ends it. Left out: passwords (every login gives the
account's), the `uploadLimit` check (nothing writes the field), and the value of
the login counter, which `updateRateLimits` writes back as it was read and nothing
reads.

### KeyNaming

A raw key is `raw/` and then segments between slashes, a segment a sequence of
parts between dots. `Written`, `Uploaded` and `Removed` are the names of
`TransformImage`, `ProcessMessage` and `RemoveLocalProcessed`; `SameFile`
compares them on a disk that tells upper from lower case or one that does not.

### UploadIngest

`request[j]` follows the awaited calls of `generatePresignedUrl`: create the row,
sign, store the key, answer. Any of them may fail, the last write also after it
has committed. A crash refuses every request in progress. A held URL may be used
`MaxPuts` times, and each use makes an event.
SNS posts an event until it sees a 200, also while an earlier post is still open.
`Deliver` starts the background handler in the step that receives the post, as
the controller does, and `AnswerWebhook` follows whatever the handler does.
`FindRow`, `MissRow` and `QueryFails` are the three ways its lookup ends, `Send`
and `SendFails` the two of the emit; the five-second `timeout` only logs, so a
late `Send` is possible. `Respelled` are jobs whose key S3 writes differently in
the event (URL encoding): the lookup uses the key as it comes and misses.
`hit` records the jobs a crash or a failed call has taken a handler from.
In `WorkerPool` a `Send` is `Submit`. The subscription handshake and the
validation of the body change no state and are left out.

## 3. The runs

| Run | Question | Bounds |
|---|---|---|
| `pool_redelivery` | `TypeOK`, `NoSilentLoss`, `InputOutlivesWork`, `ProcessedHasResult` under duplicates and every fault | 1 job, 2 workers, 2 copies, 2 tries, 1 of each fault |
| `pool_queue` | the pool implements `WorkQueue!FairSpec`, liveness included | 1 job, 2 workers, 1 copy, 2 tries, 1 of each fault, removals succeed |
| `pipeline_settles` | `RowHasResult`, `DoneRowsFinal`, `RowSettles` with runs and messages repeated | 1 job, 1 worker, 1 crash of each process |
| `pipeline_lifecycle` | `OneVerdict`, `SuccessLeavesNoFiles`, `ConsumerTypeOK`, `NotifiedMatchesRow`, rows implement `JobLifecycle`, for single deliveries | 1 job, 1 worker, 2 tries, a lost status channel, 2 failed removals, a crash, a lost channel and a failed UPDATE of the service, `status_queue` not first |
| `upload_ingest` | `EventFindsRow`, `UploadNotForgotten`, `UploadReachesQueue` | 2 jobs, one of them `Respelled`, 2 uploads, 3 posts, a crash, a failed call |
| `status_updates` | `OnlyOverlapsMislead`, `WorkersReasonMeansFailure`, `SameStatusOnlyByRace`, `ReasonReachesClient` | 1 job, 2 PATCH requests for UPLOADING or FAILED or an unknown id, 1 worker's message, any 1 fault |
| `accounts` | `TypeOK`, `OneWelcomePerAddress`, `WelcomedAreKnown`, `EveryRequestEnds` | 1 address, 2 registrations, 1 login, 1 visit, 2 failed queries, 1 crash |
| `pool_unheard` | finds: a job is acknowledged and no outcome of it reaches `status_queue` | 1 job, 1 worker, a lost status channel |
| `pool_fatal` | finds: a "fatal" failure does not stop the worker | 2 jobs, 1 worker, a lost status channel |
| `convert_upload` | finds: a CONVERT's upload does not find the file | 2 jobs, 1 worker, a case-sensitive disk |
| `pipeline_final_status` | finds: a final row goes back to PROCESSING after a crash | 1 job, 1 worker crash |
| `pipeline_overtaken` | finds: a final row goes back to PROCESSING by overtaking handlers | 1 job, no fault |

**Bounds.** `MaxTries` is 3 in the code and 1 or 2 here; with 2 a first, a middle
and a last failure, the reset between download and upload and the carry-over into
the next run all occur. `MaxCopies = 2` gives two runs of one job, side by side
on two workers or one after the other, which is where runs first disturb each
other; the proofs cover any number. One crash, one lost worker channel and one lost status
channel are combined freely; a repeated fault starts from a state one fault has
already reached, and the proofs hold for any number of each. Jobs interact only
through the workers and the status channel, so the passing runs of the pool have one
job. No bound limits the handlers of the consumer but the number of messages: the two
that a run publishes overlap, the worker's crash in `pipeline_settles` makes a second
run publish behind the first, and the crash and the lost channel of the service
deliver them again, so that handlers of several runs, and orphans, of one job meet.
In `status_updates` two PATCHes and one message are three writers of one row; a
fourth meets the row as the third did. `MaxFaults` caps the faults of all kinds
together: any one of them, at any point; the theorems of its three safety properties
hold for any number. `accounts` is about one address, because requests of different
addresses share nothing.
Workers are symmetric in `pool_redelivery`, where only state predicates are
checked; no run with a temporal property uses symmetry. Deadlock checking is off:
when all messages are settled and the bounds used up, the system rests.

**Fairness.** Weak fairness of `OpenStatusChannel` (`Start`'s loop does not block
before it) and of each worker's `Work(w)`: goroutines are scheduled, every S3
call has a timeout, retries are counted. No fault is fair, nor are
submissions and cleanups: nothing here waits for them. The consumer has weak
fairness of its handlers together: the event loop runs every continuation, and
an UPDATE either commits or fails. In `UploadIngest` SNS posts an event until it
sees a 200, and every query and publish ends; requests and clients may stop
anywhere, and `Crash` may strike at any time. The bound of three posts is one more than the
uploads, so each upload is posted and one of them repeated. In `Notifications`
only the steps of PATCH handlers and Redis deliveries are fair, together: queries
end, continuations run, and what is not lost arrives. No worker need report, no
client need connect. In `Accounts` each request's handler is fair, since every
query and hash ends; clients need not ask, and crashes and expiry are not fair.

**What the properties except.** Some promises are not kept by the program when
certain things happen. The properties name these things, job by job, and the
models reach them; a violation run shows what happens then where something in the
repository says otherwise.

- `crossed` (`NotifiedMatchesRow`, `FinalStatusStable`, `ImplementsLifecycle`,
  `DoneRowsFinal`, `RowSettles`): overlapping handlers of a job may commit in the
  wrong order and leave its row at PROCESSING for good (`pipeline_overtaken`). As
  far as the code goes that needs no fault, only two messages of a job close
  together. Its row goes wrong alone: `ImplementsLifecycle` takes such a job out of
  the lifecycle from that step on, and still follows it until then.
- `failed` (`NotifiedMatchesRow`, `DoneRowsFinal`, `RowSettles`): a failed UPDATE is
  acknowledged and not repeated, whether it has committed or not.
- `unheard`, `aborted` (`NoSilentLoss`, `InputOutlivesWork`, `DoneRowsFinal`,
  `RowSettles`): the status channel swallowed the outcome or ended the run, which the
  two properties of the pool admit only if the channel was lost or, with other queues
  first, not yet open. `SettledIsAnnounced` does not admit it, and `pool_unheard`
  violates it.
- `stranded` (`DoneRowsFinal`, `RowSettles`): a run goes on after its channel was
  lost, the repeated run has finished, and then a crash ends the first between its
  PROCESSING and its outcome. It takes a lost worker channel and a crash of the worker
  in one behaviour, of which `pipeline_settles` has the crash; the theorem
  `NoRowHalfWay` covers both together.
- `unremoved` (`SuccessLeavesNoFiles`): exactly the file whose removal failed.

`OneVerdict`, `SuccessLeavesNoFiles`, `FinalStatusStable` and `ImplementsLifecycle`
are moreover for single deliveries, that is one message, no lost worker channel and
no worker crash; `pipeline_final_status` shows what a crash does. These are limits
of the program, not only of the runs.

## 4. Findings

1. `rabbitmq.go:56` calls some failures those "that should stop the worker". The
   worker drops the message and takes the next, on a status channel nobody
   reopens (`pool_fatal`).
2. `transform.go:103` speaks of one path "where it saves the image and from where
   images can be uploaded". `TransformImage` writes a CONVERT result with the
   format in lower case, `ProcessMessage` looks for it as given, and the DTO lets
   only upper-case formats through. On the worker image's case-sensitive disk no
   CONVERT job succeeds (`convert_upload`; proved, section 5).
3. The outcome is published before the ack. A crash between them repeats the
   job, after a cleanup that may have removed its input, and the row of a job
   the client has seen finished goes back to PROCESSING (`pipeline_final_status`).
4. The status channel is opened once. When it is lost, `PublishToChannelHelper`
   logs what it could not publish and the run goes on to its ack: the job is
   done and its row never learns of it, while the load test waits for an outcome
   of every job (`pool_unheard`).
5. `main.ts` sets no prefetch and `handleStatus` awaits an unconditional UPDATE. The
   handler of PROCESSING, delivered first, may write last: without any fault
   a final row, which the load test takes for the last word, goes back to PROCESSING
   and stays there (`pipeline_overtaken`).

## 5. What is proved

`WorkerPoolProofs`, for all finite sets of jobs and workers, all routes, all
`Misnamed` and `Unswept`, and all bounds, from `SetsAssumption` and
`BoundsAssumption`:

- `TypeCorrect`: `Spec => []TypeOK`;
- `Invariance`: `Spec => []IInv`, and from it
- `NeverSilentlyLost`, `InputKeptUntilReported`, `ResultBehindEveryProcessed`:
  the three safety properties of `pool_redelivery`.

`NeverSilentlyLost` says that a job without an outcome on `status_queue` is still on
the queue or at a worker, unless the status channel swallowed its outcome or ended its
run; `InputKeptUntilReported` that the raw object goes only with an outcome on
`status_queue` or swallowed. Both admit the status channel as the cause only if it was
lost, or not yet open while other queues come first.

The three properties are not inductive. `ProcessedHasResult` needs to know that
a worker about to say PROCESSED has uploaded; `InputOutlivesWork` that a running
cleanup belongs to a job whose outcome was published or swallowed (`Reported`);
`NoSilentLoss` that a worker about to ack or drop has such a job or has given it up.
`StageFacts` and `CleanupFacts` say these things. `ChannelFacts` is why only a loss of
the status channel swallows an outcome: nothing else closes it, and with `StatusFirst`
no worker connects before it is open. `IInv` is the conjunction of these facts with
`TypeOK` and the three properties without the channel's part. The proof
goes one property at a time, each step by the actions that can disturb it;
`OwnersCounted` carries the one fact about cardinalities (requeueing on a crash
gives back at least one message of each job a worker owned).

`UploadIngestProofs`, for all jobs and bounds, from `IngestAssumption`:
`EventsBehindRows`, that is `Spec => []EventFindsRow`. It needs `Behind`: who
holds a URL has a keyed row, only who holds a URL uploads, only uploads make
events. `TypeOK` of that module is proved with it. `NoUploadForgotten`, that is
`Spec => []UploadNotForgotten`, is the safety behind `UploadReachesQueue`. Its
invariant adds `AnsweredIsTaken`: a post still open has started a handler since the
last crash, so the 200 that takes an event from SNS never takes the only trace of an
upload. `TakenStays` needs `EventFindsRow`: else `MissRow` would drop the job.

Two theorems of `WorkerPoolProofs` are about single deliveries. They assume
`SingleDelivery`: one message per job, no crash of the worker process, no lost
worker channel. Failures, retries, a lost status channel and the requeue after a
fatal publish stay possible.

- `OneVerdictPerJob`: `Spec => []OneVerdict`. `SInv` says that what is on the queue
  or at a worker was submitted (`HeldSubmitted`), that a job has at most one message,
  on the queue or at one worker (`SingleRuns`), and that the run which published an
  outcome is past its publishes and will not requeue (`Decided`).
- `SuccessLeavesNothing`: `Spec => []SuccessLeavesNoFiles`, if `Unswept` is a subset of
  `Misnamed`. While a file of a PROCESSED job is there, the cleanup that will try to
  remove it is about to start or has the removal before it, or that removal has
  failed (`Swept`). So a file that stays is one that its own removal left: a failure of
  one removal never keeps another from being tried.
  `UnsweptAreMisnamed` of `KeyNamingProofs` shows the premise for the worker image's
  disk, if no filename of another job than a CONVERT has a slash. On a disk that
  ignores case the premise fails for a CONVERT to another extension: its upload finds
  the file, and `RemoveLocalProcessed`, which derives the name from the raw key
  (`cleanup.go:33`), does not remove it.

`MisnamedNeverProcessed`, also of `WorkerPoolProofs`: a job in `Misnamed` is never
reported PROCESSED, since only readable files reach S3 and PROCESSED has its
object.

`KeyNamingProofs`, for all jobs a DTO and a transformation let through:
`UploadMissesEveryConvert` (on a case-sensitive disk `NotFound` is exactly the set
of CONVERT jobs), `OthersFoundAndRemoved` and `UnsweptAreMisnamed`. With `Misnamed` taken from
`NotFound`, `MisnamedNeverProcessed` says that no CONVERT job succeeds there.

`PipelineProofs`, for every number of jobs, workers, handlers and faults. Each step
of the pipeline is a step of the pool or leaves it alone (`PoolStep`), so the pipeline
is a pool (`PoolWithinPipeline`) and `IInv` holds in it; then

- `RowsHaveResults`: `PipelineSpec => []RowHasResult`. The invariant `RInv` follows
  PROCESSED from the pool to the row: every message in the queue, with a handler
  or with an orphan is `Backed` by its object, and objects stay (`ResultsStay`).
- `NotificationsFollowRows`: `PipelineSpec => []NotifiedMatchesRow`, with no further
  assumption. `HInv` says, of each job not in `crossed`, that at most one handler
  of it is at work (`OneAtATime`) and that a written message agrees with its row
  (`WrittenIsRow`). So a message that leaves the queue without a failure leaves row and
  notification alike (`LeavesSettled`), and without a message nothing happens to
  either (`NothingHappens`).
- `NoRowHalfWay`: `PipelineSpec => []DoneRowsFinal`, again with no further assumption:
  repeated deliveries, crashes and losses of both processes, in any number. Of each
  submitted job not in `Failed`, `DInv` says that it is `Underway`, that is on the queue
  or with a run that will say more or be repeated, or `Concluded`: the last of its
  messages in `status_queue` is an outcome, and if there is none its row is final. What
  makes it hold is that both programs acknowledge last: a run publishes its outcome
  before its Ack, and a message leaves `status_queue` after its UPDATE.
- `RowsFollowLifecycle`: `PipelineSpec => Lifecycle!Spec` if `SingleDelivery`;
  handlers overlap as they like, the service may crash or lose its channel, updates may
  fail, the status channel may be lost. A job is followed until two handlers of it
  overlap. The row alone does not say why a late PROCESSING cannot follow an outcome.
  `Ordered` does, for each job not in `crossed`: on the queue PROCESSING comes
  before its outcome, once each, and what is left of a job with a final row repeats
  that row. A crash or a lost channel requeues a written message, so it may be written
  again, never another. To keep `Ordered` when the pool publishes, `Untouched` says that a
  job about to be announced has neither a row nor a message yet; only a broken status
  channel requeues a job, and then nothing more is published.
- `FinalRowsStay`: `PipelineSpec => FinalStatusStable` under the same assumption.
  `pipeline_final_status` drops `SingleDelivery` and `pipeline_overtaken` the exception
  of `crossed` jobs, and in both a final row changes.
- `ConsumerTypeCorrect`: `PipelineSpec => []ConsumerTypeOK`, from the lemmas of
  `StatusConsumerProofs` about queues, bags and their cardinalities. Beyond types it
  says that only handlers at work outlive a channel, and that no client is told of a
  job whose row is PENDING, also after a failed UPDATE or a lost channel.

`WorkQueueProofs`, for the same constants as `WorkerPoolProofs`: `PoolIsWorkQueue`,
that is `Spec => Queue!Spec`. Every step of the pool is a step of the abstract queue
or a stutter (`QueueStep`). It rests on `IInv` and on `HeldSubmitted` of
`WorkerPoolProofs`, by which `NoSilentLoss` gives a job that a publish
accounts for an unsettled message. Its lemmas count the owners of a job when a
delivery is received, settled, given back or requeued by a crash.

`NotificationsProofs`, from `NotificationBounds`, for every number of requests,
handlers and faults and every set of statuses PATCH accepts:

- `WorkersReasonFounded`: `Spec => []WorkersReasonMeansFailure`. `ReasonFacts`
  follows a worker's reason from the message to the row, to the row a PATCH's UPDATE
  returns, through Redis and to the stream; `MessageFacts` says that behind a written
  FAILED, an orphan's too, stands a failure.
- `SameStatusRaces`: `Spec => SameStatusOnlyByRace`. `RaceFacts` says that the row
  differs from what a checked request asks for until somebody writes it.
- `OverlapsAloneMislead`: `Spec => []OnlyOverlapsMislead`. The invariant `Follows`
  collects the announcements still due of a job, at the handlers, with orphans, at
  the PATCH requests and in Redis. A job whose announcement was dropped, or never made
  because the UPDATE committed and its query failed, is missed. Of the others: if no
  writer came while one was due, they all say
  what the row says, and when there is none the last one told did. It needs no
  order among them, since a second writer makes the job overlapped. Each action
  then adds one announcement (`WritingFollows`), moves one, or tells one
  (`TellingFollows`).

`AccountsProofs`, from `AccountsAssumption`: `TypeCorrect`, `OneWelcome` and
`WelcomedKnown`. `WelcomeFacts` says that a registration about to answer 201 has
its row and is the only one for its address, and that every login past its
lookup, at `hash` or at `count`, every cookie and every address welcomed before a
login has a row.

Model-checked only: liveness, that is `RowSettles`, `UploadReachesQueue`,
`EveryRequestEnds`, `ReasonReachesClient` and the fairness part of
`ImplementsWorkQueue`. `NoRowHalfWay` is the safety behind `RowSettles`. The safety invariants and action
properties of the passing runs, and the safety part of both refinements, are theorems.

## 6. Not modelled, and the plan

- Several instances of the service. `Readme.md:72` wants Redis for updates across
  the system, but the status consumer emits only in its own process: with two
  instances a client hears the worker's statuses only if its stream is at the
  instance that took the message. `docker-compose.yml` starts one.
- The cron sweep: `crons.service.ts` registers no job.
- `PubsubService.emit`: nothing calls it. `PrismaService`, `app.module.ts`,
  `rabbitmq.module.ts` and the configuration hold no state of their own.
- Image libraries, password checks, the load-test client.
- Liveness and `ENABLED` are out of the prover's reach and stay with TLC.

Left of the plan: nothing of its modules and properties. What could be added is an
abstract specification for `UploadIngest` (each upload becomes at least one message),
of which `UploadNotForgotten` is the invariant.
