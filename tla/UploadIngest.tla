---------------------------- MODULE UploadIngest ----------------------------
(***************************************************************************)
(* The service in front of the transformation queues: it hands out a       *)
(* presigned URL, the client puts the object into S3, S3 tells SNS, SNS    *)
(* posts to the webhook, and a background handler looks the row up by its  *)
(* key and puts the job on its queue.                                      *)
(*                                                                         *)
(* A job is one POST upload/url with the row and the key made for it.      *)
(***************************************************************************)
EXTENDS JobStatus, Naturals

CONSTANTS
  Respelled,      \* jobs whose key an S3 event spells otherwise than the row (URL encoding)
  MaxPuts,        \* bound: uploads with one URL
  MaxDeliveries,  \* bound: posts of SNS per job
  MaxCrashes,     \* bound: exits of the service process
  MaxFailures     \* bound: failed database, signing and broker calls

ASSUME IngestAssumption ==
  /\ Respelled \subseteq Jobs
  /\ MaxPuts \in Nat /\ MaxDeliveries \in Nat
  /\ MaxCrashes \in Nat /\ MaxFailures \in Nat

VARIABLES
  request,     \* where generatePresignedUrl is, per job
  keyed,       \* jobs whose row holds its s3RawKey
  puts,        \* uploads per job
  events,      \* S3 events SNS has not seen answered with 200, per job
  posts,       \* webhook requests not answered yet, per job
  looking,     \* background handlers awaiting the row, per job
  emitting,    \* messages handed to the RabbitMQ client and not yet sent, per job
  enqueued,    \* messages on the job's queue
  deliveries,  \* posts of SNS so far, per job
  crashes, failures,  \* faults so far
  hit          \* history: jobs whose handling a crash or a failed call ended

requestVars == <<request, keyed>>
eventVars   == <<puts, events, posts, deliveries>>
handlerVars == <<looking, emitting, enqueued>>
faultVars   == <<crashes, failures, hit>>
vars == <<requestVars, eventVars, handlerVars, faultVars>>

\* The awaited calls of generatePresignedUrl in their order; the client holds
\* the URL after the last (mutant: the key is not stored).
StepAfterUnstored == [creating |-> "signing", signing |-> "answering",
                      storing |-> "answering", answering |-> "held"]
StepAfter == [creating |-> "signing", signing |-> "storing",
              storing |-> "answering", answering |-> "held"]
Steps == DOMAIN StepAfter

Zero == [j \in Jobs |-> 0]
Inc(f, j) == [f EXCEPT ![j] = @ + 1]
Dec(f, j) == [f EXCEPT ![j] = @ - 1]

Init ==
  /\ request = [j \in Jobs |-> "none"] /\ keyed = {}
  /\ puts = Zero /\ events = Zero /\ posts = Zero /\ deliveries = Zero
  /\ looking = Zero /\ emitting = Zero /\ enqueued = Zero
  /\ crashes = 0 /\ failures = 0 /\ hit = {}

-----------------------------------------------------------------------------
(* POST upload/url.                                                        *)

PostUrl(j) ==
  /\ request[j] = "none"
  /\ request' = [request EXCEPT ![j] = "creating"]
  /\ UNCHANGED <<keyed, eventVars, handlerVars, faultVars>>

\* The call the request waits for succeeds: the row is created, the URL signed,
\* the key stored in the row, the URL sent.
RequestStep(j) ==
  /\ request[j] \in Steps
  /\ request' = [request EXCEPT ![j] = StepAfter[@]]
  /\ keyed' = IF request[j] = "storing" THEN keyed \cup {j} ELSE keyed
  /\ UNCHANGED <<eventVars, handlerVars, faultVars>>

\* It throws, or its answer is lost after the database has committed: the client
\* is told of an error and the row stays as it is.
RequestFails(j) ==
  /\ request[j] \in Steps \ {"answering"} /\ failures < MaxFailures
  /\ request' = [request EXCEPT ![j] = "refused"]
  /\ keyed' \in {keyed} \cup {keyed \cup {k \in {j} : request[k] = "storing"}}
  /\ failures' = failures + 1
  /\ UNCHANGED <<eventVars, handlerVars, crashes, hit>>

-----------------------------------------------------------------------------
(* The client, S3 and SNS.                                                 *)

\* The URL stays valid for EXPIRES_IN seconds, for as many uploads as it is
\* used for; each makes an event.
Put(j) ==
  /\ request[j] = "held" /\ puts[j] < MaxPuts
  /\ puts' = Inc(puts, j)
  /\ events' = Inc(events, j)
  /\ UNCHANGED <<requestVars, posts, deliveries, handlerVars, faultVars>>

\* Mutant: the event's name is not the one the webhook looks for.
DeliverUnhandled(j) ==
  /\ events[j] > 0 /\ deliveries[j] < MaxDeliveries
  /\ deliveries' = Inc(deliveries, j)
  /\ posts' = Inc(posts, j)
  /\ UNCHANGED <<requestVars, puts, events, handlerVars, faultVars>>

\* SNS posts an event, for the first time or because it has seen no 200, and
\* uploadSuccessWebHook starts the background handler.
Deliver(j) ==
  /\ events[j] > 0 /\ deliveries[j] < MaxDeliveries
  /\ deliveries' = Inc(deliveries, j)
  /\ posts' = Inc(posts, j)
  /\ looking' = Inc(looking, j)
  /\ UNCHANGED <<requestVars, puts, events, emitting, enqueued, faultVars>>

\* The webhook answers 200 whatever becomes of its handler, and SNS sees the
\* answer or has stopped waiting for it.
AnswerWebhook(j) ==
  /\ posts[j] > 0
  /\ posts' = Dec(posts, j)
  /\ events' \in {events} \cup {Dec(events, k) : k \in {i \in {j} : events[i] > 0}}
  /\ UNCHANGED <<requestVars, puts, deliveries, handlerVars, faultVars>>

-----------------------------------------------------------------------------
(* handleS3UploadSuccessEvent.                                             *)

\* getTransformation finds a row under the key of the event.
Found(j) == j \in keyed \ Respelled

\* The row is there: its transformation type names the queue to emit to.
FindRow(j) ==
  /\ looking[j] > 0 /\ Found(j)
  /\ looking' = Dec(looking, j)
  /\ emitting' = Inc(emitting, j)
  /\ UNCHANGED <<requestVars, eventVars, enqueued, faultVars>>

\* No row: transformationType is undefined, the default branch throws, the
\* webhook logs it.
MissRow(j) ==
  /\ looking[j] > 0 /\ ~ Found(j)
  /\ looking' = Dec(looking, j)
  /\ UNCHANGED <<requestVars, eventVars, emitting, enqueued, faultVars>>

\* The query fails, and is logged.
QueryFails(j) ==
  /\ looking[j] > 0 /\ failures < MaxFailures
  /\ looking' = Dec(looking, j)
  /\ failures' = failures + 1 /\ hit' = hit \cup {j}
  /\ UNCHANGED <<requestVars, eventVars, emitting, enqueued, crashes>>

\* The RabbitMQ client sends the message, within the five seconds emit waits
\* for it or later.
Send(j) ==
  /\ emitting[j] > 0
  /\ emitting' = Dec(emitting, j)
  /\ enqueued' = Inc(enqueued, j)
  /\ UNCHANGED <<requestVars, eventVars, looking, faultVars>>

\* It cannot, and the subscriber of emit logs the error.
SendFails(j) ==
  /\ emitting[j] > 0 /\ failures < MaxFailures
  /\ emitting' = Dec(emitting, j)
  /\ failures' = failures + 1 /\ hit' = hit \cup {j}
  /\ UNCHANGED <<requestVars, eventVars, looking, enqueued, crashes>>

\* The service exits: requests, handlers and unsent messages are gone, rows,
\* events and queues stay.
Crash ==
  /\ crashes < MaxCrashes
  /\ crashes' = crashes + 1
  /\ request' = [j \in Jobs |-> IF request[j] \in Steps THEN "refused" ELSE request[j]]
  /\ posts' = Zero /\ looking' = Zero /\ emitting' = Zero
  /\ hit' = hit \cup {j \in Jobs : looking[j] + emitting[j] > 0}
  /\ UNCHANGED <<keyed, puts, events, deliveries, enqueued, failures>>

-----------------------------------------------------------------------------
Handle(j) == FindRow(j) \/ MissRow(j) \/ QueryFails(j)

Next ==
  \/ \E j \in Jobs :
       \/ PostUrl(j) \/ RequestStep(j) \/ RequestFails(j)
       \/ Put(j) \/ Deliver(j) \/ AnswerWebhook(j)
       \/ Handle(j) \/ Send(j) \/ SendFails(j)
  \/ Crash

Spec == Init /\ [][Next]_vars

\* SNS posts an event until it sees a 200; the event loop runs the handlers on
\* and every query and publish ends.
Fairness == \A j \in Jobs :
  WF_vars(Deliver(j)) /\ WF_vars(Handle(j)) /\ WF_vars(Send(j) \/ SendFails(j))

FairSpec == Spec /\ Fairness

-----------------------------------------------------------------------------
(* Properties.                                                             *)

\* Every variable keeps its type.
TypeOK ==
  /\ request \in [Jobs -> Steps \cup {"none", "held", "refused"}]
  /\ keyed \subseteq Jobs
  /\ puts \in [Jobs -> 0 .. MaxPuts]
  /\ deliveries \in [Jobs -> 0 .. MaxDeliveries]
  /\ \A f \in {events, posts, looking, emitting, enqueued} : f \in [Jobs -> Nat]
  /\ crashes \in 0 .. MaxCrashes /\ failures \in 0 .. MaxFailures
  /\ hit \subseteq Jobs

\* An event never comes before the row it is about can be found: whenever the
\* webhook works on an event of a job, its row holds the key, whatever crashed
\* or was repeated on the way (generatePresignedUrl stores the key before it
\* answers).
EventFindsRow == \A j \in Jobs : looking[j] > 0 => j \in keyed

\* An upload is never forgotten: its job is on the queue or was, a handler works
\* on it, or SNS still has an event to post, unless a crash or a failed call ended
\* a handler of the job, or S3 spells its key in another way than the row.
\* uploadSuccessWebHook answers 200 before its handler is done, and may answer for
\* a post whose event is still pending.
UploadNotForgotten ==
  \A j \in Jobs \ Respelled : puts[j] > 0 =>
    events[j] + looking[j] + emitting[j] + enqueued[j] > 0 \/ j \in hit

\* Every upload gets its job onto the queue, unless a crash or a failed call
\* ended a handler of the job, or S3 spells its key in another way than the row
\* (uploadSuccessWebHook and handleS3UploadSuccessEvent).
UploadReachesQueue ==
  \A j \in Jobs \ Respelled : puts[j] > 0 ~> enqueued[j] > 0 \/ j \in hit
=============================================================================
