---------------------------- MODULE Notifications ----------------------------
(***************************************************************************)
(* What a client hears of its jobs.  Two writers change a row and announce *)
(* it: the status consumer, on the process's own event emitter, and PATCH  *)
(* upload/status, which publishes to Redis; PubsubService emits what comes *)
(* back from Redis.  An SSE stream passes on every emitted notification    *)
(* and keeps none for a client that is not connected.                      *)
(*                                                                         *)
(* One service process, as docker-compose.yml starts it, and one client    *)
(* that owns all jobs.  PATCH names its notification after its own status; *)
(* the reason (errorMsg) is that of the query in the one UploadService     *)
(* publishes, and the row's errorMessage in the one UploadController does. *)
(***************************************************************************)
EXTENDS StatusConsumer

CONSTANTS
  Patches,        \* PATCH requests
  PatchStatuses,  \* the statuses they ask for
  NoJob,          \* an id no row has
  NoPatch,        \* no request
  MaxReports,     \* bound: messages the workers put on status_queue
  MaxFaults       \* bound: faults of all kinds together

ASSUME NotificationBounds ==
  /\ NoJob \notin Jobs /\ NoPatch \notin Patches
  /\ MaxReports \in Nat /\ MaxFaults \in Nat

VARIABLES
  stage,       \* where each PATCH request is
  asks,        \* what it asks for: a job (or NoJob) and a status
  stored,      \* the reason in each job's row: none, or a worker's
  returned,    \* the reason in the row a PATCH's UPDATE returned
  redis,       \* notifications on their way through Redis, in order
  connected,   \* the client's SSE stream is open
  heard,       \* notifications the client has received
  reports, drops,   \* reports, and losses by Redis or of the stream, so far
  failures,    \* history: jobs a worker's FAILED was written for
  raced,       \* history: PATCHes between whose read and write the row was written
  overlapped,  \* history: jobs written while an announcement of them was due
  missed       \* history: jobs with an announcement that was dropped or never made

patchVars == <<stage, asks, returned>>
clientVars == <<connected, heard>>
historyVars == <<failures, raced, overlapped, missed>>
countVars == <<reports, drops>>
notifyVars == <<patchVars, stored, redis, clientVars, historyVars, countVars>>
allVars == <<consumerVars, notifyVars>>

Reasons == {"none", "query", "worker"}
Notification == [job : Jobs, status : Statuses \cup PatchStatuses, reason : Reasons]
Stages == {"idle", "reading", "checked", "written", "answered"}
NoAsk == [job |-> NoJob, status |-> "PENDING"]

Init ==
  /\ ConsumerInit
  /\ stage = [p \in Patches |-> "idle"]
  /\ asks = [p \in Patches |-> NoAsk]
  /\ stored = [j \in Jobs |-> "none"]
  /\ returned = [p \in Patches |-> "none"]
  /\ redis = <<>>
  /\ connected = FALSE /\ heard = {}
  /\ reports = 0 /\ drops = 0
  /\ failures = {} /\ raced = {} /\ overlapped = {} /\ missed = {}

FaultLeft == consumerCrashes + consumerLosses + dbFailures + drops < MaxFaults

Moves(p, from, to) == stage[p] = from /\ stage' = [stage EXCEPT ![p] = to]

\* The request is answered, and what its handler knew is gone.
Ends(p, from) ==
  /\ Moves(p, from, "answered")
  /\ asks' = [asks EXCEPT ![p] = NoAsk]
  /\ returned' = [returned EXCEPT ![p] = "none"]

-----------------------------------------------------------------------------
(* Announcements and writes, whoever makes them.                           *)

\* An announcement of job j is still to come.
Due(j) ==
  \/ \E i \in DOMAIN inbox : inbox[i].job = j /\ inbox[i].phase = "written"
  \/ \E m \in BagToSet(orphans) : m.job = j /\ m.phase = "written"
  \/ \E p \in Patches : asks[p].job = j /\ stage[p] = "written"
  \/ \E k \in DOMAIN redis : redis[k].job = j

\* The history of a write of job j by the request p or by the consumer (NoPatch).
Between(j) == {p \in Patches : stage[p] = "checked" /\ asks[p].job = j}
Remember(j, p) ==
  /\ raced' = (raced \cup Between(j)) \ {p}
  /\ overlapped' = IF Due(j) THEN overlapped \cup {j} ELSE overlapped

\* The emitter calls the listener of an open stream, and nobody else.
Hear(n) ==
  /\ heard' = IF connected THEN heard \cup {n} ELSE heard
  /\ missed' = IF connected THEN missed ELSE missed \cup {n.job}
  /\ UNCHANGED <<connected, failures, raced, overlapped>>

-----------------------------------------------------------------------------
(* The status consumer.                                                    *)

Report(j, s) ==
  /\ reports < MaxReports
  /\ reports' = reports + 1
  /\ Enqueue(j, s)
  /\ UNCHANGED <<patchVars, stored, redis, clientVars, historyVars, drops>>

\* errorMessage is written with every status: the worker's for FAILED, else null.
ReasonOf(s) == IF s = "FAILED" THEN "worker" ELSE "none"
Store(m) ==
  /\ stored' = [stored EXCEPT ![m.job] = ReasonOf(m.status)]
  /\ failures' = IF m.status = "FAILED" THEN failures \cup {m.job} ELSE failures
  /\ Remember(m.job, NoPatch)
  /\ UNCHANGED <<patchVars, redis, clientVars, countVars>>

ConsumerWrites ==
  /\ \/ \E i \in DOMAIN inbox : UpdateRow(i) /\ Store(inbox[i])
     \/ \E m \in BagToSet(orphans) : OrphanUpdatesRow(m) /\ Store(m)
  /\ UNCHANGED missed

\* A failed UPDATE is announced to nobody, whether it has committed or not.
Unannounced(m, commits) ==
  IF commits THEN Store(m) /\ missed' = missed \cup {m.job} ELSE UNCHANGED notifyVars

ConsumerFails ==
  /\ FaultLeft
  /\ \E commits \in BOOLEAN :
       \/ \E i \in DOMAIN inbox : UpdateFails(i, commits) /\ Unannounced(inbox[i], commits)
       \/ \E m \in BagToSet(orphans) : OrphanUpdateFails(m, commits) /\ Unannounced(m, commits)

Told(m) ==
  /\ Hear([job |-> m.job, status |-> m.status, reason |-> ReasonOf(m.status)])
  /\ UNCHANGED <<patchVars, stored, redis, countVars>>

ConsumerTells ==
  \/ \E i \in DOMAIN inbox : EmitAndAck(i) /\ Told(inbox[i])
  \/ \E m \in BagToSet(orphans) : OrphanEmits(m) /\ Told(m)

ConsumerQuiet ==
  /\ \/ \E i \in DOMAIN inbox : HandleStatus(i)
     \/ FaultLeft /\ LoseConsumerChannel
  /\ UNCHANGED notifyVars

-----------------------------------------------------------------------------
(* PATCH upload/status.                                                    *)

RequestPatch(p) ==
  /\ Moves(p, "idle", "reading")
  /\ \E j \in Jobs \cup {NoJob}, s \in PatchStatuses :
       asks' = [asks EXCEPT ![p] = [job |-> j, status |-> s]]
  /\ UNCHANGED <<consumerVars, stored, returned, redis, clientVars, historyVars,
                 countVars>>

\* Whether updateImageProcessingStatus refuses what p asks of the row it found
\* (mutant: only an unknown id).
RefusesUnknown(p) == asks[p].job \notin Jobs
Refuses(p) == asks[p].job \in Jobs => row[asks[p].job] = asks[p].status

FindRow(p) ==
  /\ Moves(p, "reading", "checked") /\ ~ Refuses(p)
  /\ UNCHANGED <<consumerVars, asks, returned, stored, redis, clientVars, historyVars,
                 countVars>>

\* The 400 of an unknown id or of the same status again.
RefusePatch(p) ==
  /\ Ends(p, "reading") /\ Refuses(p)
  /\ UNCHANGED <<consumerVars, stored, redis, clientVars, historyVars, countVars>>

\* The UPDATE sets the status only, whatever the row says by now.
PatchRow(p) == row' = [row EXCEPT ![asks[p].job] = asks[p].status] /\ Remember(asks[p].job, p)

\* It returns the row.
WritePatch(p) ==
  /\ Moves(p, "checked", "written")
  /\ PatchRow(p)
  /\ returned' = [returned EXCEPT ![p] = stored[asks[p].job]]
  /\ UNCHANGED <<inbox, orphans, notified, consumerHistory, consumerFaults, asks, stored,
                 redis, clientVars, failures, missed, countVars>>

\* A query fails and the client gets a 500; the UPDATE may have committed.
PatchFails(p) ==
  /\ FaultLeft /\ dbFailures < MaxDbFailures
  /\ dbFailures' = dbFailures + 1
  /\ \/ Ends(p, "reading") /\ UNCHANGED <<row, raced, overlapped, missed>>
     \/ Ends(p, "checked") /\ raced' = raced \ {p} /\ UNCHANGED <<row, overlapped, missed>>
     \/ Ends(p, "checked") /\ PatchRow(p) /\ missed' = missed \cup {asks[p].job}
  /\ UNCHANGED <<inbox, orphans, notified, consumerHistory, consumerCrashes,
                 consumerLosses, stored, redis, clientVars, failures, countVars>>

Says(p, r) == [job |-> asks[p].job, status |-> asks[p].status, reason |-> r]

\* The reason UploadController sends (mutant: of any status), and what the two
\* publishes send for p (mutant: the controller's only).
ControllersReasonUnchecked(p) == returned[p]
ControllersReason(p) == IF asks[p].status = "FAILED" THEN returned[p] ELSE "none"
AnnouncesOnce(p) == <<Says(p, ControllersReason(p))>>
Announces(p) == <<Says(p, "query"), Says(p, ControllersReason(p))>>

\* UploadService publishes, UploadController publishes and answers 200, with
\* nothing but resolved promises in between.
AnnouncePatch(p) ==
  /\ Ends(p, "written")
  /\ redis' = redis \o Announces(p)
  /\ UNCHANGED <<consumerVars, stored, clientVars, historyVars, countVars>>

-----------------------------------------------------------------------------
(* Redis and the stream.                                                   *)

\* The subscriber's message listener emits what arrives.
DeliverNotification ==
  /\ redis # <<>>
  /\ redis' = Tail(redis)
  /\ notified' = [notified EXCEPT ![Head(redis).job] = Head(redis).status]
  /\ Hear(Head(redis))
  /\ UNCHANGED <<inbox, orphans, row, consumerHistory, consumerFaults, patchVars, stored,
                 countVars>>

\* Redis is away when a notification is published or due: nobody repeats it.
LoseNotification ==
  /\ redis # <<>> /\ FaultLeft
  /\ drops' = drops + 1
  /\ redis' = Tail(redis)
  /\ missed' = missed \cup {Head(redis).job}
  /\ UNCHANGED <<consumerVars, patchVars, stored, clientVars, failures, raced, overlapped,
                 reports>>

OpenStream ==
  /\ ~ connected
  /\ connected' = TRUE
  /\ UNCHANGED <<consumerVars, patchVars, stored, redis, heard, historyVars, countVars>>

BreakStream ==
  /\ connected /\ FaultLeft
  /\ connected' = FALSE /\ drops' = drops + 1
  /\ UNCHANGED <<consumerVars, patchVars, stored, redis, heard, historyVars, reports>>

\* The service exits: requests, streams and its subscription go, the broker
\* requeues.
ServiceCrash ==
  /\ FaultLeft /\ consumerCrashes < MaxConsumerCrashes
  /\ consumerCrashes' = consumerCrashes + 1
  /\ RequeueInbox /\ orphans' = EmptyBag
  /\ stage' = [p \in Patches |-> IF stage[p] = "idle" THEN "idle" ELSE "answered"]
  /\ asks' = [p \in Patches |-> NoAsk]
  /\ returned' = [p \in Patches |-> "none"]
  /\ raced' = {}
  /\ redis' = <<>>
  /\ connected' = FALSE
  /\ missed' = missed \cup {j \in Jobs : Due(j)}
  /\ UNCHANGED <<row, notified, consumerHistory, consumerLosses, dbFailures, stored,
                 heard, failures, overlapped, countVars>>

-----------------------------------------------------------------------------
Patch(p) == FindRow(p) \/ RefusePatch(p) \/ WritePatch(p) \/ AnnouncePatch(p)

Next ==
  \/ \E j \in Jobs, s \in Statuses : Report(j, s)
  \/ ConsumerWrites
  \/ ConsumerTells
  \/ ConsumerFails
  \/ ConsumerQuiet
  \/ \E p \in Patches : RequestPatch(p) \/ Patch(p) \/ PatchFails(p)
  \/ DeliverNotification
  \/ LoseNotification
  \/ OpenStream
  \/ BreakStream
  \/ ServiceCrash

Spec == Init /\ [][Next]_allVars

\* Queries end, continuations run, and Redis delivers what it does not lose.
\* Nothing makes a client open its stream, or a worker or client send anything.
FairSpec == Spec /\ WF_allVars(DeliverNotification \/ \E p \in Patches : Patch(p))

-----------------------------------------------------------------------------
(* Properties.                                                             *)

\* Only overlapping writers, a lost announcement, or an UPDATE that commits and then
\* fails, mislead a client: once nothing of a job is due, its last notification says
\* what its row says (the order of UPDATE and emit in both writers).
OnlyOverlapsMislead ==
  \A j \in Jobs :
    \/ Due(j) \/ j \in overlapped \cup missed
    \/ notified[j] = row[j]
    \/ notified[j] = "none" /\ row[j] = "PENDING"

\* A worker's reason reaches the client with FAILED only, and only for a job a
\* worker has failed, although PATCH leaves old reasons in the row and
\* UploadController reads them back.
WorkersReasonMeansFailure ==
  \A n \in heard : n.reason = "worker" => n.status = "FAILED" /\ n.job \in failures

\* "Cannot update same status again": a PATCH writes the status a row has only
\* if the row was written since the PATCH read it.
SameStatusOnlyByRace ==
  [][\A p \in Patches :
       stage[p] = "checked" /\ stage'[p] = "written" /\ row[asks[p].job] = asks[p].status
         => p \in raced]_allVars

\* A PATCH that has written is heard with the reason its sender gave, unless an
\* announcement of its job was dropped: the other announcement does not carry it.
ReasonReachesClient ==
  \A n \in [job : Jobs, status : PatchStatuses, reason : {"query"}] :
    (\E p \in Patches : stage[p] = "written" /\ Says(p, "query") = n)
      ~> n \in heard \/ n.job \in missed
=============================================================================
