--------------------------- MODULE StatusConsumer ---------------------------
(***************************************************************************)
(* The service's consumer of status_queue.  Each delivery starts an        *)
(* asynchronous handler that updates the job's row, emits the notification *)
(* and acknowledges.  The consumer sets no prefetch, so any number of them *)
(* overlap: the row updates and what follows them come in any order.       *)
(*                                                                         *)
(* publicUrl and errorMessage are written by the same UPDATE as status and *)
(* are determined by the message, so a row is its status.                  *)
(***************************************************************************)
EXTENDS JobStatus, Naturals, FiniteSets, Bags, SequencesExt

CONSTANTS
  MaxConsumerCrashes,  \* bound: exits of the service process
  MaxConsumerLosses,   \* bound: losses of the consumer's channel
  MaxDbFailures        \* bound: failed queries

ASSUME ConsumerBounds ==
  /\ MaxConsumerCrashes \in Nat /\ MaxConsumerLosses \in Nat /\ MaxDbFailures \in Nat

VARIABLES
  inbox,      \* status_queue's unacknowledged messages in queue order
  orphans,    \* bag: messages of handlers that go on after their channel was lost
  row,        \* the status column of each job
  notified,   \* the last status emitted for each job
  crossed,    \* history: jobs two of whose handlers were at work at once
  failed,     \* history: jobs an UPDATE of which failed
  consumerCrashes, consumerLosses, dbFailures  \* faults so far

consumerFaults == <<consumerCrashes, consumerLosses, dbFailures>>
consumerHistory == <<crossed, failed>>
consumerVars == <<inbox, orphans, row, notified, consumerHistory, consumerFaults>>

\* A message is on the queue, with a handler that has not written yet, or with
\* one whose UPDATE has committed.
Phases == {"queued", "received", "written"}
Message == [job : Jobs, status : Statuses, phase : Phases]

InProgress == {i \in DOMAIN inbox : inbox[i].phase # "queued"}

\* A handler of job j is at work, on the open channel or beyond a lost one.
AtWork(j) ==
  \/ \E i \in InProgress : inbox[i].job = j
  \/ \E m \in BagToSet(orphans) : m.job = j

ConsumerInit ==
  /\ inbox = <<>> /\ orphans = EmptyBag
  /\ row = [j \in Jobs |-> "PENDING"]
  /\ notified = [j \in Jobs |-> "none"]
  /\ crossed = {} /\ failed = {}
  /\ consumerCrashes = 0 /\ consumerLosses = 0 /\ dbFailures = 0

\* A worker's message reaches status_queue.
Enqueue(j, s) ==
  /\ inbox' = Append(inbox, [job |-> j, status |-> s, phase |-> "queued"])
  /\ UNCHANGED <<orphans, row, notified, consumerHistory, consumerFaults>>

\* Message i is next in the queue.
IsNext(i) == inbox[i].phase = "queued" /\ \A k \in 1 .. i - 1 : inbox[k].phase # "queued"

\* The broker delivers in queue order and handleStatus starts, whatever else is
\* at work.
HandleStatus(i) ==
  /\ IsNext(i)
  /\ inbox' = [inbox EXCEPT ![i].phase = "received"]
  /\ crossed' = crossed \cup {j \in {inbox[i].job} : AtWork(j)}
  /\ UNCHANGED <<orphans, row, notified, failed, consumerFaults>>

\* The UPDATE for a message commits: unconditional, whatever the row says.
WriteRow(m) ==
  /\ m.phase = "received"
  /\ row' = [row EXCEPT ![m.job] = m.status]
  /\ UNCHANGED <<notified, consumerHistory, consumerFaults>>

\* Mutant: the message is acknowledged with the UPDATE and nothing is emitted.
UpdateRowSilently(i) == WriteRow(inbox[i]) /\ inbox' = RemoveAt(inbox, i) /\ UNCHANGED orphans

UpdateRow(i) ==
  /\ WriteRow(inbox[i])
  /\ inbox' = [inbox EXCEPT ![i].phase = "written"]
  /\ UNCHANGED orphans

OrphanUpdatesRow(m) ==
  /\ WriteRow(m)
  /\ orphans' = (orphans (-) SetToBag({m})) (+) SetToBag({[m EXCEPT !.phase = "written"]})
  /\ UNCHANGED inbox

\* An orphan ends: on the lost channel its ack throws, and the handler logs it.
OrphanEnds(m) ==
  /\ orphans' = orphans (-) SetToBag({m})
  /\ UNCHANGED inbox

\* The query of the UPDATE fails, which may have committed all the same: the error
\* is logged and nothing is emitted.
FailWrite(m, commits) ==
  /\ m.phase = "received"
  /\ dbFailures < MaxDbFailures
  /\ dbFailures' = dbFailures + 1
  /\ row' = IF commits THEN [row EXCEPT ![m.job] = m.status] ELSE row
  /\ failed' = failed \cup {m.job}
  /\ UNCHANGED <<notified, crossed, consumerCrashes, consumerLosses>>

\* The message is acknowledged all the same.
UpdateFails(i, commits) ==
  FailWrite(inbox[i], commits) /\ inbox' = RemoveAt(inbox, i) /\ UNCHANGED orphans

OrphanUpdateFails(m, commits) == FailWrite(m, commits) /\ OrphanEnds(m)

\* Mutant: the UPDATE is not awaited.
EmitStatusUnawaited(m) ==
  /\ m.phase # "queued"
  /\ notified' = [notified EXCEPT ![m.job] = m.status]
  /\ UNCHANGED <<row, consumerHistory, consumerFaults>>

\* After the UPDATE the handler emits and acknowledges without yielding.
EmitStatus(m) ==
  /\ m.phase = "written"
  /\ notified' = [notified EXCEPT ![m.job] = m.status]
  /\ UNCHANGED <<row, consumerHistory, consumerFaults>>

EmitAndAck(i) == EmitStatus(inbox[i]) /\ inbox' = RemoveAt(inbox, i) /\ UNCHANGED orphans

OrphanEmits(m) == EmitStatus(m) /\ OrphanEnds(m)

\* What the broker requeues goes back to its old place.
RequeueInbox == inbox' = [i \in DOMAIN inbox |-> [inbox[i] EXCEPT !.phase = "queued"]]

\* The service exits with handlers in progress.
ConsumerCrash ==
  /\ consumerCrashes < MaxConsumerCrashes
  /\ InProgress # {} \/ orphans # EmptyBag
  /\ consumerCrashes' = consumerCrashes + 1
  /\ RequeueInbox /\ orphans' = EmptyBag
  /\ UNCHANGED <<row, notified, consumerHistory, consumerLosses, dbFailures>>

\* Only the consumer's channel breaks, and the client library opens another: the
\* handlers in progress go on, while their messages are delivered again.
LoseConsumerChannel ==
  /\ consumerLosses < MaxConsumerLosses /\ InProgress # {}
  /\ consumerLosses' = consumerLosses + 1
  /\ RequeueInbox
  /\ orphans' = orphans (+) [m \in {inbox[i] : i \in InProgress} |->
                              Cardinality({i \in DOMAIN inbox : inbox[i] = m})]
  /\ UNCHANGED <<row, notified, consumerHistory, consumerCrashes, dbFailures>>

\* The steps of the handlers.
Handle ==
  \/ \E i \in DOMAIN inbox : HandleStatus(i) \/ UpdateRow(i) \/ EmitAndAck(i)
  \/ \E m \in BagToSet(orphans) : OrphanUpdatesRow(m) \/ OrphanEmits(m)

ConsumerNext ==
  \/ Handle
  \/ \E i \in DOMAIN inbox, commits \in BOOLEAN : UpdateFails(i, commits)
  \/ \E m \in BagToSet(orphans), commits \in BOOLEAN : OrphanUpdateFails(m, commits)
  \/ ConsumerCrash
  \/ LoseConsumerChannel

\* A handler at work with m, whose UPDATE has committed.
Written(m) ==
  /\ m.phase = "written"
  /\ m \in BagToSet(orphans) \/ \E i \in DOMAIN inbox : m = inbox[i]

\* Every variable keeps its type; only handlers at work outlive a channel; and no
\* client is told of a job, or about to be, whose row is still PENDING (the emit of
\* processGoWorkerStatus follows the awaited UPDATE).
ConsumerTypeOK ==
  /\ inbox \in Seq(Message)
  /\ IsABag(orphans) /\ BagToSet(orphans) \subseteq {m \in Message : m.phase # "queued"}
  /\ row \in [Jobs -> Statuses \cup {"PENDING"}]
  /\ notified \in [Jobs -> Statuses \cup {"none"}]
  /\ crossed \subseteq Jobs /\ failed \subseteq Jobs
  /\ consumerCrashes \in 0 .. MaxConsumerCrashes
  /\ consumerLosses \in 0 .. MaxConsumerLosses
  /\ dbFailures \in 0 .. MaxDbFailures
  /\ \A j \in Jobs : notified[j] # "none" => row[j] # "PENDING"
  /\ \A m \in Message : Written(m) => row[m.job] # "PENDING"
=============================================================================
