------------------------- MODULE NotificationsProofs -------------------------
(***************************************************************************)
(* What a PATCH overwrites and what a client is told, for all jobs,        *)
(* requests, statuses, handlers and faults.                                *)
(***************************************************************************)
EXTENDS Notifications, StatusConsumerProofs

-----------------------------------------------------------------------------
(* What holds of messages, rows and requests.                              *)

\* Messages that may be there: behind a written FAILED stands a worker's failure.
Blamed == {m \in Message : m.phase = "written" /\ m.status = "FAILED" => m.job \in failures}

MessageFacts == inbox \in Seq(Blamed) /\ BagToSet(orphans) \subseteq Blamed

RowStatuses == Statuses \cup {"PENDING"} \cup PatchStatuses
FullAsk == [job : Jobs, status : PatchStatuses]

\* A request that has found its row asks for a job and a status of the API.
PatchFacts ==
  /\ row \in [Jobs -> RowStatuses]
  /\ stage \in [Patches -> Stages]
  /\ asks \in [Patches -> [job : Jobs \cup {NoJob}, status : PatchStatuses \cup {"PENDING"}]]
  /\ \A p \in Patches :
       /\ stage[p] = "reading" => asks[p].status \in PatchStatuses
       /\ stage[p] \in {"checked", "written"} => asks[p] \in FullAsk

\* Between the read and the write of a request the row differs from what it asks
\* for, unless somebody has written it.
RaceFacts ==
  \A p \in Patches :
    stage[p] = "checked" => row[asks[p].job] # asks[p].status \/ p \in raced

\* Notifications that may be sent: a worker's reason says FAILED, of a job that
\* a worker has failed.
Grounded ==
  {n \in Notification : n.reason = "worker" => n.status = "FAILED" /\ n.job \in failures}

\* A worker's reason, in a row or in the copy a request's UPDATE has returned, is
\* of a failed job.
ReasonFacts ==
  /\ stored \in [Jobs -> Reasons]
  /\ returned \in [Patches -> Reasons]
  /\ \A j \in Jobs : stored[j] = "worker" => j \in failures
  /\ \A p \in Patches : returned[p] = "worker" => stage[p] = "written" /\ asks[p].job \in failures
  /\ redis \in Seq(Grounded)
  /\ heard \subseteq Grounded

NotifyInv == MessageFacts /\ PatchFacts /\ RaceFacts /\ ReasonFacts

-----------------------------------------------------------------------------
(* The writers of a row.                                                   *)

\* Failures are never forgotten.
LEMMA FailuresStay == [Next]_allVars => failures \subseteq failures'
BY DEF Next, Report, ConsumerWrites, Store, ConsumerTells, Told, Hear, ConsumerFails,
       Unannounced, ConsumerQuiet, RequestPatch, Patch, FindRow, RefusePatch, WritePatch, PatchFails, AnnouncePatch,
       DeliverNotification, LoseNotification, OpenStream, BreakStream, ServiceCrash,
       allVars, notifyVars, historyVars

\* A write of a row is remembered for every request that has read it.
LEMMA WritesRace ==
  ASSUME PatchFacts, RaceFacts, NEW j, NEW s, NEW q,
         row' = [row EXCEPT ![j] = s], Remember(j, q), UNCHANGED asks,
         \A p \in Patches : stage'[p] = "checked" => stage[p] = "checked" /\ p # q
  PROVE  RaceFacts'
<1> SUFFICES ASSUME NEW p \in Patches, stage'[p] = "checked"
             PROVE  row'[asks[p].job] # asks[p].status \/ p \in raced'
  BY DEF RaceFacts
<1>1. stage[p] = "checked" /\ p # q /\ asks[p].job \in Jobs
  BY DEF PatchFacts, FullAsk
<1>2. CASE asks[p].job = j
  BY <1>1, <1>2 DEF Remember, Between
<1>3. CASE asks[p].job # j
  BY <1>1, <1>3 DEF PatchFacts, RaceFacts, Remember
<1> QED BY <1>2, <1>3

\* A row's status stays one a writer may give it.
LEMMA WritesStatus ==
  ASSUME row \in [Jobs -> RowStatuses], NEW m \in Message,
         row' = [row EXCEPT ![m.job] = m.status]
  PROVE  row' \in [Jobs -> RowStatuses]
BY DEF Message, RowStatuses

\* The consumer's write, whether or not its query fails.
LEMMA ConsumerWriteKeeps ==
  ASSUME NotifyInv, NEW m \in Blamed, row' = [row EXCEPT ![m.job] = m.status], Store(m)
  PROVE  PatchFacts' /\ RaceFacts' /\ ReasonFacts'
<1> USE DEF NotifyInv
<1>1. m \in Message
  BY DEF Blamed
<1>2. PatchFacts'
  BY <1>1, WritesStatus DEF PatchFacts, Store, patchVars
<1>3. RaceFacts'
  <2>1. row' = [row EXCEPT ![m.job] = m.status] /\ Remember(m.job, NoPatch)
    BY DEF Store
  <2>2. UNCHANGED <<stage, asks>>
    BY DEF Store, patchVars
  <2>3. \A p \in Patches : stage'[p] = "checked" => stage[p] = "checked" /\ p # NoPatch
    BY <2>2, NotificationBounds
  <2>4. PatchFacts /\ RaceFacts
    OBVIOUS
  <2> HIDE DEF NotifyInv
  <2> QED BY ONLY <2>1, <2>2, <2>3, <2>4, WritesRace
<1>4. failures \subseteq failures' /\ UNCHANGED <<stage, asks, returned, redis, heard>>
  BY DEF Store, patchVars, clientVars
<1>5. Grounded \subseteq Grounded'
  BY <1>4 DEF Grounded
<1>6. redis' \in Seq(Grounded') /\ heard' \subseteq Grounded'
  BY <1>4, <1>5 DEF ReasonFacts
<1>7. /\ stored' \in [Jobs -> Reasons]
      /\ \A j \in Jobs : stored'[j] = "worker" => j \in failures'
  BY <1>1, <1>4 DEF Store, ReasonOf, ReasonFacts, Reasons, Message
<1> QED BY <1>2, <1>3, <1>4, <1>6, <1>7 DEF ReasonFacts

\* A query of the consumer that fails has written as it would have, or not at all.
LEMMA FailedUpdate ==
  ASSUME MessageFacts, ConsumerFails
  PROVE  \/ \E m \in Blamed : row' = [row EXCEPT ![m.job] = m.status] /\ Store(m)
         \/ UNCHANGED <<row, notifyVars>>
<1>1. PICK commits \in BOOLEAN :
        \/ \E i \in DOMAIN inbox : UpdateFails(i, commits) /\ Unannounced(inbox[i], commits)
        \/ \E m \in BagToSet(orphans) : OrphanUpdateFails(m, commits) /\ Unannounced(m, commits)
  BY DEF ConsumerFails
<1>2. PICK m \in Blamed : FailWrite(m, commits) /\ Unannounced(m, commits)
  BY <1>1 DEF MessageFacts, UpdateFails, OrphanUpdateFails
<1> QED BY <1>2 DEF FailWrite, Unannounced

\* The PATCH handler's UPDATE, whether or not its answer comes back.
LEMMA PatchWriteKeeps ==
  ASSUME PatchFacts, RaceFacts, NEW p \in Patches, stage[p] = "checked", PatchRow(p),
         \A q \in Patches : stage'[q] = "checked" => stage[q] = "checked" /\ q # p,
         \A q \in Patches \ {p} : asks'[q] = asks[q]
  PROVE  row' \in [Jobs -> RowStatuses] /\ RaceFacts'
<1>1. asks[p] \in FullAsk
  BY DEF PatchFacts
<1>2. row' \in [Jobs -> RowStatuses]
  BY <1>1 DEF PatchFacts, PatchRow, FullAsk, RowStatuses
<1>3. ASSUME NEW q \in Patches, stage'[q] = "checked"
      PROVE  row'[asks[q].job] # asks[q].status \/ q \in raced'
  <2>1. stage[q] = "checked" /\ q # p /\ asks[q].job \in Jobs
    BY <1>3 DEF PatchFacts, FullAsk
  <2>2. CASE asks[q].job = asks[p].job
    BY <2>1, <2>2 DEF PatchRow, Remember, Between
  <2>3. CASE asks[q].job # asks[p].job
    BY <2>1, <2>3 DEF PatchFacts, RaceFacts, PatchRow, Remember
  <2> QED BY <2>2, <2>3
<1>4. \A q \in Patches : stage'[q] = "checked" => asks'[q] = asks[q]
  OBVIOUS
<1> QED BY <1>2, <1>3, <1>4 DEF RaceFacts

-----------------------------------------------------------------------------
(* Messages.                                                               *)

\* A message keeps its backing in every phase before the write, and the write of
\* FAILED is what failures records.
LEMMA PhasesBlamed ==
  /\ \A m \in Message, p \in {"queued", "received"} : [m EXCEPT !.phase = p] \in Blamed
  /\ \A m \in Message : Store(m) => [m EXCEPT !.phase = "written"] \in Blamed'
BY DEF Blamed, Message, Phases, Store

\* Every step keeps the facts about messages.
LEMMA MessageStep == MessageFacts /\ [Next]_allVars => MessageFacts'
<1> SUFFICES ASSUME MessageFacts, [Next]_allVars PROVE MessageFacts'
  OBVIOUS
<1>0. Blamed \subseteq Blamed'
  BY FailuresStay DEF Blamed
<1>a. inbox \in Seq(Message) /\ \A i \in DOMAIN inbox : inbox[i] \in Blamed /\ inbox[i] \in Message
  BY DEF MessageFacts, Blamed
<1>b. \A m \in BagToSet(orphans) : m \in Blamed /\ m \in Message
  BY DEF MessageFacts, Blamed
<1>c. UNCHANGED inbox => inbox' \in Seq(Blamed')
  BY <1>0 DEF MessageFacts
<1>d. UNCHANGED orphans => BagToSet(orphans') \subseteq Blamed'
  BY <1>0 DEF MessageFacts
<1>e. ASSUME NEW i \in DOMAIN inbox, inbox' = RemoveAt(inbox, i) PROVE inbox' \in Seq(Blamed')
  <2>1. inbox' \in Seq(Blamed)
    BY <1>e, RemovalMovesUp DEF MessageFacts
  <2> QED BY <1>0, <2>1
<1>f. ASSUME NEW m, OrphanEnds(m) PROVE BagToSet(orphans') \subseteq Blamed'
  BY <1>f, <1>0, OrphansMove DEF OrphanEnds, MessageFacts
<1>g. ASSUME NEW i \in DOMAIN inbox, NEW p \in Phases, inbox' = [inbox EXCEPT ![i].phase = p],
             [inbox[i] EXCEPT !.phase = p] \in Blamed'
      PROVE  inbox' \in Seq(Blamed')
  <2> DEFINE m == [inbox[i] EXCEPT !.phase = p]
  <2>1. inbox' = [inbox EXCEPT ![i] = m]
    BY <1>g
  <2>2. inbox \in Seq(Blamed')
    BY <1>0 DEF MessageFacts
  <2>3. m \in Blamed'
    BY <1>g
  <2> HIDE DEF m
  <2> QED BY <2>1, <2>2, <2>3
<1>h. RequeueInbox => inbox' \in Seq(Blamed')
  <2> SUFFICES ASSUME RequeueInbox PROVE inbox' \in Seq(Blamed')
    OBVIOUS
  <2>1. \A i \in DOMAIN inbox : [inbox[i] EXCEPT !.phase = "queued"] \in Blamed'
    BY <1>0, <1>a, PhasesBlamed
  <2> QED BY <1>a, <2>1 DEF RequeueInbox
<1>1. ASSUME NEW j \in Jobs, NEW s \in Statuses, Report(j, s) PROVE MessageFacts'
  <2> DEFINE m == [job |-> j, status |-> s, phase |-> "queued"]
  <2>1. m \in Blamed /\ inbox' = Append(inbox, m) /\ UNCHANGED orphans
    BY <1>1 DEF Report, Enqueue, Blamed, Message, Phases
  <2> HIDE DEF m
  <2>2. inbox' \in Seq(Blamed)
    BY <2>1 DEF MessageFacts
  <2>3. inbox' \in Seq(Blamed')
    BY <1>0, <2>2
  <2> QED BY <1>d, <2>1, <2>3 DEF MessageFacts
<1>2. ASSUME NEW i \in DOMAIN inbox, UpdateRow(i), Store(inbox[i]) PROVE MessageFacts'
  <2>1. [inbox[i] EXCEPT !.phase = "written"] \in Blamed'
    BY <1>2, <1>a, PhasesBlamed
  <2>2. inbox' = [inbox EXCEPT ![i].phase = "written"] /\ UNCHANGED orphans
    BY <1>2 DEF UpdateRow
  <2> QED BY <1>d, <1>g, <2>1, <2>2 DEF MessageFacts, Phases
<1>3. ASSUME NEW m \in BagToSet(orphans), OrphanUpdatesRow(m), Store(m) PROVE MessageFacts'
  <2> DEFINE n == [m EXCEPT !.phase = "written"]
  <2>1. n \in Blamed'
    BY <1>3, <1>b, PhasesBlamed
  <2>2. orphans' = (orphans (-) SetToBag({m})) (+) SetToBag({n}) /\ UNCHANGED inbox
    BY <1>3 DEF OrphanUpdatesRow
  <2> HIDE DEF n
  <2>3. BagToSet(orphans') \subseteq BagToSet(orphans) \cup {n}
    BY <2>2, OrphansMove
  <2> QED BY <1>0, <1>c, <2>1, <2>2, <2>3 DEF MessageFacts
<1>4. ASSUME NEW i \in DOMAIN inbox,
             EmitAndAck(i) \/ \E commits \in BOOLEAN : UpdateFails(i, commits)
      PROVE  MessageFacts'
  BY <1>4, <1>d, <1>e DEF EmitAndAck, UpdateFails, MessageFacts
<1>5. ASSUME NEW m \in BagToSet(orphans),
             OrphanEmits(m) \/ \E commits \in BOOLEAN : OrphanUpdateFails(m, commits)
      PROVE  MessageFacts'
  BY <1>5, <1>c, <1>f DEF OrphanEmits, OrphanUpdateFails, OrphanEnds, MessageFacts
<1>6. ASSUME NEW i \in DOMAIN inbox, HandleStatus(i) PROVE MessageFacts'
  <2>1. [inbox[i] EXCEPT !.phase = "received"] \in Blamed'
    BY <1>0, <1>a, PhasesBlamed
  <2>2. inbox' = [inbox EXCEPT ![i].phase = "received"] /\ UNCHANGED orphans
    BY <1>6 DEF HandleStatus
  <2> QED BY <1>d, <1>g, <2>1, <2>2 DEF MessageFacts, Phases
<1>7. CASE LoseConsumerChannel
  <2>1. BagToSet(orphans') \subseteq BagToSet(orphans) \cup {inbox[i] : i \in InProgress}
    BY <1>7 DEF LoseConsumerChannel, BagToSet, (+)
  <2>2. {inbox[i] : i \in InProgress} \subseteq Blamed
    BY <1>a DEF InProgress
  <2> QED BY <1>7, <1>0, <1>h, <2>1, <2>2 DEF LoseConsumerChannel, MessageFacts
<1>8. CASE ServiceCrash
  <2>1. BagToSet(orphans') \subseteq Blamed'
    BY <1>8 DEF ServiceCrash, BagToSet, EmptyBag, SetToBag
  <2> QED BY <1>8, <1>h, <2>1 DEF ServiceCrash, MessageFacts
<1>9. CASE UNCHANGED <<inbox, orphans>>
  BY <1>9, <1>c, <1>d DEF MessageFacts
<1> QED
  BY <1>1, <1>2, <1>3, <1>4, <1>5, <1>6, <1>7, <1>8, <1>9
  DEF Next, ConsumerWrites, ConsumerTells, ConsumerFails, ConsumerQuiet, RequestPatch, Patch, FindRow,
      RefusePatch, WritePatch, PatchFails, AnnouncePatch, DeliverNotification,
      LoseNotification, OpenStream, BreakStream, allVars, consumerVars

-----------------------------------------------------------------------------
(* Requests.                                                               *)

\* An answered request is nowhere in a handler.
LEMMA EndsFacts ==
  ASSUME PatchFacts, NEW p \in Patches, NEW from, Ends(p, from)
  PROVE  /\ stage' \in [Patches -> Stages]
         /\ asks' \in [Patches -> [job : Jobs \cup {NoJob}, status : PatchStatuses \cup {"PENDING"}]]
         /\ stage'[p] = "answered"
         /\ \A q \in Patches \ {p} : stage'[q] = stage[q] /\ asks'[q] = asks[q]
BY DEF PatchFacts, Ends, Moves, Stages, NoAsk

\* Each step keeps the facts about requests and their races.
LEMMA PatchStep == NotifyInv /\ [Next]_allVars => PatchFacts' /\ RaceFacts'
<1> SUFFICES ASSUME NotifyInv, [Next]_allVars PROVE PatchFacts' /\ RaceFacts'
  OBVIOUS
<1>0. MessageFacts /\ PatchFacts /\ RaceFacts
  BY DEF NotifyInv
<1>1. ASSUME NEW i \in DOMAIN inbox, UpdateRow(i), Store(inbox[i])
      PROVE  PatchFacts' /\ RaceFacts'
  <2>1. inbox[i] \in Blamed
    BY <1>0 DEF MessageFacts
  <2>2. row' = [row EXCEPT ![inbox[i].job] = inbox[i].status]
    BY <1>1 DEF UpdateRow, WriteRow
  <2> QED BY <1>1, <2>1, <2>2, ConsumerWriteKeeps
<1>2. ASSUME NEW m \in BagToSet(orphans), OrphanUpdatesRow(m), Store(m)
      PROVE  PatchFacts' /\ RaceFacts'
  BY <1>0, <1>2, ConsumerWriteKeeps DEF OrphanUpdatesRow, WriteRow, MessageFacts
<1>3. ASSUME NEW p \in Patches, RequestPatch(p) PROVE PatchFacts' /\ RaceFacts'
  <2>1. PICK j \in Jobs \cup {NoJob}, s \in PatchStatuses :
          asks' = [asks EXCEPT ![p] = [job |-> j, status |-> s]]
    BY <1>3 DEF RequestPatch
  <2>2. /\ stage' = [stage EXCEPT ![p] = "reading"] /\ stage[p] = "idle"
        /\ UNCHANGED <<row, raced>>
    BY <1>3 DEF RequestPatch, Moves, consumerVars, historyVars
  <2>3. PatchFacts'
    BY <1>0, <2>1, <2>2 DEF PatchFacts, Stages
  <2>4. RaceFacts'
    BY <1>0, <2>1, <2>2 DEF PatchFacts, RaceFacts
  <2> QED BY <2>3, <2>4
<1>4. ASSUME NEW p \in Patches, FindRow(p) PROVE PatchFacts' /\ RaceFacts'
  <2>1. /\ stage' = [stage EXCEPT ![p] = "checked"] /\ stage[p] = "reading"
        /\ UNCHANGED <<row, asks, raced>>
    BY <1>4 DEF FindRow, Moves, consumerVars, historyVars
  <2>2. asks[p].job \in Jobs /\ row[asks[p].job] # asks[p].status
    BY <1>4 DEF FindRow, Refuses
  <2>3. asks[p] \in FullAsk
    BY <1>0, <2>1, <2>2 DEF PatchFacts, FullAsk
  <2>4. PatchFacts'
    BY <1>0, <2>1, <2>3 DEF PatchFacts, Stages
  <2>5. RaceFacts'
    BY <1>0, <2>1, <2>2 DEF PatchFacts, RaceFacts
  <2> QED BY <2>4, <2>5
<1>5. ASSUME NEW p \in Patches, WritePatch(p) PROVE PatchFacts' /\ RaceFacts'
  <2>1. /\ stage' = [stage EXCEPT ![p] = "written"] /\ stage[p] = "checked"
        /\ PatchRow(p) /\ UNCHANGED asks
    BY <1>5 DEF WritePatch, Moves
  <2>2. \A q \in Patches : stage'[q] = "checked" => stage[q] = "checked" /\ q # p
    BY <1>0, <2>1 DEF PatchFacts
  <2>3. row' \in [Jobs -> RowStatuses] /\ RaceFacts'
    BY <1>0, <2>1, <2>2, PatchWriteKeeps
  <2>4. PatchFacts'
    BY <1>0, <2>1, <2>3 DEF PatchFacts, Stages
  <2> QED BY <2>3, <2>4
<1>6. ASSUME NEW p \in Patches, NEW from, Ends(p, from), UNCHANGED row,
             raced' \in {raced, raced \ {p}}
      PROVE  PatchFacts' /\ RaceFacts'
  <2>1. PatchFacts'
    BY <1>0, <1>6, EndsFacts DEF PatchFacts
  <2>2. RaceFacts'
    BY <1>0, <1>6, EndsFacts DEF RaceFacts
  <2> QED BY <2>1, <2>2
<1>7. ASSUME NEW p \in Patches, Ends(p, "checked"), PatchRow(p)
      PROVE  PatchFacts' /\ RaceFacts'
  <2>1. stage[p] = "checked"
    BY <1>7 DEF Ends, Moves
  <2>2. \A q \in Patches : stage'[q] = "checked" => stage[q] = "checked" /\ q # p
    BY <1>0, <1>7, EndsFacts
  <2>3. \A q \in Patches \ {p} : asks'[q] = asks[q]
    BY <1>0, <1>7, EndsFacts
  <2>4. row' \in [Jobs -> RowStatuses] /\ RaceFacts'
    BY <1>0, <1>7, <2>1, <2>2, <2>3, PatchWriteKeeps
  <2>5. PatchFacts'
    BY <1>0, <1>7, <2>4, EndsFacts DEF PatchFacts
  <2> QED BY <2>4, <2>5
<1>8. CASE ServiceCrash
  <2>1. /\ stage' = [p \in Patches |-> IF stage[p] = "idle" THEN "idle" ELSE "answered"]
        /\ asks' = [p \in Patches |-> NoAsk] /\ UNCHANGED row
    BY <1>8 DEF ServiceCrash
  <2>2. PatchFacts'
    BY <1>0, <2>1 DEF PatchFacts, Stages, NoAsk
  <2>3. RaceFacts'
    BY <2>1 DEF RaceFacts
  <2> QED BY <2>2, <2>3
<1>9. CASE UNCHANGED <<row, stage, asks, raced>>
  BY <1>0, <1>9 DEF PatchFacts, RaceFacts
<1>10. ASSUME NEW p \in Patches, RefusePatch(p) \/ PatchFails(p) \/ AnnouncePatch(p)
       PROVE  PatchFacts' /\ RaceFacts'
  <2>1. CASE RefusePatch(p) \/ AnnouncePatch(p)
    BY <2>1, <1>6 DEF RefusePatch, AnnouncePatch, consumerVars, historyVars
  <2>2. CASE PatchFails(p)
    BY <2>2, <1>6, <1>7 DEF PatchFails
  <2> QED BY <1>10, <2>1, <2>2
<1>11. CASE ConsumerTells \/ ConsumerQuiet \/ \E j \in Jobs, s \in Statuses : Report(j, s)
  <2>1. UNCHANGED row
    BY <1>11 DEF ConsumerTells, ConsumerQuiet, Report, EmitAndAck, OrphanEmits, EmitStatus,
                 HandleStatus, LoseConsumerChannel, Enqueue
  <2>2. UNCHANGED <<stage, asks, raced>>
    BY <1>11 DEF ConsumerTells, ConsumerQuiet, Report, Told, Hear, notifyVars, patchVars,
                 historyVars
  <2> QED BY <1>9, <2>1, <2>2
<1>12. CASE DeliverNotification \/ LoseNotification \/ OpenStream \/ BreakStream
            \/ UNCHANGED allVars
  BY <1>9, <1>12 DEF DeliverNotification, LoseNotification, OpenStream, BreakStream, Hear,
                     allVars, consumerVars, notifyVars, patchVars, historyVars
<1>13. CASE ConsumerFails
  <2>1. CASE UNCHANGED <<row, notifyVars>>
    BY <1>9, <2>1 DEF notifyVars, patchVars, historyVars
  <2> QED BY <1>0, <1>13, <2>1, FailedUpdate, ConsumerWriteKeeps
<1> QED
  BY <1>1, <1>2, <1>3, <1>4, <1>5, <1>8, <1>10, <1>11, <1>12, <1>13
  DEF Next, ConsumerWrites, Patch

-----------------------------------------------------------------------------
(* Reasons.                                                                *)

\* What the emitter is told was grounded, so what the stream hears is.
LEMMA HearKeeps ==
  ASSUME heard \subseteq Grounded, NEW n \in Grounded, Hear(n)
  PROVE  heard' \subseteq Grounded'
BY DEF Hear, Grounded

\* Each step keeps the facts about reasons.
LEMMA ReasonStep == NotifyInv /\ [Next]_allVars => ReasonFacts'
<1> SUFFICES ASSUME NotifyInv, [Next]_allVars PROVE ReasonFacts'
  OBVIOUS
<1>0. MessageFacts /\ PatchFacts /\ ReasonFacts
  BY DEF NotifyInv
<1>1. Grounded \subseteq Grounded' /\ failures \subseteq failures'
  BY FailuresStay DEF Grounded
<1>a. redis \in Seq(Grounded') /\ heard \subseteq Grounded'
  BY <1>0, <1>1 DEF ReasonFacts
<1>b. ASSUME NEW m \in Blamed, EmitStatus(m), Told(m) PROVE ReasonFacts'
  <2> DEFINE n == [job |-> m.job, status |-> m.status, reason |-> ReasonOf(m.status)]
  <2>1. n \in Grounded
    BY <1>b DEF Blamed, Message, EmitStatus, Grounded, Notification, ReasonOf, Reasons
  <2>2. Hear(n) /\ UNCHANGED <<stage, asks, returned, stored, redis>>
    BY <1>b DEF Told, patchVars
  <2> HIDE DEF n
  <2>3. heard' \subseteq Grounded'
    BY <1>0, <2>1, <2>2, HearKeeps DEF ReasonFacts
  <2> QED BY <1>0, <1>1, <1>a, <2>2, <2>3 DEF ReasonFacts
<1>2. CASE ConsumerWrites
  <2>1. ASSUME NEW i \in DOMAIN inbox, UpdateRow(i), Store(inbox[i]) PROVE ReasonFacts'
    <3>1. inbox[i] \in Blamed
      BY <1>0 DEF MessageFacts
    <3>2. row' = [row EXCEPT ![inbox[i].job] = inbox[i].status]
      BY <2>1 DEF UpdateRow, WriteRow
    <3> QED BY <2>1, <3>1, <3>2, ConsumerWriteKeeps
  <2>2. ASSUME NEW m \in BagToSet(orphans), OrphanUpdatesRow(m), Store(m) PROVE ReasonFacts'
    BY <1>0, <2>2, ConsumerWriteKeeps DEF OrphanUpdatesRow, WriteRow, MessageFacts
  <2> QED BY <1>2, <2>1, <2>2 DEF ConsumerWrites
<1>3. CASE ConsumerTells
  <2>1. ASSUME NEW i \in DOMAIN inbox, EmitAndAck(i), Told(inbox[i]) PROVE ReasonFacts'
    BY <1>0, <1>b, <2>1 DEF EmitAndAck, MessageFacts
  <2>2. ASSUME NEW m \in BagToSet(orphans), OrphanEmits(m), Told(m) PROVE ReasonFacts'
    BY <1>0, <1>b, <2>2 DEF OrphanEmits, MessageFacts
  <2> QED BY <1>3, <2>1, <2>2 DEF ConsumerTells
<1>4. CASE UNCHANGED <<stage, asks, returned, stored, redis, heard>>
  BY <1>0, <1>1, <1>4, <1>a DEF ReasonFacts
<1>5. ASSUME NEW p \in Patches, RequestPatch(p) PROVE ReasonFacts'
  <2>1. /\ stage[p] = "idle" /\ UNCHANGED <<stored, returned, redis, heard>>
        /\ \A q \in Patches \ {p} : stage'[q] = stage[q] /\ asks'[q] = asks[q]
    BY <1>0, <1>5 DEF RequestPatch, Moves, PatchFacts, clientVars
  <2> QED BY <1>0, <1>1, <1>a, <2>1 DEF ReasonFacts
<1>6. ASSUME NEW p \in Patches, FindRow(p) PROVE ReasonFacts'
  <2>1. /\ stage[p] = "reading" /\ UNCHANGED <<stored, asks, returned, redis, heard>>
        /\ \A q \in Patches \ {p} : stage'[q] = stage[q]
    BY <1>0, <1>6 DEF FindRow, Moves, PatchFacts, clientVars
  <2> QED BY <1>0, <1>1, <1>a, <2>1 DEF ReasonFacts
<1>7. ASSUME NEW p \in Patches, WritePatch(p) PROVE ReasonFacts'
  <2>1. /\ stage[p] = "checked" /\ stage' = [stage EXCEPT ![p] = "written"]
        /\ UNCHANGED <<stored, asks, redis, heard>>
        /\ returned' = [returned EXCEPT ![p] = stored[asks[p].job]]
    BY <1>7 DEF WritePatch, Moves, clientVars
  <2>2. asks[p].job \in Jobs
    BY <1>0, <2>1 DEF PatchFacts, FullAsk
  <2>3. returned' \in [Patches -> Reasons]
    BY <1>0, <2>1, <2>2 DEF ReasonFacts
  <2>4. \A q \in Patches : returned'[q] = "worker" => stage'[q] = "written" /\ asks'[q].job \in failures'
    BY <1>0, <1>1, <2>1, <2>2 DEF ReasonFacts, PatchFacts
  <2> QED BY <1>0, <1>1, <1>a, <2>1, <2>3, <2>4 DEF ReasonFacts
<1>8. ASSUME NEW p \in Patches, NEW from, Ends(p, from)
      PROVE  /\ returned' \in [Patches -> Reasons]
             /\ \A q \in Patches : returned'[q] = "worker" =>
                  stage'[q] = "written" /\ asks'[q].job \in failures'
  <2>1. returned' = [returned EXCEPT ![p] = "none"]
    BY <1>8 DEF Ends
  <2> QED BY <1>0, <1>1, <1>8, <2>1, EndsFacts DEF ReasonFacts, Reasons
<1>9. ASSUME NEW p \in Patches, RefusePatch(p) \/ PatchFails(p) PROVE ReasonFacts'
  <2>1. UNCHANGED <<stored, redis, heard>>
    BY <1>9 DEF RefusePatch, PatchFails, clientVars
  <2> QED BY <1>0, <1>1, <1>8, <1>9, <1>a, <2>1 DEF RefusePatch, PatchFails, ReasonFacts
<1>10. ASSUME NEW p \in Patches, AnnouncePatch(p) PROVE ReasonFacts'
  <2>1. /\ stage[p] = "written" /\ redis' = redis \o Announces(p)
        /\ UNCHANGED <<stored, heard>> /\ Ends(p, "written")
    BY <1>10 DEF AnnouncePatch, Ends, Moves, clientVars
  <2>2. asks[p] \in FullAsk /\ returned[p] \in Reasons
    BY <1>0, <2>1 DEF PatchFacts, ReasonFacts
  <2>3. Says(p, "query") \in Grounded
    BY <2>2 DEF Says, Grounded, Notification, FullAsk, Reasons
  <2>4. Says(p, ControllersReason(p)) \in Grounded
    BY <1>0, <2>2 DEF Says, ControllersReason, Grounded, Notification, FullAsk, Reasons,
                     ReasonFacts
  <2>5. Announces(p) \in Seq(Grounded')
    BY <1>1, <2>3, <2>4 DEF Announces
  <2>6. redis' \in Seq(Grounded')
    BY <1>a, <2>1, <2>5
  <2> QED BY <1>0, <1>1, <1>8, <1>a, <2>1, <2>6 DEF ReasonFacts
<1>11. CASE DeliverNotification
  <2>1. /\ redis # <<>> /\ redis' = Tail(redis) /\ Hear(Head(redis))
        /\ UNCHANGED <<stage, asks, returned, stored>>
    BY <1>11 DEF DeliverNotification, patchVars
  <2>2. Head(redis) \in Grounded
    BY <1>0, <2>1 DEF ReasonFacts
  <2>3. heard' \subseteq Grounded'
    BY <1>0, <2>1, <2>2, HearKeeps DEF ReasonFacts
  <2>4. redis' \in Seq(Grounded')
    BY <1>a, <2>1
  <2> QED BY <1>0, <1>1, <2>1, <2>3, <2>4 DEF ReasonFacts
<1>12. CASE LoseNotification
  <2>1. /\ redis # <<>> /\ redis' = Tail(redis)
        /\ UNCHANGED <<stage, asks, returned, stored, heard>>
    BY <1>12 DEF LoseNotification, patchVars, clientVars
  <2>2. redis' \in Seq(Grounded')
    BY <1>a, <2>1
  <2> QED BY <1>0, <1>1, <1>a, <2>1, <2>2 DEF ReasonFacts
<1>13. CASE ServiceCrash
  <2>1. /\ returned' = [p \in Patches |-> "none"] /\ redis' = <<>>
        /\ UNCHANGED <<stored, heard>>
    BY <1>13 DEF ServiceCrash
  <2> QED BY <1>0, <1>1, <1>a, <2>1 DEF ReasonFacts, Reasons
<1>14. CASE OpenStream \/ BreakStream \/ ConsumerQuiet \/ UNCHANGED allVars
            \/ \E j \in Jobs, s \in Statuses : Report(j, s)
  BY <1>4, <1>14 DEF OpenStream, BreakStream, ConsumerQuiet, Report, allVars, notifyVars,
                     patchVars, clientVars
<1>15. CASE ConsumerFails
  <2>1. CASE UNCHANGED <<row, notifyVars>>
    BY <1>4, <2>1 DEF notifyVars, patchVars, clientVars
  <2> QED BY <1>0, <1>15, <2>1, FailedUpdate, ConsumerWriteKeeps
<1> QED
  BY <1>2, <1>3, <1>5, <1>6, <1>7, <1>9, <1>10, <1>11, <1>12, <1>13, <1>14, <1>15
  DEF Next, Patch

-----------------------------------------------------------------------------
(* Announcements and rows.                                                 *)

\* What the due announcements of job j say, by where they are.
InboxSays(j) ==
  {inbox[i].status : i \in {k \in DOMAIN inbox : inbox[k].job = j /\ inbox[k].phase = "written"}}
OrphansSay(j) ==
  {m.status : m \in {n \in BagToSet(orphans) : n.job = j /\ n.phase = "written"}}
PatchesSay(j) ==
  {asks[p].status : p \in {q \in Patches : asks[q].job = j /\ stage[q] = "written"}}
RedisSays(j) == {redis[k].status : k \in {l \in DOMAIN redis : redis[l].job = j}}
Announced(j) == InboxSays(j) \cup OrphansSay(j) \cup PatchesSay(j) \cup RedisSays(j)

\* Of a job that nobody wrote while an announcement of it was due, every due
\* announcement says what the row says, and without one the last did.
Follows ==
  /\ IsABag(orphans)
  /\ notified \in [Jobs -> RowStatuses \cup {"none"}]
  /\ \A j \in Jobs \ overlapped :
       /\ Announced(j) \subseteq {row[j]}
       /\ Announced(j) = {} =>
            \/ j \in missed
            \/ notified[j] = row[j]
            \/ notified[j] = "none" /\ row[j] = "PENDING"

\* Due is having something to say.
LEMMA DueAnnounced == ASSUME NEW j PROVE Due(j) <=> Announced(j) # {}
<1>1. (\E i \in DOMAIN inbox : inbox[i].job = j /\ inbox[i].phase = "written") <=> InboxSays(j) # {}
  BY DEF InboxSays
<1>2. (\E m \in BagToSet(orphans) : m.job = j /\ m.phase = "written") <=> OrphansSay(j) # {}
  BY DEF OrphansSay
<1>3. (\E p \in Patches : asks[p].job = j /\ stage[p] = "written") <=> PatchesSay(j) # {}
  BY DEF PatchesSay
<1>4. (\E k \in DOMAIN redis : redis[k].job = j) <=> RedisSays(j) # {}
  BY DEF RedisSays
<1>5. Announced(j) # {} <=> \/ InboxSays(j) # {} \/ OrphansSay(j) # {}
                            \/ PatchesSay(j) # {} \/ RedisSays(j) # {}
  BY DEF Announced
<1> QED BY <1>1, <1>2, <1>3, <1>4, <1>5 DEF Due

\* A message that leaves the queue takes its announcement with it, if it is due.
LEMMA InboxLeaves ==
  ASSUME inbox \in Seq(Message), NEW i \in DOMAIN inbox, inbox' = RemoveAt(inbox, i), NEW j
  PROVE  /\ InboxSays(j)' \subseteq InboxSays(j)
         /\ j # inbox[i].job \/ inbox[i].phase # "written" => InboxSays(j)' = InboxSays(j)
<1>1. \A k \in DOMAIN inbox' : \E l \in DOMAIN inbox : inbox'[k] = inbox[l]
  <2> SUFFICES ASSUME NEW k \in DOMAIN inbox' PROVE \E l \in DOMAIN inbox : inbox'[k] = inbox[l]
    OBVIOUS
  <2> DEFINE l == IF k < i THEN k ELSE k + 1
  <2>1. i \in 1 .. Len(inbox) /\ Len(inbox) \in Nat /\ k \in 1 .. Len(inbox) - 1
    BY RemovalMovesUp
  <2>2. l \in 1 .. Len(inbox)
    BY <2>1
  <2>3. inbox'[k] = inbox[l]
    BY RemovalMovesUp
  <2> QED BY <2>2, <2>3
<1>2. \A l \in DOMAIN inbox \ {i} : \E k \in DOMAIN inbox' : inbox'[k] = inbox[l]
  BY RemovalKeepsOthers
<1> QED BY <1>1, <1>2 DEF InboxSays

\* A write of a row makes its announcement due; no other change of a phase does.
LEMMA InboxMarks ==
  ASSUME inbox \in Seq(Message), NEW i \in DOMAIN inbox, NEW p \in Phases,
         inbox[i].phase # "written", inbox' = [inbox EXCEPT ![i].phase = p], NEW j
  PROVE  InboxSays(j)' = IF j = inbox[i].job /\ p = "written"
                         THEN InboxSays(j) \cup {inbox[i].status} ELSE InboxSays(j)
<1>1. inbox[i] \in Message
  OBVIOUS
<1>2. /\ DOMAIN inbox' = DOMAIN inbox
      /\ inbox'[i].phase = p /\ inbox'[i].job = inbox[i].job /\ inbox'[i].status = inbox[i].status
      /\ \A k \in DOMAIN inbox \ {i} : inbox'[k] = inbox[k]
  BY <1>1 DEF Message
<1> QED BY <1>2 DEF InboxSays

\* So it is with a lost handler that ends, ...
LEMMA OrphanLeaves ==
  ASSUME IsABag(orphans), NEW m \in BagToSet(orphans), OrphanEnds(m), NEW j
  PROVE  /\ OrphansSay(j)' \subseteq OrphansSay(j)
         /\ j # m.job \/ m.phase # "written" => OrphansSay(j)' = OrphansSay(j)
<1>1. BagToSet(orphans') \subseteq BagToSet(orphans)
  BY OrphansMove DEF OrphanEnds
<1>2. \A n \in BagToSet(orphans) : n # m => n \in BagToSet(orphans')
  BY OtherOrphansStay DEF OrphanEnds
<1> QED BY <1>1, <1>2 DEF OrphansSay

\* ... or writes the row.
LEMMA OrphanMarks ==
  ASSUME IsABag(orphans), NEW m \in BagToSet(orphans), m \in Message, OrphanUpdatesRow(m), NEW j
  PROVE  OrphansSay(j)' = IF j = m.job THEN OrphansSay(j) \cup {m.status} ELSE OrphansSay(j)
<1> DEFINE n == [m EXCEPT !.phase = "written"]
<1>1. /\ orphans' = (orphans (-) SetToBag({m})) (+) SetToBag({n}) /\ m.phase = "received"
  BY DEF OrphanUpdatesRow, WriteRow
<1>2. n.job = m.job /\ n.status = m.status /\ n.phase = "written"
  BY DEF Message
<1> HIDE DEF n
<1>3. BagToSet(orphans') \subseteq BagToSet(orphans) \cup {n}
  BY <1>1, OrphansMove
<1>4. \A o \in BagToSet(orphans) : o # m => o \in BagToSet(orphans')
  BY <1>1, OtherOrphansStay
<1>5. n \in BagToSet(orphans')
  BY <1>1 DEF BagToSet, SetToBag, (+)
<1> QED BY <1>1, <1>2, <1>3, <1>4, <1>5 DEF OrphansSay

\* A request that ends before its UPDATE had nothing to say.
LEMMA RequestLeaves ==
  ASSUME PatchFacts, NEW p \in Patches, NEW from, Ends(p, from), NEW j \in Jobs
  PROVE  /\ PatchesSay(j)' \subseteq PatchesSay(j)
         /\ j # asks[p].job \/ from # "written" => PatchesSay(j)' = PatchesSay(j)
         /\ from = "written" /\ j = asks[p].job
              => PatchesSay(j) = PatchesSay(j)' \cup {asks[p].status}
<1>1. stage[p] = from /\ stage'[p] # "written"
  BY EndsFacts DEF Ends, Moves
<1>2. \A q \in Patches \ {p} : stage'[q] = stage[q] /\ asks'[q] = asks[q]
  BY EndsFacts
<1> QED BY <1>1, <1>2 DEF PatchesSay

\* What is published is due, ...
LEMMA RedisTakes ==
  ASSUME redis \in Seq(Notification), NEW m \in Notification, NEW n \in Notification,
         m.job = n.job, m.status = n.status, redis' = redis \o <<m, n>>, NEW j
  PROVE  RedisSays(j)' = IF j = n.job THEN RedisSays(j) \cup {n.status} ELSE RedisSays(j)
<1>1. /\ redis' \in Seq(Notification) /\ Len(redis') = Len(redis) + 2 /\ Len(redis) \in Nat
      /\ \A k \in 1 .. Len(redis) : redis'[k] = redis[k]
      /\ redis'[Len(redis) + 1] = m /\ redis'[Len(redis) + 2] = n
  OBVIOUS
<1>2. /\ DOMAIN redis' = DOMAIN redis \cup {Len(redis) + 1, Len(redis) + 2}
      /\ DOMAIN redis = 1 .. Len(redis)
  BY <1>1
<1>3. \A x : x \in RedisSays(j)' <=> \E k \in DOMAIN redis' : redis'[k].job = j /\ redis'[k].status = x
  BY DEF RedisSays
<1>4. \A x : x \in RedisSays(j) <=> \E k \in DOMAIN redis : redis[k].job = j /\ redis[k].status = x
  BY DEF RedisSays
<1>5. RedisSays(j) \subseteq RedisSays(j)'
  <2> SUFFICES ASSUME NEW x \in RedisSays(j) PROVE x \in RedisSays(j)'
    OBVIOUS
  <2>1. PICK k \in DOMAIN redis : redis[k].job = j /\ redis[k].status = x
    BY <1>4
  <2>2. k \in DOMAIN redis' /\ redis'[k] = redis[k]
    BY <1>1, <1>2
  <2> QED BY <1>3, <2>1, <2>2
<1>6. ASSUME j = n.job PROVE n.status \in RedisSays(j)'
  <2>1. Len(redis) + 2 \in DOMAIN redis'
    BY <1>2
  <2> QED BY <1>1, <1>3, <1>6, <2>1
<1>7. ASSUME NEW x \in RedisSays(j)' PROVE x \in RedisSays(j) \/ (j = n.job /\ x = n.status)
  <2>1. PICK k \in DOMAIN redis' : redis'[k].job = j /\ redis'[k].status = x
    BY <1>3
  <2>2. CASE k \in DOMAIN redis
    <3>1. redis'[k] = redis[k]
      BY <1>1, <1>2, <2>2
    <3> QED BY <1>4, <2>1, <2>2, <3>1
  <2>3. CASE k \notin DOMAIN redis
    BY <1>1, <1>2, <2>1, <2>3
  <2> QED BY <2>2, <2>3
<1> QED BY <1>5, <1>6, <1>7

\* ... until it arrives or is lost.
LEMMA RedisGives ==
  ASSUME redis \in Seq(Notification), redis # <<>>, redis' = Tail(redis), NEW j
  PROVE  /\ RedisSays(j)' \subseteq RedisSays(j)
         /\ j # Head(redis).job => RedisSays(j)' = RedisSays(j)
         /\ j = Head(redis).job => Head(redis).status \in RedisSays(j)
<1>1. /\ redis' \in Seq(Notification) /\ Len(redis') = Len(redis) - 1 /\ Len(redis) \in Nat \ {0}
      /\ \A k \in 1 .. Len(redis) - 1 : redis'[k] = redis[k + 1]
      /\ Head(redis) = redis[1]
  OBVIOUS
<1>2. DOMAIN redis' = 1 .. Len(redis) - 1 /\ DOMAIN redis = 1 .. Len(redis)
  BY <1>1
<1>3. \A l \in DOMAIN redis \ {1} : l - 1 \in DOMAIN redis' /\ redis'[l - 1] = redis[l]
  BY <1>1, <1>2
<1>4. \A k \in DOMAIN redis' : k + 1 \in DOMAIN redis /\ redis'[k] = redis[k + 1]
  BY <1>1, <1>2
<1>5. \A x : x \in RedisSays(j)' <=> \E k \in DOMAIN redis' : redis'[k].job = j /\ redis'[k].status = x
  BY DEF RedisSays
<1>6. \A x : x \in RedisSays(j) <=> \E k \in DOMAIN redis : redis[k].job = j /\ redis[k].status = x
  BY DEF RedisSays
<1>7. RedisSays(j)' \subseteq RedisSays(j)
  BY <1>4, <1>5, <1>6
<1>8. ASSUME j # Head(redis).job, NEW x \in RedisSays(j) PROVE x \in RedisSays(j)'
  <2>1. PICK l \in DOMAIN redis : redis[l].job = j /\ redis[l].status = x
    BY <1>6, <1>8
  <2>2. l # 1
    BY <1>1, <1>8, <2>1
  <2>3. l - 1 \in DOMAIN redis' /\ redis'[l - 1] = redis[l]
    BY <1>3, <2>2
  <2> QED BY <1>5, <2>1, <2>3
<1>9. j = Head(redis).job => Head(redis).status \in RedisSays(j)
  BY <1>1, <1>2, <1>6
<1> QED BY <1>7, <1>8, <1>9

\* A step that writes and tells nothing loses an announcement in the open only.
LEMMA NothingToldOrWritten ==
  ASSUME Follows, IsABag(orphans'), UNCHANGED <<row, notified, overlapped>>,
         missed \subseteq missed',
         \A j \in Jobs : \/ Announced(j)' = Announced(j)
                         \/ Announced(j)' \subseteq Announced(j) /\ j \in missed'
  PROVE  Follows'
<1> HIDE DEF Announced
<1> QED BY DEF Follows

\* The last announcement of a job to be told agrees with its row.
LEMMA TellingFollows ==
  ASSUME Follows, IsABag(orphans'), UNCHANGED <<row, overlapped>>, missed \subseteq missed',
         NEW j \in Jobs, NEW s \in Announced(j) \cap RowStatuses,
         notified' = [notified EXCEPT ![j] = s],
         Announced(j)' \subseteq Announced(j),
         \A k \in Jobs \ {j} : Announced(k)' = Announced(k)
  PROVE  Follows'
<1> HIDE DEF Announced
<1>1. notified' \in [Jobs -> RowStatuses \cup {"none"}] /\ notified'[j] = s
      /\ \A k \in Jobs \ {j} : notified'[k] = notified[k]
  BY DEF Follows
<1> QED BY <1>1 DEF Follows

\* A write with nothing due leaves its own announcement as the only one.
LEMMA WritingFollows ==
  ASSUME NotifyInv, Follows, IsABag(orphans'), UNCHANGED notified, missed \subseteq missed',
         NEW j \in Jobs, NEW s \in RowStatuses, NEW q,
         row' = [row EXCEPT ![j] = s], Remember(j, q),
         \/ Announced(j)' = Announced(j) \cup {s}
         \/ Announced(j)' = Announced(j) /\ j \in missed',
         \A k \in Jobs \ {j} : Announced(k)' = Announced(k)
  PROVE  Follows'
<1>1. row'[j] = s /\ \A k \in Jobs \ {j} : row'[k] = row[k]
  BY DEF NotifyInv, PatchFacts
<1>2. overlapped' = IF Announced(j) # {} THEN overlapped \cup {j} ELSE overlapped
  BY DueAnnounced DEF Remember
<1> HIDE DEF Announced
<1> QED BY <1>1, <1>2 DEF Follows

\* Each step keeps it.
LEMMA FollowsStep == NotifyInv /\ Follows /\ [Next]_allVars => Follows'
<1> SUFFICES ASSUME NotifyInv, Follows, [Next]_allVars PROVE Follows'
  OBVIOUS
<1>0. MessageFacts /\ PatchFacts /\ ReasonFacts /\ IsABag(orphans)
  BY DEF NotifyInv, Follows
<1>a. inbox \in Seq(Message) /\ \A i \in DOMAIN inbox : inbox[i] \in Message
  BY <1>0 DEF MessageFacts, Blamed
<1>b. BagToSet(orphans) \subseteq Message
  BY <1>0 DEF MessageFacts, Blamed
<1>c. redis \in Seq(Notification)
  BY <1>0 DEF ReasonFacts, Grounded
<1>d. /\ UNCHANGED inbox => \A j : InboxSays(j)' = InboxSays(j)
      /\ UNCHANGED orphans => IsABag(orphans') /\ \A j : OrphansSay(j)' = OrphansSay(j)
      /\ UNCHANGED <<stage, asks>> => \A j : PatchesSay(j)' = PatchesSay(j)
      /\ UNCHANGED redis => \A j : RedisSays(j)' = RedisSays(j)
  BY <1>0 DEF InboxSays, OrphansSay, PatchesSay, RedisSays
<1>e. Message \subseteq [job : Jobs, status : RowStatuses, phase : Phases]
  BY DEF Message, RowStatuses
<1>f. ASSUME NEW m \in BagToSet(orphans), OrphanEnds(m) PROVE IsABag(orphans')
  BY <1>0, <1>f, OrphansStayBag DEF OrphanEnds
<1>1. ASSUME NEW j \in Jobs, NEW s \in Statuses, Report(j, s) PROVE Follows'
  <2> DEFINE m == [job |-> j, status |-> s, phase |-> "queued"]
  <2>1. inbox' = Append(inbox, m) /\ m.phase = "queued"
    BY <1>1 DEF Report, Enqueue
  <2> HIDE DEF m
  <2>2. /\ Len(inbox) \in Nat /\ DOMAIN inbox = 1 .. Len(inbox)
        /\ DOMAIN inbox' = 1 .. Len(inbox) + 1
        /\ inbox'[Len(inbox) + 1] = m /\ \A k \in DOMAIN inbox : inbox'[k] = inbox[k]
    BY <1>a, <2>1
  <2>3. \A k : InboxSays(k)' = InboxSays(k)
    BY <2>1, <2>2 DEF InboxSays
  <2>4. UNCHANGED <<orphans, stage, asks, redis, row, notified, overlapped, missed>>
    BY <1>1 DEF Report, Enqueue, patchVars, historyVars
  <2>5. \A k : Announced(k)' = Announced(k)
    BY <1>d, <2>3, <2>4 DEF Announced
  <2> QED BY <1>d, <2>4, <2>5, NothingToldOrWritten
<1>2. ASSUME NEW i \in DOMAIN inbox, UpdateRow(i), Store(inbox[i]), UNCHANGED missed
      PROVE  Follows'
  <2>0. PICK j \in Jobs, s \in RowStatuses : j = inbox[i].job /\ s = inbox[i].status
    BY <1>a, <1>e
  <2>1. /\ inbox' = [inbox EXCEPT ![i].phase = "written"] /\ inbox[i].phase = "received"
        /\ row' = [row EXCEPT ![j] = s] /\ Remember(j, NoPatch)
        /\ UNCHANGED <<orphans, stage, asks, redis, notified, missed>>
    BY <1>2, <2>0 DEF UpdateRow, WriteRow, Store, patchVars
  <2>3. \A k : InboxSays(k)' = IF k = j THEN InboxSays(k) \cup {s} ELSE InboxSays(k)
    BY <1>a, <2>0, <2>1, InboxMarks DEF Phases
  <2>4. Announced(j)' = Announced(j) \cup {s} /\ \A k \in Jobs \ {j} : Announced(k)' = Announced(k)
    BY <1>d, <2>1, <2>3 DEF Announced
  <2> QED BY <1>d, <2>1, <2>4, WritingFollows
<1>3. ASSUME NEW m \in BagToSet(orphans), OrphanUpdatesRow(m), Store(m), UNCHANGED missed
      PROVE  Follows'
  <2>1. /\ row' = [row EXCEPT ![m.job] = m.status] /\ Remember(m.job, NoPatch)
        /\ UNCHANGED <<inbox, stage, asks, redis, notified, missed>>
    BY <1>3 DEF OrphanUpdatesRow, WriteRow, Store, patchVars
  <2>2. m \in Message /\ m.job \in Jobs /\ m.status \in RowStatuses
    BY <1>b, <1>e
  <2>3. \A k : OrphansSay(k)' = IF k = m.job THEN OrphansSay(k) \cup {m.status} ELSE OrphansSay(k)
    BY <1>0, <1>3, <2>2, OrphanMarks
  <2>4. IsABag(orphans')
    BY <1>0, <1>3, OrphansStayBag DEF OrphanUpdatesRow
  <2>5. /\ Announced(m.job)' = Announced(m.job) \cup {m.status}
        /\ \A k \in Jobs \ {m.job} : Announced(k)' = Announced(k)
    BY <1>d, <2>1, <2>3 DEF Announced
  <2> QED BY <2>1, <2>2, <2>4, <2>5, WritingFollows
<1>4. ASSUME NEW i \in DOMAIN inbox, EmitAndAck(i), Told(inbox[i]) PROVE Follows'
  <2>0. PICK j \in Jobs, s \in RowStatuses : j = inbox[i].job /\ s = inbox[i].status
    BY <1>a, <1>e
  <2>1. /\ inbox' = RemoveAt(inbox, i) /\ inbox[i].phase = "written"
        /\ notified' = [notified EXCEPT ![j] = s] /\ missed \subseteq missed'
        /\ UNCHANGED <<orphans, stage, asks, redis, row, overlapped>>
    BY <1>4, <2>0 DEF EmitAndAck, EmitStatus, Told, Hear, patchVars
  <2>3. s \in InboxSays(j)
    BY <2>0, <2>1 DEF InboxSays
  <2>4. \A k : InboxSays(k)' \subseteq InboxSays(k) /\ (k # j => InboxSays(k)' = InboxSays(k))
    BY <1>a, <2>0, <2>1, InboxLeaves
  <2>5. /\ s \in Announced(j) /\ Announced(j)' \subseteq Announced(j)
        /\ \A k \in Jobs \ {j} : Announced(k)' = Announced(k)
    BY <1>d, <2>1, <2>3, <2>4 DEF Announced
  <2> QED BY <1>d, <2>1, <2>5, TellingFollows
<1>5. ASSUME NEW m \in BagToSet(orphans), OrphanEmits(m), Told(m) PROVE Follows'
  <2>1. /\ OrphanEnds(m) /\ m.phase = "written"
        /\ notified' = [notified EXCEPT ![m.job] = m.status] /\ missed \subseteq missed'
        /\ UNCHANGED <<inbox, stage, asks, redis, row, overlapped>>
    BY <1>5 DEF OrphanEmits, OrphanEnds, EmitStatus, Told, Hear, patchVars
  <2>2. m.job \in Jobs /\ m.status \in RowStatuses
    BY <1>b, <1>e
  <2>3. m.status \in OrphansSay(m.job)
    BY <2>1 DEF OrphansSay
  <2>4. \A k : OrphansSay(k)' \subseteq OrphansSay(k) /\ (k # m.job => OrphansSay(k)' = OrphansSay(k))
    BY <1>0, <2>1, OrphanLeaves
  <2>5. /\ m.status \in Announced(m.job) /\ Announced(m.job)' \subseteq Announced(m.job)
        /\ \A k \in Jobs \ {m.job} : Announced(k)' = Announced(k)
    BY <1>d, <2>1, <2>3, <2>4 DEF Announced
  <2> QED BY <1>f, <2>1, <2>2, <2>5, TellingFollows
<1>6. CASE ConsumerQuiet
  <2>1. UNCHANGED <<stage, asks, redis, row, notified, overlapped, missed>>
    BY <1>6 DEF ConsumerQuiet, HandleStatus, LoseConsumerChannel, notifyVars, patchVars, historyVars
  <2>2. ASSUME IsABag(orphans'),
               \A j : InboxSays(j)' \cup OrphansSay(j)' = InboxSays(j) \cup OrphansSay(j)
        PROVE  Follows'
    <3>1. \A j : Announced(j)' = Announced(j)
      BY <1>d, <2>1, <2>2 DEF Announced
    <3> QED BY <2>1, <2>2, <3>1, NothingToldOrWritten
  <2>3. ASSUME NEW i \in DOMAIN inbox, HandleStatus(i) PROVE Follows'
    <3>1. /\ inbox' = [inbox EXCEPT ![i].phase = "received"] /\ inbox[i].phase = "queued"
          /\ UNCHANGED orphans
      BY <2>3 DEF HandleStatus, IsNext
    <3>2. \A j : InboxSays(j)' = InboxSays(j)
      BY <1>a, <3>1, InboxMarks DEF Phases
    <3> QED BY <1>d, <2>2, <3>1, <3>2
  <2>4. CASE LoseConsumerChannel
    <3>1. IsABag(orphans') /\ BagToSet(orphans') = BagToSet(orphans) \cup {inbox[i] : i \in InProgress}
      BY <1>0, <1>a, <2>4, LostHandlersJoin
    <3>2. \A j : OrphansSay(j)' = OrphansSay(j) \cup InboxSays(j)
      BY <3>1 DEF OrphansSay, InboxSays, InProgress
    <3>3. \A j : InboxSays(j)' = {}
      <4>1. \A i \in DOMAIN inbox : [inbox[i] EXCEPT !.phase = "queued"].phase = "queued"
        BY <1>a DEF Message
      <4> QED BY <2>4, <4>1 DEF LoseConsumerChannel, RequeueInbox, InboxSays
    <3> QED BY <2>2, <3>1, <3>2, <3>3
  <2> QED BY <1>6, <2>3, <2>4 DEF ConsumerQuiet
<1>7. ASSUME NEW p \in Patches, RequestPatch(p) \/ FindRow(p) PROVE Follows'
  <2>1. /\ UNCHANGED <<inbox, orphans, redis, row, notified, overlapped, missed>>
        /\ stage[p] # "written" /\ stage'[p] # "written"
        /\ \A q \in Patches \ {p} : stage'[q] = stage[q] /\ asks'[q] = asks[q]
    BY <1>0, <1>7 DEF RequestPatch, FindRow, Moves, PatchFacts, consumerVars, historyVars
  <2>2. \A j : PatchesSay(j)' = PatchesSay(j)
    BY <2>1 DEF PatchesSay
  <2>3. \A j : Announced(j)' = Announced(j)
    BY <1>d, <2>1, <2>2 DEF Announced
  <2> QED BY <1>d, <2>1, <2>3, NothingToldOrWritten
<1>8. ASSUME NEW p \in Patches, NEW from, Ends(p, from), from # "written",
             UNCHANGED <<inbox, orphans, redis>>
      PROVE  IsABag(orphans') /\ \A j \in Jobs : Announced(j)' = Announced(j)
  <2>1. \A j \in Jobs : PatchesSay(j)' = PatchesSay(j)
    BY <1>0, <1>8, RequestLeaves
  <2> QED BY <1>d, <1>8, <2>1 DEF Announced
<1>9. ASSUME NEW p \in Patches, RefusePatch(p) PROVE Follows'
  <2>1. /\ Ends(p, "reading")
        /\ UNCHANGED <<inbox, orphans, redis, row, notified, overlapped, missed>>
    BY <1>9 DEF RefusePatch, consumerVars, historyVars
  <2> QED BY <1>8, <2>1, NothingToldOrWritten
<1>10. ASSUME NEW p \in Patches, stage[p] = "checked"
       PROVE  asks[p].job \in Jobs /\ asks[p].status \in RowStatuses
  BY <1>0, <1>10 DEF PatchFacts, FullAsk, RowStatuses
<1>11. ASSUME NEW p \in Patches, WritePatch(p) PROVE Follows'
  <2>0. PICK j \in Jobs, s \in RowStatuses : j = asks[p].job /\ s = asks[p].status
    BY <1>10, <1>11 DEF WritePatch, Moves
  <2>1. /\ stage[p] = "checked" /\ stage' = [stage EXCEPT ![p] = "written"]
        /\ row' = [row EXCEPT ![j] = s] /\ Remember(j, p)
        /\ UNCHANGED <<inbox, orphans, asks, redis, notified, missed>>
    BY <1>11, <2>0 DEF WritePatch, Moves, PatchRow
  <2>2. stage'[p] = "written" /\ \A q \in Patches \ {p} : stage'[q] = stage[q]
    BY <1>0, <2>1 DEF PatchFacts
  <2>3. \A k : PatchesSay(k)' = IF k = j THEN PatchesSay(k) \cup {s} ELSE PatchesSay(k)
    BY <2>0, <2>1, <2>2 DEF PatchesSay
  <2>4. Announced(j)' = Announced(j) \cup {s} /\ \A k \in Jobs \ {j} : Announced(k)' = Announced(k)
    BY <1>d, <2>1, <2>3 DEF Announced
  <2> QED BY <1>d, <2>1, <2>4, WritingFollows
<1>12. ASSUME NEW p \in Patches, PatchFails(p) PROVE Follows'
  <2>1. UNCHANGED <<inbox, orphans, redis, notified>>
    BY <1>12 DEF PatchFails
  <2>2. CASE /\ Ends(p, "reading") \/ Ends(p, "checked")
             /\ UNCHANGED <<row, overlapped, missed>>
    <3>1. IsABag(orphans') /\ \A j \in Jobs : Announced(j)' = Announced(j)
      BY <1>8, <2>1, <2>2
    <3> QED BY <2>1, <2>2, <3>1, NothingToldOrWritten
  <2>3. CASE Ends(p, "checked") /\ PatchRow(p) /\ missed' = missed \cup {asks[p].job}
    <3>1. IsABag(orphans') /\ \A j \in Jobs : Announced(j)' = Announced(j)
      BY <1>8, <2>1, <2>3
    <3>2. asks[p].job \in Jobs /\ asks[p].status \in RowStatuses
      BY <1>10, <2>3 DEF Ends, Moves
    <3> QED BY <2>1, <2>3, <3>1, <3>2, WritingFollows DEF PatchRow
  <2> QED BY <1>12, <2>2, <2>3 DEF PatchFails
<1>13. ASSUME NEW p \in Patches, AnnouncePatch(p) PROVE Follows'
  <2>1. /\ Ends(p, "written") /\ redis' = redis \o Announces(p)
        /\ UNCHANGED <<inbox, orphans, row, notified, overlapped, missed>>
    BY <1>13 DEF AnnouncePatch, consumerVars, historyVars
  <2>2. asks[p] \in FullAsk /\ returned[p] \in Reasons
    BY <1>0, <2>1 DEF PatchFacts, ReasonFacts, Ends, Moves
  <2>3. PICK j \in Jobs, s \in PatchStatuses : j = asks[p].job /\ s = asks[p].status
    BY <2>2 DEF FullAsk
  <2>4. PICK r \in Reasons : r = ControllersReason(p)
    BY <2>2 DEF ControllersReason, Reasons
  <2>5. \A k : RedisSays(k)' = IF k = j THEN RedisSays(k) \cup {s} ELSE RedisSays(k)
    <3>1. PICK m \in Notification, n \in Notification :
            /\ m = [job |-> j, status |-> s, reason |-> "query"]
            /\ n = [job |-> j, status |-> s, reason |-> r]
      BY DEF Notification, Reasons
    <3>2. m.job = j /\ n.job = j /\ m.status = s /\ n.status = s
      BY <3>1
    <3>3. redis' = redis \o <<m, n>>
      BY <2>1, <2>3, <2>4, <3>1 DEF Announces, Says
    <3> QED BY <1>c, <3>2, <3>3, RedisTakes
  <2>6. \A k \in Jobs : /\ k # j => PatchesSay(k)' = PatchesSay(k)
                        /\ k = j => PatchesSay(k) = PatchesSay(k)' \cup {s}
    BY <1>0, <2>1, <2>3, RequestLeaves
  <2>7. \A k \in Jobs : Announced(k)' = Announced(k)
    BY <1>d, <2>1, <2>5, <2>6 DEF Announced
  <2> QED BY <1>d, <2>1, <2>7, NothingToldOrWritten
<1>14. CASE DeliverNotification \/ LoseNotification
  <2>1. redis # <<>> /\ redis' = Tail(redis) /\ UNCHANGED <<inbox, orphans, stage, asks, row>>
    BY <1>14 DEF DeliverNotification, LoseNotification, consumerVars, patchVars
  <2>3. PICK j \in Jobs, s \in RowStatuses : j = Head(redis).job /\ s = Head(redis).status
    <3>1. Head(redis) \in Notification
      BY <1>c, <2>1
    <3> QED BY <3>1 DEF Notification, RowStatuses
  <2>2. /\ \A k : RedisSays(k)' \subseteq RedisSays(k) /\ (k # j => RedisSays(k)' = RedisSays(k))
        /\ s \in RedisSays(j)
    BY <1>c, <2>1, <2>3, RedisGives
  <2>4. CASE DeliverNotification
    <3>1. /\ notified' = [notified EXCEPT ![j] = s] /\ missed \subseteq missed'
          /\ UNCHANGED overlapped
      BY <2>3, <2>4 DEF DeliverNotification, Hear
    <3>2. /\ s \in Announced(j) /\ Announced(j)' \subseteq Announced(j)
          /\ \A k \in Jobs \ {j} : Announced(k)' = Announced(k)
      BY <1>d, <2>1, <2>2 DEF Announced
    <3> QED BY <1>d, <2>1, <3>1, <3>2, TellingFollows
  <2>5. CASE LoseNotification
    <3>1. missed' = missed \cup {j} /\ UNCHANGED <<notified, overlapped>>
      BY <2>3, <2>5 DEF LoseNotification, consumerVars
    <3>2. /\ Announced(j)' \subseteq Announced(j)
          /\ \A k \in Jobs \ {j} : Announced(k)' = Announced(k)
      BY <1>d, <2>1, <2>2 DEF Announced
    <3> QED BY <1>d, <2>1, <3>1, <3>2, NothingToldOrWritten
  <2> QED BY <1>14, <2>4, <2>5
<1>15. CASE ServiceCrash
  <2>1. /\ orphans' = EmptyBag /\ redis' = <<>> /\ UNCHANGED <<row, notified, overlapped>>
        /\ missed' = missed \cup {j \in Jobs : Due(j)}
    BY <1>15 DEF ServiceCrash
  <2>2. \A j \in Jobs : j \in missed' \/ Announced(j) = {}
    BY <2>1, DueAnnounced
  <2>3. IsABag(orphans') /\ \A j : OrphansSay(j)' = {} /\ RedisSays(j)' = {}
    BY <2>1 DEF EmptyBag, SetToBag, IsABag, BagToSet, OrphansSay, RedisSays
  <2>4. \A j : InboxSays(j)' = {}
    <3>1. \A i \in DOMAIN inbox : [inbox[i] EXCEPT !.phase = "queued"].phase = "queued"
      BY <1>a DEF Message
    <3> QED BY <1>15, <3>1 DEF ServiceCrash, RequeueInbox, InboxSays
  <2>5. \A j : PatchesSay(j)' = {}
    BY <1>15 DEF ServiceCrash, PatchesSay
  <2>6. \A j : Announced(j)' = {}
    BY <2>3, <2>4, <2>5 DEF Announced
  <2> QED BY <2>1, <2>2, <2>3, <2>6, NothingToldOrWritten
<1>16. CASE OpenStream \/ BreakStream \/ UNCHANGED allVars
  <2>1. UNCHANGED <<inbox, orphans, stage, asks, redis, row, notified, overlapped, missed>>
    BY <1>16 DEF OpenStream, BreakStream, allVars, consumerVars, notifyVars, patchVars,
                 historyVars
  <2>2. \A j : Announced(j)' = Announced(j)
    BY <1>d, <2>1 DEF Announced
  <2> QED BY <1>d, <2>1, <2>2, NothingToldOrWritten
<1>17. ASSUME NEW m \in Message, NEW commits \in BOOLEAN, IsABag(orphans'),
              FailWrite(m, commits), Unannounced(m, commits),
              \A j : InboxSays(j)' = InboxSays(j) /\ OrphansSay(j)' = OrphansSay(j)
       PROVE  Follows'
  <2>1. UNCHANGED <<notified, stage, asks, redis>>
    BY <1>17 DEF FailWrite, Unannounced, Store, notifyVars, patchVars
  <2>2. \A j : Announced(j)' = Announced(j)
    BY <1>d, <1>17, <2>1 DEF Announced
  <2>3. CASE commits
    <3>1. PICK j \in Jobs, s \in RowStatuses : j = m.job /\ s = m.status
      BY <1>e
    <3>2. row' = [row EXCEPT ![j] = s] /\ Remember(j, NoPatch) /\ missed' = missed \cup {j}
      BY <1>17, <2>3, <3>1 DEF FailWrite, Unannounced, Store
    <3> QED BY <1>17, <2>1, <2>2, <3>2, WritingFollows
  <2>4. CASE ~ commits
    <3>1. UNCHANGED <<row, overlapped, missed>>
      BY <1>17, <2>4 DEF FailWrite, Unannounced, notifyVars, historyVars
    <3> QED BY <1>17, <2>1, <2>2, <3>1, NothingToldOrWritten
  <2> QED BY <2>3, <2>4
<1>18. ASSUME NEW commits \in BOOLEAN, NEW i \in DOMAIN inbox,
              UpdateFails(i, commits), Unannounced(inbox[i], commits)
       PROVE  Follows'
  <2>1. /\ inbox' = RemoveAt(inbox, i) /\ inbox[i].phase = "received" /\ UNCHANGED orphans
        /\ FailWrite(inbox[i], commits)
    BY <1>18 DEF UpdateFails, FailWrite
  <2>2. \A j : InboxSays(j)' = InboxSays(j)
    BY <1>a, <2>1, InboxLeaves
  <2> QED BY <1>a, <1>d, <1>17, <1>18, <2>1, <2>2
<1>19. ASSUME NEW commits \in BOOLEAN, NEW m \in BagToSet(orphans),
              OrphanUpdateFails(m, commits), Unannounced(m, commits)
       PROVE  Follows'
  <2>1. OrphanEnds(m) /\ m.phase = "received" /\ UNCHANGED inbox /\ FailWrite(m, commits)
    BY <1>19 DEF OrphanUpdateFails, OrphanEnds, FailWrite
  <2>2. \A j : OrphansSay(j)' = OrphansSay(j)
    BY <1>0, <2>1, OrphanLeaves
  <2> QED BY <1>b, <1>d, <1>f, <1>17, <1>19, <2>1, <2>2
<1> QED
  BY <1>1, <1>2, <1>3, <1>4, <1>5, <1>6, <1>7, <1>9, <1>11, <1>12, <1>13, <1>14, <1>15, <1>16,
     <1>18, <1>19
  DEF Next, ConsumerWrites, ConsumerFails, ConsumerTells, Patch

-----------------------------------------------------------------------------
(* The properties.                                                         *)

\* The facts hold at the start and in every reachable state.
THEOREM NotifyInvariance == Spec => []NotifyInv
<1>1. Init => NotifyInv
  <2> SUFFICES ASSUME Init PROVE NotifyInv
    OBVIOUS
  <2>1. MessageFacts
    BY DEF Init, ConsumerInit, MessageFacts, BagToSet, EmptyBag, SetToBag
  <2>2. PatchFacts
    BY DEF Init, ConsumerInit, PatchFacts, RowStatuses, Stages, NoAsk
  <2>3. RaceFacts
    BY DEF Init, RaceFacts
  <2>4. ReasonFacts
    BY DEF Init, ReasonFacts, Reasons
  <2> QED BY <2>1, <2>2, <2>3, <2>4 DEF NotifyInv
<1>2. NotifyInv /\ [Next]_allVars => NotifyInv'
  BY MessageStep, PatchStep, ReasonStep DEF NotifyInv
<1> QED BY <1>1, <1>2, PTL DEF Spec

\* A worker's reason is heard with FAILED only, of a job a worker has failed
\* (the errorMessage UploadController reads back from the row).
THEOREM WorkersReasonFounded == Spec => []WorkersReasonMeansFailure
<1>1. NotifyInv => WorkersReasonMeansFailure
  BY DEF NotifyInv, ReasonFacts, Grounded, WorkersReasonMeansFailure
<1> QED BY <1>1, NotifyInvariance, PTL

\* A PATCH writes the status the row already has only after a race (the check of
\* updateImageProcessingStatus and its UPDATE).
THEOREM SameStatusRaces == Spec => SameStatusOnlyByRace
<1>1. NotifyInv /\ [Next]_allVars =>
        [\A p \in Patches :
           stage[p] = "checked" /\ stage'[p] = "written" /\ row[asks[p].job] = asks[p].status
             => p \in raced]_allVars
  BY DEF NotifyInv, RaceFacts
<1> QED BY <1>1, NotifyInvariance, PTL DEF Spec, SameStatusOnlyByRace

\* Clients are misled by overlapping writers and by announcements dropped or never
\* made, as of an UPDATE that commits and then fails, only, for all jobs and
\* requests, whatever crashes and fails (UPDATE before emit in
\* processGoWorkerStatus, and before both publishes of a PATCH).
THEOREM OverlapsAloneMislead == Spec => []OnlyOverlapsMislead
<1>1. Init => Follows
  <2> SUFFICES ASSUME Init PROVE Follows
    OBVIOUS
  <2>1. IsABag(orphans) /\ notified \in [Jobs -> RowStatuses \cup {"none"}]
    BY DEF Init, ConsumerInit, IsABag, EmptyBag, SetToBag
  <2>2. ASSUME NEW j PROVE Announced(j) = {}
    <3>1. InboxSays(j) = {} /\ OrphansSay(j) = {}
      BY DEF Init, ConsumerInit, InboxSays, OrphansSay, BagToSet, EmptyBag, SetToBag
    <3>2. PatchesSay(j) = {} /\ RedisSays(j) = {}
      BY DEF Init, PatchesSay, RedisSays
    <3> QED BY <3>1, <3>2 DEF Announced
  <2>3. \A j \in Jobs : notified[j] = "none" /\ row[j] = "PENDING"
    BY DEF Init, ConsumerInit
  <2> QED BY <2>1, <2>2, <2>3 DEF Follows
<1>2. Follows => OnlyOverlapsMislead
  <2> SUFFICES ASSUME Follows, NEW j \in Jobs, ~ Due(j), j \notin overlapped \cup missed
               PROVE  notified[j] = row[j] \/ (notified[j] = "none" /\ row[j] = "PENDING")
    BY DEF OnlyOverlapsMislead
  <2>1. Announced(j) = {}
    BY DueAnnounced
  <2> QED BY <2>1 DEF Follows
<1> QED BY <1>1, <1>2, FollowsStep, NotifyInvariance, PTL DEF Spec
=============================================================================
