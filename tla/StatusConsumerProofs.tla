------------------------ MODULE StatusConsumerProofs ------------------------
(***************************************************************************)
(* Facts about the consumer's queue, its orphans and its types, and about  *)
(* jobs whose handlers do not overlap, for every number of jobs, handlers  *)
(* and faults.                                                             *)
(***************************************************************************)
EXTENDS StatusConsumer, FiniteSetTheorems, TLAPS

-----------------------------------------------------------------------------
(* Removal from a queue, and lost handlers.                                *)

\* Removing an element moves up what follows it.
LEMMA RemovalMovesUp ==
  ASSUME NEW M, NEW s \in Seq(M), NEW i \in DOMAIN s
  PROVE  /\ RemoveAt(s, i) \in Seq(M) /\ Len(RemoveAt(s, i)) = Len(s) - 1
         /\ \A k \in DOMAIN RemoveAt(s, i) :
              RemoveAt(s, i)[k] = IF k < i THEN s[k] ELSE s[k + 1]
<1> DEFINE a == SubSeq(s, 1, i - 1)
           b == SubSeq(s, i + 1, Len(s))
<1>1. i \in 1 .. Len(s) /\ Len(s) \in Nat
  OBVIOUS
<1>2. a \in Seq(M) /\ Len(a) = i - 1 /\ \A k \in 1 .. i - 1 : a[k] = s[k]
  BY <1>1
<1>3. b \in Seq(M) /\ Len(b) = Len(s) - i /\ \A k \in 1 .. Len(s) - i : b[k] = s[i + k]
  BY <1>1
<1>4. RemoveAt(s, i) = a \o b
  BY DEF RemoveAt
<1> HIDE DEF a, b
<1>5. a \o b \in Seq(M) /\ Len(a \o b) = Len(s) - 1
  BY <1>1, <1>2, <1>3
<1>6. ASSUME NEW k \in DOMAIN (a \o b)
      PROVE  (a \o b)[k] = IF k < i THEN s[k] ELSE s[k + 1]
  <2>1. k \in 1 .. Len(s) - 1
    BY <1>5
  <2>2. CASE k < i
    BY <1>1, <1>2, <1>3, <2>1, <2>2
  <2>3. CASE ~ (k < i)
    <3>1. (a \o b)[k] = b[k - (i - 1)]
      BY <1>1, <1>2, <1>3, <2>1, <2>3
    <3>2. k - (i - 1) \in 1 .. Len(s) - i /\ i + (k - (i - 1)) = k + 1
      BY <1>1, <2>1, <2>3
    <3> QED BY <1>3, <2>3, <3>1, <3>2
  <2> QED BY <2>2, <2>3
<1> QED BY <1>4, <1>5, <1>6

\* Every message but the removed one is still there.
LEMMA RemovalKeepsOthers ==
  ASSUME NEW M, NEW s \in Seq(M), NEW i \in DOMAIN s, NEW k \in DOMAIN s, k # i
  PROVE  \E l \in DOMAIN RemoveAt(s, i) : RemoveAt(s, i)[l] = s[k]
<1> DEFINE l == IF k < i THEN k ELSE k - 1
<1>1. l \in DOMAIN RemoveAt(s, i)
  <2>1. i \in 1 .. Len(s) /\ k \in 1 .. Len(s) /\ Len(s) \in Nat
    OBVIOUS
  <2>2. RemoveAt(s, i) \in Seq(M) /\ Len(RemoveAt(s, i)) = Len(s) - 1
    BY RemovalMovesUp
  <2>3. l \in 1 .. Len(s) - 1
    BY <2>1
  <2> QED BY <2>2, <2>3
<1>2. RemoveAt(s, i)[l] = IF l < i THEN s[l] ELSE s[l + 1]
  BY <1>1, RemovalMovesUp
<1>3. k \in Nat /\ i \in Nat
  OBVIOUS
<1> QED BY <1>1, <1>2, <1>3

\* What lost handlers leave behind, and what they become.
LEMMA OrphansMove ==
  ASSUME NEW m
  PROVE  /\ BagToSet(orphans (-) SetToBag({m})) \subseteq BagToSet(orphans)
         /\ \A n : BagToSet((orphans (-) SetToBag({m})) (+) SetToBag({n}))
                     \subseteq BagToSet(orphans) \cup {n}
BY DEF BagToSet, SetToBag, (-), (+)


\* A handler's end leaves a bag, and so does its UPDATE.
LEMMA OrphansStayBag ==
  ASSUME IsABag(orphans), NEW m
  PROVE  /\ IsABag(orphans (-) SetToBag({m}))
         /\ \A n : IsABag((orphans (-) SetToBag({m})) (+) SetToBag({n}))
<1> DEFINE left == orphans (-) SetToBag({m})
<1>1. IsABag(left)
  BY DEF IsABag, SetToBag, (-)
<1>2. ASSUME NEW n PROVE IsABag(left (+) SetToBag({n}))
  <2> HIDE DEF left
  <2> QED BY <1>1 DEF IsABag, SetToBag, (+)
<1> QED BY <1>1, <1>2

\* A handler's end takes no other message from the lost ones.
LEMMA OtherOrphansStay ==
  ASSUME IsABag(orphans), NEW m, NEW n \in BagToSet(orphans), n # m
  PROVE  /\ n \in BagToSet(orphans (-) SetToBag({m}))
         /\ \A o : n \in BagToSet((orphans (-) SetToBag({m})) (+) SetToBag({o}))
<1>1. orphans[n] \in Nat /\ orphans[n] > 0 /\ n \in DOMAIN orphans
  BY DEF IsABag, BagToSet
<1>2. n \notin DOMAIN SetToBag({m})
  BY DEF SetToBag
<1>3. n \in DOMAIN (orphans (-) SetToBag({m}))
  BY <1>1, <1>2 DEF (-)
<1> QED BY <1>3 DEF BagToSet, (+)

\* The handlers of a lost channel go on beside those of earlier ones.
LEMMA LostHandlersJoin ==
  ASSUME inbox \in Seq(Message), IsABag(orphans), LoseConsumerChannel
  PROVE  /\ IsABag(orphans')
         /\ BagToSet(orphans') = BagToSet(orphans) \cup {inbox[i] : i \in InProgress}
<1> DEFINE lost == [m \in {inbox[i] : i \in InProgress} |->
                      Cardinality({i \in DOMAIN inbox : inbox[i] = m})]
<1>1. ASSUME NEW k \in InProgress PROVE lost[inbox[k]] \in {n \in Nat : n > 0}
  <2> DEFINE T == {i \in DOMAIN inbox : inbox[i] = inbox[k]}
  <2>1. k \in T /\ T \subseteq 1 .. Len(inbox) /\ IsFiniteSet(1 .. Len(inbox))
    BY FS_Interval DEF InProgress
  <2>2. IsFiniteSet(T) /\ Cardinality(T) \in Nat
    BY <2>1, FS_Subset, FS_CardinalityType
  <2>3. Cardinality(T) # 0
    BY <2>1, <2>2, FS_EmptySet
  <2> QED BY <2>2, <2>3
<1>2. IsABag(lost) /\ DOMAIN lost = {inbox[i] : i \in InProgress}
  BY <1>1 DEF IsABag
<1>3. orphans' = orphans (+) lost
  BY DEF LoseConsumerChannel
<1> HIDE DEF lost
<1> QED BY <1>2, <1>3 DEF IsABag, BagToSet, (+)

-----------------------------------------------------------------------------
(* What a step does to the queue.                                          *)

\* The message of a handler that changes phase keeps its place.
LEMMA PhaseChange ==
  ASSUME inbox \in Seq(Message), NEW i \in DOMAIN inbox, NEW p \in Phases,
         inbox' = [inbox EXCEPT ![i].phase = p]
  PROVE  /\ inbox' \in Seq(Message) /\ DOMAIN inbox' = DOMAIN inbox
         /\ \A k \in DOMAIN inbox : /\ inbox'[k].job = inbox[k].job
                                    /\ inbox'[k].status = inbox[k].status
                                    /\ k # i => inbox'[k] = inbox[k]
         /\ inbox'[i].phase = p
<1>1. inbox[i] \in Message
  OBVIOUS
<1>2. inbox' = [inbox EXCEPT ![i] = [inbox[i] EXCEPT !.phase = p]]
  OBVIOUS
<1>3. /\ [inbox[i] EXCEPT !.phase = p] \in Message
      /\ [inbox[i] EXCEPT !.phase = p].job = inbox[i].job
      /\ [inbox[i] EXCEPT !.phase = p].status = inbox[i].status
      /\ [inbox[i] EXCEPT !.phase = p].phase = p
  BY <1>1 DEF Message
<1>4. inbox' \in Seq(Message) /\ DOMAIN inbox' = DOMAIN inbox
  BY <1>2, <1>3
<1>5. inbox'[i] = [inbox[i] EXCEPT !.phase = p]
  BY <1>2
<1>6. \A k \in DOMAIN inbox : k # i => inbox'[k] = inbox[k]
  BY <1>2
<1> QED BY <1>3, <1>4, <1>5, <1>6

\* So does what the broker requeues.
LEMMA Requeued ==
  ASSUME inbox \in Seq(Message), RequeueInbox
  PROVE  /\ inbox' \in Seq(Message) /\ DOMAIN inbox' = DOMAIN inbox
         /\ \A k \in DOMAIN inbox : /\ inbox'[k].job = inbox[k].job
                                    /\ inbox'[k].status = inbox[k].status
                                    /\ inbox'[k].phase = "queued"
<1>1. \A k \in DOMAIN inbox : inbox[k] \in Message
  OBVIOUS
<1>2. \A k \in DOMAIN inbox :
        LET m == [inbox[k] EXCEPT !.phase = "queued"]
        IN  m \in Message /\ m.job = inbox[k].job /\ m.status = inbox[k].status
              /\ m.phase = "queued"
  BY <1>1 DEF Message, Phases
<1>3. inbox' \in [1 .. Len(inbox) -> Message] /\ Len(inbox) \in Nat
  BY <1>2 DEF RequeueInbox
<1>4. /\ DOMAIN inbox' = DOMAIN inbox
      /\ \A k \in DOMAIN inbox : inbox'[k] = [inbox[k] EXCEPT !.phase = "queued"]
  BY DEF RequeueInbox
<1>5. inbox' \in Seq(Message)
  BY <1>3
<1> QED BY <1>2, <1>4, <1>5

\* The messages that a handler is at work with.
AtHand(m) == m \in BagToSet(orphans) \/ \E i \in InProgress : m = inbox[i]

\* f says where each message was before the step.  Only a handler takes a message
\* away, once its UPDATE has failed or it has emitted what it wrote.
Carries(f) ==
  /\ f \in [DOMAIN inbox' -> DOMAIN inbox]
  /\ \A k, l \in DOMAIN inbox' : k < l => f[k] < f[l]
  /\ \A k \in DOMAIN inbox' : /\ inbox'[k].job = inbox[f[k]].job
                              /\ inbox'[k].status = inbox[f[k]].status
  /\ \A k \in InProgress' : f[k] \in InProgress \/ HandleStatus(f[k])
  /\ \A k \in DOMAIN inbox :
       \/ \E l \in DOMAIN inbox' : f[l] = k
       \/ k \in InProgress /\ inbox[k].job \in failed'
       \/ /\ k \in InProgress /\ inbox[k].phase = "written" /\ UNCHANGED row
          /\ notified' = [notified EXCEPT ![inbox[k].job] = inbox[k].status]

\* Every message is where it was.
LEMMA PlacesMove ==
  ASSUME inbox \in Seq(Message), inbox' \in Seq(Message), DOMAIN inbox' = DOMAIN inbox,
         \A k \in DOMAIN inbox : /\ inbox'[k].job = inbox[k].job
                                 /\ inbox'[k].status = inbox[k].status,
         \A k \in InProgress' : k \in InProgress \/ HandleStatus(k)
  PROVE  \E f : Carries(f)
<1> DEFINE f == [k \in DOMAIN inbox' |-> k]
<1>1. Carries(f)
  BY DEF Carries, InProgress
<1> HIDE DEF f
<1> QED BY <1>1

\* One message is acknowledged.
LEMMA RemovalMoves ==
  ASSUME inbox \in Seq(Message), NEW i \in InProgress, inbox' = RemoveAt(inbox, i),
         \/ inbox[i].job \in failed'
         \/ /\ inbox[i].phase = "written" /\ UNCHANGED row
            /\ notified' = [notified EXCEPT ![inbox[i].job] = inbox[i].status]
  PROVE  \E f : Carries(f)
<1> DEFINE f == [k \in DOMAIN inbox' |-> IF k < i THEN k ELSE k + 1]
<1>1. /\ inbox' \in Seq(Message) /\ Len(inbox') = Len(inbox) - 1
      /\ \A k \in DOMAIN inbox' : inbox'[k] = IF k < i THEN inbox[k] ELSE inbox[k + 1]
  BY RemovalMovesUp DEF InProgress
<1>2. /\ Len(inbox) \in Nat /\ DOMAIN inbox = 1 .. Len(inbox)
      /\ DOMAIN inbox' = 1 .. Len(inbox) - 1 /\ i \in 1 .. Len(inbox)
  BY <1>1 DEF InProgress
<1>3. f \in [DOMAIN inbox' -> DOMAIN inbox]
  BY <1>2
<1>4. \A k, l \in DOMAIN inbox' : k < l => f[k] < f[l]
  BY <1>2
<1>5. \A k \in DOMAIN inbox' : inbox'[k] = inbox[f[k]]
  BY <1>1
<1>6. \A k \in InProgress' : f[k] \in InProgress
  <2> SUFFICES ASSUME NEW k \in InProgress' PROVE f[k] \in InProgress
    OBVIOUS
  <2>1. k \in DOMAIN inbox' /\ inbox'[k].phase # "queued"
    BY DEF InProgress
  <2>2. f[k] \in DOMAIN inbox /\ inbox[f[k]].phase # "queued"
    BY <1>3, <1>5, <2>1
  <2> HIDE DEF f
  <2> QED BY <2>2 DEF InProgress
<1>7. ASSUME NEW k \in DOMAIN inbox, k # i PROVE \E l \in DOMAIN inbox' : f[l] = k
  <2> DEFINE l == IF k < i THEN k ELSE k - 1
  <2>1. l \in DOMAIN inbox' /\ f[l] = k
    BY <1>2, <1>7
  <2> QED BY <2>1
<1> HIDE DEF f
<1>8. Carries(f)
  BY <1>3, <1>4, <1>5, <1>6, <1>7 DEF Carries
<1> QED BY <1>8

\* Every step of the consumer moves the queue so.
LEMMA QueueStep ==
  ASSUME ConsumerTypeOK, ConsumerNext
  PROVE  inbox' \in Seq(Message) /\ \E f : Carries(f)
<1>0. inbox \in Seq(Message)
  BY DEF ConsumerTypeOK
<1>1. ASSUME NEW i \in DOMAIN inbox, HandleStatus(i)
      PROVE  inbox' \in Seq(Message) /\ \E f : Carries(f)
  <2>1. inbox' = [inbox EXCEPT ![i].phase = "received"]
    BY <1>1 DEF HandleStatus
  <2>2. /\ inbox' \in Seq(Message) /\ DOMAIN inbox' = DOMAIN inbox
        /\ \A k \in DOMAIN inbox : /\ inbox'[k].job = inbox[k].job
                                   /\ inbox'[k].status = inbox[k].status
                                   /\ k # i => inbox'[k] = inbox[k]
    BY <1>0, <2>1, PhaseChange DEF Phases
  <2>3. \A k \in InProgress' : k \in InProgress \/ HandleStatus(k)
    BY <1>1, <2>2 DEF InProgress
  <2> QED BY <1>0, <2>2, <2>3, PlacesMove
<1>2. ASSUME NEW i \in DOMAIN inbox, UpdateRow(i)
      PROVE  inbox' \in Seq(Message) /\ \E f : Carries(f)
  <2>1. inbox' = [inbox EXCEPT ![i].phase = "written"] /\ i \in InProgress
    BY <1>2 DEF UpdateRow, WriteRow, InProgress
  <2>2. /\ inbox' \in Seq(Message) /\ DOMAIN inbox' = DOMAIN inbox
        /\ \A k \in DOMAIN inbox : /\ inbox'[k].job = inbox[k].job
                                   /\ inbox'[k].status = inbox[k].status
                                   /\ k # i => inbox'[k] = inbox[k]
    BY <1>0, <2>1, PhaseChange DEF Phases
  <2>3. \A k \in InProgress' : k \in InProgress
    BY <2>1, <2>2 DEF InProgress
  <2> QED BY <1>0, <2>2, <2>3, PlacesMove
<1>3. ASSUME NEW i \in DOMAIN inbox, EmitAndAck(i)
      PROVE  inbox' \in Seq(Message) /\ \E f : Carries(f)
  <2>1. /\ inbox' = RemoveAt(inbox, i) /\ i \in InProgress
        /\ inbox[i].phase = "written" /\ UNCHANGED row
        /\ notified' = [notified EXCEPT ![inbox[i].job] = inbox[i].status]
    BY <1>3 DEF EmitAndAck, EmitStatus, InProgress
  <2> QED BY <1>0, <2>1, RemovalMovesUp, RemovalMoves
<1>4. ASSUME NEW i \in DOMAIN inbox, NEW commits \in BOOLEAN, UpdateFails(i, commits)
      PROVE  inbox' \in Seq(Message) /\ \E f : Carries(f)
  <2>1. inbox' = RemoveAt(inbox, i) /\ i \in InProgress /\ inbox[i].job \in failed'
    BY <1>4 DEF UpdateFails, FailWrite, InProgress
  <2> QED BY <1>0, <2>1, RemovalMovesUp, RemovalMoves
<1>5. CASE UNCHANGED inbox
  <2>1. \A k \in InProgress' : k \in InProgress
    BY <1>5 DEF InProgress
  <2> QED BY <1>0, <1>5, <2>1, PlacesMove
<1>6. CASE RequeueInbox
  <2>1. \A k \in InProgress' : k \in InProgress
    BY <1>0, <1>6, Requeued DEF InProgress
  <2> QED BY <1>0, <1>6, <2>1, Requeued, PlacesMove
<1> QED
  BY <1>1, <1>2, <1>3, <1>4, <1>5, <1>6
  DEF ConsumerNext, Handle, OrphanUpdatesRow, OrphanEmits, OrphanUpdateFails, OrphanEnds,
      ConsumerCrash, LoseConsumerChannel

\* What a step does to the handlers of lost channels: they are what they were, or
\* joined by those in progress, whose messages go back to the queue.
LEMMA OrphanStep ==
  ASSUME ConsumerTypeOK, ConsumerNext
  PROVE  /\ IsABag(orphans')
         /\ \A m \in BagToSet(orphans') :
              /\ m \in Message /\ m.phase # "queued"
              /\ \/ \E n \in BagToSet(orphans) : m.job = n.job /\ m.status = n.status
                 \/ /\ \E i \in InProgress : m = inbox[i]
                    /\ RequeueInbox
<1>0. \A i \in DOMAIN inbox : inbox[i] \in Message
  BY DEF ConsumerTypeOK
<1>1. \A n \in BagToSet(orphans) : n \in Message /\ n.phase # "queued"
  BY DEF ConsumerTypeOK
<1>2. CASE UNCHANGED orphans
  BY <1>1, <1>2 DEF ConsumerTypeOK
<1>3. ASSUME NEW m \in BagToSet(orphans), OrphanUpdatesRow(m)
      PROVE  /\ IsABag(orphans')
             /\ \A n \in BagToSet(orphans') :
                  /\ n \in Message /\ n.phase # "queued"
                  /\ \E o \in BagToSet(orphans) : n.job = o.job /\ n.status = o.status
  <2> DEFINE n == [m EXCEPT !.phase = "written"]
  <2>1. n \in Message /\ n.phase = "written" /\ n.job = m.job /\ n.status = m.status
    BY <1>1 DEF Message, Phases
  <2>2. orphans' = (orphans (-) SetToBag({m})) (+) SetToBag({n})
    BY <1>3 DEF OrphanUpdatesRow
  <2> HIDE DEF n
  <2>3. IsABag(orphans') /\ BagToSet(orphans') \subseteq BagToSet(orphans) \cup {n}
    BY <2>2, OrphansStayBag, OrphansMove DEF ConsumerTypeOK
  <2> QED BY <1>1, <2>1, <2>3
<1>4. ASSUME NEW m \in BagToSet(orphans), OrphanEnds(m)
      PROVE  IsABag(orphans') /\ BagToSet(orphans') \subseteq BagToSet(orphans)
  BY <1>4, OrphansStayBag, OrphansMove DEF OrphanEnds, ConsumerTypeOK
<1>5. CASE orphans' = EmptyBag
  BY <1>5 DEF IsABag, BagToSet, EmptyBag, SetToBag
<1>6. CASE LoseConsumerChannel
  <2>1. IsABag(orphans') /\ BagToSet(orphans') = BagToSet(orphans) \cup {inbox[i] : i \in InProgress}
    BY <1>6, LostHandlersJoin DEF ConsumerTypeOK
  <2>2. RequeueInbox
    BY <1>6 DEF LoseConsumerChannel
  <2>3. \A i \in InProgress : inbox[i] \in Message /\ inbox[i].phase # "queued"
    BY <1>0 DEF InProgress
  <2> QED BY <1>1, <2>1, <2>2, <2>3
<1> QED
  BY <1>1, <1>2, <1>3, <1>4, <1>5, <1>6
  DEF ConsumerNext, Handle, HandleStatus, UpdateRow, EmitAndAck, UpdateFails, OrphanEmits,
      OrphanUpdateFails, ConsumerCrash

\* A row is written from a message that a handler is at work with, and nothing
\* else is, but that UPDATE may have failed.
LEMMA RowStep ==
  ASSUME ConsumerTypeOK, ConsumerNext
  PROVE  \/ UNCHANGED row
         \/ \E m \in Message : /\ AtHand(m) /\ row' = [row EXCEPT ![m.job] = m.status]
                              /\ UNCHANGED <<crossed, notified>>
<1>1. \A i \in DOMAIN inbox : inbox[i] \in Message /\ (i \in InProgress => AtHand(inbox[i]))
  BY DEF ConsumerTypeOK, AtHand
<1>2. \A m \in BagToSet(orphans) : m \in Message /\ AtHand(m)
  BY DEF ConsumerTypeOK, AtHand
<1>3. ASSUME NEW i \in DOMAIN inbox, inbox[i].phase = "received" PROVE i \in InProgress
  BY <1>3 DEF InProgress
<1> QED
  BY <1>1, <1>2, <1>3
  DEF ConsumerNext, Handle, HandleStatus, UpdateRow, EmitAndAck, UpdateFails, OrphanUpdatesRow,
      OrphanEmits, OrphanUpdateFails, WriteRow, FailWrite, EmitStatus, ConsumerCrash,
      LoseConsumerChannel, consumerHistory

\* A handler emits what it has written.
LEMMA NotifiedStep ==
  ASSUME ConsumerTypeOK, ConsumerNext
  PROVE  \/ UNCHANGED notified
         \/ \E m \in Message : /\ Written(m) /\ notified' = [notified EXCEPT ![m.job] = m.status]
                              /\ UNCHANGED row
<1>1. \A i \in DOMAIN inbox : inbox[i] \in Message /\ (inbox[i].phase = "written" => Written(inbox[i]))
  BY DEF ConsumerTypeOK, Written
<1>2. \A m \in BagToSet(orphans) : m \in Message /\ (m.phase = "written" => Written(m))
  BY DEF ConsumerTypeOK, Written
<1> QED
  BY <1>1, <1>2
  DEF ConsumerNext, Handle, HandleStatus, UpdateRow, EmitAndAck, UpdateFails, OrphanUpdatesRow,
      OrphanEmits, OrphanUpdateFails, WriteRow, FailWrite, EmitStatus, ConsumerCrash,
      LoseConsumerChannel

\* A message that is written after a step was written before, or is what the row
\* now says.
LEMMA WrittenStep ==
  ASSUME ConsumerTypeOK, ConsumerNext, NEW m \in Message, Written(m)'
  PROVE  Written(m) \/ row'[m.job] = m.status
<1>0. inbox \in Seq(Message) /\ row \in [Jobs -> Statuses \cup {"PENDING"}]
  BY DEF ConsumerTypeOK
<1>1. /\ m.phase = "written"
      /\ m \in BagToSet(orphans') \/ \E k \in DOMAIN inbox' : m = inbox'[k]
  BY DEF Written
<1>2. m \in BagToSet(orphans) => Written(m)
  BY <1>1 DEF Written
<1>3. \A k \in DOMAIN inbox : m = inbox[k] => Written(m)
  BY <1>1 DEF Written
<1>4. ASSUME NEW i \in DOMAIN inbox, HandleStatus(i) PROVE Written(m)
  <2>1. inbox' = [inbox EXCEPT ![i].phase = "received"] /\ UNCHANGED orphans
    BY <1>4 DEF HandleStatus
  <2>2. /\ DOMAIN inbox' = DOMAIN inbox /\ inbox'[i].phase = "received"
        /\ \A k \in DOMAIN inbox : k # i => inbox'[k] = inbox[k]
    BY <1>0, <2>1, PhaseChange DEF Phases
  <2> QED BY <1>1, <1>2, <1>3, <2>1, <2>2
<1>5. ASSUME NEW i \in DOMAIN inbox, UpdateRow(i) PROVE Written(m) \/ row'[m.job] = m.status
  <2>1. /\ inbox' = [inbox EXCEPT ![i].phase = "written"] /\ UNCHANGED orphans
        /\ row' = [row EXCEPT ![inbox[i].job] = inbox[i].status]
    BY <1>5 DEF UpdateRow, WriteRow
  <2>2. /\ DOMAIN inbox' = DOMAIN inbox
        /\ inbox'[i].job = inbox[i].job /\ inbox'[i].status = inbox[i].status
        /\ \A k \in DOMAIN inbox : k # i => inbox'[k] = inbox[k]
    BY <1>0, <2>1, PhaseChange DEF Phases
  <2>3. inbox[i] \in Message
    BY <1>0
  <2>4. inbox[i].job \in Jobs
    BY <2>3 DEF Message
  <2> QED BY <1>0, <1>1, <1>2, <1>3, <2>1, <2>2, <2>4
<1>6. ASSUME NEW i \in DOMAIN inbox, inbox' = RemoveAt(inbox, i), UNCHANGED orphans
      PROVE  Written(m)
  <2>1. ASSUME NEW k \in DOMAIN inbox' PROVE \E l \in DOMAIN inbox : inbox'[k] = inbox[l]
    <3>1. /\ inbox' \in Seq(Message) /\ Len(inbox') = Len(inbox) - 1
          /\ inbox'[k] = IF k < i THEN inbox[k] ELSE inbox[k + 1]
      BY <1>0, <1>6, RemovalMovesUp
    <3>2. k \in DOMAIN inbox /\ k + 1 \in DOMAIN inbox
      BY <1>0, <3>1
    <3> QED BY <3>1, <3>2
  <2> QED BY <1>1, <1>2, <1>3, <1>6, <2>1
<1>7. ASSUME NEW n \in BagToSet(orphans), OrphanUpdatesRow(n)
      PROVE  Written(m) \/ row'[m.job] = m.status
  <2> DEFINE o == [n EXCEPT !.phase = "written"]
  <2>1. n \in Message
    BY DEF ConsumerTypeOK
  <2>2. o.job = n.job /\ o.status = n.status /\ n.job \in Jobs
    BY <2>1 DEF Message
  <2>3. orphans' = (orphans (-) SetToBag({n})) (+) SetToBag({o})
    BY <1>7 DEF OrphanUpdatesRow
  <2> HIDE DEF o
  <2>4. BagToSet(orphans') \subseteq BagToSet(orphans) \cup {o}
    BY <2>3, OrphansMove
  <2>5. UNCHANGED inbox /\ row' = [row EXCEPT ![n.job] = n.status]
    BY <1>7 DEF OrphanUpdatesRow, WriteRow
  <2> QED BY <1>0, <1>1, <1>2, <1>3, <2>2, <2>4, <2>5
<1>8. ASSUME NEW n \in BagToSet(orphans), OrphanEnds(n) PROVE Written(m)
  <2>1. BagToSet(orphans') \subseteq BagToSet(orphans) /\ UNCHANGED inbox
    BY <1>8, OrphansMove DEF OrphanEnds
  <2> QED BY <1>1, <1>2, <1>3, <2>1
<1>9. CASE ConsumerCrash
  BY <1>0, <1>1, <1>9, Requeued DEF ConsumerCrash, BagToSet, EmptyBag, SetToBag
<1>10. CASE LoseConsumerChannel
  <2>1. BagToSet(orphans') = BagToSet(orphans) \cup {inbox[i] : i \in InProgress}
    BY <1>10, LostHandlersJoin DEF ConsumerTypeOK
  <2>2. \A k \in DOMAIN inbox' : inbox'[k].phase = "queued"
    BY <1>0, <1>10, Requeued DEF LoseConsumerChannel
  <2> QED BY <1>1, <1>2, <1>3, <2>1, <2>2 DEF InProgress
<1> QED
  BY <1>4, <1>5, <1>6, <1>7, <1>8, <1>9, <1>10
  DEF ConsumerNext, Handle, EmitAndAck, UpdateFails, OrphanEmits, OrphanUpdateFails

-----------------------------------------------------------------------------
(* Type correctness.                                                       *)

\* The types hold at the start.
LEMMA ConsumerTypeInit == ConsumerInit => ConsumerTypeOK
<1> SUFFICES ASSUME ConsumerInit PROVE ConsumerTypeOK
  OBVIOUS
<1>1. BagToSet(orphans) = {} /\ IsABag(orphans) /\ inbox \in Seq(Message)
  BY DEF ConsumerInit, IsABag, BagToSet, EmptyBag, SetToBag
<1>2. \A m : ~ Written(m)
  BY <1>1 DEF ConsumerInit, Written
<1> QED
  BY <1>1, <1>2, ConsumerBounds DEF ConsumerInit, ConsumerTypeOK

\* What a worker publishes is a message, and no handler has it yet.
LEMMA EnqueueType ==
  ASSUME ConsumerTypeOK, NEW j \in Jobs, NEW s \in Statuses, Enqueue(j, s)
  PROVE  ConsumerTypeOK'
<1> DEFINE m == [job |-> j, status |-> s, phase |-> "queued"]
<1>1. m \in Message /\ m.phase = "queued" /\ inbox' = Append(inbox, m)
  BY DEF Message, Phases, Enqueue
<1> HIDE DEF m
<1>2. /\ inbox' \in Seq(Message)
      /\ \A k \in DOMAIN inbox' : inbox'[k] = m \/ \E l \in DOMAIN inbox : inbox'[k] = inbox[l]
  BY <1>1 DEF ConsumerTypeOK
<1>3. UNCHANGED <<orphans, row, notified, crossed, failed, consumerFaults>>
  BY DEF Enqueue, consumerHistory
<1>4. \A n \in Message : Written(n)' => Written(n)
  BY <1>1, <1>2, <1>3 DEF Written
<1> QED BY <1>2, <1>3, <1>4 DEF ConsumerTypeOK, consumerFaults

\* The consumer's steps keep the types.
LEMMA ConsumerTypeStep == ConsumerTypeOK /\ [ConsumerNext]_consumerVars => ConsumerTypeOK'
<1> SUFFICES ASSUME ConsumerTypeOK, [ConsumerNext]_consumerVars PROVE ConsumerTypeOK'
  OBVIOUS
<1>1. CASE UNCHANGED consumerVars
  <2>1. \A m : Written(m)' <=> Written(m)
    BY <1>1 DEF consumerVars, Written
  <2> QED BY <1>1, <2>1 DEF consumerVars, consumerFaults, consumerHistory, ConsumerTypeOK
<1>2. CASE ConsumerNext
  <2>1. inbox' \in Seq(Message)
    BY <1>2, QueueStep
  <2>2. IsABag(orphans') /\ BagToSet(orphans') \subseteq {m \in Message : m.phase # "queued"}
    BY <1>2, OrphanStep
  <2>3. \A m \in Message : m.job \in Jobs /\ m.status \in Statuses /\ m.status # "PENDING"
    BY DEF Message, Statuses, Outcomes
  <2>4. /\ row' \in [Jobs -> Statuses \cup {"PENDING"}]
        /\ \A j \in Jobs : row[j] # "PENDING" => row'[j] # "PENDING"
    BY <1>2, <2>3, RowStep DEF ConsumerTypeOK
  <2>5. /\ notified' \in [Jobs -> Statuses \cup {"none"}]
        /\ \A j \in Jobs : notified'[j] # "none" => row'[j] # "PENDING"
    BY <1>2, <2>3, <2>4, NotifiedStep DEF ConsumerTypeOK
  <2>6. \A m \in Message : Written(m)' => row'[m.job] # "PENDING"
    BY <1>2, <2>3, <2>4, WrittenStep DEF ConsumerTypeOK
  <2>7. \A i \in DOMAIN inbox : inbox[i].job \in Jobs
    BY <2>3 DEF ConsumerTypeOK
  <2>8. \A m \in BagToSet(orphans) : m.job \in Jobs
    BY <2>3 DEF ConsumerTypeOK
  <2>9. crossed \subseteq Jobs /\ failed \subseteq Jobs
    BY DEF ConsumerTypeOK
  <2>10. crossed' \subseteq Jobs /\ failed' \subseteq Jobs
    BY <1>2, <2>7, <2>8, <2>9
    DEF ConsumerNext, Handle, HandleStatus, UpdateRow, EmitAndAck, UpdateFails,
        OrphanUpdatesRow, OrphanEmits, OrphanUpdateFails, WriteRow, FailWrite, EmitStatus,
        ConsumerCrash, LoseConsumerChannel, consumerHistory
  <2>11. /\ consumerCrashes \in 0 .. MaxConsumerCrashes
         /\ consumerLosses \in 0 .. MaxConsumerLosses
         /\ dbFailures \in 0 .. MaxDbFailures
    BY DEF ConsumerTypeOK
  <2>12. \/ UNCHANGED consumerFaults
         \/ /\ consumerCrashes < MaxConsumerCrashes /\ consumerCrashes' = consumerCrashes + 1
            /\ UNCHANGED <<consumerLosses, dbFailures>>
         \/ /\ consumerLosses < MaxConsumerLosses /\ consumerLosses' = consumerLosses + 1
            /\ UNCHANGED <<consumerCrashes, dbFailures>>
         \/ /\ dbFailures < MaxDbFailures /\ dbFailures' = dbFailures + 1
            /\ UNCHANGED <<consumerCrashes, consumerLosses>>
    BY <1>2
    DEF ConsumerNext, Handle, HandleStatus, UpdateRow, EmitAndAck, UpdateFails,
        OrphanUpdatesRow, OrphanEmits, OrphanUpdateFails, WriteRow, FailWrite, EmitStatus,
        ConsumerCrash, LoseConsumerChannel
  <2>13. /\ consumerCrashes' \in 0 .. MaxConsumerCrashes
         /\ consumerLosses' \in 0 .. MaxConsumerLosses
         /\ dbFailures' \in 0 .. MaxDbFailures
    BY <2>11, <2>12, ConsumerBounds DEF consumerFaults
  <2> QED BY <2>1, <2>2, <2>4, <2>5, <2>6, <2>10, <2>13 DEF ConsumerTypeOK
<1> QED BY <1>1, <1>2

-----------------------------------------------------------------------------
(* Jobs whose handlers do not overlap.                                     *)

\* Message k is the first of job j on the queue.
FirstOf(j, k) == inbox[k].job = j /\ \A l \in DOMAIN inbox : l < k => inbox[l].job # j

\* A handler of job j is at work with the first message of j on the queue, or with
\* a former delivery of it, and no other handler of j is.
OneAtATime(j) ==
  /\ \A i \in InProgress : inbox[i].job = j =>
       FirstOf(j, i) /\ \A m \in BagToSet(orphans) : m.job # j
  /\ \A m \in BagToSet(orphans) : m.job = j =>
       \E k \in DOMAIN inbox : FirstOf(j, k) /\ inbox[k].status = m.status

\* What a handler has written, and not yet emitted, is what the row says.
WrittenIsRow(j) == \A m \in Message : Written(m) /\ m.job = j => row[j] = m.status

\* Once crossed, or failed, a job stays so.
LEMMA HistoryGrows == ConsumerNext => crossed \subseteq crossed' /\ failed \subseteq failed'
BY DEF ConsumerNext, Handle, HandleStatus, UpdateRow, EmitAndAck, UpdateFails,
       OrphanUpdatesRow, OrphanEmits, OrphanUpdateFails, WriteRow, FailWrite, EmitStatus,
       ConsumerCrash, LoseConsumerChannel, consumerHistory

\* The handlers of such a job are all at work with the status of its first message.
LEMMA OneStatus ==
  ASSUME ConsumerTypeOK, NEW j, OneAtATime(j), NEW m, AtHand(m), m.job = j
  PROVE  \A k \in DOMAIN inbox : FirstOf(j, k) => inbox[k].status = m.status
<1> SUFFICES ASSUME NEW k \in DOMAIN inbox, FirstOf(j, k) PROVE inbox[k].status = m.status
  OBVIOUS
<1>1. PICK l \in DOMAIN inbox : FirstOf(j, l) /\ inbox[l].status = m.status
  BY DEF OneAtATime, AtHand, InProgress
<1>2. k \in Nat /\ l \in Nat
  BY DEF ConsumerTypeOK
<1>3. k = l
  BY <1>1, <1>2 DEF FirstOf
<1> QED BY <1>1, <1>3

\* There is such a message.
LEMMA HasFirst ==
  ASSUME NEW j, OneAtATime(j), NEW m, AtHand(m), m.job = j
  PROVE  \E k \in DOMAIN inbox : FirstOf(j, k)
BY DEF OneAtATime, AtHand, InProgress

\* The first message of a job stays the first.
LEMMA FirstMoves ==
  ASSUME NEW j, NEW f, Carries(f), NEW k \in DOMAIN inbox', FirstOf(j, f[k])
  PROVE  FirstOf(j, k)'
<1>1. \A l \in DOMAIN inbox' : l < k => f[l] < f[k] /\ f[l] \in DOMAIN inbox
  BY DEF Carries
<1>2. \A l \in DOMAIN inbox' : inbox'[l].job = inbox[f[l]].job
  BY DEF Carries
<1> QED BY <1>1, <1>2 DEF FirstOf

\* A step that makes no handlers of a job overlap keeps them one at a time.
LEMMA OneAtATimeStep ==
  ASSUME ConsumerTypeOK, ConsumerNext, NEW j, OneAtATime(j), j \notin crossed'
  PROVE  OneAtATime(j)'
<1>0. PICK f : Carries(f)
  BY QueueStep
<1>1. ASSUME NEW i \in InProgress', inbox'[i].job = j
      PROVE  FirstOf(j, f[i]) /\ \A m \in BagToSet(orphans) : m.job # j
  <2>1. i \in DOMAIN inbox' /\ f[i] \in DOMAIN inbox /\ inbox[f[i]].job = j
    BY <1>0, <1>1 DEF Carries, InProgress
  <2>2. CASE f[i] \in InProgress
    BY <2>1, <2>2 DEF OneAtATime
  <2>3. CASE HandleStatus(f[i])
    <3>1. ~ AtWork(j)
      BY <2>1, <2>3 DEF HandleStatus
    <3>2. \A l \in DOMAIN inbox : l < f[i] => l \in InProgress
      <4>1. \A l \in DOMAIN inbox : l \in Nat \ {0} /\ f[i] \in Nat
        BY <2>1 DEF ConsumerTypeOK
      <4> QED BY <2>3, <4>1 DEF HandleStatus, IsNext, InProgress
    <3> QED BY <2>1, <3>1, <3>2 DEF AtWork, FirstOf
  <2> QED BY <1>0, <2>2, <2>3 DEF Carries
<1>2. ASSUME NEW i \in InProgress', inbox'[i].job = j
      PROVE  FirstOf(j, i)' /\ \A m \in BagToSet(orphans') : m.job # j
  <2>1. FirstOf(j, i)'
    BY <1>0, <1>1, <1>2, FirstMoves DEF InProgress
  <2>2. ~ RequeueInbox
    BY <1>2, Requeued DEF InProgress, ConsumerTypeOK
  <2>3. \A m \in BagToSet(orphans') : \E n \in BagToSet(orphans) : m.job = n.job
    BY <2>2, OrphanStep
  <2> QED BY <1>1, <1>2, <2>1, <2>3
<1>3. ASSUME NEW m \in BagToSet(orphans'), m.job = j
      PROVE  \E k \in DOMAIN inbox' : FirstOf(j, k)' /\ inbox'[k].status = m.status
  <2>1. CASE \E n \in BagToSet(orphans) : m.job = n.job /\ m.status = n.status
    <3>1. PICK n \in BagToSet(orphans) : n.job = j /\ n.status = m.status
      BY <1>3, <2>1
    <3>2. PICK k \in DOMAIN inbox : FirstOf(j, k) /\ inbox[k].status = m.status
      BY <3>1 DEF OneAtATime
    <3>3. ~ (k \in InProgress)
      BY <3>1, <3>2 DEF OneAtATime, FirstOf
    <3>4. PICK l \in DOMAIN inbox' : f[l] = k
      BY <1>0, <3>2, <3>3 DEF Carries
    <3>5. FirstOf(j, l)'
      BY <1>0, <3>2, <3>4, FirstMoves
    <3>6. inbox'[l].status = m.status
      BY <1>0, <3>2, <3>4 DEF Carries
    <3> QED BY <3>5, <3>6
  <2>2. CASE RequeueInbox /\ \E i \in InProgress : m = inbox[i]
    <3>1. PICK i \in InProgress : m = inbox[i]
      BY <2>2
    <3>2. i \in DOMAIN inbox /\ FirstOf(j, i)
      BY <1>3, <3>1 DEF OneAtATime, InProgress
    <3>3. /\ DOMAIN inbox' = DOMAIN inbox
          /\ \A k \in DOMAIN inbox : /\ inbox'[k].job = inbox[k].job
                                     /\ inbox'[k].status = inbox[k].status
      BY <2>2, Requeued DEF ConsumerTypeOK
    <3> QED BY <3>1, <3>2, <3>3 DEF FirstOf
  <2> QED BY <2>1, <2>2, OrphanStep
<1> QED BY <1>2, <1>3 DEF OneAtATime

\* A step keeps what handlers one at a time have written.
LEMMA WrittenIsRowStep ==
  ASSUME ConsumerTypeOK, ConsumerNext, NEW j \in Jobs, OneAtATime(j), WrittenIsRow(j)
  PROVE  WrittenIsRow(j)'
<1> SUFFICES ASSUME NEW m \in Message, Written(m)', m.job = j PROVE row'[j] = m.status
  BY DEF WrittenIsRow
<1>1. CASE ~ Written(m)
  BY <1>1, WrittenStep
<1>2. CASE Written(m)
  <2>1. row[j] = m.status /\ AtHand(m)
    BY <1>2 DEF WrittenIsRow, Written, AtHand, InProgress
  <2>2. CASE UNCHANGED row
    BY <2>1, <2>2
  <2>3. ASSUME NEW n \in Message, AtHand(n), row' = [row EXCEPT ![n.job] = n.status]
        PROVE  row'[j] = m.status
    <3>1. CASE n.job = j
      <4>1. PICK k \in DOMAIN inbox : FirstOf(j, k)
        BY <2>1, HasFirst
      <4>2. n.status = m.status
        BY <2>1, <2>3, <3>1, <4>1, OneStatus
      <4> QED BY <2>3, <3>1, <4>2 DEF ConsumerTypeOK
    <3>2. CASE n.job # j
      BY <2>1, <2>3, <3>2 DEF ConsumerTypeOK
    <3> QED BY <3>1, <3>2
  <2> QED BY <2>2, <2>3, RowStep
<1> QED BY <1>1, <1>2

\* A row is written with the status of the first message of its job.
LEMMA FirstWritten ==
  ASSUME ConsumerTypeOK, ConsumerNext, NEW j \in Jobs, OneAtATime(j), row'[j] # row[j]
  PROVE  \E k \in DOMAIN inbox : FirstOf(j, k) /\ row'[j] = inbox[k].status
<1>1. PICK m \in Message : AtHand(m) /\ row' = [row EXCEPT ![m.job] = m.status]
  BY RowStep
<1>2. m.job = j /\ row'[j] = m.status
  BY <1>1 DEF ConsumerTypeOK
<1> QED BY <1>1, <1>2, HasFirst, OneStatus

\* What a worker publishes changes nothing for the handlers at work.
LEMMA EnqueueStep ==
  ASSUME ConsumerTypeOK, NEW i \in Jobs, NEW s \in Statuses, Enqueue(i, s), NEW j
  PROVE  /\ OneAtATime(j) => OneAtATime(j)'
         /\ WrittenIsRow(j) => WrittenIsRow(j)'
<1> DEFINE m == [job |-> i, status |-> s, phase |-> "queued"]
<1>1. m \in Message /\ m.phase = "queued" /\ inbox' = Append(inbox, m)
  BY DEF Message, Phases, Enqueue
<1> HIDE DEF m
<1>2. /\ inbox' \in Seq(Message) /\ Len(inbox) \in Nat /\ DOMAIN inbox = 1 .. Len(inbox)
      /\ DOMAIN inbox' = 1 .. Len(inbox) + 1
      /\ \A k \in DOMAIN inbox : inbox'[k] = inbox[k]
      /\ inbox'[Len(inbox) + 1] = m
  BY <1>1 DEF ConsumerTypeOK
<1>3. UNCHANGED <<orphans, row>>
  BY DEF Enqueue
<1>4. \A k \in DOMAIN inbox : k \in DOMAIN inbox' /\ (FirstOf(j, k) => FirstOf(j, k)')
  BY <1>2 DEF FirstOf
<1>5. \A k \in InProgress' : k \in InProgress /\ inbox'[k] = inbox[k]
  BY <1>1, <1>2 DEF InProgress
<1>6. \A n \in Message : Written(n)' => Written(n)
  BY <1>1, <1>2, <1>3 DEF Written
<1>7. OneAtATime(j) => OneAtATime(j)'
  BY <1>2, <1>3, <1>4, <1>5 DEF OneAtATime, InProgress
<1>8. WrittenIsRow(j) => WrittenIsRow(j)'
  BY <1>3, <1>6 DEF WrittenIsRow
<1> QED BY <1>7, <1>8
=============================================================================
