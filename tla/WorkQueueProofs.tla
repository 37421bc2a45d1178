--------------------------- MODULE WorkQueueProofs ---------------------------
(***************************************************************************)
(* The worker pool implements the safety part of the abstract work queue,  *)
(* for every set of jobs and workers and every bound.                      *)
(***************************************************************************)
EXTENDS WorkerPoolProofs

\* A job's messages not yet settled, and the jobs accounted for: what WorkerPool
\* substitutes for the variables of WorkQueue.
Unsettled(j) == ready[j] + Cardinality(Owners(j))
Accounted == Announced \cup unheard \cup aborted

-----------------------------------------------------------------------------
(* What each step does to the abstract queue.                              *)

\* A step that keeps every count and the account is a stutter.
LEMMA Stutters ==
  ASSUME \A j \in Jobs : Unsettled(j)' = Unsettled(j), UNCHANGED Accounted
  PROVE  UNCHANGED Queue!vars
BY DEF Queue!vars, Unsettled, Accounted

\* A worker that gets a delivery joins its owners.
LEMMA ReceiveMoves ==
  ASSUME TypeOK, NEW w \in Workers, NEW j \in Jobs, Receive(w, j)
  PROVE  UNCHANGED Queue!vars
<1>1. ~ owned[w]
  BY DEF Receive, TypeOK, Busy, Publishing, Says, Settling
<1>2. Owners(j)' = Owners(j) \cup {w} /\ w \notin Owners(j)
  BY <1>1 DEF Receive, TypeOK, Owners
<1>3. Cardinality(Owners(j)') = Cardinality(Owners(j)) + 1
  BY <1>2, OwnersCounted, FS_AddElement
<1>4. ready'[j] = ready[j] - 1
  BY DEF Receive, TypeOK
<1>5. Unsettled(j)' = Unsettled(j)
  BY <1>3, <1>4, OwnersCounted DEF Unsettled, TypeOK
<1>6. ASSUME NEW k \in Jobs, k # j PROVE Unsettled(k)' = Unsettled(k)
  <2>1. Owners(k)' = Owners(k) /\ ready'[k] = ready[k]
    BY <1>1, <1>6 DEF Receive, TypeOK, Owners
  <2> QED BY <2>1 DEF Unsettled
<1>7. UNCHANGED Accounted
  BY DEF Receive, statusVars, Accounted, Announced
<1> QED BY <1>5, <1>6, <1>7, Stutters

\* A worker whose delivery is taken from it, by a settlement or a lost channel,
\* leaves the owners of its job and nobody else's.
LEMMA OwnerLeaves ==
  ASSUME NEW w \in Workers, NEW j \in Jobs, holding[w] = j, owned[w], ~ owned'[w],
         \A v \in Workers \ {w} : owned'[v] = owned[v] /\ holding'[v] = holding[v]
  PROVE  /\ Cardinality(Owners(j)') = Cardinality(Owners(j)) - 1
         /\ Cardinality(Owners(j)) > 0
         /\ \A k \in Jobs \ {j} : Owners(k)' = Owners(k)
<1>1. Owners(j)' = Owners(j) \ {w} /\ w \in Owners(j)
  BY DEF Owners
<1>2. Cardinality(Owners(j) \ {w}) = Cardinality(Owners(j)) - 1
  BY <1>1, OwnersCounted, FS_RemoveElement
<1>3. \A k \in Jobs \ {j} : Owners(k)' = Owners(k)
  BY DEF Owners
<1>4. Cardinality(Owners(j)) > 0
  BY <1>1, OwnersCounted
<1> QED BY <1>1, <1>2, <1>3, <1>4

\* A delivery given back, by Nack with requeue or a lost channel, stays unsettled.
LEMMA GivenBack ==
  ASSUME TypeOK, NEW w \in Workers, owned[w], ~ owned'[w],
         \A v \in Workers \ {w} : owned'[v] = owned[v] /\ holding'[v] = holding[v],
         ready' = [ready EXCEPT ![holding[w]] = @ + 1], UNCHANGED Accounted
  PROVE  UNCHANGED Queue!vars
<1>1. PICK j \in Jobs : j = holding[w]
  BY DEF TypeOK
<1>2. Cardinality(Owners(j)') = Cardinality(Owners(j)) - 1
  BY <1>1, OwnerLeaves
<1>3. ready'[j] = ready[j] + 1
  BY <1>1 DEF TypeOK
<1>4. Unsettled(j)' = Unsettled(j)
  BY <1>2, <1>3, OwnersCounted DEF Unsettled, TypeOK
<1>5. ASSUME NEW k \in Jobs, k # j PROVE Unsettled(k)' = Unsettled(k)
  <2>1. Owners(k)' = Owners(k)
    BY <1>1, <1>5, OwnerLeaves
  <2>2. ready'[k] = ready[k]
    BY <1>1, <1>5 DEF TypeOK
  <2> QED BY <2>1, <2>2 DEF Unsettled
<1> QED BY <1>4, <1>5, Stutters

\* An ack, or a Nack without requeue, that counts is the queue's Settle; one on a
\* lost channel settles nothing.
LEMMA SettleMaps ==
  ASSUME TypeOK, StageFacts, NEW w \in Workers, Settle(w)
  PROVE  UNCHANGED Queue!vars \/ \E j \in Jobs : Queue!Settle(j)
<1>1. UNCHANGED Accounted
  BY DEF Settle, statusVars, Accounted, Announced
<1>2. /\ ~ owned'[w]
      /\ \A v \in Workers \ {w} : owned'[v] = owned[v] /\ holding'[v] = holding[v]
  BY DEF Settle, TypeOK
<1>3. CASE ~ owned[w]
  <2>1. \A k \in Jobs : Owners(k)' = Owners(k)
    BY <1>2, <1>3 DEF Owners
  <2>2. UNCHANGED ready
    BY <1>3 DEF Settle, GoesBack
  <2> QED BY <1>1, <2>1, <2>2, Stutters DEF Unsettled
<1>4. CASE GoesBack(w)
  <2>1. owned[w] /\ ready' = [ready EXCEPT ![holding[w]] = @ + 1]
    BY <1>4 DEF Settle, GoesBack
  <2> QED BY <1>1, <1>2, <2>1, GivenBack
<1>5. CASE owned[w] /\ ~ GoesBack(w)
  <2>1. UNCHANGED ready
    BY <1>5 DEF Settle
  <2>2. PICK j \in Jobs : j = holding[w]
    BY <1>5 DEF TypeOK
  <2>3. j \in Accounted
    BY <1>5, <2>2 DEF Settle, GoesBack, Settling, StageFacts, Accounted, Reported
  <2>4. Unsettled(j) > 0 /\ Unsettled(j)' = Unsettled(j) - 1
    <3>1. Cardinality(Owners(j)') = Cardinality(Owners(j)) - 1 /\ Cardinality(Owners(j)) > 0
      BY <1>2, <1>5, <2>2, OwnerLeaves
    <3> QED BY <2>1, <3>1, OwnersCounted DEF Unsettled, TypeOK
  <2>5. \A k \in Jobs \ {j} : Unsettled(k)' = Unsettled(k)
    BY <1>2, <1>5, <2>1, <2>2, OwnerLeaves DEF Unsettled
  <2> QED BY <1>1, <2>3, <2>4, <2>5 DEF Queue!Settle, Unsettled, Accounted
<1> QED BY <1>3, <1>4, <1>5

\* An idle worker has nothing to give back; a busy one's delivery is requeued.
LEMMA LossMaps ==
  ASSUME TypeOK, NEW w \in Workers, LoseChannel(w)
  PROVE  UNCHANGED Queue!vars
<1>1. UNCHANGED <<holding, Accounted>>
  BY DEF LoseChannel, statusVars, Accounted, Announced
<1>2. CASE UNCHANGED <<ready, owned>>
  <2>1. \A k \in Jobs : Unsettled(k)' = Unsettled(k)
    BY <1>1, <1>2 DEF Unsettled, Owners
  <2> QED BY <1>1, <2>1, Stutters
<1>3. CASE /\ owned[w]
           /\ ready' = [ready EXCEPT ![holding[w]] = @ + 1]
           /\ owned' = [owned EXCEPT ![w] = FALSE]
  <2>1. ~ owned'[w] /\ \A v \in Workers \ {w} : owned'[v] = owned[v]
    BY <1>3 DEF TypeOK
  <2> QED BY <1>1, <1>3, <2>1, GivenBack
<1> QED BY <1>2, <1>3 DEF LoseChannel

\* The broker requeues exactly what the workers owned.
LEMMA CrashMaps ==
  ASSUME TypeOK, Crash
  PROVE  UNCHANGED Queue!vars
<1>1. ASSUME NEW j \in Jobs PROVE Unsettled(j)' = Unsettled(j)
  <2>1. Owners(j)' = {}
    BY DEF Crash, Owners
  <2>2. Cardinality(Owners(j)') = 0
    BY <2>1, FS_EmptySet
  <2>3. ready'[j] = ready[j] + Cardinality(Owners(j))
    BY DEF Crash, Requeues
  <2> QED BY <2>2, <2>3, OwnersCounted DEF Unsettled, TypeOK
<1>2. UNCHANGED Accounted
  BY DEF Crash, Accounted, Announced
<1> QED BY <1>1, <1>2, Stutters

\* A publish that counts accounts for its job, which still has an unsettled
\* message unless another run has accounted for it.
LEMMA PublishMaps ==
  ASSUME TypeOK, NothingLost, HeldSubmitted, NEW w \in Workers,
         holding[w] \in Jobs, UNCHANGED <<ready, owned, holding>>,
         Accounted' \in {Accounted, Accounted \cup {holding[w]}}
  PROVE  UNCHANGED Queue!vars \/ \E j \in Jobs : Queue!Account(j)
<1>1. \A j \in Jobs : Unsettled(j)' = Unsettled(j)
  BY DEF Unsettled, Owners
<1>2. CASE UNCHANGED Accounted
  BY <1>1, <1>2, Stutters
<1>3. CASE holding[w] \notin Accounted /\ Accounted' = Accounted \cup {holding[w]}
  <2>1. PICK j \in Jobs : j = holding[w]
    OBVIOUS
  <2>2. ready[j] > 0 \/ Owners(j) # {}
    BY <1>3, <2>1 DEF NothingLost, Reported, HeldSubmitted, Accounted
  <2>3. Unsettled(j) > 0
    BY <2>2, OwnersCounted DEF Unsettled, TypeOK
  <2> QED BY <1>1, <1>3, <2>1, <2>3 DEF Queue!Account, Unsettled, Accounted
<1> QED BY <1>2, <1>3

\* A submitted message is one more unsettled message.
LEMMA SubmitMaps ==
  ASSUME TypeOK, NEW j \in Jobs, Submit(j)
  PROVE  Queue!Submit(j)
<1>1. UNCHANGED Accounted /\ \A k \in Jobs : Owners(k)' = Owners(k)
  BY DEF Submit, Accounted, Announced, Owners, workerVars, statusVars
<1>2. /\ Unsettled(j)' = Unsettled(j) + 1
      /\ \A k \in Jobs \ {j} : Unsettled(k)' = Unsettled(k)
  <2>1. ready'[j] = ready[j] + 1 /\ \A k \in Jobs \ {j} : ready'[k] = ready[k]
    BY DEF Submit, TypeOK
  <2>2. ready[j] \in Nat /\ Cardinality(Owners(j)) \in Nat
    BY OwnersCounted DEF TypeOK
  <2> QED BY <1>1, <2>1, <2>2 DEF Unsettled
<1> QED BY <1>1, <1>2 DEF Queue!Submit, Unsettled, Accounted

-----------------------------------------------------------------------------
(* The refinement.                                                         *)

\* Every step of the pool is a step of the abstract queue or a stutter.
LEMMA QueueStep ==
  IInv /\ HeldSubmitted /\ [Next]_vars => [Queue!Next]_(Queue!vars)
<1> SUFFICES ASSUME IInv, HeldSubmitted, [Next]_vars
             PROVE  Queue!Next \/ UNCHANGED Queue!vars
  OBVIOUS
<1> USE DEF IInv, Facts
<1>1. ASSUME NEW j \in Jobs, Submit(j) PROVE Queue!Next
  BY <1>1, SubmitMaps DEF Queue!Next
<1>2. ASSUME NEW w \in Workers, NEW j \in Jobs, Receive(w, j) PROVE UNCHANGED Queue!vars
  BY <1>2, ReceiveMoves
<1>3. ASSUME NEW w \in Workers, Settle(w) PROVE Queue!Next \/ UNCHANGED Queue!vars
  BY <1>3, SettleMaps DEF Queue!Next
<1>4. ASSUME NEW w \in Workers, LoseChannel(w) PROVE UNCHANGED Queue!vars
  BY <1>4, LossMaps
<1>5. CASE Crash
  BY <1>5, CrashMaps
<1>6. ASSUME NEW w \in Workers,
             PublishOk(w) \/ PublishSwallowed(w)
               \/ \E verdict \in {"drop", "requeue"} : PublishFatal(w, verdict)
      PROVE  Queue!Next \/ UNCHANGED Queue!vars
  <2>1. holding[w] \in Jobs
    BY <1>6 DEF PublishOk, PublishSwallowed, PublishFatal, TypeOK, Busy
  <2>2. UNCHANGED <<ready, owned, holding>>
    BY <1>6 DEF PublishOk, PublishSwallowed, PublishFatal, brokerVars
  <2>3. Accounted' \in {Accounted, Accounted \cup {holding[w]}}
    <3>1. CASE PublishOk(w)
      <4>1. \/ UNCHANGED outcomes
            \/ \E o \in Outcomes : outcomes' = outcomes \cup {<<holding[w], o>>}
        BY <3>1 DEF PublishOk
      <4>2. Announced' \in {Announced, Announced \cup {holding[w]}}
        BY <2>1, <4>1 DEF Announced
      <4>3. UNCHANGED <<unheard, aborted>>
        BY <3>1 DEF PublishOk
      <4> QED BY <4>2, <4>3 DEF Accounted
    <3>2. CASE PublishSwallowed(w)
      <4>1. UNCHANGED <<outcomes, aborted>> /\ unheard' \in {unheard, unheard \cup {holding[w]}}
        BY <3>2 DEF PublishSwallowed
      <4> QED BY <4>1 DEF Accounted, Announced
    <3>3. ASSUME NEW verdict \in {"drop", "requeue"}, PublishFatal(w, verdict)
          PROVE  Accounted' \in {Accounted, Accounted \cup {holding[w]}}
      <4>1. UNCHANGED <<outcomes, unheard>> /\ aborted' \in {aborted, aborted \cup {holding[w]}}
        BY <3>3 DEF PublishFatal
      <4> QED BY <4>1 DEF Accounted, Announced
    <3> QED BY <1>6, <3>1, <3>2, <3>3
  <2> QED BY <2>1, <2>2, <2>3, PublishMaps DEF Queue!Next
<1>7. CASE UNCHANGED <<ready, owned, holding, outcomes, unheard, aborted>>
  <2>1. \A j \in Jobs : Unsettled(j)' = Unsettled(j)
    BY <1>7 DEF Unsettled, Owners
  <2> QED BY <1>7, <2>1, Stutters DEF Accounted, Announced
<1> QED
  BY <1>1, <1>2, <1>3, <1>4, <1>5, <1>6, <1>7
  DEF Next, Quiet, QuietWork, Clean, Fault, OpenStatusChannel, Connect,
      DownloadOk, DownloadFails, TransformOk, TransformFails, UploadOk, UploadFails,
      AttemptFails, TryAgainOr, FireBackgroundCleanup, RemoveLocalRaw,
      RemoveLocalProcessed, DeleteS3Object, Advances, LoseStatusChannel,
      brokerVars, workerVars, statusVars, vars

\* Initially nothing is on the queue, at a worker or accounted for.
LEMMA QueueInit == Init => Queue!Init /\ HeldSubmitted
<1> SUFFICES ASSUME Init PROVE Queue!Init /\ HeldSubmitted
  OBVIOUS
<1>1. \A j \in Jobs : Owners(j) = {}
  BY DEF Init, Owners
<1>2. \A j \in Jobs : Cardinality(Owners(j)) = 0
  BY <1>1, FS_EmptySet
<1>3. Queue!Init
  BY <1>2 DEF Init, Queue!Init, Announced
<1>4. HeldSubmitted
  BY SetsAssumption DEF Init, HeldSubmitted
<1> QED BY <1>3, <1>4

\* The pool neither loses nor multiplies a message, and settles none before its
\* job is accounted for, through any number of crashes, lost channels and
\* duplicates (the Ack and Nack of Start, the publishes of ProcessMessage).
THEOREM PoolIsWorkQueue == Spec => Queue!Spec
<1>1. IInv /\ HeldSubmitted /\ [Next]_vars => HeldSubmitted'
  BY HeldStep DEF IInv
<1> QED
  BY <1>1, QueueInit, QueueStep, Invariance, PTL DEF Spec, Queue!Spec
=============================================================================
