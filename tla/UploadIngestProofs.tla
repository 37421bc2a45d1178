------------------------- MODULE UploadIngestProofs -------------------------
(***************************************************************************)
(* Proofs about UploadIngest for all jobs, keys and bounds.                *)
(***************************************************************************)
EXTENDS UploadIngest, TLAPS

\* What keeps an event behind its row: the key is stored before the client can
\* hold the URL, and only who holds the URL makes events.
Behind ==
  \A j \in Jobs :
    /\ request[j] \in {"answering", "held"} => j \in keyed
    /\ puts[j] > 0 => request[j] = "held"
    /\ events[j] + looking[j] > 0 => puts[j] > 0

IInv == TypeOK /\ Behind /\ EventFindsRow

-----------------------------------------------------------------------------
\* Counting one up or one down changes a counter at one job only and keeps it
\* natural.
LEMMA Counting ==
  ASSUME NEW f \in [Jobs -> Nat], NEW j \in Jobs
  PROVE  /\ Inc(f, j) \in [Jobs -> Nat] /\ Inc(f, j)[j] = f[j] + 1
         /\ f[j] > 0 => Dec(f, j) \in [Jobs -> Nat] /\ Dec(f, j)[j] = f[j] - 1
         /\ \A k \in Jobs \ {j} : Inc(f, j)[k] = f[k] /\ Dec(f, j)[k] = f[k]
BY DEF Inc, Dec

\* The initial state satisfies the invariant.
LEMMA InitIInv == Init => IInv
BY IngestAssumption, SMT DEF IngestAssumption, Init, IInv, TypeOK, Behind, EventFindsRow, Zero,
  Steps, StepAfter

\* Every step keeps the types.
LEMMA TypeStep == TypeOK /\ [Next]_vars => TypeOK'
<1> SUFFICES ASSUME TypeOK, [Next]_vars PROVE TypeOK'
  OBVIOUS
<1> USE IngestAssumption DEF IngestAssumption, TypeOK
<1>1. ASSUME NEW j \in Jobs, PostUrl(j) PROVE TypeOK'
  BY <1>1, SMT DEF PostUrl, eventVars, handlerVars, faultVars, Steps, StepAfter
<1>2. ASSUME NEW j \in Jobs, RequestStep(j) PROVE TypeOK'
  BY <1>2, SMT DEF RequestStep, eventVars, handlerVars, faultVars, Steps, StepAfter
<1>3. ASSUME NEW j \in Jobs, RequestFails(j) PROVE TypeOK'
  BY <1>3, SMT DEF RequestFails, eventVars, handlerVars
<1>4. ASSUME NEW j \in Jobs, Put(j) PROVE TypeOK'
  BY <1>4, SMT DEF Put, requestVars, handlerVars, faultVars, Inc
<1>5. ASSUME NEW j \in Jobs, Deliver(j) PROVE TypeOK'
  BY <1>5, SMT DEF Deliver, requestVars, faultVars, Inc
<1>6. ASSUME NEW j \in Jobs, AnswerWebhook(j) PROVE TypeOK'
  BY <1>6, Counting, SMT DEF AnswerWebhook, requestVars, handlerVars, faultVars
<1>7. ASSUME NEW j \in Jobs, Handle(j) PROVE TypeOK'
  BY <1>7, SMT DEF Handle, FindRow, MissRow, QueryFails, requestVars, eventVars, faultVars,
    Inc, Dec
<1>8. ASSUME NEW j \in Jobs, Send(j) \/ SendFails(j) PROVE TypeOK'
  BY <1>8, SMT DEF Send, SendFails, requestVars, eventVars, faultVars, Inc, Dec
<1>9. ASSUME Crash PROVE TypeOK'
  BY <1>9, SMT DEF Crash, Zero
<1>10. CASE UNCHANGED vars
  BY <1>10 DEF vars, requestVars, eventVars, handlerVars, faultVars
<1> QED
  BY <1>1, <1>2, <1>3, <1>4, <1>5, <1>6, <1>7, <1>8, <1>9, <1>10 DEF Next

\* Every step keeps events behind their rows.
LEMMA BehindStep == IInv /\ [Next]_vars => Behind' /\ EventFindsRow'
<1> SUFFICES ASSUME IInv, [Next]_vars PROVE Behind' /\ EventFindsRow'
  OBVIOUS
<1> USE DEF IInv, TypeOK, Behind, EventFindsRow
<1>1. ASSUME NEW j \in Jobs, PostUrl(j) PROVE Behind' /\ EventFindsRow'
  BY <1>1, SMT DEF PostUrl, eventVars, handlerVars, faultVars
<1>2. ASSUME NEW j \in Jobs, RequestStep(j) PROVE Behind' /\ EventFindsRow'
  BY <1>2, SMT DEF RequestStep, eventVars, handlerVars, faultVars, Steps, StepAfter
<1>3. ASSUME NEW j \in Jobs, RequestFails(j) PROVE Behind' /\ EventFindsRow'
  BY <1>3, SMT DEF RequestFails, eventVars, handlerVars, Steps, StepAfter
<1>4. ASSUME NEW j \in Jobs, Put(j) PROVE Behind' /\ EventFindsRow'
  BY <1>4, SMT DEF Put, requestVars, handlerVars, faultVars, Inc
<1>5. ASSUME NEW j \in Jobs, Deliver(j) PROVE Behind' /\ EventFindsRow'
  BY <1>5, SMT DEF Deliver, requestVars, faultVars, Inc
<1>6. ASSUME NEW j \in Jobs, AnswerWebhook(j) PROVE Behind' /\ EventFindsRow'
  BY <1>6, SMT DEF AnswerWebhook, requestVars, handlerVars, faultVars, Dec
<1>7. ASSUME NEW j \in Jobs, Handle(j) PROVE Behind' /\ EventFindsRow'
  BY <1>7, SMT DEF Handle, FindRow, MissRow, QueryFails, requestVars, eventVars, faultVars, Dec
<1>8. ASSUME NEW j \in Jobs, Send(j) \/ SendFails(j) PROVE Behind' /\ EventFindsRow'
  BY <1>8 DEF Send, SendFails, requestVars, eventVars, faultVars
<1>9. ASSUME Crash PROVE Behind' /\ EventFindsRow'
  BY <1>9, SMT DEF Crash, Zero, Steps, StepAfter
<1>10. CASE UNCHANGED vars
  BY <1>10 DEF vars, requestVars, eventVars, handlerVars, faultVars
<1> QED
  BY <1>1, <1>2, <1>3, <1>4, <1>5, <1>6, <1>7, <1>8, <1>9, <1>10 DEF Next

-----------------------------------------------------------------------------
\* The invariant holds in every reachable state of UploadIngest.
THEOREM IngestInvariance == Spec => []IInv
<1>1. IInv /\ [Next]_vars => IInv'
  BY TypeStep, BehindStep DEF IInv
<1> QED
  BY InitIInv, <1>1, PTL DEF Spec

\* Whenever the webhook works on an event of a job, the row of the job holds its
\* key (generatePresignedUrl against uploadSuccessWebHook).
THEOREM EventsBehindRows == Spec => []EventFindsRow
<1>1. IInv => EventFindsRow
  BY DEF IInv
<1> QED
  BY IngestInvariance, <1>1, PTL

-----------------------------------------------------------------------------
\* The job's work has left SNS: a handler has it, or had it and sent the message,
\* or was ended.
Taken(j) == looking[j] + emitting[j] + enqueued[j] > 0 \/ j \in hit

\* A post not answered yet has started a handler in the life of the service it
\* came to, so what an answer takes from SNS is taken already.
AnsweredIsTaken == \A j \in Jobs \ Respelled : posts[j] > 0 => Taken(j)

\* What a handler has taken moves on towards the queue, or its end is noted in hit.
LEMMA TakenStays ==
  ASSUME IInv, [Next]_vars, NEW j \in Jobs \ Respelled, Taken(j)
  PROVE  Taken(j)'
<1> USE DEF IInv, TypeOK, Taken
<1>1. ASSUME NEW k \in Jobs, PostUrl(k) \/ RequestStep(k) \/ RequestFails(k) \/ Put(k)
             \/ AnswerWebhook(k)
      PROVE  Taken(j)'
  BY <1>1 DEF PostUrl, RequestStep, RequestFails, Put, AnswerWebhook, handlerVars, faultVars
<1>2. ASSUME NEW k \in Jobs, Deliver(k) PROVE Taken(j)'
  BY <1>2, SMT DEF Deliver, faultVars, Inc
<1>3. ASSUME NEW k \in Jobs, FindRow(k) \/ QueryFails(k) PROVE Taken(j)'
  BY <1>3, SMT DEF FindRow, QueryFails, faultVars, Inc, Dec
<1>4. ASSUME NEW k \in Jobs, MissRow(k) PROVE Taken(j)'
  <2>1. k # j
    BY <1>4 DEF MissRow, Found, EventFindsRow
  <2> QED BY <1>4, <2>1, SMT DEF MissRow, faultVars, Dec
<1>5. ASSUME NEW k \in Jobs, Send(k) \/ SendFails(k) PROVE Taken(j)'
  BY <1>5, SMT DEF Send, SendFails, faultVars, Inc, Dec
<1>6. CASE Crash
  BY <1>6, SMT DEF Crash, Zero
<1>7. CASE UNCHANGED vars
  BY <1>7 DEF vars, handlerVars, faultVars
<1> QED
  BY <1>1, <1>2, <1>3, <1>4, <1>5, <1>6, <1>7 DEF Next, Handle

\* A post is new only with its handler.
LEMMA AnsweredIsTakenStep == IInv /\ AnsweredIsTaken /\ [Next]_vars => AnsweredIsTaken'
<1> SUFFICES ASSUME IInv, AnsweredIsTaken, [Next]_vars,
                    NEW j \in Jobs \ Respelled, posts'[j] > 0
             PROVE  Taken(j)'
  BY DEF AnsweredIsTaken
<1> USE DEF IInv, TypeOK
<1>1. CASE posts[j] > 0
  BY <1>1, TakenStays DEF AnsweredIsTaken
<1>2. CASE ~ (posts[j] > 0) /\ \E k \in Jobs : Deliver(k)
  <2>1. PICK k \in Jobs : Deliver(k)
    BY <1>2
  <2>2. k = j
    BY <1>2, <2>1, SMT DEF Deliver, Inc
  <2> QED BY <2>1, <2>2, SMT DEF Deliver, Taken, Inc
<1>3. CASE ~ (posts[j] > 0) /\ ~ (\E k \in Jobs : Deliver(k))
  BY <1>3, SMT
  DEF Next, PostUrl, RequestStep, RequestFails, Put, AnswerWebhook, Handle, FindRow, MissRow,
      QueryFails, Send, SendFails, Crash, eventVars, vars, Zero, Dec
<1> QED BY <1>1, <1>2, <1>3

\* No upload is forgotten: SNS holds the event until a handler of it has started
\* (uploadSuccessWebHook answers before the handler ends), whatever is repeated,
\* answered late or lost in a crash.
THEOREM NoUploadForgotten == Spec => []UploadNotForgotten
<1>1. Init => AnsweredIsTaken /\ UploadNotForgotten
  BY DEF Init, AnsweredIsTaken, UploadNotForgotten, Zero
<1>2. IInv /\ AnsweredIsTaken /\ UploadNotForgotten /\ [Next]_vars => UploadNotForgotten'
  <2> SUFFICES ASSUME IInv, AnsweredIsTaken, UploadNotForgotten, [Next]_vars
               PROVE  UploadNotForgotten'
    OBVIOUS
  <2>0. TypeOK'
    BY TypeStep DEF IInv
  <2> SUFFICES ASSUME NEW j \in Jobs \ Respelled, puts'[j] > 0
               PROVE  events'[j] > 0 \/ Taken(j)'
    BY <2>0, SMT DEF TypeOK, UploadNotForgotten, Taken
  <2> USE DEF IInv, TypeOK
  <2>1. CASE Taken(j)
    BY <2>1, TakenStays
  <2>2. CASE ~ Taken(j)
    <3>1. ~ (posts[j] > 0)
      BY <2>2 DEF AnsweredIsTaken
    <3>2. puts[j] > 0 => events[j] > 0
      BY <2>2, SMT DEF UploadNotForgotten, Taken
    <3>3. ASSUME NEW k \in Jobs, Put(k) PROVE events'[j] > 0
      BY <3>2, <3>3, SMT DEF Put, Inc
    <3>4. ASSUME NEW k \in Jobs, AnswerWebhook(k) PROVE events'[j] > 0
      <4>1. k # j
        BY <3>1, <3>4 DEF AnswerWebhook
      <4> QED BY <3>2, <3>4, <4>1, SMT DEF AnswerWebhook, Dec
    <3>5. CASE UNCHANGED <<puts, events>>
      BY <3>2, <3>5
    <3>6. UNCHANGED <<puts, events>> \/ \E k \in Jobs : Put(k) \/ AnswerWebhook(k)
      BY DEF Next, PostUrl, RequestStep, RequestFails, Deliver, Handle, FindRow, MissRow,
             QueryFails, Send, SendFails, Crash, eventVars, vars
    <3> QED BY <3>3, <3>4, <3>5, <3>6
  <2> QED BY <2>1, <2>2
<1> QED
  BY <1>1, <1>2, AnsweredIsTakenStep, IngestInvariance, PTL DEF Spec
=============================================================================
