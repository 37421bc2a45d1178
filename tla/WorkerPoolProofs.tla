-------------------------- MODULE WorkerPoolProofs --------------------------
(***************************************************************************)
(* Theorems about WorkerPool for every set of jobs and workers and every   *)
(* bound on tries, copies and faults.                                      *)
(***************************************************************************)
EXTENDS WorkerPool, FiniteSetTheorems, TLAPS

-----------------------------------------------------------------------------
(* Type correctness.                                                       *)

\* The messages a crash gives back are counted by a natural number.
LEMMA OwnersCounted ==
  ASSUME NEW j \in Jobs
  PROVE  /\ IsFiniteSet(Owners(j))
         /\ Cardinality(Owners(j)) \in Nat
         /\ Owners(j) # {} => Cardinality(Owners(j)) > 0
<1>1. IsFiniteSet(Owners(j))
  BY FS_Subset, SetsAssumption DEF Owners
<1>2. Cardinality(Owners(j)) \in Nat
  BY <1>1, FS_CardinalityType
<1>3. Owners(j) # {} => Cardinality(Owners(j)) # 0
  BY <1>1, FS_EmptySet
<1> QED BY <1>1, <1>2, <1>3

\* The initial state is well typed.
LEMMA TypeInit == Init => TypeOK
BY SetsAssumption, BoundsAssumption
DEF Init, TypeOK, NoCleanups, Stages, Busy, Publishing, Says, Settling, Modes, Remaining

\* A step of a cleanup goroutine keeps the counts of goroutines natural.
LEMMA AdvancesType ==
  ASSUME cleanups \in [Jobs -> [Remaining -> Nat]], NEW j \in Jobs,
         NEW from \in Remaining, NEW to \in Remaining, Advances(j, from, to)
  PROVE  cleanups' \in [Jobs -> [Remaining -> Nat]]
<1> DEFINE mid == [cleanups EXCEPT ![j][from] = @ - 1]
<1>1. cleanups[j] \in [Remaining -> Nat] /\ cleanups[j][from] \in Nat \ {0}
  BY DEF Advances
<1>2. mid \in [Jobs -> [Remaining -> Nat]]
  BY <1>1
<1>3. cleanups' = [mid EXCEPT ![j][to] = @ + 1]
  BY DEF Advances
<1>4. mid[j] \in [Remaining -> Nat] /\ mid[j][to] \in Nat
  BY <1>2
<1> HIDE DEF mid
<1> QED
  BY <1>2, <1>3, <1>4

\* A failed attempt leaves a worker that tries again or one that reports.
LEMMA AttemptFailsType ==
  ASSUME TypeOK, NEW w \in Workers, NEW m \in Modes, stage[w] \in {"download", "upload"},
         AttemptFails(w, m)
  PROVE  /\ stage' \in [Workers -> Stages]
         /\ tries' \in [Workers -> 0 .. MaxTries - 1]
         /\ plan' \in [Workers -> Modes \cup {"none"}]
         /\ \A v \in Workers :
              /\ (holding'[v] # None) <=> (stage'[v] \in Busy)
              /\ owned'[v] => holding'[v] # None
              /\ (plan'[v] # "none") <=> (stage'[v] \in {"fail", "succeed", "tidy"})
         /\ UNCHANGED <<brokerVars, holding, owned, cleanups, statusVars, faultVars, lossVars>>
<1> USE BoundsAssumption DEF Stages, Busy, Publishing, Says, Settling, Modes
<1>1. UNCHANGED <<brokerVars, holding, owned, cleanups, statusVars, faultVars, lossVars>>
  BY DEF AttemptFails, TryAgainOr
<1>2. CASE tries[w] + 1 < MaxTries
  <2>1. tries' = [tries EXCEPT ![w] = @ + 1] /\ UNCHANGED <<stage, plan>>
    BY <1>2 DEF AttemptFails, TryAgainOr
  <2>2. tries' \in [Workers -> 0 .. MaxTries - 1]
    BY <1>2, <2>1 DEF TypeOK
  <2> QED BY <1>1, <2>1, <2>2 DEF TypeOK
<1>3. CASE ~ (tries[w] + 1 < MaxTries)
  <2>1. /\ tries' = [tries EXCEPT ![w] = 0]
        /\ stage' = [stage EXCEPT ![w] = "fail"]
        /\ plan' = [plan EXCEPT ![w] = m]
    BY <1>3 DEF AttemptFails, TryAgainOr
  <2>2. tries' \in [Workers -> 0 .. MaxTries - 1]
    BY <2>1 DEF TypeOK
  <2> QED BY <1>1, <2>1, <2>2 DEF TypeOK
<1> QED BY <1>2, <1>3

\* Every step keeps every variable in its type.
LEMMA TypeStep == TypeOK /\ [Next]_vars => TypeOK'
<1> SUFFICES ASSUME TypeOK, [Next]_vars PROVE TypeOK'
  OBVIOUS
<1> USE SetsAssumption, BoundsAssumption DEF TypeOK
<1> USE DEF Stages, Busy, Publishing, Says, Settling, Modes, Remaining,
           brokerVars, workerVars, fileVars, statusVars, faultVars, lossVars
<1>1. ASSUME NEW j \in Jobs, Submit(j) PROVE TypeOK'
  BY <1>1 DEF Submit
<1>2. CASE OpenStatusChannel
  BY <1>2 DEF OpenStatusChannel
<1>3. ASSUME NEW w \in Workers, Connect(w) PROVE TypeOK'
  BY <1>3 DEF Connect
<1>4. ASSUME NEW w \in Workers, NEW j \in Jobs, Receive(w, j) PROVE TypeOK'
  BY <1>4 DEF Receive
<1>5. ASSUME NEW w \in Workers, PublishOk(w) PROVE TypeOK'
  <2>1. outcomes' \subseteq Jobs \X Outcomes
    BY <1>5 DEF PublishOk
  <2>2. stage' \in [Workers -> Stages]
    BY <1>5 DEF PublishOk, Continues
  <2>3. /\ stage[w] \in Publishing /\ stage' = [stage EXCEPT ![w] = Continues[stage[w]]]
        /\ UNCHANGED <<brokerVars, holding, owned, tries, plan, cleanups, fileVars,
                       statusCh, unheard, aborted, faultVars, lossVars>>
    BY <1>5 DEF PublishOk
  <2>4. ASSUME NEW v \in Workers
        PROVE  /\ (holding[v]' # None) <=> (stage[v]' \in Busy)
               /\ owned[v]' => holding[v]' # None
               /\ (plan[v]' # "none") <=> (stage[v]' \in {"fail", "succeed", "tidy"})
    BY <2>3 DEF Continues
  <2> HIDE DEF Stages
  <2> QED BY <2>1, <2>2, <2>3, <2>4
<1>6. ASSUME NEW w \in Workers, PublishSwallowed(w) PROVE TypeOK'
  <2>1. statusCh' \in {"unset", "open", "closed"} /\ statusLosses' \in 0 .. MaxStatusLosses
    BY <1>6 DEF PublishSwallowed, BreakStatusChannel
  <2>2. unheard' \subseteq Jobs /\ stage' \in [Workers -> Stages]
    BY <1>6 DEF PublishSwallowed, Continues
  <2> QED
    BY <1>6, <2>1, <2>2 DEF PublishSwallowed, Continues
<1>7. ASSUME NEW w \in Workers, NEW verdict \in {"drop", "requeue"},
           PublishFatal(w, verdict)
      PROVE TypeOK'
  BY <1>7 DEF PublishFatal, BreakStatusChannel
<1>8. ASSUME NEW w \in Workers, DownloadOk(w) PROVE TypeOK'
  BY <1>8 DEF DownloadOk
<1>9. ASSUME NEW w \in Workers, DownloadFails(w) PROVE TypeOK'
  <2>1. "delete_s3" \in Modes /\ stage[w] \in {"download", "upload"} /\ AttemptFails(w, "delete_s3")
    BY <1>9 DEF DownloadFails
  <2>2. rawFile' \subseteq Jobs /\ UNCHANGED <<s3raw, s3out, outFile>>
    BY <1>9 DEF DownloadFails
  <2> HIDE DEF Stages, Busy, Modes
  <2> QED BY <2>1, <2>2, AttemptFailsType
<1>10. ASSUME NEW w \in Workers, TransformOk(w) PROVE TypeOK'
  BY <1>10 DEF TransformOk
<1>11. ASSUME NEW w \in Workers, TransformFails(w) PROVE TypeOK'
  BY <1>11 DEF TransformFails
<1>12. ASSUME NEW w \in Workers, UploadOk(w) PROVE TypeOK'
  BY <1>12 DEF UploadOk
<1>13. ASSUME NEW w \in Workers, UploadFails(w) PROVE TypeOK'
  <2> DEFINE m == "remove_local_all_and_delete_s3"
  <2>1. m \in Modes /\ stage[w] \in {"download", "upload"} /\ AttemptFails(w, m)
    BY <1>13 DEF UploadFails
  <2>2. s3out' \subseteq Jobs /\ UNCHANGED <<s3raw, rawFile, outFile>>
    BY <1>13 DEF UploadFails
  <2> HIDE DEF Stages, Busy, Modes, m
  <2> QED BY <2>1, <2>2, AttemptFailsType
<1>14. ASSUME NEW w \in Workers, FireBackgroundCleanup(w) PROVE TypeOK'
  <2>1. Starts(plan[w]) \in Remaining /\ holding[w] \in Jobs
    BY <1>14 DEF FireBackgroundCleanup, Starts
  <2>2. cleanups' \in [Jobs -> [Remaining -> Nat]]
    BY <1>14, <2>1 DEF FireBackgroundCleanup
  <2>3. stage' \in [Workers -> Stages]
    BY <1>14 DEF FireBackgroundCleanup, Verdict
  <2> QED
    BY <1>14, <2>2, <2>3 DEF FireBackgroundCleanup, Verdict
<1>15. ASSUME NEW w \in Workers, Settle(w) PROVE TypeOK'
  BY <1>15 DEF Settle, GoesBack
<1>16. ASSUME NEW j \in Jobs, RemoveLocalRaw(j) PROVE TypeOK'
  <2>1. cleanups' \in [Jobs -> [Remaining -> Nat]]
    BY <1>16, AdvancesType DEF RemoveLocalRaw
  <2>2. /\ rawFile' \subseteq Jobs /\ unremoved' \subseteq Jobs \X {"raw", "processed"}
        /\ UNCHANGED <<brokerVars, workerVars, s3raw, s3out, outFile, statusVars, faultVars, stranded>>
    BY <1>16 DEF RemoveLocalRaw, Advances, Leaves
  <2> QED BY <2>1, <2>2
<1>17. ASSUME NEW j \in Jobs, RemoveLocalProcessed(j) PROVE TypeOK'
  <2>1. cleanups' \in [Jobs -> [Remaining -> Nat]]
    BY <1>17, AdvancesType DEF RemoveLocalProcessed
  <2>2. /\ outFile' \subseteq Jobs /\ unremoved' \subseteq Jobs \X {"raw", "processed"}
        /\ UNCHANGED <<brokerVars, workerVars, s3raw, s3out, rawFile, statusVars, faultVars, stranded>>
    BY <1>17 DEF RemoveLocalProcessed, Advances, Leaves
  <2> QED BY <2>1, <2>2
<1>18. ASSUME NEW j \in Jobs, DeleteS3Object(j) PROVE TypeOK'
  BY <1>18 DEF DeleteS3Object
<1>19. ASSUME NEW w \in Workers, LoseChannel(w) PROVE TypeOK'
  <2>1. CASE stage[w] = "idle" /\ stage' = [stage EXCEPT ![w] = "connecting"]
                               /\ UNCHANGED <<ready, owned>>
    BY <1>19, <2>1 DEF LoseChannel
  <2>2. CASE owned[w] /\ ready' = [ready EXCEPT ![holding[w]] = @ + 1]
                      /\ owned' = [owned EXCEPT ![w] = FALSE] /\ UNCHANGED stage
    BY <1>19, <2>2 DEF LoseChannel
  <2> QED BY <1>19, <2>1, <2>2 DEF LoseChannel
<1>20. CASE LoseStatusChannel
  BY <1>20 DEF LoseStatusChannel, BreakStatusChannel
<1>21. CASE Crash
  BY <1>21, OwnersCounted DEF Crash, Requeues, NoCleanups, Stray
<1>22. CASE UNCHANGED vars
  BY <1>22 DEF vars
<1> QED
  BY <1>1, <1>2, <1>3, <1>4, <1>5, <1>6, <1>7, <1>8, <1>9, <1>10, <1>11, <1>12, <1>13, <1>14, <1>15, <1>16, <1>17, <1>18, <1>19, <1>20, <1>21, <1>22
  DEF Next, Quiet, QuietWork, Clean, Fault

\* TypeOK holds in every reachable state.
THEOREM TypeCorrect == Spec => []TypeOK
BY TypeInit, TypeStep, PTL DEF Spec

-----------------------------------------------------------------------------
(* Safety.  The three invariants are inductive together with the           *)
(* following facts about what runs and cleanup goroutines have behind them.*)

\* Jobs with an outcome that was published, or swallowed by the status channel.
Reported == Announced \cup unheard

\* What a worker's stage says about its job: an ack and a cleanup come after
\* the report of an outcome, a drop after a report or a fatal publish error,
\* and a run that will report PROCESSED has put its object in S3.
StageFacts ==
  \A w \in Workers :
    /\ stage[w] \in {"tidy", "ack"} => holding[w] \in Reported
    /\ stage[w] = "drop" => holding[w] \in Reported \cup aborted
    /\ stage[w] = "succeed" => holding[w] \in s3out

\* A cleanup goroutine works only on jobs whose outcome was reported.
CleanupFacts ==
  \A j \in Jobs : \A r \in Remaining : cleanups[j][r] > 0 => j \in Reported

\* What the status channel's state owes to its losses: it is closed only by one,
\* no worker connects before it is open if status_queue comes first, and so an
\* outcome is swallowed, and a run ended, only by a loss.
ChannelFacts ==
  /\ statusCh = "closed" \/ aborted # {} => statusLosses > 0
  /\ StatusFirst /\ statusCh = "unset" => \A w \in Workers : stage[w] = "connecting"
  /\ StatusFirst /\ unheard # {} => statusLosses > 0

\* NoSilentLoss and InputOutlivesWork without the channel's part.
NothingLost ==
  \A j \in Jobs : submitted[j] > 0 =>
    ready[j] > 0 \/ Owners(j) # {} \/ j \in Reported \cup aborted
InputKept == \A j \in Jobs : submitted[j] > 0 /\ j \notin s3raw => j \in Reported

Facts == StageFacts /\ CleanupFacts /\ ChannelFacts
IInv == TypeOK /\ Facts /\ NothingLost /\ InputKept /\ ProcessedHasResult

\* The facts, and each invariant, hold initially.
LEMMA SafetyInit == Init => IInv
BY TypeInit
DEF Init, IInv, Facts, StageFacts, CleanupFacts, ChannelFacts, NoCleanups, NothingLost,
    InputKept, ProcessedHasResult

\* Reports are never taken back.
LEMMA ReportsGrow ==
  [Next]_vars => outcomes \subseteq outcomes' /\ Reported \subseteq Reported' /\ aborted \subseteq aborted'
<1> SUFFICES ASSUME [Next]_vars
             PROVE  outcomes \subseteq outcomes' /\ unheard \subseteq unheard' /\ aborted \subseteq aborted'
  BY DEF Reported, Announced
<1>1. ASSUME NEW w \in Workers, PublishOk(w) \/ PublishSwallowed(w)
      PROVE  outcomes \subseteq outcomes' /\ unheard \subseteq unheard' /\ aborted \subseteq aborted'
  BY <1>1 DEF PublishOk, PublishSwallowed
<1>2. ASSUME NEW w \in Workers, NEW verdict \in {"drop", "requeue"}, PublishFatal(w, verdict)
      PROVE  outcomes \subseteq outcomes' /\ unheard \subseteq unheard' /\ aborted \subseteq aborted'
  BY <1>2 DEF PublishFatal
<1>3. CASE UNCHANGED <<outcomes, unheard, aborted>>
  BY <1>3
<1> QED
  BY <1>1, <1>2, <1>3
  DEF Next, Quiet, QuietWork, Clean, Fault, Submit, OpenStatusChannel, Connect, Receive,
      DownloadOk, DownloadFails, TransformOk, TransformFails, UploadOk, UploadFails,
      AttemptFails, TryAgainOr, FireBackgroundCleanup, Settle, RemoveLocalRaw,
      RemoveLocalProcessed, DeleteS3Object, Advances, LoseChannel, LoseStatusChannel,
      Crash, statusVars, vars

\* Only BreakStatusChannel closes the status channel, and only a crash unsets it.
LEMMA ChannelFactsStep == TypeOK /\ ChannelFacts /\ [Next]_vars => ChannelFacts'
<1> SUFFICES ASSUME TypeOK, ChannelFacts, [Next]_vars PROVE ChannelFacts'
  OBVIOUS
<1> USE DEF ChannelFacts, statusVars, faultVars
<1>0. statusLosses \in Nat
  BY BoundsAssumption DEF TypeOK
<1>1. ASSUME NEW w \in Workers, PublishOk(w) PROVE ChannelFacts'
  BY <1>1 DEF PublishOk
<1>2. ASSUME NEW w \in Workers, PublishSwallowed(w) PROVE ChannelFacts'
  <2>1. stage[w] # "connecting"
    BY <1>2 DEF PublishSwallowed, Publishing, Says
  <2>2. /\ UNCHANGED aborted /\ statusCh' \in {statusCh, "closed"}
        /\ statusCh' # "unset" => statusLosses' > 0 \/ (statusCh' = "open" /\ statusCh = "open")
        /\ statusLosses > 0 => statusLosses' > 0
    BY <1>0, <1>2 DEF PublishSwallowed, BreakStatusChannel, TypeOK
  <2>3. statusCh = "open" => statusLosses' > 0
    BY <1>0, <1>2 DEF PublishSwallowed, BreakStatusChannel
  <2>4. StatusFirst => statusCh # "unset" /\ statusLosses' > 0
    BY <2>1, <2>2, <2>3 DEF TypeOK
  <2> QED BY <2>2, <2>4
<1>3. ASSUME NEW w \in Workers, NEW verdict \in {"drop", "requeue"}, PublishFatal(w, verdict)
      PROVE  ChannelFacts'
  BY <1>0, <1>3 DEF PublishFatal, BreakStatusChannel
<1>4. CASE OpenStatusChannel
  BY <1>4 DEF OpenStatusChannel
<1>5. CASE LoseStatusChannel
  BY <1>0, <1>5 DEF LoseStatusChannel, BreakStatusChannel
<1>6. CASE Crash
  BY <1>6 DEF Crash
<1>7. ASSUME NEW w \in Workers, Connect(w) PROVE ChannelFacts'
  BY <1>7 DEF Connect
<1>8. ASSUME UNCHANGED <<statusVars, statusLosses>>,
             statusCh = "unset" => \A w \in Workers : stage[w] = "connecting" => stage'[w] = "connecting"
      PROVE  ChannelFacts'
  BY <1>8
<1>9. ASSUME NEW w \in Workers, NEW to, stage[w] # "connecting", stage' = [stage EXCEPT ![w] = to],
             UNCHANGED <<statusVars, statusLosses>>
      PROVE  ChannelFacts'
  BY <1>8, <1>9 DEF TypeOK
<1>10. CASE UNCHANGED <<stage, statusVars, statusLosses>>
  BY <1>10
<1>11. ASSUME NEW w \in Workers, Settle(w) PROVE ChannelFacts'
  BY <1>9, <1>11 DEF Settle, Settling
<1>12. ASSUME NEW w \in Workers, NEW j \in Jobs, Receive(w, j) PROVE ChannelFacts'
  BY <1>9, <1>12 DEF Receive
<1>13. ASSUME NEW w \in Workers, DownloadOk(w) \/ TransformOk(w) \/ TransformFails(w) \/ UploadOk(w)
      PROVE  ChannelFacts'
  BY <1>9, <1>13 DEF DownloadOk, TransformOk, TransformFails, UploadOk
<1>14. ASSUME NEW w \in Workers, DownloadFails(w) \/ UploadFails(w) PROVE ChannelFacts'
  BY <1>9, <1>10, <1>14 DEF DownloadFails, UploadFails, AttemptFails, TryAgainOr
<1>15. ASSUME NEW w \in Workers, FireBackgroundCleanup(w) PROVE ChannelFacts'
  BY <1>9, <1>15 DEF FireBackgroundCleanup
<1>16. ASSUME NEW w \in Workers, LoseChannel(w) PROVE ChannelFacts'
  BY <1>9, <1>10, <1>16 DEF LoseChannel
<1>17. ASSUME NEW j \in Jobs, Submit(j) \/ Clean(j) PROVE ChannelFacts'
  BY <1>10, <1>17 DEF Submit, Clean, RemoveLocalRaw, RemoveLocalProcessed, DeleteS3Object,
     Advances, workerVars
<1>18. CASE UNCHANGED vars
  BY <1>10, <1>18 DEF vars, workerVars
<1> QED
  BY <1>1, <1>2, <1>3, <1>4, <1>5, <1>6, <1>7, <1>11, <1>12, <1>13, <1>14, <1>15, <1>16,
     <1>17, <1>18
  DEF Next, Quiet, QuietWork, Fault

\* What stages say of reports and objects stays true: Reported, aborted and
\* s3out only grow, and each stage is entered by the step that earns its fact.
LEMMA StageFactsStep == TypeOK /\ StageFacts /\ [Next]_vars => StageFacts'
<1> SUFFICES ASSUME TypeOK, StageFacts, [Next]_vars PROVE StageFacts'
  OBVIOUS
<1>0. Reported \subseteq Reported' /\ aborted \subseteq aborted'
  BY ReportsGrow
<1> USE DEF TypeOK, StageFacts, workerVars, fileVars, statusVars
<1>1. ASSUME NEW j \in Jobs, Submit(j) PROVE StageFacts'
  BY <1>0, <1>1 DEF Submit
<1>2. CASE OpenStatusChannel
  BY <1>0, <1>2 DEF OpenStatusChannel
<1>3. ASSUME NEW w \in Workers, Connect(w) PROVE StageFacts'
  BY <1>0, <1>3 DEF Connect
<1>4. ASSUME NEW w \in Workers, NEW j \in Jobs, Receive(w, j) PROVE StageFacts'
  BY <1>0, <1>4 DEF Receive
<1>5. ASSUME NEW w \in Workers, PublishOk(w) PROVE StageFacts'
  <2>1. /\ UNCHANGED <<holding, s3out, aborted>> /\ Reported \subseteq Reported'
        /\ stage' = [stage EXCEPT ![w] = Continues[stage[w]]]
    BY <1>0, <1>5 DEF PublishOk
  <2>2. stage[w] = "announce" => stage'[w] = "download"
    BY <1>0, <1>5, <2>1 DEF Continues
  <2>3. stage[w] \in {"fail", "succeed"} => stage'[w] = "tidy" /\ holding[w] \in Reported'
    <3> SUFFICES ASSUME stage[w] \in {"fail", "succeed"}
                 PROVE  stage'[w] = "tidy" /\ holding[w] \in Reported'
      OBVIOUS
    <3>1. holding[w] \in Jobs /\ Says[stage[w]] \in Outcomes
      BY DEF Busy, Publishing, Says, Outcomes
    <3>2. <<holding[w], Says[stage[w]]>> \in outcomes'
      BY <1>5, <3>1 DEF PublishOk
    <3>3. stage'[w] = "tidy"
      BY <2>1 DEF Continues
    <3>4. holding[w] \in Announced'
      BY <3>1, <3>2 DEF Announced
    <3> QED BY <3>3, <3>4 DEF Reported
  <2>4. stage[w] \in {"announce", "fail", "succeed"}
    BY <1>0, <1>5 DEF PublishOk, Publishing, Says
  <2>5. \A v \in Workers : v # w => stage'[v] = stage[v]
    BY <2>1
  <2> QED BY <2>1, <2>2, <2>3, <2>4, <2>5
<1>6. ASSUME NEW w \in Workers, PublishSwallowed(w) PROVE StageFacts'
  <2>1. /\ UNCHANGED <<holding, s3out, aborted>> /\ Reported \subseteq Reported'
        /\ stage' = [stage EXCEPT ![w] = Continues[stage[w]]]
    BY <1>0, <1>6 DEF PublishSwallowed
  <2>2. stage[w] = "announce" => stage'[w] = "download"
    BY <1>0, <1>6, <2>1 DEF Continues
  <2>3. stage[w] \in {"fail", "succeed"} => stage'[w] = "tidy" /\ holding[w] \in Reported'
    BY <1>6, <2>1 DEF PublishSwallowed, Continues, Says, Outcomes, Reported
  <2>4. stage[w] \in {"announce", "fail", "succeed"}
    BY <1>0, <1>6 DEF PublishSwallowed, Publishing, Says
  <2>5. \A v \in Workers : v # w => stage'[v] = stage[v]
    BY <2>1
  <2> QED BY <2>1, <2>2, <2>3, <2>4, <2>5
<1>7. ASSUME NEW w \in Workers, NEW verdict \in {"drop", "requeue"},
           PublishFatal(w, verdict)
      PROVE StageFacts'
  BY <1>0, <1>7 DEF PublishFatal, BreakStatusChannel
<1>8. ASSUME NEW w \in Workers, DownloadOk(w) PROVE StageFacts'
  BY <1>0, <1>8 DEF DownloadOk
<1>9. ASSUME NEW w \in Workers, DownloadFails(w) PROVE StageFacts'
  BY <1>0, <1>9 DEF DownloadFails, AttemptFails, TryAgainOr
<1>10. ASSUME NEW w \in Workers, TransformOk(w) PROVE StageFacts'
  BY <1>0, <1>10 DEF TransformOk
<1>11. ASSUME NEW w \in Workers, TransformFails(w) PROVE StageFacts'
  BY <1>0, <1>11 DEF TransformFails
<1>12. ASSUME NEW w \in Workers, UploadOk(w) PROVE StageFacts'
  BY <1>0, <1>12 DEF UploadOk
<1>13. ASSUME NEW w \in Workers, UploadFails(w) PROVE StageFacts'
  BY <1>0, <1>13 DEF UploadFails, AttemptFails, TryAgainOr
<1>14. ASSUME NEW w \in Workers, FireBackgroundCleanup(w) PROVE StageFacts'
  BY <1>0, <1>14 DEF FireBackgroundCleanup, Starts, Verdict, Modes
<1>15. ASSUME NEW w \in Workers, Settle(w) PROVE StageFacts'
  BY <1>0, <1>15 DEF Settle, GoesBack, Settling
<1>16. ASSUME NEW j \in Jobs, RemoveLocalRaw(j) PROVE StageFacts'
  BY <1>0, <1>16 DEF RemoveLocalRaw, Advances
<1>17. ASSUME NEW j \in Jobs, RemoveLocalProcessed(j) PROVE StageFacts'
  BY <1>0, <1>17 DEF RemoveLocalProcessed, Advances
<1>18. ASSUME NEW j \in Jobs, DeleteS3Object(j) PROVE StageFacts'
  BY <1>0, <1>18 DEF DeleteS3Object
<1>19. ASSUME NEW w \in Workers, LoseChannel(w) PROVE StageFacts'
  BY <1>0, <1>19 DEF LoseChannel
<1>20. CASE LoseStatusChannel
  BY <1>0, <1>20 DEF LoseStatusChannel, BreakStatusChannel
<1>21. CASE Crash
  BY <1>0, <1>21 DEF Crash, NoCleanups, Requeues
<1>22. CASE UNCHANGED vars
  BY <1>0, <1>22 DEF vars
<1> QED
  BY <1>0, <1>1, <1>2, <1>3, <1>4, <1>5, <1>6, <1>7, <1>8, <1>9, <1>10, <1>11, <1>12,
     <1>13, <1>14, <1>15, <1>16, <1>17, <1>18, <1>19, <1>20, <1>21, <1>22
  DEF Next, Quiet, QuietWork, Clean, Fault


\* A cleanup goroutine starts at stage tidy, after the report, and its
\* remaining work only shrinks.
LEMMA CleanupFactsStep ==
  TypeOK /\ StageFacts /\ CleanupFacts /\ [Next]_vars => CleanupFacts'
<1> SUFFICES ASSUME TypeOK, StageFacts, CleanupFacts, [Next]_vars PROVE CleanupFacts'
  OBVIOUS
<1>0. Reported \subseteq Reported'
  BY ReportsGrow
<1> USE DEF CleanupFacts, statusVars
<1>1. ASSUME NEW j \in Jobs, Submit(j) PROVE CleanupFacts'
  BY <1>0, <1>1 DEF Submit
<1>2. CASE OpenStatusChannel
  BY <1>0, <1>2 DEF OpenStatusChannel
<1>3. ASSUME NEW w \in Workers, Connect(w) PROVE CleanupFacts'
  BY <1>0, <1>3 DEF Connect
<1>4. ASSUME NEW w \in Workers, NEW j \in Jobs, Receive(w, j) PROVE CleanupFacts'
  BY <1>0, <1>4 DEF Receive
<1>5. ASSUME NEW w \in Workers, PublishOk(w) PROVE CleanupFacts'
  BY <1>0, <1>5 DEF PublishOk, Says, Continues, Publishing
<1>6. ASSUME NEW w \in Workers, PublishSwallowed(w) PROVE CleanupFacts'
  BY <1>0, <1>6 DEF PublishSwallowed, Says, Continues, Publishing, BreakStatusChannel
<1>7. ASSUME NEW w \in Workers, NEW verdict \in {"drop", "requeue"},
           PublishFatal(w, verdict)
      PROVE CleanupFacts'
  BY <1>0, <1>7 DEF PublishFatal, BreakStatusChannel
<1>8. ASSUME NEW w \in Workers, DownloadOk(w) PROVE CleanupFacts'
  BY <1>0, <1>8 DEF DownloadOk
<1>9. ASSUME NEW w \in Workers, DownloadFails(w) PROVE CleanupFacts'
  BY <1>0, <1>9 DEF DownloadFails, AttemptFails, TryAgainOr
<1>10. ASSUME NEW w \in Workers, TransformOk(w) PROVE CleanupFacts'
  BY <1>0, <1>10 DEF TransformOk
<1>11. ASSUME NEW w \in Workers, TransformFails(w) PROVE CleanupFacts'
  BY <1>0, <1>11 DEF TransformFails
<1>12. ASSUME NEW w \in Workers, UploadOk(w) PROVE CleanupFacts'
  BY <1>0, <1>12 DEF UploadOk
<1>13. ASSUME NEW w \in Workers, UploadFails(w) PROVE CleanupFacts'
  BY <1>0, <1>13 DEF UploadFails, AttemptFails, TryAgainOr
<1>14. ASSUME NEW w \in Workers, FireBackgroundCleanup(w) PROVE CleanupFacts'
  <2>1. holding[w] \in Reported
    BY <1>0, <1>14 DEF FireBackgroundCleanup, StageFacts
  <2>2. ASSUME NEW j \in Jobs, j # holding[w] PROVE cleanups'[j] = cleanups[j]
    BY <1>0, <1>14, <2>2 DEF FireBackgroundCleanup, TypeOK
  <2>3. Reported \subseteq Reported'
    BY <1>0, <1>14 DEF FireBackgroundCleanup
  <2> QED BY <2>1, <2>2, <2>3
<1>15. ASSUME NEW w \in Workers, Settle(w) PROVE CleanupFacts'
  BY <1>0, <1>15 DEF Settle, GoesBack, Settling
<1>16. ASSUME NEW j \in Jobs, RemoveLocalRaw(j) PROVE CleanupFacts'
  BY <1>0, <1>16 DEF RemoveLocalRaw, Advances, TypeOK, Remaining
<1>17. ASSUME NEW j \in Jobs, RemoveLocalProcessed(j) PROVE CleanupFacts'
  BY <1>0, <1>17 DEF RemoveLocalProcessed, Advances, TypeOK, Remaining
<1>18. ASSUME NEW j \in Jobs, DeleteS3Object(j) PROVE CleanupFacts'
  BY <1>0, <1>18 DEF DeleteS3Object, TypeOK, Remaining
<1>19. ASSUME NEW w \in Workers, LoseChannel(w) PROVE CleanupFacts'
  BY <1>0, <1>19 DEF LoseChannel
<1>20. CASE LoseStatusChannel
  BY <1>0, <1>20 DEF LoseStatusChannel, BreakStatusChannel
<1>21. CASE Crash
  BY <1>0, <1>21 DEF Crash, NoCleanups, Requeues
<1>22. CASE UNCHANGED vars
  BY <1>0, <1>22 DEF vars
<1> QED
  BY <1>0, <1>1, <1>2, <1>3, <1>4, <1>5, <1>6, <1>7, <1>8, <1>9, <1>10, <1>11, <1>12,
     <1>13, <1>14, <1>15, <1>16, <1>17, <1>18, <1>19, <1>20, <1>21, <1>22
  DEF Next, Quiet, QuietWork, Clean, Fault


\* Only DeleteS3Object takes a raw object away, and its job is reported.
LEMMA InputStep ==
  TypeOK /\ CleanupFacts /\ InputKept /\ [Next]_vars => InputKept'
<1> SUFFICES ASSUME TypeOK, CleanupFacts, InputKept, [Next]_vars
             PROVE InputKept'
  OBVIOUS
<1>0. Reported \subseteq Reported'
  BY ReportsGrow
<1> USE DEF InputKept, brokerVars, fileVars, statusVars
<1>1. ASSUME NEW j \in Jobs, Submit(j) PROVE InputKept'
  BY <1>0, <1>1 DEF Submit, TypeOK
<1>2. CASE OpenStatusChannel
  BY <1>0, <1>2 DEF OpenStatusChannel
<1>3. ASSUME NEW w \in Workers, Connect(w) PROVE InputKept'
  BY <1>0, <1>3 DEF Connect
<1>4. ASSUME NEW w \in Workers, NEW j \in Jobs, Receive(w, j) PROVE InputKept'
  BY <1>0, <1>4 DEF Receive
<1>5. ASSUME NEW w \in Workers, PublishOk(w) PROVE InputKept'
  BY <1>0, <1>5 DEF PublishOk, Says, Continues, Publishing
<1>6. ASSUME NEW w \in Workers, PublishSwallowed(w) PROVE InputKept'
  BY <1>0, <1>6 DEF PublishSwallowed, Says, Continues, Publishing, BreakStatusChannel
<1>7. ASSUME NEW w \in Workers, NEW verdict \in {"drop", "requeue"},
           PublishFatal(w, verdict)
      PROVE InputKept'
  BY <1>0, <1>7 DEF PublishFatal, BreakStatusChannel
<1>8. ASSUME NEW w \in Workers, DownloadOk(w) PROVE InputKept'
  BY <1>0, <1>8 DEF DownloadOk
<1>9. ASSUME NEW w \in Workers, DownloadFails(w) PROVE InputKept'
  BY <1>0, <1>9 DEF DownloadFails, AttemptFails, TryAgainOr
<1>10. ASSUME NEW w \in Workers, TransformOk(w) PROVE InputKept'
  BY <1>0, <1>10 DEF TransformOk
<1>11. ASSUME NEW w \in Workers, TransformFails(w) PROVE InputKept'
  BY <1>0, <1>11 DEF TransformFails
<1>12. ASSUME NEW w \in Workers, UploadOk(w) PROVE InputKept'
  BY <1>0, <1>12 DEF UploadOk
<1>13. ASSUME NEW w \in Workers, UploadFails(w) PROVE InputKept'
  BY <1>0, <1>13 DEF UploadFails, AttemptFails, TryAgainOr
<1>14. ASSUME NEW w \in Workers, FireBackgroundCleanup(w) PROVE InputKept'
  BY <1>0, <1>14 DEF FireBackgroundCleanup, Starts, Verdict, Modes
<1>15. ASSUME NEW w \in Workers, Settle(w) PROVE InputKept'
  BY <1>0, <1>15 DEF Settle, GoesBack, Settling
<1>16. ASSUME NEW j \in Jobs, RemoveLocalRaw(j) PROVE InputKept'
  BY <1>0, <1>16 DEF RemoveLocalRaw, Advances
<1>17. ASSUME NEW j \in Jobs, RemoveLocalProcessed(j) PROVE InputKept'
  BY <1>0, <1>17 DEF RemoveLocalProcessed, Advances
<1>18. ASSUME NEW j \in Jobs, DeleteS3Object(j) PROVE InputKept'
  <2>1. j \in Reported
    BY <1>0, <1>18 DEF DeleteS3Object, CleanupFacts, Remaining
  <2> QED BY <1>0, <1>18, <2>1 DEF DeleteS3Object
<1>19. ASSUME NEW w \in Workers, LoseChannel(w) PROVE InputKept'
  BY <1>0, <1>19 DEF LoseChannel
<1>20. CASE LoseStatusChannel
  BY <1>0, <1>20 DEF LoseStatusChannel, BreakStatusChannel
<1>21. CASE Crash
  BY <1>0, <1>21 DEF Crash, NoCleanups, Requeues
<1>22. CASE UNCHANGED vars
  BY <1>0, <1>22 DEF vars
<1> QED
  BY <1>0, <1>1, <1>2, <1>3, <1>4, <1>5, <1>6, <1>7, <1>8, <1>9, <1>10, <1>11, <1>12,
     <1>13, <1>14, <1>15, <1>16, <1>17, <1>18, <1>19, <1>20, <1>21, <1>22
  DEF Next, Quiet, QuietWork, Clean, Fault


\* PROCESSED is published at stage succeed, where the object is in S3, and
\* nothing removes a processed object.
LEMMA ResultStep ==
  TypeOK /\ StageFacts /\ ProcessedHasResult /\ [Next]_vars => ProcessedHasResult'
<1> SUFFICES ASSUME TypeOK, StageFacts, ProcessedHasResult, [Next]_vars
             PROVE ProcessedHasResult'
  OBVIOUS
<1> USE DEF ProcessedHasResult, fileVars, statusVars
<1>1. ASSUME NEW j \in Jobs, Submit(j) PROVE ProcessedHasResult'
  BY <1>1 DEF Submit
<1>2. CASE OpenStatusChannel
  BY <1>2 DEF OpenStatusChannel
<1>3. ASSUME NEW w \in Workers, Connect(w) PROVE ProcessedHasResult'
  BY <1>3 DEF Connect
<1>4. ASSUME NEW w \in Workers, NEW j \in Jobs, Receive(w, j) PROVE ProcessedHasResult'
  BY <1>4 DEF Receive
<1>5. ASSUME NEW w \in Workers, PublishOk(w) PROVE ProcessedHasResult'
  <2>1. Says[stage[w]] = "PROCESSED" => holding[w] \in s3out
    BY <1>5 DEF PublishOk, StageFacts, Says, Publishing
  <2> QED BY <1>5, <2>1 DEF PublishOk
<1>6. ASSUME NEW w \in Workers, PublishSwallowed(w) PROVE ProcessedHasResult'
  BY <1>6 DEF PublishSwallowed, Says, Continues, Publishing, BreakStatusChannel
<1>7. ASSUME NEW w \in Workers, NEW verdict \in {"drop", "requeue"},
           PublishFatal(w, verdict)
      PROVE ProcessedHasResult'
  BY <1>7 DEF PublishFatal, BreakStatusChannel
<1>8. ASSUME NEW w \in Workers, DownloadOk(w) PROVE ProcessedHasResult'
  BY <1>8 DEF DownloadOk
<1>9. ASSUME NEW w \in Workers, DownloadFails(w) PROVE ProcessedHasResult'
  BY <1>9 DEF DownloadFails, AttemptFails, TryAgainOr
<1>10. ASSUME NEW w \in Workers, TransformOk(w) PROVE ProcessedHasResult'
  BY <1>10 DEF TransformOk
<1>11. ASSUME NEW w \in Workers, TransformFails(w) PROVE ProcessedHasResult'
  BY <1>11 DEF TransformFails
<1>12. ASSUME NEW w \in Workers, UploadOk(w) PROVE ProcessedHasResult'
  BY <1>12 DEF UploadOk
<1>13. ASSUME NEW w \in Workers, UploadFails(w) PROVE ProcessedHasResult'
  BY <1>13 DEF UploadFails, AttemptFails, TryAgainOr
<1>14. ASSUME NEW w \in Workers, FireBackgroundCleanup(w) PROVE ProcessedHasResult'
  BY <1>14 DEF FireBackgroundCleanup, Starts, Verdict, Modes
<1>15. ASSUME NEW w \in Workers, Settle(w) PROVE ProcessedHasResult'
  BY <1>15 DEF Settle, GoesBack, Settling
<1>16. ASSUME NEW j \in Jobs, RemoveLocalRaw(j) PROVE ProcessedHasResult'
  BY <1>16 DEF RemoveLocalRaw, Advances
<1>17. ASSUME NEW j \in Jobs, RemoveLocalProcessed(j) PROVE ProcessedHasResult'
  BY <1>17 DEF RemoveLocalProcessed, Advances
<1>18. ASSUME NEW j \in Jobs, DeleteS3Object(j) PROVE ProcessedHasResult'
  BY <1>18 DEF DeleteS3Object
<1>19. ASSUME NEW w \in Workers, LoseChannel(w) PROVE ProcessedHasResult'
  BY <1>19 DEF LoseChannel
<1>20. CASE LoseStatusChannel
  BY <1>20 DEF LoseStatusChannel, BreakStatusChannel
<1>21. CASE Crash
  BY <1>21 DEF Crash, NoCleanups, Requeues
<1>22. CASE UNCHANGED vars
  BY <1>22 DEF vars
<1> QED
  BY <1>1, <1>2, <1>3, <1>4, <1>5, <1>6, <1>7, <1>8, <1>9, <1>10, <1>11, <1>12,
     <1>13, <1>14, <1>15, <1>16, <1>17, <1>18, <1>19, <1>20, <1>21, <1>22
  DEF Next, Quiet, QuietWork, Clean, Fault


\* A job stays somewhere: each step that takes a message off the queue or out
\* of a worker's hands puts it back elsewhere or finds the job accounted for.
LEMMA LossStep ==
  TypeOK /\ StageFacts /\ NothingLost /\ [Next]_vars => NothingLost'
<1> SUFFICES ASSUME TypeOK, StageFacts, NothingLost, [Next]_vars
             PROVE NothingLost'
  OBVIOUS
<1>0. Reported \subseteq Reported' /\ aborted \subseteq aborted'
  BY ReportsGrow
<1> USE DEF NothingLost, Owners, brokerVars, workerVars, statusVars
<1>1. ASSUME NEW j \in Jobs, Submit(j) PROVE NothingLost'
  <2>1. ready'[j] > 0 /\ \A k \in Jobs : k # j => ready'[k] = ready[k] /\ submitted'[k] = submitted[k]
    BY <1>0, <1>1 DEF Submit, TypeOK
  <2> QED BY <1>0, <1>1, <2>1 DEF Submit
<1>2. CASE OpenStatusChannel
  BY <1>0, <1>2 DEF OpenStatusChannel
<1>3. ASSUME NEW w \in Workers, Connect(w) PROVE NothingLost'
  BY <1>0, <1>3 DEF Connect
<1>4. ASSUME NEW w \in Workers, NEW j \in Jobs, Receive(w, j) PROVE NothingLost'
  <2>1. \A k \in Jobs : k # j => ready'[k] = ready[k]
    BY <1>0, <1>4 DEF Receive, TypeOK
  <2>2. owned'[w] /\ holding'[w] = j
    BY <1>0, <1>4 DEF Receive, TypeOK
  <2>3. ~ owned[w]
    BY <1>0, <1>4 DEF Receive, TypeOK, Busy, Publishing, Says, Settling
  <2>4. \A v \in Workers : owned[v] => owned'[v] /\ holding'[v] = holding[v]
    BY <1>0, <1>4, <2>3 DEF Receive, TypeOK
  <2> QED BY <1>0, <1>4, <2>1, <2>2, <2>4 DEF Receive
<1>5. ASSUME NEW w \in Workers, PublishOk(w) PROVE NothingLost'
  BY <1>0, <1>5 DEF PublishOk, Says, Continues, Publishing
<1>6. ASSUME NEW w \in Workers, PublishSwallowed(w) PROVE NothingLost'
  BY <1>0, <1>6 DEF PublishSwallowed, Says, Continues, Publishing, BreakStatusChannel
<1>7. ASSUME NEW w \in Workers, NEW verdict \in {"drop", "requeue"},
           PublishFatal(w, verdict)
      PROVE NothingLost'
  BY <1>0, <1>7 DEF PublishFatal, BreakStatusChannel
<1>8. ASSUME NEW w \in Workers, DownloadOk(w) PROVE NothingLost'
  BY <1>0, <1>8 DEF DownloadOk
<1>9. ASSUME NEW w \in Workers, DownloadFails(w) PROVE NothingLost'
  BY <1>0, <1>9 DEF DownloadFails, AttemptFails, TryAgainOr
<1>10. ASSUME NEW w \in Workers, TransformOk(w) PROVE NothingLost'
  BY <1>0, <1>10 DEF TransformOk
<1>11. ASSUME NEW w \in Workers, TransformFails(w) PROVE NothingLost'
  BY <1>0, <1>11 DEF TransformFails
<1>12. ASSUME NEW w \in Workers, UploadOk(w) PROVE NothingLost'
  BY <1>0, <1>12 DEF UploadOk
<1>13. ASSUME NEW w \in Workers, UploadFails(w) PROVE NothingLost'
  BY <1>0, <1>13 DEF UploadFails, AttemptFails, TryAgainOr
<1>14. ASSUME NEW w \in Workers, FireBackgroundCleanup(w) PROVE NothingLost'
  BY <1>0, <1>14 DEF FireBackgroundCleanup, Starts, Verdict, Modes
<1>15. ASSUME NEW w \in Workers, Settle(w) PROVE NothingLost'
  <2>1. \A v \in Workers : v # w => owned'[v] = owned[v] /\ holding'[v] = holding[v]
    BY <1>0, <1>15 DEF Settle, GoesBack, TypeOK
  <2>2. \A k \in Jobs : ready[k] > 0 => ready'[k] > 0
    BY <1>0, <1>15 DEF Settle, GoesBack, TypeOK
  <2>3. ASSUME owned[w]
        PROVE  ready'[holding[w]] > 0 \/ holding[w] \in Reported \cup aborted
    <3>1. holding[w] \in Jobs
      BY <2>3 DEF TypeOK
    <3>2. CASE stage[w] = "requeue"
      BY <1>0, <1>15, <2>3, <3>1, <3>2 DEF Settle, GoesBack, TypeOK
    <3>3. CASE stage[w] \in {"ack", "drop"}
      BY <3>3 DEF StageFacts
    <3> QED BY <1>15, <3>2, <3>3 DEF Settle, Settling
  <2> QED BY <1>0, <1>15, <2>1, <2>2, <2>3 DEF Settle
<1>16. ASSUME NEW j \in Jobs, RemoveLocalRaw(j) PROVE NothingLost'
  BY <1>0, <1>16 DEF RemoveLocalRaw, Advances
<1>17. ASSUME NEW j \in Jobs, RemoveLocalProcessed(j) PROVE NothingLost'
  BY <1>0, <1>17 DEF RemoveLocalProcessed, Advances
<1>18. ASSUME NEW j \in Jobs, DeleteS3Object(j) PROVE NothingLost'
  BY <1>0, <1>18 DEF DeleteS3Object
<1>19. ASSUME NEW w \in Workers, LoseChannel(w) PROVE NothingLost'
  <2>1. CASE stage[w] = "idle" /\ UNCHANGED <<ready, owned>>
    BY <1>0, <1>19, <2>1 DEF LoseChannel
  <2>2. CASE owned[w] /\ ready' = [ready EXCEPT ![holding[w]] = ready[holding[w]] + 1]
                      /\ owned' = [owned EXCEPT ![w] = FALSE]
    <3>1. holding[w] \in Jobs /\ ready'[holding[w]] > 0
      BY <2>2 DEF TypeOK
    <3>2. \A k \in Jobs : ready[k] > 0 => ready'[k] > 0
      BY <2>2 DEF TypeOK
    <3>3. \A v \in Workers : v # w => owned'[v] = owned[v]
      BY <2>2 DEF TypeOK
    <3> QED BY <1>0, <1>19, <3>1, <3>2, <3>3 DEF LoseChannel
  <2> QED BY <1>19, <2>1, <2>2 DEF LoseChannel
<1>20. CASE LoseStatusChannel
  BY <1>0, <1>20 DEF LoseStatusChannel, BreakStatusChannel
<1>21. CASE Crash
  <2>1. \A k \in Jobs : ready'[k] = ready[k] + Cardinality(Owners(k))
    BY <1>0, <1>21 DEF Crash, Requeues
  <2>2. \A k \in Jobs : ready[k] \in Nat /\ (ready[k] > 0 \/ Owners(k) # {} => ready'[k] > 0)
    <3> HIDE DEF Owners
    <3> QED BY <2>1, OwnersCounted DEF TypeOK
  <2>3. UNCHANGED submitted
    BY <1>0, <1>21 DEF Crash
  <2> QED BY <1>0, <2>2, <2>3
<1>22. CASE UNCHANGED vars
  BY <1>0, <1>22 DEF vars
<1> QED
  BY <1>0, <1>1, <1>2, <1>3, <1>4, <1>5, <1>6, <1>7, <1>8, <1>9, <1>10, <1>11, <1>12,
     <1>13, <1>14, <1>15, <1>16, <1>17, <1>18, <1>19, <1>20, <1>21, <1>22
  DEF Next, Quiet, QuietWork, Clean, Fault


\* The inductive invariant holds in every reachable state.
THEOREM Invariance == Spec => []IInv
<1>1. IInv /\ [Next]_vars => IInv'
  BY TypeStep, StageFactsStep, CleanupFactsStep, ChannelFactsStep, InputStep, ResultStep, LossStep
  DEF IInv, Facts
<1> QED
  BY SafetyInit, <1>1, PTL DEF Spec

\* A submitted job is never lost in silence, whatever the sizes and bounds: it is on
\* the queue, unacknowledged or has an outcome on status_queue, unless the status
\* channel has failed it (the Ack and Nack of Start).
THEOREM NeverSilentlyLost == Spec => []NoSilentLoss
<1>1. IInv => NoSilentLoss
  BY DEF IInv, Facts, ChannelFacts, NothingLost, NoSilentLoss, Reported, Swallowed
<1> QED BY <1>1, Invariance, PTL

\* A raw object is deleted only when an outcome of its job is on status_queue or was
\* swallowed on a status channel that is broken or not yet open (CleanupAll).
THEOREM InputKeptUntilReported == Spec => []InputOutlivesWork
<1>1. IInv => InputOutlivesWork
  BY DEF IInv, Facts, ChannelFacts, InputKept, InputOutlivesWork, Reported, Swallowed
<1> QED BY <1>1, Invariance, PTL

\* A PROCESSED message implies that the processed object is in S3.
THEOREM ResultBehindEveryProcessed == Spec => []ProcessedHasResult
BY Invariance, PTL DEF IInv

NoneMisnamed == s3out \cap Misnamed = {}

\* Only what UploadtoS3Object could read gets to S3.
LEMMA OnlyReadableUploaded == NoneMisnamed /\ [Next]_vars => NoneMisnamed'
<1> SUFFICES ASSUME NoneMisnamed, [Next]_vars PROVE s3out' \cap Misnamed = {}
  BY DEF NoneMisnamed
<1> USE DEF NoneMisnamed
<1>1. ASSUME NEW w \in Workers, UploadOk(w) PROVE s3out' \cap Misnamed = {}
  BY <1>1 DEF UploadOk, Readable
<1>2. ASSUME NEW w \in Workers, UploadFails(w) PROVE s3out' \cap Misnamed = {}
  BY <1>2 DEF UploadFails, Readable
<1>3. CASE UNCHANGED s3out
  BY <1>3
<1> QED
  BY <1>1, <1>2, <1>3
  DEF Next, Quiet, QuietWork, Clean, Fault, Submit, OpenStatusChannel, Connect, Receive,
      PublishOk, PublishSwallowed, PublishFatal, DownloadOk, DownloadFails, TransformOk,
      TransformFails, FireBackgroundCleanup, Settle, RemoveLocalRaw, RemoveLocalProcessed,
      DeleteS3Object, Advances, LoseChannel, LoseStatusChannel, Crash, fileVars, vars

\* A job whose upload looks for a name that transform did not write is never
\* reported PROCESSED, however often it is repeated.
THEOREM MisnamedNeverProcessed ==
  Spec => [](\A j \in Misnamed : <<j, "PROCESSED">> \notin outcomes)
<1>1. Init => NoneMisnamed
  BY DEF Init, NoneMisnamed
<1>2. ProcessedHasResult /\ NoneMisnamed
        => \A j \in Misnamed : <<j, "PROCESSED">> \notin outcomes
  BY SetsAssumption DEF ProcessedHasResult, NoneMisnamed
<1> QED
  BY <1>1, <1>2, OnlyReadableUploaded, ResultBehindEveryProcessed, PTL DEF Spec

-----------------------------------------------------------------------------
(* Only submitted jobs are on the queue or at a worker.                    *)

HeldSubmitted ==
  /\ \A j \in Jobs : ready[j] > 0 => submitted[j] > 0
  /\ \A w \in Workers : holding[w] \in Jobs => submitted[holding[w]] > 0

\* A crash requeues only what workers held.
LEMMA RequeuedSubmitted ==
  ASSUME TypeOK, HeldSubmitted, NEW j \in Jobs, ready[j] + Cardinality(Owners(j)) > 0
  PROVE  submitted[j] > 0
<1>1. CASE ready[j] > 0
  BY <1>1 DEF HeldSubmitted
<1>2. CASE ready[j] = 0
  <2>1. Owners(j) # {}
    BY <1>2, FS_EmptySet
  <2>2. PICK w \in Workers : holding[w] = j
    BY <2>1 DEF Owners
  <2> QED BY <2>2 DEF HeldSubmitted
<1> QED BY <1>1, <1>2 DEF TypeOK

\* Messages move between the queue and the workers; only Submit makes one.
LEMMA HeldStep == TypeOK /\ HeldSubmitted /\ [Next]_vars => HeldSubmitted'
<1> SUFFICES ASSUME TypeOK, HeldSubmitted, [Next]_vars PROVE HeldSubmitted'
  OBVIOUS
<1>1. ASSUME NEW j \in Jobs, Submit(j) PROVE HeldSubmitted'
  BY <1>1 DEF Submit, TypeOK, HeldSubmitted, workerVars
<1>2. ASSUME NEW w \in Workers, NEW j \in Jobs, Receive(w, j) PROVE HeldSubmitted'
  BY <1>2 DEF Receive, TypeOK, HeldSubmitted
<1>3. ASSUME NEW w \in Workers, Settle(w) PROVE HeldSubmitted'
  BY <1>3, SetsAssumption DEF Settle, GoesBack, TypeOK, HeldSubmitted
<1>4. ASSUME NEW w \in Workers, LoseChannel(w) PROVE HeldSubmitted'
  BY <1>4 DEF LoseChannel, TypeOK, HeldSubmitted
<1>5. CASE Crash
  <2>1. \A w \in Workers : holding'[w] \notin Jobs
    BY <1>5, SetsAssumption DEF Crash
  <2>2. \A j \in Jobs : ready'[j] > 0 => submitted'[j] > 0
    BY <1>5, RequeuedSubmitted DEF Crash, Requeues
  <2> QED BY <2>1, <2>2 DEF HeldSubmitted
<1>6. CASE UNCHANGED <<submitted, ready, holding>>
  BY <1>6 DEF HeldSubmitted
<1> QED
  BY <1>1, <1>2, <1>3, <1>4, <1>5, <1>6
  DEF Next, Quiet, QuietWork, Clean, Fault, OpenStatusChannel, Connect,
      PublishOk, PublishSwallowed, PublishFatal, DownloadOk, DownloadFails, TransformOk,
      TransformFails, UploadOk, UploadFails, AttemptFails, TryAgainOr,
      FireBackgroundCleanup, RemoveLocalRaw, RemoveLocalProcessed,
      DeleteS3Object, Advances, LoseStatusChannel, brokerVars, workerVars, vars

\* At the start there is nothing of any job.
LEMMA HeldInit == Init => HeldSubmitted
BY SetsAssumption DEF Init, HeldSubmitted

-----------------------------------------------------------------------------
(* Single deliveries: each job is submitted once, and nothing redelivers it *)
(* but a fatal publish error.                                              *)

SingleDelivery == MaxCopies = 1 /\ MaxCrashes = 0 /\ MaxChannelLosses = 0

\* A job has one message at most: on the queue or at one worker.
SingleRuns ==
  /\ \A j \in Jobs : ready[j] > 0 => ready[j] = 1 /\ \A w \in Workers : holding[w] # j
  /\ \A v, w \in Workers : holding[v] = holding[w] /\ holding[v] # None => v = w

\* Once an outcome is published, the run that did so is the job's last.
Decided ==
  \A j \in Jobs, s \in Outcomes : <<j, s>> \in outcomes =>
    /\ submitted[j] > 0 /\ ready[j] = 0
    /\ \A w \in Workers : holding[w] = j => stage[w] \in {"tidy", "ack", "drop"}

\* Neither a crash nor a lost channel redelivers.
LEMMA NothingRedelivers ==
  ASSUME SingleDelivery, TypeOK
  PROVE  ~ Crash /\ \A w \in Workers : ~ LoseChannel(w)
BY DEF SingleDelivery, TypeOK, Crash, LoseChannel

\* Only Submit, Receive and Settle move a message.
LEMMA SingleStep ==
  SingleDelivery /\ TypeOK /\ HeldSubmitted /\ SingleRuns /\ [Next]_vars => SingleRuns'
<1> SUFFICES ASSUME SingleDelivery, TypeOK, HeldSubmitted, SingleRuns, [Next]_vars
             PROVE  SingleRuns'
  OBVIOUS
<1>1. ASSUME NEW j \in Jobs, Submit(j) PROVE SingleRuns'
  <2>1. submitted[j] = 0 /\ UNCHANGED holding
    BY <1>1 DEF Submit, SingleDelivery, TypeOK, workerVars
  <2>2. ready[j] = 0 /\ \A w \in Workers : holding[w] # j
    BY <2>1 DEF HeldSubmitted, TypeOK
  <2>3. ready' = [ready EXCEPT ![j] = 1]
    BY <1>1, <2>2 DEF Submit
  <2> QED BY <2>1, <2>2, <2>3 DEF SingleRuns, TypeOK
<1>2. ASSUME NEW w \in Workers, NEW j \in Jobs, Receive(w, j) PROVE SingleRuns'
  <2>1. ready[j] = 1 /\ \A v \in Workers : holding[v] # j
    BY <1>2 DEF Receive, SingleRuns
  <2>2. ready' = [ready EXCEPT ![j] = 0] /\ holding' = [holding EXCEPT ![w] = j]
    BY <1>2, <2>1 DEF Receive
  <2> QED BY <2>1, <2>2 DEF SingleRuns, TypeOK
<1>3. ASSUME NEW w \in Workers, Settle(w) PROVE SingleRuns'
  <2>1. holding[w] \in Jobs /\ ready[holding[w]] = 0
    BY <1>3 DEF Settle, TypeOK, SingleRuns, Busy
  <2>2. ready' \in {ready, [ready EXCEPT ![holding[w]] = 1]}
    BY <1>3, <2>1 DEF Settle
  <2>3. holding' = [holding EXCEPT ![w] = None]
    BY <1>3 DEF Settle
  <2>4. \A v \in Workers : holding'[v] # holding[w]
    BY <2>1, <2>3, SetsAssumption DEF SingleRuns, TypeOK
  <2> QED BY <2>1, <2>2, <2>3, <2>4, SetsAssumption DEF SingleRuns, TypeOK
<1>4. CASE UNCHANGED <<ready, holding>>
  BY <1>4 DEF SingleRuns
<1> QED
  BY <1>1, <1>2, <1>3, <1>4, NothingRedelivers
  DEF Next, Quiet, QuietWork, Clean, Fault, OpenStatusChannel, Connect,
      PublishOk, PublishSwallowed, PublishFatal, DownloadOk, DownloadFails, TransformOk,
      TransformFails, UploadOk, UploadFails, AttemptFails, TryAgainOr,
      FireBackgroundCleanup, RemoveLocalRaw, RemoveLocalProcessed,
      DeleteS3Object, Advances, LoseStatusChannel, brokerVars, workerVars, vars

\* A run that has not published meets no outcome of its job; one that publishes
\* leaves for its cleanup and the settlement.
LEMMA DecidedStep ==
  SingleDelivery /\ TypeOK /\ HeldSubmitted /\ SingleRuns /\ Decided /\ OneVerdict /\ [Next]_vars
    => Decided' /\ OneVerdict'
<1> SUFFICES ASSUME SingleDelivery, TypeOK, HeldSubmitted, SingleRuns, Decided, OneVerdict,
                    [Next]_vars
             PROVE  Decided' /\ OneVerdict'
  OBVIOUS
<1>a. UNCHANGED outcomes => OneVerdict'
  BY DEF OneVerdict
<1>1. ASSUME NEW j \in Jobs, Submit(j) PROVE Decided' /\ OneVerdict'
  <2>1. submitted[j] = 0 /\ UNCHANGED <<outcomes, holding, stage>>
    BY <1>1 DEF Submit, SingleDelivery, TypeOK, workerVars, statusVars
  <2>2. \A k \in Jobs \ {j} : ready'[k] = ready[k] /\ submitted'[k] = submitted[k]
    BY <1>1 DEF Submit, TypeOK
  <2>3. \A s \in Outcomes : <<j, s>> \notin outcomes
    BY <2>1 DEF Decided
  <2> QED BY <1>a, <2>1, <2>2, <2>3 DEF Decided
<1>2. ASSUME NEW w \in Workers, NEW j \in Jobs, Receive(w, j) PROVE Decided' /\ OneVerdict'
  <2>1. UNCHANGED <<submitted, outcomes>> /\ ready[j] > 0
    BY <1>2 DEF Receive, statusVars
  <2>2. \A s \in Outcomes : <<j, s>> \notin outcomes
    BY <2>1 DEF Decided
  <2>3. \A k \in Jobs \ {j} : ready'[k] = ready[k]
    BY <1>2 DEF Receive, TypeOK
  <2>4. \A v \in Workers : holding'[v] # j => holding'[v] = holding[v] /\ stage'[v] = stage[v]
    BY <1>2 DEF Receive, TypeOK
  <2> QED BY <1>a, <2>1, <2>2, <2>3, <2>4 DEF Decided
<1>3. ASSUME NEW w \in Workers, Settle(w) PROVE Decided' /\ OneVerdict'
  <2>1. UNCHANGED <<submitted, outcomes>> /\ holding[w] \in Jobs /\ stage[w] \in Settling
    BY <1>3 DEF Settle, statusVars, TypeOK, Busy
  <2>2. \A v \in Workers \ {w} : holding'[v] = holding[v] /\ stage'[v] = stage[v]
    BY <1>3 DEF Settle, TypeOK
  <2>3. holding'[w] \notin Jobs
    BY <1>3, SetsAssumption DEF Settle, TypeOK
  <2>4. \A k \in Jobs : ready'[k] = ready[k] \/ (k = holding[w] /\ stage[w] = "requeue")
    BY <1>3 DEF Settle, GoesBack, TypeOK
  <2>5. stage[w] = "requeue" => \A s \in Outcomes : <<holding[w], s>> \notin outcomes
    BY <2>1 DEF Decided
  <2> QED BY <1>a, <2>1, <2>2, <2>3, <2>4, <2>5 DEF Decided
<1>4. ASSUME NEW w \in Workers, PublishOk(w) PROVE Decided' /\ OneVerdict'
  <2> DEFINE j == holding[w]
             s == Says[stage[w]]
  <2>1. stage[w] \in Publishing /\ j \in Jobs
    BY <1>4 DEF PublishOk, TypeOK, Busy
  <2>2. \A t \in Outcomes : <<j, t>> \notin outcomes
    BY <2>1 DEF Decided, Publishing, Says
  <2>3. outcomes' = IF s \in Outcomes THEN outcomes \cup {<<j, s>>} ELSE outcomes
    BY <1>4, <2>1 DEF PublishOk
  <2>4. /\ UNCHANGED <<submitted, ready, holding>>
        /\ stage' = [stage EXCEPT ![w] = Continues[stage[w]]]
    BY <1>4 DEF PublishOk, brokerVars
  <2>5. s \in Outcomes => stage'[w] = "tidy"
    BY <2>1, <2>4 DEF TypeOK, Publishing, Says, Continues, Outcomes
  <2>6. \A v \in Workers \ {w} : stage'[v] = stage[v] /\ holding[v] # j
    BY <2>1, <2>4, SetsAssumption DEF TypeOK, SingleRuns
  <2>7. submitted[j] > 0 /\ ready[j] = 0
    BY <2>1 DEF HeldSubmitted, SingleRuns, TypeOK
  <2> HIDE DEF j, s
  <2>8. OneVerdict'
    BY <2>1, <2>2, <2>3 DEF OneVerdict, Outcomes
  <2>9. Decided'
    <3> SUFFICES ASSUME NEW k \in Jobs, NEW t \in Outcomes, <<k, t>> \in outcomes'
                 PROVE  /\ submitted'[k] > 0 /\ ready'[k] = 0
                        /\ \A v \in Workers : holding'[v] = k => stage'[v] \in {"tidy", "ack", "drop"}
      BY DEF Decided
    <3>1. CASE k = j
      <4>1. s \in Outcomes
        BY <2>2, <2>3, <3>1
      <4> QED BY <2>4, <2>5, <2>6, <2>7, <3>1, <4>1
    <3>2. CASE k # j
      <4>1. <<k, t>> \in outcomes
        BY <2>3, <3>2
      <4>2. \A v \in Workers : holding[v] = k => stage'[v] = stage[v]
        BY <2>6, <3>2 DEF j
      <4> QED BY <2>4, <4>1, <4>2 DEF Decided
    <3> QED BY <3>1, <3>2
  <2> QED BY <2>8, <2>9
<1>5. ASSUME NEW w \in Workers, UNCHANGED <<submitted, ready, holding, outcomes>>,
             \A v \in Workers \ {w} : stage'[v] = stage[v],
             stage[w] \in {"tidy", "ack", "drop"} => stage'[w] \in {"tidy", "ack", "drop"}
      PROVE  Decided' /\ OneVerdict'
  BY <1>5, <1>a DEF Decided
<1>6. CASE UNCHANGED <<submitted, ready, holding, outcomes, stage>>
  BY <1>6, <1>a DEF Decided
<1>7. ASSUME NEW w \in Workers,
             \/ Connect(w) \/ PublishSwallowed(w)
             \/ \E verdict \in {"drop", "requeue"} : PublishFatal(w, verdict)
             \/ DownloadOk(w) \/ DownloadFails(w) \/ TransformOk(w) \/ TransformFails(w)
             \/ UploadOk(w) \/ UploadFails(w) \/ FireBackgroundCleanup(w)
      PROVE  Decided' /\ OneVerdict'
  <2>1. UNCHANGED <<submitted, ready, holding, outcomes>>
    BY <1>7 DEF Connect, PublishSwallowed, PublishFatal, DownloadOk, DownloadFails,
                TransformOk, TransformFails, UploadOk, UploadFails, AttemptFails, TryAgainOr,
                FireBackgroundCleanup, brokerVars, statusVars
  <2>2. \A v \in Workers \ {w} : stage'[v] = stage[v]
    BY <1>7 DEF Connect, PublishSwallowed, PublishFatal, DownloadOk, DownloadFails,
                TransformOk, TransformFails, UploadOk, UploadFails, AttemptFails, TryAgainOr,
                FireBackgroundCleanup, TypeOK
  <2>3. stage[w] \in {"tidy", "ack", "drop"} => stage'[w] \in {"tidy", "ack", "drop"}
    BY <1>7 DEF Connect, PublishSwallowed, PublishFatal, DownloadOk, DownloadFails,
                TransformOk, TransformFails, UploadOk, UploadFails, AttemptFails, TryAgainOr,
                FireBackgroundCleanup, TypeOK, Publishing, Says, Verdict
  <2> QED BY <1>5, <2>1, <2>2, <2>3
<1> QED
  BY <1>1, <1>2, <1>3, <1>4, <1>6, <1>7, NothingRedelivers
  DEF Next, Quiet, QuietWork, Clean, Fault, OpenStatusChannel, RemoveLocalRaw,
      RemoveLocalProcessed, DeleteS3Object, Advances, LoseStatusChannel, brokerVars,
      workerVars, statusVars, vars

\* The invariant of single deliveries.
SInv == HeldSubmitted /\ SingleRuns /\ Decided /\ OneVerdict

\* Initially there is no message and no outcome.
LEMMA SingleInit == Init => SInv
<1> SUFFICES ASSUME Init PROVE SInv
  OBVIOUS
<1>1. SingleRuns
  BY DEF Init, SingleRuns
<1>2. Decided
  BY DEF Init, Decided
<1>3. OneVerdict
  <2> SUFFICES ASSUME NEW j \in Jobs PROVE ~ ({j} \X Outcomes \subseteq outcomes)
    BY DEF OneVerdict
  <2>1. <<j, "FAILED">> \in {j} \X Outcomes /\ <<j, "FAILED">> \notin outcomes
    BY DEF Init, Outcomes
  <2> QED BY <2>1
<1> QED BY <1>1, <1>2, <1>3, HeldInit DEF SInv

\* Every step keeps it.
LEMMA SInvStep == SingleDelivery /\ TypeOK /\ SInv /\ [Next]_vars => SInv'
BY HeldStep, SingleStep, DecidedStep DEF SInv

\* A job delivered once is not reported both PROCESSED and FAILED, although a
\* fatal publish error may repeat its run and the status channel may be lost in
\* any publish (the publishes and the Nack of ProcessMessage and Start).
THEOREM OneVerdictPerJob ==
  ASSUME SingleDelivery
  PROVE  Spec => []OneVerdict
<1>1. TypeOK /\ SInv /\ [Next]_vars => SInv'
  BY SInvStep
<1>2. SInv => OneVerdict
  BY DEF SInv
<1> QED BY <1>1, <1>2, SingleInit, TypeCorrect, PTL DEF Spec

-----------------------------------------------------------------------------
(* What a successful run leaves on the disk.                               *)

\* The full cleanup of job j is about to start, or has all its work before it.
Sweeping(j) ==
  \/ \E w \in Workers : holding[w] = j /\ stage[w] = "tidy" /\ plan[w] = "cleanup_all"
  \/ cleanups[j]["cleanup_all"] > 0

\* A success ends with the full cleanup, and while a file of a PROCESSED job is
\* there, so is the cleanup that will remove it.
Swept ==
  /\ \A w \in Workers : stage[w] = "succeed" => plan[w] = "cleanup_all"
  /\ \A j \in Jobs \ Unswept : <<j, "PROCESSED">> \in outcomes =>
       /\ j \in rawFile => Sweeping(j) \/ <<j, "raw">> \in unremoved
       /\ j \in outFile => \/ Sweeping(j) \/ cleanups[j]["processed_and_s3"] > 0
                         \/ <<j, "processed">> \in unremoved

\* The counts of a job when one of its cleanup goroutines goes on, and those of
\* the other jobs.
LEMMA AdvancesCounts ==
  ASSUME cleanups \in [Jobs -> [Remaining -> Nat]], NEW j \in Jobs,
         NEW from \in Remaining, NEW to \in Remaining, from # to, Advances(j, from, to)
  PROVE  /\ cleanups'[j][from] = cleanups[j][from] - 1
         /\ cleanups'[j][to] = cleanups[j][to] + 1 /\ cleanups'[j][to] > 0
         /\ \A r \in Remaining \ {from, to} : cleanups'[j][r] = cleanups[j][r]
         /\ \A k \in Jobs \ {j} : cleanups'[k] = cleanups[k]
<1> DEFINE mid == [cleanups EXCEPT ![j][from] = @ - 1]
<1>1. /\ mid \in [Jobs -> [Remaining -> Int]]
      /\ mid[j][from] = cleanups[j][from] - 1
      /\ \A r \in Remaining \ {from} : mid[j][r] = cleanups[j][r]
      /\ \A k \in Jobs \ {j} : mid[k] = cleanups[k]
  OBVIOUS
<1>2. cleanups' = [mid EXCEPT ![j][to] = @ + 1]
  BY DEF Advances
<1>3. cleanups[j][to] \in Nat
  OBVIOUS
<1> HIDE DEF mid
<1> QED BY <1>1, <1>2, <1>3

\* Nothing but a run of the job makes its files, and nothing but their removal
\* ends the duty to remove them.
LEMMA SweptStep ==
  SingleDelivery /\ TypeOK /\ SInv /\ Swept /\ [Next]_vars => Swept'
<1> SUFFICES ASSUME SingleDelivery, TypeOK, SInv, Swept, [Next]_vars PROVE Swept'
  OBVIOUS
<1> USE DEF lossVars
<1>0. Decided /\ SingleRuns
  BY DEF SInv
<1>1. CASE UNCHANGED <<stage, plan, holding, cleanups, outcomes, rawFile, outFile, unremoved>>
  BY <1>1 DEF Swept, Sweeping
<1>2. ASSUME NEW w \in Workers, NEW j \in Jobs, Receive(w, j) PROVE Swept'
  BY <1>2 DEF Receive, Swept, Sweeping, TypeOK, statusVars, fileVars
<1>3. ASSUME NEW w \in Workers, Settle(w) PROVE Swept'
  BY <1>3 DEF Settle, Settling, Swept, Sweeping, TypeOK, statusVars, fileVars
<1>4. ASSUME NEW w \in Workers, Connect(w) PROVE Swept'
  BY <1>4 DEF Connect, Swept, Sweeping, TypeOK, statusVars, fileVars
<1>5. ASSUME NEW w \in Workers, PublishOk(w) PROVE Swept'
  <2>1. stage[w] \in Publishing
    BY <1>5 DEF PublishOk
  <2>2. stage[w] = "succeed" \/ outcomes' \subseteq outcomes \cup {<<holding[w], "FAILED">>}
    BY <1>5, <2>1 DEF PublishOk, Says, Publishing, Outcomes
  <2>3. outcomes' \subseteq outcomes \cup {<<holding[w], Says[stage[w]]>>}
    BY <1>5 DEF PublishOk
  <2>4. /\ stage' = [stage EXCEPT ![w] = Continues[stage[w]]]
        /\ UNCHANGED <<holding, plan, cleanups, rawFile, outFile, unremoved>>
    BY <1>5 DEF PublishOk, fileVars
  <2>5. stage'[w] # "succeed" /\ \A v \in Workers \ {w} : stage'[v] = stage[v]
    BY <2>1, <2>4 DEF TypeOK, Publishing, Says, Continues
  <2>6. stage[w] = "succeed" => Sweeping(holding[w])'
    BY <2>4 DEF Swept, Sweeping, TypeOK, Continues
  <2>7. \A j \in Jobs : Sweeping(j) => Sweeping(j)'
    BY <2>1, <2>4, <2>5 DEF Sweeping, Publishing, Says
  <2> QED BY <2>2, <2>3, <2>4, <2>5, <2>6, <2>7 DEF Swept
<1>6. ASSUME NEW w \in Workers,
             \/ PublishSwallowed(w)
             \/ \E verdict \in {"drop", "requeue"} : PublishFatal(w, verdict)
      PROVE  Swept'
  <2>1. stage[w] \in Publishing /\ UNCHANGED <<holding, cleanups, outcomes, rawFile, outFile, unremoved>>
    BY <1>6 DEF PublishSwallowed, PublishFatal, fileVars
  <2>2. \/ stage' = [stage EXCEPT ![w] = Continues[stage[w]]] /\ UNCHANGED plan
        \/ \E verdict \in {"drop", "requeue"} :
             stage' = [stage EXCEPT ![w] = verdict] /\ plan' = [plan EXCEPT ![w] = "none"]
    BY <1>6 DEF PublishSwallowed, PublishFatal
  <2>3. stage'[w] # "succeed" /\ \A v \in Workers \ {w} : stage'[v] = stage[v] /\ plan'[v] = plan[v]
    BY <2>1, <2>2 DEF TypeOK, Publishing, Says, Continues
  <2>4. \A j \in Jobs : Sweeping(j) => Sweeping(j)'
    BY <2>1, <2>3 DEF Sweeping, Publishing, Says
  <2> QED BY <2>1, <2>3, <2>4 DEF Swept
<1>7. ASSUME NEW w \in Workers,
             \/ DownloadOk(w) \/ DownloadFails(w) \/ TransformOk(w) \/ TransformFails(w)
             \/ UploadOk(w) \/ UploadFails(w)
      PROVE  Swept'
  <2> DEFINE j == holding[w]
  <2>1. stage[w] \in {"download", "transform", "upload"}
    BY <1>7 DEF DownloadOk, DownloadFails, TransformOk, TransformFails, UploadOk, UploadFails
  <2>2. j \in Jobs /\ <<j, "PROCESSED">> \notin outcomes
    BY <1>0, <2>1 DEF TypeOK, Busy, Decided, Outcomes
  <2>3. /\ UNCHANGED <<outcomes, holding, cleanups, unremoved>>
        /\ rawFile' \subseteq rawFile \cup {j} /\ outFile' \subseteq outFile \cup {j}
    BY <1>7 DEF DownloadOk, DownloadFails, TransformOk, TransformFails, UploadOk, UploadFails,
                AttemptFails, TryAgainOr, statusVars
  <2>4. \A v \in Workers \ {w} : stage'[v] = stage[v] /\ plan'[v] = plan[v]
    BY <1>7 DEF DownloadOk, DownloadFails, TransformOk, TransformFails, UploadOk, UploadFails,
                AttemptFails, TryAgainOr, TypeOK
  <2>5. stage'[w] = "succeed" => plan'[w] = "cleanup_all"
    BY <1>7 DEF DownloadOk, DownloadFails, TransformOk, TransformFails, UploadOk, UploadFails,
                AttemptFails, TryAgainOr, TypeOK
  <2>6. \A k \in Jobs : Sweeping(k) => Sweeping(k)'
    BY <2>1, <2>3, <2>4 DEF Sweeping
  <2> HIDE DEF j
  <2> QED BY <2>2, <2>3, <2>4, <2>5, <2>6 DEF Swept
<1>8. ASSUME NEW w \in Workers, FireBackgroundCleanup(w) PROVE Swept'
  <2> DEFINE j == holding[w]
             r == Starts(plan[w])
  <2>1. stage[w] = "tidy" /\ j \in Jobs /\ r \in Remaining
    BY <1>8 DEF FireBackgroundCleanup, TypeOK, Busy, Starts, Modes, Remaining
  <2>2. /\ cleanups' = [cleanups EXCEPT ![j][r] = @ + 1]
        /\ stage' = [stage EXCEPT ![w] = Verdict(plan[w])]
        /\ plan' = [plan EXCEPT ![w] = "none"]
        /\ UNCHANGED <<holding, outcomes, rawFile, outFile, unremoved>>
    BY <1>8 DEF FireBackgroundCleanup, statusVars, fileVars
  <2>3. stage'[w] # "succeed" /\ \A v \in Workers \ {w} : stage'[v] = stage[v] /\ plan'[v] = plan[v]
    BY <2>1, <2>2 DEF TypeOK, Verdict
  <2>4. plan[w] = "cleanup_all" => r = "cleanup_all"
    BY DEF Starts
  <2> HIDE DEF r
  <2>5. /\ cleanups[j] \in [Remaining -> Nat]
        /\ \A k \in Jobs, q \in Remaining : cleanups[k][q] > 0 => cleanups'[k][q] > 0
        /\ cleanups'[j][r] > 0
    BY <2>1, <2>2 DEF TypeOK
  <2>6. \A k \in Jobs : Sweeping(k) => Sweeping(k)'
    BY <2>2, <2>3, <2>4, <2>5 DEF Sweeping, Remaining
  <2> QED BY <2>2, <2>3, <2>5, <2>6 DEF Swept, Remaining
<1>9. ASSUME NEW j \in Jobs, RemoveLocalRaw(j) PROVE Swept'
  <2>1. /\ UNCHANGED <<stage, plan, holding, outcomes, outFile>>
        /\ rawFile' \subseteq rawFile /\ unremoved \subseteq unremoved'
        /\ j \in rawFile' => <<j, "raw">> \in unremoved'
    BY <1>9 DEF RemoveLocalRaw, Leaves, Advances, workerVars, statusVars
  <2>2. \/ Advances(j, "cleanup_all", "processed_and_s3")
        \/ Advances(j, "remove_local_and_delete_s3", "delete_s3")
    BY <1>9 DEF RemoveLocalRaw
  <2>3. \A k \in Jobs \ {j} : cleanups'[k] = cleanups[k]
    BY <2>2, AdvancesCounts DEF TypeOK, Remaining
  <2>4. \/ cleanups'[j]["processed_and_s3"] > 0
        \/ /\ cleanups'[j]["cleanup_all"] = cleanups[j]["cleanup_all"]
           /\ cleanups'[j]["processed_and_s3"] = cleanups[j]["processed_and_s3"]
    BY <2>2, AdvancesCounts DEF TypeOK, Remaining
  <2> QED BY <2>1, <2>3, <2>4 DEF Swept, Sweeping
<1>10. ASSUME NEW j \in Jobs, RemoveLocalProcessed(j) PROVE Swept'
  <2>1. /\ UNCHANGED <<stage, plan, holding, outcomes, rawFile>>
        /\ outFile' \subseteq outFile /\ unremoved \subseteq unremoved'
        /\ j \in outFile' => j \in Unswept \/ <<j, "processed">> \in unremoved'
        /\ Advances(j, "processed_and_s3", "delete_s3")
    BY <1>10 DEF RemoveLocalProcessed, Leaves, Advances, workerVars, statusVars
  <2>2. /\ \A k \in Jobs \ {j} : cleanups'[k] = cleanups[k]
        /\ cleanups'[j]["cleanup_all"] = cleanups[j]["cleanup_all"]
    BY <2>1, AdvancesCounts DEF TypeOK, Remaining
  <2> QED BY <2>1, <2>2 DEF Swept, Sweeping
<1>11. ASSUME NEW j \in Jobs, DeleteS3Object(j) PROVE Swept'
  <2>1. UNCHANGED <<stage, plan, holding, outcomes, rawFile, outFile, unremoved>>
    BY <1>11 DEF DeleteS3Object, workerVars, statusVars
  <2>2. \A k \in Jobs, r \in {"cleanup_all", "processed_and_s3"} : cleanups'[k][r] = cleanups[k][r]
    BY <1>11 DEF DeleteS3Object, TypeOK, Remaining
  <2> QED BY <2>1, <2>2 DEF Swept, Sweeping
<1> QED
  BY <1>1, <1>2, <1>3, <1>4, <1>5, <1>6, <1>7, <1>8, <1>9, <1>10, <1>11, NothingRedelivers
  DEF Next, Quiet, QuietWork, Clean, Fault, Submit, OpenStatusChannel, LoseStatusChannel,
      workerVars, fileVars, statusVars, vars

\* A job that was delivered once, succeeded and is at rest has left on the disk only
\* what a removal failed to remove, if every job whose cleanup misses its file fails
\* to upload it, as on the worker image's disk (CleanupAll; see
\* KeyNamingProofs!UnsweptAreMisnamed).
THEOREM SuccessLeavesNothing ==
  ASSUME SingleDelivery, Unswept \subseteq Misnamed
  PROVE  Spec => []SuccessLeavesNoFiles
<1>1. Init => Swept
  BY DEF Init, Swept
<1>2. TypeOK /\ SInv /\ Swept /\ [Next]_vars => SInv' /\ Swept'
  BY SInvStep, SweptStep
<1>3. TypeOK /\ Swept /\ (\A j \in Misnamed : <<j, "PROCESSED">> \notin outcomes)
        => SuccessLeavesNoFiles
  <2> SUFFICES ASSUME Swept, \A j \in Misnamed : <<j, "PROCESSED">> \notin outcomes,
                      NEW j \in Jobs, <<j, "PROCESSED">> \in outcomes, AtRest(j)
               PROVE  /\ j \in rawFile => <<j, "raw">> \in unremoved
                      /\ j \in outFile => <<j, "processed">> \in unremoved
    BY DEF SuccessLeavesNoFiles
  <2>1. j \in Jobs \ Unswept
    OBVIOUS
  <2>2. \A r \in Remaining : cleanups[j][r] = 0
    BY DEF AtRest, NoCleanups
  <2>3. ~ Sweeping(j) /\ ~ (cleanups[j]["processed_and_s3"] > 0)
    BY <2>2 DEF Sweeping, AtRest, Remaining
  <2> QED BY <2>1, <2>3 DEF Swept
<1> QED
  BY <1>1, <1>2, <1>3, SingleInit, TypeCorrect, MisnamedNeverProcessed, PTL DEF Spec
=============================================================================
