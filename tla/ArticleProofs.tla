--------------------------- MODULE ArticleProofs ---------------------------
(***************************************************************************)
(* Machine-checked facts about the two modules that put the write queue    *)
(* together with what surrounds it: ScheduledPosts, the ticker that is one *)
(* more producer, and ArticlePipeline, the way of a text to the page a     *)
(* visitor gets.  For any number of posts, slugs, producers, workers and   *)
(* requests, and any bounds.                                               *)
(***************************************************************************)
EXTENDS ArticlePipeline, ScheduledPosts, WriteQueueProofs

-----------------------------------------------------------------------------
(* Scheduled publishing.                                                   *)

States == {"none", "scheduled", "due", "published", "failed", "canceled"}

RoundTypes ==
    /\ posts \in [Posts -> States]
    /\ promoted \in [Posts -> Nat]
    /\ round \in [todo : SUBSET Posts, at : Posts \cup {"none"},
                  pc : {"idle", "creating", "created", "refused"}]
    /\ faults \in Nat /\ restarts \in Nat

(* A round is at a post exactly while it is busy with it, and comes to     *)
(* each post once.                                                         *)
RoundOK ==
    /\ round.at = "none" <=> round.pc = "idle"
    /\ round.at \notin round.todo

(* A post that may still be enqueued: by the round in progress, or by one  *)
(* to come.                                                                *)
Owed(p) ==
    \/ p \in round.todo
    \/ round.at = p /\ round.pc = "creating"
    \/ /\ posts[p] \in {"none", "scheduled", "due"}
       /\ ~(round.at = p /\ round.pc = "created")

(* What was enqueued, before the row says so.                              *)
CreatedWasQueued == round.pc = "created" => promoted[round.at] > 0

(* Every job of a post that may be enqueued again was followed by a        *)
(* failure.                                                                *)
OwedIsPaid ==
    \A p \in Posts : Owed(p) => promoted[p] <= faults + restarts

ScheduleInv ==
    /\ RoundTypes
    /\ RoundOK
    /\ PublishedWasQueued
    /\ CreatedWasQueued
    /\ PromotedAgainOnlyAfterFailure
    /\ OwedIsPaid

-----------------------------------------------------------------------------
(* What the steps of the queue do to the two counters.                     *)
FaultsGrow == faults' \in {faults, faults + 1} /\ restarts' = restarts

LEMMA StatusCounts ==
    ASSUME NEW j, NEW s, SetStatus(j, s)
    PROVE  faults' \in {faults, faults + 1}
  BY DEF SetStatus, Fault

LEMMA WorkCounts ==
    ASSUME NEW w \in Workers, Work(w)
    PROVE  FaultsGrow
<1> USE DEF FaultsGrow, bounds
<1>1. CASE Pick(w)
  BY <1>1 DEF Pick
<1>2. CASE Claim(w)
  BY <1>2, StatusCounts DEF Claim
<1>3. CASE Reject(w)
  BY <1>3, StatusCounts DEF Reject
<1>4. CASE Commit(w)
  BY <1>4 DEF Commit
<1>5. CASE Rollback(w)
  BY <1>5 DEF Rollback, Fault
<1>6. CASE ReadRetries(w)
  BY <1>6 DEF ReadRetries, Fault
<1>7. CASE Requeue(w)
  BY <1>7 DEF Requeue, Fault
<1>8. CASE DeadLetter(w)
  BY <1>8, StatusCounts DEF DeadLetter
<1>9. CASE ReadRow(w)
  BY <1>9 DEF ReadRow, Fault
<1>10. CASE Render(w)
  BY <1>10 DEF Render, Fault
<1>11. CASE Complete(w)
  BY <1>11, StatusCounts DEF Complete
<1> QED
  BY <1>1, <1>2, <1>3, <1>4, <1>5, <1>6, <1>7, <1>8, <1>9, <1>10, <1>11
  DEF Work

LEMMA StepCounts ==
    ASSUME Step
    PROVE  FaultsGrow
<1> USE DEF FaultsGrow, bounds
<1>1. ASSUME NEW p \in Producers, NEW r \in Offered, Submit(p, r)
      PROVE  FaultsGrow
  BY <1>1 DEF Submit, Fault
<1>2. ASSUME NEW p \in Producers, InsertJob(p) PROVE FaultsGrow
  BY <1>2 DEF InsertJob, Fault
<1>3. CASE Reap
  BY <1>3 DEF Reap, Fault
<1>4. CASE Prune
  BY <1>4 DEF Prune, Fault
<1>5. ASSUME NEW j \in Jobs, BackoffElapses(j) \/ GrowOlder(j)
      PROVE  FaultsGrow
  BY <1>5 DEF BackoffElapses, GrowOlder
<1>6. ASSUME NEW j \in Jobs, ReplayJob(j) PROVE FaultsGrow
  BY <1>6 DEF ReplayJob, Fault
<1>7. ASSUME NEW j \in Jobs, QuarantineRow(j) PROVE FaultsGrow
  BY <1>7, StatusCounts DEF QuarantineRow
<1>8. ASSUME NEW j \in Jobs, ReplayBatchRow(j) PROVE FaultsGrow
  BY <1>8 DEF ReplayBatchRow, Fault
<1>9. CASE ReplaySweep
  BY <1>9 DEF ReplaySweep
<1>10. ASSUME NEW m \in OfferedModes, SetMode(m) PROVE FaultsGrow
  BY <1>10 DEF SetMode
<1> HIDE DEF FaultsGrow
<1> QED
  BY <1>1, <1>2, <1>3, <1>4, <1>5, <1>6, <1>7, <1>8, <1>9, <1>10, WorkCounts
  DEF Step

-----------------------------------------------------------------------------
(* More faults or restarts, and a schedule as it was.                      *)
LEMMA QuietKeeps ==
    ASSUME ScheduleInv, UNCHANGED schedule, faults' \in Nat, restarts' \in Nat,
           faults' >= faults, restarts' >= restarts
    PROVE  ScheduleInv'
<1>1. RoundTypes' /\ RoundOK' /\ PublishedWasQueued' /\ CreatedWasQueued'
  BY DEF ScheduleInv, schedule, RoundTypes, RoundOK, PublishedWasQueued,
     CreatedWasQueued
<1>2. ASSUME NEW p \in Posts
      PROVE  /\ promoted'[p] <= 1 + faults' + restarts'
             /\ Owed(p)' => promoted'[p] <= faults' + restarts'
  <2>1. promoted' = promoted /\ Owed(p)' = Owed(p)
    BY DEF schedule, Owed
  <2>2. /\ promoted[p] \in Nat /\ faults \in Nat /\ restarts \in Nat
        /\ promoted[p] <= 1 + faults + restarts
        /\ Owed(p) => promoted[p] <= faults + restarts
    BY DEF ScheduleInv, RoundTypes, PromotedAgainOnlyAfterFailure, OwedIsPaid
  <2> QED
    BY <2>1, <2>2
<1> QED
  BY <1>1, <1>2 DEF ScheduleInv, PromotedAgainOnlyAfterFailure, OwedIsPaid

(* The operator: staging, cancelling, and the time of a post.              *)
LEMMA DecisionKeeps ==
    ASSUME ScheduleInv, NEW p \in Posts, Stage(p) \/ FallDue(p) \/ Cancel(p)
    PROVE  ScheduleInv'
<1>1. /\ \E s \in {"scheduled", "due", "canceled"} :
            posts' = [posts EXCEPT ![p] = s]
      /\ posts[p] \in {"none", "scheduled", "due"}
      /\ UNCHANGED <<round, promoted, faults, restarts>>
  BY DEF Stage, FallDue, Cancel, vars, bounds
<1>2. PICK s \in {"scheduled", "due", "canceled"} :
         posts' = [posts EXCEPT ![p] = s]
  BY <1>1
<1>3. /\ RoundTypes /\ RoundOK /\ PublishedWasQueued /\ CreatedWasQueued
      /\ PromotedAgainOnlyAfterFailure /\ OwedIsPaid
  BY DEF ScheduleInv
<1>4. RoundTypes' /\ RoundOK' /\ CreatedWasQueued'
      /\ PromotedAgainOnlyAfterFailure'
  BY <1>1, <1>2, <1>3 DEF RoundTypes, States, RoundOK, CreatedWasQueued,
     PromotedAgainOnlyAfterFailure
<1>5. PublishedWasQueued'
  BY <1>1, <1>2, <1>3 DEF RoundTypes, PublishedWasQueued
<1>6. \A q \in Posts : Owed(q)' => Owed(q)
  BY <1>1, <1>2, <1>3 DEF Owed, RoundTypes
<1>7. OwedIsPaid'
  BY <1>1, <1>3, <1>6 DEF OwedIsPaid
<1> QED
  BY <1>4, <1>5, <1>7 DEF ScheduleInv

LEMMA TickKeeps ==
    ASSUME ScheduleInv, Tick
    PROVE  ScheduleInv'
<1>1. /\ RoundTypes /\ RoundOK /\ PublishedWasQueued /\ CreatedWasQueued
      /\ PromotedAgainOnlyAfterFailure /\ OwedIsPaid
  BY DEF ScheduleInv
<1>2. /\ round = NoRound /\ round' = [round EXCEPT !.todo = DuePosts]
      /\ UNCHANGED <<posts, promoted, faults, restarts>>
  BY DEF Tick, vars, bounds
<1>3. /\ round'.todo = DuePosts /\ round'.at = "none" /\ round'.pc = "idle"
      /\ round.at = "none" /\ round.pc = "idle"
      /\ DuePosts \subseteq Posts /\ "none" \notin Posts
  BY <1>2, PostsAssumption DEF NoRound, DuePosts
<1>4. RoundTypes' /\ RoundOK' /\ PublishedWasQueued' /\ CreatedWasQueued'
      /\ PromotedAgainOnlyAfterFailure'
  BY <1>1, <1>2, <1>3 DEF RoundTypes, RoundOK, PublishedWasQueued,
     CreatedWasQueued, PromotedAgainOnlyAfterFailure, NoRound
<1>5. \A q \in Posts : Owed(q)' => Owed(q)
  BY <1>2, <1>3 DEF Owed, DuePosts
<1>6. OwedIsPaid'
  BY <1>1, <1>2, <1>5 DEF OwedIsPaid
<1> QED
  BY <1>4, <1>6 DEF ScheduleInv

LEMMA BeginCreateKeeps ==
    ASSUME ScheduleInv, NEW p \in Posts, BeginCreate(p)
    PROVE  ScheduleInv'
<1>1. /\ RoundTypes /\ RoundOK /\ PublishedWasQueued /\ CreatedWasQueued
      /\ PromotedAgainOnlyAfterFailure /\ OwedIsPaid
  BY DEF ScheduleInv
<1>2. /\ p \in round.todo /\ round.at = "none" /\ "none" \notin Posts
      /\ \E l \in {"creating", "refused"} : GoOn(p, l)
      /\ UNCHANGED <<posts, promoted, restarts>>
      /\ faults' \in {faults, faults + 1}
  BY PostsAssumption DEF BeginCreate, Submit, Refuse, Fault
<1>3. PICK l \in {"creating", "refused"} : GoOn(p, l)
  BY <1>2
<1>4. /\ round'.todo = round.todo \ {p} /\ round'.at = p /\ round'.pc = l
      /\ round' \in [todo : SUBSET Posts, at : Posts \cup {"none"},
                     pc : {"idle", "creating", "created", "refused"}]
  BY <1>1, <1>3 DEF GoOn, RoundTypes
<1>5. RoundTypes' /\ RoundOK' /\ PublishedWasQueued' /\ CreatedWasQueued'
  BY <1>1, <1>2, <1>4 DEF RoundTypes, RoundOK, PublishedWasQueued,
     CreatedWasQueued
<1>6. ASSUME NEW q \in Posts
      PROVE  /\ promoted'[q] <= 1 + faults' + restarts'
             /\ Owed(q)' => promoted'[q] <= faults' + restarts'
  <2>1. Owed(q)' => Owed(q)
    BY <1>2, <1>4 DEF Owed
  <2>2. /\ promoted[q] \in Nat /\ faults \in Nat /\ restarts \in Nat
        /\ promoted[q] <= 1 + faults + restarts
        /\ Owed(q) => promoted[q] <= faults + restarts
    BY <1>1 DEF RoundTypes, PromotedAgainOnlyAfterFailure, OwedIsPaid
  <2>3. promoted'[q] = promoted[q] /\ restarts' = restarts
    BY <1>2
  <2> QED
    BY <1>2, <2>1, <2>2, <2>3
<1> QED
  BY <1>5, <1>6 DEF ScheduleInv, PromotedAgainOnlyAfterFailure, OwedIsPaid

LEMMA EndCreateKeeps ==
    ASSUME ScheduleInv, EndCreate
    PROVE  ScheduleInv'
<1> DEFINE a == round.at
<1>1. /\ RoundTypes /\ RoundOK /\ PublishedWasQueued /\ CreatedWasQueued
      /\ PromotedAgainOnlyAfterFailure /\ OwedIsPaid
  BY DEF ScheduleInv
<1>2. /\ round.pc = "creating" /\ UNCHANGED <<posts, restarts>>
      /\ faults' \in {faults, faults + 1}
      /\ \/ /\ round' = [round EXCEPT !.pc = "created"]
            /\ promoted' = [promoted EXCEPT ![a] = @ + 1]
         \/ /\ round' = [round EXCEPT !.pc = "refused"]
            /\ UNCHANGED promoted
  BY DEF EndCreate, InsertJob, Fault
<1>3. a \in Posts /\ a \notin round.todo /\ promoted[a] \in Nat /\ Owed(a)
  BY <1>1, <1>2 DEF RoundTypes, RoundOK, Owed
<1>4. /\ round'.todo = round.todo /\ round'.at = a
      /\ round'.pc \in {"created", "refused"}
      /\ round'.pc = "created" => promoted' = [promoted EXCEPT ![a] = @ + 1]
      /\ round'.pc = "refused" => promoted' = promoted
      /\ round' \in [todo : SUBSET Posts, at : Posts \cup {"none"},
                     pc : {"idle", "creating", "created", "refused"}]
  BY <1>1, <1>2 DEF RoundTypes
<1>5. /\ promoted' \in [Posts -> Nat]
      /\ \A q \in Posts : promoted'[q] >= promoted[q]
      /\ \A q \in Posts \ {a} : promoted'[q] = promoted[q]
      /\ round'.pc = "created" => promoted'[a] = promoted[a] + 1
  BY <1>1, <1>3, <1>4 DEF RoundTypes
<1>6. RoundTypes' /\ RoundOK' /\ CreatedWasQueued'
  BY <1>1, <1>2, <1>3, <1>4, <1>5, PostsAssumption DEF RoundTypes, RoundOK,
     CreatedWasQueued
<1>7. PublishedWasQueued'
  BY <1>1, <1>2, <1>5 DEF PublishedWasQueued, RoundTypes
<1>8. ASSUME NEW q \in Posts
      PROVE  /\ promoted'[q] <= 1 + faults' + restarts'
             /\ Owed(q)' => promoted'[q] <= faults' + restarts'
  <2>1. /\ promoted[q] \in Nat /\ faults \in Nat /\ restarts \in Nat
        /\ promoted[q] <= 1 + faults + restarts
        /\ Owed(q) => promoted[q] <= faults + restarts
        /\ restarts' = restarts
    BY <1>1, <1>2 DEF RoundTypes, PromotedAgainOnlyAfterFailure, OwedIsPaid
  <2>2. CASE q # a
    <3>1. Owed(q)' => Owed(q)
      BY <1>2, <1>4, <2>2 DEF Owed
    <3> QED
      BY <1>2, <1>5, <2>1, <2>2, <3>1
  <2>3. CASE q = a /\ round'.pc = "created"
    <3>1. ~Owed(q)'
      BY <1>3, <1>4, <2>3 DEF Owed
    <3> QED
      BY <1>2, <1>3, <1>5, <2>1, <2>3, <3>1
  <2>4. CASE q = a /\ round'.pc = "refused"
    BY <1>2, <1>3, <1>4, <2>1, <2>4
  <2> QED
    BY <1>4, <2>2, <2>3, <2>4
<1> QED
  BY <1>6, <1>7, <1>8 DEF ScheduleInv, PromotedAgainOnlyAfterFailure,
     OwedIsPaid

(* The row is written, or the failed statement pays for the next job.      *)
LEMMA MarkKeeps ==
    ASSUME ScheduleInv, MarkPublished \/ MarkFailed
    PROVE  ScheduleInv'
<1> DEFINE a == round.at
<1>1. /\ RoundTypes /\ RoundOK /\ PublishedWasQueued /\ CreatedWasQueued
      /\ PromotedAgainOnlyAfterFailure /\ OwedIsPaid
  BY DEF ScheduleInv
<1>2. PICK s \in {"published", "failed"} :
         /\ round.pc = (IF s = "published" THEN "created" ELSE "refused")
         /\ Mark(s)
  BY DEF MarkPublished, MarkFailed
<1>3. /\ a \in Posts /\ a \notin round.todo
      /\ s = "published" => promoted[a] > 0
  BY <1>1, <1>2 DEF RoundTypes, RoundOK, CreatedWasQueued
<1>4. /\ UNCHANGED <<promoted, restarts>>
      /\ \/ posts' = [posts EXCEPT ![a] = s] /\ faults' = faults
         \/ posts' = posts /\ faults' = faults + 1
      /\ round' = [round EXCEPT !.at = "none", !.pc = "idle"]
  BY <1>2 DEF Mark, Fault
<1>5. /\ round'.todo = round.todo /\ round'.at = "none" /\ round'.pc = "idle"
      /\ round' \in [todo : SUBSET Posts, at : Posts \cup {"none"},
                     pc : {"idle", "creating", "created", "refused"}]
      /\ "none" \notin Posts
  BY <1>1, <1>4, PostsAssumption DEF RoundTypes
<1>6. /\ posts' \in [Posts -> States]
      /\ \A q \in Posts \ {a} : posts'[q] = posts[q]
      /\ posts'[a] = s \/ (faults' = faults + 1 /\ posts'[a] = posts[a])
  BY <1>1, <1>3, <1>4 DEF RoundTypes, States
<1>7. RoundTypes' /\ RoundOK' /\ CreatedWasQueued'
  BY <1>1, <1>4, <1>5, <1>6 DEF RoundTypes, RoundOK, CreatedWasQueued
<1>8. PublishedWasQueued'
  BY <1>1, <1>3, <1>4, <1>6 DEF PublishedWasQueued
<1>9. ASSUME NEW q \in Posts
      PROVE  /\ promoted'[q] <= 1 + faults' + restarts'
             /\ Owed(q)' => promoted'[q] <= faults' + restarts'
  <2>1. /\ promoted[q] \in Nat /\ faults \in Nat /\ restarts \in Nat
        /\ promoted[q] <= 1 + faults + restarts
        /\ Owed(q) => promoted[q] <= faults + restarts
        /\ restarts' = restarts /\ promoted'[q] = promoted[q]
        /\ faults' \in {faults, faults + 1}
    BY <1>1, <1>4 DEF RoundTypes, PromotedAgainOnlyAfterFailure, OwedIsPaid
  <2>2. CASE q # a
    <3>1. Owed(q)' => Owed(q)
      BY <1>5, <1>6, <2>2 DEF Owed
    <3> QED
      BY <2>1, <3>1
  <2>3. CASE q = a /\ posts'[a] = s
    <3>1. ~Owed(q)'
      BY <1>3, <1>5, <2>3 DEF Owed
    <3> QED
      BY <2>1, <3>1
  <2>4. CASE faults' = faults + 1
    BY <2>1, <2>4
  <2> QED
    BY <1>6, <2>2, <2>3, <2>4
<1> QED
  BY <1>7, <1>8, <1>9 DEF ScheduleInv, PromotedAgainOnlyAfterFailure,
     OwedIsPaid

(* The round is lost with the process, and the restart pays for the next.  *)
LEMMA RestartKeeps ==
    ASSUME ScheduleInv, RestartTicker
    PROVE  ScheduleInv'
<1>1. /\ RoundTypes /\ RoundOK /\ PublishedWasQueued /\ CreatedWasQueued
      /\ PromotedAgainOnlyAfterFailure /\ OwedIsPaid
  BY DEF ScheduleInv
<1>2. /\ round' = NoRound /\ UNCHANGED <<posts, promoted>>
      /\ restarts' = restarts + 1 /\ faults' \in {faults, faults + 1}
  BY DEF RestartTicker, Restart, Fault
<1>3. RoundTypes' /\ RoundOK' /\ PublishedWasQueued' /\ CreatedWasQueued'
  BY <1>1, <1>2 DEF RoundTypes, RoundOK, PublishedWasQueued,
     CreatedWasQueued, NoRound
<1>4. ASSUME NEW q \in Posts
      PROVE  /\ promoted'[q] <= 1 + faults' + restarts'
             /\ promoted'[q] <= faults' + restarts'
  <2>1. /\ promoted[q] \in Nat /\ faults \in Nat /\ restarts \in Nat
        /\ promoted[q] <= 1 + faults + restarts
        /\ promoted'[q] = promoted[q]
    BY <1>1, <1>2 DEF RoundTypes, PromotedAgainOnlyAfterFailure
  <2> QED
    BY <1>2, <2>1
<1> QED
  BY <1>3, <1>4 DEF ScheduleInv, PromotedAgainOnlyAfterFailure, OwedIsPaid

LEMMA ScheduleStart ==
    ASSUME ScheduleInit
    PROVE  ScheduleInv
<1>1. /\ posts = [p \in Posts |-> "none"] /\ round = NoRound
      /\ promoted = [p \in Posts |-> 0] /\ faults = 0 /\ restarts = 0
  BY DEF ScheduleInit, Init
<1> QED
  BY <1>1 DEF ScheduleInv, RoundTypes, States, RoundOK, PublishedWasQueued,
     CreatedWasQueued, PromotedAgainOnlyAfterFailure, OwedIsPaid, NoRound

LEMMA ScheduleStep ==
    ASSUME ScheduleInv, [ScheduleNext]_scheduleVars
    PROVE  ScheduleInv'
<1>0. faults \in Nat /\ restarts \in Nat
  BY DEF ScheduleInv, RoundTypes
<1>1. CASE UNCHANGED scheduleVars
  BY <1>0, <1>1, QuietKeeps DEF scheduleVars, vars, bounds
<1>2. CASE OtherProducers
  BY <1>0, <1>2, StepCounts, QuietKeeps DEF OtherProducers, FaultsGrow
<1>3. CASE Promote
  BY <1>3, TickKeeps, BeginCreateKeeps, EndCreateKeeps, MarkKeeps DEF Promote
<1> QED
  BY <1>1, <1>2, <1>3, DecisionKeeps, RestartKeeps DEF ScheduleNext

(* A post that reads published had a job enqueued (publishDuePosts).       *)
THEOREM PublishedWasQueuedHolds == ScheduleSpec => []PublishedWasQueued
<1>1. ScheduleInv => PublishedWasQueued
  BY DEF ScheduleInv
<1> QED
  BY <1>1, ScheduleStart, ScheduleStep, PTL DEF ScheduleSpec

(* A post is enqueued once, and once more for each failed statement or     *)
(* crash at most (publishDuePosts).                                        *)
THEOREM PromotedAgainHolds == ScheduleSpec => []PromotedAgainOnlyAfterFailure
<1>1. ScheduleInv => PromotedAgainOnlyAfterFailure
  BY DEF ScheduleInv
<1> QED
  BY <1>1, ScheduleStart, ScheduleStep, PTL DEF ScheduleSpec

-----------------------------------------------------------------------------
(* The queue under the ticker.                                             *)

(* A step that leaves the tables and the workers of the queue alone and at *)
(* most makes a request or fails.                                          *)
Aside ==
    /\ UNCHANGED <<mode, jobVars, siteVars, workerVars, sweep, earlyResets,
                   restarts>>
    /\ UNCHANGED faults \/ Fault
    /\ \/ UNCHANGED request
       \/ \E p \in Producers, r \in Requests :
             Submit(p, r) /\ request' = [request EXCEPT ![p] = r]

LEMMA QueueOrAside ==
    ASSUME [ScheduleNext]_scheduleVars
    PROVE  [Next]_vars \/ Aside
<1> USE DEF bounds
<1>1. CASE OtherProducers \/ RestartTicker
  BY <1>1 DEF OtherProducers, RestartTicker, Next
<1>2. ASSUME NEW p \in Posts, Stage(p) \/ FallDue(p) \/ Cancel(p)
      PROVE  UNCHANGED vars
  BY <1>2 DEF Stage, FallDue, Cancel
<1>3. CASE Tick \/ UNCHANGED scheduleVars
  BY <1>3 DEF Tick, scheduleVars
<1>4. ASSUME NEW p \in Posts, BeginCreate(p) PROVE Aside
  <2>1. Promotion(p) \in Requests /\ Ticker \in Producers
    BY PostsAssumption, TickerAssumption DEF Promotion, Requests, Kinds
  <2>2. CASE Submit(Ticker, Promotion(p))
    <3>1. UNCHANGED faults \/ Fault
      BY <2>2 DEF Submit
    <3>2. /\ UNCHANGED <<mode, jobVars, siteVars, workerVars, sweep,
                         earlyResets, restarts>>
          /\ request' = [request EXCEPT ![Ticker] = Promotion(p)]
      BY <2>2 DEF Submit
    <3> QED
      BY <2>1, <2>2, <3>1, <3>2 DEF Aside
  <2>3. CASE /\ Refuse(p) \/ Fault
             /\ UNCHANGED <<mode, jobVars, siteVars, workerVars, request,
                            sweep, earlyResets, restarts>>
    BY <2>3 DEF Refuse, Aside
  <2> QED
    BY <1>4, <2>2, <2>3 DEF BeginCreate
<1>5. CASE EndCreate
  BY <1>5, TickerAssumption DEF EndCreate, Next, Step
<1>6. CASE MarkPublished \/ MarkFailed
  BY <1>6 DEF MarkPublished, MarkFailed, Mark, Aside
<1> QED
  BY <1>1, <1>2, <1>3, <1>4, <1>5, <1>6 DEF ScheduleNext, Promote

(* The invariants of the queue alone.                                      *)
QueueInv ==
    /\ TypeInv
    /\ CommitInv
    /\ RetryInv
    /\ ArticlesFollowEvents
    /\ FreshBacklogBounded

LEMMA AsideKeeps ==
    ASSUME QueueInv, Aside
    PROVE  QueueInv'
<1> USE DEF jobVars, siteVars, workerVars
<1>1. faults \in Nat /\ faults' \in Nat /\ faults <= faults'
  BY DEF Aside, Fault, QueueInv, TypeInv, QueueTypeOK
<1>2. TypeInv'
  <2>1. request' \in [Producers -> Requests \cup {NoRequest}]
    BY DEF Aside, QueueInv, TypeInv, QueueTypeOK
  <2> QED
    BY <1>1, <2>1 DEF Aside, QueueInv, TypeInv, QueueTypeOK, RowsKnown
<1>3. CommitInv' /\ ArticlesFollowEvents'
  BY DEF Aside, QueueInv, CommitInv, CompletedWasCommitted, Committed,
     ArticlesFollowEvents
<1>4. RetryInv'
  <2>1. ASSUME NEW j \in Jobs PROVE RetryEffect(j)
    BY DEF Aside, RetryEffect
  <2> QED
    BY <1>1, <1>2, <2>1, RetryPreserved DEF Aside, QueueInv, RetryEffects
<1>5. FreshBacklogBounded'
  <2>1. CASE UNCHANGED request
    <3>1. TakesNothingIn
      BY <1>1, <2>1 DEF Aside, TakesNothingIn, Fresh, Pending, Admitted
    <3> QED
      BY <1>2, <3>1, BacklogKept DEF QueueInv
  <2>2. CASE \E p \in Producers, r \in Requests : Submit(p, r)
    BY <1>2, <2>2, BacklogKept DEF QueueInv
  <2> QED
    BY <2>1, <2>2 DEF Aside
<1> QED
  BY <1>2, <1>3, <1>4, <1>5 DEF QueueInv

(* What is proved of the queue holds with the scheduler as one of its      *)
(* producers, whatever that submits and wherever it fails.                 *)
THEOREM QueueServesTheTicker ==
    ScheduleSpec => [](/\ FreshBacklogBounded
                       /\ CompletedWasCommitted
                       /\ ArticlesFollowEvents
                       /\ RetriesBounded)
<1>1. ScheduleInit => QueueInv
  BY TypeInit, CommitInit, RetryInit, BacklogInit
  DEF ScheduleInit, Init, QueueInv, ArticlesFollowEvents
<1>2. QueueInv /\ [ScheduleNext]_scheduleVars => QueueInv'
  <2> SUFFICES ASSUME QueueInv, [ScheduleNext]_scheduleVars PROVE QueueInv'
    OBVIOUS
  <2>1. CASE [Next]_vars
    <3>1. TypeInv'
      BY <2>1, TypeStep DEF QueueInv
    <3>2. CommitInv' /\ RetryInv' /\ FreshBacklogBounded'
      BY <2>1, <3>1, CommitStep, StepRetries, RetryPreserved, BacklogStep
      DEF QueueInv
    <3>3. ArticlesFollowEvents'
      BY <2>1, StepEffects, StoryStep DEF QueueInv
    <3> QED
      BY <3>1, <3>2, <3>3 DEF QueueInv
  <2> QED
    BY <2>1, QueueOrAside, AsideKeeps
<1>3. QueueInv => /\ FreshBacklogBounded
                  /\ CompletedWasCommitted
                  /\ ArticlesFollowEvents
                  /\ RetriesBounded
  BY DEF QueueInv, CommitInv, RetryInv
<1> QED
  BY <1>1, <1>2, <1>3, PTL DEF ScheduleSpec

-----------------------------------------------------------------------------
(* What a step leaves of a post that was canceled in time.                 *)
LEMMA WithdrawnStep ==
    ASSUME ScheduleInv, [ScheduleNext]_scheduleVars, NEW p \in Posts,
           Withdrawn(p)
    PROVE  Withdrawn(p)' /\ promoted'[p] = promoted[p]
<1>0. /\ RoundTypes /\ RoundOK /\ posts[p] = "canceled"
      /\ p \notin round.todo /\ p # round.at /\ p # "none"
  BY PostsAssumption DEF ScheduleInv, Withdrawn
<1>1. CASE UNCHANGED schedule
  BY <1>1 DEF schedule, Withdrawn
<1>2. ASSUME NEW q \in Posts, Stage(q) \/ FallDue(q) \/ Cancel(q)
      PROVE  Withdrawn(p)' /\ promoted'[p] = promoted[p]
  BY <1>0, <1>2 DEF Stage, FallDue, Cancel, Withdrawn, RoundTypes
<1>3. CASE Tick
  <2>1. /\ round = NoRound /\ round' = [round EXCEPT !.todo = DuePosts]
        /\ UNCHANGED <<posts, promoted>>
    BY <1>3 DEF Tick
  <2>2. round'.todo = DuePosts /\ round'.at = "none"
    BY <2>1 DEF NoRound
  <2> QED
    BY <1>0, <2>1, <2>2 DEF DuePosts, Withdrawn
<1>4. ASSUME NEW q \in Posts, BeginCreate(q)
      PROVE  Withdrawn(p)' /\ promoted'[p] = promoted[p]
  <2>1. /\ q \in round.todo /\ UNCHANGED <<posts, promoted>>
        /\ \E l \in {"creating", "refused"} : GoOn(q, l)
    BY <1>4 DEF BeginCreate
  <2>2. round'.todo = round.todo \ {q} /\ round'.at = q
    BY <2>1 DEF GoOn
  <2> QED
    BY <1>0, <2>1, <2>2 DEF Withdrawn
<1>5. CASE EndCreate
  <2>1. /\ UNCHANGED posts
        /\ \/ /\ round' = [round EXCEPT !.pc = "created"]
              /\ promoted' = [promoted EXCEPT ![round.at] = @ + 1]
           \/ /\ round' = [round EXCEPT !.pc = "refused"]
              /\ UNCHANGED promoted
    BY <1>5 DEF EndCreate
  <2>2. round'.todo = round.todo /\ round'.at = round.at
    BY <1>0, <2>1 DEF RoundTypes
  <2> QED
    BY <1>0, <2>1, <2>2 DEF Withdrawn, RoundTypes
<1>6. ASSUME NEW s, Mark(s)
      PROVE  Withdrawn(p)' /\ promoted'[p] = promoted[p]
  <2>1. /\ promoted' = promoted
        /\ posts' = [posts EXCEPT ![round.at] = s] \/ posts' = posts
        /\ round' = [round EXCEPT !.at = "none", !.pc = "idle"]
    BY <1>6 DEF Mark
  <2>2. round'.todo = round.todo /\ round'.at = "none"
    BY <1>0, <2>1 DEF RoundTypes
  <2>3. posts'[p] = posts[p]
    BY <1>0, <2>1 DEF RoundTypes
  <2> QED
    BY <1>0, <2>1, <2>2, <2>3 DEF Withdrawn
<1>7. CASE RestartTicker
  BY <1>0, <1>7 DEF RestartTicker, NoRound, Withdrawn
<1> QED
  BY <1>1, <1>2, <1>3, <1>4, <1>5, <1>6, <1>7 DEF ScheduleNext, OtherProducers,
     Promote, MarkPublished, MarkFailed, scheduleVars

(* A post canceled before a tick has read it stays canceled and is never   *)
(* enqueued (Cancel, Due).                                                 *)
THEOREM WithdrawnStaysBackHolds == ScheduleSpec => WithdrawnStaysBack
<1>1. ScheduleInv /\ [ScheduleNext]_scheduleVars =>
          [\A p \in Posts : Withdrawn(p) =>
              Withdrawn(p)' /\ promoted'[p] = promoted[p]]_scheduleVars
  BY WithdrawnStep
<1> QED
  BY <1>1, ScheduleStart, ScheduleStep, PTL DEF ScheduleSpec,
     WithdrawnStaysBack

-----------------------------------------------------------------------------
(* The article pipeline.  What its proofs rest on is how the outbox grows: *)
(* by the two events of a commit, behind everything that was there.        *)

(* Outbox q has the text of job j for slug s.                              *)
Written(q, s, j) ==
    \E e \in 1..Len(q) :
        /\ q[e].job = j
        /\ q[e].slug = s
        /\ q[e].type \in {"article.created", "article.updated"}

(* What a page of s may show, after f failed reads.                        *)
Showable(q, f, s, j) == (j = BlankPage /\ f > 0) \/ Written(q, s, j)

(* A worker that has applied an insert or an update and may still render.  *)
Rendering == {"applied", "rendering"}

(* A page comes from a worker or a request that took its text before, so   *)
(* the property is about those, and the rows they read, as well.           *)
TextTypes ==
    /\ cache \in [Slugs -> Nat]
    /\ viewing \in [Requesters -> [slug : Slugs, by : Nat] \cup {NoView}]
    /\ failedReads \in Nat

PagesShowable ==
    \A s \in Slugs :
        cache[s] # 0 => Showable(outbox, failedReads, s, cache[s])

RowsWritten ==
    \A s \in Slugs :
        articles[s] # NoRow => Written(outbox, s, articles[s].by)

RenderersWrote ==
    \A w \in Workers :
        pc[w] \in Rendering => Written(outbox, job[held[w]].slug, held[w])

ViewsShowable ==
    \A v \in Requesters :
        viewing[v] # NoView =>
            Showable(outbox, failedReads, viewing[v].slug, viewing[v].by)

TextInv ==
    /\ TypeInv
    /\ TextTypes
    /\ PagesShowable
    /\ RowsWritten
    /\ RenderersWrote
    /\ ViewsShowable

-----------------------------------------------------------------------------
(* The outbox grows at its end, by a commit or not at all.                 *)
Grows ==
    /\ Len(outbox) \in Nat /\ Len(outbox') \in Nat
    /\ Len(outbox) <= Len(outbox')
    /\ \A e \in 1..Len(outbox) : outbox'[e] = outbox[e]

LEMMA SameOutboxGrows ==
    ASSUME TypeInv, UNCHANGED outbox
    PROVE  Grows
<1>1. Len(outbox) \in Nat
  BY LenProperties DEF TypeInv, QueueTypeOK
<1> QED
  BY <1>1 DEF Grows

LEMMA OutboxGrows ==
    ASSUME TypeInv, [Next]_vars
    PROVE  Grows
<1>1. ASSUME NEW w \in Workers, Commit(w) PROVE Grows
  <2>1. /\ Len(outbox) \in Nat
        /\ Len(outbox') = Len(outbox) + 2
        /\ \A e \in 1..Len(outbox) : outbox'[e] = outbox[e]
    BY <1>1, CommitAppends
  <2> QED
    BY <2>1 DEF Grows
<1> QED
  BY <1>1, StepEffects, SameOutboxGrows DEF SiteByCommit

LEMMA WrittenStays ==
    ASSUME Grows
    PROVE  \A s, j : Written(outbox, s, j) => Written(outbox', s, j)
<1> SUFFICES ASSUME NEW s, NEW j, Written(outbox, s, j)
             PROVE  Written(outbox', s, j)
  OBVIOUS
<1>1. PICK e \in 1..Len(outbox) :
          /\ outbox[e].job = j
          /\ outbox[e].slug = s
          /\ outbox[e].type \in {"article.created", "article.updated"}
  BY DEF Written
<1>2. e \in 1..Len(outbox') /\ outbox'[e] = outbox[e]
  BY DEF Grows
<1> QED
  BY <1>1, <1>2 DEF Written

LEMMA ShowableStays ==
    ASSUME Grows, TextTypes, failedReads' \in {failedReads, failedReads + 1}
    PROVE  \A s, j : Showable(outbox, failedReads, s, j)
                        => Showable(outbox', failedReads', s, j)
<1>1. failedReads > 0 => failedReads' > 0
  BY DEF TextTypes
<1> QED
  BY <1>1, WrittenStays DEF Showable

(* A job is written once, with its row.                                    *)
LEMMA JobsStay ==
    ASSUME TypeInv, [Next]_vars
    PROVE  \A j \in Jobs : status[j] # "absent" => job'[j] = job[j]
<1> USE DEF jobVars
<1>1. ASSUME NEW p \in Producers, InsertJob(p)
      PROVE  \A j \in Jobs : status[j] # "absent" => job'[j] = job[j]
  BY <1>1 DEF InsertJob, Absent, TypeInv, QueueTypeOK
<1>2. CASE Step /\ ~\E p \in Producers : InsertJob(p)
  <2>1. ASSUME NEW w \in Workers, Work(w) PROVE UNCHANGED job
    BY <2>1 DEF Work, Pick, Claim, Reject, Commit, Rollback, ReadRetries,
       Requeue, DeadLetter, ReadRow, Render, Complete
  <2>2. UNCHANGED job
    BY <1>2, <2>1 DEF Step, Submit, Reap, Prune, BackoffElapses, GrowOlder,
       ReplayJob, QuarantineRow, ReplayBatchRow, ReplaySweep, SetMode
  <2> QED
    BY <2>2
<1>3. CASE Restart
  BY <1>3 DEF Restart
<1> QED
  BY <1>1, <1>2, <1>3 DEF Next, vars

(* A worker comes to rendering by the commit of an insert or an update     *)
(* and by no other way, and renders that job.                              *)
LEMMA RenderersStay ==
    ASSUME TypeInv, [Next]_vars, NEW w \in Workers, pc'[w] \in Rendering
    PROVE  \/ /\ pc[w] \in Rendering
              /\ held'[w] = held[w] /\ held[w] \in Jobs
              /\ job'[held[w]] = job[held[w]]
           \/ Commit(w) /\ job[held[w]].op # "delete"
<1> USE DEF workerVars
<1>0. pc \in [Workers -> Labels]
  BY DEF TypeInv, QueueTypeOK
<1>1. CASE Commit(w)
  <2>1. Goto(w, IF job[held[w]].op = "delete" THEN "done" ELSE "applied")
    BY <1>1 DEF Commit
  <2> QED
    BY <1>0, <1>1, <2>1 DEF Goto, Rendering
<1>2. CASE pc[w] = "done"
  <2>1. CASE Work(w)
    <3>1. Complete(w)
      BY <1>2, <2>1 DEF Work, Pick, Claim, Reject, Commit, Rollback,
         ReadRetries, Requeue, DeadLetter, ReadRow, Render
    <3> QED
      BY <1>0, <3>1 DEF Complete, Finish, Goto, Rendering
  <2>2. ASSUME NEW v \in Workers, Work(v), v # w PROVE FALSE
    <3>1. PICK l : Goto(v, l)
      BY <2>2 DEF Work, Pick, Claim, Reject, Commit, Rollback, ReadRetries,
         Requeue, DeadLetter, ReadRow, Render, Complete, Finish
    <3> QED
      BY <1>0, <1>2, <2>2, <3>1 DEF Goto, Rendering
  <2>3. CASE Step /\ ~\E v \in Workers : Work(v)
    BY <1>2, <2>3 DEF Step, Submit, InsertJob, Reap, Prune, BackoffElapses,
       GrowOlder, ReplayJob, QuarantineRow, ReplayBatchRow, ReplaySweep,
       SetMode, Rendering
  <2>4. CASE Restart
    BY <2>4 DEF Restart, Rendering
  <2>5. CASE UNCHANGED vars
    BY <1>2, <2>5 DEF vars, Rendering
  <2> QED
    BY <2>1, <2>2, <2>3, <2>4, <2>5 DEF Next
<1>3. CASE pc[w] \in Behind /\ pc[w] # "done" /\ held'[w] = held[w]
  <2>1. pc[w] \in Rendering /\ pc[w] # "idle"
    BY <1>3 DEF Behind, Rendering
  <2> QED
    BY <1>3, <2>1, HeldRow, JobsStay
<1> QED
  BY <1>1, <1>2, <1>3, StepEffects DEF BehindByCommit, Behind, Rendering

(* The commit of an insert or an update writes its text.                   *)
LEMMA CommitWrites ==
    ASSUME TypeInv, NEW w \in Workers, Commit(w), job[held[w]].op # "delete"
    PROVE  Written(outbox', job[held[w]].slug, held[w])
<1> DEFINE n == Len(outbox)
           r == job[held[w]]
<1>1. r \in Requests /\ r.op \in {"insert", "update"}
  BY HeldRow, RequestFields DEF Commit
<1>2. /\ n \in Nat /\ Len(outbox') = n + 2
      /\ outbox'[n + 1] = [type |-> EventType(r.op), slug |-> r.slug,
                           job |-> held[w]]
  BY CommitAppends
<1>3. EventType(r.op) \in {"article.created", "article.updated"}
  BY <1>1 DEF EventType
<1> HIDE DEF n, r
<1>4. n + 1 \in 1..Len(outbox')
  BY <1>2
<1> QED
  BY <1>2, <1>3, <1>4 DEF Written, r

(* The row a commit leaves, if any, carries the committed text, and the    *)
(* other rows stay.                                                        *)
LEMMA CommitRow ==
    ASSUME TypeInv, NEW w \in Workers, Commit(w), NEW s \in Slugs
    PROVE  /\ s # job[held[w]].slug => articles'[s] = articles[s]
           /\ s = job[held[w]].slug =>
                 articles'[s] = Applied(job[held[w]], held[w])
           /\ s = job[held[w]].slug /\ articles'[s] # NoRow =>
                 /\ articles'[s].by = held[w]
                 /\ job[held[w]].op # "delete"
<1> DEFINE r == job[held[w]]
<1>1. r \in Requests /\ r.op \in {"insert", "update", "delete"} /\ r.slug \in Slugs
  BY HeldRow, RequestFields DEF Commit
<1>2. /\ articles \in [Slugs -> Rows \cup {NoRow}]
      /\ articles' = [articles EXCEPT ![r.slug] = Applied(r, held[w])]
  BY DEF Commit, TypeInv, QueueTypeOK
<1>3. Applied(r, held[w]) # NoRow =>
          Applied(r, held[w]).by = held[w] /\ r.op # "delete"
  BY <1>1 DEF Applied, NoRow
<1> HIDE DEF r
<1> QED
  BY <1>1, <1>2, <1>3 DEF r

(* The steps of the queue, with requests going on or cut off.              *)
LEMMA QueueTexts ==
    ASSUME TextInv, [Next]_vars, UNCHANGED failedReads,
           \/ UNCHANGED viewing
           \/ viewing' = [v \in Requesters |-> NoView]
    PROVE  TextInv'
<1>1. TypeInv /\ TypeInv' /\ Grows
  BY TypeStep, OutboxGrows DEF TextInv
<1>2. \A s, j : Written(outbox, s, j) => Written(outbox', s, j)
  BY <1>1, WrittenStays
<1>3. \A s, j : Showable(outbox, failedReads, s, j)
                    => Showable(outbox', failedReads', s, j)
  BY <1>1, ShowableStays DEF TextInv
<1>4. cache' \in [Slugs -> Nat] /\ PagesShowable'
  <2>1. CASE UNCHANGED cache
    BY <1>3, <2>1 DEF TextInv, TextTypes, PagesShowable
  <2>2. ASSUME NEW w \in Workers, Render(w)
        PROVE  cache' \in [Slugs -> Nat] /\ PagesShowable'
    <3>1. /\ pc[w] \in Rendering /\ pc[w] # "idle"
          /\ \/ UNCHANGED cache
             \/ cache' = [cache EXCEPT ![job[held[w]].slug] = held[w]]
      BY <2>2 DEF Render, Rendering
    <3>2. held[w] \in Nat /\ job[held[w]].slug \in Slugs
      BY <1>1, <3>1, HeldRow, RequestFields, WorkBounds DEF Jobs
    <3>3. Showable(outbox', failedReads', job[held[w]].slug, held[w])
      BY <1>2, <3>1 DEF TextInv, RenderersWrote, Showable
    <3>4. cache' \in [Slugs -> Nat]
      BY <3>1, <3>2 DEF TextInv, TextTypes
    <3>5. ASSUME NEW s \in Slugs, cache'[s] # 0
          PROVE  Showable(outbox', failedReads', s, cache'[s])
      <4>1. \/ cache'[s] = cache[s]
            \/ s = job[held[w]].slug /\ cache'[s] = held[w]
        BY <3>1, <3>2 DEF TextInv, TextTypes
      <4> QED
        BY <1>3, <3>3, <3>5, <4>1 DEF TextInv, PagesShowable
    <3> QED
      BY <3>4, <3>5 DEF PagesShowable
  <2> QED
    BY <2>1, <2>2, PageByRender
<1>5. TextTypes'
  BY <1>4 DEF TextInv, TextTypes
<1>6. RowsWritten'
  <2>1. CASE UNCHANGED articles
    BY <1>2, <2>1 DEF TextInv, RowsWritten
  <2>2. ASSUME NEW w \in Workers, Commit(w), NEW s \in Slugs,
               articles'[s] # NoRow
        PROVE  Written(outbox', s, articles'[s].by)
    <3>1. CASE s = job[held[w]].slug
      BY <1>1, <2>2, <3>1, CommitRow, CommitWrites
    <3>2. CASE s # job[held[w]].slug
      BY <1>1, <1>2, <2>2, <3>2, CommitRow DEF TextInv, RowsWritten
    <3> QED
      BY <3>1, <3>2
  <2> QED
    BY <1>1, <2>1, <2>2, StepEffects DEF SiteByCommit, RowsWritten
<1>7. RenderersWrote'
  <2> SUFFICES ASSUME NEW w \in Workers, pc'[w] \in Rendering
               PROVE  Written(outbox', job'[held'[w]].slug, held'[w])
    BY DEF RenderersWrote
  <2>1. CASE /\ pc[w] \in Rendering
             /\ held'[w] = held[w] /\ job'[held[w]] = job[held[w]]
    BY <1>2, <2>1 DEF TextInv, RenderersWrote
  <2>2. CASE Commit(w) /\ job[held[w]].op # "delete"
    <3>1. job' = job /\ held' = held
      BY <2>2 DEF Commit, jobVars
    <3> QED
      BY <1>1, <2>2, <3>1, CommitWrites
  <2> QED
    BY <1>1, <2>1, <2>2, RenderersStay
<1>8. ViewsShowable'
  BY <1>3 DEF TextInv, ViewsShowable
<1> QED
  BY <1>1, <1>4, <1>5, <1>6, <1>7, <1>8 DEF TextInv

(* The others leave the queue and the outbox alone.                        *)
LEMMA SiteTypes ==
    ASSUME TypeInv, articles' \in [Slugs -> Rows \cup {NoRow}],
           UNCHANGED <<mode, jobVars, outbox, workerVars, request, sweep,
                       bounds>>
    PROVE  TypeInv'
  BY DEF TypeInv, QueueTypeOK, RowsKnown, jobVars, workerVars, bounds

(* A purge.                                                                *)
LEMMA PurgeTexts ==
    ASSUME TextInv, UNCHANGED <<queueVars, viewing, failedReads>>,
           UNCHANGED cache \/ \E s \in Slugs : CachePurge(s)
    PROVE  TextInv'
<1>0. UNCHANGED <<articles, outbox, pc, held, job>>
  BY DEF queueVars, jobVars, workerVars
<1>1. TypeInv'
  BY SiteTypes DEF TextInv, TypeInv, QueueTypeOK, queueVars
<1>2. cache' \in [Slugs -> Nat] /\ \A s \in Slugs : cache'[s] \in {0, cache[s]}
  BY DEF TextInv, TextTypes, CachePurge
<1>3. TextTypes'
  BY <1>2 DEF TextInv, TextTypes
<1>4. PagesShowable'
  BY <1>0, <1>2 DEF TextInv, PagesShowable
<1>5. RowsWritten' /\ RenderersWrote' /\ ViewsShowable'
  BY <1>0 DEF TextInv, RowsWritten, RenderersWrote, ViewsShowable
<1> QED
  BY <1>1, <1>3, <1>4, <1>5 DEF TextInv

(* A change of a row that keeps its text, or removes it.                   *)
LEMMA ConsoleTexts ==
    ASSUME TextInv, NEW slug \in Slugs,
           DeletePost(slug) \/ \E kind \in Kinds : SetPostStatus(slug, kind)
    PROVE  TextInv'
<1>0. UNCHANGED <<mode, jobVars, outbox, workerVars, request, sweep, bounds,
                  cache, viewing, failedReads>>
  BY DEF DeletePost, SetPostStatus, relayVars
<1> DEFINE KeepsText ==
               /\ articles' \in [Slugs -> Rows \cup {NoRow}]
               /\ \A s \in Slugs : articles'[s] # NoRow =>
                     articles[s] # NoRow /\ articles'[s].by = articles[s].by
<1>1. KeepsText
  <2>1. articles \in [Slugs -> Rows \cup {NoRow}]
    BY DEF TextInv, TypeInv, QueueTypeOK
  <2>2. CASE articles' = [articles EXCEPT ![slug] = NoRow]
    BY <2>1, <2>2
  <2>3. ASSUME NEW kind \in Kinds, articles[slug] # NoRow,
               articles' = [articles EXCEPT ![slug].kind = kind]
        PROVE  KeepsText
    <3>1. articles[slug] \in Rows
      BY <2>1, <2>3
    <3>2. articles' = [articles EXCEPT ![slug] = [articles[slug] EXCEPT !.kind = kind]]
      BY <2>1, <2>3
    <3>3. /\ [articles[slug] EXCEPT !.kind = kind] \in Rows
          /\ [articles[slug] EXCEPT !.kind = kind].by = articles[slug].by
      BY <2>3, <3>1 DEF Rows
    <3> QED
      BY <2>1, <2>3, <3>2, <3>3
  <2>4. CASE DeletePost(slug)
    BY <2>2, <2>4 DEF DeletePost
  <2>5. ASSUME NEW kind \in Kinds, SetPostStatus(slug, kind) PROVE KeepsText
    BY <2>3, <2>5 DEF SetPostStatus
  <2> QED
    BY <2>4, <2>5
<1>2. TypeInv'
  BY <1>0, <1>1, SiteTypes DEF TextInv
<1>3. UNCHANGED <<pc, held, job>>
  BY <1>0 DEF jobVars, workerVars
<1>4. RowsWritten'
  BY <1>0, <1>1 DEF TextInv, RowsWritten
<1>5. TextTypes' /\ PagesShowable' /\ RenderersWrote' /\ ViewsShowable'
  BY <1>0, <1>3 DEF TextInv, TextTypes, PagesShowable, RenderersWrote,
     ViewsShowable
<1> QED
  BY <1>2, <1>4, <1>5 DEF TextInv

(* The article page: what it reads is showable, and so is what it stores.  *)
LEMMA ViewTexts ==
    ASSUME TextInv, NEW v \in Requesters,
           StoreArticle(v) \/ \E slug \in Slugs : ReadArticle(v, slug)
    PROVE  TextInv'
<1>0. UNCHANGED queueVars /\ UNCHANGED <<articles, outbox, pc, held, job>>
  BY DEF StoreArticle, ReadArticle, queueVars, jobVars, workerVars
<1>1. TypeInv' /\ Grows
  BY <1>0, SiteTypes, SameOutboxGrows DEF TextInv, TypeInv, QueueTypeOK,
     queueVars
<1>2. RowsWritten' /\ RenderersWrote'
  BY <1>0 DEF TextInv, RowsWritten, RenderersWrote
<1>3. CASE StoreArticle(v)
  <2>1. /\ viewing[v] \in [slug : Slugs, by : Nat]
        /\ Showable(outbox, failedReads, viewing[v].slug, viewing[v].by)
        /\ cache' = [cache EXCEPT ![viewing[v].slug] = viewing[v].by]
        /\ viewing' = [viewing EXCEPT ![v] = NoView]
        /\ UNCHANGED failedReads
    BY <1>3 DEF StoreArticle, TextInv, TextTypes, ViewsShowable
  <2>2. TextTypes'
    BY <2>1 DEF TextInv, TextTypes
  <2>3. PagesShowable'
    <3> SUFFICES ASSUME NEW s \in Slugs, cache'[s] # 0
                 PROVE  Showable(outbox, failedReads, s, cache'[s])
      BY <1>0, <2>1 DEF PagesShowable
    <3>1. \/ cache'[s] = cache[s]
          \/ s = viewing[v].slug /\ cache'[s] = viewing[v].by
      BY <2>1 DEF TextInv, TextTypes
    <3> QED
      BY <2>1, <3>1 DEF TextInv, PagesShowable
  <2>4. ViewsShowable'
    BY <1>0, <2>1 DEF TextInv, TextTypes, ViewsShowable
  <2> QED
    BY <1>1, <1>2, <2>2, <2>3, <2>4 DEF TextInv
<1>4. ASSUME NEW slug \in Slugs, ReadArticle(v, slug) PROVE TextInv'
  <2>1. /\ failedReads' \in {failedReads, failedReads + 1}
        /\ failedReads \in Nat
        /\ cache' = cache
    BY <1>4 DEF ReadArticle, TextInv, TextTypes
  <2>2. \A s, j : Showable(outbox, failedReads, s, j)
                      => Showable(outbox', failedReads', s, j)
    BY <1>1, <2>1, ShowableStays DEF TextInv
  <2>3. PICK b \in Nat :
            /\ viewing' = [viewing EXCEPT ![v] = [slug |-> slug, by |-> b]]
            /\ Showable(outbox', failedReads', slug, b)
    <3>1. ASSUME articles[slug] # NoRow,
                 viewing' = [viewing EXCEPT ![v] = [slug |-> slug,
                                                    by |-> articles[slug].by]]
          PROVE  \E b \in Nat :
                    /\ viewing' = [viewing EXCEPT ![v] = [slug |-> slug, by |-> b]]
                    /\ Showable(outbox', failedReads', slug, b)
      <4>1. articles[slug].by \in Nat
        BY <3>1 DEF TextInv, TypeInv, QueueTypeOK, Rows, Jobs
      <4>2. Showable(outbox, failedReads, slug, articles[slug].by)
        BY <3>1 DEF TextInv, RowsWritten, Showable
      <4> QED
        BY <2>2, <3>1, <4>1, <4>2
    <3>2. ASSUME failedReads' = failedReads + 1,
                 viewing' = [viewing EXCEPT ![v] = [slug |-> slug,
                                                    by |-> BlankPage]]
          PROVE  \E b \in Nat :
                    /\ viewing' = [viewing EXCEPT ![v] = [slug |-> slug, by |-> b]]
                    /\ Showable(outbox', failedReads', slug, b)
      <4>1. BlankPage \in Nat
        BY WorkBounds DEF BlankPage
      <4>2. failedReads' > 0
        BY <2>1, <3>2
      <4> QED
        BY <3>2, <4>1, <4>2 DEF Showable
    <3> QED
      BY <1>4, <3>1, <3>2 DEF ReadArticle
  <2>4. TextTypes'
    BY <2>1, <2>3 DEF TextInv, TextTypes
  <2>5. PagesShowable'
    BY <2>1, <2>2 DEF TextInv, PagesShowable
  <2>6. ViewsShowable'
    <3> SUFFICES ASSUME NEW u \in Requesters, viewing'[u] # NoView
                 PROVE  Showable(outbox', failedReads', viewing'[u].slug,
                                 viewing'[u].by)
      BY DEF ViewsShowable
    <3>1. \/ viewing'[u] = viewing[u]
          \/ viewing'[u] = [slug |-> slug, by |-> b]
      BY <2>3 DEF TextInv, TextTypes
    <3> QED
      BY <2>2, <2>3, <3>1 DEF TextInv, ViewsShowable
  <2> QED
    BY <1>1, <1>2, <2>4, <2>5, <2>6 DEF TextInv
<1> QED
  BY <1>3, <1>4

LEMMA TextStep ==
    ASSUME TextInv, [NextPipeline]_pipelineVars
    PROVE  TextInv'
<1>1. CASE QueueStep
  BY <1>1, QueueTexts DEF QueueStep, Next, siteReaders
<1>2. CASE PublishToSubscribers
  <2>1. UNCHANGED cache \/ \E s \in Slugs : CachePurge(s)
    <3>1. CASE outbox[current].slug \in Slugs
      BY <1>2, <3>1 DEF PublishToSubscribers
    <3>2. CASE outbox[current].slug \notin Slugs
      <4>1. UNCHANGED cache \/ cache' = [cache EXCEPT ![outbox[current].slug] = 0]
        BY <1>2 DEF PublishToSubscribers, CachePurge
      <4> QED
        BY <3>2, <4>1 DEF TextInv, TextTypes
    <3> QED
      BY <3>1, <3>2
  <2> QED
    BY <1>2, <2>1, PurgeTexts DEF PublishToSubscribers, siteReaders
<1>3. CASE RelayStep /\ ~PublishToSubscribers
  BY <1>3, PurgeTexts DEF RelayStep, siteReaders
<1>4. ASSUME NEW slug \in Slugs, Console(slug) PROVE TextInv'
  <2>1. CASE ConsolePurge(slug)
    BY <2>1, PurgeTexts DEF ConsolePurge
  <2> QED
    BY <1>4, <2>1, ConsoleTexts DEF Console, Kinds
<1>5. ASSUME NEW v \in Requesters,
             StoreArticle(v) \/ \E slug \in Slugs : ReadArticle(v, slug)
      PROVE  TextInv'
  BY <1>5, ViewTexts
<1>6. CASE RestartAll
  BY <1>6, QueueTexts DEF RestartAll, Next
<1>7. CASE UNCHANGED pipelineVars
  BY <1>7, QueueTexts DEF pipelineVars, siteReaders
<1> QED
  BY <1>1, <1>2, <1>3, <1>4, <1>5, <1>6, <1>7 DEF NextPipeline

LEMMA TextInit == InitPipeline => TextInv
<1> SUFFICES ASSUME InitPipeline PROVE TextInv
  OBVIOUS
<1>1. TypeInv
  BY TypeInit DEF InitPipeline
<1> QED
  BY <1>1 DEF InitPipeline, Init, TextInv, TextTypes, PagesShowable,
     RowsWritten, RenderersWrote, ViewsShowable, Rendering

(* Nothing reaches the public cache before it is in the database, for any  *)
(* number of workers, console changes and requests at once: a cached page  *)
(* has a committed text, or is the empty page of a failed read.            *)
THEOREM CachedTextWasCommittedHolds == PipelineSpec => []CachedTextWasCommitted
<1>1. TextInv => CachedTextWasCommitted
  BY DEF TextInv, PagesShowable, Showable, Written, CachedTextWasCommitted
<1> QED
  BY <1>1, TextInit, TextStep, PTL DEF PipelineSpec

-----------------------------------------------------------------------------
(* The relay only publishes what is in the outbox.                         *)
RelayOK ==
    /\ 1..Len(outbox) \subseteq Relay!EventIds
    /\ published \in [Relay!EventIds -> Nat]
    /\ \A e \in Relay!EventIds : published[e] > 0 => e \in 1..Len(outbox)
    /\ rpc = "publishing" => current \in 1..Len(outbox)

(* Creations and deletions of an article, as outbox q tells of them.       *)
Created(q, s) ==
    \E e \in 1..Len(q) : q[e].slug = s /\ q[e].type = "article.created"

DeletedLast(q, s) ==
    \E d \in 1..Len(q) :
        /\ q[d].slug = s /\ q[d].type = "article.deleted"
        /\ \A k \in d..Len(q) : q[k].slug = s => q[k].type # "article.created"

(* Only an article that was created once is updated.                       *)
CreatedFirst ==
    /\ \A s \in Slugs : articles[s] # NoRow => Created(outbox, s)
    /\ \A p \in Producers :
          request[p].op = "update" => Created(outbox, request[p].slug)
    /\ \A j \in Jobs :
          job[j].op = "update" => Created(outbox, job[j].slug)

(* What StalePageHasPurgePending is about.                                 *)
Untouched == (\A v, w \in Workers : v = w) /\ views = 0 /\ consoleOps = 0

(* Job j has the text of row a of slug s, or came too late for the row.    *)
Current(q, a, s, j) == j = a.by \/ (a = NoRow /\ UpdatedNothing(q, s, j))

(* Next to the pages, the worker that is about to store one; and what it   *)
(* takes to know an update that came too late: that the row was deleted.   *)
FreshPages ==
    /\ \A v \in Requesters : viewing[v] = NoView
    /\ \A s \in Slugs :
          articles[s] = NoRow /\ Created(outbox, s) => DeletedLast(outbox, s)
    /\ \A s \in Slugs :
          cache[s] # 0 =>
              Current(outbox, articles[s], s, cache[s]) \/ PurgePending(s)
    /\ \A w \in Workers :
          pc[w] \in Rendering =>
              Current(outbox, articles[job[held[w]].slug], job[held[w]].slug,
                      held[w])

StaleInv ==
    /\ TextInv
    /\ RelayOK
    /\ CreatedFirst
    /\ views \in Nat /\ consoleOps \in Nat
    /\ Untouched => FreshPages

-----------------------------------------------------------------------------
LEMMA CreatedStays ==
    ASSUME Grows
    PROVE  \A s : Created(outbox, s) => Created(outbox', s)
<1> SUFFICES ASSUME NEW s, Created(outbox, s) PROVE Created(outbox', s)
  OBVIOUS
<1>1. PICK e \in 1..Len(outbox) :
          outbox[e].slug = s /\ outbox[e].type = "article.created"
  BY DEF Created
<1>2. e \in 1..Len(outbox') /\ outbox'[e] = outbox[e]
  BY DEF Grows
<1> QED
  BY <1>1, <1>2 DEF Created

LEMMA UpdatedNothingStays ==
    ASSUME Grows
    PROVE  \A s, j : UpdatedNothing(outbox, s, j)
                        => UpdatedNothing(outbox', s, j)
<1> SUFFICES ASSUME NEW s, NEW j, UpdatedNothing(outbox, s, j)
             PROVE  UpdatedNothing(outbox', s, j)
  OBVIOUS
<1>1. PICK d \in 1..Len(outbox), u \in 1..Len(outbox) :
          /\ outbox[d].slug = s /\ outbox[d].type = "article.deleted"
          /\ outbox[u] = [type |-> "article.updated", slug |-> s, job |-> j]
          /\ \A k \in d..u :
                outbox[k].slug = s => outbox[k].type # "article.created"
  BY DEF UpdatedNothing
<1>2. /\ d \in 1..Len(outbox') /\ u \in 1..Len(outbox')
      /\ \A k \in d..u : outbox'[k] = outbox[k]
      /\ outbox'[d] = outbox[d] /\ outbox'[u] = outbox[u]
  BY DEF Grows
<1> QED
  BY <1>1, <1>2 DEF UpdatedNothing

(* Creations, requests and jobs.                                           *)
LEMMA RequestsCome ==
    ASSUME TypeInv, [Next]_vars
    PROVE  /\ \A p \in Producers : request'[p] # NoRequest =>
                 \/ request'[p] = request[p]
                 \/ Acceptable(request'[p])
           /\ \A j \in Jobs : job'[j] = job[j] \/
                 \E p \in Producers : job'[j] = request[p]
<1> DEFINE Req == \A p \in Producers : request'[p] # NoRequest =>
                     request'[p] = request[p] \/ Acceptable(request'[p])
           Job == \A j \in Jobs : job'[j] = job[j] \/
                     \E p \in Producers : job'[j] = request[p]
<1> USE DEF jobVars
<1>1. ASSUME NEW p \in Producers, NEW r \in Offered, Submit(p, r)
      PROVE  Req /\ Job
  BY <1>1 DEF Submit, TypeInv, QueueTypeOK
<1>2. ASSUME NEW p \in Producers, InsertJob(p) PROVE Req /\ Job
  <2>1. request' = [request EXCEPT ![p] = NoRequest]
    BY <1>2 DEF InsertJob
  <2>2. UNCHANGED job \/ \E j \in Jobs : job' = [job EXCEPT ![j] = request[p]]
    BY <1>2 DEF InsertJob, Absent
  <2>3. Job
    BY <2>2 DEF TypeInv, QueueTypeOK
  <2> QED
    BY <2>1, <2>3 DEF TypeInv, QueueTypeOK
<1>3. ASSUME NEW w \in Workers, Work(w) PROVE UNCHANGED <<job, request>>
  BY <1>3 DEF Work, Pick, Claim, Reject, Commit, Rollback, ReadRetries,
     Requeue, DeadLetter, ReadRow, Render, Complete
<1>4. CASE /\ Step
           /\ ~\E w \in Workers : Work(w)
           /\ ~\E p \in Producers : InsertJob(p)
           /\ ~\E p \in Producers, r \in Offered : Submit(p, r)
  BY <1>4 DEF Step, Reap, Prune, BackoffElapses, GrowOlder, ReplayJob,
     QuarantineRow, ReplayBatchRow, ReplaySweep, SetMode
<1>5. CASE Restart
  BY <1>5 DEF Restart
<1>6. CASE UNCHANGED vars
  BY <1>6 DEF vars
<1> QED
  BY <1>1, <1>2, <1>3, <1>4, <1>5, <1>6 DEF Next

(* The first event of a commit, and what it makes of the row.              *)
LEMMA CommitCreates ==
    ASSUME TypeInv, NEW w \in Workers, Commit(w), job[held[w]].op = "insert"
    PROVE  Created(outbox', job[held[w]].slug)
<1>1. /\ Len(outbox) \in Nat /\ Len(outbox') = Len(outbox) + 2
      /\ outbox'[Len(outbox) + 1] =
            [type |-> EventType(job[held[w]].op), slug |-> job[held[w]].slug,
             job |-> held[w]]
  BY CommitAppends
<1>2. EventType(job[held[w]].op) = "article.created"
  BY DEF EventType
<1>3. Len(outbox) + 1 \in 1..Len(outbox')
  BY <1>1
<1> QED
  BY <1>1, <1>2, <1>3 DEF Created

LEMMA CreatedFirstStep ==
    ASSUME TypeInv, CreatedFirst, [Next]_vars
    PROVE  CreatedFirst'
<1>1. Grows /\ \A s : Created(outbox, s) => Created(outbox', s)
  BY OutboxGrows, CreatedStays
<1>2. ASSUME NEW s \in Slugs, articles'[s] # NoRow
      PROVE  Created(outbox', s)
  <2>1. CASE UNCHANGED articles
    BY <1>1, <1>2, <2>1 DEF CreatedFirst
  <2>2. ASSUME NEW w \in Workers, Commit(w)
        PROVE  Created(outbox', s)
    <3>1. CASE s # job[held[w]].slug
      BY <1>1, <1>2, <2>2, <3>1, CommitRow DEF CreatedFirst
    <3>2. CASE s = job[held[w]].slug
      <4>1. job[held[w]].op \in {"insert", "update"} /\ held[w] \in Jobs
        BY <1>2, <2>2, <3>2, CommitRow, HeldRow, RequestFields DEF Commit
      <4>2. CASE job[held[w]].op = "insert"
        BY <2>2, <3>2, <4>2, CommitCreates
      <4>3. CASE job[held[w]].op = "update"
        BY <1>1, <3>2, <4>1, <4>3 DEF CreatedFirst
      <4> QED
        BY <4>1, <4>2, <4>3
    <3> QED
      BY <3>1, <3>2
  <2> QED
    BY <2>1, <2>2, StepEffects DEF SiteByCommit
<1>3. ASSUME NEW p \in Producers, request'[p].op = "update"
      PROVE  Created(outbox', request'[p].slug)
  <2>1. request'[p] # NoRequest
    BY <1>3 DEF NoRequest
  <2>2. CASE request'[p] = request[p]
    BY <1>1, <1>3, <2>2 DEF CreatedFirst
  <2>3. CASE Acceptable(request'[p])
    <3>1. request'[p] \in Requests
      BY <2>1, TypeStep DEF TypeInv, QueueTypeOK
    <3>2. request'[p].slug \in Slugs
      BY <3>1, RequestFields
    <3>3. articles[request'[p].slug] # NoRow
      BY <1>3, <2>3 DEF Acceptable
    <3> QED
      BY <1>1, <3>2, <3>3 DEF CreatedFirst
  <2> QED
    BY <2>1, <2>2, <2>3, RequestsCome
<1>4. ASSUME NEW j \in Jobs, job'[j].op = "update"
      PROVE  Created(outbox', job'[j].slug)
  <2>1. job'[j] = job[j] \/ \E p \in Producers : job'[j] = request[p]
    BY RequestsCome
  <2> QED
    BY <1>1, <1>4, <2>1 DEF CreatedFirst
<1> QED
  BY <1>2, <1>3, <1>4 DEF CreatedFirst

(* A purge that is pending stays so while nothing is published.            *)
LEMMA PurgePendingStays ==
    ASSUME Grows, UNCHANGED published, NEW s, PurgePending(s)
    PROVE  PurgePending(s)'
<1>1. PICK e \in 1..Len(outbox) : /\ outbox[e].type = "cache.invalidated"
                                  /\ outbox[e].slug = s
                                  /\ published[e] = 0
  BY DEF PurgePending
<1>2. e \in 1..Len(outbox') /\ outbox'[e] = outbox[e]
  BY DEF Grows
<1> QED
  BY <1>1, <1>2 DEF PurgePending

LEMMA RelayStays ==
    ASSUME RelayOK, Grows, 1..Len(outbox') \subseteq Relay!EventIds,
           UNCHANGED published,
           rpc' = "publishing" => current' \in 1..Len(outbox')
    PROVE  RelayOK'
  BY DEF RelayOK, Grows, Relay!EventIds

(* A commit: the page of its slug has an invalidation to come, and its     *)
(* worker will render what the row has, or came too late for the row.      *)
LEMMA CommitFresh ==
    ASSUME StaleInv, Untouched, FreshPages, NEW w \in Workers, Commit(w),
           Len(outbox') <= MaxEvents, UNCHANGED <<published, viewing>>
    PROVE  FreshPages'
<1> DEFINE n == Len(outbox)
           j == held[w]
           r == job[j]
<1>0. /\ TypeInv /\ Grows
      /\ UNCHANGED <<job, held, cache>>
      /\ articles \in [Slugs -> Rows \cup {NoRow}]
  <2>1. TypeInv
    BY DEF StaleInv, TextInv
  <2> QED
    BY <2>1, OutboxGrows DEF Commit, jobVars, Next, Step, Work, TypeInv,
       QueueTypeOK
<1>1. /\ j \in Jobs /\ r \in Requests /\ r.slug \in Slugs
      /\ r.op \in {"insert", "update", "delete"}
  BY <1>0, HeldRow, RequestFields DEF Commit
<1>2. /\ n \in Nat
      /\ Len(outbox') = n + 2
      /\ \A e \in 1..n : outbox'[e] = outbox[e]
      /\ outbox'[n + 1] = [type |-> EventType(r.op), slug |-> r.slug, job |-> j]
      /\ outbox'[n + 2] = [type |-> "cache.invalidated", slug |-> r.slug,
                           job |-> j]
  BY <1>0, CommitAppends
<1>3. \A s \in Slugs :
          /\ s # r.slug => articles'[s] = articles[s]
          /\ s = r.slug => articles'[s] = Applied(r, j)
  BY <1>0, CommitRow
<1>4. r.op = "update" => Created(outbox, r.slug)
  BY <1>1 DEF StaleInv, CreatedFirst
<1> HIDE DEF n, j, r
<1>5. PurgePending(r.slug)'
  <2>1. n + 2 \in 1..Len(outbox') /\ n + 2 \notin 1..Len(outbox)
    BY <1>2 DEF n
  <2>2. n + 2 \in Relay!EventIds
    BY <1>2, SiteBounds DEF Relay!EventIds
  <2>3. published[n + 2] = 0
    BY <2>1, <2>2 DEF StaleInv, RelayOK
  <2>4. r' = r
    BY <1>0 DEF r, j
  <2> QED
    BY <1>2, <2>1, <2>3, <2>4 DEF PurgePending
<1>6. ASSUME NEW s \in Slugs, articles'[s] = NoRow, Created(outbox', s)
      PROVE  DeletedLast(outbox', s)
  <2>1. CASE s = r.slug /\ r.op = "delete"
    <3>1. /\ n + 1 \in 1..Len(outbox')
          /\ outbox'[n + 1].slug = s /\ outbox'[n + 1].type = "article.deleted"
      BY <1>2, <2>1 DEF EventType
    <3>2. ASSUME NEW k \in (n + 1)..Len(outbox')
          PROVE  outbox'[k].type # "article.created"
      <4>1. k = n + 1 \/ k = n + 2
        BY <1>2
      <4>2. outbox'[n + 2].type = "cache.invalidated"
        BY <1>2
      <4> QED
        BY <3>1, <4>1, <4>2
    <3> QED
      BY <3>1, <3>2 DEF DeletedLast
  <2>2. CASE ~(s = r.slug /\ r.op = "delete")
    <3>1. articles[s] = NoRow
      <4>1. CASE s # r.slug
        BY <1>3, <1>6, <4>1
      <4>2. CASE s = r.slug
        BY <1>1, <1>3, <1>6, <2>2, <4>2 DEF Applied, NoRow, Jobs
      <4> QED
        BY <4>1, <4>2
    <3>2. ASSUME NEW k \in {n + 1, n + 2}, outbox'[k].slug = s
          PROVE  outbox'[k].type # "article.created"
      <4>1. s = r.slug
        BY <1>2, <3>2
      <4>2. r.op = "update"
        BY <1>1, <1>3, <1>6, <2>2, <4>1 DEF Applied, NoRow, Jobs
      <4> QED
        BY <1>2, <4>2 DEF EventType
    <3>3. Created(outbox, s)
      <4>1. PICK e \in 1..Len(outbox') :
                outbox'[e].slug = s /\ outbox'[e].type = "article.created"
        BY <1>6 DEF Created
      <4>2. e \in 1..n
        BY <1>2, <3>2, <4>1
      <4> QED
        BY <1>2, <4>1, <4>2 DEF Created, n
    <3>4. PICK d \in 1..n :
              /\ outbox[d].slug = s /\ outbox[d].type = "article.deleted"
              /\ \A k \in d..n :
                    outbox[k].slug = s => outbox[k].type # "article.created"
      BY <3>1, <3>3 DEF FreshPages, DeletedLast, n
    <3>5. d \in 1..Len(outbox') /\ outbox'[d] = outbox[d]
      BY <1>2, <3>4
    <3>6. ASSUME NEW k \in d..Len(outbox'), outbox'[k].slug = s
          PROVE  outbox'[k].type # "article.created"
      <4>1. k \in d..n \/ k \in {n + 1, n + 2}
        BY <1>2, <3>4
      <4>2. CASE k \in d..n
        BY <1>2, <3>4, <3>6, <4>2
      <4> QED
        BY <3>2, <3>6, <4>1, <4>2
    <3> QED
      BY <3>4, <3>5, <3>6 DEF DeletedLast
  <2> QED
    BY <2>1, <2>2
<1>7. ASSUME NEW s \in Slugs, cache'[s] # 0
      PROVE  Current(outbox', articles'[s], s, cache'[s]) \/ PurgePending(s)'
  <2>1. CASE s = r.slug
    <3>1. r' = r
      BY <1>0 DEF r, j
    <3> QED
      BY <1>5, <2>1, <3>1 DEF PurgePending
  <2>2. CASE s # r.slug
    <3>1. articles'[s] = articles[s] /\ cache'[s] = cache[s]
      BY <1>0, <1>3, <2>2
    <3>2. Current(outbox, articles[s], s, cache[s]) \/ PurgePending(s)
      BY <1>7, <3>1 DEF FreshPages
    <3> QED
      BY <1>0, <3>1, <3>2, PurgePendingStays, UpdatedNothingStays DEF Current
  <2> QED
    BY <2>1, <2>2
<1>8. ASSUME NEW v \in Workers, pc'[v] \in Rendering
      PROVE  Current(outbox', articles'[job'[held'[v]].slug],
                     job'[held'[v]].slug, held'[v])
  <2>1. v = w /\ job'[held'[v]] = r /\ held'[v] = j
    BY <1>0 DEF Untouched, r, j
  <2>2. r.op # "delete"
    <3>1. pc' = [pc EXCEPT ![w] = IF r.op = "delete" THEN "done" ELSE "applied"]
      BY DEF Commit, Goto, r, j
    <3>2. pc \in [Workers -> Labels]
      BY <1>0 DEF TypeInv, QueueTypeOK
    <3> QED
      BY <1>8, <2>1, <3>1, <3>2 DEF Rendering
  <2>3. CASE articles'[r.slug] # NoRow
    <3>1. articles'[r.slug].by = j
      BY <1>1, <1>3, <2>2, <2>3 DEF Applied
    <3> QED
      BY <2>1, <3>1 DEF Current
  <2>4. CASE articles'[r.slug] = NoRow
    <3>1. r.op = "update" /\ articles[r.slug] = NoRow
      BY <1>1, <1>3, <2>2, <2>4 DEF Applied, NoRow, Jobs
    <3>2. PICK d \in 1..n :
              /\ outbox[d].slug = r.slug /\ outbox[d].type = "article.deleted"
              /\ \A k \in d..n :
                    outbox[k].slug = r.slug => outbox[k].type # "article.created"
      BY <1>1, <1>4, <3>1 DEF FreshPages, DeletedLast, n
    <3>3. /\ d \in 1..Len(outbox') /\ n + 1 \in 1..Len(outbox')
          /\ outbox'[d] = outbox[d]
          /\ outbox'[n + 1] = [type |-> "article.updated", slug |-> r.slug,
                               job |-> j]
      BY <1>2, <3>1, <3>2 DEF EventType
    <3>4. ASSUME NEW k \in d..(n + 1), outbox'[k].slug = r.slug
          PROVE  outbox'[k].type # "article.created"
      <4>1. CASE k = n + 1
        BY <3>3, <4>1
      <4>2. CASE k # n + 1
        <5>1. k \in d..n /\ k \in 1..n
          BY <1>2, <3>2, <4>2
        <5> QED
          BY <1>2, <3>2, <3>4, <5>1
      <4> QED
        BY <4>1, <4>2
    <3>5. UpdatedNothing(outbox', r.slug, j)
      BY <3>2, <3>3, <3>4 DEF UpdatedNothing
    <3> QED
      BY <2>1, <2>4, <3>5 DEF Current
  <2> QED
    BY <2>3, <2>4
<1>9. \A v \in Requesters : viewing'[v] = NoView
  BY DEF FreshPages
<1> QED
  BY <1>6, <1>7, <1>8, <1>9 DEF FreshPages

(* The other steps of the queue: only a rendering worker stores a page,    *)
(* and that is the current one.                                            *)
LEMMA QuietFresh ==
    ASSUME StaleInv, Untouched, FreshPages, [Next]_vars,
           UNCHANGED <<articles, outbox, published>>,
           ~\E w \in Workers : Commit(w),
           \A v \in Requesters : viewing'[v] = NoView
    PROVE  FreshPages'
<1>0. TypeInv /\ Grows /\ cache \in [Slugs -> Nat]
  BY OutboxGrows DEF StaleInv, TextInv, TextTypes
<1>1. \A s : PurgePending(s) => PurgePending(s)'
  BY DEF PurgePending
<1>2. ASSUME NEW s \in Slugs, cache'[s] # 0
      PROVE  Current(outbox, articles[s], s, cache'[s]) \/ PurgePending(s)'
  <2>1. CASE cache'[s] = cache[s]
    BY <1>1, <1>2, <2>1 DEF FreshPages
  <2>2. ASSUME NEW w \in Workers, Render(w), cache'[s] # cache[s]
        PROVE  Current(outbox, articles[s], s, cache'[s])
    <3>1. /\ pc[w] \in Rendering
          /\ cache' = [cache EXCEPT ![job[held[w]].slug] = held[w]]
      BY <2>2 DEF Render, Rendering
    <3>2. s = job[held[w]].slug /\ cache'[s] = held[w]
      BY <1>0, <2>2, <3>1
    <3> QED
      BY <3>1, <3>2 DEF FreshPages
  <2> QED
    BY <2>1, <2>2, PageByRender
<1>3. ASSUME NEW w \in Workers, pc'[w] \in Rendering
      PROVE  Current(outbox, articles[job'[held'[w]].slug],
                     job'[held'[w]].slug, held'[w])
  BY <1>0, <1>3, RenderersStay DEF FreshPages
<1> QED
  BY <1>2, <1>3 DEF FreshPages

(* Every step of the queue, with the relay idle or cut off.                *)
LEMMA QueueStale ==
    ASSUME StaleInv, [Next]_vars, UNCHANGED <<published, views, consoleOps>>,
           UNCHANGED outbox \/ Len(outbox') <= MaxEvents,
           UNCHANGED <<rpc, current>> \/ rpc' = "idle",
           \/ UNCHANGED viewing
           \/ viewing' = [v \in Requesters |-> NoView],
           TextInv'
    PROVE  StaleInv'
<1>1. TypeInv /\ Grows
  BY OutboxGrows DEF StaleInv, TextInv
<1>2. RelayOK'
  <2>1. 1..Len(outbox') \subseteq Relay!EventIds
    BY <1>1, SiteBounds DEF StaleInv, RelayOK, Grows, Relay!EventIds
  <2>2. rpc' = "publishing" => current' \in 1..Len(outbox')
    BY <1>1 DEF StaleInv, RelayOK, Grows
  <2> QED
    BY <1>1, <2>1, <2>2, RelayStays DEF StaleInv
<1>3. CreatedFirst'
  BY <1>1, CreatedFirstStep DEF StaleInv
<1>4. ASSUME Untouched' PROVE FreshPages'
  <2>1. Untouched /\ FreshPages
    BY <1>4 DEF Untouched, StaleInv
  <2>2. ASSUME NEW w \in Workers, Commit(w) PROVE FreshPages'
    <3>1. /\ Len(outbox) \in Nat
          /\ Len(outbox') = Len(outbox) + 2
      BY <1>1, <2>2, CommitAppends
    <3>2. Len(outbox') <= MaxEvents
      BY <3>1
    <3>3. UNCHANGED viewing
      <4>1. viewing \in [Requesters -> [slug : Slugs, by : Nat] \cup {NoView}]
        BY DEF StaleInv, TextInv, TextTypes
      <4>2. viewing = [v \in Requesters |-> NoView]
        BY <2>1, <4>1 DEF FreshPages
      <4> QED
        BY <4>2
    <3> QED
      BY <2>1, <2>2, <3>2, <3>3, CommitFresh
  <2>3. CASE ~\E w \in Workers : Commit(w)
    <3>1. UNCHANGED <<articles, outbox>>
      BY <1>1, <2>3, StepEffects DEF SiteByCommit
    <3>2. \A v \in Requesters : viewing'[v] = NoView
      BY <2>1 DEF FreshPages
    <3> QED
      BY <2>1, <2>3, <3>1, <3>2, QuietFresh
  <2> QED
    BY <2>2, <2>3
<1> QED
  BY <1>2, <1>3, <1>4 DEF StaleInv

(* The bus: an invalidation that goes out takes the page with it.          *)
LEMMA PublishStale ==
    ASSUME StaleInv, PublishToSubscribers, TextInv'
    PROVE  StaleInv'
<1> DEFINE x == outbox[current].slug
<1>0. /\ UNCHANGED <<articles, outbox, pc, held, job, request, viewing, views,
                     consoleOps>>
      /\ cache \in [Slugs -> Nat]
      /\ published \in [Relay!EventIds -> Nat]
  BY DEF PublishToSubscribers, queueVars, jobVars, workerVars, siteReaders,
     StaleInv, TextInv, TextTypes, RelayOK
<1>1. /\ current \in 1..Len(outbox) /\ current \in Relay!EventIds
      /\ published' = [published EXCEPT ![current] = @ + 1]
      /\ rpc' # "publishing"
  BY DEF PublishToSubscribers, Relay!Publish, StaleInv, RelayOK
<1>2. RelayOK'
  BY <1>0, <1>1 DEF StaleInv, RelayOK
<1>3. CreatedFirst'
  BY <1>0 DEF StaleInv, CreatedFirst
<1>4. ASSUME Untouched' PROVE FreshPages'
  <2>1. FreshPages
    BY <1>0, <1>4 DEF Untouched, StaleInv
  <2>2. ASSUME NEW s \in Slugs, cache'[s] # 0
        PROVE  Current(outbox, articles[s], s, cache'[s]) \/ PurgePending(s)'
    <3>1. /\ cache'[s] = cache[s]
          /\ outbox[current].type = "cache.invalidated" => s # x
      BY <1>0, <2>2 DEF PublishToSubscribers, CachePurge
    <3>2. CASE PurgePending(s)
      <4>1. PICK e \in 1..Len(outbox) :
                /\ outbox[e].type = "cache.invalidated"
                /\ outbox[e].slug = s
                /\ published[e] = 0
        BY <3>2 DEF PurgePending
      <4>2. e # current
        BY <3>1, <4>1
      <4>3. published'[e] = 0
        BY <1>0, <1>1, <4>1, <4>2
      <4> QED
        BY <1>0, <4>1, <4>3 DEF PurgePending
    <3>3. CASE Current(outbox, articles[s], s, cache[s])
      BY <3>1, <3>3
    <3> QED
      BY <2>1, <2>2, <3>1, <3>2, <3>3 DEF FreshPages
  <2> QED
    BY <1>0, <2>1, <2>2 DEF FreshPages
<1> QED
  BY <1>0, <1>2, <1>3, <1>4 DEF StaleInv

(* The rest of the relay.                                                  *)
LEMMA RelayStale ==
    ASSUME StaleInv, RelayStep, ~PublishToSubscribers, TextInv'
    PROVE  StaleInv'
<1>0. UNCHANGED <<queueVars, cache, siteReaders>>
  BY DEF RelayStep
<1>1. UNCHANGED <<articles, outbox, cache, pc, held, job, request, viewing,
                  views, consoleOps>>
  BY <1>0 DEF queueVars, jobVars, workerVars, siteReaders
<1> DEFINE Holds ==
               /\ UNCHANGED published
               /\ rpc' = "publishing" => current' \in 1..Len(outbox)
<1>2. Holds
  <2>1. ASSUME Relay!Fetch PROVE Holds
    BY <2>1 DEF Relay!Fetch, Relay!DueEvents
  <2>2. ASSUME Relay!MarkKnown \/ Relay!RecordDelivered \/ Relay!RetryEvent
                  \/ Relay!GiveUp
        PROVE  Holds
    BY <2>2 DEF Relay!MarkKnown, Relay!RecordDelivered, Relay!RetryEvent,
       Relay!GiveUp, Relay!Return
  <2>3. ASSUME Relay!AppendFlow \/ Relay!MarkDelivered PROVE Holds
    BY <2>3 DEF Relay!AppendFlow, Relay!MarkDelivered
  <2>4. ASSUME NEW e \in Relay!EventIds, Relay!EventBackoffElapses(e)
        PROVE  Holds
    BY <2>4 DEF Relay!EventBackoffElapses, StaleInv, RelayOK
  <2> QED
    BY <2>1, <2>2, <2>3, <2>4 DEF RelayStep
<1>3. RelayOK' /\ CreatedFirst'
  BY <1>1, <1>2 DEF StaleInv, RelayOK, CreatedFirst
<1>4. \A s : PurgePending(s)' = PurgePending(s)
  BY <1>1, <1>2 DEF PurgePending
<1>5. ASSUME Untouched' PROVE FreshPages'
  <2>1. FreshPages
    BY <1>1, <1>5 DEF Untouched, StaleInv
  <2> QED
    BY <1>1, <1>4, <2>1 DEF FreshPages
<1> QED
  BY <1>1, <1>3, <1>5 DEF StaleInv

(* The console and the article page touch the row or the cache.            *)
LEMMA TouchStale ==
    ASSUME StaleInv, TextInv',
           \/ \E slug \in Slugs : Console(slug)
           \/ \E v \in Requesters :
                 StoreArticle(v) \/ \E slug \in Slugs : ReadArticle(v, slug)
    PROVE  StaleInv'
<1> DEFINE Calm == /\ UNCHANGED <<outbox, pc, held, job, request, published,
                                 rpc, current>>
                   /\ views' \in Nat /\ consoleOps' \in Nat
                   /\ \A s \in Slugs : articles'[s] # NoRow => articles[s] # NoRow
<1>0. ASSUME Calm, Untouched' => FreshPages' PROVE StaleInv'
  <2>1. RelayOK' /\ CreatedFirst'
    BY <1>0 DEF StaleInv, RelayOK, CreatedFirst
  <2> QED
    BY <1>0, <2>1 DEF StaleInv
<1> USE DEF queueVars, jobVars, workerVars, relayVars
<1>1. ASSUME NEW slug \in Slugs, ConsolePurge(slug) PROVE StaleInv'
  <2>1. Calm /\ UNCHANGED <<articles, viewing, views, consoleOps>>
    BY <1>1 DEF ConsolePurge, StaleInv
  <2>2. \A s \in Slugs : cache'[s] \in {0, cache[s]}
    BY <1>1 DEF ConsolePurge, CachePurge, StaleInv, TextInv, TextTypes
  <2>3. \A s : PurgePending(s)' = PurgePending(s)
    BY <2>1 DEF PurgePending
  <2>4. ASSUME Untouched' PROVE FreshPages'
    <3>1. FreshPages
      BY <2>1, <2>4 DEF Untouched, StaleInv
    <3> QED
      BY <2>1, <2>2, <2>3, <3>1 DEF FreshPages
  <2> QED
    BY <1>0, <2>1, <2>4
<1>2. ASSUME NEW slug \in Slugs, Console(slug), ~ConsolePurge(slug)
      PROVE  StaleInv'
  <2>1. /\ UNCHANGED <<outbox, pc, held, job, request, published, rpc,
                       current, views>>
        /\ consoleOps' = consoleOps + 1
        /\ articles[slug] # NoRow
        /\ \/ articles' = [articles EXCEPT ![slug] = NoRow]
           \/ \E kind : articles' = [articles EXCEPT ![slug].kind = kind]
    BY <1>2 DEF Console, SetPostStatus, DeletePost
  <2>2. consoleOps' \in Nat /\ consoleOps' # 0 /\ views' \in Nat
    BY <2>1 DEF StaleInv
  <2>3. \A s \in Slugs : articles'[s] # NoRow => articles[s] # NoRow
    BY <2>1 DEF StaleInv, TextInv, TypeInv, QueueTypeOK
  <2> QED
    BY <1>0, <2>1, <2>2, <2>3 DEF Untouched
<1>3. ASSUME NEW v \in Requesters, StoreArticle(v) PROVE StaleInv'
  <2>1. Calm /\ UNCHANGED <<views, consoleOps>>
    BY <1>3 DEF StoreArticle, StaleInv
  <2>2. ~Untouched'
    BY <1>3, <2>1 DEF StoreArticle, Untouched, StaleInv, FreshPages
  <2> QED
    BY <1>0, <2>1, <2>2
<1>4. ASSUME NEW v \in Requesters, NEW slug \in Slugs, ReadArticle(v, slug)
      PROVE  StaleInv'
  <2>1. Calm /\ views' # 0
    BY <1>4 DEF ReadArticle, StaleInv
  <2> QED
    BY <1>0, <2>1 DEF Untouched
<1> QED
  BY <1>1, <1>2, <1>3, <1>4

LEMMA StaleStep ==
    ASSUME StaleInv, [NextPipeline]_pipelineVars
    PROVE  StaleInv'
<1>0. TextInv'
  BY TextStep DEF StaleInv
<1>1. CASE QueueStep
  BY <1>0, <1>1, QueueStale DEF QueueStep, Next, siteReaders, relayVars
<1>2. CASE RelayStep
  BY <1>0, <1>2, PublishStale, RelayStale
<1>3. CASE RestartAll
  <2>1. UNCHANGED outbox
    BY <1>3 DEF RestartAll, Restart, siteVars
  <2> QED
    BY <1>0, <1>3, <2>1, QueueStale DEF RestartAll, Next
<1>4. CASE UNCHANGED pipelineVars
  <2>1. UNCHANGED <<vars, outbox, published, rpc, current, viewing, views,
                    consoleOps>>
    BY <1>4 DEF pipelineVars, vars, siteVars, relayVars, siteReaders
  <2> QED
    BY <1>0, <2>1, QueueStale
<1> QED
  BY <1>0, <1>1, <1>2, <1>3, <1>4, TouchStale DEF NextPipeline

LEMMA StaleInit == InitPipeline => StaleInv
<1> SUFFICES ASSUME InitPipeline PROVE StaleInv
  OBVIOUS
<1>1. TextInv
  BY TextInit
<1>2. /\ published = [e \in Relay!EventIds |-> 0]
      /\ rpc = "idle"
      /\ outbox = <<>>
      /\ Len(outbox) = 0
  BY DEF InitPipeline, Init, Relay!InitRelay
<1>3. RelayOK
  BY <1>2 DEF RelayOK
<1>4. CreatedFirst
  BY DEF InitPipeline, Init, CreatedFirst, NoRequest
<1>5. FreshPages
  BY <1>2 DEF InitPipeline, Init, FreshPages, Created, Rendering
<1> QED
  BY <1>1, <1>3, <1>4, <1>5 DEF InitPipeline, StaleInv

(* For any number of slugs, jobs and events: with one worker, and until a  *)
(* request or the console has touched the cache or the row, a stale page   *)
(* has an invalidation to come, unless it is that of an update applied     *)
(* behind the deletion of its article.                                     *)
THEOREM StalePageHasPurgePendingHolds ==
    PipelineSpec => []StalePageHasPurgePending
<1>1. StaleInv => StalePageHasPurgePending
  <2> SUFFICES ASSUME StaleInv, Cardinality(Workers) = 1, views = 0,
                      consoleOps = 0
               PROVE  StalePageHasPurgePending
    BY DEF StalePageHasPurgePending
  <2>1. PICK w : Workers = {w}
    BY PoolAssumption, FS_Singleton
  <2>2. FreshPages
    BY <2>1 DEF Untouched, StaleInv
  <2> QED
    BY <2>2 DEF FreshPages, Current, StalePageHasPurgePending
<1> QED
  BY <1>1, StaleInit, StaleStep, PTL DEF PipelineSpec

-----------------------------------------------------------------------------
(* The composition adds nothing to the relay but the events of commits.    *)

(* Of the steps of the queue only Restart counts as one.                   *)
LEMMA RestartsByRestart ==
    ASSUME Step
    PROVE  UNCHANGED restarts
  BY StepCounts DEF FaultsGrow

(* A sequence with two elements more.                                      *)
LEMMA TwoMore ==
    ASSUME NEW S, NEW q \in Seq(S), NEW x \in S, NEW y \in S,
           NEW r \in Seq(S),
           Len(r) = Len(q) + 2,
           \A e \in 1..Len(q) : r[e] = q[e],
           r[Len(q) + 1] = x, r[Len(q) + 2] = y
    PROVE  r = q \o <<x, y>>
<1> DEFINE n == Len(q)
           z == <<x, y>>
<1>1. n \in Nat /\ Len(z) = 2 /\ z[1] = x /\ z[2] = y /\ z \in Seq(S)
  BY LenProperties
<1> HIDE DEF z
<1>2. /\ q \o z \in Seq(S)
      /\ Len(q \o z) = n + 2
      /\ \A e \in 1..(n + 2) :
            (q \o z)[e] = IF e <= n THEN q[e] ELSE z[e - n]
  <2>1. /\ q \o z \in Seq(S)
        /\ Len(q \o z) = Len(q) + Len(z)
        /\ \A e \in 1..(Len(q) + Len(z)) :
              (q \o z)[e] = IF e <= Len(q) THEN q[e] ELSE z[e - Len(q)]
    BY <1>1, ConcatProperties, Zenon
  <2> QED
    BY <1>1, <2>1
<1>3. ASSUME NEW e \in 1..(n + 2) PROVE r[e] = (q \o z)[e]
  <2> HIDE DEF n
  <2>0. e \in 1..n \/ e = n + 1 \/ e = n + 2
    BY <1>1, <1>3
  <2>1. CASE e \in 1..n
    <3>1. e <= n
      BY <1>1, <2>1
    <3> QED
      BY <1>2, <2>1, <3>1 DEF n
  <2>2. CASE e = n + 1
    <3>1. ~(e <= n) /\ e - n = 1
      BY <1>1, <2>2
    <3> QED
      BY <1>1, <1>2, <2>2, <3>1 DEF n
  <2>3. CASE e = n + 2
    <3>1. ~(e <= n) /\ e - n = 2
      BY <1>1, <2>3
    <3> QED
      BY <1>1, <1>2, <2>3, <3>1 DEF n
  <2> QED
    BY <2>0, <2>1, <2>2, <2>3
<1>4. r = q \o z
  BY <1>2, <1>3, SeqEqual
<1> QED
  BY <1>4 DEF z

(* The events of a commit, for a relay that looks at types only.           *)
LEMMA CommitEmits ==
    ASSUME TypeInv, NEW w \in Workers, Commit(w), Len(outbox') <= MaxEvents,
           UNCHANGED <<relayVars, restarts>>
    PROVE  \E type \in RelayAlone!ArticleTypes : RelayAlone!Emit(type)
<1> DEFINE n == Len(outbox)
           t == EventType(job[held[w]].op)
           a == [type |-> t]
           c == [type |-> "cache.invalidated"]
           S == [type : RelayAlone!ArticleTypes \cup {"cache.invalidated"}]
<1>1. /\ n \in Nat
      /\ Len(outbox') = n + 2
      /\ \A e \in 1..n : outbox'[e] = outbox[e]
      /\ outbox'[n + 1] = [type |-> t, slug |-> job[held[w]].slug,
                           job |-> held[w]]
      /\ outbox'[n + 2] = [type |-> "cache.invalidated",
                           slug |-> job[held[w]].slug, job |-> held[w]]
  BY CommitAppends
<1>2. t \in RelayAlone!ArticleTypes
  <2>1. job[held[w]].op \in {"insert", "update", "delete"}
    BY HeldRow, RequestFields DEF Commit
  <2> QED
    BY <2>1 DEF EventType, RelayAlone!ArticleTypes
<1> HIDE DEF n, t
<1>3. outbox'[n + 1].type = t /\ outbox'[n + 2].type = "cache.invalidated"
  BY <1>1
<1>4. /\ EventTypesOnly = [e \in 1..n |-> [type |-> outbox[e].type]]
      /\ EventTypesOnly' = [e \in 1..(n + 2) |-> [type |-> outbox'[e].type]]
  BY <1>1 DEF EventTypesOnly, n
<1>5. EventTypesOnly \in Seq(S) /\ Len(EventTypesOnly) = n
  <2>1. \A e \in 1..n : outbox[e] \in Events
    BY DEF TypeInv, QueueTypeOK, n
  <2>2. \A e \in 1..n : [type |-> outbox[e].type] \in S
    BY <2>1 DEF Events, RelayAlone!ArticleTypes
  <2>3. EventTypesOnly \in [1..n -> S]
    BY <1>4, <2>2
  <2> HIDE DEF S
  <2> QED
    BY <1>1, <2>3, SeqDef
<1>6. /\ \A e \in 1..n : EventTypesOnly'[e] = EventTypesOnly[e]
      /\ EventTypesOnly'[n + 1] = a
      /\ EventTypesOnly'[n + 2] = c
  BY <1>1, <1>3, <1>4
<1>7. a \in S /\ c \in S
  BY <1>2
<1> HIDE DEF S, a, c
<1>8. EventTypesOnly' \in Seq(S) /\ Len(EventTypesOnly') = n + 2
  <2>1. ASSUME NEW e \in 1..(n + 2) PROVE EventTypesOnly'[e] \in S
    <3>1. CASE e \in 1..n
      BY <1>5, <1>6, <3>1
    <3>2. CASE e = n + 1 \/ e = n + 2
      BY <1>6, <1>7, <3>2
    <3> QED
      BY <1>1, <3>1, <3>2
  <2>2. EventTypesOnly' \in [1..(n + 2) -> S]
    BY <1>4, <2>1
  <2> QED
    BY <1>1, <2>2, SeqDef
<1>9. EventTypesOnly' = EventTypesOnly \o <<a, c>>
  BY <1>5, <1>6, <1>7, <1>8, TwoMore
<1>10. n + 2 <= MaxEvents
  BY <1>1
<1>11. UNCHANGED RelayAlone!relayVars
  BY DEF relayVars, RelayAlone!relayVars, RelayAlone!rowVars
<1>12. RelayAlone!Emit(t)
  BY <1>5, <1>9, <1>10, <1>11 DEF RelayAlone!Emit, a, c
<1> QED
  BY <1>2, <1>12

(* Both relays take an event for the same.                                 *)
LEMMA SameEvents ==
    ASSUME TypeInv
    PROVE  /\ Len(EventTypesOnly) = Len(outbox)
           /\ RelayAlone!DueEvents = Relay!DueEvents
           /\ \A e \in 1..Len(outbox) :
                 RelayAlone!IsArticle(e) <=> Relay!IsArticle(e)
           /\ RelayAlone!EventIds = Relay!EventIds
<1>1. Len(outbox) \in Nat
  BY LenProperties DEF TypeInv, QueueTypeOK
<1>2. Len(EventTypesOnly) = Len(outbox)
  BY <1>1 DEF EventTypesOnly
<1>3. \A e \in 1..Len(outbox) : EventTypesOnly[e].type = outbox[e].type
  BY DEF EventTypesOnly
<1>4. ASSUME NEW e \in 1..Len(outbox)
      PROVE  RelayAlone!IsArticle(e) <=> Relay!IsArticle(e)
  BY <1>3 DEF RelayAlone!IsArticle, Relay!IsArticle, RelayAlone!ArticleTypes,
     Relay!ArticleTypes
<1> QED
  BY <1>2, <1>4 DEF RelayAlone!DueEvents, Relay!DueEvents,
     RelayAlone!EventIds, Relay!EventIds

(* A step of the relay is one of the relay alone.                          *)
LEMMA RelayAloneSteps ==
    ASSUME StaleInv, RelayStep
    PROVE  RelayAlone!NextRelay
<1>0. TypeInv
  BY DEF StaleInv, TextInv
<1>1. UNCHANGED <<outbox, restarts>>
  BY DEF RelayStep, PublishToSubscribers, queueVars, bounds
<1>2. UNCHANGED EventTypesOnly
  BY <1>1 DEF EventTypesOnly
<1>3. ASSUME Relay!Fetch PROVE RelayAlone!Fetch
  BY <1>0, <1>1, <1>2, <1>3, SameEvents
  DEF Relay!Fetch, RelayAlone!Fetch, Relay!LostWrite, RelayAlone!LostWrite,
      Relay!rowVars, RelayAlone!rowVars
<1>4. ASSUME Relay!MarkKnown \/ Relay!MarkDelivered \/ Relay!GiveUp
      PROVE  RelayAlone!processOne
  BY <1>1, <1>2, <1>4
  DEF Relay!MarkKnown, Relay!MarkDelivered, Relay!GiveUp,
      RelayAlone!MarkKnown, RelayAlone!MarkDelivered, RelayAlone!GiveUp,
      Relay!SetOutboxStatus, RelayAlone!SetOutboxStatus, Relay!Return,
      RelayAlone!Return, Relay!LostWrite, RelayAlone!LostWrite,
      RelayAlone!processOne
<1>5. ASSUME Relay!RecordDelivered \/ Relay!RetryEvent \/ Relay!AppendFlow
      PROVE  RelayAlone!processOne
  BY <1>1, <1>2, <1>5
  DEF Relay!RecordDelivered, Relay!RetryEvent, Relay!AppendFlow,
      RelayAlone!RecordDelivered, RelayAlone!RetryEvent,
      RelayAlone!AppendFlow, Relay!Return, RelayAlone!Return,
      Relay!LostWrite, RelayAlone!LostWrite, RelayAlone!processOne,
      Relay!rowVars, RelayAlone!rowVars
<1>6. ASSUME Relay!Publish PROVE RelayAlone!Publish
  <2>1. current \in 1..Len(outbox)
    BY <1>6 DEF Relay!Publish, StaleInv, RelayOK
  <2>2. RelayAlone!IsArticle(current) <=> Relay!IsArticle(current)
    BY <1>0, <2>1, SameEvents
  <2> QED
    BY <1>1, <1>2, <1>6, <2>2
    DEF Relay!Publish, RelayAlone!Publish, Relay!rowVars, RelayAlone!rowVars
<1>7. ASSUME NEW e \in Relay!EventIds, Relay!EventBackoffElapses(e)
      PROVE  e \in RelayAlone!EventIds /\ RelayAlone!EventBackoffElapses(e)
  BY <1>0, <1>1, <1>2, <1>7, SameEvents
  DEF Relay!EventBackoffElapses, RelayAlone!EventBackoffElapses
<1> QED
  BY <1>3, <1>4, <1>5, <1>6, <1>7
  DEF RelayStep, PublishToSubscribers, RelayAlone!NextRelay,
      RelayAlone!processOne

(* In the composition the relay does what OutboxRelay says it does alone,  *)
(* for any number of workers, producers, requests and events: whatever     *)
(* holds of RelaySpec holds of the relay behind the queue.                 *)
THEOREM RelaysAsAloneHolds == PipelineSpec => RelaysAsAlone
<1>1. InitPipeline => RelayAlone!InitOutbox
  <2> SUFFICES ASSUME InitPipeline PROVE RelayAlone!InitOutbox
    OBVIOUS
  <2>1. outbox = <<>> /\ restarts = 0 /\ Relay!InitRelay
    BY DEF InitPipeline, Init
  <2>2. EventTypesOnly = <<>>
    BY <2>1 DEF EventTypesOnly
  <2> QED
    BY <2>1, <2>2 DEF RelayAlone!InitOutbox, RelayAlone!InitRelay,
       Relay!InitRelay, RelayAlone!EventIds, Relay!EventIds
<1>2. ASSUME StaleInv, [NextPipeline]_pipelineVars
      PROVE  [RelayAlone!NextRelay]_(RelayAlone!outboxVars)
  <2>0. TypeInv
    BY <1>2 DEF StaleInv, TextInv
  <2> DEFINE Same == UNCHANGED <<outbox, relayVars, restarts>>
  <2>1. ASSUME Same PROVE UNCHANGED RelayAlone!outboxVars
    BY <2>1 DEF relayVars, EventTypesOnly, RelayAlone!outboxVars,
       RelayAlone!relayVars, RelayAlone!rowVars
  <2>2. CASE QueueStep
    <3>1. UNCHANGED <<relayVars, restarts>>
      BY <2>2, RestartsByRestart DEF QueueStep
    <3>2. CASE UNCHANGED outbox
      BY <2>1, <3>1, <3>2
    <3>3. CASE ~UNCHANGED outbox
      <4>1. PICK w \in Workers : Commit(w)
        BY <2>0, <2>2, <3>3, StepEffects DEF QueueStep, Next, SiteByCommit
      <4> QED
        BY <2>0, <2>2, <3>1, <4>1, CommitEmits
        DEF QueueStep, RelayAlone!NextRelay
    <3> QED
      BY <3>2, <3>3
  <2>3. CASE RelayStep
    BY <1>2, <2>3, RelayAloneSteps
  <2>4. CASE RestartAll
    <3>1. UNCHANGED EventTypesOnly
      BY <2>4 DEF RestartAll, Restart, siteVars, EventTypesOnly
    <3> QED
      BY <2>4, <3>1 DEF RestartAll, Restart, RelayAlone!Crash,
         RelayAlone!Return, RelayAlone!rowVars, RelayAlone!NextRelay
  <2>5. ASSUME NEW slug \in Slugs, Console(slug) PROVE Same
    BY <2>5 DEF Console, SetPostStatus, DeletePost, ConsolePurge, queueVars,
       bounds
  <2>6. ASSUME NEW v \in Requesters,
               StoreArticle(v) \/ \E slug \in Slugs : ReadArticle(v, slug)
        PROVE  Same
    BY <2>6 DEF StoreArticle, ReadArticle, queueVars, bounds
  <2>7. CASE UNCHANGED pipelineVars
    BY <2>1, <2>7 DEF pipelineVars, vars, siteVars, bounds
  <2> HIDE DEF Same
  <2> QED
    BY <1>2, <2>1, <2>2, <2>3, <2>4, <2>5, <2>6, <2>7 DEF NextPipeline
<1>3. InitPipeline => StaleInv
  BY StaleInit
<1> QED
  BY <1>1, <1>2, <1>3, StaleStep, PTL
  DEF PipelineSpec, RelaysAsAlone, RelayAlone!RelaySpec

-----------------------------------------------------------------------------
(* Nor does it take anything from the queue: the relay, the console and    *)
(* the article page leave its tables and its workers alone, and of the     *)
(* articles the console alone changes what the queue wrote.                *)
Beside ==
    /\ UNCHANGED <<job, status, retries, returned, outbox, pc, held, request,
                   faults>>
    /\ UNCHANGED articles \/ consoleOps' # 0

LEMMA QueueOrBeside ==
    ASSUME consoleOps \in Nat, [NextPipeline]_pipelineVars
    PROVE  ([Next]_vars /\ UNCHANGED consoleOps) \/ Beside
<1> USE DEF queueVars, jobVars, siteVars, workerVars, bounds
<1>1. CASE QueueStep \/ RestartAll
  BY <1>1 DEF QueueStep, RestartAll, Next, siteReaders
<1>2. CASE RelayStep
  BY <1>2 DEF RelayStep, PublishToSubscribers, Beside
<1>3. ASSUME NEW slug \in Slugs, Console(slug) PROVE Beside
  <2>1. ASSUME NEW kind, SetPostStatus(slug, kind) PROVE Beside
    BY <2>1 DEF SetPostStatus, Beside
  <2>2. CASE DeletePost(slug)
    BY <2>2 DEF DeletePost, Beside
  <2>3. CASE ConsolePurge(slug)
    BY <2>3 DEF ConsolePurge, Beside
  <2> QED
    BY <1>3, <2>1, <2>2, <2>3 DEF Console
<1>4. ASSUME NEW v \in Requesters,
             StoreArticle(v) \/ \E slug \in Slugs : ReadArticle(v, slug)
      PROVE  Beside
  BY <1>4 DEF StoreArticle, ReadArticle, Beside
<1>5. CASE UNCHANGED pipelineVars
  BY <1>5 DEF pipelineVars, vars, Beside
<1> QED
  BY <1>1, <1>2, <1>3, <1>4, <1>5 DEF NextPipeline

LEMMA ConsoleCounts ==
    ASSUME consoleOps \in Nat, [NextPipeline]_pipelineVars
    PROVE  UNCHANGED consoleOps \/ consoleOps' = consoleOps + 1
<1>1. ASSUME NEW slug \in Slugs, Console(slug)
      PROVE  UNCHANGED consoleOps \/ consoleOps' = consoleOps + 1
  BY <1>1 DEF Console, SetPostStatus, DeletePost, ConsolePurge
<1>2. ASSUME NEW v \in Requesters,
             StoreArticle(v) \/ \E slug \in Slugs : ReadArticle(v, slug)
      PROVE  UNCHANGED consoleOps
  BY <1>2 DEF StoreArticle, ReadArticle
<1> QED
  BY <1>1, <1>2 DEF NextPipeline, QueueStep, RelayStep, PublishToSubscribers,
     RestartAll, siteReaders, pipelineVars

(* What the proofs about the queue alone carry through its steps.          *)
QueuePromises ==
    /\ CommitInv
    /\ RetryInv
    /\ FreshBacklogBounded
    /\ consoleOps \in Nat
    /\ consoleOps = 0 => ArticlesFollowEvents

LEMMA PromisesStep ==
    ASSUME TextInv, TextInv', QueuePromises, consoleOps' \in Nat,
           [NextPipeline]_pipelineVars
    PROVE  QueuePromises'
<1>0. TypeInv /\ TypeInv'
  BY DEF TextInv
<1>1. CASE [Next]_vars /\ UNCHANGED consoleOps
  <2>1. CommitInv' /\ RetryInv' /\ FreshBacklogBounded'
    BY <1>0, <1>1, CommitStep, StepRetries, RetryPreserved, BacklogStep
    DEF QueuePromises
  <2>2. ASSUME consoleOps' = 0 PROVE ArticlesFollowEvents'
    BY <1>0, <1>1, <2>2, StepEffects, StoryStep DEF QueuePromises
  <2> QED
    BY <2>1, <2>2 DEF QueuePromises
<1>2. CASE Beside
  <2>1. CommitInv'
    BY <1>2 DEF Beside, QueuePromises, CommitInv, CompletedWasCommitted,
       Committed
  <2>2. RetryInv'
    BY <1>2 DEF Beside, QueuePromises, RetryInv, RetriesBounded, RetryingIn
  <2>3. FreshBacklogBounded'
    BY <1>2 DEF Beside, QueuePromises, FreshBacklogBounded, Pending, Admitted
  <2>4. ASSUME consoleOps' = 0 PROVE ArticlesFollowEvents'
    <3>1. consoleOps = 0
      BY <2>4, ConsoleCounts DEF QueuePromises
    <3> QED
      BY <1>2, <2>4, <3>1 DEF Beside, QueuePromises, ArticlesFollowEvents
  <2> QED
    BY <2>1, <2>2, <2>3, <2>4 DEF QueuePromises
<1> QED
  BY <1>1, <1>2, QueueOrBeside DEF QueuePromises

(* The queue keeps its promises in the composition as well: completed jobs *)
(* were committed, retries and the fresh backlog stay within their bounds, *)
(* and until the console changes a row itself the outbox tells the whole   *)
(* story of the articles.                                                  *)
THEOREM QueueKeepsItsPromises ==
    PipelineSpec => [](/\ CompletedWasCommitted
                       /\ RetriesBounded
                       /\ FreshBacklogBounded
                       /\ consoleOps = 0 => ArticlesFollowEvents)
<1>1. InitPipeline => QueuePromises
  BY CommitInit, RetryInit, BacklogInit
  DEF InitPipeline, Init, QueuePromises, ArticlesFollowEvents
<1>2. StaleInv => TextInv /\ consoleOps \in Nat
  BY DEF StaleInv
<1>3. QueuePromises => /\ CompletedWasCommitted
                       /\ RetriesBounded
                       /\ FreshBacklogBounded
                       /\ consoleOps = 0 => ArticlesFollowEvents
  BY DEF QueuePromises, CommitInv, RetryInv
<1>4. StaleInv /\ QueuePromises /\ [NextPipeline]_pipelineVars
          => StaleInv' /\ QueuePromises'
  <2> SUFFICES ASSUME StaleInv, QueuePromises, [NextPipeline]_pipelineVars
               PROVE  StaleInv' /\ QueuePromises'
    OBVIOUS
  <2>1. StaleInv'
    BY StaleStep
  <2>2. TextInv' /\ consoleOps' \in Nat
    BY <2>1 DEF StaleInv
  <2> QED
    BY <1>2, <2>1, <2>2, PromisesStep
<1> QED
  BY <1>1, <1>3, <1>4, StaleInit, PTL DEF PipelineSpec

=============================================================================
