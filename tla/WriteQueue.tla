----------------------------- MODULE WriteQueue -----------------------------
(***************************************************************************)
(* The durable write queue (internal/queue): API calls check an article    *)
(* and insert a row of write_jobs, a pool of workers applies the rows, and *)
(* a reaper, a retention sweep, two replay endpoints and the boot sequence *)
(* change rows under the workers' feet.                                    *)
(*                                                                         *)
(* Every SQL statement is one step: the process has a single connection    *)
(* that writes, and nothing but the article transaction spans statements.  *)
(* The status updates of the worker name the row by its id alone, so each  *)
(* overwrites whatever became of the row since the worker read it.         *)
(***************************************************************************)
EXTENDS Integers, Sequences, FiniteSets

CONSTANTS
    Workers,           \* goroutines of StartWorkerPool
    Producers,         \* concurrent API calls that enqueue
    Slugs,             \* article slugs
    Offered,           \* the requests the producers of an instance make
    OfferedModes,      \* the modes an instance goes through
    MaxRetries,        \* failures of a job before it is dead (3 in the code)
    HardLimit,         \* QUEUE_HARD_LIMIT, 0 for none
    MaxReplayCount,    \* MAX_REPLAY_COUNT
    ReplayBatchLimit,  \* REPLAY_BATCH_LIMIT
    MaxAge,            \* bound on the age of a row, 2 for no bound
    MaxJobs,           \* bound on the rows of write_jobs
    MaxReplays,        \* bound on the replays of one row
    MaxFaults,         \* bound on failing reads, writes and transactions
    MaxEarlyResets,    \* bound on reaper runs that hit a job in progress
    MaxRestarts        \* bound on crashes

VARIABLES
    mode,        \* "open", or "refused": the mode refuses content writes
    job,         \* write_jobs: op and article_json of each row
    status,      \* write_jobs.status, "absent" before and "pruned" after
    retries,     \* write_jobs.retries
    replays,     \* write_jobs.replay_count
    waiting,     \* rows whose retry_at lies in the future
    age,         \* 0 young, 1 older than 5 minutes, 2 past its retention
    articles,    \* the articles table
    outbox,      \* event_outbox, in id order
    cache,       \* posts/<slug>.html: the job whose HTML it holds, or none
    pc, held,    \* per worker: where processOneJob stands, and with which row
    request,     \* per producer: the request Enqueue let through
    sweep,       \* HandleQueueReplay: the ids it read and has not updated
    returned,    \* history: rows that became pending again
    faults, earlyResets, restarts

jobVars    == <<job, status, retries, replays, waiting, age, returned>>
siteVars   == <<articles, outbox, cache>>
workerVars == <<pc, held>>
bounds     == <<faults, earlyResets, restarts>>
vars == <<mode, jobVars, siteVars, workerVars, request, sweep, bounds>>

Jobs  == 1..MaxJobs
Kinds == {"published", "draft", "page"}

(* What a caller of Writer.Enqueue asks for.  "other" is a row that the    *)
(* worker cannot parse or whose op it does not know.                       *)
Requests ==
    [op : {"insert"}, slug : Slugs, kind : Kinds]
        \cup [op : {"update", "delete", "other"}, slug : Slugs,
              kind : {"published"}]

NoRequest == [op |-> "none", slug |-> "none", kind |-> "none"]

(* A row of articles: its status and is_page, and the job whose text it    *)
(* holds.                                                                  *)
Rows  == [kind : Kinds, by : Jobs]
NoRow == [kind |-> "none", by |-> 0]

Events == [type : {"article.created", "article.updated", "article.deleted",
                   "cache.invalidated"},
           slug : Slugs, job : Jobs]

Live     == {"pending", "processing"}
Settled  == {"completed", "dead_letter", "quarantined", "pruned"}
Statuses == {"absent"} \cup Live \cup Settled

(* Where a worker stands in processOneJob.                                 *)
Labels == {"idle", "picked", "claimed", "applied", "rendering", "done",
           "failed", "retrying", "giving-up"}

ASSUME OfferedAssumption == /\ Offered \subseteq Requests
                            /\ OfferedModes \subseteq {"open", "refused"}
ASSUME LimitsAssumption ==
    /\ MaxRetries \in Nat \ {0}
    /\ HardLimit \in Nat
    /\ MaxReplayCount \in Nat
    /\ ReplayBatchLimit \in Nat
ASSUME PoolAssumption == IsFiniteSet(Workers) /\ IsFiniteSet(Producers)
ASSUME WorkBounds ==
    /\ MaxAge \in 0..2
    /\ MaxJobs \in Nat
    /\ MaxReplays \in Nat
    /\ MaxFaults \in Nat
    /\ MaxEarlyResets \in Nat
    /\ MaxRestarts \in Nat

Init ==
    /\ mode = "open"
    /\ job = [j \in Jobs |-> NoRequest]
    /\ status = [j \in Jobs |-> "absent"]
    /\ retries = [j \in Jobs |-> 0]
    /\ replays = [j \in Jobs |-> 0]
    /\ waiting = {}
    /\ age = [j \in Jobs |-> 0]
    /\ articles = [s \in Slugs |-> NoRow]
    /\ outbox = <<>>
    /\ cache = [s \in Slugs |-> 0]
    /\ pc = [w \in Workers |-> "idle"]
    /\ held = [w \in Workers |-> 0]
    /\ request = [p \in Producers |-> NoRequest]
    /\ sweep = [quarantine |-> {}, replay |-> {}]
    /\ returned = {}
    /\ faults = 0
    /\ earlyResets = 0
    /\ restarts = 0

-----------------------------------------------------------------------------
Fault == faults < MaxFaults /\ faults' = faults + 1

Pending  == {j \in Jobs : status[j] = "pending"}
Absent   == {j \in Jobs : status[j] = "absent"}
Admitted == {p \in Producers : request[p] # NoRequest}

(* UPDATE write_jobs SET status=s WHERE id=j: no effect on a deleted row.  *)
WithStatus(j, s) ==
    IF status[j] = "pruned" THEN status ELSE [status EXCEPT ![j] = s]

(* The worker ignores the error of its status updates.                     *)
SetStatus(j, s) ==
    \/ status' = WithStatus(j, s) /\ UNCHANGED faults
    \/ Fault /\ UNCHANGED status

Goto(w, label) == pc' = [pc EXCEPT ![w] = label]

(* The worker returns from processOneJob.                                  *)
Finish(w) == Goto(w, "idle") /\ held' = [held EXCEPT ![w] = 0]

-----------------------------------------------------------------------------
(* ArticleService.create, Update and Delete look the slug up and refuse a  *)
(* duplicate or a missing article.                                         *)
Acceptable(r) ==
    /\ r.op = "insert" => articles[r.slug] = NoRow
    /\ r.op \in {"update", "delete"} => articles[r.slug] # NoRow

(* Enqueue up to the INSERT with the depth compared one too late.          *)
SubmitOffByOne(p, r) ==
    /\ request[p] = NoRequest
    /\ Cardinality(Admitted) < Cardinality(Absent)
    /\ Acceptable(r)
    /\ mode # "refused"
    /\ HardLimit > 0 => Cardinality(Pending) <= HardLimit
    /\ UNCHANGED faults
    /\ request' = [request EXCEPT ![p] = r]
    /\ UNCHANGED <<mode, jobVars, siteVars, workerVars, sweep, earlyResets,
                   restarts>>

(* The reads of a request: the slug, then the mode, then the depth of the  *)
(* queue, whose failure counts as room.  The refusals change nothing.      *)
Submit(p, r) ==
    /\ request[p] = NoRequest
    /\ Cardinality(Admitted) < Cardinality(Absent)
    /\ Acceptable(r)
    /\ mode # "refused"
    /\ \/ /\ HardLimit > 0 => Cardinality(Pending) < HardLimit
          /\ UNCHANGED faults
       \/ HardLimit > 0 /\ Cardinality(Pending) >= HardLimit /\ Fault
    /\ request' = [request EXCEPT ![p] = r]
    /\ UNCHANGED <<mode, jobVars, siteVars, workerVars, sweep, earlyResets,
                   restarts>>

(* Enqueue's INSERT: AUTOINCREMENT gives the next id.  An error goes back  *)
(* to the caller.                                                          *)
InsertJob(p) ==
    /\ request[p] # NoRequest
    /\ \/ /\ \E j \in Absent :
                /\ \A i \in Absent : j <= i
                /\ job' = [job EXCEPT ![j] = request[p]]
                /\ status' = [status EXCEPT ![j] = "pending"]
          /\ UNCHANGED faults
       \/ Fault /\ UNCHANGED <<job, status>>
    /\ request' = [request EXCEPT ![p] = NoRequest]
    /\ UNCHANGED <<mode, retries, replays, waiting, age, returned, siteVars,
                   workerVars, sweep, earlyResets, restarts>>

-----------------------------------------------------------------------------
(* processOneJob, the mode check and the SELECT: the oldest pending row    *)
(* that is due.  Rows of one second come in id order out of the index on   *)
(* (status, created_at).                                                   *)
Due == Pending \ waiting

(* A worker that does not look at the mode.                                *)
PickInAnyMode(w) ==
    /\ pc[w] = "idle"
    /\ \E j \in Due :
          /\ \A i \in Due : j <= i
          /\ held' = [held EXCEPT ![w] = j]
    /\ Goto(w, "picked")
    /\ UNCHANGED <<mode, jobVars, siteVars, request, sweep, bounds>>

Pick(w) ==
    /\ pc[w] = "idle"
    /\ mode # "refused"
    /\ \E j \in Due :
          /\ \A i \in Due : j <= i
          /\ held' = [held EXCEPT ![w] = j]
    /\ Goto(w, "picked")
    /\ UNCHANGED <<mode, jobVars, siteVars, request, sweep, bounds>>

(* The claim: an UPDATE by id alone, so two workers may claim one row.     *)
Claim(w) ==
    /\ pc[w] = "picked"
    /\ SetStatus(held[w], "processing")
    /\ Goto(w, "claimed")
    /\ UNCHANGED <<mode, job, retries, replays, waiting, age, returned,
                   siteVars, held, request, sweep, earlyResets, restarts>>

(* parse_error and unknown_op: dead at once, without retries.              *)
Reject(w) ==
    /\ pc[w] = "claimed"
    /\ job[held[w]].op = "other"
    /\ SetStatus(held[w], "dead_letter")
    /\ Finish(w)
    /\ UNCHANGED <<mode, job, retries, replays, waiting, age, returned,
                   siteVars, request, sweep, earlyResets, restarts>>

(* The UNIQUE constraint on articles.slug.                                 *)
Conflict(r) == r.op = "insert" /\ articles[r.slug] # NoRow

(* The row the transaction leaves: an update keeps status and is_page, and *)
(* touches no row when there is none.                                      *)
Applied(r, j) ==
    CASE r.op = "insert" -> [kind |-> r.kind, by |-> j]
      [] r.op = "update" -> IF articles[r.slug] = NoRow THEN NoRow
                            ELSE [kind |-> articles[r.slug].kind, by |-> j]
      [] r.op = "delete" -> NoRow

EventType(op) ==
    CASE op = "insert" -> "article.created"
      [] op = "update" -> "article.updated"
      [] op = "delete" -> "article.deleted"

writeOutboxEvent(q, type, slug, j) ==
    Append(q, [type |-> type, slug |-> slug, job |-> j])

(* A transaction that leaves the outbox for later.                         *)
CommitNoEvent(w) ==
    LET j == held[w]
        r == job[j]
    IN  /\ pc[w] = "claimed"
        /\ r.op # "other"
        /\ ~Conflict(r)
        /\ articles' = [articles EXCEPT ![r.slug] = Applied(r, j)]
        /\ Goto(w, IF r.op = "delete" THEN "done" ELSE "applied")
        /\ UNCHANGED <<mode, jobVars, outbox, cache, held, request, sweep,
                       bounds>>

(* RunInTx: the article and its two events in one transaction.             *)
Commit(w) ==
    LET j == held[w]
        r == job[j]
    IN  /\ pc[w] = "claimed"
        /\ r.op # "other"
        /\ ~Conflict(r)
        /\ articles' = [articles EXCEPT ![r.slug] = Applied(r, j)]
        /\ outbox' = writeOutboxEvent(
                        writeOutboxEvent(outbox, EventType(r.op), r.slug, j),
                        "cache.invalidated", r.slug, j)
        /\ Goto(w, IF r.op = "delete" THEN "done" ELSE "applied")
        /\ UNCHANGED <<mode, jobVars, cache, held, request, sweep, bounds>>

(* An article written outside the transaction that fails.                  *)
RollbackKeepsRow(w) ==
    LET r == job[held[w]]
    IN  /\ pc[w] = "claimed"
        /\ r.op # "other"
        /\ ~Conflict(r) /\ Fault
        /\ articles' = [articles EXCEPT ![r.slug] = Applied(r, held[w])]
        /\ Goto(w, "failed")
        /\ UNCHANGED <<mode, jobVars, outbox, cache, held, request, sweep,
                       earlyResets, restarts>>

(* RunInTx fails and leaves nothing behind.                                *)
Rollback(w) ==
    LET r == job[held[w]]
    IN  /\ pc[w] = "claimed"
        /\ r.op # "other"
        /\ \/ Conflict(r) /\ UNCHANGED faults
           \/ ~Conflict(r) /\ Fault
        /\ Goto(w, "failed")
        /\ UNCHANGED <<mode, jobVars, siteVars, held, request, sweep,
                       earlyResets, restarts>>

-----------------------------------------------------------------------------
(* One retry too many.                                                     *)
ReadRetriesOffByOne(w) ==
    /\ pc[w] = "failed"
    /\ Goto(w, IF retries[held[w]] <= MaxRetries THEN "retrying"
               ELSE "giving-up")
    /\ UNCHANGED <<mode, jobVars, siteVars, held, request, sweep, bounds>>

(* The failure path reads retries first; a failed read, or a deleted row,  *)
(* counts as zero.                                                         *)
ReadRetries(w) ==
    /\ pc[w] = "failed"
    /\ \/ /\ Goto(w, IF \/ retries[held[w]] < MaxRetries
                        \/ status[held[w]] = "pruned"
                     THEN "retrying" ELSE "giving-up")
          /\ UNCHANGED faults
       \/ Goto(w, "retrying") /\ Fault
    /\ UNCHANGED <<mode, jobVars, siteVars, held, request, sweep, earlyResets,
                   restarts>>

Requeue(w) ==
    LET j == held[w]
    IN  /\ pc[w] = "retrying"
        /\ \/ /\ status[j] # "pruned"
              /\ status' = [status EXCEPT ![j] = "pending"]
              /\ retries' = [retries EXCEPT ![j] = @ + 1]
              /\ waiting' = waiting \cup {j}
              /\ returned' = returned \cup {j}
              /\ UNCHANGED faults
           \/ /\ status[j] = "pruned"
              /\ UNCHANGED <<status, retries, waiting, returned, faults>>
           \/ /\ Fault
              /\ UNCHANGED <<status, retries, waiting, returned>>
        /\ Finish(w)
        /\ UNCHANGED <<mode, job, replays, age, siteVars, request, sweep,
                       earlyResets, restarts>>

DeadLetter(w) ==
    /\ pc[w] = "giving-up"
    /\ SetStatus(held[w], "dead_letter")
    /\ Finish(w)
    /\ UNCHANGED <<mode, job, retries, replays, waiting, age, returned,
                   siteVars, request, sweep, earlyResets, restarts>>

-----------------------------------------------------------------------------
(* After an insert or an update the worker reads the row's status back; a  *)
(* missing row, or a failed read, counts as published.                     *)
ReadRow(w) ==
    LET row == articles[job[held[w]].slug]
    IN  /\ pc[w] = "applied"
        /\ \/ /\ Goto(w, IF row.kind \in {"none", "published"} THEN "rendering"
                         ELSE "done")
              /\ UNCHANGED faults
           \/ row.kind \in {"draft", "page"} /\ Goto(w, "rendering") /\ Fault
        /\ UNCHANGED <<mode, jobVars, siteVars, held, request, sweep,
                       earlyResets, restarts>>

(* RenderFn on the job's own article, then the cache file.                 *)
Render(w) ==
    /\ pc[w] = "rendering"
    /\ \/ /\ cache' = [cache EXCEPT ![job[held[w]].slug] = held[w]]
          /\ UNCHANGED faults
       \/ Fault /\ UNCHANGED cache
    /\ Goto(w, "done")
    /\ UNCHANGED <<mode, jobVars, articles, outbox, held, request, sweep,
                   earlyResets, restarts>>

Complete(w) ==
    /\ pc[w] = "done"
    /\ SetStatus(held[w], "completed")
    /\ Finish(w)
    /\ UNCHANGED <<mode, job, retries, replays, waiting, age, returned,
                   siteVars, request, sweep, earlyResets, restarts>>

-----------------------------------------------------------------------------
(* StartStuckJobReaper: the age is counted from created_at, so a job that  *)
(* waited its five minutes in the queue is reset while it is in progress.  *)
Stuck == {j \in Jobs : status[j] = "processing" /\ age[j] > 0}

(* A reaper that looks for a status no worker leaves behind.               *)
ReapFailed ==
    /\ \E j \in Jobs : status[j] = "failed"
    /\ UNCHANGED vars

Reap ==
    /\ Stuck # {}
    /\ IF \E w \in Workers : held[w] \in Stuck
       THEN earlyResets < MaxEarlyResets /\ earlyResets' = earlyResets + 1
       ELSE UNCHANGED earlyResets
    /\ status' = [j \in Jobs |-> IF j \in Stuck THEN "pending" ELSE status[j]]
    /\ returned' = returned \cup Stuck
    /\ UNCHANGED <<mode, job, retries, replays, waiting, age, siteVars,
                   workerVars, request, sweep, faults, restarts>>

(* PruneWriteJobsOnce: settled rows past their retention are deleted.      *)
Expired == {j \in Jobs : age[j] = 2 /\ status[j] \in Settled \ {"pruned"}}

Prune ==
    /\ Expired # {}
    /\ status' = [j \in Jobs |-> IF j \in Expired THEN "pruned" ELSE status[j]]
    /\ UNCHANGED <<mode, job, retries, replays, waiting, age, returned,
                   siteVars, workerVars, request, sweep, bounds>>

(* retry_at passes, and created_at recedes, for older rows first.          *)
BackoffElapses(j) ==
    /\ j \in waiting
    /\ waiting' = waiting \ {j}
    /\ UNCHANGED <<mode, job, status, retries, replays, age, returned,
                   siteVars, workerVars, request, sweep, bounds>>

GrowOlder(j) ==
    /\ status[j] # "absent"
    /\ age[j] < MaxAge
    /\ \A i \in 1..(j - 1) : age[i] > age[j]
    /\ age' = [age EXCEPT ![j] = @ + 1]
    /\ UNCHANGED <<mode, job, status, retries, replays, waiting, returned,
                   siteVars, workerVars, request, sweep, bounds>>

-----------------------------------------------------------------------------
Dead == {j \in Jobs : status[j] = "dead_letter"}

(* UPDATE ... SET status='pending',retries=0,retry_at=NULL,                *)
(* replay_count=replay_count+1 WHERE id=j AND status='dead_letter'.        *)
ReplayRow(j) ==
    IF j \in Dead
    THEN /\ replays[j] < MaxReplays
         /\ status' = [status EXCEPT ![j] = "pending"]
         /\ retries' = [retries EXCEPT ![j] = 0]
         /\ replays' = [replays EXCEPT ![j] = @ + 1]
         /\ waiting' = waiting \ {j}
         /\ returned' = returned \cup {j}
    ELSE UNCHANGED <<status, retries, replays, waiting, returned>>

(* handleReplayJob: the console's button on one dead letter.               *)
ReplayJob(j) ==
    /\ j \in Dead
    /\ ReplayRow(j)
    /\ UNCHANGED <<mode, job, age, siteVars, workerVars, request, sweep,
                   bounds>>

(* SELECT ... LIMIT n: any n of the set, or all of it when it is smaller.  *)
SomeOf(S, n) ==
    {T \in SUBSET S : Cardinality(T) = n \/ (T = S /\ Cardinality(S) < n)}

(* HandleQueueReplay reads the dead letters, parts the ones at the limit   *)
(* from at most a batch of the others ...                                  *)
ReplaySweep ==
    /\ sweep = [quarantine |-> {}, replay |-> {}]
    /\ Dead # {}
    /\ \E read \in SomeOf(Dead, ReplayBatchLimit + 50) :
          LET poison == {j \in read : replays[j] >= MaxReplayCount}
          IN  \E batch \in SomeOf(read \ poison, ReplayBatchLimit) :
                 sweep' = [quarantine |-> poison, replay |-> batch]
    /\ UNCHANGED <<mode, jobVars, siteVars, workerVars, request, bounds>>

(* ... quarantines the first, whatever became of them meanwhile ...        *)
QuarantineRow(j) ==
    /\ j \in sweep.quarantine
    /\ SetStatus(j, "quarantined")
    /\ sweep' = [sweep EXCEPT !.quarantine = @ \ {j}]
    /\ UNCHANGED <<mode, job, retries, replays, waiting, age, returned,
                   siteVars, workerVars, request, earlyResets, restarts>>

(* ... and replays the batch, an error counting as not replayed.           *)
ReplayBatchRow(j) ==
    /\ sweep.quarantine = {}
    /\ j \in sweep.replay
    /\ \/ ReplayRow(j) /\ UNCHANGED faults
       \/ Fault /\ UNCHANGED <<status, retries, replays, waiting, returned>>
    /\ sweep' = [sweep EXCEPT !.replay = @ \ {j}]
    /\ UNCHANGED <<mode, job, age, siteVars, workerVars, request,
                   earlyResets, restarts>>

-----------------------------------------------------------------------------
(* Another part of the process changes the system mode (SystemMode).       *)
SetMode(m) ==
    /\ mode # m
    /\ mode' = m
    /\ UNCHANGED <<jobVars, siteVars, workerVars, request, sweep, bounds>>

(* The process dies and boots: main makes every row in processing pending  *)
(* again before the workers start, and goes on if that fails.              *)
Processing == {j \in Jobs : status[j] = "processing"}

Restart ==
    /\ restarts < MaxRestarts
    /\ restarts' = restarts + 1
    /\ \/ /\ status' = [j \in Jobs |->
                           IF j \in Processing THEN "pending" ELSE status[j]]
          /\ returned' = returned \cup Processing
          /\ UNCHANGED faults
       \/ Fault /\ UNCHANGED <<status, returned>>
    /\ pc' = [w \in Workers |-> "idle"]
    /\ held' = [w \in Workers |-> 0]
    /\ request' = [p \in Producers |-> NoRequest]
    /\ sweep' = [quarantine |-> {}, replay |-> {}]
    /\ UNCHANGED <<mode, job, retries, replays, waiting, age, siteVars,
                   earlyResets>>

Work(w) ==
    \/ Pick(w) \/ Claim(w) \/ Reject(w) \/ Commit(w) \/ Rollback(w)
    \/ ReadRetries(w) \/ Requeue(w) \/ DeadLetter(w)
    \/ ReadRow(w) \/ Render(w) \/ Complete(w)

Step ==
    \/ \E p \in Producers, r \in Offered : Submit(p, r)
    \/ \E p \in Producers : InsertJob(p)
    \/ \E w \in Workers : Work(w)
    \/ Reap
    \/ Prune
    \/ \E j \in Jobs : BackoffElapses(j) \/ GrowOlder(j)
    \/ \E j \in Jobs : ReplayJob(j) \/ QuarantineRow(j) \/ ReplayBatchRow(j)
    \/ ReplaySweep
    \/ \E m \in OfferedModes : SetMode(m)

Next == Step \/ Restart

Spec == Init /\ [][Next]_vars

(* Workers tick every 100 ms, the reaper every minute, and time passes.    *)
(* API calls, replays, mode changes and crashes may or may not come.       *)
Fairness ==
    /\ \A w \in Workers : WF_vars(Work(w))
    /\ WF_vars(Reap)
    /\ \A j \in Jobs : WF_vars(BackoffElapses(j)) /\ WF_vars(GrowOlder(j))

FairSpec == Spec /\ Fairness

-----------------------------------------------------------------------------
(* The types of all but the page cache, which others write as well.         *)
QueueTypeOK ==
    /\ mode \in {"open", "refused"}
    /\ job \in [Jobs -> Requests \cup {NoRequest}]
    /\ status \in [Jobs -> Statuses]
    /\ retries \in [Jobs -> Nat]
    /\ replays \in [Jobs -> Nat]
    /\ waiting \in SUBSET Jobs
    /\ age \in [Jobs -> 0..2]
    /\ articles \in [Slugs -> Rows \cup {NoRow}]
    /\ outbox \in Seq(Events)
    /\ pc \in [Workers -> Labels]
    /\ held \in [Workers -> 0..MaxJobs]
    /\ request \in [Producers -> Requests \cup {NoRequest}]
    /\ sweep \in [quarantine : SUBSET Jobs, replay : SUBSET Jobs]
    /\ returned \in SUBSET Jobs
    /\ faults \in Nat
    /\ earlyResets \in Nat
    /\ restarts \in Nat

TypeOK == QueueTypeOK /\ cache \in [Slugs -> 0..MaxJobs]

(* A row that reads "completed" was applied: its events are in the outbox, *)
(* whatever other workers, the reaper, replays or a crash did to the row   *)
(* (queue.go: only the path behind a committed RunInTx writes it).         *)
CompletedWasCommitted ==
    \A j \in Jobs : status[j] = "completed" =>
        \E i \in 1..Len(outbox) : outbox[i].job = j

(* The outbox tells the whole story of the articles table: a row holds the *)
(* text of the last article event of its slug, and where there is none     *)
(* every creation is followed by a deletion.  Two workers on one job, and  *)
(* failed transactions, must not part the two (queue.go: the article and   *)
(* its events share a transaction).                                        *)
ArticlesFollowEvents ==
    \A s \in Slugs :
        IF articles[s] # NoRow
        THEN \E i \in 1..Len(outbox) :
                /\ outbox[i].slug = s
                /\ outbox[i].type \in {"article.created", "article.updated"}
                /\ outbox[i].job = articles[s].by
                /\ \A k \in (i + 1)..Len(outbox) :
                      outbox[k].slug = s => outbox[k].type = "cache.invalidated"
        ELSE \A i \in 1..Len(outbox) :
                (outbox[i].slug = s /\ outbox[i].type = "article.created")
                    => \E k \in (i + 1)..Len(outbox) :
                          /\ outbox[k].slug = s
                          /\ outbox[k].type = "article.deleted"

(* The worker compares retries with the limit in one statement and adds to *)
(* it in another, so workers on the same job can each add one past the     *)
(* limit; no more than that ever happens, failed reads of the counter      *)
(* aside (queue.go: the failure path).                                     *)
RetriesBounded ==
    \A j \in Jobs :
        retries[j] <= MaxRetries + Cardinality(Workers) - 1 + faults

(* Enqueue compares the depth with the limit in one statement and inserts  *)
(* in another, so concurrent calls can pass the limit together: rows that  *)
(* are pending for the first time exceed it by at most the calls that ran  *)
(* at once, failed reads of the depth aside (writer.go, ADR-0055).         *)
FreshBacklogBounded ==
    HardLimit > 0 =>
        Cardinality(Pending \ returned) + Cardinality(Admitted)
            <= HardLimit + Cardinality(Producers) - 1 + faults

(* Once the mode stays open every queued job is completed or reaches the   *)
(* dead letters, although claims, completions and requeues may be lost and *)
(* the process may crash (queue.go: "self-healing via StartStuckJobReaper  *)
(* ... and the retry/backoff path").                                       *)
EveryJobSettles ==
    <>[](mode = "open") =>
        \A j \in Jobs : (status[j] \in Live) ~> (status[j] \in Settled)
=============================================================================
