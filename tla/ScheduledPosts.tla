--------------------------- MODULE ScheduledPosts ---------------------------
(***************************************************************************)
(* Scheduled publishing (internal/scheduler, publishDuePosts) as one more  *)
(* producer of the write queue: staged posts lie in scheduled_posts until  *)
(* they are due, and a ticker enqueues each through ArticleService.Create  *)
(* and then writes what became of it.  The row is not claimed in between,  *)
(* and its last update names it by id alone.                               *)
(***************************************************************************)
EXTENDS WriteQueue

CONSTANTS
    Posts,       \* rows of scheduled_posts
    SlugOf,      \* the slug each was staged with
    Ticker       \* the producer that stands for the ticker's goroutine

VARIABLES
    posts,       \* scheduled_posts.status, "due" once publish_at has come
    round,       \* publishDuePosts: the rows it read, and the one it is at
    promoted     \* history, per post: jobs enqueued for it

schedule     == <<posts, round, promoted>>
scheduleVars == <<vars, schedule>>

NoRound      == [todo |-> {}, at |-> "none", pc |-> "idle"]

ASSUME PostsAssumption == "none" \notin Posts /\ SlugOf \in [Posts -> Slugs]
ASSUME TickerAssumption == Ticker \in Producers

ScheduleInit ==
    /\ Init
    /\ posts = [p \in Posts |-> "none"]
    /\ round = NoRound
    /\ promoted = [p \in Posts |-> 0]

-----------------------------------------------------------------------------
(* Store.Schedule; an error goes back to the caller.                       *)
Stage(p) ==
    /\ posts[p] = "none"
    /\ posts' = [posts EXCEPT ![p] = "scheduled"]
    /\ UNCHANGED <<vars, round, promoted>>

(* publish_at arrives.                                                     *)
FallDue(p) ==
    /\ posts[p] = "scheduled"
    /\ posts' = [posts EXCEPT ![p] = "due"]
    /\ UNCHANGED <<vars, round, promoted>>

(* Store.Cancel: a conditional UPDATE.                                     *)
Cancel(p) ==
    /\ posts[p] \in {"scheduled", "due"}
    /\ posts' = [posts EXCEPT ![p] = "canceled"]
    /\ UNCHANGED <<vars, round, promoted>>

-----------------------------------------------------------------------------
(* Due that also offers again what was canceled.                           *)
DueWithCanceled == {p \in Posts : posts[p] \in {"due", "canceled"}}

(* Due that also offers again what is out.                                 *)
DueWithPublished == {p \in Posts : posts[p] \in {"due", "published"}}

(* Store.Due.                                                              *)
DuePosts == {p \in Posts : posts[p] = "due"}

(* The ticker fires: the mode check and the query.  A query that fails     *)
(* leaves the posts to the next tick.                                      *)
Tick ==
    /\ round = NoRound
    /\ mode # "refused"
    /\ DuePosts # {}
    /\ round' = [round EXCEPT !.todo = DuePosts]
    /\ UNCHANGED <<vars, posts, promoted>>

Promotion(p) == [op |-> "insert", slug |-> SlugOf[p], kind |-> "published"]

GoOn(p, label) == round' = [todo |-> round.todo \ {p}, at |-> p, pc |-> label]

(* Create is refused: the slug is taken or cannot be looked up, the mode   *)
(* began to refuse after the tick, or the queue is full.                   *)
Refuse(p) ==
    /\ \/ ~Acceptable(Promotion(p)) \/ mode = "refused"
       \/ HardLimit > 0 /\ Cardinality(Pending) >= HardLimit
    /\ UNCHANGED faults

BeginCreate(p) ==
    /\ round.at = "none"
    /\ p \in round.todo
    /\ \/ Submit(Ticker, Promotion(p)) /\ GoOn(p, "creating")
       \/ /\ Refuse(p) \/ Fault
          /\ GoOn(p, "refused")
          /\ UNCHANGED <<mode, jobVars, siteVars, workerVars, request, sweep,
                         earlyResets, restarts>>
    /\ UNCHANGED <<posts, promoted>>

EndCreate ==
    /\ round.pc = "creating"
    /\ InsertJob(Ticker)
    /\ IF status' # status
       THEN /\ round' = [round EXCEPT !.pc = "created"]
            /\ promoted' = [promoted EXCEPT ![round.at] = @ + 1]
       ELSE /\ round' = [round EXCEPT !.pc = "refused"]
            /\ UNCHANGED promoted
    /\ UNCHANGED posts

(* The UPDATE that ends a post's promotion, whose error is only logged.    *)
Mark(s) ==
    /\ \/ /\ posts' = [posts EXCEPT ![round.at] = s]
          /\ UNCHANGED faults
       \/ Fault /\ UNCHANGED posts
    /\ round' = [round EXCEPT !.at = "none", !.pc = "idle"]
    /\ UNCHANGED <<mode, jobVars, siteVars, workerVars, request, sweep,
                   earlyResets, restarts, promoted>>

(* A failure that counts as success.                                       *)
MarkPublishedAlways == round.pc \in {"created", "refused"} /\ Mark("published")

MarkPublished == round.pc = "created" /\ Mark("published")

MarkFailed == round.pc = "refused" /\ Mark("failed")

Promote ==
    \/ Tick
    \/ \E p \in Posts : BeginCreate(p)
    \/ EndCreate
    \/ MarkPublished
    \/ MarkFailed

-----------------------------------------------------------------------------
(* The queue and its other producers.                                      *)
OtherProducers ==
    /\ Step
    /\ request'[Ticker] = request[Ticker]
    /\ UNCHANGED schedule

RestartTicker ==
    /\ Restart
    /\ round' = NoRound
    /\ UNCHANGED <<posts, promoted>>

ScheduleNext ==
    \/ OtherProducers
    \/ \E p \in Posts : Stage(p) \/ FallDue(p) \/ Cancel(p)
    \/ Promote
    \/ RestartTicker

ScheduleSpec == ScheduleInit /\ [][ScheduleNext]_scheduleVars

-----------------------------------------------------------------------------
(* A post reads published only when a job was enqueued for it, although    *)
(* the row is written behind the queue, in another statement, and may      *)
(* meet failures and crashes in between (publishDuePosts: a row is marked  *)
(* "only after the publish callback succeeds").                            *)
PublishedWasQueued ==
    \A p \in Posts : posts[p] = "published" => promoted[p] > 0

(* A second job for a post is paid for by a failed statement or a crash:   *)
(* the row is not claimed while it is enqueued (publishDuePosts).          *)
PromotedAgainOnlyAfterFailure ==
    \A p \in Posts : promoted[p] <= 1 + faults + restarts

(* A post canceled before a tick has read it stays canceled and is never   *)
(* enqueued (Cancel, Due).                                                 *)
Withdrawn(p) ==
    posts[p] = "canceled" /\ p \notin round.todo \cup {round.at}

WithdrawnStaysBack ==
    [][\A p \in Posts : Withdrawn(p) =>
          Withdrawn(p)' /\ promoted'[p] = promoted[p]]_scheduleVars
=============================================================================
