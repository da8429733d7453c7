--------------------------- MODULE ArticlePipeline --------------------------
(***************************************************************************)
(* An article from the API call to the page a visitor gets: the write      *)
(* queue, the outbox relay behind it, and the three parties that share the *)
(* articles table and the public page cache with them - the cache          *)
(* subscriber of the event bus, the console's publish, unpublish and       *)
(* delete, and the article page, which renders on a cache miss and stores  *)
(* what it rendered.                                                       *)
(***************************************************************************)
EXTENDS WriteQueue

CONSTANTS
    Visitors,          \* concurrent public requests for an article page
    Previewers,        \* concurrent requests that carry the API key
    ConsoleOps,        \* what the console may do: "publish", "unpublish", ...
    MaxTouches,        \* bound on console changes and pages rendered on request
    MaxFailedReads,    \* bound on failing reads of the article page
    MaxEvents, RelayRetries, MaxLostWrites, MaxFailedAppends, MaxRelayCrashes

VARIABLES
    ostatus, oretries, owaiting, deliveredIds, flowInbox, published, rpc,
    current, lostWrites, failedAppends, crashes,    \* see OutboxRelay
    purging,      \* slugs the console changed and has yet to purge
    viewing,      \* per request: the text it read and is rendering
    consoleOps, views, failedReads

Relay == INSTANCE OutboxRelay

queueVars    == <<mode, jobVars, articles, outbox, workerVars, request, sweep,
                  bounds>>
relayVars    == <<ostatus, oretries, owaiting, deliveredIds, flowInbox,
                  published, rpc, current, lostWrites, failedAppends, crashes>>
siteReaders  == <<purging, viewing, consoleOps, views, failedReads>>
pipelineVars == <<vars, relayVars, siteReaders>>

Requesters == Visitors \cup Previewers
NoView     == [slug |-> "none", by |-> 0]

(* The page of an article without title and text.                          *)
BlankPage == MaxJobs + 1

ASSUME ConsoleAssumption ==
    ConsoleOps \subseteq {"publish", "unpublish", "delete"}
ASSUME SiteBounds ==
    MaxTouches \in Nat /\ MaxFailedReads \in Nat /\ MaxEvents \in Nat

InitPipeline ==
    /\ Init
    /\ Relay!InitRelay
    /\ purging = {}
    /\ viewing = [v \in Requesters |-> NoView]
    /\ consoleOps = 0
    /\ views = 0
    /\ failedReads = 0

-----------------------------------------------------------------------------
QueueStep ==
    /\ Step
    /\ Len(outbox') <= MaxEvents
    /\ UNCHANGED <<relayVars, siteReaders>>

(* render.CachePurge, as far as the page of one article goes.              *)
CachePurge(slug) == cache' = [cache EXCEPT ![slug] = 0]

(* A cache.invalidated event with no subscriber.                           *)
PublishUnheard ==
    /\ Relay!Publish
    /\ UNCHANGED <<queueVars, cache, siteReaders>>

(* The bus hands cache.invalidated to the subscriber that purges.          *)
PublishToSubscribers ==
    /\ Relay!Publish
    /\ IF outbox[current].type = "cache.invalidated"
       THEN CachePurge(outbox[current].slug)
       ELSE UNCHANGED cache
    /\ UNCHANGED <<queueVars, siteReaders>>

RelayStep ==
    \/ PublishToSubscribers
    \/ /\ \/ Relay!Fetch \/ Relay!MarkKnown \/ Relay!AppendFlow
          \/ Relay!MarkDelivered \/ Relay!RecordDelivered
          \/ Relay!RetryEvent \/ Relay!GiveUp
          \/ \E e \in Relay!EventIds : Relay!EventBackoffElapses(e)
       /\ UNCHANGED <<queueVars, cache, siteReaders>>

(* The route's mode check and the UPDATE of applyPostStatus: no event, and *)
(* the text untouched.  A row's kind has no drafts among the pages, so     *)
(* pages are left out here.                                                *)
SetPostStatus(slug, kind) ==
    /\ mode # "refused"
    /\ consoleOps + views < MaxTouches
    /\ consoleOps' = consoleOps + 1
    /\ slug \notin purging
    /\ articles[slug] # NoRow
    /\ articles[slug].kind # "page"
    /\ articles' = [articles EXCEPT ![slug].kind = kind]
    /\ purging' = purging \cup {slug}
    /\ UNCHANGED <<mode, jobVars, outbox, cache, workerVars, request, sweep,
                   bounds, relayVars, viewing, views, failedReads>>

(* deletePostBySlug, the DELETE: straight to the table, without an event.  *)
DeletePost(slug) ==
    /\ mode # "refused"
    /\ consoleOps + views < MaxTouches
    /\ consoleOps' = consoleOps + 1
    /\ slug \notin purging
    /\ articles[slug] # NoRow
    /\ articles' = [articles EXCEPT ![slug] = NoRow]
    /\ purging' = purging \cup {slug}
    /\ UNCHANGED <<mode, jobVars, outbox, cache, workerVars, request, sweep,
                   bounds, relayVars, viewing, views, failedReads>>

(* Both end with a purge.                                                  *)
ConsolePurge(slug) ==
    /\ slug \in purging
    /\ purging' = purging \ {slug}
    /\ CachePurge(slug)
    /\ UNCHANGED <<queueVars, relayVars, viewing, consoleOps, views,
                   failedReads>>

Console(slug) ==
    \/ "publish" \in ConsoleOps /\ SetPostStatus(slug, "published")
    \/ "unpublish" \in ConsoleOps /\ SetPostStatus(slug, "draft")
    \/ "delete" \in ConsoleOps /\ DeletePost(slug)
    \/ ConsolePurge(slug)

(* The article page, when the cache has no entry or one that a site-wide   *)
(* change made stale: the row is read, a missing one and, without the API  *)
(* key, a draft are not found.  Only "no rows" counts as an error of the   *)
(* read; any other leaves the article empty, and is rendered.              *)
ReadArticle(v, slug) ==
    /\ viewing[v] = NoView
    /\ consoleOps + views < MaxTouches
    /\ views' = views + 1
    /\ \/ /\ articles[slug] # NoRow
          /\ articles[slug].kind = "draft" => v \in Previewers
          /\ viewing' = [viewing EXCEPT ![v] = [slug |-> slug,
                                                by |-> articles[slug].by]]
          /\ UNCHANGED failedReads
       \/ /\ failedReads < MaxFailedReads
          /\ failedReads' = failedReads + 1
          /\ viewing' = [viewing EXCEPT ![v] = [slug |-> slug,
                                                by |-> BlankPage]]
    /\ UNCHANGED <<queueVars, cache, relayVars, purging, consoleOps>>

(* What was rendered is stored, whoever asked for it.                      *)
StoreArticle(v) ==
    /\ viewing[v] # NoView
    /\ cache' = [cache EXCEPT ![viewing[v].slug] = viewing[v].by]
    /\ viewing' = [viewing EXCEPT ![v] = NoView]
    /\ UNCHANGED <<queueVars, relayVars, purging, consoleOps, views,
                   failedReads>>

(* A crash takes the queue, the relay and the requests down together.      *)
RestartAll ==
    /\ Restart
    /\ rpc' = "idle"
    /\ current' = 0
    /\ purging' = {}
    /\ viewing' = [v \in Requesters |-> NoView]
    /\ UNCHANGED <<ostatus, oretries, owaiting, deliveredIds, flowInbox,
                   published, lostWrites, failedAppends, crashes, consoleOps,
                   views, failedReads>>

NextPipeline ==
    \/ QueueStep
    \/ RelayStep
    \/ \E slug \in Slugs : Console(slug)
    \/ \E v \in Requesters, slug \in Slugs : ReadArticle(v, slug)
    \/ \E v \in Requesters : StoreArticle(v)
    \/ RestartAll

PipelineSpec == InitPipeline /\ [][NextPipeline]_pipelineVars

-----------------------------------------------------------------------------
PurgePending(s) ==
    \E e \in 1..Len(outbox) : /\ outbox[e].type = "cache.invalidated"
                             /\ outbox[e].slug = s
                             /\ published[e] = 0

(* As outbox q tells, job j is an update that was queued before its        *)
(* article was deleted and applied behind that: the UPDATE touched no row, *)
(* its events went out, and the worker, to which a missing row counts as   *)
(* published, renders.                                                     *)
UpdatedNothing(q, s, j) ==
    \E d, u \in 1..Len(q) :
        /\ q[d].slug = s /\ q[d].type = "article.deleted"
        /\ q[u] = [type |-> "article.updated", slug |-> s, job |-> j]
        /\ \A k \in d..u : q[k].slug = s => q[k].type # "article.created"

(* With one worker, and until a request or the console has touched the     *)
(* cache or the row, a page that does not show the article's present text, *)
(* or shows a deleted one, is on its way out: an invalidation of its slug  *)
(* has not been published yet (app.go: the event is "emitted               *)
(* transactionally with every article mutation").  Only an update that     *)
(* came behind the deletion can leave the page of a deleted article.       *)
StalePageHasPurgePending ==
    Cardinality(Workers) = 1 /\ views = 0 /\ consoleOps = 0 =>
        \A s \in Slugs :
            (cache[s] # 0 /\ cache[s] # articles[s].by) =>
                \/ PurgePending(s)
                \/ articles[s] = NoRow /\ UpdatedNothing(outbox, s, cache[s])

(* Nothing reaches the public cache before it is in the database: the text *)
(* of a cached page was committed with its events, whoever rendered it,    *)
(* or it is the empty page of a read that failed (queue.go: the page is    *)
(* rendered behind the transaction).                                       *)
CachedTextWasCommitted ==
    \A s \in Slugs : cache[s] # 0 =>
        \/ cache[s] = BlankPage /\ failedReads > 0
        \/ \E e \in 1..Len(outbox) :
              /\ outbox[e].job = cache[s]
              /\ outbox[e].slug = s
              /\ outbox[e].type \in {"article.created", "article.updated"}

(* The relay of the pipeline is the relay OutboxRelay describes alone: the *)
(* commits of the queue are all that reaches it, two events at a time, and *)
(* a restart is its crash, while nothing the workers, the console or the   *)
(* article page do disturbs it.                                            *)
EventTypesOnly == [e \in 1..Len(outbox) |-> [type |-> outbox[e].type]]

RelayAlone == INSTANCE OutboxRelay WITH
    outbox          <- EventTypesOnly,
    crashes         <- restarts,
    MaxRelayCrashes <- MaxRestarts

RelaysAsAlone == RelayAlone!RelaySpec
=============================================================================
