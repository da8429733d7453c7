-------------------------- MODULE WriteQueueRefusal --------------------------
(***************************************************************************)
(* WriteQueue with a history variable: what each worker has committed      *)
(* since the mode began to refuse content writes.                          *)
(***************************************************************************)
EXTENDS WriteQueue

VARIABLE late    \* per worker: its commits since the mode became "refused"

refusalVars == <<vars, late>>

(* The transaction of w took place: only Commit writes the outbox.          *)
Commits(w) == pc'[w] # pc[w] /\ outbox' # outbox

RefusalInit == Init /\ late = [w \in Workers |-> 0]

RefusalNext ==
    /\ Next
    /\ late' = [w \in Workers |->
                   IF mode' # "refused" THEN 0
                   ELSE IF Commits(w) THEN late[w] + 1
                   ELSE late[w]]

RefusalSpec == RefusalInit /\ [][RefusalNext]_refusalVars

(* processOneJob reads the mode before it selects a row and not again, so a *)
(* refusal does not stop the job a worker has in hand; but a job queued     *)
(* before the mode changed waits, whatever is reset, retried or reopened:   *)
(* after a refusal has begun a worker commits at most that one job.         *)
RefusalTakesEffect == \A w \in Workers : late[w] <= 1
==============================================================================
