------------------------------ MODULE MailQueue ------------------------------
(***************************************************************************)
(* The outbound mail queue (internal/vayuos/mail, queue.go).  ProcessDue   *)
(* loads the due rows and delivers them one by one without claiming any,   *)
(* and is run by the worker, by the sender of scheduled mail and by        *)
(* goroutines the console kicks off, with nothing between them.            *)
(***************************************************************************)
EXTENDS Integers, Sequences, FiniteSets

CONSTANTS
    MaxAttempts,   \* QueueMaxAttempts
    MaxRows,       \* bound on rows of vayumail_queue
    MaxResends,    \* bound on resends and retries the console asks for
    MaxLost        \* bound on statements that fail

ASSUME QueueBounds ==
    /\ MaxAttempts \in Nat \ {0} /\ MaxRows \in Nat
    /\ MaxResends \in Nat /\ MaxLost \in Nat

VARIABLES
    queue,     \* vayumail_queue in id order: [state, attempts, due]
    pass,      \* per pass: what it loaded, what it is at, and the outcome
    kicked,    \* passes asked for and not started
    handed,    \* rows whose message some receiving server took
    resends,
    lost

mailVars == <<queue, pass, kicked, handed, resends, lost>>

(* The passes that may overlap: the worker's, the one that follows a sweep *)
(* of scheduled mail, and one kicked off by the console.                   *)
Passes == {"worker", "sweep", "kick"}

RowIds == 1..MaxRows
NewRow == [state |-> "pending", attempts |-> 0, due |-> TRUE]
NoItem == [id |-> 0, attempts |-> 0]
Idle   == [items |-> {}, at |-> NoItem, outcome |-> "none"]

QueueInit ==
    /\ queue = <<>>
    /\ pass = [p \in Passes |-> Idle]
    /\ kicked = {}
    /\ handed = {}
    /\ resends = 0
    /\ lost = 0

LoseStatement == lost < MaxLost /\ lost' = lost + 1

-----------------------------------------------------------------------------
(* ProcessDue.                                                             *)

DueRows == {i \in DOMAIN queue : queue[i].state = "pending" /\ queue[i].due}

(* The SELECT: id and attempts of every due row, into memory.              *)
StartPass(p) ==
    /\ pass[p] = Idle
    /\ p \in kicked \/ (p = "worker" /\ DueRows # {})
    /\ pass' = [pass EXCEPT ![p].items =
           {[id |-> i, attempts |-> queue[i].attempts] : i \in DueRows}]
    /\ kicked' = kicked \ {p}
    /\ UNCHANGED <<queue, handed, resends, lost>>

(* deliver, to each of a domain's hosts until one takes the message: taken *)
(* by a receiving server; an error, or a refusal of the only recipient,    *)
(* after a server took it (for other recipients, or with its answer lost); *)
(* either of them with nothing taken.                                      *)
Deliver(p) ==
    /\ pass[p].at = NoItem
    /\ \E it \in pass[p].items, result \in {"ok", "error", "refused"} :
          /\ \/ handed' = handed \cup {it.id}
             \/ result # "ok" /\ UNCHANGED handed
          /\ pass' = [pass EXCEPT ![p] =
                 [items |-> @.items \ {it}, at |-> it, outcome |-> result]]
    /\ UNCHANGED <<queue, kicked, resends, lost>>

(* The attempt is the last one, or no other can help.                      *)
GiveUp(p) ==
    \/ pass[p].outcome = "refused"
    \/ pass[p].outcome = "error" /\ pass[p].at.attempts + 1 >= MaxAttempts

(* A queue that takes any answer for a delivery.                           *)
RecordedAnyway(p) ==
    [queue[pass[p].at.id] EXCEPT
        !.state = IF GiveUp(p) \/ @ = "gone" THEN @ ELSE "delivered"]

(* A queue that does not count its attempts.                               *)
RecordedUncounted(p) ==
    LET row == queue[pass[p].at.id]
    IN  IF row.state = "gone"          THEN row
        ELSE IF pass[p].outcome = "ok" THEN [row EXCEPT !.state = "delivered"]
        ELSE IF GiveUp(p)              THEN [row EXCEPT !.state = "failed"]
        ELSE [row EXCEPT !.due = FALSE]

(* What the UPDATE after a delivery writes: it knows the row by its id and *)
(* the attempts by what was loaded.  A row deleted meanwhile stays so.     *)
Recorded(p) ==
    LET row == queue[pass[p].at.id]
        n   == pass[p].at.attempts + 1
    IN  IF row.state = "gone"          THEN row
        ELSE IF pass[p].outcome = "ok" THEN [row EXCEPT !.state = "delivered"]
        ELSE IF GiveUp(p)
             THEN [row EXCEPT !.state = "failed", !.attempts = n]
        ELSE [row EXCEPT !.attempts = n, !.due = FALSE]

(* The UPDATE; its error is ignored.                                       *)
Record(p) ==
    /\ pass[p].at # NoItem
    /\ \/ /\ queue' = [queue EXCEPT ![pass[p].at.id] = Recorded(p)]
          /\ UNCHANGED lost
       \/ LoseStatement /\ UNCHANGED queue
    /\ pass' = [pass EXCEPT ![p].at = NoItem, ![p].outcome = "none"]
    /\ UNCHANGED <<kicked, handed, resends>>

PassStep(p) == StartPass(p) \/ Deliver(p) \/ Record(p)

(* The backoff of a row ends.                                              *)
FallDue ==
    /\ \E i \in DOMAIN queue :
          /\ queue[i].state = "pending"
          /\ ~queue[i].due
          /\ queue' = [queue EXCEPT ![i].due = TRUE]
    /\ UNCHANGED <<pass, kicked, handed, resends, lost>>

-----------------------------------------------------------------------------
(* The Outbox of the console.                                              *)

Resend == resends < MaxResends /\ resends' = resends + 1

(* ResendQueued: Requeue of a row in whatever state, and a pass.           *)
ResendQueued(i) ==
    /\ queue[i].state # "gone"
    /\ Resend
    /\ queue' = [queue EXCEPT ![i] = NewRow]
    /\ kicked' = kicked \cup {"kick"}
    /\ UNCHANGED <<pass, handed, lost>>

(* RetryAllFailed, with something to retry.                                *)
RetryAllFailed ==
    /\ \E i \in DOMAIN queue : queue[i].state = "failed"
    /\ Resend
    /\ queue' = [i \in DOMAIN queue |->
           IF queue[i].state = "failed" THEN NewRow ELSE queue[i]]
    /\ kicked' = kicked \cup {"kick"}
    /\ UNCHANGED <<pass, handed, lost>>

(* DeleteQueued of any row, PruneDelivered of an old delivered one.        *)
DeleteQueued(i) ==
    /\ queue[i].state # "gone"
    /\ queue' = [queue EXCEPT ![i].state = "gone"]
    /\ UNCHANGED <<pass, kicked, handed, resends, lost>>

Outbox ==
    \/ \E i \in DOMAIN queue : ResendQueued(i) \/ DeleteQueued(i)
    \/ RetryAllFailed

(* A row says delivered only if a receiving server took the message, however *)
(* many passes wrote the row (ProcessDue).                                   *)
DeliveredWasHanded ==
    \A i \in DOMAIN queue : queue[i].state = "delivered" => i \in handed

(* Every queued message is delivered, failed or deleted in the end, although *)
(* passes overwrite each other's count of attempts (ProcessDue).             *)
QueueSettles ==
    \A i \in RowIds :
        i \in DOMAIN queue ~> i \in DOMAIN queue /\ queue[i].state # "pending"
==============================================================================
