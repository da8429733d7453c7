---------------------------- MODULE ScheduledMail ----------------------------
(***************************************************************************)
(* Send later (internal/vayuos/mail, scheduled.go) over the mail queue: a  *)
(* message is held as a row until it is due and then composed into the     *)
(* queue.  The sweep, the sender's Send now and Cancel, the removal of the *)
(* account and a crash meet at the row; the conditional UPDATE that claims *)
(* it is the only lock.                                                    *)
(***************************************************************************)
EXTENDS MailQueue

CONSTANTS
    Messages,      \* held messages
    Senders,       \* requests of the console that may run at once
    MaxChoices,    \* bound on presses of Send now and Cancel
    MaxCrashes     \* bound on crashes

ASSUME SendersAssumption == "sweep" \notin Senders
ASSUME ScheduledBounds == MaxChoices \in Nat /\ MaxCrashes \in Nat

VARIABLES
    open,      \* Start has opened the accounts and begun the sweep
    held,      \* vayumail_scheduled: [state, due]
    listed,    \* what the sweep found due and has not come to
    work,      \* per actor: the message it has claimed, and how far it is
    composed,  \* per message: how often ComposeRich let something out
    drafts,    \* per message: drafts filed by Cancel
    again,     \* per message: Send now on a row that had failed
    removed,   \* messages of accounts removed
    cancelled, \* messages whose Cancel has been answered with success
    choices,
    crashes

heldVars == <<open, held, listed, work, composed, drafts, again, removed, cancelled,
              choices, crashes>>
vars     == <<mailVars, heldVars>>

Actors == Senders \cup {"sweep"}
NoWork == [pc |-> "idle", msg |-> "none"]

ASSUME MessagesAssumption == "none" \notin Messages

Init ==
    /\ QueueInit
    /\ open = TRUE
    /\ held = [m \in Messages |-> [state |-> "none", due |-> FALSE]]
    /\ listed = {}
    /\ work = [x \in Actors |-> NoWork]
    /\ composed = [m \in Messages |-> 0]
    /\ drafts = [m \in Messages |-> 0]
    /\ again = [m \in Messages |-> 0]
    /\ removed = {}
    /\ cancelled = {}
    /\ choices = 0 /\ crashes = 0

-----------------------------------------------------------------------------
(* Schedule, and the due time.                                             *)

Schedule(m) ==
    /\ held[m].state = "none"
    /\ open
    /\ held' = [held EXCEPT ![m].state = "waiting"]
    /\ UNCHANGED <<mailVars, open, listed, work, composed, drafts, again, removed,
                   cancelled, choices, crashes>>

ComesDue(m) ==
    /\ held[m].state = "waiting"
    /\ ~held[m].due
    /\ held' = [held EXCEPT ![m].due = TRUE]
    /\ UNCHANGED <<mailVars, open, listed, work, composed, drafts, again, removed,
                   cancelled, choices, crashes>>

-----------------------------------------------------------------------------
(* Claims.                                                                 *)

(* claimScheduled: the conditional UPDATE finds the row in one of from.    *)
Claim(m, from) == held[m].state \in from

Claimed(x, m, state, pc) ==
    /\ held' = [held EXCEPT ![m].state = state]
    /\ work' = [work EXCEPT ![x] = [pc |-> pc, msg |-> m]]

(* The rows SendDueScheduled selects.                                      *)
Due == {m \in Messages : held[m].state = "waiting" /\ held[m].due}

(* A sweep of timers, which do not survive a restart.                      *)
SweepTimers ==
    /\ open
    /\ crashes = 0
    /\ listed = {}
    /\ work["sweep"] = NoWork
    /\ "sweep" \notin kicked
    /\ pass["sweep"] = Idle
    /\ Due # {}
    /\ listed' = Due
    /\ UNCHANGED <<mailVars, open, held, work, composed, drafts, again, removed,
                   cancelled, choices, crashes>>

(* SendDueScheduled: the SELECT, once the sweep before and its pass over   *)
(* the queue are done.                                                     *)
Sweep ==
    /\ open
    /\ listed = {}
    /\ work["sweep"] = NoWork
    /\ "sweep" \notin kicked
    /\ pass["sweep"] = Idle
    /\ Due # {}
    /\ listed' = Due
    /\ UNCHANGED <<mailVars, open, held, work, composed, drafts, again, removed,
                   cancelled, choices, crashes>>

(* Its loop: claim the next row, or pass over one that was claimed by      *)
(* another or whose claim failed.                                          *)
SweepNext(m) ==
    /\ work["sweep"] = NoWork
    /\ m \in listed
    /\ listed' = listed \ {m}
    /\ \/ /\ Claim(m, {"waiting"})
          /\ Claimed("sweep", m, "sending", "claimed")
          /\ UNCHANGED lost
       \/ /\ ~Claim(m, {"waiting"})
          /\ UNCHANGED <<held, work, lost>>
       \/ LoseStatement /\ UNCHANGED <<held, work>>
    /\ UNCHANGED <<open, queue, pass, kicked, handed, resends,
                   composed, drafts, again, removed, cancelled, choices,
                   crashes>>

Choose(x) ==
    /\ open
    /\ work[x] = NoWork
    /\ choices < MaxChoices
    /\ choices' = choices + 1

(* SendScheduledNow.                                                       *)
SendNow(x, m) ==
    /\ Choose(x)
    /\ Claim(m, {"waiting", "failed"})
    /\ Claimed(x, m, "sending", "claimed")
    /\ again' = IF held[m].state = "failed"
                THEN [again EXCEPT ![m] = @ + 1] ELSE again
    /\ UNCHANGED <<mailVars, open, listed, composed, drafts, removed, cancelled,
                   crashes>>

(* A Cancel that also takes a message that is being sent.                  *)
CancelSending(x, m) ==
    /\ Choose(x)
    /\ Claim(m, {"waiting", "failed", "sending"})
    /\ Claimed(x, m, "cancelling", "filing")
    /\ UNCHANGED <<mailVars, open, listed, composed, drafts, again, removed,
                   cancelled, crashes>>

(* CancelScheduled.                                                        *)
Cancel(x, m) ==
    /\ Choose(x)
    /\ Claim(m, {"waiting", "failed"})
    /\ Claimed(x, m, "cancelling", "filing")
    /\ UNCHANGED <<mailVars, open, listed, composed, drafts, again, removed,
                   cancelled, crashes>>

-----------------------------------------------------------------------------
(* What follows a claim.                                                   *)

Go(x, pc) == work' = [work EXCEPT ![x].pc = pc]
Stop(x)   == work' = [work EXCEPT ![x] = NoWork]

(* sendClaimed reads the row: a removed account, or an error, ends it and  *)
(* leaves the row as it is.                                                *)
ReadHeld(x) ==
    /\ work[x].pc = "claimed"
    /\ \/ held[work[x].msg].state # "gone" /\ Go(x, "read") /\ UNCHANGED lost
       \/ held[work[x].msg].state = "gone" /\ Stop(x) /\ UNCHANGED lost
       \/ LoseStatement /\ Stop(x)
    /\ UNCHANGED <<open, queue, pass, kicked, handed, resends, held,
                   listed, composed, drafts, again, removed, cancelled,
                   choices, crashes>>

(* The checks on the mailbox and ComposeRich: refused with nothing let     *)
(* out; an error after the Sent copy or some local recipients; queued for  *)
(* the remote ones; all recipients local.                                  *)
Compose(x) ==
    LET m == work[x].msg
        LetOut == composed' = [composed EXCEPT ![m] = @ + 1]
    IN  /\ work[x].pc = "read"
        /\ \/ Go(x, "failing") /\ UNCHANGED <<queue, composed>>
           \/ Go(x, "failing") /\ LetOut /\ UNCHANGED queue
           \/ /\ Len(queue) < MaxRows
              /\ queue' = Append(queue, NewRow)
              /\ Go(x, "sent") /\ LetOut
           \/ Go(x, "sent") /\ LetOut /\ UNCHANGED queue
        /\ UNCHANGED <<open, pass, kicked, handed, resends, lost,
                       held, listed, drafts, again, removed, cancelled,
                       choices, crashes>>

(* A Cancel that takes the row out before the draft is filed.              *)
FileDraftLast(x) ==
    /\ work[x].pc = "filing"
    /\ held' = [held EXCEPT ![work[x].msg].state = "gone"]
    /\ \/ Go(x, "filed") /\ drafts' = [drafts EXCEPT ![work[x].msg] = @ + 1]
       \/ Go(x, "failing") /\ UNCHANGED drafts
    /\ UNCHANGED <<mailVars, open, listed, composed, again, removed, cancelled,
                   choices, crashes>>

(* Cancel files the draft, or cannot.                                      *)
FileDraft(x) ==
    /\ work[x].pc = "filing"
    /\ \/ /\ held[work[x].msg].state # "gone"
          /\ drafts' = [drafts EXCEPT ![work[x].msg] = @ + 1]
          /\ Go(x, "filed")
       \/ Go(x, "failing") /\ UNCHANGED drafts
    /\ UNCHANGED <<mailVars, open, held, listed, composed, again, removed,
                   cancelled, choices, crashes>>

(* The last statement, with m's row in state, or lost.                     *)
Settle(x, state) ==
    LET m == work[x].msg
    IN  /\ held' = [held EXCEPT ![m].state = IF @ = "gone" THEN @ ELSE state]
        /\ Stop(x)
        /\ UNCHANGED lost

LoseSettle(x) == LoseStatement /\ Stop(x) /\ UNCHANGED held

(* failScheduled.                                                          *)
Fail(x) ==
    /\ work[x].pc = "failing"
    /\ Settle(x, "failed") \/ LoseSettle(x)
    /\ UNCHANGED <<open, queue, pass, kicked, handed, resends,
                   listed, composed, drafts, again, removed, cancelled,
                   choices, crashes>>

(* The DELETE of a row that was sent, and the pass over the queue that     *)
(* follows: the sender's at once, the sweep's after its loop.              *)
DeleteSent(x) ==
    /\ work[x].pc = "sent"
    /\ \/ /\ Settle(x, "gone")
          /\ kicked' = kicked \cup {IF x = "sweep" THEN "sweep" ELSE "kick"}
       \/ LoseSettle(x) /\ UNCHANGED kicked
    /\ UNCHANGED <<open, queue, pass, handed, resends, listed,
                   composed, drafts, again, removed, cancelled, choices,
                   crashes>>

(* The DELETE of a row whose draft is filed.                               *)
DeleteFiled(x) ==
    /\ work[x].pc = "filed"
    /\ \/ Settle(x, "gone") /\ cancelled' = cancelled \cup {work[x].msg}
       \/ LoseSettle(x) /\ UNCHANGED cancelled
    /\ UNCHANGED <<open, queue, pass, kicked, handed, resends,
                   listed, composed, drafts, again, removed, choices, crashes>>

WorkStep(x) ==
    ReadHeld(x) \/ Compose(x) \/ FileDraft(x) \/ Fail(x) \/ DeleteSent(x)
        \/ DeleteFiled(x)

-----------------------------------------------------------------------------
(* The account, and the process.                                           *)

(* AccountStore.Delete takes the held messages with it.                    *)
RemoveAccount(m) ==
    /\ held[m].state \notin {"none", "gone"}
    /\ held' = [held EXCEPT ![m].state = "gone"]
    /\ removed' = removed \cup {m}
    /\ UNCHANGED <<mailVars, open, listed, work, composed, drafts, again, cancelled,
                   choices, crashes>>

(* The process dies and starts: the worker runs before the accounts open.  *)
Crash ==
    /\ crashes < MaxCrashes
    /\ crashes' = crashes + 1
    /\ open' = FALSE
    /\ pass' = [p \in Passes |-> Idle]
    /\ kicked' = {}
    /\ work' = [x \in Actors |-> NoWork]
    /\ listed' = {}
    /\ UNCHANGED <<queue, handed, resends, lost, held, composed,
                   drafts, again, removed, cancelled, choices>>

(* A recovery that sends what was interrupted again.                       *)
RetryInterrupted ==
    [m \in Messages |->
        IF held[m].state \in {"sending", "cancelling"}
        THEN [held[m] EXCEPT !.state = "waiting"] ELSE held[m]]

(* failInterruptedScheduled.                                               *)
FailInterrupted ==
    [m \in Messages |->
        IF held[m].state \in {"sending", "cancelling"}
        THEN [held[m] EXCEPT !.state = "failed"] ELSE held[m]]

(* Start goes on: the accounts, the interrupted rows, the sweep.           *)
OpenAccounts ==
    /\ ~open
    /\ open' = TRUE
    /\ \/ held' = FailInterrupted /\ UNCHANGED lost
       \/ LoseStatement /\ UNCHANGED held
    /\ UNCHANGED <<queue, pass, kicked, handed, resends, listed,
                   work, composed, drafts, again, removed, cancelled, choices,
                   crashes>>

WorkerStep == PassStep("worker") /\ UNCHANGED heldVars

SweepStep ==
    \/ Sweep
    \/ \E m \in Messages : SweepNext(m)
    \/ WorkStep("sweep")
    \/ listed = {} /\ work["sweep"] = NoWork /\ PassStep("sweep")
                   /\ UNCHANGED heldVars

Next ==
    \/ WorkerStep
    \/ SweepStep
    \/ OpenAccounts
    \/ FallDue /\ UNCHANGED heldVars
    \/ PassStep("kick") /\ UNCHANGED heldVars
    \/ Outbox /\ UNCHANGED heldVars
    \/ \E m \in Messages : Schedule(m) \/ ComesDue(m) \/ RemoveAccount(m)
    \/ \E x \in Senders :
          \/ WorkStep(x)
          \/ \E m \in Messages : SendNow(x, m) \/ Cancel(x, m)
    \/ Crash

Spec == Init /\ [][Next]_vars

(* The loops of the worker and the sweep run every 30 seconds, Start comes *)
(* to its end, and time passes.                                            *)
FairSpec ==
    /\ Spec
    /\ WF_vars(WorkerStep)
    /\ WF_vars(SweepStep)
    /\ WF_vars(OpenAccounts)
    /\ WF_vars(FallDue /\ UNCHANGED heldVars)

-----------------------------------------------------------------------------
(* What Send later promises.                                               *)

HeldStates == {"none", "waiting", "sending", "cancelling", "failed", "gone"}
WorkStates == {"idle", "claimed", "read", "failing", "sent", "filing", "filed"}
Items      == [id: RowIds, attempts: Nat]

(* The state is well typed: what each table, pass and actor may hold.      *)
TypeOK ==
    /\ queue \in Seq([state: {"pending", "delivered", "failed", "gone"},
                      attempts: Nat, due: BOOLEAN])
    /\ Len(queue) <= MaxRows
    /\ pass \in [Passes -> [items: SUBSET Items, at: Items \cup {NoItem},
                            outcome: {"none", "ok", "error", "refused"}]]
    /\ kicked \subseteq Passes
    /\ handed \subseteq RowIds
    /\ open \in BOOLEAN
    /\ resends \in 0..MaxResends
    /\ lost \in 0..MaxLost
    /\ held \in [Messages -> [state: HeldStates, due: BOOLEAN]]
    /\ listed \subseteq Messages
    /\ work \in [Actors -> [pc: WorkStates, msg: Messages \cup {"none"}]]
    /\ composed \in [Messages -> Nat]
    /\ drafts \in [Messages -> Nat]
    /\ again \in [Messages -> Nat]
    /\ removed \subseteq Messages
    /\ cancelled \subseteq Messages
    /\ choices \in 0..MaxChoices
    /\ crashes \in 0..MaxCrashes

(* A held message is composed once, whatever the sweep, Send now, Cancel and *)
(* restarts do at the same time, and once more only each time its sender     *)
(* chose Send now for a row that said it had failed (claimScheduled,         *)
(* failInterruptedScheduled).                                                *)
ComposedOnce == \A m \in Messages : composed[m] <= 1 + again[m]

(* What was written is not lost: a row leaves the schedule only for Sent or  *)
(* the queue, for Drafts, or with its account, through failed statements and *)
(* crashes (sendClaimed, CancelScheduled).                                   *)
NothingVanishes ==
    \A m \in Messages :
        held[m].state = "gone" =>
            composed[m] > 0 \/ drafts[m] > 0 \/ m \in removed

(* A message whose Cancel was answered is not composed into the queue again; *)
(* a row that an interrupted send had already put there is not recalled      *)
(* (CancelScheduled).                                                        *)
CancelledStaysBack ==
    [][\A m \in cancelled : composed'[m] = composed[m]]_vars

(* A due message does not stay waiting: the sweep, or somebody before it,    *)
(* takes it (SendDueScheduled).                                              *)
DueIsTaken ==
    \A m \in Messages : m \in Due ~> held[m].state # "waiting"
==============================================================================
