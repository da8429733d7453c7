------------------------------ MODULE VayuFlow ------------------------------
(***************************************************************************)
(* The automation engine (internal/vayuflow) and the console handlers in   *)
(* front of it: stored flows, the inbox of triggers and the run trail in   *)
(* SQLite, and three kinds of caller of Runner.Execute that take no lock   *)
(* between them - the drainer of the inbox, the minute ticker and an       *)
(* operator's "Run once now".  A crash may come between any two            *)
(* statements.                                                             *)
(***************************************************************************)
EXTENDS Integers, Sequences, FiniteSets

CONSTANTS
    Flows,            \* ids of flows
    Documents,        \* what a flow may say: [trigger, writes, text],
                      \* writes being what its budget allows one run
    Events,           \* names of domain events
    Operators,        \* operators who may press "Run once now"
    MaxRunsPerHour,   \* the budget field; every document declares the same
    MaxRows,          \* bound on rows of vayuflow_inbox
    MaxMinutes,       \* bound on the minutes the ticker sees
    MaxPresses,       \* bound on presses of "Run once now"
    MaxDecisions,     \* bound on what operators decide on stored flows
    DrainLimit,       \* rows one pass of the drainer takes (100)
    MaxLost,          \* bound on statements that fail
    MaxCrashes        \* bound on crashes

VARIABLES
    flows,      \* vayuflow_flows
    editing,    \* a save or delete of the console between its read and write
    inbox,      \* vayuflow_inbox in id order: [event, drained]
    runs,       \* vayuflow_runs in insertion order
    lapsed,     \* how many of runs started more than an hour ago
    pass,       \* what the drainer and the ticker have loaded and not done
    call,       \* per executor: where its Execute stands
    effects,    \* writes that reached the world, by flow and trigger
    turnedAway, \* inbox triggers Execute returned an error for, and no run
    presses, decisions, lost, crashes

control == <<presses, decisions, lost, crashes>>
vars    == <<flows, editing, inbox, runs, lapsed, pass, call, effects,
             turnedAway, control>>

Loops     == {"drainer", "ticker"}
Executors == Loops \cup Operators
RowIds    == 1..MaxRows

(* What names a trigger: the inbox row, the minute, or the press.          *)
Identities == ({"inbox"} \X RowIds) \cup ({"minute"} \X (1..MaxMinutes))
                 \cup ({"manual"} \X (1..MaxPresses))

(* "ended" stands for succeeded, refused and failed.                       *)
Finished == {"ended", "interrupted"}

NoDoc    == [trigger |-> "none", writes |-> 0, text |-> 0]
Unborn   == [state |-> "unborn", doc |-> NoDoc, version |-> 0,
             enabled |-> FALSE, live |-> FALSE]
NoEdit   == [op |-> "none", flow |-> "none", new |-> Unborn]
NoId     == <<"none", 0>>
NoPass   == [at |-> NoId, rest |-> {}, loaded |-> [f \in Flows |-> Unborn],
             todo |-> {}]
NoCall   == [pc |-> "idle", flow |-> "none", doc |-> NoDoc, version |-> 0,
             enabled |-> FALSE, live |-> FALSE, id |-> NoId,
             run |-> 0, step |-> 0]

ASSUME FlowsAssumption == "none" \notin Flows
ASSUME OperatorsAssumption ==
    /\ Operators \cap Loops = {}
    /\ IsFiniteSet(Operators)
ASSUME DocumentsAssumption ==
    Documents \subseteq [trigger: Events \cup {"schedule", "manual"},
                        writes: Nat, text: Nat]
ASSUME EventsAssumption == Events \cap {"schedule", "manual", "none"} = {}
ASSUME FlowBounds ==
    /\ MaxRunsPerHour \in Nat \ {0}
    /\ MaxRows \in Nat /\ MaxMinutes \in Nat \ {0} /\ MaxPresses \in Nat
    /\ MaxDecisions \in Nat /\ DrainLimit \in Nat \ {0}
    /\ MaxLost \in Nat /\ MaxCrashes \in Nat

Init ==
    /\ flows = [f \in Flows |-> Unborn]
    /\ editing = NoEdit
    /\ inbox = <<>>
    /\ runs = <<>>
    /\ lapsed = 0
    /\ pass = [x \in Loops |-> NoPass]
    /\ call = [x \in Executors |-> NoCall]
    /\ effects = [t \in Flows \X Identities |-> 0]
    /\ turnedAway = {}
    /\ presses = 0 /\ decisions = 0 /\ lost = 0 /\ crashes = 0

LoseStatement == lost < MaxLost /\ lost' = lost + 1

-----------------------------------------------------------------------------
(* The console.                                                            *)

Stored(f) == flows[f].state = "stored"
Decide    == decisions < MaxDecisions /\ decisions' = decisions + 1

(* handleOSVayuFlowSave for a new flow: dry-run and switched off.          *)
CreateFlow(f, d) ==
    /\ flows[f].state = "unborn"
    /\ flows' = [flows EXCEPT ![f] = [state |-> "stored", doc |-> d,
                                      version |-> 1, enabled |-> FALSE,
                                      live |-> FALSE]]
    /\ UNCHANGED <<editing, inbox, runs, lapsed, pass, call, effects,
                   turnedAway, control>>

(* The same for an edit, first half: flowFromInput reads the stored flow,  *)
(* refuses an armed one, and carries over id, mode, switch and owner - not *)
(* the version.                                                            *)
EditFlow(f, d) ==
    /\ editing = NoEdit
    /\ Stored(f)
    /\ ~(flows[f].enabled /\ flows[f].live)
    /\ editing' = [op |-> "save", flow |-> f,
                   new |-> [flows[f] EXCEPT !.doc = d, !.version = 0]]
    /\ Decide
    /\ UNCHANGED <<flows, inbox, runs, lapsed, pass, call, effects,
                   turnedAway, presses, lost, crashes>>

(* handleOSVayuFlowDelete, first half.                                     *)
AskDelete(f) ==
    /\ editing = NoEdit
    /\ Stored(f)
    /\ ~(flows[f].enabled /\ flows[f].live)
    /\ editing' = [op |-> "delete", flow |-> f, new |-> flows[f]]
    /\ Decide
    /\ UNCHANGED <<flows, inbox, runs, lapsed, pass, call, effects,
                   turnedAway, presses, lost, crashes>>

(* A Save whose UPDATE leaves mode and switch as they are in the table.    *)
SaveKeepsArming(f) ==
    [editing.new EXCEPT !.version = flows[f].version + 1,
                        !.enabled = flows[f].enabled, !.live = flows[f].live]

(* Store.Save: the version it was given plus one, and every column.        *)
SavedFlow(f) == [editing.new EXCEPT !.version = @ + 1]

(* Second halves: the UPDATE of every column of a row still there, and the *)
(* DELETE.                                                                 *)
WriteEdit ==
    /\ editing # NoEdit
    /\ LET f == editing.flow
       IN  flows' = [flows EXCEPT ![f] =
               IF editing.op = "delete"
               THEN [Unborn EXCEPT !.state = "deleted"]
               ELSE SavedFlow(f)]
    /\ editing' = NoEdit
    /\ UNCHANGED <<inbox, runs, lapsed, pass, call, effects,
                   turnedAway, control>>

(* SetEnabled and SetMode: one column each.                                *)
SetEnabled(f) ==
    /\ Stored(f)
    /\ Decide
    /\ flows' = [flows EXCEPT ![f].enabled = ~@]
    /\ UNCHANGED <<editing, inbox, runs, lapsed, pass, call, effects,
                   turnedAway, presses, lost, crashes>>

SetMode(f) ==
    /\ Stored(f)
    /\ Decide
    /\ flows' = [flows EXCEPT ![f].live = ~@]
    /\ UNCHANGED <<editing, inbox, runs, lapsed, pass, call, effects,
                   turnedAway, presses, lost, crashes>>

-----------------------------------------------------------------------------
(* Execute, as the three callers see it.                                   *)

(* The arguments of Execute: a flow as the caller loaded it, and the       *)
(* trigger's identity.                                                     *)
CallFor(f, g, id) ==
    [pc |-> "called", flow |-> f, doc |-> g.doc, version |-> g.version,
     enabled |-> g.enabled, live |-> g.live, id |-> id, run |-> 0, step |-> 0]

Return(x) == call' = [call EXCEPT ![x] = NoCall]

(* Execute returns an error and no run row says so.                        *)
TurnAway(x, c) ==
    /\ Return(x)
    /\ turnedAway' = IF c.id[1] = "inbox"
                     THEN turnedAway \cup {<<c.flow, c.id>>} ELSE turnedAway

CountSince(f) ==
    Cardinality({i \in (lapsed + 1)..Len(runs) : runs[i].flow = f})

(* A ceiling that lets one more run through.                               *)
UnderCeilingOffByOne(c) == c.enabled /\ CountSince(c.flow) <= MaxRunsPerHour

(* Execute up to the ceiling: the flow as loaded is on, and fewer than     *)
(* MaxRunsPerHour of its runs began within the hour.                       *)
UnderCeiling(c) == c.enabled /\ CountSince(c.flow) < MaxRunsPerHour

(* Execute called by x with c: counted, turned away, or the count fails.   *)
CheckCeiling(x, c) ==
    \/ /\ UnderCeiling(c)
       /\ call' = [call EXCEPT ![x] = [c EXCEPT !.pc = "counted"]]
       /\ UNCHANGED <<turnedAway, lost>>
    \/ ~UnderCeiling(c) /\ TurnAway(x, c) /\ UNCHANGED lost
    \/ TurnAway(x, c) /\ LoseStatement

(* A key that an interrupted run gives up, to be retried.                  *)
ClaimedUnlessInterrupted(c) ==
    \E i \in 1..Len(runs) : /\ runs[i].flow = c.flow
                            /\ runs[i].version = c.version
                            /\ runs[i].id = c.id
                            /\ runs[i].status # "interrupted"

(* UNIQUE(idempotency_key), and IdempotencyKey: flow, version, identity.   *)
Claimed(c) ==
    \E i \in 1..Len(runs) : /\ runs[i].flow = c.flow
                            /\ runs[i].version = c.version
                            /\ runs[i].id = c.id

(* Begin: the INSERT that claims the key.                                  *)
Begin(x) ==
    /\ call[x].pc = "counted"
    /\ \/ /\ ~Claimed(call[x])
          /\ runs' = Append(runs,
                 [flow |-> call[x].flow, version |-> call[x].version,
                  id |-> call[x].id, doc |-> call[x].doc,
                  status |-> "running"])
          /\ call' = [call EXCEPT ![x].pc = "begun", ![x].run = Len(runs) + 1]
          /\ UNCHANGED <<turnedAway, lost>>
       \/ Claimed(call[x]) /\ Return(x) /\ UNCHANGED <<runs, turnedAway, lost>>
       \/ TurnAway(x, call[x]) /\ LoseStatement /\ UNCHANGED runs
    /\ UNCHANGED <<flows, editing, inbox, lapsed, pass, effects,
                   presses, decisions, crashes>>

(* One writing step within the write ceiling: it reaches the world if the  *)
(* flow was loaded as live.                                                *)
DoStep(x) ==
    /\ call[x].pc = "begun"
    /\ call[x].step < call[x].doc.writes
    /\ effects' = IF call[x].live
                  THEN [effects EXCEPT ![<<call[x].flow, call[x].id>>] = @ + 1]
                  ELSE effects
    /\ call' = [call EXCEPT ![x].step = @ + 1]
    /\ UNCHANGED <<flows, editing, inbox, runs, lapsed, pass,
                   turnedAway, control>>

(* Finish, after any number of the steps: refused by the owner's role or   *)
(* the condition, failed by an action or by the write ceiling, succeeded.  *)
(* On an error of its UPDATE the row keeps saying "running".               *)
Finish(x) ==
    /\ call[x].pc = "begun"
    /\ \/ /\ runs' = [runs EXCEPT ![call[x].run].status = "ended"]
          /\ UNCHANGED lost
       \/ LoseStatement /\ UNCHANGED runs
    /\ Return(x)
    /\ UNCHANGED <<flows, editing, inbox, lapsed, pass, effects,
                   turnedAway, presses, decisions, crashes>>

ExecuteStep(x) == Begin(x) \/ DoStep(x) \/ Finish(x)

-----------------------------------------------------------------------------
(* The callers.                                                            *)

(* Inbox.Append, from the outbox's dispatch.  Its row is unique by event   *)
(* id (OutboxRelay has the redelivery), so each event arrives once here.   *)
AppendRow(e) ==
    /\ Len(inbox) < MaxRows
    /\ inbox' = Append(inbox, [event |-> e, drained |-> FALSE])
    /\ UNCHANGED <<flows, editing, runs, lapsed, pass, call, effects,
                   turnedAway, control>>

(* Inbox.Pending: the oldest undrained rows, as many as one pass takes.    *)
Undrained == {i \in 1..Len(inbox) : ~inbox[i].drained}
Pending ==
    {i \in Undrained : Cardinality({j \in Undrained : j < i}) < DrainLimit}

Oldest(rows) == CHOOSE i \in rows : \A j \in rows : i <= j

(* Store.LoadableFlows.                                                    *)
LoadableFlows ==
    [f \in Flows |-> IF Stored(f) /\ flows[f].enabled
                     THEN flows[f] ELSE Unborn]

(* The loaded flows that a trigger is for.                                 *)
Matching(loaded, id) ==
    {f \in Flows :
        /\ loaded[f].state = "stored"
        /\ loaded[f].doc.trigger =
              IF id[1] = "inbox" THEN inbox[id[2]].event ELSE "schedule"}

(* A pass of the drainer at the oldest of the rows it has left.            *)
PassAt(rows, loaded) ==
    IF rows = {} THEN NoPass
    ELSE LET id == <<"inbox", Oldest(rows)>>
         IN  [at |-> id, rest |-> rows \ {Oldest(rows)}, loaded |-> loaded,
              todo |-> Matching(loaded, id)]

(* Drain: the pending rows, then the flows, once for the whole pass.       *)
Drain ==
    /\ pass["drainer"] = NoPass
    /\ Undrained # {}
    /\ pass' = [pass EXCEPT !["drainer"] = PassAt(Pending, LoadableFlows)]
    /\ UNCHANGED <<flows, editing, inbox, runs, lapsed, call, effects,
                   turnedAway, control>>

(* Tick: the flows whose cron expression names the minute it is - any of   *)
(* them.  The clock may be set back, or two ticks fall into one minute.    *)
Tick(m) ==
    /\ pass["ticker"] = NoPass
    /\ \E due \in SUBSET Matching(LoadableFlows, <<"minute", m>>) :
          /\ due # {}
          /\ pass' = [pass EXCEPT !["ticker"] =
                 [at |-> <<"minute", m>>, rest |-> {},
                  loaded |-> LoadableFlows, todo |-> due]]
    /\ UNCHANGED <<flows, editing, inbox, runs, lapsed, call, effects,
                   turnedAway, control>>

(* The loops of both: Execute for one more flow.                           *)
Offer(x) ==
    /\ call[x] = NoCall
    /\ \E f \in pass[x].todo :
          /\ CheckCeiling(x, CallFor(f, pass[x].loaded[f], pass[x].at))
          /\ pass' = [pass EXCEPT ![x].todo = @ \ {f}]
    /\ UNCHANGED <<flows, editing, inbox, runs, lapsed, effects,
                   presses, decisions, crashes>>

(* A drainer that marks the row before it has been offered to all.         *)
MarkDrainedEarly ==
    /\ pass["drainer"] # NoPass
    /\ call["drainer"] = NoCall
    /\ inbox' = [inbox EXCEPT ![pass["drainer"].at[2]].drained = TRUE]
    /\ pass' = [pass EXCEPT !["drainer"] = PassAt(@.rest, @.loaded)]
    /\ UNCHANGED <<flows, editing, runs, lapsed, call, effects,
                   turnedAway, control>>

(* A drainer that leaves a row pending for which Execute failed.           *)
MarkDrainedUnlessError ==
    /\ pass["drainer"] # NoPass
    /\ pass["drainer"].todo = {}
    /\ call["drainer"] = NoCall
    /\ inbox' = [inbox EXCEPT ![pass["drainer"].at[2]].drained =
                    \A f \in Flows : <<f, pass["drainer"].at>> \notin turnedAway]
    /\ pass' = [pass EXCEPT !["drainer"] = PassAt(@.rest, @.loaded)]
    /\ UNCHANGED <<flows, editing, runs, lapsed, call, effects, turnedAway,
                   control>>

(* MarkDrained, whatever the flows decided; when it fails the pass ends.   *)
MarkDrained ==
    /\ pass["drainer"] # NoPass
    /\ pass["drainer"].todo = {}
    /\ call["drainer"] = NoCall
    /\ \/ /\ inbox' = [inbox EXCEPT ![pass["drainer"].at[2]].drained = TRUE]
          /\ pass' = [pass EXCEPT !["drainer"] = PassAt(@.rest, @.loaded)]
          /\ UNCHANGED lost
       \/ /\ LoseStatement
          /\ pass' = [pass EXCEPT !["drainer"] = NoPass]
          /\ UNCHANGED inbox
    /\ UNCHANGED <<flows, editing, runs, lapsed, call, effects,
                   turnedAway, presses, decisions, crashes>>

(* The end of Tick's loop.                                                 *)
TickDone ==
    /\ pass["ticker"] # NoPass
    /\ pass["ticker"].todo = {}
    /\ call["ticker"] = NoCall
    /\ pass' = [pass EXCEPT !["ticker"] = NoPass]
    /\ UNCHANGED <<flows, editing, inbox, runs, lapsed, call, effects,
                   turnedAway, control>>

(* handleOSVayuFlowRun: Get does not look at the switch, and every press   *)
(* is a trigger of its own.                                                *)
RunNow(o, f) ==
    /\ call[o] = NoCall
    /\ Stored(f)
    /\ presses < MaxPresses
    /\ call' = [call EXCEPT ![o] = CallFor(f, flows[f],
                                           <<"manual", presses + 1>>)]
    /\ presses' = presses + 1
    /\ UNCHANGED <<flows, editing, inbox, runs, lapsed, pass, effects,
                   turnedAway, decisions, lost, crashes>>

(* Its Execute.                                                            *)
ExecuteNow(o) ==
    /\ call[o].pc = "called"
    /\ CheckCeiling(o, call[o])
    /\ UNCHANGED <<flows, editing, inbox, runs, lapsed, pass, effects,
                   presses, decisions, crashes>>

-----------------------------------------------------------------------------
(* Time, and the process.                                                  *)

(* The oldest run of the last hour leaves it.                              *)
HourPasses ==
    /\ lapsed < Len(runs)
    /\ lapsed' = lapsed + 1
    /\ UNCHANGED <<flows, editing, inbox, runs, pass, call, effects,
                   turnedAway, control>>

(* A recovery without its WHERE.                                           *)
RecoverAll == [i \in DOMAIN runs |-> [runs[i] EXCEPT !.status = "interrupted"]]

(* RecoverInterrupted.                                                     *)
Recovered ==
    [i \in DOMAIN runs |->
        IF runs[i].status = "running"
        THEN [runs[i] EXCEPT !.status = "interrupted"] ELSE runs[i]]

(* The process dies and boots: main recovers, if the UPDATE succeeds,      *)
(* before it starts the ticker and the drainer.                            *)
Crash ==
    /\ crashes < MaxCrashes
    /\ crashes' = crashes + 1
    /\ \/ runs' = Recovered /\ UNCHANGED lost
       \/ LoseStatement /\ UNCHANGED runs
    /\ pass' = [x \in Loops |-> NoPass]
    /\ call' = [x \in Executors |-> NoCall]
    /\ editing' = NoEdit
    /\ UNCHANGED <<flows, inbox, lapsed, effects, turnedAway, presses,
                   decisions>>

Console ==
    \/ \E f \in Flows, d \in Documents : CreateFlow(f, d) \/ EditFlow(f, d)
    \/ \E f \in Flows : AskDelete(f) \/ SetEnabled(f) \/ SetMode(f)
    \/ WriteEdit
    \/ \E o \in Operators, f \in Flows : RunNow(o, f)

DrainerStep ==
    Drain \/ Offer("drainer") \/ ExecuteStep("drainer") \/ MarkDrained

TickerStep ==
    \/ \E m \in 1..MaxMinutes : Tick(m)
    \/ Offer("ticker") \/ ExecuteStep("ticker") \/ TickDone

Next ==
    \/ Console
    \/ DrainerStep
    \/ TickerStep
    \/ \E o \in Operators : ExecuteNow(o) \/ ExecuteStep(o)
    \/ \E e \in Events : AppendRow(e)
    \/ HourPasses
    \/ Crash

Spec == Init /\ [][Next]_vars

(* The drainer's loop runs every five seconds as long as the process does. *)
FairSpec == Spec /\ WF_vars(DrainerStep)

-----------------------------------------------------------------------------
(* What the engine promises.                                               *)

FlowRecords == [state: {"unborn", "stored", "deleted"},
                doc: Documents \cup {NoDoc}, version: Nat, enabled: BOOLEAN,
                live: BOOLEAN]

CallStates == {"idle", "called", "counted", "begun"}

(* The state is well typed: what each table, pass and call may hold.       *)
TypeOK ==
    /\ flows \in [Flows -> FlowRecords]
    /\ editing \in [op: {"none", "save", "delete"}, flow: Flows \cup {"none"},
                    new: FlowRecords]
    /\ inbox \in Seq([event: Events, drained: BOOLEAN])
    /\ Len(inbox) <= MaxRows
    /\ runs \in Seq([flow: Flows, version: Nat, id: Identities,
                     doc: Documents \cup {NoDoc},
                     status: Finished \cup {"running"}])
    /\ lapsed \in 0..Len(runs)
    /\ pass \in [Loops -> [at: Identities \cup {NoId}, rest: SUBSET RowIds,
                           loaded: [Flows -> FlowRecords],
                           todo: SUBSET Flows]]
    /\ call \in [Executors -> [pc: CallStates, flow: Flows \cup {"none"},
                               doc: Documents \cup {NoDoc}, version: Nat,
                               enabled: BOOLEAN, live: BOOLEAN,
                               id: Identities \cup {NoId}, run: Nat,
                               step: Nat]]
    /\ effects \in [Flows \X Identities -> Nat]
    /\ turnedAway \subseteq Flows \X Identities
    /\ presses \in 0..MaxPresses
    /\ decisions \in 0..MaxDecisions
    /\ lost \in 0..MaxLost
    /\ crashes \in 0..MaxCrashes

(* A trigger's writes reach the world at most once, whatever is redelivered, *)
(* edited, interrupted or restarted: it has at most one run, and no more     *)
(* effects than the ceiling of the document that run was begun with          *)
(* (IdempotencyKey, Begin, RecoverInterrupted).                              *)
EffectsOncePerTrigger ==
    \A f \in Flows, id \in Identities :
        LET of == {i \in 1..Len(runs) : runs[i].flow = f /\ runs[i].id = id}
        IN  /\ \A i, j \in of : i = j
            /\ effects[<<f, id>>] > 0 =>
                  \E i \in of : effects[<<f, id>>] <= runs[i].doc.writes

(* The hourly ceiling (Execute, CountSince) can be passed only by callers    *)
(* that counted at the same time: by one run for each executor but one.      *)
RateOvershootBounded ==
    \A f \in Flows :
        CountSince(f) <= MaxRunsPerHour + Cardinality(Executors) - 1

(* What a finished run says of itself is never rewritten: neither by a boot  *)
(* that recovers (RecoverInterrupted) nor by a late Finish.                  *)
TerminalIsFinal ==
    [][\A i \in DOMAIN runs :
          runs[i].status \in Finished => runs'[i] = runs[i]]_vars

(* What a flow does never changes while it is switched on and live, and no   *)
(* edit leaves it so: arming is a decision about the document it arms, also  *)
(* when it is armed between an edit's read and its write (flowFromInput,     *)
(* Save).                                                                    *)
EditLeavesUnarmed ==
    [][\A f \in Flows :
          flows'[f].doc # flows[f].doc =>
              ~(flows'[f].enabled /\ flows'[f].live)]_vars

(* A row is drained only when every flow its pass loaded for its event has   *)
(* a run for it or was turned away from one (Drain, MarkDrained).            *)
DrainedOnRecord ==
    [][\A i \in DOMAIN inbox :
          ~inbox[i].drained /\ inbox'[i].drained =>
              \A f \in Matching(pass["drainer"].loaded, <<"inbox", i>>) :
                  \/ \E r \in 1..Len(runs) : /\ runs[r].flow = f
                                            /\ runs[r].id = <<"inbox", i>>
                  \/ <<f, <<"inbox", i>>>> \in turnedAway]_vars

(* Every row is drained in the end, through errors of its flows, failed      *)
(* statements and crashes: none wedges the rows behind it (Drain).           *)
EveryRowDrains ==
    \A i \in RowIds :
        i \in DOMAIN inbox ~> i \in DOMAIN inbox /\ inbox[i].drained
=============================================================================
