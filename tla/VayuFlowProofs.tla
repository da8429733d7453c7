--------------------------- MODULE VayuFlowProofs ---------------------------
(***************************************************************************)
(* Machine-checked facts about VayuFlow: with three kinds of caller, edits *)
(* in two halves, lost statements and crashes, a trigger's writes happen   *)
(* once, what the trail says stays said, and arming is about the document  *)
(* that is armed.                                                          *)
(***************************************************************************)
EXTENDS VayuFlow, SequenceTheorems, FiniteSetTheorems, WellFoundedInduction, TLAPS

InboxRows == [event: Events, drained: BOOLEAN]

RunRecords == [flow: Flows, version: Nat, id: Identities,
               doc: Documents \cup {NoDoc}, status: Finished \cup {"running"}]

PassRecords == [at: Identities \cup {NoId}, rest: SUBSET RowIds,
                loaded: [Flows -> FlowRecords], todo: SUBSET Flows]

CallRecords == [pc: CallStates, flow: Flows \cup {"none"},
                doc: Documents \cup {NoDoc}, version: Nat,
                enabled: BOOLEAN, live: BOOLEAN,
                id: Identities \cup {NoId}, run: Nat, step: Nat]

EditRecords == [op: {"none", "save", "delete"}, flow: Flows \cup {"none"},
                new: FlowRecords]

-----------------------------------------------------------------------------
(* Constants of the model.                                                 *)

LEMMA FlowConstants ==
    /\ Unborn \in FlowRecords /\ Unborn.state = "unborn"
    /\ NoEdit \in EditRecords /\ NoEdit.op = "none"
    /\ NoPass \in PassRecords /\ NoPass.todo = {} /\ NoPass.at = NoId
    /\ \A f \in Flows : NoPass.loaded[f] = Unborn
    /\ NoPass.rest = {}
    /\ NoCall \in CallRecords /\ NoCall.pc = "idle"
<1>1. Unborn \in FlowRecords /\ Unborn.state = "unborn"
  BY DEF Unborn, FlowRecords
<1>2. NoEdit \in EditRecords /\ NoEdit.op = "none"
  BY <1>1 DEF NoEdit, EditRecords
<1>3. /\ NoPass \in PassRecords /\ NoPass.todo = {} /\ NoPass.at = NoId
      /\ \A f \in Flows : NoPass.loaded[f] = Unborn
      /\ NoPass.rest = {}
  BY <1>1 DEF NoPass, PassRecords
<1>4. NoCall \in CallRecords /\ NoCall.pc = "idle"
  BY DEF NoCall, CallRecords, CallStates
<1> QED
  BY <1>1, <1>2, <1>3, <1>4

LEMMA IdentityFacts ==
    /\ \A i \in RowIds : <<"inbox", i>> \in Identities
    /\ \A m \in 1..MaxMinutes : <<"minute", m>> \in Identities
    /\ \A n \in 1..MaxPresses : <<"manual", n>> \in Identities
    /\ NoId \notin Identities
  BY DEF Identities, NoId

(* The oldest of some rows is one of them.                                 *)
LEMMA OldestIsOne ==
    ASSUME NEW rows, rows \subseteq Nat, rows # {}
    PROVE  Oldest(rows) \in rows
<1> DEFINE less == {ss \in Nat \X Nat : ss[1] < ss[2]}
<1>1. IsWellFoundedOn(less, Nat)
  BY NatLessThanWellFounded, Zenon DEF OpToRel
<1> HIDE DEF less
<1>2. PICK i \in rows : \A j \in rows : ~(<<j, i>> \in less)
  BY <1>1, WFMin
<1>3. \A j \in Nat : j < i => <<j, i>> \in less
  BY DEF less
<1>4. \A j \in rows : ~(j < i)
  BY <1>2, <1>3
<1>5. \A j \in rows : i <= j
  BY <1>4
<1> QED
  BY <1>5 DEF Oldest

-----------------------------------------------------------------------------
(* The shape of the state: types, and what edits, passes and calls carry.  *)

(* Every stored flow is at version 1, since an edit carries 0 and Save     *)
(* adds one; and no edit was begun on an armed flow.                       *)
FlowsOK ==
    /\ \A f \in Flows : flows[f].state = "stored" => flows[f].version = 1
    /\ \/ editing = NoEdit
       \/ /\ editing.op \in {"save", "delete"} /\ editing.flow \in Flows
          /\ editing.op = "save" =>
                 /\ editing.new.state = "stored" /\ editing.new.version = 0
                 /\ ~(editing.new.enabled /\ editing.new.live)

PassOK ==
    /\ \A x \in Loops :
           /\ \A f \in Flows : pass[x].loaded[f].state = "stored" =>
                                   pass[x].loaded[f].version = 1
           /\ \A f \in pass[x].todo :
                  pass[x].at \in Identities /\ pass[x].loaded[f].state = "stored"
    /\ pass["drainer"] # NoPass =>
           \E i \in 1..Len(inbox) : pass["drainer"].at = <<"inbox", i>>
    /\ pass["drainer"].rest \subseteq 1..Len(inbox)

CallFits(c) ==
    /\ c.flow \in Flows /\ c.id \in Identities /\ c.version = 1
    /\ c.pc \in {"called", "counted"} => c.step = 0

CallOK == \A x \in Executors : call[x].pc # "idle" => CallFits(call[x])

(* TypeOK, by the variables the steps change together.                     *)
FlowTypes == flows \in [Flows -> FlowRecords] /\ editing \in EditRecords
InboxTypes == inbox \in Seq(InboxRows) /\ Len(inbox) <= MaxRows
RunTypes ==
    /\ runs \in Seq(RunRecords)
    /\ lapsed \in 0..Len(runs)
    /\ effects \in [Flows \X Identities -> Nat]
    /\ turnedAway \subseteq Flows \X Identities
CallTypes ==
    /\ pass \in [Loops -> PassRecords]
    /\ call \in [Executors -> CallRecords]
CountTypes ==
    /\ presses \in 0..MaxPresses
    /\ decisions \in 0..MaxDecisions
    /\ lost \in 0..MaxLost
    /\ crashes \in 0..MaxCrashes

LEMMA TypeParts ==
    TypeOK <=> FlowTypes /\ InboxTypes /\ RunTypes /\ CallTypes /\ CountTypes
  BY DEF TypeOK, FlowTypes, InboxTypes, RunTypes, CallTypes, CountTypes,
         EditRecords, InboxRows, RunRecords, PassRecords, CallRecords

Shape ==
    /\ FlowTypes /\ InboxTypes /\ RunTypes /\ CallTypes /\ CountTypes
    /\ FlowsOK /\ PassOK /\ CallOK

LEMMA ShapeStart == Init => Shape
<1> SUFFICES ASSUME Init PROVE Shape
  OBVIOUS
<1>1. FlowTypes /\ FlowsOK
  BY FlowConstants DEF Init, FlowTypes, FlowsOK
<1>2. /\ inbox \in Seq(InboxRows) /\ Len(inbox) = 0
      /\ runs \in Seq(RunRecords) /\ Len(runs) = 0
  BY EmptySeq DEF Init
<1>3. InboxTypes /\ RunTypes
  BY <1>2, FlowBounds DEF Init, InboxTypes, RunTypes
<1>4. CallTypes /\ CallOK
  BY FlowConstants DEF Init, CallTypes, CallOK
<1>5. PassOK
  BY FlowConstants DEF Init, PassOK, Loops
<1>6. CountTypes
  BY FlowBounds DEF Init, CountTypes
<1> QED
  BY <1>1, <1>3, <1>4, <1>5, <1>6 DEF Shape

LEMMA LoseKeepsCounts ==
    ASSUME CountTypes, UNCHANGED <<presses, decisions, crashes>>,
           UNCHANGED lost \/ LoseStatement
    PROVE  CountTypes'
  BY FlowBounds DEF CountTypes, LoseStatement

(* The console's edits and switches.                                       *)
LEMMA ConsoleShape ==
    ASSUME Shape,
           \/ \E f \in Flows, d \in Documents : CreateFlow(f, d) \/ EditFlow(f, d)
           \/ \E f \in Flows : AskDelete(f) \/ SetEnabled(f) \/ SetMode(f)
           \/ WriteEdit
    PROVE  Shape'
<1>0. FlowTypes /\ FlowsOK /\ CountTypes
  BY DEF Shape
<1>1. /\ UNCHANGED <<inbox, runs, lapsed, pass, call, effects, turnedAway,
                     presses, lost, crashes>>
      /\ UNCHANGED decisions \/ Decide
  BY DEF CreateFlow, EditFlow, AskDelete, SetEnabled, SetMode, WriteEdit, control
<1>2. CountTypes'
  BY <1>0, <1>1, FlowBounds DEF CountTypes, Decide
<1>3. FlowTypes' /\ FlowsOK'
  <2>1. ASSUME NEW f \in Flows, NEW d \in Documents, CreateFlow(f, d)
        PROVE  FlowTypes' /\ FlowsOK'
    BY <1>0, <2>1 DEF CreateFlow, FlowTypes, FlowsOK, FlowRecords
  <2>2. ASSUME NEW f \in Flows, NEW d \in Documents, EditFlow(f, d)
        PROVE  FlowTypes' /\ FlowsOK'
    <3> DEFINE new == [flows[f] EXCEPT !.doc = d, !.version = 0]
    <3>1. /\ new \in FlowRecords /\ new.state = "stored" /\ new.version = 0
          /\ ~(new.enabled /\ new.live)
      BY <1>0, <2>2 DEF EditFlow, Stored, FlowTypes, FlowRecords
    <3>2. /\ editing' = [op |-> "save", flow |-> f, new |-> new]
          /\ UNCHANGED flows
      BY <2>2 DEF EditFlow
    <3> HIDE DEF new
    <3> QED
      BY <1>0, <3>1, <3>2 DEF FlowTypes, FlowsOK, EditRecords
  <2>3. ASSUME NEW f \in Flows, AskDelete(f)
        PROVE  FlowTypes' /\ FlowsOK'
    BY <1>0, <2>3 DEF AskDelete, FlowTypes, FlowsOK, EditRecords
  <2>4. ASSUME NEW f \in Flows, SetEnabled(f)
        PROVE  FlowTypes' /\ FlowsOK'
    BY <1>0, <2>4 DEF SetEnabled, FlowTypes, FlowsOK, FlowRecords
  <2>5. ASSUME NEW f \in Flows, SetMode(f)
        PROVE  FlowTypes' /\ FlowsOK'
    BY <1>0, <2>5 DEF SetMode, FlowTypes, FlowsOK, FlowRecords
  <2>6. CASE WriteEdit
    <3> DEFINE f == editing.flow
               g == IF editing.op = "delete" THEN [Unborn EXCEPT !.state = "deleted"]
                                             ELSE SavedFlow(f)
    <3>1. /\ editing.op \in {"save", "delete"} /\ f \in Flows
          /\ editing.new \in FlowRecords
          /\ editing.op = "save" =>
                 editing.new.state = "stored" /\ editing.new.version = 0
      BY <1>0, <2>6 DEF WriteEdit, FlowTypes, FlowsOK, EditRecords
    <3>2. flows' = [flows EXCEPT ![f] = g] /\ editing' = NoEdit
      BY <2>6 DEF WriteEdit
    <3>3. g \in FlowRecords /\ (g.state = "stored" => g.version = 1)
      <4> DEFINE new == editing.new
                 old == Unborn
      <4>1. /\ old \in FlowRecords
            /\ new \in FlowRecords
            /\ editing.op = "save" => new.state = "stored" /\ new.version = 0
            /\ editing.op \in {"save", "delete"}
        BY <3>1, FlowConstants
      <4>2. g = IF editing.op = "delete" THEN [old EXCEPT !.state = "deleted"]
                ELSE [new EXCEPT !.version = new.version + 1]
        BY Zenon DEF SavedFlow
      <4> HIDE DEF old, new, g
      <4>3. CASE editing.op = "delete"
        BY <4>1, <4>2, <4>3 DEF FlowRecords
      <4>4. CASE editing.op = "save"
        BY <4>1, <4>2, <4>4 DEF FlowRecords
      <4> QED
        BY <4>1, <4>3, <4>4
    <3> HIDE DEF g
    <3>4. FlowTypes'
      BY <1>0, <3>1, <3>2, <3>3, FlowConstants DEF FlowTypes
    <3> QED
      BY <1>0, <3>1, <3>2, <3>3, <3>4 DEF FlowTypes, FlowsOK
  <2> QED
    BY <2>1, <2>2, <2>3, <2>4, <2>5, <2>6
<1>4. InboxTypes' /\ RunTypes' /\ CallTypes' /\ PassOK' /\ CallOK'
  BY <1>1 DEF Shape, InboxTypes, RunTypes, CallTypes, PassOK, CallOK, CallFits
<1> QED
  BY <1>2, <1>3, <1>4 DEF Shape

(* What Execute is called with.                                            *)
LEMMA CallForFits ==
    ASSUME NEW f \in Flows, NEW g \in FlowRecords, g.version = 1,
           NEW id \in Identities
    PROVE  LET c == CallFor(f, g, id)
           IN  /\ c \in CallRecords /\ CallFits(c) /\ c.pc = "called"
               /\ c.flow = f /\ c.id = id
  BY DEF CallFor, CallRecords, CallStates, CallFits, FlowRecords

(* One call replaced.                                                      *)
LEMMA CallReplaced ==
    ASSUME CallTypes, CallOK, NEW x \in Executors, NEW c \in CallRecords,
           c.pc # "idle" => CallFits(c),
           call' = [call EXCEPT ![x] = c]
    PROVE  /\ call' \in [Executors -> CallRecords]
           /\ call'[x] = c
           /\ \A y \in Executors : y # x => call'[y] = call[y]
           /\ CallOK'
<1>1. /\ call' \in [Executors -> CallRecords]
      /\ call'[x] = c
      /\ \A y \in Executors : y # x => call'[y] = call[y]
  BY DEF CallTypes
<1>2. CallOK'
  <2> SUFFICES ASSUME NEW y \in Executors, call'[y].pc # "idle"
               PROVE  CallFits(call'[y])
    BY DEF CallOK
  <2> QED
    BY <1>1 DEF CallOK
<1> QED
  BY <1>1, <1>2

(* Execute up to the ceiling: the call is counted, or returns with the     *)
(* trigger on record as turned away.                                       *)
LEMMA CeilingEffect ==
    ASSUME Shape, NEW x \in Executors, NEW c \in CallRecords,
           c.pc = "called", CallFits(c), CheckCeiling(x, c)
    PROVE  /\ call' \in [Executors -> CallRecords] /\ CallOK'
           /\ \A y \in Executors : y # x => call'[y] = call[y]
           /\ \/ /\ call'[x] = [c EXCEPT !.pc = "counted"]
                 /\ UnderCeiling(c) /\ UNCHANGED turnedAway
              \/ /\ call'[x] = NoCall
                 /\ c.id[1] = "inbox" => <<c.flow, c.id>> \in turnedAway'
           /\ turnedAway \subseteq turnedAway'
           /\ turnedAway' \subseteq Flows \X Identities
           /\ UNCHANGED lost \/ LoseStatement
<1>0. CallTypes /\ CallOK /\ turnedAway \subseteq Flows \X Identities
  BY DEF Shape, RunTypes
<1>1. CASE /\ UnderCeiling(c)
           /\ call' = [call EXCEPT ![x] = [c EXCEPT !.pc = "counted"]]
           /\ UNCHANGED <<turnedAway, lost>>
  <2> DEFINE d == [c EXCEPT !.pc = "counted"]
  <2>1. d \in CallRecords /\ CallFits(d)
    BY DEF CallRecords, CallStates, CallFits
  <2>2. call' = [call EXCEPT ![x] = d]
    BY <1>1
  <2>3. d = [c EXCEPT !.pc = "counted"]
    OBVIOUS
  <2> HIDE DEF d
  <2>4. /\ call' \in [Executors -> CallRecords] /\ CallOK' /\ call'[x] = d
        /\ \A y \in Executors : y # x => call'[y] = call[y]
    BY <1>0, <2>1, <2>2, CallReplaced
  <2>5. call'[x] = [c EXCEPT !.pc = "counted"]
    BY <2>3, <2>4, Zenon
  <2> QED
    BY <1>0, <1>1, <2>4, <2>5, Zenon
<1>2. CASE TurnAway(x, c) /\ (UNCHANGED lost \/ LoseStatement)
  <2>1. call' = [call EXCEPT ![x] = NoCall]
    BY <1>2 DEF TurnAway, Return
  <2>2. /\ call' \in [Executors -> CallRecords] /\ CallOK' /\ call'[x] = NoCall
        /\ \A y \in Executors : y # x => call'[y] = call[y]
    BY <1>0, <2>1, FlowConstants, CallReplaced
  <2>3. c.flow \in Flows /\ c.id \in Identities
    BY DEF CallFits
  <2>4. turnedAway' = IF c.id[1] = "inbox"
                      THEN turnedAway \cup {<<c.flow, c.id>>} ELSE turnedAway
    BY <1>2 DEF TurnAway
  <2>5. /\ c.id[1] = "inbox" => <<c.flow, c.id>> \in turnedAway'
        /\ turnedAway \subseteq turnedAway'
        /\ turnedAway' \subseteq Flows \X Identities
    BY <1>0, <2>3, <2>4
  <2> QED
    BY <1>2, <2>2, <2>5, Zenon
<1> QED
  BY <1>1, <1>2, Zenon DEF CheckCeiling

LEMMA RunNowShape ==
    ASSUME Shape, NEW o \in Operators, NEW f \in Flows, RunNow(o, f)
    PROVE  Shape'
<1>0. FlowTypes /\ FlowsOK /\ CallTypes /\ CallOK /\ CountTypes /\ o \in Executors
  BY DEF Shape, Executors
<1>1. /\ flows[f].state = "stored" /\ presses < MaxPresses
      /\ presses' = presses + 1
      /\ call' = [call EXCEPT ![o] = CallFor(f, flows[f], <<"manual", presses + 1>>)]
      /\ UNCHANGED <<flows, editing, inbox, runs, lapsed, pass, effects,
                     turnedAway, decisions, lost, crashes>>
  BY DEF RunNow, Stored
<1>2. <<"manual", presses + 1>> \in Identities
  BY <1>0, <1>1, IdentityFacts, FlowBounds DEF CountTypes
<1>3. flows[f] \in FlowRecords /\ flows[f].version = 1
  BY <1>0, <1>1 DEF FlowTypes, FlowsOK
<1>4. /\ CallFor(f, flows[f], <<"manual", presses + 1>>) \in CallRecords
      /\ CallFits(CallFor(f, flows[f], <<"manual", presses + 1>>))
  BY <1>2, <1>3, CallForFits
<1>5. call' \in [Executors -> CallRecords] /\ CallOK'
  BY <1>0, <1>1, <1>4, CallReplaced
<1>6. CountTypes'
  BY <1>0, <1>1, FlowBounds DEF CountTypes
<1>7. FlowTypes' /\ InboxTypes' /\ RunTypes' /\ CallTypes' /\ FlowsOK' /\ PassOK'
  BY <1>1, <1>5
     DEF Shape, FlowTypes, InboxTypes, RunTypes, CallTypes, FlowsOK, PassOK
<1> QED
  BY <1>5, <1>6, <1>7 DEF Shape

LEMMA ExecuteNowShape ==
    ASSUME Shape, NEW o \in Operators, ExecuteNow(o)
    PROVE  Shape'
<1>0. CallTypes /\ CallOK /\ CountTypes /\ o \in Executors
  BY DEF Shape, Executors
<1>1. /\ call[o].pc = "called" /\ call[o] \in CallRecords /\ CallFits(call[o])
      /\ CheckCeiling(o, call[o])
      /\ UNCHANGED <<flows, editing, inbox, runs, lapsed, pass, effects,
                     presses, decisions, crashes>>
  BY <1>0 DEF ExecuteNow, CallTypes, CallOK
<1>2. /\ call' \in [Executors -> CallRecords] /\ CallOK'
      /\ turnedAway' \subseteq Flows \X Identities
      /\ UNCHANGED lost \/ LoseStatement
  BY <1>0, <1>1, CeilingEffect
<1>3. CountTypes'
  BY <1>0, <1>1, <1>2, LoseKeepsCounts
<1>4. FlowTypes' /\ InboxTypes' /\ RunTypes' /\ CallTypes' /\ FlowsOK' /\ PassOK'
  BY <1>1, <1>2
     DEF Shape, FlowTypes, InboxTypes, RunTypes, CallTypes, FlowsOK, PassOK
<1> QED
  BY <1>2, <1>3, <1>4 DEF Shape

(* A loop's next Execute.                                                  *)
LEMMA OfferEffect ==
    ASSUME Shape, NEW x \in Loops, Offer(x)
    PROVE  \E f \in pass[x].todo :
               LET c == CallFor(f, pass[x].loaded[f], pass[x].at)
               IN  /\ c \in CallRecords /\ CallFits(c) /\ c.pc = "called"
                   /\ c.flow = f /\ c.id = pass[x].at
                   /\ CheckCeiling(x, c)
                   /\ pass' = [pass EXCEPT ![x].todo = @ \ {f}]
<1>1. PICK f \in pass[x].todo :
          /\ CheckCeiling(x, CallFor(f, pass[x].loaded[f], pass[x].at))
          /\ pass' = [pass EXCEPT ![x].todo = @ \ {f}]
  BY DEF Offer
<1>2. /\ f \in Flows /\ pass[x].loaded[f] \in FlowRecords
      /\ pass[x].loaded[f].version = 1 /\ pass[x].at \in Identities
  BY DEF Shape, CallTypes, PassRecords, PassOK
<1> DEFINE c == CallFor(f, pass[x].loaded[f], pass[x].at)
<1>3. /\ c \in CallRecords /\ CallFits(c) /\ c.pc = "called"
      /\ c.flow = f /\ c.id = pass[x].at
  BY <1>2, CallForFits
<1> QED
  BY <1>1, <1>3, Zenon

LEMMA OfferShape ==
    ASSUME Shape, NEW x \in Loops, Offer(x)
    PROVE  Shape'
<1>0. CallTypes /\ CallOK /\ PassOK /\ CountTypes /\ x \in Executors
  BY DEF Shape, Executors
<1>1. PICK f \in pass[x].todo, c \in CallRecords :
          /\ CallFits(c) /\ c.pc = "called" /\ CheckCeiling(x, c)
          /\ pass' = [pass EXCEPT ![x].todo = @ \ {f}]
  BY OfferEffect
<1>2. /\ call' \in [Executors -> CallRecords] /\ CallOK'
      /\ turnedAway' \subseteq Flows \X Identities
      /\ UNCHANGED lost \/ LoseStatement
  BY <1>0, <1>1, CeilingEffect
<1>3. UNCHANGED <<flows, editing, inbox, runs, lapsed, effects, presses,
                  decisions, crashes>>
  BY DEF Offer
<1>4. CountTypes'
  BY <1>0, <1>2, <1>3, LoseKeepsCounts
<1>5. /\ pass' \in [Loops -> PassRecords]
      /\ \A y \in Loops :
             /\ pass'[y].at = pass[y].at /\ pass'[y].loaded = pass[y].loaded
             /\ pass'[y].rest = pass[y].rest
             /\ pass'[y].todo \subseteq pass[y].todo
      /\ \A y \in Loops : y # x => pass'[y] = pass[y]
  BY <1>0, <1>1 DEF CallTypes, PassRecords
<1>6. PassOK'
  <2>1. pass[x] # NoPass
    BY <1>1, FlowConstants
  <2>2. "drainer" \in Loops
    BY DEF Loops
  <2>3. pass'["drainer"] # NoPass =>
            \E i \in 1..Len(inbox) : pass'["drainer"].at = <<"inbox", i>>
    BY <1>0, <1>5, <2>1, <2>2 DEF PassOK
  <2> QED
    BY <1>0, <1>3, <1>5, <2>2, <2>3 DEF PassOK
<1>7. FlowTypes' /\ InboxTypes' /\ RunTypes' /\ CallTypes' /\ FlowsOK'
  BY <1>2, <1>3, <1>5
     DEF Shape, FlowTypes, InboxTypes, RunTypes, CallTypes, FlowsOK
<1> QED
  BY <1>2, <1>4, <1>6, <1>7 DEF Shape

-----------------------------------------------------------------------------
(* The rest of Execute.                                                    *)

NewRun(x) == [flow |-> call[x].flow, version |-> call[x].version,
              id |-> call[x].id, doc |-> call[x].doc, status |-> "running"]

(* What Begin does: the row that claims the key; a return without one.     *)
Begins(x) ==
    /\ ~Claimed(call[x])
    /\ runs' = Append(runs, NewRun(x))
    /\ call' = [call EXCEPT ![x].pc = "begun", ![x].run = Len(runs) + 1]
    /\ UNCHANGED <<turnedAway, lost>>

Drops(x) ==
    /\ call' = [call EXCEPT ![x] = NoCall]
    /\ UNCHANGED runs
    /\ \/ Claimed(call[x]) /\ UNCHANGED <<turnedAway, lost>>
       \/ TurnAway(x, call[x]) /\ LoseStatement

LEMMA BeginCases ==
    ASSUME NEW x \in Executors, Begin(x)
    PROVE  /\ call[x].pc = "counted"
           /\ Begins(x) \/ Drops(x)
           /\ UNCHANGED <<flows, editing, inbox, lapsed, pass, effects, presses,
                          decisions, crashes>>
  BY Zenon DEF Begin, Begins, Drops, NewRun, Return, TurnAway

LEMMA RunFacts ==
    ASSUME RunTypes
    PROVE  /\ Len(runs) \in Nat /\ DOMAIN runs = 1..Len(runs)
           /\ \A i \in 1..Len(runs) : runs[i] \in RunRecords
  BY LenProperties, ElementOfSeq DEF RunTypes

LEMMA NewRunTyped ==
    ASSUME Shape, NEW x \in Executors, call[x].pc # "idle"
    PROVE  /\ NewRun(x) \in RunRecords
           /\ NewRun(x).flow = call[x].flow /\ NewRun(x).id = call[x].id
           /\ NewRun(x).doc = call[x].doc /\ NewRun(x).status = "running"
           /\ NewRun(x).version = 1
<1>1. call[x] \in CallRecords /\ CallFits(call[x])
  BY DEF Shape, CallTypes, CallOK
<1> QED
  BY <1>1 DEF NewRun, RunRecords, CallRecords, CallFits

(* The trail with one more row.                                            *)
LEMMA RunAppended ==
    ASSUME RunTypes, NEW r \in RunRecords, runs' = Append(runs, r)
    PROVE  /\ runs' \in Seq(RunRecords)
           /\ Len(runs') = Len(runs) + 1
           /\ \A i \in 1..Len(runs) : runs'[i] = runs[i]
           /\ runs'[Len(runs) + 1] = r
           /\ DOMAIN runs' = 1..(Len(runs) + 1)
<1>1. runs \in Seq(RunRecords)
  BY DEF RunTypes
<1>2. /\ Append(runs, r) \in Seq(RunRecords)
      /\ Len(Append(runs, r)) = Len(runs) + 1
      /\ \A i \in 1..Len(runs) : Append(runs, r)[i] = runs[i]
      /\ Append(runs, r)[Len(runs) + 1] = r
  BY <1>1, AppendProperties
<1>3. /\ runs' \in Seq(RunRecords)
      /\ Len(runs') = Len(runs) + 1
      /\ \A i \in 1..Len(runs) : runs'[i] = runs[i]
      /\ runs'[Len(runs) + 1] = r
  BY <1>2, Zenon
<1>4. DOMAIN runs' = 1..Len(runs')
  BY <1>3, LenProperties
<1> QED
  BY <1>3, <1>4

(* A column of the trail rewritten, of one row or of several.              *)
LEMMA RunsRewritten ==
    ASSUME RunTypes, NEW g \in [1..Len(runs) -> RunRecords], runs' = g
    PROVE  /\ runs' \in Seq(RunRecords)
           /\ Len(runs') = Len(runs)
           /\ DOMAIN runs' = 1..Len(runs)
<1>1. Len(runs) \in Nat
  BY RunFacts
<1>2. runs' \in Seq(RunRecords)
  BY <1>1, SeqDef
<1>3. DOMAIN runs' = 1..Len(runs') /\ Len(runs') \in Nat
  BY <1>2, LenProperties
<1>4. DOMAIN runs' = 1..Len(runs)
  OBVIOUS
<1> QED
  BY <1>1, <1>2, <1>3, <1>4

LEMMA FinishEffect ==
    ASSUME Shape, NEW x \in Executors, Finish(x), call[x].run \in 1..Len(runs)
    PROVE  /\ runs' \in Seq(RunRecords)
           /\ Len(runs') = Len(runs)
           /\ DOMAIN runs' = 1..Len(runs)
           /\ \A i \in 1..Len(runs) :
                  /\ runs'[i].flow = runs[i].flow /\ runs'[i].id = runs[i].id
                  /\ runs'[i].doc = runs[i].doc /\ runs'[i].version = runs[i].version
                  /\ i # call[x].run => runs'[i] = runs[i]
           /\ call' = [call EXCEPT ![x] = NoCall]
           /\ UNCHANGED lost \/ LoseStatement
           /\ UNCHANGED <<flows, editing, inbox, lapsed, pass, effects,
                          turnedAway, presses, decisions, crashes>>
<1>0. /\ RunTypes /\ Len(runs) \in Nat /\ DOMAIN runs = 1..Len(runs)
      /\ \A i \in 1..Len(runs) : runs[i] \in RunRecords
  BY RunFacts DEF Shape
<1>1. /\ call' = [call EXCEPT ![x] = NoCall]
      /\ UNCHANGED lost \/ LoseStatement
      /\ UNCHANGED <<flows, editing, inbox, lapsed, pass, effects,
                     turnedAway, presses, decisions, crashes>>
      /\ \/ runs' = [runs EXCEPT ![call[x].run].status = "ended"]
         \/ UNCHANGED runs
  BY DEF Finish, Return
<1>2. CASE runs' = [runs EXCEPT ![call[x].run].status = "ended"]
  <2> DEFINE n == call[x].run
             r == [runs[n] EXCEPT !.status = "ended"]
  <2>1. /\ r \in RunRecords
        /\ r.flow = runs[n].flow /\ r.id = runs[n].id /\ r.doc = runs[n].doc
        /\ r.version = runs[n].version
    BY <1>0 DEF RunRecords, Finished
  <2>2. runs' = [runs EXCEPT ![n] = r]
    BY <1>2, Zenon
  <2> HIDE DEF r
  <2>3. n \in 1..Len(runs) /\ runs \in Seq(RunRecords)
    BY <1>0 DEF RunTypes
  <2> HIDE DEF n
  <2>4. /\ runs' \in Seq(RunRecords) /\ Len(runs') = Len(runs)
        /\ \A j \in 1..Len(runs) : runs'[j] = IF j = n THEN r ELSE runs[j]
    BY <2>1, <2>2, <2>3, ExceptSeq
  <2>5. DOMAIN runs' = 1..Len(runs')
    BY <2>4, LenProperties
  <2> QED
    BY <1>1, <2>1, <2>4, <2>5 DEF n
<1>3. CASE UNCHANGED runs
  BY <1>0, <1>1, <1>3 DEF RunTypes
<1> QED
  BY <1>1, <1>2, <1>3

-----------------------------------------------------------------------------
(* The trail: at most one run of a flow for a trigger; who is in a run is  *)
(* alone in it, and its writes are within its steps; the writes of a run   *)
(* are within the ceiling of its document.                                 *)

OneRun ==
    \A i, j \in 1..Len(runs) :
        runs[i].flow = runs[j].flow /\ runs[i].id = runs[j].id => i = j

RunFits(x) ==
    /\ call[x].run \in 1..Len(runs)
    /\ runs[call[x].run].flow = call[x].flow
    /\ runs[call[x].run].id = call[x].id
    /\ runs[call[x].run].doc = call[x].doc
    /\ runs[call[x].run].status = "running"
    /\ effects[<<call[x].flow, call[x].id>>] <= call[x].step
    /\ call[x].step <= call[x].doc.writes

BegunOK ==
    /\ \A x \in Executors : call[x].pc = "begun" => RunFits(x)
    /\ \A x, y \in Executors :
           call[x].pc = "begun" /\ call[y].pc = "begun" /\ x # y =>
               call[x].run # call[y].run

EffectsOK ==
    \A f \in Flows, id \in Identities :
        effects[<<f, id>>] > 0 =>
            \E i \in 1..Len(runs) :
                /\ runs[i].flow = f /\ runs[i].id = id
                /\ effects[<<f, id>>] <= runs[i].doc.writes

RunsOK ==
    /\ OneRun /\ BegunOK /\ EffectsOK
    /\ \A i \in 1..Len(runs) : runs[i].version = 1

LEMMA RunsStart == Init => RunsOK
<1> SUFFICES ASSUME Init PROVE RunsOK
  OBVIOUS
<1>1. Len(runs) = 0
  BY EmptySeq DEF Init
<1>2. OneRun /\ EffectsOK /\ \A i \in 1..Len(runs) : runs[i].version = 1
  BY <1>1 DEF Init, OneRun, EffectsOK
<1>3. BegunOK
  BY FlowConstants DEF Init, BegunOK
<1> QED
  BY <1>2, <1>3 DEF RunsOK

(* A step that leaves the trail, the world and those in a run alone.       *)
LEMMA RunsUnmoved ==
    ASSUME RunsOK, UNCHANGED <<runs, effects>>,
           \A x \in Executors : call'[x].pc = "begun" => call'[x] = call[x]
    PROVE  RunsOK'
<1>1. BegunOK'
  BY DEF RunsOK, BegunOK, RunFits
<1>2. OneRun' /\ EffectsOK' /\ \A i \in 1..Len(runs') : runs'[i].version = 1
  BY DEF RunsOK, OneRun, EffectsOK
<1> QED
  BY <1>1, <1>2 DEF RunsOK

LEMMA BeginKeeps ==
    ASSUME Shape, RunsOK, NEW x \in Executors, Begin(x)
    PROVE  Shape' /\ RunsOK'
<1>0. /\ CallTypes /\ CallOK /\ RunTypes /\ CountTypes
      /\ OneRun /\ BegunOK /\ EffectsOK
      /\ \A i \in 1..Len(runs) : runs[i].version = 1
      /\ Len(runs) \in Nat
  BY RunFacts DEF Shape, RunsOK
<1>1. /\ call[x].pc = "counted"
      /\ Begins(x) \/ Drops(x)
      /\ UNCHANGED <<flows, editing, inbox, lapsed, pass, effects, presses,
                     decisions, crashes>>
  BY BeginCases
<1>2. /\ call[x] \in CallRecords /\ CallFits(call[x]) /\ call[x].pc = "counted"
      /\ call[x].step = 0
  BY <1>0, <1>1, BeginCases DEF CallTypes, CallOK, CallFits
<1>3. FlowTypes' /\ InboxTypes' /\ FlowsOK' /\ PassOK' /\ pass' \in [Loops -> PassRecords]
  BY <1>1 DEF Shape, FlowTypes, InboxTypes, CallTypes, FlowsOK, PassOK
<1>4. CASE Begins(x)
  <2> DEFINE r == NewRun(x)
             n == Len(runs) + 1
             c == [call[x] EXCEPT !.pc = "begun", !.run = n]
  <2>1. /\ r \in RunRecords
        /\ r.flow = call[x].flow /\ r.id = call[x].id
        /\ r.doc = call[x].doc /\ r.status = "running" /\ r.version = 1
    BY <1>2, NewRunTyped
  <2>2. runs' = Append(runs, r)
    BY <1>4 DEF Begins
  <2>3. ~Claimed(call[x]) /\ UNCHANGED <<turnedAway, lost>>
    BY <1>4 DEF Begins
  <2>4. call' = [call EXCEPT ![x] = c]
    BY <1>4, Zenon DEF Begins
  <2>5. /\ c \in CallRecords /\ c.pc = "begun" /\ c.run = n
        /\ c.flow = call[x].flow /\ c.id = call[x].id /\ c.doc = call[x].doc
        /\ c.step = 0 /\ CallFits(c)
    <3> DEFINE d == call[x]
    <3>1. /\ d \in CallRecords /\ d.step = 0 /\ n \in Nat
          /\ d.flow \in Flows /\ d.id \in Identities /\ d.version = 1
      BY <1>0, <1>2 DEF CallFits
    <3>2. c = [d EXCEPT !.pc = "begun", !.run = n]
      OBVIOUS
    <3> HIDE DEF c, d, n
    <3>3. /\ c \in CallRecords /\ c.pc = "begun" /\ c.run = n
          /\ c.flow = d.flow /\ c.id = d.id /\ c.doc = d.doc
          /\ c.step = 0 /\ c.version = 1
      BY <3>1, <3>2 DEF CallRecords, CallStates
    <3> QED
      BY <3>1, <3>3 DEF CallFits, d
  <2> HIDE DEF r, c
  <2>6. /\ runs' \in Seq(RunRecords)
        /\ Len(runs') = n
        /\ \A i \in 1..Len(runs) : runs'[i] = runs[i]
        /\ runs'[n] = r
    BY <1>0, <2>1, <2>2, RunAppended
  <2> HIDE DEF n
  <2>7. n \in Nat /\ n = Len(runs) + 1 /\ 1..n = 1..Len(runs) \cup {n}
    BY <1>0 DEF n
  <2>8. /\ call' \in [Executors -> CallRecords] /\ CallOK'
        /\ call'[x] = c
        /\ \A y \in Executors : y # x => call'[y] = call[y]
    BY <1>0, <2>4, <2>5, CallReplaced
  <2>9. RunTypes' /\ CallTypes' /\ CountTypes'
    BY <1>0, <1>1, <1>3, <2>3, <2>6, <2>7, <2>8
       DEF RunTypes, CallTypes, CountTypes
  <2>10. \A i \in 1..Len(runs) :
             ~(runs[i].flow = call[x].flow /\ runs[i].id = call[x].id)
    BY <1>0, <1>2, <2>3 DEF Claimed, CallFits
  <2>11. OneRun'
    BY <1>0, <2>1, <2>6, <2>7, <2>10 DEF OneRun
  <2>12. \A i \in 1..Len(runs') : runs'[i].version = 1
    BY <1>0, <2>1, <2>6, <2>7
  <2>13. effects[<<call[x].flow, call[x].id>>] = 0
    <3>1. call[x].flow \in Flows /\ call[x].id \in Identities
      BY <1>2 DEF CallFits
    <3>2. effects[<<call[x].flow, call[x].id>>] \in Nat
      BY <1>0, <3>1 DEF RunTypes
    <3>3. ~(effects[<<call[x].flow, call[x].id>>] > 0)
      BY <1>0, <2>10, <3>1 DEF EffectsOK
    <3> QED
      BY <3>2, <3>3
  <2>14. call[x].doc.writes \in Nat
    BY <1>2, DocumentsAssumption DEF CallRecords, NoDoc
  <2>15. BegunOK'
    <3>1. RunFits(x)'
      BY <1>1, <2>1, <2>5, <2>6, <2>7, <2>8, <2>13, <2>14 DEF RunFits
    <3>2. ASSUME NEW y \in Executors, y # x, call'[y].pc = "begun"
          PROVE  RunFits(y)' /\ call'[y].run # n
      <4>1. call'[y] = call[y] /\ RunFits(y)
        BY <1>0, <2>8, <3>2 DEF BegunOK
      <4> QED
        BY <1>1, <2>6, <2>7, <4>1 DEF RunFits
    <3>3. \A y \in Executors : call'[y].pc = "begun" => RunFits(y)'
      BY <3>1, <3>2
    <3>4. \A y, z \in Executors :
              call'[y].pc = "begun" /\ call'[z].pc = "begun" /\ y # z =>
                  call'[y].run # call'[z].run
      BY <1>0, <2>5, <2>8, <3>2 DEF BegunOK
    <3> QED
      BY <3>3, <3>4 DEF BegunOK
  <2>16. EffectsOK'
    <3> SUFFICES ASSUME NEW f \in Flows, NEW id \in Identities,
                        effects[<<f, id>>] > 0
                 PROVE  \E i \in 1..n :
                            /\ runs'[i].flow = f /\ runs'[i].id = id
                            /\ effects[<<f, id>>] <= runs'[i].doc.writes
      BY <1>1, <2>6 DEF EffectsOK
    <3>1. PICK i \in 1..Len(runs) :
              /\ runs[i].flow = f /\ runs[i].id = id
              /\ effects[<<f, id>>] <= runs[i].doc.writes
      BY <1>0 DEF EffectsOK
    <3>2. runs'[i] = runs[i] /\ i \in 1..n
      BY <2>6, <2>7
    <3> QED
      BY <3>1, <3>2
  <2> QED
    BY <1>1, <1>3, <2>8, <2>9, <2>11, <2>12, <2>15, <2>16 DEF Shape, RunsOK
<1>5. CASE Drops(x)
  <2>1. /\ call' = [call EXCEPT ![x] = NoCall] /\ UNCHANGED runs
        /\ UNCHANGED lost \/ LoseStatement
        /\ UNCHANGED turnedAway \/ TurnAway(x, call[x])
    BY <1>5 DEF Drops
  <2>2. /\ call' \in [Executors -> CallRecords] /\ CallOK'
        /\ call'[x] = NoCall
        /\ \A y \in Executors : y # x => call'[y] = call[y]
    BY <1>0, <2>1, FlowConstants, CallReplaced
  <2>3. turnedAway' \subseteq Flows \X Identities
    BY <1>0, <1>2, <2>1 DEF TurnAway, CallFits, RunTypes
  <2>4. RunTypes' /\ CallTypes'
    BY <1>0, <1>1, <1>3, <2>1, <2>2, <2>3 DEF RunTypes, CallTypes
  <2>5. CountTypes'
    BY <1>0, <1>1, <2>1, LoseKeepsCounts
  <2>6. RunsOK'
    BY <1>1, <2>1, <2>2, FlowConstants, RunsUnmoved
  <2> QED
    BY <1>3, <2>2, <2>4, <2>5, <2>6 DEF Shape
<1> QED
  BY <1>1, <1>4, <1>5

LEMMA DoStepKeeps ==
    ASSUME Shape, RunsOK, NEW x \in Executors, DoStep(x)
    PROVE  Shape' /\ RunsOK'
<1>0. /\ CallTypes /\ CallOK /\ RunTypes
      /\ OneRun /\ BegunOK /\ EffectsOK
      /\ \A i \in 1..Len(runs) : runs[i].version = 1
      /\ Len(runs) \in Nat
  BY RunFacts DEF Shape, RunsOK
<1> DEFINE t == <<call[x].flow, call[x].id>>
           c == [call[x] EXCEPT !.step = @ + 1]
<1>1. /\ call[x].pc = "begun" /\ call[x].step < call[x].doc.writes
      /\ \/ effects' = [effects EXCEPT ![t] = @ + 1]
         \/ effects' = effects
      /\ call' = [call EXCEPT ![x] = c]
      /\ UNCHANGED <<flows, editing, inbox, runs, lapsed, pass, turnedAway,
                     presses, decisions, lost, crashes>>
  BY DEF DoStep, control
<1>2. call[x] \in CallRecords /\ CallFits(call[x]) /\ RunFits(x)
  BY <1>0, <1>1 DEF CallTypes, CallOK, BegunOK
<1>3. /\ t \in Flows \X Identities /\ effects[t] \in Nat
      /\ call[x].step \in Nat /\ call[x].doc.writes \in Nat
      /\ call[x].flow \in Flows /\ call[x].id \in Identities
  BY <1>0, <1>2, DocumentsAssumption DEF CallFits, RunTypes, CallRecords, NoDoc
<1>4. /\ c \in CallRecords /\ c.pc = "begun" /\ c.run = call[x].run
      /\ c.flow = call[x].flow /\ c.id = call[x].id /\ c.doc = call[x].doc
      /\ c.step = call[x].step + 1 /\ c.version = call[x].version
  <2> DEFINE d == call[x]
  <2>1. d \in CallRecords /\ d.pc = "begun" /\ d.step \in Nat
    BY <1>1, <1>2, <1>3
  <2>2. c = [d EXCEPT !.step = d.step + 1]
    OBVIOUS
  <2> HIDE DEF c, d
  <2>3. /\ c \in CallRecords /\ c.pc = "begun" /\ c.run = d.run
        /\ c.flow = d.flow /\ c.id = d.id /\ c.doc = d.doc
        /\ c.step = d.step + 1 /\ c.version = d.version
    BY <2>1, <2>2 DEF CallRecords, CallStates
  <2> QED
    BY <2>3 DEF d
<1> HIDE DEF c
<1>5. CallFits(c)
  BY <1>2, <1>4 DEF CallFits
<1>6. /\ call' \in [Executors -> CallRecords] /\ CallOK'
      /\ call'[x] = c
      /\ \A y \in Executors : y # x => call'[y] = call[y]
  BY <1>0, <1>1, <1>4, <1>5, CallReplaced
<1>7. /\ effects' \in [Flows \X Identities -> Nat]
      /\ \A u \in Flows \X Identities : u # t => effects'[u] = effects[u]
      /\ effects'[t] <= call[x].step + 1
      /\ effects'[t] \in Nat
  <2>1. /\ effects \in [Flows \X Identities -> Nat] /\ t \in Flows \X Identities
        /\ effects[t] \in Nat /\ effects[t] <= call[x].step /\ call[x].step \in Nat
        /\ \/ effects' = [effects EXCEPT ![t] = @ + 1]
           \/ effects' = effects
    BY <1>0, <1>1, <1>2, <1>3 DEF RunTypes, RunFits
  <2> HIDE DEF t
  <2> QED
    BY <2>1
<1> HIDE DEF t
<1>8. Shape'
  <2>1. FlowTypes' /\ InboxTypes' /\ FlowsOK' /\ PassOK' /\ CountTypes'
    BY <1>1 DEF Shape, FlowTypes, InboxTypes, FlowsOK, PassOK, CountTypes
  <2>2. RunTypes' /\ CallTypes'
    BY <1>0, <1>1, <1>6, <1>7 DEF RunTypes, CallTypes
  <2> QED
    BY <1>6, <2>1, <2>2 DEF Shape
<1>9. BegunOK'
  <2>1. RunFits(x)'
    <3>1. effects'[<<call'[x].flow, call'[x].id>>] <= call'[x].step
      BY <1>4, <1>6, <1>7 DEF t
    <3>2. call'[x].step <= call'[x].doc.writes
      BY <1>1, <1>3, <1>4, <1>6
    <3> QED
      BY <1>1, <1>2, <1>4, <1>6, <3>1, <3>2 DEF RunFits
  <2>2. ASSUME NEW y \in Executors, y # x, call'[y].pc = "begun"
        PROVE  RunFits(y)' /\ call'[y].run # call'[x].run
    <3>1. /\ call'[y] = call[y] /\ call[y].pc = "begun" /\ RunFits(y)
          /\ call[y].run # call[x].run
          /\ call[y].flow \in Flows /\ call[y].id \in Identities
      BY <1>0, <1>1, <1>6, <2>2 DEF BegunOK, CallOK, CallFits
    <3>2. ~(call[y].flow = call[x].flow /\ call[y].id = call[x].id)
      BY <1>0, <1>2, <3>1 DEF RunFits, OneRun
    <3>3. <<call[y].flow, call[y].id>> # t
      BY <3>2 DEF t
    <3>4. effects'[<<call[y].flow, call[y].id>>]
              = effects[<<call[y].flow, call[y].id>>]
      BY <1>7, <3>1, <3>3
    <3>5. RunFits(y)'
      BY <1>1, <3>1, <3>4 DEF RunFits
    <3> QED
      BY <1>4, <1>6, <3>1, <3>5
  <2>3. \A y \in Executors : call'[y].pc = "begun" => RunFits(y)'
    BY <2>1, <2>2
  <2>4. \A y, z \in Executors :
            call'[y].pc = "begun" /\ call'[z].pc = "begun" /\ y # z =>
                call'[y].run # call'[z].run
    BY <1>0, <1>6, <2>2 DEF BegunOK
  <2> QED
    BY <2>3, <2>4 DEF BegunOK
<1>10. EffectsOK'
  <2> SUFFICES ASSUME NEW f \in Flows, NEW id \in Identities,
                      effects'[<<f, id>>] > 0
               PROVE  \E i \in 1..Len(runs) :
                          /\ runs[i].flow = f /\ runs[i].id = id
                          /\ effects'[<<f, id>>] <= runs[i].doc.writes
    BY <1>1 DEF EffectsOK
  <2>1. CASE <<f, id>> = t
    <3>1. f = call[x].flow /\ id = call[x].id
      BY <2>1 DEF t
    <3>2. /\ call[x].run \in 1..Len(runs)
          /\ runs[call[x].run].flow = f /\ runs[call[x].run].id = id
          /\ runs[call[x].run].doc = call[x].doc
      BY <1>2, <3>1 DEF RunFits
    <3>3. effects'[<<f, id>>] <= call[x].doc.writes
      BY <1>1, <1>3, <1>7, <2>1
    <3> QED
      BY <3>2, <3>3
  <2>2. CASE <<f, id>> # t
    <3>1. effects'[<<f, id>>] = effects[<<f, id>>]
      BY <1>7, <2>2
    <3> QED
      BY <1>0, <3>1 DEF EffectsOK
  <2> QED
    BY <2>1, <2>2
<1>11. OneRun' /\ \A i \in 1..Len(runs') : runs'[i].version = 1
  BY <1>0, <1>1 DEF OneRun
<1> QED
  BY <1>8, <1>9, <1>10, <1>11 DEF RunsOK

(* The statuses of the trail rewritten, with nobody left in a row that is. *)
LEMMA StatusKeeps ==
    ASSUME Shape, RunsOK,
           runs' \in Seq(RunRecords), Len(runs') = Len(runs),
           \A i \in 1..Len(runs) :
               /\ runs'[i].flow = runs[i].flow /\ runs'[i].id = runs[i].id
               /\ runs'[i].doc = runs[i].doc /\ runs'[i].version = runs[i].version,
           UNCHANGED effects,
           \A x \in Executors : call'[x].pc = "begun" =>
               /\ call'[x] = call[x]
               /\ runs'[call[x].run].status = runs[call[x].run].status
    PROVE  RunsOK'
<1>1. OneRun' /\ \A i \in 1..Len(runs') : runs'[i].version = 1
  BY DEF RunsOK, OneRun
<1>2. EffectsOK'
  <2> SUFFICES ASSUME NEW f \in Flows, NEW id \in Identities,
                      effects[<<f, id>>] > 0
               PROVE  \E i \in 1..Len(runs') :
                          /\ runs'[i].flow = f /\ runs'[i].id = id
                          /\ effects[<<f, id>>] <= runs'[i].doc.writes
    BY DEF EffectsOK
  <2>1. PICK i \in 1..Len(runs) :
            /\ runs[i].flow = f /\ runs[i].id = id
            /\ effects[<<f, id>>] <= runs[i].doc.writes
    BY DEF RunsOK, EffectsOK
  <2> QED
    BY <2>1
<1>3. BegunOK'
  BY DEF RunsOK, BegunOK, RunFits
<1> QED
  BY <1>1, <1>2, <1>3 DEF RunsOK

LEMMA FinishKeeps ==
    ASSUME Shape, RunsOK, NEW x \in Executors, Finish(x)
    PROVE  Shape' /\ RunsOK'
<1>0. CallTypes /\ CallOK /\ RunTypes /\ BegunOK /\ CountTypes
  BY DEF Shape, RunsOK
<1>1. call[x].pc = "begun" /\ call[x].run \in 1..Len(runs)
  BY <1>0 DEF Finish, BegunOK, RunFits
<1>2. /\ runs' \in Seq(RunRecords)
      /\ Len(runs') = Len(runs)
      /\ \A i \in 1..Len(runs) :
             /\ runs'[i].flow = runs[i].flow /\ runs'[i].id = runs[i].id
             /\ runs'[i].doc = runs[i].doc /\ runs'[i].version = runs[i].version
             /\ i # call[x].run => runs'[i] = runs[i]
      /\ call' = [call EXCEPT ![x] = NoCall]
      /\ UNCHANGED lost \/ LoseStatement
      /\ UNCHANGED <<flows, editing, inbox, lapsed, pass, effects,
                     turnedAway, presses, decisions, crashes>>
  BY <1>1, FinishEffect
<1>3. /\ call' \in [Executors -> CallRecords] /\ CallOK'
      /\ call'[x] = NoCall
      /\ \A y \in Executors : y # x => call'[y] = call[y]
  BY <1>0, <1>2, FlowConstants, CallReplaced
<1>4. \A y \in Executors : call'[y].pc = "begun" =>
          /\ call'[y] = call[y]
          /\ runs'[call[y].run].status = runs[call[y].run].status
  <2> SUFFICES ASSUME NEW y \in Executors, call'[y].pc = "begun"
               PROVE  /\ call'[y] = call[y]
                      /\ runs'[call[y].run] = runs[call[y].run]
    OBVIOUS
  <2>1. y # x /\ call'[y] = call[y]
    BY <1>3, FlowConstants
  <2>2. call[y].run \in 1..Len(runs) /\ call[y].run # call[x].run
    BY <1>0, <1>1, <2>1 DEF BegunOK, RunFits
  <2> QED
    BY <1>2, <2>1, <2>2
<1>5. RunsOK'
  BY <1>2, <1>4, StatusKeeps
<1>6. RunTypes' /\ CallTypes'
  BY <1>0, <1>2, <1>3 DEF RunTypes, CallTypes
<1>7. CountTypes'
  BY <1>0, <1>2, LoseKeepsCounts
<1>8. FlowTypes' /\ InboxTypes' /\ FlowsOK' /\ PassOK'
  BY <1>2 DEF Shape, FlowTypes, InboxTypes, FlowsOK, PassOK
<1> QED
  BY <1>3, <1>5, <1>6, <1>7, <1>8 DEF Shape

-----------------------------------------------------------------------------
(* Passes, the inbox, time and the process.                                *)

LEMMA InboxFacts ==
    ASSUME InboxTypes
    PROVE  /\ Len(inbox) \in Nat /\ DOMAIN inbox = 1..Len(inbox)
           /\ 1..Len(inbox) \subseteq RowIds /\ RowIds \subseteq Nat
           /\ \A i \in 1..Len(inbox) : inbox[i] \in InboxRows
  BY LenProperties, ElementOfSeq, FlowBounds DEF InboxTypes, RowIds

LEMMA LoadableTyped ==
    ASSUME Shape
    PROVE  /\ LoadableFlows \in [Flows -> FlowRecords]
           /\ \A f \in Flows : LoadableFlows[f].state = "stored" =>
                                   LoadableFlows[f].version = 1
  BY FlowConstants DEF Shape, FlowTypes, FlowsOK, LoadableFlows, Stored

(* A pass over rows of the inbox: none, or at one of them.                 *)
LEMMA PassAtFacts ==
    ASSUME InboxTypes, NEW rows \in SUBSET (1..Len(inbox)),
           NEW loaded \in [Flows -> FlowRecords]
    PROVE  LET p == PassAt(rows, loaded)
           IN  /\ p \in PassRecords
               /\ p.rest \subseteq 1..Len(inbox)
               /\ \/ p = NoPass
                  \/ /\ p.loaded = loaded
                     /\ \E i \in 1..Len(inbox) : p.at = <<"inbox", i>>
                     /\ p.at \in Identities
                     /\ p.todo = Matching(loaded, p.at)
<1>0. 1..Len(inbox) \subseteq RowIds /\ RowIds \subseteq Nat
  BY InboxFacts
<1>1. CASE rows = {}
  BY <1>1, FlowConstants DEF PassAt
<1>2. CASE rows # {}
  <2> DEFINE i == Oldest(rows)
             id == <<"inbox", i>>
             todo == Matching(loaded, id)
             p == [at |-> id, rest |-> rows \ {i}, loaded |-> loaded, todo |-> todo]
  <2>1. PassAt(rows, loaded) = p
    BY <1>2, Zenon DEF PassAt
  <2>2. i \in rows
    BY <1>0, <1>2, OldestIsOne
  <2>3. id \in Identities /\ todo \subseteq Flows
    BY <1>0, <2>2, IdentityFacts DEF Matching
  <2> HIDE DEF i, todo
  <2>4. p \in PassRecords /\ p.rest \subseteq 1..Len(inbox)
    BY <1>0, <2>2, <2>3 DEF PassRecords
  <2>5. /\ p.loaded = loaded
        /\ \E j \in 1..Len(inbox) : p.at = <<"inbox", j>>
        /\ p.at \in Identities /\ p.at = id /\ p.todo = todo
    BY <2>2, <2>3
  <2>6. p.todo = Matching(loaded, p.at)
    BY <2>5, Zenon DEF todo
  <2> QED
    BY <2>1, <2>4, <2>5, <2>6, Zenon
<1> QED
  BY <1>1, <1>2

LEMMA MatchingStored ==
    ASSUME NEW loaded, NEW id
    PROVE  /\ Matching(loaded, id) \subseteq Flows
           /\ \A f \in Matching(loaded, id) : loaded[f].state = "stored"
  BY DEF Matching

(* One pass replaced, by one that fits.                                    *)
LEMMA PassReplaced ==
    ASSUME Shape, NEW x \in Loops, NEW p \in PassRecords,
           pass' = [pass EXCEPT ![x] = p],
           \A f \in Flows : p.loaded[f].state = "stored" => p.loaded[f].version = 1,
           \A f \in p.todo : p.at \in Identities /\ p.loaded[f].state = "stored",
           Len(inbox') = Len(inbox),
           x = "drainer" =>
               /\ p # NoPass => \E i \in 1..Len(inbox) : p.at = <<"inbox", i>>
               /\ p.rest \subseteq 1..Len(inbox)
    PROVE  /\ pass' \in [Loops -> PassRecords]
           /\ PassOK'
           /\ pass'[x] = p
           /\ \A y \in Loops : y # x => pass'[y] = pass[y]
<1>1. /\ pass' \in [Loops -> PassRecords]
      /\ pass'[x] = p
      /\ \A y \in Loops : y # x => pass'[y] = pass[y]
  BY DEF Shape, CallTypes
<1>2. PassOK /\ "drainer" \in Loops
  BY DEF Shape, Loops
<1>3. PassOK'
  <2>1. \A y \in Loops :
            /\ \A f \in Flows : pass'[y].loaded[f].state = "stored" =>
                                    pass'[y].loaded[f].version = 1
            /\ \A f \in pass'[y].todo :
                   pass'[y].at \in Identities /\ pass'[y].loaded[f].state = "stored"
    BY <1>1, <1>2 DEF PassOK
  <2>2. /\ pass'["drainer"] # NoPass =>
               \E i \in 1..Len(inbox) : pass'["drainer"].at = <<"inbox", i>>
        /\ pass'["drainer"].rest \subseteq 1..Len(inbox)
    BY <1>1, <1>2 DEF PassOK
  <2> QED
    BY <2>1, <2>2 DEF PassOK
<1> QED
  BY <1>1, <1>3

LEMMA NoPassFits ==
    /\ NoPass \in PassRecords
    /\ \A f \in Flows : NoPass.loaded[f].state = "stored" =>
                            NoPass.loaded[f].version = 1
    /\ \A f \in NoPass.todo :
           NoPass.at \in Identities /\ NoPass.loaded[f].state = "stored"
    /\ NoPass.rest \subseteq 1..Len(inbox)
  BY FlowConstants

(* A pass of the drainer, from its start or at its next row.               *)
LEMMA DrainerPassFits ==
    ASSUME InboxTypes, NEW rows \in SUBSET (1..Len(inbox)),
           NEW loaded \in [Flows -> FlowRecords],
           \A f \in Flows : loaded[f].state = "stored" => loaded[f].version = 1
    PROVE  LET p == PassAt(rows, loaded)
           IN  /\ p \in PassRecords
               /\ \A f \in Flows : p.loaded[f].state = "stored" =>
                                       p.loaded[f].version = 1
               /\ \A f \in p.todo :
                      p.at \in Identities /\ p.loaded[f].state = "stored"
               /\ p # NoPass => \E i \in 1..Len(inbox) : p.at = <<"inbox", i>>
               /\ p.rest \subseteq 1..Len(inbox)
<1> DEFINE p == PassAt(rows, loaded)
<1>1. /\ p \in PassRecords
      /\ p.rest \subseteq 1..Len(inbox)
      /\ \/ p = NoPass
         \/ /\ p.loaded = loaded
            /\ \E i \in 1..Len(inbox) : p.at = <<"inbox", i>>
            /\ p.at \in Identities
            /\ p.todo = Matching(loaded, p.at)
  BY PassAtFacts
<1> HIDE DEF p
<1>2. /\ p \in PassRecords
      /\ \A f \in Flows : p.loaded[f].state = "stored" => p.loaded[f].version = 1
      /\ \A f \in p.todo : p.at \in Identities /\ p.loaded[f].state = "stored"
      /\ p # NoPass => \E i \in 1..Len(inbox) : p.at = <<"inbox", i>>
      /\ p.rest \subseteq 1..Len(inbox)
  <2>1. CASE p = NoPass
    BY <2>1, NoPassFits
  <2>2. CASE /\ p.loaded = loaded
             /\ \E i \in 1..Len(inbox) : p.at = <<"inbox", i>>
             /\ p.at \in Identities
             /\ p.todo = Matching(loaded, p.at)
    BY <1>1, <2>2, MatchingStored
  <2> QED
    BY <1>1, <2>1, <2>2
<1> QED
  BY <1>2, Zenon DEF p

(* Steps that change passes and the inbox only.                            *)
LEMMA PassShape ==
    ASSUME Shape, InboxTypes', pass' \in [Loops -> PassRecords], PassOK',
           UNCHANGED <<flows, editing, runs, lapsed, call, effects, turnedAway,
                       presses, decisions, crashes>>,
           UNCHANGED lost \/ LoseStatement
    PROVE  Shape'
<1>1. CountTypes'
  BY LoseKeepsCounts DEF Shape
<1>2. FlowTypes' /\ RunTypes' /\ CallTypes' /\ FlowsOK' /\ CallOK'
  BY DEF Shape, FlowTypes, RunTypes, CallTypes, FlowsOK, CallOK, CallFits
<1> QED
  BY <1>1, <1>2 DEF Shape

LEMMA TickShape ==
    ASSUME Shape, TickDone \/ \E m \in 1..MaxMinutes : Tick(m)
    PROVE  Shape'
<1>0. InboxTypes /\ "ticker" \in Loops /\ "ticker" # "drainer"
  BY DEF Shape, Loops
<1>1. /\ UNCHANGED <<flows, editing, inbox, runs, lapsed, call, effects,
                     turnedAway, presses, decisions, lost, crashes>>
  BY DEF Tick, TickDone, control
<1>2. InboxTypes' /\ Len(inbox') = Len(inbox)
  BY <1>0, <1>1 DEF InboxTypes
<1>3. pass' \in [Loops -> PassRecords] /\ PassOK'
  <2>1. CASE TickDone
    <3>1. pass' = [pass EXCEPT !["ticker"] = NoPass]
      BY <2>1 DEF TickDone
    <3> QED
      BY <1>0, <1>2, <3>1, NoPassFits, PassReplaced
  <2>2. ASSUME NEW m \in 1..MaxMinutes, Tick(m)
        PROVE  pass' \in [Loops -> PassRecords] /\ PassOK'
    <3>1. PICK due \in SUBSET Matching(LoadableFlows, <<"minute", m>>) :
              pass' = [pass EXCEPT !["ticker"] =
                  [at |-> <<"minute", m>>, rest |-> {},
                   loaded |-> LoadableFlows, todo |-> due]]
      BY <2>2 DEF Tick
    <3> DEFINE loaded == LoadableFlows
               p == [at |-> <<"minute", m>>, rest |-> {},
                     loaded |-> loaded, todo |-> due]
    <3>2. /\ loaded \in [Flows -> FlowRecords]
          /\ \A f \in Flows : loaded[f].state = "stored" => loaded[f].version = 1
          /\ due \subseteq Flows
          /\ \A f \in due : loaded[f].state = "stored"
          /\ <<"minute", m>> \in Identities
      BY LoadableTyped, MatchingStored, IdentityFacts
    <3>3. /\ p.loaded = loaded /\ p.todo = due /\ p.at \in Identities
          /\ p \in PassRecords
      <4> HIDE DEF loaded
      <4> QED
        BY <3>2 DEF PassRecords
    <3> HIDE DEF p, loaded
    <3>4. /\ \A f \in Flows : p.loaded[f].state = "stored" =>
                                  p.loaded[f].version = 1
          /\ \A f \in p.todo : p.at \in Identities /\ p.loaded[f].state = "stored"
      BY <3>2, <3>3
    <3>5. pass' = [pass EXCEPT !["ticker"] = p]
      BY <3>1 DEF p, loaded
    <3> QED
      BY <1>0, <1>2, <3>3, <3>4, <3>5, PassReplaced
  <2> QED
    BY <2>1, <2>2
<1> QED
  BY <1>1, <1>2, <1>3, PassShape

LEMMA DrainShape ==
    ASSUME Shape, Drain
    PROVE  Shape'
<1>0. InboxTypes /\ "drainer" \in Loops
  BY DEF Shape, Loops
<1> DEFINE p == PassAt(Pending, LoadableFlows)
<1>1. /\ pass' = [pass EXCEPT !["drainer"] = p]
      /\ UNCHANGED <<flows, editing, inbox, runs, lapsed, call, effects,
                     turnedAway, presses, decisions, lost, crashes>>
  BY DEF Drain, control
<1>2. Pending \subseteq 1..Len(inbox)
  BY DEF Pending, Undrained
<1>3. InboxTypes' /\ Len(inbox') = Len(inbox)
  BY <1>0, <1>1 DEF InboxTypes
<1>4. /\ p \in PassRecords
      /\ \A f \in Flows : p.loaded[f].state = "stored" => p.loaded[f].version = 1
      /\ \A f \in p.todo : p.at \in Identities /\ p.loaded[f].state = "stored"
      /\ p # NoPass => \E i \in 1..Len(inbox) : p.at = <<"inbox", i>>
      /\ p.rest \subseteq 1..Len(inbox)
  BY <1>0, <1>2, LoadableTyped, DrainerPassFits
<1> HIDE DEF p
<1>5. pass' \in [Loops -> PassRecords] /\ PassOK'
  BY <1>0, <1>1, <1>3, <1>4, PassReplaced
<1> QED
  BY <1>1, <1>3, <1>5, PassShape

LEMMA RowReplaced ==
    ASSUME InboxTypes, NEW i \in 1..Len(inbox), NEW r \in InboxRows,
           inbox' = [inbox EXCEPT ![i] = r]
    PROVE  /\ inbox' \in Seq(InboxRows) /\ Len(inbox') = Len(inbox)
           /\ \A j \in 1..Len(inbox) : inbox'[j] = IF j = i THEN r ELSE inbox[j]
  BY ExceptSeq DEF InboxTypes

(* A row marked: the inbox keeps its length and its events.                *)
LEMMA RowMarked ==
    ASSUME InboxTypes, NEW i \in 1..Len(inbox),
           inbox' = [inbox EXCEPT ![i].drained = TRUE]
    PROVE  /\ InboxTypes' /\ Len(inbox') = Len(inbox)
           /\ DOMAIN inbox' = 1..Len(inbox)
           /\ \A j \in 1..Len(inbox) :
                  /\ inbox'[j].event = inbox[j].event
                  /\ j # i => inbox'[j] = inbox[j]
<1>0. /\ inbox \in Seq(InboxRows) /\ Len(inbox) <= MaxRows
      /\ inbox[i] \in InboxRows
  BY InboxFacts DEF InboxTypes
<1> DEFINE r == [inbox[i] EXCEPT !.drained = TRUE]
<1>1. r \in InboxRows /\ r.event = inbox[i].event
  BY <1>0 DEF InboxRows
<1>2. inbox' = [inbox EXCEPT ![i] = r]
  BY Zenon
<1> HIDE DEF r
<1>3. /\ inbox' \in Seq(InboxRows) /\ Len(inbox') = Len(inbox)
      /\ \A j \in 1..Len(inbox) : inbox'[j] = IF j = i THEN r ELSE inbox[j]
  BY <1>1, <1>2, RowReplaced
<1>4. DOMAIN inbox' = 1..Len(inbox')
  BY <1>3, LenProperties
<1> QED
  BY <1>0, <1>1, <1>3, <1>4 DEF InboxTypes

(* What MarkDrained does.                                                  *)
LEMMA MarkDrainedEffect ==
    ASSUME Shape, MarkDrained
    PROVE  /\ Shape'
           /\ pass["drainer"].todo = {} /\ call["drainer"] = NoCall
           /\ UNCHANGED <<flows, editing, runs, lapsed, call, effects,
                          turnedAway, presses, decisions, crashes>>
           /\ pass'["ticker"] = pass["ticker"]
           /\ \E i \in 1..Len(inbox) :
                  /\ pass["drainer"].at = <<"inbox", i>>
                  /\ \/ UNCHANGED inbox /\ pass'["drainer"] = NoPass
                     \/ /\ \A j \in 1..Len(inbox) :
                               /\ inbox'[j].event = inbox[j].event
                               /\ j # i => inbox'[j] = inbox[j]
                        /\ Len(inbox') = Len(inbox)
                        /\ pass'["drainer"] =
                               PassAt(pass["drainer"].rest, pass["drainer"].loaded)
<1>0. /\ InboxTypes /\ "drainer" \in Loops /\ "ticker" \in Loops
      /\ pass["drainer"] \in PassRecords /\ PassOK
      /\ "ticker" # "drainer"
  BY DEF Shape, Loops, CallTypes
<1>1. /\ pass["drainer"] # NoPass
      /\ pass["drainer"].todo = {} /\ call["drainer"] = NoCall
      /\ UNCHANGED <<flows, editing, runs, lapsed, call, effects,
                     turnedAway, presses, decisions, crashes>>
  BY DEF MarkDrained
<1>2. PICK i \in 1..Len(inbox) : pass["drainer"].at = <<"inbox", i>>
  BY <1>0, <1>1 DEF PassOK
<1>3. pass["drainer"].at[2] = i
  BY <1>2
<1> DEFINE rest == pass["drainer"].rest
           loaded == pass["drainer"].loaded
           p == PassAt(rest, loaded)
<1>4. CASE /\ inbox' = [inbox EXCEPT ![pass["drainer"].at[2]].drained = TRUE]
           /\ pass' = [pass EXCEPT !["drainer"] = PassAt(@.rest, @.loaded)]
           /\ UNCHANGED lost
  <2>1. inbox' = [inbox EXCEPT ![i].drained = TRUE]
    BY <1>3, <1>4
  <2>2. /\ InboxTypes' /\ Len(inbox') = Len(inbox)
        /\ \A j \in 1..Len(inbox) :
               /\ inbox'[j].event = inbox[j].event
               /\ j # i => inbox'[j] = inbox[j]
    BY <1>0, <2>1, RowMarked
  <2>3. pass' = [pass EXCEPT !["drainer"] = p]
    BY <1>4
  <2>4. /\ rest \subseteq 1..Len(inbox) /\ loaded \in [Flows -> FlowRecords]
        /\ \A f \in Flows : loaded[f].state = "stored" => loaded[f].version = 1
    BY <1>0 DEF PassOK, PassRecords
  <2> HIDE DEF rest, loaded
  <2>5. /\ p \in PassRecords
        /\ \A f \in Flows : p.loaded[f].state = "stored" => p.loaded[f].version = 1
        /\ \A f \in p.todo : p.at \in Identities /\ p.loaded[f].state = "stored"
        /\ p # NoPass => \E j \in 1..Len(inbox) : p.at = <<"inbox", j>>
        /\ p.rest \subseteq 1..Len(inbox)
    BY <1>0, <2>4, DrainerPassFits
  <2> HIDE DEF p
  <2>6. /\ pass' \in [Loops -> PassRecords] /\ PassOK' /\ pass'["drainer"] = p
        /\ pass'["ticker"] = pass["ticker"]
    BY <1>0, <2>2, <2>3, <2>5, PassReplaced
  <2>7. Shape'
    BY <1>1, <1>4, <2>2, <2>6, PassShape
  <2> QED
    BY <1>1, <1>2, <2>2, <2>6, <2>7, Zenon DEF p, rest, loaded
<1>5. CASE /\ LoseStatement
           /\ pass' = [pass EXCEPT !["drainer"] = NoPass]
           /\ UNCHANGED inbox
  <2>1. /\ pass' \in [Loops -> PassRecords] /\ PassOK' /\ pass'["drainer"] = NoPass
        /\ pass'["ticker"] = pass["ticker"]
    BY <1>0, <1>5, NoPassFits, PassReplaced
  <2>2. InboxTypes'
    BY <1>0, <1>5 DEF InboxTypes
  <2>3. Shape'
    BY <1>1, <1>5, <2>1, <2>2, PassShape
  <2> QED
    BY <1>1, <1>2, <1>5, <2>1, <2>3
<1> QED
  BY <1>4, <1>5 DEF MarkDrained

LEMMA AppendRowEffect ==
    ASSUME Shape, NEW e \in Events, AppendRow(e)
    PROVE  /\ Shape'
           /\ Len(inbox') = Len(inbox) + 1
           /\ \A j \in 1..Len(inbox) : inbox'[j] = inbox[j]
           /\ UNCHANGED <<flows, editing, runs, lapsed, pass, call, effects,
                          turnedAway, control>>
<1>0. /\ InboxTypes /\ inbox \in Seq(InboxRows) /\ Len(inbox) \in Nat /\ PassOK
  BY InboxFacts DEF Shape, InboxTypes
<1> DEFINE r == [event |-> e, drained |-> FALSE]
<1>1. /\ Len(inbox) < MaxRows
      /\ UNCHANGED <<flows, editing, runs, lapsed, pass, call, effects,
                     turnedAway, control>>
  BY DEF AppendRow
<1>2. inbox' = Append(inbox, r)
  BY DEF AppendRow
<1>3. r \in InboxRows
  BY DEF InboxRows
<1> HIDE DEF r
<1>4. /\ Append(inbox, r) \in Seq(InboxRows)
      /\ Len(Append(inbox, r)) = Len(inbox) + 1
      /\ \A j \in 1..Len(inbox) : Append(inbox, r)[j] = inbox[j]
  BY <1>0, <1>3, AppendProperties
<1>5. /\ inbox' \in Seq(InboxRows)
      /\ Len(inbox') = Len(inbox) + 1
      /\ \A j \in 1..Len(inbox) : inbox'[j] = inbox[j]
  BY <1>2, <1>4, Zenon
<1>6. InboxTypes'
  BY <1>0, <1>1, <1>5, FlowBounds DEF InboxTypes
<1>7. PassOK'
  <2>1. 1..Len(inbox) \subseteq 1..Len(inbox')
    BY <1>0, <1>5
  <2> QED
    BY <1>0, <1>1, <2>1 DEF PassOK
<1>8. pass' \in [Loops -> PassRecords]
  BY <1>1 DEF Shape, CallTypes
<1>9. Shape'
  BY <1>1, <1>6, <1>7, <1>8, PassShape DEF control
<1> QED
  BY <1>1, <1>5, <1>9

LEMMA HourShape ==
    ASSUME Shape, HourPasses
    PROVE  Shape'
<1>1. /\ lapsed < Len(runs) /\ lapsed' = lapsed + 1
      /\ UNCHANGED <<flows, editing, inbox, runs, pass, call, effects,
                     turnedAway, presses, decisions, lost, crashes>>
  BY DEF HourPasses, control
<1>2. RunTypes'
  BY <1>1, RunFacts DEF Shape, RunTypes
<1>3. FlowTypes' /\ InboxTypes' /\ CallTypes' /\ FlowsOK' /\ PassOK' /\ CallOK'
  BY <1>1 DEF Shape, FlowTypes, InboxTypes, CallTypes, FlowsOK, PassOK, CallOK,
              CallFits
<1>4. CountTypes'
  BY <1>1 DEF Shape, CountTypes
<1> QED
  BY <1>2, <1>3, <1>4 DEF Shape

(* What a crash and the recovery of the boot do to the trail.              *)
LEMMA CrashEffect ==
    ASSUME Shape, Crash
    PROVE  /\ runs' \in Seq(RunRecords)
           /\ Len(runs') = Len(runs)
           /\ \A i \in 1..Len(runs) :
                  /\ runs'[i].flow = runs[i].flow /\ runs'[i].id = runs[i].id
                  /\ runs'[i].doc = runs[i].doc /\ runs'[i].version = runs[i].version
                  /\ runs[i].status # "running" => runs'[i] = runs[i]
           /\ pass' = [x \in Loops |-> NoPass]
           /\ call' = [x \in Executors |-> NoCall]
           /\ editing' = NoEdit
           /\ UNCHANGED <<flows, inbox, lapsed, effects, turnedAway, presses,
                          decisions>>
           /\ UNCHANGED lost \/ LoseStatement
<1>0. /\ RunTypes /\ Len(runs) \in Nat /\ DOMAIN runs = 1..Len(runs)
      /\ \A i \in 1..Len(runs) : runs[i] \in RunRecords
  BY RunFacts DEF Shape
<1>1. /\ pass' = [x \in Loops |-> NoPass]
      /\ call' = [x \in Executors |-> NoCall]
      /\ editing' = NoEdit
      /\ UNCHANGED <<flows, inbox, lapsed, effects, turnedAway, presses,
                     decisions>>
      /\ UNCHANGED lost \/ LoseStatement
      /\ runs' = Recovered \/ UNCHANGED runs
  BY DEF Crash
<1>2. CASE runs' = Recovered
  <2>1. /\ Recovered \in [1..Len(runs) -> RunRecords]
        /\ \A i \in 1..Len(runs) :
               /\ Recovered[i].flow = runs[i].flow /\ Recovered[i].id = runs[i].id
               /\ Recovered[i].doc = runs[i].doc
               /\ Recovered[i].version = runs[i].version
               /\ runs[i].status # "running" => Recovered[i] = runs[i]
    BY <1>0 DEF Recovered, RunRecords, Finished
  <2>2. runs' \in Seq(RunRecords) /\ Len(runs') = Len(runs)
    BY <1>0, <1>2, <2>1, RunsRewritten
  <2> QED
    BY <1>1, <1>2, <2>1, <2>2, Zenon
<1>3. CASE UNCHANGED runs
  BY <1>0, <1>1, <1>3 DEF RunTypes
<1> QED
  BY <1>1, <1>2, <1>3

LEMMA CrashKeeps ==
    ASSUME Shape, RunsOK, Crash
    PROVE  Shape' /\ RunsOK'
<1>1. /\ runs' \in Seq(RunRecords)
      /\ Len(runs') = Len(runs)
      /\ \A i \in 1..Len(runs) :
             /\ runs'[i].flow = runs[i].flow /\ runs'[i].id = runs[i].id
             /\ runs'[i].doc = runs[i].doc /\ runs'[i].version = runs[i].version
      /\ pass' = [x \in Loops |-> NoPass]
      /\ call' = [x \in Executors |-> NoCall]
      /\ editing' = NoEdit
      /\ UNCHANGED <<flows, inbox, lapsed, effects, turnedAway, presses,
                     decisions>>
      /\ UNCHANGED lost \/ LoseStatement
  BY CrashEffect
<1>2. \A x \in Executors : call'[x].pc # "begun" /\ call'[x].pc = "idle"
  BY <1>1, FlowConstants
<1>3. RunsOK'
  BY <1>1, <1>2, StatusKeeps
<1>4. CallTypes' /\ CallOK'
  BY <1>1, <1>2, FlowConstants DEF CallTypes, CallOK
<1>5. PassOK'
  BY <1>1, NoPassFits DEF PassOK, Loops
<1>6. FlowTypes' /\ FlowsOK' /\ InboxTypes' /\ RunTypes'
  BY <1>1, FlowConstants DEF Shape, FlowTypes, FlowsOK, InboxTypes, RunTypes
<1>7. CountTypes'
  BY <1>1, FlowBounds DEF Shape, CountTypes, Crash, LoseStatement
<1> QED
  BY <1>3, <1>4, <1>5, <1>6, <1>7 DEF Shape

-----------------------------------------------------------------------------
(* The invariant of the engine.                                            *)

FlowInv == Shape /\ RunsOK

LEMMA ActorFacts ==
    /\ "drainer" \in Loops /\ "ticker" \in Loops /\ "drainer" # "ticker"
    /\ Loops \subseteq Executors
    /\ \A o \in Operators : o \in Executors /\ o \notin Loops
  BY OperatorsAssumption DEF Loops, Executors

LEMMA FlowStart == Init => FlowInv
  BY ShapeStart, RunsStart DEF FlowInv

LEMMA OperatorKeeps ==
    ASSUME FlowInv, NEW o \in Operators,
           ExecuteNow(o) \/ \E f \in Flows : RunNow(o, f)
    PROVE  FlowInv'
<1>0. Shape /\ RunsOK /\ o \in Executors
  BY ActorFacts DEF FlowInv
<1>1. CASE ExecuteNow(o)
  <2>1. Shape'
    BY <1>0, <1>1, ExecuteNowShape
  <2>2. /\ call[o].pc = "called" /\ call[o] \in CallRecords /\ CallFits(call[o])
        /\ CheckCeiling(o, call[o]) /\ UNCHANGED <<runs, effects>>
    BY <1>0, <1>1 DEF ExecuteNow, Shape, CallTypes, CallOK
  <2>3. /\ \A y \in Executors : y # o => call'[y] = call[y]
        /\ call'[o] = [call[o] EXCEPT !.pc = "counted"] \/ call'[o] = NoCall
    BY <1>0, <2>2, CeilingEffect
  <2>4. call'[o].pc # "begun"
    BY <2>2, <2>3, FlowConstants DEF CallRecords
  <2> QED
    BY <1>0, <2>1, <2>2, <2>3, <2>4, RunsUnmoved DEF FlowInv
<1>2. ASSUME NEW f \in Flows, RunNow(o, f) PROVE FlowInv'
  <2>1. Shape'
    BY <1>0, <1>2, RunNowShape
  <2>2. /\ call' = [call EXCEPT ![o] = CallFor(f, flows[f], <<"manual", presses + 1>>)]
        /\ UNCHANGED <<runs, effects>>
        /\ call \in [Executors -> CallRecords]
    BY <1>0, <1>2 DEF RunNow, Shape, CallTypes
  <2>3. /\ \A y \in Executors : y # o => call'[y] = call[y]
        /\ call'[o].pc # "begun"
    BY <1>0, <2>2 DEF CallFor
  <2> QED
    BY <1>0, <2>1, <2>2, <2>3, RunsUnmoved DEF FlowInv
<1> QED
  BY <1>1, <1>2

LEMMA OfferKeeps ==
    ASSUME FlowInv, NEW x \in Loops, Offer(x)
    PROVE  FlowInv'
<1>0. Shape /\ RunsOK /\ x \in Executors
  BY ActorFacts DEF FlowInv
<1>1. PICK f \in pass[x].todo, c \in CallRecords :
          CallFits(c) /\ c.pc = "called" /\ CheckCeiling(x, c)
  BY <1>0, OfferEffect
<1>2. /\ \A y \in Executors : y # x => call'[y] = call[y]
      /\ call'[x] = [c EXCEPT !.pc = "counted"] \/ call'[x] = NoCall
  BY <1>0, <1>1, CeilingEffect
<1>3. call'[x].pc # "begun"
  BY <1>2, FlowConstants DEF CallRecords
<1>4. UNCHANGED <<runs, effects>>
  BY DEF Offer
<1> QED
  BY <1>0, <1>2, <1>3, <1>4, OfferShape, RunsUnmoved DEF FlowInv

LEMMA ExecuteStepKeeps ==
    ASSUME FlowInv, NEW x \in Executors, ExecuteStep(x)
    PROVE  FlowInv'
  BY BeginKeeps, DoStepKeeps, FinishKeeps DEF FlowInv, ExecuteStep

LEMMA FlowStep == FlowInv /\ [Next]_vars => FlowInv'
<1> SUFFICES ASSUME Shape, RunsOK, FlowInv, [Next]_vars PROVE FlowInv'
  BY DEF FlowInv
<1>0. ASSUME Shape', UNCHANGED <<runs, effects, call>> PROVE FlowInv'
  BY <1>0, RunsUnmoved DEF FlowInv
<1>1. CASE Console
  <2>1. CASE \/ \E f \in Flows, d \in Documents : CreateFlow(f, d) \/ EditFlow(f, d)
             \/ \E f \in Flows : AskDelete(f) \/ SetEnabled(f) \/ SetMode(f)
             \/ WriteEdit
    <3>1. Shape'
      BY <2>1, ConsoleShape
    <3>2. UNCHANGED <<runs, effects, call>>
      BY <2>1 DEF CreateFlow, EditFlow, AskDelete, SetEnabled, SetMode, WriteEdit
    <3> QED
      BY <1>0, <3>1, <3>2
  <2>2. ASSUME NEW o \in Operators, NEW f \in Flows, RunNow(o, f) PROVE FlowInv'
    BY <2>2, OperatorKeeps
  <2> QED
    BY <1>1, <2>1, <2>2 DEF Console
<1>2. CASE DrainerStep
  <2>1. CASE Drain
    <3>1. UNCHANGED <<runs, effects, call>>
      BY <2>1 DEF Drain
    <3> QED
      BY <1>0, <2>1, <3>1, DrainShape
  <2>2. CASE MarkDrained
    <3>1. UNCHANGED <<runs, effects, call>>
      BY <2>2 DEF MarkDrained
    <3> QED
      BY <1>0, <2>2, <3>1, MarkDrainedEffect
  <2> QED
    BY <1>2, <2>1, <2>2, OfferKeeps, ExecuteStepKeeps, ActorFacts DEF DrainerStep
<1>3. CASE TickerStep
  <2>1. CASE TickDone \/ \E m \in 1..MaxMinutes : Tick(m)
    <3>1. UNCHANGED <<runs, effects, call>>
      BY <2>1 DEF Tick, TickDone
    <3> QED
      BY <1>0, <2>1, <3>1, TickShape
  <2> QED
    BY <1>3, <2>1, OfferKeeps, ExecuteStepKeeps, ActorFacts DEF TickerStep
<1>4. ASSUME NEW o \in Operators, ExecuteNow(o) \/ ExecuteStep(o) PROVE FlowInv'
  BY <1>4, OperatorKeeps, ExecuteStepKeeps, ActorFacts
<1>5. ASSUME NEW e \in Events, AppendRow(e) PROVE FlowInv'
  BY <1>0, <1>5, AppendRowEffect
<1>6. CASE HourPasses
  <2>1. UNCHANGED <<runs, effects, call>>
    BY <1>6 DEF HourPasses
  <2> QED
    BY <1>0, <1>6, <2>1, HourShape
<1>7. CASE Crash
  BY <1>7, CrashKeeps DEF FlowInv
<1>8. CASE UNCHANGED vars
  <2>1. /\ UNCHANGED <<flows, editing, inbox, runs, lapsed, pass, call, effects,
                       turnedAway, presses, decisions, lost, crashes>>
    BY <1>8 DEF vars, control
  <2>2. InboxTypes' /\ pass' \in [Loops -> PassRecords] /\ PassOK'
    BY <2>1 DEF Shape, InboxTypes, CallTypes, PassOK
  <2>3. Shape'
    BY <2>1, <2>2, PassShape
  <2> QED
    BY <1>0, <2>1, <2>3
<1> QED
  BY <1>1, <1>2, <1>3, <1>4, <1>5, <1>6, <1>7, <1>8 DEF Next

LEMMA FlowSafe == Spec => []FlowInv
  BY FlowStart, FlowStep, PTL DEF Spec

(* Flows, inbox, trail, passes and calls are well typed for any number of    *)
(* flows, operators, rows and runs.                                          *)
THEOREM FlowTypesHold == Spec => []TypeOK
<1>1. FlowInv => TypeOK
  BY TypeParts DEF FlowInv, Shape
<1> QED
  BY <1>1, FlowSafe, PTL

(* A trigger's writes reach the world at most once: it has at most one run   *)
(* of a flow, and no more effects than that run's ceiling, through           *)
(* redelivery, edits, interruptions and restarts (IdempotencyKey, Begin,     *)
(* RecoverInterrupted).                                                      *)
THEOREM FlowEffectsOnce == Spec => []EffectsOncePerTrigger
<1>1. FlowInv => EffectsOncePerTrigger
  <2> SUFFICES ASSUME FlowInv, NEW f \in Flows, NEW id \in Identities
               PROVE  LET of == {i \in 1..Len(runs) : runs[i].flow = f
                                                      /\ runs[i].id = id}
                      IN  /\ \A i, j \in of : i = j
                          /\ effects[<<f, id>>] > 0 =>
                                \E i \in of : effects[<<f, id>>] <= runs[i].doc.writes
    BY DEF EffectsOncePerTrigger
  <2>1. OneRun /\ EffectsOK
    BY DEF FlowInv, RunsOK
  <2>2. \A i, j \in {k \in 1..Len(runs) : runs[k].flow = f /\ runs[k].id = id} : i = j
    BY <2>1 DEF OneRun
  <2>3. effects[<<f, id>>] > 0 =>
            \E i \in {k \in 1..Len(runs) : runs[k].flow = f /\ runs[k].id = id} :
                effects[<<f, id>>] <= runs[i].doc.writes
    BY <2>1 DEF EffectsOK
  <2> QED
    BY <2>2, <2>3
<1> QED
  BY <1>1, FlowSafe, PTL

(* What a flow does never changes while it is switched on and live, and no   *)
(* edit leaves it so, also when it is armed between an edit's read and its   *)
(* write (flowFromInput, Save).                                              *)
THEOREM FlowEditLeavesUnarmed == Spec => EditLeavesUnarmed
<1>1. FlowInv /\ [Next]_vars =>
          [\A f \in Flows : flows'[f].doc # flows[f].doc =>
                                ~(flows'[f].enabled /\ flows'[f].live)]_vars
  <2> SUFFICES ASSUME Shape, Next, NEW f \in Flows,
                      flows'[f].doc # flows[f].doc
               PROVE  ~(flows'[f].enabled /\ flows'[f].live)
    BY DEF FlowInv
  <2>0. FlowTypes /\ FlowsOK
    BY DEF Shape
  <2>1. \/ \E g \in Flows, d \in Documents : CreateFlow(g, d)
        \/ \E g \in Flows : SetEnabled(g) \/ SetMode(g)
        \/ WriteEdit
        \/ UNCHANGED flows
    BY DEF Next, Console, DrainerStep, TickerStep, EditFlow, AskDelete, RunNow,
           Drain, Offer, ExecuteStep, Begin, DoStep, Finish, MarkDrained, Tick,
           TickDone, ExecuteNow, AppendRow, HourPasses, Crash
  <2>2. ASSUME NEW g \in Flows, NEW d \in Documents, CreateFlow(g, d)
        PROVE  ~(flows'[f].enabled /\ flows'[f].live)
    BY <2>0, <2>2 DEF CreateFlow, FlowTypes
  <2>3. ASSUME NEW g \in Flows, SetEnabled(g) \/ SetMode(g) PROVE FALSE
    BY <2>0, <2>3 DEF SetEnabled, SetMode, FlowTypes, FlowRecords
  <2>4. CASE WriteEdit
    <3> DEFINE h == editing.flow
               g == IF editing.op = "delete" THEN [Unborn EXCEPT !.state = "deleted"]
                                             ELSE SavedFlow(h)
               new == editing.new
    <3>1. /\ editing.op \in {"save", "delete"} /\ h \in Flows
          /\ new \in FlowRecords
          /\ editing.op = "save" => ~(new.enabled /\ new.live)
      BY <2>0, <2>4 DEF WriteEdit, FlowTypes, FlowsOK, EditRecords
    <3>2. flows' = [flows EXCEPT ![h] = g]
      BY <2>4 DEF WriteEdit
    <3>3. ~(g.enabled /\ g.live)
      <4>1. CASE editing.op = "delete"
        BY <4>1 DEF Unborn
      <4>2. CASE editing.op = "save"
        <5>1. g = [new EXCEPT !.version = @ + 1]
          BY <4>2 DEF SavedFlow
        <5> HIDE DEF g, new
        <5> QED
          BY <3>1, <4>2, <5>1 DEF FlowRecords
      <4> QED
        BY <3>1, <4>1, <4>2
    <3> HIDE DEF g, h
    <3>4. f = h
      BY <2>0, <3>1, <3>2 DEF FlowTypes
    <3> QED
      BY <2>0, <3>1, <3>2, <3>3, <3>4 DEF FlowTypes
  <2> QED
    BY <2>1, <2>2, <2>3, <2>4
<1> QED
  BY <1>1, FlowSafe, PTL DEF Spec, EditLeavesUnarmed

-----------------------------------------------------------------------------
(* The trail only grows, and what is over in it stays as it is.            *)

TrailGrows ==
    /\ \A i \in 1..Len(runs) :
           /\ i \in 1..Len(runs')
           /\ runs'[i].flow = runs[i].flow /\ runs'[i].id = runs[i].id
           /\ runs[i].status # "running" => runs'[i] = runs[i]
    /\ turnedAway \subseteq turnedAway'

LEMMA ExecuteTrail ==
    ASSUME FlowInv, NEW x \in Executors, ExecuteStep(x)
    PROVE  /\ TrailGrows
           /\ \A y \in Executors : y # x => call'[y] = call[y]
           /\ UNCHANGED <<pass, inbox>>
<1>0. /\ Shape /\ CallTypes /\ CallOK /\ RunTypes /\ Len(runs) \in Nat /\ BegunOK
      /\ call \in [Executors -> CallRecords]
  BY RunFacts DEF FlowInv, Shape, RunsOK, CallTypes
<1>1. CASE Begin(x)
  <2>1. /\ call[x].pc = "counted"
        /\ Begins(x) \/ Drops(x)
        /\ UNCHANGED <<pass, inbox>>
    BY <1>1, BeginCases
  <2>2. CASE Begins(x)
    <3>1. /\ runs' = Append(runs, NewRun(x)) /\ UNCHANGED turnedAway
          /\ call' = [call EXCEPT ![x].pc = "begun", ![x].run = Len(runs) + 1]
      BY <2>2 DEF Begins
    <3>2. NewRun(x) \in RunRecords
      BY <1>0, <1>1, BeginCases, NewRunTyped
    <3>3. Len(runs') = Len(runs) + 1 /\ \A i \in 1..Len(runs) : runs'[i] = runs[i]
      BY <1>0, <3>1, <3>2, RunAppended
    <3>4. \A i \in 1..Len(runs) : i \in 1..Len(runs')
      BY <1>0, <3>3
    <3>5. UNCHANGED turnedAway
      BY <3>1
    <3>6. TrailGrows
      BY <3>3, <3>4, <3>5 DEF TrailGrows
    <3>7. \A y \in Executors : y # x => call'[y] = call[y]
      <4>1. call' = [call EXCEPT ![x].pc = "begun", ![x].run = Len(runs) + 1]
        BY <3>1
      <4> QED
        BY <1>0, <4>1
    <3> QED
      BY <2>1, <3>6, <3>7
  <2>3. CASE Drops(x)
    <3>1. /\ call' = [call EXCEPT ![x] = NoCall] /\ UNCHANGED runs
          /\ turnedAway \subseteq turnedAway'
      BY <2>3 DEF Drops, TurnAway
    <3> QED
      BY <1>0, <2>1, <3>1 DEF TrailGrows
  <2> QED
    BY <2>1, <2>2, <2>3
<1>2. CASE DoStep(x)
  <2>1. /\ UNCHANGED <<runs, turnedAway, pass, inbox>>
        /\ call' = [call EXCEPT ![x].step = @ + 1]
    BY <1>2 DEF DoStep
  <2> QED
    BY <1>0, <2>1 DEF TrailGrows
<1>3. CASE Finish(x)
  <2>1. /\ call[x].run \in 1..Len(runs)
        /\ runs[call[x].run].status = "running"
    BY <1>0, <1>3 DEF Finish, BegunOK, RunFits
  <2>2. /\ Len(runs') = Len(runs)
        /\ \A i \in 1..Len(runs) :
               /\ runs'[i].flow = runs[i].flow /\ runs'[i].id = runs[i].id
               /\ i # call[x].run => runs'[i] = runs[i]
        /\ call' = [call EXCEPT ![x] = NoCall]
        /\ UNCHANGED <<turnedAway, pass, inbox>>
    BY <1>0, <1>3, <2>1, FinishEffect
  <2> QED
    BY <1>0, <2>1, <2>2 DEF TrailGrows
<1> QED
  BY <1>1, <1>2, <1>3 DEF ExecuteStep

LEMMA OfferTrail ==
    ASSUME FlowInv, NEW x \in Loops, Offer(x)
    PROVE  TrailGrows
<1>0. Shape /\ x \in Executors
  BY ActorFacts DEF FlowInv
<1>1. PICK f \in pass[x].todo, c \in CallRecords :
          CallFits(c) /\ c.pc = "called" /\ CheckCeiling(x, c)
  BY <1>0, OfferEffect
<1>2. turnedAway \subseteq turnedAway'
  BY <1>0, <1>1, CeilingEffect
<1> QED
  BY <1>2 DEF Offer, TrailGrows

LEMMA ExecuteNowTrail ==
    ASSUME FlowInv, NEW o \in Operators, ExecuteNow(o)
    PROVE  /\ TrailGrows
           /\ \A y \in Executors : y # o => call'[y] = call[y]
<1>0. Shape /\ o \in Executors
  BY ActorFacts DEF FlowInv
<1>1. /\ call[o].pc = "called" /\ call[o] \in CallRecords /\ CallFits(call[o])
      /\ CheckCeiling(o, call[o]) /\ UNCHANGED runs
  BY <1>0 DEF ExecuteNow, Shape, CallTypes, CallOK
<1>2. /\ turnedAway \subseteq turnedAway'
      /\ \A y \in Executors : y # o => call'[y] = call[y]
  BY <1>0, <1>1, CeilingEffect
<1> QED
  BY <1>1, <1>2 DEF TrailGrows

LEMMA TrailStep == FlowInv /\ [Next]_vars => TrailGrows
<1> SUFFICES ASSUME FlowInv, [Next]_vars PROVE TrailGrows
  OBVIOUS
<1>0. ASSUME UNCHANGED <<runs, turnedAway>> PROVE TrailGrows
  BY <1>0 DEF TrailGrows
<1>1. CASE Console \/ Drain \/ MarkDrained \/ TickDone \/ HourPasses
           \/ (\E m \in 1..MaxMinutes : Tick(m)) \/ (\E e \in Events : AppendRow(e))
  <2>1. UNCHANGED <<runs, turnedAway>>
    BY <1>1 DEF Console, CreateFlow, EditFlow, AskDelete, SetEnabled, SetMode,
                WriteEdit, RunNow, Drain, MarkDrained, TickDone, HourPasses, Tick,
                AppendRow
  <2> QED
    BY <1>0, <2>1
<1>2. CASE Crash
  <2>1. Shape
    BY DEF FlowInv
  <2>2. /\ Len(runs') = Len(runs) /\ UNCHANGED turnedAway
        /\ \A i \in 1..Len(runs) :
               /\ runs'[i].flow = runs[i].flow /\ runs'[i].id = runs[i].id
               /\ runs[i].status # "running" => runs'[i] = runs[i]
    BY <1>2, <2>1, CrashEffect
  <2> QED
    BY <2>2 DEF TrailGrows
<1>3. CASE Offer("drainer") \/ Offer("ticker")
  BY <1>3, OfferTrail, ActorFacts
<1>4. CASE ExecuteStep("drainer") \/ ExecuteStep("ticker")
  BY <1>4, ExecuteTrail, ActorFacts
<1>5. ASSUME NEW o \in Operators, ExecuteNow(o) \/ ExecuteStep(o) PROVE TrailGrows
  BY <1>5, ExecuteTrail, ExecuteNowTrail, ActorFacts
<1>6. CASE UNCHANGED vars
  BY <1>0, <1>6 DEF vars
<1> QED
  BY <1>1, <1>2, <1>3, <1>4, <1>5, <1>6 DEF Next, DrainerStep, TickerStep

(* What a finished run says of itself is never rewritten, neither by the     *)
(* recovery of a boot nor by a late Finish (RecoverInterrupted, Finish).     *)
THEOREM FlowTerminalIsFinal == Spec => TerminalIsFinal
<1>1. FlowInv /\ [Next]_vars =>
          [\A i \in DOMAIN runs :
              runs[i].status \in Finished => runs'[i] = runs[i]]_vars
  <2> SUFFICES ASSUME FlowInv, [Next]_vars, NEW i \in DOMAIN runs,
                      runs[i].status \in Finished
               PROVE  runs'[i] = runs[i]
    OBVIOUS
  <2>1. i \in 1..Len(runs) /\ runs[i].status # "running"
    BY RunFacts DEF FlowInv, Shape, Finished
  <2> QED
    BY <2>1, TrailStep DEF TrailGrows
<1> QED
  BY <1>1, FlowSafe, PTL DEF Spec, TerminalIsFinal

-----------------------------------------------------------------------------
(* The drainer: every flow loaded for the row a pass is at is still to be  *)
(* offered it, is in the drainer's Execute, or is on record for it.        *)

OnRecord(f, id) ==
    \/ \E r \in 1..Len(runs) : runs[r].flow = f /\ runs[r].id = id
    \/ <<f, id>> \in turnedAway

Accounted(f) ==
    \/ f \in pass["drainer"].todo
    \/ /\ call["drainer"].pc # "idle"
       /\ call["drainer"].flow = f /\ call["drainer"].id = pass["drainer"].at
    \/ OnRecord(f, pass["drainer"].at)

DrainOK ==
    pass["drainer"] # NoPass =>
        \A f \in Matching(pass["drainer"].loaded, pass["drainer"].at) : Accounted(f)

LEMMA RecordStays ==
    ASSUME TrailGrows, NEW f, NEW id, OnRecord(f, id)
    PROVE  OnRecord(f, id)'
  BY DEF TrailGrows, OnRecord

(* A pass that has just come to a row has all of its flows before it.      *)
LEMMA FreshPass ==
    ASSUME pass'["drainer"] = NoPass
           \/ pass'["drainer"].todo =
                  Matching(pass["drainer"].loaded, pass["drainer"].at)'
    PROVE  DrainOK'
  BY DEF DrainOK, Accounted

(* The events of the inbox stay as they are.                               *)
EventsStay ==
    \A i \in 1..Len(inbox) :
        i \in 1..Len(inbox') /\ inbox'[i].event = inbox[i].event

LEMMA SameMatching ==
    ASSUME Shape, EventsStay, pass["drainer"] # NoPass,
           pass'["drainer"].loaded = pass["drainer"].loaded,
           pass'["drainer"].at = pass["drainer"].at,
           NEW f \in Matching(pass["drainer"].loaded, pass["drainer"].at)'
    PROVE  f \in Matching(pass["drainer"].loaded, pass["drainer"].at)
<1>1. PICK i \in 1..Len(inbox) : pass["drainer"].at = <<"inbox", i>>
  BY DEF Shape, PassOK
<1>2. inbox'[pass["drainer"].at[2]].event = inbox[pass["drainer"].at[2]].event
  BY <1>1 DEF EventsStay
<1> QED
  BY <1>1, <1>2 DEF Matching

(* A step of another than the drainer.                                     *)
LEMMA OthersKeepDrain ==
    ASSUME FlowInv, DrainOK, TrailGrows, EventsStay,
           pass'["drainer"] = pass["drainer"], call'["drainer"] = call["drainer"]
    PROVE  DrainOK'
<1> SUFFICES ASSUME pass'["drainer"] # NoPass,
                    NEW f \in Matching(pass["drainer"].loaded, pass["drainer"].at)'
             PROVE  Accounted(f)'
  BY DEF DrainOK
<1>1. f \in Matching(pass["drainer"].loaded, pass["drainer"].at)
  BY SameMatching DEF FlowInv
<1>2. Accounted(f)
  BY <1>1 DEF DrainOK
<1>3. OnRecord(f, pass["drainer"].at) => OnRecord(f, pass["drainer"].at)'
  <2>1. ASSUME NEW id, id = pass["drainer"].at, OnRecord(f, id)
        PROVE  OnRecord(f, id)'
    BY <2>1, RecordStays
  <2> QED
    BY <2>1 DEF OnRecord
<1> QED
  BY <1>2, <1>3 DEF Accounted

LEMMA OfferKeepsDrain ==
    ASSUME FlowInv, DrainOK, Offer("drainer")
    PROVE  DrainOK'
<1>0. Shape /\ TrailGrows /\ "drainer" \in Executors /\ "drainer" \in Loops
  BY OfferTrail, ActorFacts DEF FlowInv
<1>1. EventsStay
  BY DEF Offer, EventsStay
<1>2. PICK g \in pass["drainer"].todo, c \in CallRecords :
          /\ CallFits(c) /\ c.pc = "called" /\ CheckCeiling("drainer", c)
          /\ c.flow = g /\ c.id = pass["drainer"].at
          /\ pass' = [pass EXCEPT !["drainer"].todo = @ \ {g}]
  BY <1>0, OfferEffect
<1>3. /\ pass["drainer"] # NoPass
      /\ pass'["drainer"].loaded = pass["drainer"].loaded
      /\ pass'["drainer"].at = pass["drainer"].at
      /\ pass'["drainer"].todo = pass["drainer"].todo \ {g}
  BY <1>0, <1>2, FlowConstants DEF Shape, CallTypes, PassRecords
<1>4. \/ call'["drainer"] = [c EXCEPT !.pc = "counted"]
      \/ c.id[1] = "inbox" => <<c.flow, c.id>> \in turnedAway'
  BY <1>0, <1>2, CeilingEffect
<1>5. pass["drainer"].at[1] = "inbox"
  BY <1>0, <1>3 DEF Shape, PassOK
<1>6. call["drainer"].pc = "idle"
  BY FlowConstants DEF Offer
<1>7. Accounted(g)'
  <2>1. CASE call'["drainer"] = [c EXCEPT !.pc = "counted"]
    <3>1. /\ call'["drainer"].pc = "counted"
          /\ call'["drainer"].flow = g /\ call'["drainer"].id = pass["drainer"].at
      BY <1>2, <2>1 DEF CallRecords
    <3> QED
      BY <1>3, <3>1 DEF Accounted
  <2>2. CASE c.id[1] = "inbox" => <<c.flow, c.id>> \in turnedAway'
    <3>1. <<g, pass["drainer"].at>> \in turnedAway'
      BY <1>2, <1>5, <2>2
    <3> QED
      BY <1>3, <3>1 DEF Accounted, OnRecord
  <2> QED
    BY <1>4, <2>1, <2>2
<1>8. ASSUME NEW f \in Matching(pass["drainer"].loaded, pass["drainer"].at)', f # g
      PROVE  Accounted(f)'
  <2>1. f \in Matching(pass["drainer"].loaded, pass["drainer"].at)
    BY <1>0, <1>1, <1>3, SameMatching
  <2>2. f \in pass["drainer"].todo \/ OnRecord(f, pass["drainer"].at)
    BY <1>3, <1>6, <2>1 DEF DrainOK, Accounted
  <2>3. CASE f \in pass["drainer"].todo
    BY <1>3, <1>8, <2>3 DEF Accounted
  <2>4. ASSUME NEW id, id = pass["drainer"].at, OnRecord(f, id)
        PROVE  OnRecord(f, id)'
    BY <1>0, <2>4, RecordStays
  <2>5. CASE OnRecord(f, pass["drainer"].at)
    BY <1>3, <2>4, <2>5 DEF Accounted, OnRecord
  <2> QED
    BY <2>2, <2>3, <2>5
<1> QED
  BY <1>7, <1>8 DEF DrainOK

(* The drainer's Execute leaves it only for the record.                    *)
LEMMA ExecuteKeepsDrain ==
    ASSUME FlowInv, DrainOK, ExecuteStep("drainer")
    PROVE  DrainOK'
<1>0. /\ Shape /\ RunsOK /\ "drainer" \in Executors /\ "drainer" \in Loops
      /\ call \in [Executors -> CallRecords]
  BY ActorFacts DEF FlowInv, Shape, CallTypes
<1>1. TrailGrows /\ UNCHANGED <<pass, inbox>>
  BY <1>0, ExecuteTrail
<1>2. EventsStay
  BY <1>1 DEF EventsStay
<1> DEFINE flow == call["drainer"].flow
           id   == call["drainer"].id
<1>3. \/ /\ call'["drainer"].pc # "idle"
         /\ call'["drainer"].flow = flow /\ call'["drainer"].id = id
      \/ OnRecord(flow, id)
      \/ id[1] = "inbox" => <<flow, id>> \in turnedAway'
  <2>1. CASE Begin("drainer")
    <3>1. /\ call["drainer"].pc = "counted"
          /\ Begins("drainer") \/ Drops("drainer")
      BY <1>0, <2>1, BeginCases
    <3>2. CASE Begins("drainer")
      <4>1. call' = [call EXCEPT !["drainer"].pc = "begun",
                                 !["drainer"].run = Len(runs) + 1]
        BY <3>2 DEF Begins
      <4> QED
        BY <1>0, <4>1 DEF CallRecords
    <3>3. CASE Drops("drainer")
      BY <3>3 DEF Drops, Claimed, OnRecord, TurnAway
    <3> QED
      BY <3>1, <3>2, <3>3
  <2>2. CASE DoStep("drainer")
    <3>1. /\ call' = [call EXCEPT !["drainer"].step = @ + 1]
          /\ call["drainer"].pc = "begun"
      BY <2>2 DEF DoStep
    <3> QED
      BY <1>0, <3>1 DEF CallRecords
  <2>3. CASE Finish("drainer")
    BY <1>0, <2>3 DEF Finish, RunsOK, BegunOK, RunFits, OnRecord
  <2> QED
    BY <2>1, <2>2, <2>3 DEF ExecuteStep
<1> SUFFICES ASSUME pass["drainer"] # NoPass,
                    NEW f \in Matching(pass["drainer"].loaded, pass["drainer"].at)'
             PROVE  Accounted(f)'
  BY <1>1 DEF DrainOK
<1>4. Accounted(f)
  BY <1>0, <1>1, <1>2, SameMatching DEF DrainOK
<1>5. ASSUME NEW i, OnRecord(f, i), i = pass["drainer"].at PROVE Accounted(f)'
  <2>1. OnRecord(f, i)'
    BY <1>1, <1>5, RecordStays
  <2> QED
    BY <1>1, <1>5, <2>1 DEF Accounted, OnRecord
<1>6. pass["drainer"].at[1] = "inbox"
  BY <1>0 DEF Shape, PassOK
<1>7. CASE f = flow /\ id = pass["drainer"].at
  <2>1. CASE /\ call'["drainer"].pc # "idle"
             /\ call'["drainer"].flow = flow /\ call'["drainer"].id = id
    BY <1>1, <1>7, <2>1 DEF Accounted
  <2>2. CASE OnRecord(flow, id)
    BY <1>5, <1>7, <2>2
  <2>3. CASE id[1] = "inbox" => <<flow, id>> \in turnedAway'
    BY <1>1, <1>6, <1>7, <2>3 DEF Accounted, OnRecord
  <2> QED
    BY <1>3, <2>1, <2>2, <2>3
<1>8. CASE f \in pass["drainer"].todo
  BY <1>1, <1>8 DEF Accounted
<1>9. CASE OnRecord(f, pass["drainer"].at)
  BY <1>5, <1>9
<1> QED
  BY <1>4, <1>7, <1>8, <1>9 DEF Accounted

LEMMA NextRowKeepsDrain ==
    ASSUME InboxTypes, EventsStay,
           NEW rows \in SUBSET (1..Len(inbox)), NEW loaded \in [Flows -> FlowRecords],
           pass'["drainer"] = PassAt(rows, loaded)
    PROVE  DrainOK'
<1> DEFINE p == PassAt(rows, loaded)
<1>1. \/ p = NoPass
      \/ /\ p.loaded = loaded
         /\ \E i \in 1..Len(inbox) : p.at = <<"inbox", i>>
         /\ p.todo = Matching(loaded, p.at)
  BY PassAtFacts
<1>2. pass'["drainer"] = p
  OBVIOUS
<1> HIDE DEF p
<1>3. CASE p = NoPass
  BY <1>2, <1>3, FreshPass
<1>4. CASE /\ p.loaded = loaded
           /\ \E i \in 1..Len(inbox) : p.at = <<"inbox", i>>
           /\ p.todo = Matching(loaded, p.at)
  <2>1. inbox'[p.at[2]].event = inbox[p.at[2]].event
    BY <1>4 DEF EventsStay
  <2>2. p.at[1] = "inbox"
    BY <1>4
  <2>3. pass'["drainer"].todo = Matching(pass["drainer"].loaded, pass["drainer"].at)'
    BY <1>2, <1>4, <2>1, <2>2 DEF Matching
  <2> QED
    BY <2>3, FreshPass
<1> QED
  BY <1>1, <1>3, <1>4

LEMMA DrainKeepsDrain ==
    ASSUME FlowInv, Drain \/ MarkDrained \/ Crash
    PROVE  DrainOK'
<1>0. Shape /\ InboxTypes /\ "drainer" \in Loops /\ pass \in [Loops -> PassRecords]
  BY ActorFacts DEF FlowInv, Shape, CallTypes
<1>1. CASE Drain
  <2>1. Pending \subseteq 1..Len(inbox) /\ LoadableFlows \in [Flows -> FlowRecords]
    BY <1>0, LoadableTyped DEF Pending, Undrained
  <2>2. pass'["drainer"] = PassAt(Pending, LoadableFlows) /\ UNCHANGED inbox
    BY <1>0, <1>1 DEF Drain
  <2>3. EventsStay
    BY <2>2 DEF EventsStay
  <2> QED
    BY <1>0, <2>1, <2>2, <2>3, NextRowKeepsDrain
<1>2. CASE MarkDrained
  <2>1. PICK i \in 1..Len(inbox) :
            \/ UNCHANGED inbox /\ pass'["drainer"] = NoPass
            \/ /\ \A j \in 1..Len(inbox) : inbox'[j].event = inbox[j].event
               /\ Len(inbox') = Len(inbox)
               /\ pass'["drainer"] =
                      PassAt(pass["drainer"].rest, pass["drainer"].loaded)
    BY <1>0, <1>2, MarkDrainedEffect
  <2>2. CASE pass'["drainer"] = NoPass
    BY <2>2, FreshPass
  <2>3. CASE /\ \A j \in 1..Len(inbox) : inbox'[j].event = inbox[j].event
             /\ Len(inbox') = Len(inbox)
             /\ pass'["drainer"] =
                    PassAt(pass["drainer"].rest, pass["drainer"].loaded)
    <3>1. EventsStay
      BY <2>3 DEF EventsStay
    <3>2. /\ pass["drainer"].rest \subseteq 1..Len(inbox)
          /\ pass["drainer"].loaded \in [Flows -> FlowRecords]
      BY <1>0 DEF Shape, PassOK, PassRecords
    <3> QED
      BY <1>0, <2>3, <3>1, <3>2, NextRowKeepsDrain
  <2> QED
    BY <2>1, <2>2, <2>3
<1>3. CASE Crash
  <2>1. pass'["drainer"] = NoPass
    BY <1>0, <1>3 DEF Crash
  <2> QED
    BY <2>1, FreshPass
<1> QED
  BY <1>1, <1>2, <1>3

(* Who else steps leaves the drainer's pass and call, and the inbox's rows *)
(* as they were.                                                           *)
Elsewhere ==
    /\ pass'["drainer"] = pass["drainer"] /\ call'["drainer"] = call["drainer"]
    /\ \A i \in 1..Len(inbox) : i \in 1..Len(inbox') /\ inbox'[i] = inbox[i]

LEMMA StepKinds ==
    ASSUME FlowInv, [Next]_vars
    PROVE  Elsewhere \/ DrainerStep \/ Crash
<1>0. /\ Shape /\ "drainer" \in Loops /\ pass \in [Loops -> PassRecords]
      /\ call \in [Executors -> CallRecords] /\ "drainer" \in Executors
      /\ "ticker" \in Executors /\ "ticker" # "drainer" /\ "ticker" \in Loops
  BY ActorFacts DEF FlowInv, Shape, CallTypes
<1>1. ASSUME UNCHANGED inbox,
             pass'["drainer"] = pass["drainer"], call'["drainer"] = call["drainer"]
      PROVE  Elsewhere
  BY <1>1 DEF Elsewhere
<1>2. ASSUME NEW x \in Executors, x # "drainer", ExecuteStep(x) PROVE Elsewhere
  BY <1>0, <1>1, <1>2, ExecuteTrail
<1>3. CASE Console
  <2>1. ASSUME NEW o \in Operators, NEW f \in Flows, RunNow(o, f) PROVE Elsewhere
    <3>1. o \in Executors /\ o # "drainer"
      BY ActorFacts
    <3> QED
      BY <1>0, <1>1, <2>1, <3>1 DEF RunNow
  <2>2. ASSUME \/ \E f \in Flows, d \in Documents : CreateFlow(f, d) \/ EditFlow(f, d)
               \/ \E f \in Flows : AskDelete(f) \/ SetEnabled(f) \/ SetMode(f)
               \/ WriteEdit
        PROVE  Elsewhere
    BY <1>1, <2>2 DEF CreateFlow, EditFlow, AskDelete, SetEnabled, SetMode, WriteEdit
  <2> QED
    BY <1>3, <2>1, <2>2 DEF Console
<1>4. CASE TickerStep
  <2>1. CASE TickDone \/ \E m \in 1..MaxMinutes : Tick(m)
    BY <1>0, <1>1, <2>1 DEF TickDone, Tick
  <2>2. CASE Offer("ticker")
    <3>1. PICK f \in pass["ticker"].todo, c \in CallRecords :
              /\ CallFits(c) /\ c.pc = "called" /\ CheckCeiling("ticker", c)
              /\ pass' = [pass EXCEPT !["ticker"].todo = @ \ {f}]
      BY <1>0, <2>2, OfferEffect
    <3>2. call'["drainer"] = call["drainer"]
      BY <1>0, <3>1, CeilingEffect
    <3>3. pass'["drainer"] = pass["drainer"]
      BY <1>0, <3>1
    <3> QED
      BY <1>1, <2>2, <3>2, <3>3 DEF Offer
  <2> QED
    BY <1>0, <1>2, <1>4, <2>1, <2>2 DEF TickerStep
<1>5. ASSUME NEW o \in Operators, ExecuteNow(o) \/ ExecuteStep(o) PROVE Elsewhere
  <2>1. o \in Executors /\ o # "drainer"
    BY ActorFacts
  <2>2. CASE ExecuteNow(o)
    <3>1. call'["drainer"] = call["drainer"]
      BY <1>0, <2>1, <2>2, ExecuteNowTrail
    <3> QED
      BY <1>1, <2>2, <3>1 DEF ExecuteNow
  <2> QED
    BY <1>2, <1>5, <2>1, <2>2
<1>6. ASSUME NEW e \in Events, AppendRow(e) PROVE Elsewhere
  <2>1. /\ Len(inbox') = Len(inbox) + 1
        /\ \A j \in 1..Len(inbox) : inbox'[j] = inbox[j]
        /\ UNCHANGED <<pass, call>>
    BY <1>0, <1>6, AppendRowEffect
  <2>2. Len(inbox) \in Nat
    BY <1>0, InboxFacts DEF Shape
  <2> QED
    BY <2>1, <2>2 DEF Elsewhere
<1>7. CASE HourPasses \/ UNCHANGED vars
  BY <1>1, <1>7 DEF HourPasses, vars
<1> QED
  BY <1>3, <1>4, <1>5, <1>6, <1>7 DEF Next

LEMMA DrainStep == FlowInv /\ DrainOK /\ [Next]_vars => DrainOK'
<1> SUFFICES ASSUME FlowInv, DrainOK, [Next]_vars PROVE DrainOK'
  OBVIOUS
<1>1. CASE Elsewhere
  <2>1. EventsStay /\ TrailGrows
    BY <1>1, TrailStep DEF Elsewhere, EventsStay
  <2> QED
    BY <1>1, <2>1, OthersKeepDrain DEF Elsewhere
<1>2. CASE DrainerStep
  BY <1>2, DrainKeepsDrain, OfferKeepsDrain, ExecuteKeepsDrain DEF DrainerStep
<1>3. CASE Crash
  BY <1>3, DrainKeepsDrain
<1> QED
  BY <1>1, <1>2, <1>3, StepKinds

(* A row is drained only when every flow its pass loaded for its event has   *)
(* a run for it or was turned away from one (Drain, MarkDrained).            *)
THEOREM FlowDrainedOnRecord == Spec => DrainedOnRecord
<1> DEFINE Recorded(i) ==
               \A f \in Matching(pass["drainer"].loaded, <<"inbox", i>>) :
                   \/ \E r \in 1..Len(runs) : /\ runs[r].flow = f
                                             /\ runs[r].id = <<"inbox", i>>
                   \/ <<f, <<"inbox", i>>>> \in turnedAway
<1>1. Init => DrainOK
  BY DEF Init, DrainOK, Loops
<1>2. FlowInv /\ DrainOK /\ [Next]_vars =>
          [\A i \in DOMAIN inbox :
              ~inbox[i].drained /\ inbox'[i].drained => Recorded(i)]_vars
  <2> SUFFICES ASSUME FlowInv, DrainOK, Next, NEW i \in DOMAIN inbox,
                      ~inbox[i].drained, inbox'[i].drained
               PROVE  Recorded(i)
    OBVIOUS
  <2>0. Shape /\ i \in 1..Len(inbox) /\ "drainer" \in Executors
    BY InboxFacts, ActorFacts DEF FlowInv, Shape
  <2>1. MarkDrained
    <3>1. ~Elsewhere
      BY <2>0 DEF Elsewhere
    <3>2. ~Crash
      BY DEF Crash
    <3>3. ~Drain /\ ~Offer("drainer")
      BY DEF Drain, Offer
    <3>4. ~ExecuteStep("drainer")
      BY <2>0, ExecuteTrail
    <3> QED
      BY <3>1, <3>2, <3>3, <3>4, StepKinds DEF DrainerStep
  <2>2. /\ pass["drainer"].todo = {} /\ call["drainer"].pc = "idle"
        /\ pass["drainer"] # NoPass
        /\ pass["drainer"].at = <<"inbox", i>>
    <3>1. pass["drainer"].todo = {} /\ call["drainer"] = NoCall
          /\ pass["drainer"] # NoPass
      BY <2>1 DEF MarkDrained
    <3>2. PICK k \in 1..Len(inbox) :
              /\ pass["drainer"].at = <<"inbox", k>>
              /\ \/ UNCHANGED inbox
                 \/ \A j \in 1..Len(inbox) : j # k => inbox'[j] = inbox[j]
      BY <2>0, <2>1, MarkDrainedEffect
    <3>3. k = i
      BY <2>0, <3>2
    <3> QED
      BY <3>1, <3>2, <3>3, FlowConstants
  <2>3. \A f \in Matching(pass["drainer"].loaded, pass["drainer"].at) :
            OnRecord(f, pass["drainer"].at)
    BY <2>2 DEF DrainOK, Accounted
  <2> QED
    BY <2>2, <2>3 DEF OnRecord
<1>3. Spec => [](FlowInv /\ DrainOK)
  BY <1>1, FlowStart, FlowStep, DrainStep, PTL DEF Spec
<1> QED
  BY <1>2, <1>3, PTL DEF Spec, DrainedOnRecord

-----------------------------------------------------------------------------
(* The hourly ceiling: who has counted and not begun holds a place.        *)

Recent(f)   == {i \in (lapsed + 1)..Len(runs) : runs[i].flow = f}
Counting(f) == {x \in Executors : call[x].pc = "counted" /\ call[x].flow = f}

RateInv ==
    \A f \in Flows :
        Cardinality(Recent(f)) + Cardinality(Counting(f))
            <= MaxRunsPerHour + Cardinality(Executors) - 1

(* What a step may do to the runs of the hour and to those about to begin  *)
(* one: no more of either; one who counted below the ceiling; a run for    *)
(* one who had counted.                                                    *)
RateEffect(f) ==
    \/ Recent(f)' \subseteq Recent(f) /\ Counting(f)' \subseteq Counting(f)
    \/ /\ Recent(f)' \subseteq Recent(f)
       /\ Cardinality(Recent(f)) < MaxRunsPerHour
    \/ \E x \in Counting(f) :
           /\ Counting(f)' \subseteq Counting(f) \ {x}
           /\ \E i \in Nat : Recent(f)' \subseteq Recent(f) \cup {i}

LEMMA RateSets ==
    ASSUME NEW l \in Nat, NEW len \in Nat,
           NEW R \in SUBSET ((l + 1)..len), NEW C \in SUBSET Executors
    PROVE  /\ Cardinality(Executors) \in Nat
           /\ IsFiniteSet(R) /\ Cardinality(R) \in Nat
           /\ IsFiniteSet(C) /\ Cardinality(C) \in Nat
           /\ Cardinality(C) <= Cardinality(Executors)
<1>1. IsFiniteSet(Loops)
  <2>1. Loops = {"drainer"} \cup {"ticker"}
    BY DEF Loops
  <2> QED
    BY <2>1, FS_Singleton, FS_AddElement
<1>2. IsFiniteSet(Executors) /\ Cardinality(Executors) \in Nat
  BY <1>1, OperatorsAssumption, FS_Union, FS_CardinalityType DEF Executors
<1>3. l + 1 \in Int /\ len \in Int
  OBVIOUS
<1>4. IsFiniteSet((l + 1)..len)
  BY <1>3, FS_Interval
<1>5. IsFiniteSet(R) /\ Cardinality(R) \in Nat
  BY <1>4, FS_Subset, FS_CardinalityType
<1>6. /\ IsFiniteSet(C) /\ Cardinality(C) \in Nat
      /\ Cardinality(C) <= Cardinality(Executors)
  BY <1>2, FS_Subset, FS_CardinalityType
<1> QED
  BY <1>2, <1>5, <1>6

LEMMA RatePreserved ==
    ASSUME FlowInv, FlowInv', NEW f \in Flows, RateEffect(f),
           Cardinality(Recent(f)) + Cardinality(Counting(f))
               <= MaxRunsPerHour + Cardinality(Executors) - 1
    PROVE  Cardinality(Recent(f)') + Cardinality(Counting(f)')
               <= MaxRunsPerHour + Cardinality(Executors) - 1
<1> DEFINE R == Recent(f)
           S == Recent(f)'
           C == Counting(f)
           D == Counting(f)'
           n == Cardinality(Executors)
           r == Cardinality(R)
           s == Cardinality(S)
           c == Cardinality(C)
           d == Cardinality(D)
<1>1. /\ n \in Nat /\ r \in Nat /\ c \in Nat /\ c <= n
      /\ IsFiniteSet(R) /\ IsFiniteSet(C)
  <2>1. /\ lapsed \in Nat /\ Len(runs) \in Nat
        /\ R \in SUBSET ((lapsed + 1)..Len(runs)) /\ C \in SUBSET Executors
    BY RunFacts DEF FlowInv, Shape, RunTypes, Recent, Counting
  <2> QED
    BY <2>1, RateSets
<1>2. /\ s \in Nat /\ d \in Nat /\ d <= n /\ IsFiniteSet(S) /\ IsFiniteSet(D)
  <2>1. runs' \in Seq(RunRecords) /\ lapsed' \in 0..Len(runs')
    BY DEF FlowInv, Shape, RunTypes
  <2>2. lapsed' \in Nat /\ Len(runs') \in Nat
    BY <2>1, LenProperties
  <2>3. S \in SUBSET ((lapsed' + 1)..Len(runs')) /\ D \in SUBSET Executors
    BY DEF Recent, Counting
  <2> QED
    BY <2>2, <2>3, RateSets
<1>3. MaxRunsPerHour \in Nat /\ MaxRunsPerHour >= 1
  BY FlowBounds
<1>4. \/ S \subseteq R /\ D \subseteq C
      \/ S \subseteq R /\ r < MaxRunsPerHour
      \/ \E x \in C : D \subseteq C \ {x} /\ \E i \in Nat : S \subseteq R \cup {i}
  BY DEF RateEffect
<1>5. r + c <= MaxRunsPerHour + n - 1
  OBVIOUS
<1> SUFFICES s + d <= MaxRunsPerHour + n - 1
  OBVIOUS
<1> HIDE DEF R, S, C, D, n
<1>6. S \subseteq R => s <= r
  BY <1>1, FS_Subset
<1>7. D \subseteq C => d <= c
  BY <1>1, FS_Subset
<1>8. ASSUME NEW x \in C, NEW i \in Nat, D \subseteq C \ {x}, S \subseteq R \cup {i}
      PROVE  d <= c - 1 /\ s <= r + 1
  <2>1. IsFiniteSet(C \ {x}) /\ Cardinality(C \ {x}) = c - 1
    BY <1>1, FS_RemoveElement
  <2>2. d <= c - 1
    BY <1>8, <2>1, FS_Subset
  <2>3. /\ IsFiniteSet(R \cup {i}) /\ Cardinality(R \cup {i}) \in Nat
        /\ Cardinality(R \cup {i}) <= r + 1
    <3>1. /\ IsFiniteSet(R \cup {i})
          /\ Cardinality(R \cup {i}) = IF i \in R THEN r ELSE r + 1
      BY <1>1, FS_AddElement
    <3> HIDE DEF r
    <3> QED
      BY <1>1, <3>1
  <2>4. s <= Cardinality(R \cup {i})
    BY <1>8, <2>3, FS_Subset
  <2>5. s <= r + 1
    <3> DEFINE q == Cardinality(R \cup {i})
    <3>1. q \in Nat /\ q <= r + 1 /\ s <= q
      BY <2>3, <2>4
    <3> HIDE DEF q, r, s
    <3> QED
      BY <1>1, <1>2, <3>1
  <2> QED
    BY <2>2, <2>5
<1> HIDE DEF r, s, c, d
<1>9. CASE S \subseteq R /\ D \subseteq C
  BY <1>1, <1>2, <1>3, <1>5, <1>6, <1>7, <1>9
<1>10. CASE S \subseteq R /\ r < MaxRunsPerHour
  BY <1>1, <1>2, <1>3, <1>6, <1>10
<1>11. CASE \E x \in C : D \subseteq C \ {x} /\ \E i \in Nat : S \subseteq R \cup {i}
  <2>1. d <= c - 1 /\ s <= r + 1
    BY <1>8, <1>11
  <2> QED
    BY <1>1, <1>2, <1>3, <1>5, <2>1
<1> QED
  BY <1>4, <1>9, <1>10, <1>11

(* A step that begins no run and counts nobody.                            *)
LEMMA NoneCounted ==
    ASSUME Len(runs') = Len(runs), lapsed' = lapsed,
           \A i \in 1..Len(runs) : runs'[i].flow = runs[i].flow,
           \A x \in Executors : call'[x].pc = "counted" => call'[x] = call[x],
           FlowInv, NEW f \in Flows
    PROVE  RateEffect(f)
<1>1. \A i \in (lapsed + 1)..Len(runs) : i \in 1..Len(runs)
  BY RunFacts DEF FlowInv, Shape, RunTypes
<1>2. Recent(f)' \subseteq Recent(f)
  BY <1>1 DEF Recent
<1>3. Counting(f)' \subseteq Counting(f)
  BY DEF Counting
<1> QED
  BY <1>2, <1>3 DEF RateEffect

LEMMA CeilingRate ==
    ASSUME FlowInv, NEW x \in Executors, NEW c \in CallRecords,
           c.pc = "called", CallFits(c), CheckCeiling(x, c),
           UNCHANGED <<runs, lapsed>>, NEW f \in Flows
    PROVE  RateEffect(f)
<1>0. Shape
  BY DEF FlowInv
<1>1. /\ \A y \in Executors : y # x => call'[y] = call[y]
      /\ \/ /\ call'[x] = [c EXCEPT !.pc = "counted"]
            /\ UnderCeiling(c)
         \/ call'[x] = NoCall
  BY <1>0, CeilingEffect
<1>2. CASE call'[x] = NoCall
  BY <1>1, <1>2, FlowConstants, NoneCounted
<1>3. CASE call'[x] = [c EXCEPT !.pc = "counted"] /\ UnderCeiling(c)
  <2>1. Recent(f)' \subseteq Recent(f)
    BY DEF Recent
  <2>2. CASE f = c.flow
    <3>1. Cardinality(Recent(f)) < MaxRunsPerHour
      BY <1>3, <2>2 DEF UnderCeiling, CountSince, Recent
    <3> QED
      BY <2>1, <3>1 DEF RateEffect
  <2>3. CASE f # c.flow
    <3>1. call'[x].flow = c.flow
      BY <1>3 DEF CallRecords
    <3>2. Counting(f)' \subseteq Counting(f)
      BY <1>1, <2>3, <3>1 DEF Counting
    <3> QED
      BY <2>1, <3>2 DEF RateEffect
  <2> QED
    BY <2>2, <2>3
<1> QED
  BY <1>1, <1>2, <1>3

LEMMA ExecuteRate ==
    ASSUME FlowInv, NEW x \in Executors, ExecuteStep(x), NEW f \in Flows
    PROVE  RateEffect(f)
<1>0. /\ Shape /\ CallTypes /\ CallOK /\ RunTypes /\ Len(runs) \in Nat /\ BegunOK
      /\ call \in [Executors -> CallRecords] /\ lapsed \in Nat
  BY RunFacts DEF FlowInv, Shape, RunsOK, CallTypes, RunTypes
<1>1. \A y \in Executors : y # x => call'[y] = call[y]
  BY ExecuteTrail
<1>2. CASE Begin(x)
  <2>1. call[x].pc = "counted" /\ (Begins(x) \/ Drops(x)) /\ UNCHANGED lapsed
    BY <1>2, BeginCases
  <2>2. CASE Begins(x)
    <3> DEFINE r == NewRun(x)
               n == Len(runs) + 1
    <3>1. /\ runs' = Append(runs, r)
      BY <2>2 DEF Begins
    <3>2. call' = [call EXCEPT ![x].pc = "begun", ![x].run = n]
      BY <2>2 DEF Begins
    <3>3. r \in RunRecords /\ r.flow = call[x].flow
      BY <1>0, <2>1, NewRunTyped
    <3> HIDE DEF r
    <3>4. /\ Len(runs') = n /\ runs'[n] = r
          /\ \A i \in 1..Len(runs) : runs'[i] = runs[i]
      BY <1>0, <3>1, <3>3, RunAppended
    <3>5. call'[x].pc = "begun"
      BY <1>0, <3>2 DEF CallRecords
    <3>6. Counting(f)' \subseteq Counting(f) \ {x}
      BY <1>1, <3>5 DEF Counting
    <3>7. \A i \in (lapsed + 1)..n : i # n => i \in (lapsed + 1)..Len(runs)
                                              /\ i \in 1..Len(runs)
      BY <1>0
    <3> HIDE DEF n
    <3>8. n \in Nat
      BY <1>0 DEF n
    <3>9. CASE f = call[x].flow
      <4>1. x \in Counting(f)
        BY <2>1, <3>9 DEF Counting
      <4>2. Recent(f)' \subseteq Recent(f) \cup {n}
        BY <2>1, <3>4, <3>7 DEF Recent
      <4> QED
        BY <3>6, <3>8, <4>1, <4>2 DEF RateEffect
    <3>10. CASE f # call[x].flow
      <4>1. Recent(f)' \subseteq Recent(f)
        BY <2>1, <3>3, <3>4, <3>7, <3>10 DEF Recent
      <4> QED
        BY <3>6, <4>1 DEF RateEffect
    <3> QED
      BY <3>9, <3>10
  <2>3. CASE Drops(x)
    <3>1. call' = [call EXCEPT ![x] = NoCall] /\ UNCHANGED runs
      BY <2>3 DEF Drops
    <3>2. call'[x].pc = "idle"
      BY <1>0, <3>1, FlowConstants
    <3> QED
      BY <1>1, <2>1, <3>1, <3>2, NoneCounted
  <2> QED
    BY <2>1, <2>2, <2>3
<1>3. CASE DoStep(x)
  <2>1. /\ UNCHANGED <<runs, lapsed>> /\ call[x].pc = "begun"
        /\ call' = [call EXCEPT ![x].step = @ + 1]
    BY <1>3 DEF DoStep
  <2>2. call'[x].pc = "begun"
    BY <1>0, <2>1 DEF CallRecords
  <2> QED
    BY <1>1, <2>1, <2>2, NoneCounted
<1>4. CASE Finish(x)
  <2>1. call[x].run \in 1..Len(runs)
    BY <1>0, <1>4 DEF Finish, BegunOK, RunFits
  <2>2. /\ Len(runs') = Len(runs) /\ UNCHANGED lapsed
        /\ \A i \in 1..Len(runs) : runs'[i].flow = runs[i].flow
        /\ call' = [call EXCEPT ![x] = NoCall]
    BY <1>0, <1>4, <2>1, FinishEffect
  <2>3. call'[x].pc = "idle"
    BY <1>0, <2>2, FlowConstants
  <2> QED
    BY <1>1, <2>2, <2>3, NoneCounted
<1> QED
  BY <1>2, <1>3, <1>4 DEF ExecuteStep

LEMMA RateStep ==
    ASSUME FlowInv, [Next]_vars, NEW f \in Flows
    PROVE  RateEffect(f)
<1>0. /\ Shape /\ "drainer" \in Loops /\ "ticker" \in Loops
      /\ "drainer" \in Executors /\ "ticker" \in Executors
      /\ \A o \in Operators : o \in Executors
      /\ call \in [Executors -> CallRecords]
  BY ActorFacts DEF FlowInv, Shape, CallTypes
<1>1. ASSUME UNCHANGED <<runs, lapsed, call>> PROVE RateEffect(f)
  BY <1>1, NoneCounted
<1>2. CASE Drain \/ MarkDrained \/ TickDone \/ (\E m \in 1..MaxMinutes : Tick(m))
           \/ (\E e \in Events : AppendRow(e)) \/ UNCHANGED vars
           \/ (\E g \in Flows, d \in Documents : CreateFlow(g, d) \/ EditFlow(g, d))
           \/ (\E g \in Flows : AskDelete(g) \/ SetEnabled(g) \/ SetMode(g))
           \/ WriteEdit
  <2>1. UNCHANGED <<runs, lapsed, call>>
    BY <1>2 DEF Drain, MarkDrained, TickDone, Tick, AppendRow, vars, CreateFlow,
                EditFlow, AskDelete, SetEnabled, SetMode, WriteEdit
  <2> QED
    BY <1>1, <2>1
<1>3. ASSUME NEW o \in Operators, NEW g \in Flows, RunNow(o, g) PROVE RateEffect(f)
  <2>1. /\ UNCHANGED <<runs, lapsed>>
        /\ call' = [call EXCEPT ![o] = CallFor(g, flows[g], <<"manual", presses + 1>>)]
    BY <1>3 DEF RunNow
  <2>2. call'[o].pc = "called" /\ \A y \in Executors : y # o => call'[y] = call[y]
    BY <1>0, <2>1 DEF CallFor
  <2> QED
    BY <2>1, <2>2, NoneCounted
<1>4. ASSUME NEW x \in Loops, Offer(x) PROVE RateEffect(f)
  <2>1. PICK g \in pass[x].todo, c \in CallRecords :
            CallFits(c) /\ c.pc = "called" /\ CheckCeiling(x, c)
    BY <1>0, <1>4, OfferEffect
  <2>2. UNCHANGED <<runs, lapsed>> /\ x \in Executors
    BY <1>4, ActorFacts DEF Offer
  <2> QED
    BY <2>1, <2>2, CeilingRate
<1>5. ASSUME NEW o \in Operators, ExecuteNow(o) PROVE RateEffect(f)
  <2>1. /\ call[o].pc = "called" /\ call[o] \in CallRecords /\ CallFits(call[o])
        /\ CheckCeiling(o, call[o]) /\ UNCHANGED <<runs, lapsed>>
    BY <1>0, <1>5 DEF ExecuteNow, Shape, CallOK
  <2> QED
    BY <1>0, <2>1, CeilingRate
<1>6. CASE HourPasses
  <2>1. lapsed' = lapsed + 1 /\ UNCHANGED <<runs, call>> /\ lapsed \in Nat
        /\ Len(runs) \in Nat
    BY <1>0, <1>6, RunFacts DEF HourPasses, Shape, RunTypes
  <2>2. Recent(f)' \subseteq Recent(f) /\ Counting(f)' \subseteq Counting(f)
    BY <2>1 DEF Recent, Counting
  <2> QED
    BY <2>2 DEF RateEffect
<1>7. CASE Crash
  <2>1. /\ Len(runs') = Len(runs) /\ UNCHANGED lapsed
        /\ \A i \in 1..Len(runs) : runs'[i].flow = runs[i].flow
        /\ call' = [x \in Executors |-> NoCall]
    BY <1>0, <1>7, CrashEffect
  <2>2. \A x \in Executors : call'[x].pc = "idle"
    BY <2>1, FlowConstants
  <2> QED
    BY <2>1, <2>2, NoneCounted
<1>8. ASSUME NEW x \in Executors, ExecuteStep(x) PROVE RateEffect(f)
  BY <1>8, ExecuteRate
<1> QED
  BY <1>0, <1>2, <1>3, <1>4, <1>5, <1>6, <1>7, <1>8
     DEF Next, Console, DrainerStep, TickerStep

(* The hourly ceiling is passed only by callers that counted at the same     *)
(* time: by one run for each executor but one (Execute, CountSince).         *)
THEOREM FlowRateBounded == Spec => []RateOvershootBounded
<1>1. Init => RateInv
  <2> SUFFICES ASSUME Init, NEW f \in Flows
               PROVE  Cardinality(Recent(f)) + Cardinality(Counting(f))
                          <= MaxRunsPerHour + Cardinality(Executors) - 1
    BY DEF RateInv
  <2>1. Len(runs) = 0 /\ lapsed = 0
    BY EmptySeq DEF Init
  <2>2. Recent(f) = {}
    BY <2>1 DEF Recent
  <2>3. Counting(f) = {}
    BY FlowConstants DEF Init, Counting
  <2>4. {} \in SUBSET ((0 + 1)..0) /\ {} \in SUBSET Executors
    OBVIOUS
  <2>5. Cardinality(Executors) \in Nat
    BY <2>4, RateSets
  <2>6. Cardinality(Recent(f)) = 0 /\ Cardinality(Counting(f)) = 0
    BY <2>2, <2>3, FS_EmptySet
  <2> QED
    BY <2>5, <2>6, FlowBounds
<1>2. FlowInv /\ RateInv /\ [Next]_vars => RateInv'
  <2> SUFFICES ASSUME FlowInv, RateInv, [Next]_vars, NEW f \in Flows
               PROVE  Cardinality(Recent(f)') + Cardinality(Counting(f)')
                          <= MaxRunsPerHour + Cardinality(Executors) - 1
    BY DEF RateInv
  <2>1. FlowInv' /\ RateEffect(f)
    BY FlowStep, RateStep
  <2>2. Cardinality(Recent(f)) + Cardinality(Counting(f))
            <= MaxRunsPerHour + Cardinality(Executors) - 1
    BY DEF RateInv
  <2> QED
    BY <2>1, <2>2, RatePreserved
<1>3. FlowInv /\ RateInv => RateOvershootBounded
  <2> SUFFICES ASSUME FlowInv, RateInv, NEW f \in Flows
               PROVE  Cardinality(Recent(f))
                          <= MaxRunsPerHour + Cardinality(Executors) - 1
    BY DEF RateOvershootBounded, CountSince, Recent
  <2> DEFINE r == Cardinality(Recent(f))
             c == Cardinality(Counting(f))
             n == Cardinality(Executors)
  <2>1. /\ lapsed \in Nat /\ Len(runs) \in Nat
        /\ Recent(f) \in SUBSET ((lapsed + 1)..Len(runs))
        /\ Counting(f) \in SUBSET Executors
    BY RunFacts DEF FlowInv, Shape, RunTypes, Recent, Counting
  <2>2. r \in Nat /\ c \in Nat /\ n \in Nat
    BY <2>1, RateSets
  <2>3. r + c <= MaxRunsPerHour + n - 1
    BY DEF RateInv
  <2> HIDE DEF r, c, n
  <2>4. r <= MaxRunsPerHour + n - 1
    BY <2>2, <2>3, FlowBounds
  <2> QED
    BY <2>4 DEF r, n
<1> QED
  BY <1>1, <1>2, <1>3, FlowStart, FlowStep, PTL DEF Spec
=============================================================================
