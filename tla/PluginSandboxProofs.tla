------------------------- MODULE PluginSandboxProofs ------------------------
(***************************************************************************)
(* Machine-checked facts about PluginSandbox, for any number of callers,   *)
(* members, calls and restarts: wherever processes exit, calls time out or *)
(* are cancelled, and the host stops.                                      *)
(***************************************************************************)
EXTENDS PluginSandbox, SequenceTheorems, TLAPS

(* The types: of a call, which has its number while it lasts, and of all.  *)
CallTypes ==
    /\ next \in Nat
    /\ pc \in [Callers -> {"idle", "waiting", "writing", "reading"}]
    /\ member \in [Callers -> Members]
    /\ call \in [Callers -> 0..MaxCalls]
    /\ sc \in [Callers -> Pids \cup {NoPid}]
    /\ \A c \in Callers : pc[c] # "idle" => call[c] \in Calls

SandboxTypes ==
    /\ CallTypes
    /\ cmd \in [Members -> Pids \cup {NoPid}]
    /\ crashes \in [Members -> Nat]
    /\ quarantined \in [Members -> BOOLEAN]
    /\ life \in [Pids -> {"unborn", "alive", "exited", "killed"}]
    /\ reaped \in [Pids -> BOOLEAN]
    /\ stdin \in [Pids -> Seq(Calls)]
    /\ stdout \in [Pids -> Seq(Replies)]
    /\ taken \in [Pids -> 0..MaxMessage]
    /\ scratch \in SUBSET Pids
    /\ born \in Nat

(* A process that was not started is nobody's, and one that was waited for *)
(* has exited on its own.                                                  *)
ProcessesOK ==
    /\ \A p \in Pids : p > born => life[p] = "unborn" /\ p \notin scratch
    /\ \A p \in Pids : life[p] = "unborn" => stdin[p] = <<>> /\ stdout[p] = <<>>
    /\ \A p \in Pids : reaped[p] => life[p] = "exited"
    /\ \A m \in Members : cmd[m] <= born

(* No two members have one process, and no two calls the lock of a member. *)
Exclusive ==
    /\ \A m, n \in Members : cmd[m] = cmd[n] /\ cmd[m] # NoPid => m = n
    /\ \A c, d \in Callers :
          pc[c] \in Holding /\ pc[d] \in Holding /\ member[c] = member[d]
              => c = d

(* A call writes to, and reads from, the process its member has.           *)
Captured ==
    \A c \in Callers : pc[c] \in Holding =>
        sc[c] = cmd[member[c]] /\ sc[c] # NoPid

(* The pipes of a process are empty, but for one call that reads from it:  *)
(* its request on the way in, or the reply to it on the way out.           *)
Reads(c, p) == pc[c] = "reading" /\ sc[c] = p

Underway(p) ==
    \E c \in Callers :
        /\ Reads(c, p)
        /\ \/ stdin[p] = <<call[c]>> /\ stdout[p] = <<>>
           \/ /\ stdin[p] = <<>>
              /\ \E n \in 1..MaxMessage :
                    stdout[p] = <<[call |-> call[c], size |-> n]>>

PipesOK ==
    \A p \in Pids : (stdin[p] = <<>> /\ stdout[p] = <<>>) \/ Underway(p)

(* A member in quarantine has no process.                                  *)
QuarantinedIsEmpty == \A m \in Members : quarantined[m] => cmd[m] = NoPid

SandboxInv ==
    /\ SandboxTypes
    /\ ProcessesOK
    /\ Exclusive
    /\ Captured
    /\ PipesOK
    /\ QuarantinedIsEmpty
    /\ NoOrphanProcess
    /\ LeftoverScratch

-----------------------------------------------------------------------------
(* The constants.                                                          *)
LEMMA Sizes ==
    /\ Members \subseteq Nat /\ 0 \in Members
    /\ Pids \subseteq Nat /\ NoPid \notin Pids
    /\ Calls \subseteq 0..MaxCalls /\ 0 \in 0..MaxCalls
    /\ 0 \in 0..MaxMessage /\ MaxMessage \in 0..MaxMessage
    /\ \A n \in Nat : n % PoolSize \in Members
<1>1. \A n \in Nat : n % PoolSize \in 0..(PoolSize - 1)
  BY SizesAssumption
<1> QED
  BY <1>1, SizesAssumption DEF Members, Pids, NoPid, Calls

(* The call with the lock of member m ends, and the others go on.          *)
LeavesMember(m) ==
    \A d \in Callers :
        /\ pc'[d] \in Holding => pc[d] \in Holding /\ member[d] # m
        /\ pc[d] \in Holding /\ member[d] # m =>
              /\ pc'[d] = pc[d]
              /\ member'[d] = member[d]
              /\ call'[d] = call[d]
              /\ sc'[d] = sc[d]

LEMMA ReturnTypes ==
    ASSUME CallTypes, NEW c \in Callers, Return(c), UNCHANGED next
    PROVE  CallTypes'
  BY Sizes DEF CallTypes, Return

(* A call that returns with the lock of its member.                        *)
LEMMA ReturnLeaves ==
    ASSUME SandboxInv, NEW c \in Callers, Return(c),
           pc[c] \in Holding \/ ~Locked(member[c])
    PROVE  LeavesMember(member[c])
<1>1. \A d \in Callers : pc[d] \in Holding /\ member[d] = member[c] => d = c
  BY DEF SandboxInv, Exclusive, Locked
<1>2. CallTypes
  BY DEF SandboxInv, SandboxTypes
<1>3. /\ pc'[c] = "idle"
      /\ \A d \in Callers \ {c} :
            /\ pc'[d] = pc[d] /\ member'[d] = member[d]
            /\ call'[d] = call[d] /\ sc'[d] = sc[d]
  BY <1>2 DEF Return, CallTypes
<1> QED
  BY <1>1, <1>3 DEF LeavesMember, Locked, Holding

(* The reader of a member's process holds the member's lock.               *)
LEMMA ReaderOf ==
    ASSUME SandboxInv, NEW m \in Members, cmd[m] # NoPid,
           NEW d \in Callers, Reads(d, cmd[m])
    PROVE  member[d] = m
<1>1. member[d] \in Members /\ cmd[member[d]] = cmd[m]
  BY DEF SandboxInv, SandboxTypes, CallTypes, Captured, Reads, Holding
<1> QED
  BY <1>1 DEF SandboxInv, Exclusive

(* No call reads from a member's process while the lock is free, or while  *)
(* the call that has it writes.                                            *)
LEMMA UnreadIsEmpty ==
    ASSUME SandboxInv, NEW m \in Members, cmd[m] # NoPid,
           \/ ~Locked(m)
           \/ \E c \in Callers : pc[c] = "writing" /\ member[c] = m
    PROVE  stdin[cmd[m]] = <<>> /\ stdout[cmd[m]] = <<>>
<1>1. cmd[m] \in Pids
  BY DEF SandboxInv, SandboxTypes
<1>2. ASSUME NEW d \in Callers, Reads(d, cmd[m]) PROVE FALSE
  <2>1. member[d] = m /\ pc[d] = "reading"
    BY <1>2, ReaderOf DEF Reads
  <2>2. \A c \in Callers : pc[c] = "writing" /\ member[c] = m => c = d
    BY <2>1 DEF SandboxInv, Exclusive, Holding
  <2> QED
    BY <2>1, <2>2 DEF Locked, Holding
<1>3. ~Underway(cmd[m])
  BY <1>2 DEF Underway
<1> QED
  BY <1>1, <1>3 DEF SandboxInv, PipesOK

(* What a member lets go of has empty pipes, and the other pipes stay.     *)
LEMMA LeavesPipes ==
    ASSUME SandboxInv, NEW m \in Members, LeavesMember(m),
           \A p \in Pids : p # cmd[m] =>
               stdin'[p] = stdin[p] /\ stdout'[p] = stdout[p],
           cmd[m] # NoPid =>
               stdin'[cmd[m]] = <<>> /\ stdout'[cmd[m]] = <<>>
    PROVE  PipesOK'
<1> SUFFICES ASSUME NEW p \in Pids
             PROVE  (stdin'[p] = <<>> /\ stdout'[p] = <<>>) \/ Underway(p)'
  BY DEF PipesOK
<1>1. CASE p = cmd[m]
  BY <1>1, Sizes
<1>2. CASE p # cmd[m] /\ Underway(p)
  <2>1. PICK d \in Callers :
            /\ Reads(d, p)
            /\ \/ stdin[p] = <<call[d]>> /\ stdout[p] = <<>>
               \/ /\ stdin[p] = <<>>
                  /\ \E n \in 1..MaxMessage :
                        stdout[p] = <<[call |-> call[d], size |-> n]>>
    BY <1>2 DEF Underway
  <2>2. pc[d] = "reading" /\ pc[d] \in Holding /\ member[d] # m
    BY <1>2, <2>1 DEF Reads, Holding, SandboxInv, Captured
  <2>3. pc'[d] = "reading" /\ call'[d] = call[d] /\ sc'[d] = sc[d]
    BY <2>2 DEF LeavesMember
  <2> QED
    BY <1>2, <2>1, <2>3 DEF Underway, Reads
<1>3. CASE p # cmd[m] /\ stdin[p] = <<>> /\ stdout[p] = <<>>
  BY <1>3
<1> QED
  BY <1>1, <1>2, <1>3 DEF SandboxInv, PipesOK

(* A member that lost its process, or has the one it had.                  *)
LEMMA LeavesLocks ==
    ASSUME SandboxInv, NEW m \in Members, LeavesMember(m),
           cmd' = cmd \/ cmd' = [cmd EXCEPT ![m] = NoPid]
    PROVE  Exclusive' /\ Captured'
<1>1. \A n \in Members : cmd'[n] = cmd[n] \/ cmd'[n] = NoPid
  BY DEF SandboxInv, SandboxTypes
<1>2. \A n \in Members : n # m => cmd'[n] = cmd[n]
  BY DEF SandboxInv, SandboxTypes
<1>3. Exclusive'
  <2>1. ASSUME NEW k \in Members, NEW n \in Members, cmd'[k] = cmd'[n],
               cmd'[k] # NoPid
        PROVE  k = n
    BY <1>1, <2>1 DEF SandboxInv, Exclusive
  <2>2. ASSUME NEW c \in Callers, NEW d \in Callers, pc'[c] \in Holding,
               pc'[d] \in Holding, member'[c] = member'[d]
        PROVE  c = d
    <3>1. pc[c] \in Holding /\ pc[d] \in Holding /\ member[c] = member[d]
      BY <2>2 DEF LeavesMember
    <3> QED
      BY <3>1 DEF SandboxInv, Exclusive
  <2> QED
    BY <2>1, <2>2 DEF Exclusive
<1>4. ASSUME NEW c \in Callers, pc'[c] \in Holding
      PROVE  sc'[c] = cmd'[member'[c]] /\ sc'[c] # NoPid
  <2>1. /\ pc[c] \in Holding /\ member[c] # m
        /\ member'[c] = member[c] /\ sc'[c] = sc[c]
        /\ member[c] \in Members
    BY <1>4 DEF LeavesMember, SandboxInv, SandboxTypes, CallTypes
  <2> QED
    BY <1>2, <2>1 DEF SandboxInv, Captured
<1> QED
  BY <1>3, <1>4 DEF Captured

-----------------------------------------------------------------------------
(* killSubprocess, with or without a crash that is counted.                *)
LEMMA KillStep ==
    ASSUME SandboxInv, NEW m \in Members, killSubprocess(m), LeavesMember(m),
           CallTypes', UNCHANGED <<reaped, born>>,
           CountCrash(m) \/ UNCHANGED <<crashes, quarantined>>
    PROVE  SandboxInv'
<1>0. SandboxTypes
  BY DEF SandboxInv
<1>1. /\ cmd' = [cmd EXCEPT ![m] = NoPid]
      /\ cmd' \in [Members -> Pids \cup {NoPid}]
      /\ cmd'[m] = NoPid
      /\ \A n \in Members : n # m => cmd'[n] = cmd[n]
  BY <1>0 DEF killSubprocess, SandboxTypes
<1>2. /\ life' \in [Pids -> {"unborn", "alive", "exited", "killed"}]
      /\ \A p \in Pids :
            life'[p] = IF p = cmd[m] /\ life[p] = "alive" THEN "killed"
                       ELSE life[p]
  BY <1>0, Sizes DEF killSubprocess, SandboxTypes, LetGo
<1>3. /\ scratch' \in SUBSET Pids
      /\ \A p \in scratch' : p \in scratch /\ p # cmd[m]
  BY <1>0, Sizes DEF killSubprocess, SandboxTypes, LetGo
<1>4. /\ stdin' \in [Pids -> Seq(Calls)]
      /\ stdout' \in [Pids -> Seq(Replies)]
      /\ taken' \in [Pids -> 0..MaxMessage]
      /\ \A p \in Pids : p = cmd[m] => stdin'[p] = <<>> /\ stdout'[p] = <<>>
      /\ \A p \in Pids : p # cmd[m] =>
            stdin'[p] = stdin[p] /\ stdout'[p] = stdout[p]
  <2>1. \A p \in Pids : p \in LetGo(m) <=> p = cmd[m]
    BY Sizes DEF LetGo
  <2>2. <<>> \in Seq(Calls) /\ <<>> \in Seq(Replies)
    BY EmptySeq
  <2> QED
    BY <1>0, <2>1, <2>2, Sizes DEF killSubprocess, DropPipes, SandboxTypes
<1>5. /\ crashes' \in [Members -> Nat]
      /\ quarantined' \in [Members -> BOOLEAN]
      /\ \A n \in Members : n # m => quarantined'[n] = quarantined[n]
  <2>1. CASE CountCrash(m)
    <3>1. crashes[m] \in Nat
      BY <1>0 DEF SandboxTypes
    <3>2. crashes' \in [Members -> Nat]
      BY <1>0, <2>1, <3>1 DEF CountCrash, SandboxTypes
    <3> DEFINE b == crashes[m] + 1 >= MaxRestarts
    <3>3. b \in BOOLEAN
      OBVIOUS
    <3>4. quarantined' = [quarantined EXCEPT ![m] = b]
      BY <2>1 DEF CountCrash
    <3> HIDE DEF b
    <3> QED
      BY <1>0, <3>2, <3>3, <3>4 DEF SandboxTypes
  <2>2. CASE UNCHANGED <<crashes, quarantined>>
    BY <1>0, <2>2 DEF SandboxTypes
  <2> QED
    BY <2>1, <2>2
<1>6. SandboxTypes'
  BY <1>0, <1>1, <1>2, <1>3, <1>4, <1>5 DEF SandboxTypes
<1>7. ProcessesOK'
  <2>1. ASSUME NEW p \in Pids
        PROVE  /\ p > born => life'[p] = "unborn" /\ p \notin scratch'
               /\ life'[p] = "unborn" => stdin'[p] = <<>> /\ stdout'[p] = <<>>
               /\ reaped[p] => life'[p] = "exited"
    BY <1>2, <1>3, <1>4 DEF SandboxInv, ProcessesOK
  <2>2. \A n \in Members : cmd'[n] <= born
    BY <1>0, <1>1 DEF SandboxInv, ProcessesOK, SandboxTypes, NoPid
  <2> QED
    BY <2>1, <2>2 DEF ProcessesOK
<1>8. Exclusive' /\ Captured'
  BY <1>1, LeavesLocks
<1>9. PipesOK'
  <2>1. cmd[m] # NoPid => cmd[m] \in Pids
    BY <1>0 DEF SandboxTypes
  <2> QED
    BY <1>4, <2>1, LeavesPipes
<1>10. QuarantinedIsEmpty'
  BY <1>1, <1>5 DEF SandboxInv, QuarantinedIsEmpty
<1>11. NoOrphanProcess'
  BY <1>1, <1>2 DEF SandboxInv, NoOrphanProcess
<1>12. LeftoverScratch'
  <2> SUFFICES ASSUME NEW p \in scratch'
               PROVE  life'[p] = "exited" \/ \E n \in Members : cmd'[n] = p
    BY DEF LeftoverScratch
  <2>1. p \in scratch /\ p # cmd[m] /\ p \in Pids
    BY <1>3
  <2> QED
    BY <1>1, <1>2, <2>1 DEF SandboxInv, LeftoverScratch
<1> QED
  BY <1>6, <1>7, <1>8, <1>9, <1>10, <1>11, <1>12 DEF SandboxInv

-----------------------------------------------------------------------------
(* The process itself: it answers, exits and is waited for.                *)
LEMMA ProcessStep ==
    ASSUME SandboxInv, NEW q \in Pids, Answer(q) \/ Exit(q) \/ Reap(q)
    PROVE  SandboxInv'
<1> USE DEF callVars, control
<1>0. /\ SandboxTypes
      /\ UNCHANGED <<next, pc, member, call, sc, cmd, crashes, quarantined,
                     taken, scratch, born>>
  BY DEF SandboxInv, Answer, Exit, Reap
<1>1. CallTypes' /\ Exclusive' /\ Captured' /\ QuarantinedIsEmpty'
  BY <1>0 DEF SandboxInv, SandboxTypes, CallTypes, Exclusive, Captured,
     QuarantinedIsEmpty
<1>2. CASE Answer(q)
  <2>0. UNCHANGED <<life, reaped>> /\ life[q] = "alive" /\ stdin[q] # <<>>
    BY <1>2 DEF Answer
  <2>1. PICK c \in Callers : Reads(c, q) /\ stdin[q] = <<call[c]>>
                                /\ stdout[q] = <<>>
    BY <2>0 DEF SandboxInv, PipesOK, Underway
  <2>2. call[c] \in Calls
    BY <2>1 DEF Reads, SandboxInv, SandboxTypes, CallTypes
  <2>3. PICK r \in Replies :
            /\ r.call = Head(stdin[q])
            /\ stdout' = [stdout EXCEPT ![q] = Append(stdout[q], r)]
    BY <1>2 DEF Answer
  <2>4. Head(stdin[q]) = call[c] /\ Tail(stdin[q]) = <<>>
    BY <2>1
  <2>5. PICK n \in 1..MaxMessage : r = [call |-> call[c], size |-> n]
    BY <2>3, <2>4 DEF Replies
  <2>6. /\ stdin' = [stdin EXCEPT ![q] = <<>>]
        /\ stdout' = [stdout EXCEPT ![q] = <<r>>]
    <3>1. Append(<<>>, r) = <<r>>
      OBVIOUS
    <3>2. stdin' = [stdin EXCEPT ![q] = Tail(stdin[q])]
      BY <1>2 DEF Answer
    <3>3. stdout' = [stdout EXCEPT ![q] = Append(<<>>, r)]
      BY <2>1, <2>3
    <3> QED
      BY <2>4, <3>1, <3>2, <3>3
  <2>7. /\ stdin' \in [Pids -> Seq(Calls)]
        /\ stdout' \in [Pids -> Seq(Replies)]
    BY <1>0, <2>6 DEF SandboxTypes
  <2>8. SandboxTypes'
    BY <1>0, <1>1, <2>0, <2>7 DEF SandboxTypes
  <2>9. ProcessesOK'
    BY <1>0, <2>0, <2>6 DEF SandboxInv, SandboxTypes, ProcessesOK
  <2>10. PipesOK'
    <3> SUFFICES ASSUME NEW p \in Pids
                 PROVE  (stdin'[p] = <<>> /\ stdout'[p] = <<>>) \/ Underway(p)'
      BY DEF PipesOK
    <3>1. CASE p = q
      <4>1. stdin'[p] = <<>> /\ stdout'[p] = <<[call |-> call[c], size |-> n]>>
        BY <1>0, <2>5, <2>6, <3>1 DEF SandboxTypes
      <4> QED
        BY <1>0, <2>1, <3>1, <4>1 DEF Underway, Reads
    <3>2. CASE p # q
      <4>1. stdin'[p] = stdin[p] /\ stdout'[p] = stdout[p]
        BY <1>0, <2>6, <3>2 DEF SandboxTypes
      <4> QED
        BY <1>0, <4>1 DEF SandboxInv, PipesOK, Underway, Reads
    <3> QED
      BY <3>1, <3>2
  <2>11. NoOrphanProcess' /\ LeftoverScratch'
    BY <1>0, <2>0 DEF SandboxInv, NoOrphanProcess, LeftoverScratch
  <2> QED
    BY <1>1, <2>8, <2>9, <2>10, <2>11 DEF SandboxInv
<1>3. CASE Exit(q)
  <2>0. /\ UNCHANGED <<reaped, stdin, stdout>>
        /\ life[q] = "alive"
        /\ life' = [life EXCEPT ![q] = "exited"]
    BY <1>3 DEF Exit
  <2>1. SandboxTypes'
    BY <1>0, <1>1, <2>0 DEF SandboxTypes
  <2>2. ProcessesOK'
    BY <1>0, <2>0 DEF SandboxInv, SandboxTypes, ProcessesOK
  <2>3. PipesOK'
    BY <1>0, <2>0 DEF SandboxInv, PipesOK, Underway, Reads
  <2>4. NoOrphanProcess' /\ LeftoverScratch'
    BY <1>0, <2>0 DEF SandboxInv, SandboxTypes, NoOrphanProcess,
       LeftoverScratch
  <2> QED
    BY <1>1, <2>1, <2>2, <2>3, <2>4 DEF SandboxInv
<1>4. CASE Reap(q)
  <2>0. /\ UNCHANGED <<life, stdin>>
        /\ life[q] = "exited"
        /\ reaped' = [reaped EXCEPT ![q] = TRUE]
        /\ stdout' = [stdout EXCEPT ![q] = <<>>]
    BY <1>4 DEF Reap
  <2>1. SandboxTypes'
    BY <1>0, <1>1, <2>0 DEF SandboxTypes
  <2>2. ProcessesOK'
    BY <1>0, <2>0 DEF SandboxInv, SandboxTypes, ProcessesOK
  <2>3. PipesOK'
    <3> SUFFICES ASSUME NEW p \in Pids
                 PROVE  (stdin'[p] = <<>> /\ stdout'[p] = <<>>) \/ Underway(p)'
      BY DEF PipesOK
    <3>1. \/ stdout'[p] = stdout[p]
          \/ stdout'[p] = <<>>
      BY <1>0, <2>0 DEF SandboxTypes
    <3> QED
      BY <1>0, <2>0, <3>1 DEF SandboxInv, PipesOK, Underway, Reads
  <2>4. NoOrphanProcess' /\ LeftoverScratch'
    BY <1>0, <2>0 DEF SandboxInv, NoOrphanProcess, LeftoverScratch
  <2> QED
    BY <1>1, <2>1, <2>2, <2>3, <2>4 DEF SandboxInv
<1> QED
  BY <1>2, <1>3, <1>4

(* Calls that begin, or are refused, and the mode and the host.            *)
LEMMA QuietStep ==
    ASSUME SandboxInv,
           \/ UNCHANGED vars
           \/ SetMode \/ StopHost
           \/ \E c \in Callers : Invoke(c) \/ Refuse(c)
    PROVE  SandboxInv'
<1> USE DEF callVars, procVars
<1>0. /\ SandboxTypes
      /\ UNCHANGED <<cmd, crashes, quarantined, procVars>>
  BY DEF SandboxInv, SetMode, StopHost, Invoke, Refuse, vars
<1> DEFINE SameHolders ==
               \A d \in Callers :
                   /\ pc'[d] \in Holding <=> pc[d] \in Holding
                   /\ pc[d] \in Holding =>
                        /\ pc'[d] = pc[d]
                        /\ member'[d] = member[d]
                        /\ call'[d] = call[d]
                        /\ sc'[d] = sc[d]
<1>1. CallTypes' /\ SameHolders
  <2>1. CASE UNCHANGED vars \/ SetMode \/ StopHost
    <3>1. UNCHANGED <<next, pc, member, call, sc>>
      BY <2>1 DEF SetMode, StopHost, vars
    <3> QED
      BY <1>0, <3>1 DEF SandboxTypes, CallTypes
  <2>2. ASSUME NEW c \in Callers, Invoke(c) PROVE CallTypes' /\ SameHolders
    <3>1. next \in Nat /\ next + 1 \in Calls /\ next % PoolSize \in Members
      <4>1. next \in Nat /\ next < MaxCalls
        BY <1>0, <2>2 DEF Invoke, SandboxTypes, CallTypes
      <4>2. next + 1 \in Calls
        BY <4>1, SizesAssumption DEF Calls
      <4> QED
        BY <4>1, <4>2, Sizes
    <3>2. /\ next' = next + 1 /\ pc[c] = "idle" /\ sc' = sc
          /\ pc' = [pc EXCEPT ![c] = "waiting"]
          /\ member' = [member EXCEPT ![c] = next % PoolSize]
          /\ call' = [call EXCEPT ![c] = next + 1]
      BY <2>2 DEF Invoke
    <3>3. CallTypes
      BY <1>0 DEF SandboxTypes
    <3>4. CallTypes'
      BY <3>1, <3>2, <3>3, Sizes DEF CallTypes
    <3>5. SameHolders
      BY <3>2, <3>3 DEF CallTypes, Holding
    <3> QED
      BY <3>4, <3>5
  <2>3. ASSUME NEW c \in Callers, Refuse(c) PROVE CallTypes' /\ SameHolders
    <3>1. Return(c) /\ UNCHANGED next /\ pc[c] = "waiting" /\ CallTypes
      BY <1>0, <2>3 DEF Refuse, SandboxTypes
    <3>2. CallTypes'
      BY <3>1, ReturnTypes
    <3>3. SameHolders
      BY <3>1 DEF Return, CallTypes, Holding
    <3> QED
      BY <3>2, <3>3
  <2> QED
    BY <2>1, <2>2, <2>3
<1>2. SandboxTypes'
  BY <1>0, <1>1 DEF SandboxTypes
<1>3. ProcessesOK' /\ QuarantinedIsEmpty' /\ NoOrphanProcess' /\ LeftoverScratch'
  BY <1>0 DEF SandboxInv, ProcessesOK, QuarantinedIsEmpty, NoOrphanProcess,
     LeftoverScratch
<1>4. Exclusive' /\ Captured'
  BY <1>0, <1>1 DEF SandboxInv, Exclusive, Captured
<1>5. PipesOK'
  <2> SUFFICES ASSUME NEW p \in Pids, Underway(p) PROVE Underway(p)'
    BY <1>0 DEF SandboxInv, PipesOK
  <2> QED
    BY <1>0, <1>1 DEF Underway, Reads, Holding
<1> QED
  BY <1>2, <1>3, <1>4, <1>5 DEF SandboxInv

(* A start that fails, and a reply that is read.                           *)
LEMMA StartFailsStep ==
    ASSUME SandboxInv, NEW c \in Callers, StartFails(c)
    PROVE  SandboxInv'
<1> DEFINE m == member[c]
<1>0. /\ SandboxTypes /\ CallTypes /\ m \in Members
      /\ ~Locked(m) /\ Return(c) /\ UNCHANGED next
      /\ UNCHANGED <<life, reaped, stdin, stdout, taken, born>>
      /\ cmd' = [cmd EXCEPT ![m] = NoPid]
      /\ scratch' \subseteq scratch
      /\ CountCrash(m)
  BY DEF StartFails, Admitted, SandboxInv, SandboxTypes, CallTypes
<1>1. cmd[m] # NoPid => cmd[m] \in Pids /\ life[cmd[m]] = "exited"
  BY <1>0 DEF StartFails, NeedsStart, SandboxInv, SandboxTypes, ProcessesOK
<1>2. LeavesMember(m) /\ CallTypes'
  BY <1>0, ReturnLeaves, ReturnTypes
<1> HIDE DEF m
<1>3. /\ cmd' \in [Members -> Pids \cup {NoPid}]
      /\ cmd'[m] = NoPid
      /\ \A n \in Members : n # m => cmd'[n] = cmd[n]
  BY <1>0 DEF SandboxTypes
<1>4. /\ crashes' \in [Members -> Nat]
      /\ quarantined' \in [Members -> BOOLEAN]
      /\ \A n \in Members : n # m => quarantined'[n] = quarantined[n]
  <2> DEFINE b == crashes[m] + 1 >= MaxRestarts
  <2>1. crashes[m] \in Nat /\ b \in BOOLEAN
    BY <1>0 DEF SandboxTypes
  <2>2. crashes' \in [Members -> Nat]
    BY <1>0, <2>1 DEF CountCrash, SandboxTypes
  <2>3. quarantined' = [quarantined EXCEPT ![m] = b]
    BY <1>0 DEF CountCrash
  <2> HIDE DEF b
  <2> QED
    BY <1>0, <2>1, <2>2, <2>3 DEF SandboxTypes
<1>5. SandboxTypes'
  BY <1>0, <1>2, <1>3, <1>4 DEF SandboxTypes
<1>6. ProcessesOK'
  BY <1>0, <1>3 DEF SandboxInv, SandboxTypes, ProcessesOK, NoPid
<1>7. Exclusive' /\ Captured'
  BY <1>0, <1>2, LeavesLocks
<1>8. PipesOK'
  BY <1>0, <1>2, UnreadIsEmpty, LeavesPipes
<1>9. QuarantinedIsEmpty'
  BY <1>3, <1>4 DEF SandboxInv, QuarantinedIsEmpty
<1>10. NoOrphanProcess'
  BY <1>0, <1>1, <1>3 DEF SandboxInv, NoOrphanProcess
<1>11. LeftoverScratch'
  BY <1>0, <1>1, <1>3 DEF SandboxInv, SandboxTypes, LeftoverScratch
<1> QED
  BY <1>5, <1>6, <1>7, <1>8, <1>9, <1>10, <1>11 DEF SandboxInv

LEMMA ReceiveStep ==
    ASSUME SandboxInv, NEW c \in Callers, Receive(c)
    PROVE  SandboxInv'
<1> DEFINE m == member[c]
           q == sc[c]
<1>0. /\ SandboxTypes /\ CallTypes /\ m \in Members
      /\ pc[c] = "reading" /\ Return(c) /\ UNCHANGED next
      /\ q = cmd[m] /\ q \in Pids /\ q # NoPid
      /\ UNCHANGED <<cmd, crashes, quarantined, life, reaped, stdin, scratch,
                     born>>
      /\ stdout[q] # <<>>
      /\ stdout' = [stdout EXCEPT ![q] = Tail(stdout[q])]
  BY DEF Receive, SandboxInv, SandboxTypes, CallTypes, Captured, Holding
<1>1. LeavesMember(m) /\ CallTypes'
  BY <1>0, ReturnLeaves, ReturnTypes DEF Holding
<1>2. PICK d \in Callers, n \in 1..MaxMessage :
          stdin[q] = <<>> /\ stdout[q] = <<[call |-> call[d], size |-> n]>>
  BY <1>0 DEF SandboxInv, PipesOK, Underway
<1>3. taken' \in [Pids -> 0..MaxMessage]
  <2>1. Head(stdout[q]).size = n /\ taken[q] \in 0..MaxMessage
    BY <1>0, <1>2 DEF SandboxTypes
  <2>2. PICK t : t = (IF n <= Room(q) THEN taken[q] + n ELSE MaxMessage)
    OBVIOUS
  <2>3. t \in 0..MaxMessage
    BY <2>1, <2>2, SizesAssumption DEF Room
  <2>4. taken' = [taken EXCEPT ![q] = t]
    BY <2>1, <2>2 DEF Receive
  <2> QED
    BY <1>0, <2>3, <2>4 DEF SandboxTypes
<1> HIDE DEF m, q
<1>4. Tail(stdout[q]) = <<>>
  BY <1>2
<1>5. /\ stdout' \in [Pids -> Seq(Replies)]
      /\ stdin'[q] = <<>> /\ stdout'[q] = <<>>
      /\ \A p \in Pids : p # q => stdout'[p] = stdout[p]
  BY <1>0, <1>2, <1>4 DEF SandboxTypes
<1>6. SandboxTypes'
  BY <1>0, <1>1, <1>3, <1>5 DEF SandboxTypes
<1>7. ProcessesOK'
  BY <1>0, <1>5 DEF SandboxInv, ProcessesOK
<1>8. Exclusive' /\ Captured'
  BY <1>0, <1>1, LeavesLocks
<1>9. PipesOK'
  BY <1>0, <1>1, <1>5, LeavesPipes
<1>10. QuarantinedIsEmpty' /\ NoOrphanProcess' /\ LeftoverScratch'
  BY <1>0 DEF SandboxInv, QuarantinedIsEmpty, NoOrphanProcess,
     LeftoverScratch
<1> QED
  BY <1>6, <1>7, <1>8, <1>9, <1>10 DEF SandboxInv

-----------------------------------------------------------------------------
(* A call takes the lock and begins to write to process p, the one the     *)
(* member has or a new one.                                                *)
LEMMA SendStep ==
    ASSUME SandboxInv, NEW c \in Callers, NEW p \in Pids,
           pc[c] = "waiting", ~Locked(member[c]),
           sc' = [sc EXCEPT ![c] = p],
           pc' = [pc EXCEPT ![c] = "writing"],
           UNCHANGED <<next, member, call, stdin, stdout>>,
           cmd' = [cmd EXCEPT ![member[c]] = p],
           \A n \in Members : cmd[n] = p => n = member[c]
    PROVE  CallTypes' /\ Exclusive' /\ Captured' /\ PipesOK'
<1> DEFINE m == member[c]
<1>0. SandboxTypes /\ CallTypes /\ m \in Members /\ p # NoPid
  BY Sizes DEF SandboxInv, SandboxTypes, CallTypes
<1>1. /\ cmd'[m] = p
      /\ \A n \in Members : n # m => cmd'[n] = cmd[n] /\ cmd[n] # p
  BY <1>0 DEF SandboxTypes
<1>2. /\ pc'[c] = "writing" /\ sc'[c] = p
      /\ \A d \in Callers : d # c => pc'[d] = pc[d] /\ sc'[d] = sc[d]
      /\ \A d \in Callers : d # c /\ pc[d] \in Holding => member[d] # m
  BY <1>0 DEF CallTypes, Locked
<1>3. CallTypes'
  BY <1>0 DEF CallTypes
<1> HIDE DEF m
<1>4. Exclusive'
  <2>1. ASSUME NEW k \in Members, NEW n \in Members, cmd'[k] = cmd'[n],
               cmd'[k] # NoPid
        PROVE  k = n
    BY <1>1, <2>1 DEF SandboxInv, Exclusive
  <2>2. ASSUME NEW a \in Callers, NEW b \in Callers, pc'[a] \in Holding,
               pc'[b] \in Holding, member'[a] = member'[b]
        PROVE  a = b
    BY <1>2, <2>2 DEF SandboxInv, Exclusive, m
  <2> QED
    BY <2>1, <2>2 DEF Exclusive
<1>5. ASSUME NEW d \in Callers, pc'[d] \in Holding
      PROVE  sc'[d] = cmd'[member'[d]] /\ sc'[d] # NoPid
  <2>1. CASE d = c
    BY <1>0, <1>1, <1>2, <2>1 DEF m
  <2>2. CASE d # c
    <3>1. pc[d] \in Holding /\ member[d] # m /\ member[d] \in Members
      BY <1>0, <1>2, <1>5, <2>2 DEF CallTypes
    <3> QED
      BY <1>1, <1>2, <2>2, <3>1 DEF SandboxInv, Captured
  <2> QED
    BY <2>1, <2>2
<1>6. \A d \in Callers, q \in Pids : Reads(d, q) =>
          pc'[d] = "reading" /\ sc'[d] = q
  BY <1>2 DEF Reads
<1>7. PipesOK'
  BY <1>6 DEF SandboxInv, PipesOK, Underway, Reads
<1> QED
  BY <1>3, <1>4, <1>5, <1>7 DEF Captured

LEMMA SendKeeps ==
    ASSUME SandboxInv, NEW c \in Callers, Send(c)
    PROVE  SandboxInv'
<1> DEFINE m == member[c]
           p == cmd[m]
<1> USE DEF procVars
<1>0. /\ SandboxTypes /\ CallTypes /\ m \in Members
      /\ pc[c] = "waiting" /\ ~Locked(m)
      /\ p \in Pids /\ p # NoPid
      /\ sc' = [sc EXCEPT ![c] = p]
      /\ pc' = [pc EXCEPT ![c] = "writing"]
      /\ UNCHANGED <<next, member, call, cmd, crashes, quarantined, procVars>>
  BY DEF Send, Admitted, NeedsStart, SandboxInv, SandboxTypes, CallTypes
<1>1. cmd' = [cmd EXCEPT ![m] = p] /\ \A n \in Members : cmd[n] = p => n = m
  BY <1>0 DEF SandboxInv, SandboxTypes, Exclusive
<1>2. CallTypes' /\ Exclusive' /\ Captured' /\ PipesOK'
  BY <1>0, <1>1, SendStep
<1>3. SandboxTypes'
  BY <1>0, <1>2 DEF SandboxTypes
<1>4. ProcessesOK' /\ QuarantinedIsEmpty' /\ NoOrphanProcess' /\ LeftoverScratch'
  BY <1>0 DEF SandboxInv, ProcessesOK, QuarantinedIsEmpty, NoOrphanProcess,
     LeftoverScratch
<1> QED
  BY <1>2, <1>3, <1>4 DEF SandboxInv

(* The request is in the pipe, which was empty: the call that wrote it     *)
(* reads.                                                                  *)
LEMMA FlushKeeps ==
    ASSUME SandboxInv, NEW c \in Callers, Flush(c)
    PROVE  SandboxInv'
<1> DEFINE m == member[c]
           p == sc[c]
<1>0. /\ SandboxTypes /\ CallTypes /\ m \in Members
      /\ pc[c] = "writing" /\ call[c] \in Calls
      /\ p = cmd[m] /\ p \in Pids /\ p # NoPid
      /\ stdin' = [stdin EXCEPT ![p] = Append(stdin[p], call[c])]
      /\ pc' = [pc EXCEPT ![c] = "reading"]
      /\ life[p] = "alive"
      /\ UNCHANGED <<next, member, call, sc, cmd, crashes, quarantined, life,
                     reaped, stdout, taken, scratch, born>>
  BY DEF Flush, Holding, SandboxInv, SandboxTypes, CallTypes, Captured
<1>1. stdin[p] = <<>> /\ stdout[p] = <<>>
  BY <1>0, UnreadIsEmpty
<1>2. stdin' = [stdin EXCEPT ![p] = <<call[c]>>]
  <2>1. Append(<<>>, call[c]) = <<call[c]>>
    OBVIOUS
  <2> QED
    BY <1>0, <1>1, <2>1
<1>3. CallTypes' /\ stdin' \in [Pids -> Seq(Calls)]
  <2>1. CallTypes'
    BY <1>0 DEF CallTypes
  <2>2. <<call[c]>> \in Seq(Calls)
    BY <1>0
  <2> QED
    BY <1>0, <1>2, <2>1, <2>2 DEF SandboxTypes
<1>4. SandboxTypes'
  BY <1>0, <1>3 DEF SandboxTypes
<1>5. \A d \in Callers : /\ pc'[d] \in Holding <=> pc[d] \in Holding
                         /\ d # c => pc'[d] = pc[d]
  BY <1>0 DEF CallTypes, Holding
<1>6. Exclusive' /\ Captured'
  BY <1>0, <1>5 DEF SandboxInv, Exclusive, Captured
<1>7. ASSUME NEW q \in Pids
      PROVE  (stdin'[q] = <<>> /\ stdout'[q] = <<>>) \/ Underway(q)'
  <2>1. CASE q = p
    <3>1. stdin'[q] = <<call[c]>> /\ stdout'[q] = <<>> /\ pc'[c] = "reading"
      BY <1>0, <1>1, <1>2, <2>1 DEF SandboxTypes, CallTypes
    <3> QED
      BY <1>0, <2>1, <3>1 DEF Underway, Reads
  <2>2. CASE q # p /\ Underway(q)
    <3>1. stdin'[q] = stdin[q]
      BY <1>0, <2>2 DEF SandboxTypes
    <3>2. \A d \in Callers : Reads(d, q) => pc'[d] = "reading"
      BY <1>0, <1>5 DEF Reads
    <3> QED
      BY <1>0, <2>2, <3>1, <3>2 DEF Underway, Reads
  <2>3. CASE q # p /\ stdin[q] = <<>> /\ stdout[q] = <<>>
    BY <1>0, <2>3 DEF SandboxTypes
  <2> QED
    BY <2>1, <2>2, <2>3 DEF SandboxInv, PipesOK
<1>8. PipesOK'
  BY <1>7 DEF PipesOK
<1>9. ProcessesOK'
  <2>1. \A q \in Pids : life[q] = "unborn" => stdin'[q] = stdin[q]
    BY <1>0 DEF SandboxTypes
  <2> QED
    BY <1>0, <2>1 DEF SandboxInv, ProcessesOK
<1>10. QuarantinedIsEmpty' /\ NoOrphanProcess' /\ LeftoverScratch'
  BY <1>0 DEF SandboxInv, QuarantinedIsEmpty, NoOrphanProcess,
     LeftoverScratch
<1> QED
  BY <1>4, <1>6, <1>8, <1>9, <1>10 DEF SandboxInv

LEMMA StartKeeps ==
    ASSUME SandboxInv, NEW c \in Callers, StartAndSend(c)
    PROVE  SandboxInv'
<1> DEFINE m == member[c]
           p == born + 1
<1>0. /\ SandboxTypes /\ CallTypes /\ m \in Members
      /\ pc[c] = "waiting" /\ ~Locked(m) /\ ~quarantined[m]
      /\ p \in Pids /\ p # NoPid /\ born \in Nat
      /\ sc' = [sc EXCEPT ![c] = p]
      /\ pc' = [pc EXCEPT ![c] = "writing"]
      /\ life' = [life EXCEPT ![p] = "alive"]
      /\ scratch' = scratch \cup {p}
      /\ cmd' = [cmd EXCEPT ![m] = p]
      /\ born' = p
      /\ UNCHANGED <<next, member, call, crashes, quarantined, reaped, stdin,
                     stdout, taken>>
  BY Sizes DEF StartAndSend, Admitted, SandboxInv, SandboxTypes, CallTypes
<1>1. /\ life[p] = "unborn" /\ p \notin scratch
      /\ stdin[p] = <<>> /\ stdout[p] = <<>>
      /\ ~reaped[p]
      /\ \A n \in Members : cmd[n] # p
  BY <1>0 DEF SandboxInv, SandboxTypes, ProcessesOK
<1>2. CallTypes' /\ Exclusive' /\ Captured' /\ PipesOK'
  BY <1>0, <1>1, SendStep
<1>3. SandboxTypes'
  BY <1>0, <1>2 DEF SandboxTypes
<1>5. cmd[m] # NoPid => cmd[m] \in Pids /\ life[cmd[m]] = "exited"
  BY <1>0 DEF StartAndSend, NeedsStart, SandboxInv, SandboxTypes, ProcessesOK
<1>6. /\ life'[p] = "alive"
      /\ \A q \in Pids : q # p => life'[q] = life[q] /\ stdin'[q] = stdin[q]
      /\ cmd'[m] = p
      /\ \A n \in Members : n # m => cmd'[n] = cmd[n]
  BY <1>0 DEF SandboxTypes
<1> HIDE DEF m
<1>7. ProcessesOK'
  <2>1. ASSUME NEW q \in Pids
        PROVE  /\ q > p => life'[q] = "unborn" /\ q \notin scratch'
               /\ life'[q] = "unborn" => stdin'[q] = <<>> /\ stdout'[q] = <<>>
               /\ reaped'[q] => life'[q] = "exited"
    <3>1. CASE q = p
      BY <1>0, <1>1, <1>6, <3>1
    <3>2. CASE q # p
      <4>1. q \in Nat
        BY Sizes
      <4>2. q > p => q > born
        BY <1>0, <4>1
      <4> QED
        BY <1>0, <1>6, <3>2, <4>2 DEF SandboxInv, ProcessesOK
    <3> QED
      BY <3>1, <3>2
  <2>2. ASSUME NEW n \in Members PROVE cmd'[n] <= p
    <3>1. cmd[n] \in Nat /\ cmd[n] <= born
      BY <1>0, Sizes DEF SandboxInv, SandboxTypes, ProcessesOK, NoPid
    <3>2. cmd'[n] = p \/ cmd'[n] = cmd[n]
      BY <1>6
    <3> QED
      BY <1>0, <3>1, <3>2
  <2> QED
    BY <1>0, <2>1, <2>2 DEF ProcessesOK
<1>8. QuarantinedIsEmpty'
  BY <1>0, <1>6 DEF SandboxInv, QuarantinedIsEmpty
<1>9. NoOrphanProcess'
  <2> SUFFICES ASSUME NEW q \in Pids, life'[q] = "alive", q # p
               PROVE  \E n \in Members : cmd'[n] = q
    BY <1>0, <1>6 DEF NoOrphanProcess
  <2>1. PICK n \in Members : cmd[n] = q
    BY <1>6 DEF SandboxInv, NoOrphanProcess
  <2>2. n # m
    BY <1>0, <1>5, <1>6, <2>1, Sizes
  <2> QED
    BY <1>6, <2>1, <2>2
<1>10. LeftoverScratch'
  <2> SUFFICES ASSUME NEW q \in scratch', q # p
               PROVE  life'[q] = "exited" \/ \E n \in Members : cmd'[n] = q
    BY <1>0, <1>6 DEF LeftoverScratch
  <2>1. q \in scratch /\ q \in Pids /\ life'[q] = life[q]
    BY <1>0, <1>6 DEF SandboxTypes
  <2>2. CASE life[q] = "exited"
    BY <2>1, <2>2
  <2>3. ASSUME NEW n \in Members, cmd[n] = q
        PROVE  life'[q] = "exited" \/ \E k \in Members : cmd'[k] = q
    <3>1. CASE n = m
      BY <1>5, <2>1, <2>3, <3>1, Sizes
    <3>2. CASE n # m
      BY <1>6, <2>3, <3>2
    <3> QED
      BY <3>1, <3>2
  <2> QED
    BY <2>1, <2>2, <2>3 DEF SandboxInv, LeftoverScratch
<1> QED
  BY <1>2, <1>3, <1>7, <1>8, <1>9, <1>10 DEF SandboxInv

-----------------------------------------------------------------------------
LEMMA SandboxInit == Init => SandboxInv
<1> SUFFICES ASSUME Init PROVE SandboxInv
  OBVIOUS
<1>1. PoolSize \in Nat /\ MaxCalls \in Nat /\ 1..PoolSize \subseteq Pids
  BY SizesAssumption DEF Pids
<1>2. \A m \in Members : m + 1 \in 1..PoolSize
  BY SizesAssumption DEF Members
<1>3. SandboxTypes
  <2>1. CallTypes
    BY Sizes DEF Init, CallTypes
  <2>2. cmd \in [Members -> Pids \cup {NoPid}]
    BY <1>1, <1>2 DEF Init
  <2>3. /\ crashes \in [Members -> Nat]
        /\ quarantined \in [Members -> BOOLEAN]
        /\ life \in [Pids -> {"unborn", "alive", "exited", "killed"}]
        /\ reaped \in [Pids -> BOOLEAN]
        /\ taken \in [Pids -> 0..MaxMessage]
    BY Sizes DEF Init
  <2>4. /\ stdin \in [Pids -> Seq(Calls)]
        /\ stdout \in [Pids -> Seq(Replies)]
    BY EmptySeq DEF Init
  <2>5. scratch \in SUBSET Pids /\ born \in Nat
    BY <1>1 DEF Init
  <2> QED
    BY <2>1, <2>2, <2>3, <2>4, <2>5 DEF SandboxTypes
<1>4. ProcessesOK
  <2>1. \A p \in Pids : p > PoolSize <=> ~(p <= PoolSize)
    BY <1>1, Sizes
  <2>2. \A m \in Members : m + 1 <= PoolSize
    BY <1>1, <1>2
  <2>3. \A p \in Pids : p > PoolSize => p \notin 1..PoolSize
    BY <1>1, Sizes
  <2> QED
    BY <2>1, <2>2, <2>3 DEF Init, ProcessesOK
<1>5. Exclusive /\ Captured
  <2>1. \A m, n \in Members : m + 1 = n + 1 => m = n
    BY Sizes
  <2> QED
    BY <2>1 DEF Init, Exclusive, Captured, Holding
<1>6. PipesOK /\ QuarantinedIsEmpty
  BY DEF Init, PipesOK, QuarantinedIsEmpty
<1>7. \A p \in 1..PoolSize : \E m \in Members : m + 1 = p
  <2> SUFFICES ASSUME NEW p \in 1..PoolSize
               PROVE  \E m \in Members : m + 1 = p
    OBVIOUS
  <2>1. p - 1 \in Members /\ (p - 1) + 1 = p
    BY SizesAssumption DEF Members
  <2> QED
    BY <2>1
<1>8. NoOrphanProcess
  <2> SUFFICES ASSUME NEW p \in Pids, life[p] = "alive"
               PROVE  \E m \in Members : cmd[m] = p
    BY DEF NoOrphanProcess
  <2>1. p <= PoolSize
    BY DEF Init
  <2>2. p \in 1..PoolSize
    BY <2>1, <1>1 DEF Pids
  <2> QED
    BY <1>7, <2>2 DEF Init
<1>9. LeftoverScratch
  BY <1>7 DEF Init, LeftoverScratch
<1> QED
  BY <1>3, <1>4, <1>5, <1>6, <1>8, <1>9 DEF SandboxInv

LEMMA SandboxStep ==
    ASSUME SandboxInv, [Next]_vars
    PROVE  SandboxInv'
<1>0. \A c \in Callers : member[c] \in Members
  BY DEF SandboxInv, SandboxTypes, CallTypes
<1>1. ASSUME NEW c \in Callers,
             WriteFails(c) \/ ReadFails(c) \/ Timeout(c) \/ Cancel(c)
      PROVE  SandboxInv'
  <2>1. /\ killSubprocess(member[c]) /\ Return(c)
        /\ UNCHANGED <<next, reaped, born>>
        /\ CountCrash(member[c]) \/ UNCHANGED <<crashes, quarantined>>
        /\ pc[c] \in Holding
    BY <1>1 DEF WriteFails, ReadFails, Timeout, Cancel, handleCrash, Holding
  <2>2. CallTypes' /\ LeavesMember(member[c])
    BY <2>1, ReturnTypes, ReturnLeaves DEF SandboxInv, SandboxTypes
  <2> QED
    BY <1>0, <2>1, <2>2, KillStep
<1>2. ASSUME NEW m \in Members, Shutdown(m) PROVE SandboxInv'
  <2>1. /\ killSubprocess(m) /\ ~Locked(m)
        /\ UNCHANGED <<next, pc, member, call, sc, reaped, born, crashes,
                       quarantined>>
    BY <1>2 DEF Shutdown, callVars
  <2>2. CallTypes' /\ LeavesMember(m)
    BY <2>1 DEF SandboxInv, SandboxTypes, CallTypes, LeavesMember, Locked
  <2> QED
    BY <2>1, <2>2, KillStep
<1> QED
  BY <1>1, <1>2, ProcessStep, QuietStep, SendKeeps, StartKeeps,
     FlushKeeps, StartFailsStep, ReceiveStep DEF Next, Enter, Write, Select

(* Whatever calls were cancelled, timed out or crashed before, the line a  *)
(* call finds on the stdout it captured is the reply to its own request    *)
(* (SubprocessPlugin.Invoke).                                              *)
THEOREM RepliesReachTheirCallHolds == Spec => []RepliesReachTheirCall
<1>1. SandboxInv => RepliesReachTheirCall
  <2> SUFFICES ASSUME SandboxInv, NEW c \in Callers, pc[c] = "reading",
                      NEW i \in 1 .. Len(stdout[sc[c]])
               PROVE  stdout[sc[c]][i].call = call[c]
    BY DEF RepliesReachTheirCall
  <2> DEFINE p == sc[c]
  <2>1. /\ member[c] \in Members /\ p = cmd[member[c]] /\ p # NoPid
        /\ p \in Pids
    BY DEF SandboxInv, SandboxTypes, CallTypes, Captured, Holding
  <2>2. stdout[p] # <<>>
    <3>1. Len(stdout[p]) >= 1 /\ Len(<<>>) = 0
      <4>1. Len(stdout[p]) \in Nat
        BY <2>1, LenProperties DEF SandboxInv, SandboxTypes
      <4> QED
        BY <4>1
    <3> QED
      BY <3>1
  <2>3. PICK d \in Callers, n \in 1..MaxMessage :
            Reads(d, p) /\ stdout[p] = <<[call |-> call[d], size |-> n]>>
    BY <2>1, <2>2 DEF SandboxInv, PipesOK, Underway
  <2>4. d = c
    BY <2>1, <2>3, ReaderOf DEF Reads, SandboxInv, Exclusive, Holding
  <2>5. i = 1
    BY <2>3
  <2> QED
    BY <2>3, <2>4, <2>5
<1> QED
  BY <1>1, SandboxInit, SandboxStep, PTL DEF Spec

(* Every plugin process that runs is the one of some member, which would   *)
(* kill it (killSubprocess, restart, Shutdown).                            *)
THEOREM NoOrphanProcessHolds == Spec => []NoOrphanProcess
<1>1. SandboxInv => NoOrphanProcess
  BY DEF SandboxInv
<1> QED
  BY <1>1, SandboxInit, SandboxStep, PTL DEF Spec

(* Only a process that exited on its own leaves its scratch directory      *)
(* behind (start, killSubprocess).                                         *)
THEOREM LeftoverScratchHolds == Spec => []LeftoverScratch
<1>1. SandboxInv => LeftoverScratch
  BY DEF SandboxInv
<1> QED
  BY <1>1, SandboxInit, SandboxStep, PTL DEF Spec

-----------------------------------------------------------------------------
(* A step kills, counts and starts only at a member that was not           *)
(* quarantined when its call got the lock: a member in quarantine has no   *)
(* process, so no call reads from it.                                      *)
LEMMA QuarantineStep ==
    ASSUME SandboxInv, [Next]_vars, NEW m \in Members, quarantined[m]
    PROVE  quarantined'[m] /\ cmd'[m] = NoPid
<1> USE DEF callVars, procVars
<1> DEFINE Stays == quarantined'[m] /\ cmd'[m] = NoPid
<1>0. /\ SandboxTypes /\ cmd[m] = NoPid
      /\ \A c \in Callers : member[c] \in Members
      /\ \A c \in Callers : Admitted(c) => member[c] # m
      /\ \A c \in Callers : pc[c] \in Holding => member[c] # m
  BY DEF SandboxInv, SandboxTypes, CallTypes, QuarantinedIsEmpty, Captured,
     Admitted
<1>1. ASSUME NEW n \in Members,
             cmd' = cmd \/ \E p : n # m /\ cmd' = [cmd EXCEPT ![n] = p],
             \/ UNCHANGED quarantined
             \/ n # m /\ CountCrash(n)
      PROVE  Stays
  <2>1. cmd'[m] = NoPid
    BY <1>0, <1>1 DEF SandboxTypes
  <2>2. quarantined'[m] = quarantined[m]
    BY <1>0, <1>1 DEF CountCrash, SandboxTypes
  <2> QED
    BY <2>1, <2>2
<1>2. CASE \/ \E p \in Pids : Answer(p) \/ Exit(p) \/ Reap(p)
           \/ SetMode \/ StopHost \/ UNCHANGED vars
           \/ \E c \in Callers :
                 Invoke(c) \/ Refuse(c) \/ Send(c) \/ Flush(c) \/ Receive(c)
  <2>1. UNCHANGED <<cmd, quarantined>>
    BY <1>2 DEF Answer, Exit, Reap, SetMode, StopHost, vars, Invoke, Refuse,
       Send, Flush, Receive
  <2> QED
    BY <1>0, <2>1
<1>3. ASSUME NEW c \in Callers,
             \/ WriteFails(c) \/ StartAndSend(c) \/ StartFails(c)
             \/ ReadFails(c) \/ Timeout(c) \/ Cancel(c)
      PROVE  Stays
  <2>1. Admitted(c) \/ pc[c] \in Holding
    BY <1>3 DEF WriteFails, StartAndSend, StartFails, ReadFails, Timeout,
       Cancel, Holding
  <2>2. member[c] # m /\ member[c] \in Members
    BY <1>0, <2>1
  <2>3. /\ \E p : cmd' = [cmd EXCEPT ![member[c]] = p]
        /\ UNCHANGED quarantined \/ CountCrash(member[c])
    BY <1>3 DEF WriteFails, StartAndSend, StartFails, ReadFails, Timeout,
       Cancel, handleCrash, killSubprocess
  <2> QED
    BY <1>1, <2>2, <2>3
<1>4. ASSUME NEW n \in Members, Shutdown(n) PROVE Stays
  <2>1. n # m /\ cmd' = [cmd EXCEPT ![n] = NoPid] /\ UNCHANGED quarantined
    BY <1>0, <1>4 DEF Shutdown, killSubprocess
  <2> QED
    BY <1>1, <2>1
<1> QED
  BY <1>2, <1>3, <1>4 DEF Next, Enter, Write, Select

(* A quarantined member stays so and never gets a process again, whatever  *)
(* invocations were waiting for its lock (handleCrash, Invoke).            *)
THEOREM QuarantineIsFinalHolds == Spec => QuarantineIsFinal
<1>1. SandboxInv /\ [Next]_vars =>
          [\A m \in Members : quarantined[m] =>
              quarantined'[m] /\ cmd'[m] = NoPid]_vars
  BY QuarantineStep
<1> QED
  BY <1>1, SandboxInit, SandboxStep, PTL DEF Spec, QuarantineIsFinal

==============================================================================
