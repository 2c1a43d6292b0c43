-------------------------- MODULE CoordinatorProofs --------------------------
(***************************************************************************)
(* Theorems about Coordinator, for any number of polls and callers, any      *)
(* requests and any nameplate.                                               *)
(***************************************************************************)
EXTENDS Coordinator, TLAPS

(* TypeOK is not inductive: a streak stays within 0..Threshold only because a
   retired block is not read, which holds because the poll that reads it has
   the lock and cleared the retirement. *)
StreaksAgree ==
  /\ \A b \in OptionalNames : retired[b] <=> timeouts[b] = Threshold
  /\ \A p \in Polls : pc[p] = "asked" => ~retired[BlockOrder[at[p]]]

IInv == TypeOK /\ LockDiscipline /\ StreaksAgree

LEMMA Blocks9 ==
  /\ Len(BlockOrder) = 9
  /\ \A i \in 1..9 : BlockOrder[i] \in OptionalNames <=> i \in {8, 9}
  /\ \A i \in 1..9 : BlockOrder[i] \in Required <=> i \in {1, 2, 3, 5, 6, 7}
  /\ \A i \in 1..9 : BlockOrder[i] \in {"D"} <=> i = 4
  /\ BlockOrder[8] = "H" /\ BlockOrder[9] = "M"
  BY DEF BlockOrder, OptionalNames, Required

LEMMA BoundTypes == ChargeBounds \subseteq Nat /\ DischargeBounds \subseteq Nat
  BY CoordinatorAssumption DEF ChargeBounds, DischargeBounds, OrDefault

LEMMA NameplateType == Nameplates \subseteq [charge : Nat, discharge : Nat]
  BY BoundTypes DEF Nameplates

LEMMA InitIInv == Init => IInv
<1> SUFFICES ASSUME Init PROVE IInv
    OBVIOUS
<1> USE CoordinatorAssumption DEF Init
<1>1. TypeTasks
  BY DEF TypeTasks, Streams
<1>2. TypeCalls
  <2>1. PICK m \in OtherModes \cup {VPP}, w \in {0} \cup DischargeBounds :
          regs = [NoRegs EXCEPT !["mode"] = m, !["setpoint"] = w]
    OBVIOUS
  <2>2. m \in Int /\ w \in Int
    BY BoundTypes, CoordinatorAssumption DEF VPP
  <2>3. regs \in [Registers -> Int]
    BY <2>1, <2>2 DEF NoRegs, Registers
  <2> QED BY <2>3 DEF TypeCalls
<1>3. TypePolls
  <2>1. NoRegs \in [Registers -> Int]
    BY DEF NoRegs
  <2>2. EmptyFrame \in Frames
    BY <2>1 DEF EmptyFrame, Frames
  <2>3. Fallback \in [charge : Nat, discharge : Nat]
    BY DEF Fallback
  <2> QED BY <2>1, <2>2, <2>3 DEF TypePolls, NoData
<1>4. TypeBlocks
  BY DEF TypeBlocks
<1>5. TypeEnv
  <2>1. faults \in BOOLEAN /\ unloaded \in BOOLEAN
    BY Zenon
  <2>2. gap \in 0..ScanTicks
    OBVIOUS
  <2> QED BY <2>1, <2>2 DEF TypeEnv
<1>6. LockDiscipline
  BY DEF LockDiscipline, Tasks
<1>7. StreaksAgree
  BY DEF StreaksAgree, Tasks
<1> QED BY <1>1, <1>2, <1>3, <1>4, <1>5, <1>6, <1>7 DEF IInv, TypeOK

(* What each way of leaving or going on in the lock does to the tasks. *)
LEMMA LeaveTasks ==
  ASSUME TypeTasks, NEW t \in Tasks, NEW r \in {"ok", "failed", "cancelled"},
         Leave(t, r), stream' \in Streams
  PROVE  TypeTasks'
  BY CoordinatorAssumption DEF TypeTasks, Leave

LEMMA AdvanceTasks ==
  ASSUME TypeTasks, NEW t \in Tasks, Advance(t), stream' \in Streams
  PROVE  TypeTasks'
  BY DEF TypeTasks, Advance

LEMMA ReplyStreams ==
  ASSUME NEW silent, NEW o, NEW s, stream \in Streams, Reply(silent, o, s)
  PROVE  s \in Streams /\ Dropped(o, s) \in Streams
  BY DEF Reply, Streams, Dropped

LEMMA NoRegsType == NoRegs \in [Registers -> Int]
  BY DEF NoRegs

LEMMA EmptyFrameType == EmptyFrame \in Frames
  BY NoRegsType DEF EmptyFrame, Frames

LEMMA ForgetFrames ==
  ASSUME NEW t \in Tasks, frame \in [Polls -> Frames], Forget(t)
  PROVE  frame' \in [Polls -> Frames]
  BY EmptyFrameType DEF Forget

LEMMA ForgetProgs ==
  ASSUME NEW t \in Tasks, prog \in [Callers -> Seq(Writes)], Forget(t)
  PROVE  prog' \in [Callers -> Seq(Writes)]
  BY DEF Forget

LEMMA AppliedType ==
  ASSUME TypeCalls, NEW c \in Callers, at[c] \in 1..Len(prog[c])
  PROVE  Applied(c) \in [Registers -> Int]
<1>1. prog[c] \in Seq(Writes)
  BY DEF TypeCalls
<1>2. prog[c][at[c]] \in Writes
  BY <1>1
<1> QED BY <1>2 DEF TypeCalls, Applied, Writes

(* Every action of the model keeps its variables in their types. *)
LEMMA StepTasks == TypeTasks /\ TypeCalls /\ Next => TypeTasks'
<1> SUFFICES ASSUME TypeTasks, Next PROVE TypeTasks'
    OBVIOUS
<1> USE CoordinatorAssumption DEF Tasks
<1>1. stream \in Streams
  BY DEF TypeTasks
<1>2. ASSUME NEW p \in Polls, StartPoll(p) PROVE TypeTasks'
  BY <1>2 DEF StartPoll, TypeTasks
<1>3. ASSUME NEW p \in Polls, ReadRequired(p) PROVE TypeTasks'
  <2>1. PICK o \in Outcomes, s \in Streams : Reply(FALSE, o, s) /\ stream' = Dropped(o, s)
    BY <1>3 DEF ReadRequired
  <2>3. stream' \in Streams
    BY <1>1, <2>1, ReplyStreams
  <2>2. Advance(p) \/ Leave(p, "failed")
    BY <1>3 DEF ReadRequired
  <2> QED BY <2>3, <2>2, LeaveTasks, AdvanceTasks
<1>4. ASSUME NEW p \in Polls, SkipProbe(p) \/ SkipBlock(p) PROVE TypeTasks'
  BY <1>1, <1>4, AdvanceTasks DEF SkipProbe, SkipBlock
<1>5. ASSUME NEW p \in Polls, ProbeSerial(p) PROVE TypeTasks'
  <2>1. stream' \in Streams
    BY <1>1, <1>5, ReplyStreams DEF ProbeSerial
  <2> QED BY <2>1, <1>5, AdvanceTasks DEF ProbeSerial
<1>6. ASSUME NEW p \in Polls, AskBlock(p) PROVE TypeTasks'
  BY <1>6 DEF AskBlock, TypeTasks
<1>7. ASSUME NEW p \in Polls, BlockAnswered(p) PROVE TypeTasks'
  BY <1>1, <1>7, AdvanceTasks DEF BlockAnswered
<1>8. ASSUME NEW p \in Polls, BlockTimedOut(p) PROVE TypeTasks'
  BY <1>8, AdvanceTasks DEF BlockTimedOut, Streams
<1>9. ASSUME NEW p \in Polls, BlockEmpty(p) PROVE TypeTasks'
  <2>1. stream' \in Streams
    BY <1>1, <1>9, ReplyStreams DEF BlockEmpty
  <2> QED BY <2>1, <1>9, AdvanceTasks DEF BlockEmpty
<1>10. ASSUME NEW p \in Polls, Publish(p) PROVE TypeTasks'
  BY <1>1, <1>10, LeaveTasks DEF Publish
<1>11. ASSUME NEW c \in Callers, NEW w, Submit(c, w) PROVE TypeTasks'
  BY <1>11 DEF Submit, TypeTasks
<1>12. ASSUME NEW c \in Callers, WriteAccepted(c) PROVE TypeTasks'
  <2>1. Advance(c) \/ Leave(c, "ok")
    BY <1>12 DEF WriteAccepted
  <2> QED BY <2>1, <1>1, <1>12, LeaveTasks, AdvanceTasks DEF WriteAccepted
<1>13. ASSUME NEW c \in Callers, WriteFailed(c) PROVE TypeTasks'
  <2>1. PICK o \in {"error", "timeout", "down"}, s \in Streams :
          Reply(FALSE, o, s) /\ stream' = Dropped(o, s)
    BY <1>13 DEF WriteFailed
  <2>2. stream' \in Streams
    BY <1>1, <2>1, ReplyStreams
  <2> QED BY <2>2, <1>13, LeaveTasks DEF WriteFailed
<1>14. ASSUME NEW t \in Tasks, Acquire(t) PROVE TypeTasks'
  BY <1>14 DEF Acquire, TypeTasks
<1>15. ASSUME NEW t \in Tasks, EnsureConnected(t) PROVE TypeTasks'
  <2>1. CASE AlreadyConnected(t)
    BY <1>1, <2>1, AdvanceTasks DEF AlreadyConnected
  <2>2. CASE Connect(t)
    BY <2>2, AdvanceTasks DEF Connect, Streams
  <2>3. CASE CannotConnect(t)
    BY <1>1, <2>3, LeaveTasks DEF CannotConnect
  <2> QED BY <1>15, <2>1, <2>2, <2>3 DEF EnsureConnected
<1>16. ASSUME NEW t \in Tasks, CancelWaiting(t) PROVE TypeTasks'
  BY <1>16 DEF CancelWaiting, TypeTasks
<1>17. ASSUME NEW t \in Tasks, CancelRunning(t) PROVE TypeTasks'
  <2>1. stream' \in Streams
    BY <1>1, <1>17 DEF CancelRunning, Streams
  <2> QED BY <2>1, <1>17, LeaveTasks DEF CancelRunning
<1>18. CASE Unload \/ Elsewhere \/ Heal \/ Tick
  BY <1>18 DEF Unload, Elsewhere, Heal, Tick, TypeTasks, taskVars, Streams
<1> QED
  BY <1>2, <1>3, <1>4, <1>5, <1>6, <1>7, <1>8, <1>9, <1>10, <1>11, <1>12, <1>13,
     <1>14, <1>15, <1>16, <1>17, <1>18
     DEF Next, PollStep, CallStep, Call, SetBatteryPower, SetWorkMode, Engage, Restore,
         SetExportLimitMode, SetExportLimitValue, SetImportLimitMode,
         SetImportLimitValue, SetWatchdog

LEMMA SubmittedProgs ==
  ASSUME TypeCalls, NEW c \in Callers, NEW w \in Seq(Writes), Submit(c, w)
  PROVE  TypeCalls'
  BY DEF TypeCalls, Submit

LEMMA ClampType ==
  ASSUME TypePolls, NEW w \in Int PROVE Clamp(w) \in Int
  BY DEF TypePolls, Clamp

LEMMA CallTypes ==
  ASSUME TypeCalls, TypePolls, NEW c \in Callers, Call(c) PROVE TypeCalls'
<1> USE CoordinatorAssumption DEF Writes, Registers, Put, VPP
<1>1. ASSUME NEW w \in PowerRequests, SetBatteryPower(c, w) PROVE TypeCalls'
  <2>1. Clamp(w) \in Int
    BY ClampType
  <2>2. Put("mode", VPP) \in Writes /\ Put("setpoint", Clamp(w)) \in Writes
    BY <2>1
  <2>3. <<Put("mode", VPP), Put("setpoint", Clamp(w))>> \in Seq(Writes)
    BY <2>2
  <2> QED BY <1>1, <2>3, SubmittedProgs DEF SetBatteryPower
<1>2. ASSUME NEW r \in Registers, NEW v \in Int, Submit(c, <<Put(r, v)>>) PROVE TypeCalls'
  <2>1. <<Put(r, v)>> \in Seq(Writes)
    OBVIOUS
  <2> QED BY <1>2, <2>1, SubmittedProgs
<1>3. CASE Restore(c)
  <2>1. RestoreWrites \in Seq(Writes)
    BY DEF RestoreWrites
  <2> QED BY <1>3, <2>1, SubmittedProgs DEF Restore
<1>4. ASSUME NEW m \in ModeRequests \cup {VPP}, SetWorkMode(c, m) PROVE TypeCalls'
  <2>1. m \in Int /\ "mode" \in Registers
    OBVIOUS
  <2> QED BY <1>2, <1>4, <2>1 DEF SetWorkMode
<1>5. ASSUME NEW m \in LimitModes, SetExportLimitMode(c, m) \/ SetImportLimitMode(c, m)
      PROVE  TypeCalls'
  BY <1>2, <1>5 DEF SetExportLimitMode, SetImportLimitMode
<1>6. ASSUME NEW v \in LimitValues, SetExportLimitValue(c, v) \/ SetImportLimitValue(c, v)
      PROVE  TypeCalls'
  BY <1>2, <1>6 DEF SetExportLimitValue, SetImportLimitValue
<1>7. ASSUME NEW n \in WatchdogRequests, SetWatchdog(c, n) PROVE TypeCalls'
  BY <1>2, <1>7 DEF SetWatchdog
<1> QED
  BY <1>1, <1>3, <1>4, <1>5, <1>6, <1>7 DEF Call, Engage

LEMMA StepCalls == TypeOK /\ LockDiscipline /\ Next => TypeCalls'
<1> SUFFICES ASSUME TypeOK, LockDiscipline, Next PROVE TypeCalls'
    OBVIOUS
<1> USE CoordinatorAssumption DEF Tasks
<1>0. TypeCalls /\ TypePolls /\ prog \in [Callers -> Seq(Writes)] /\ regs \in [Registers -> Int]
  BY DEF TypeOK, TypeCalls
<1>1. ASSUME NEW p \in Polls, StartPoll(p) \/ PollStep(p) PROVE TypeCalls'
  <2>1. regs' = regs
    BY <1>1 DEF StartPoll, PollStep, ReadRequired, SkipProbe, ProbeSerial, SkipBlock,
       AskBlock, BlockAnswered, BlockTimedOut, BlockEmpty, Publish
  <2>2. prog' = prog \/ Forget(p)
    BY <1>1 DEF StartPoll, PollStep, ReadRequired, SkipProbe, ProbeSerial, SkipBlock,
       AskBlock, BlockAnswered, BlockTimedOut, BlockEmpty, Publish
  <2> QED BY <1>0, <2>1, <2>2, ForgetProgs DEF TypeCalls
<1>2. ASSUME NEW c \in Callers, Call(c) PROVE TypeCalls'
  BY <1>0, <1>2, CallTypes
<1>3. ASSUME NEW c \in Callers, CallStep(c) PROVE TypeCalls'
  <2>1. at[c] \in 1..Len(prog[c])
    BY <1>3 DEF CallStep, WriteAccepted, WriteFailed
  <2>2. regs' \in {regs, Applied(c)}
    BY <1>3 DEF CallStep, WriteAccepted, WriteFailed
  <2>3. prog' = prog \/ Forget(c)
    BY <1>3 DEF CallStep, WriteAccepted, WriteFailed
  <2> QED BY <1>0, <2>1, <2>2, <2>3, ForgetProgs, AppliedType DEF TypeCalls
<1>4. ASSUME NEW t \in Tasks, Acquire(t) \/ EnsureConnected(t) \/ CancelWaiting(t)
      PROVE TypeCalls'
  <2>1. regs' = regs /\ (prog' = prog \/ Forget(t))
    BY <1>4 DEF Acquire, EnsureConnected, AlreadyConnected, Connect, CannotConnect, CancelWaiting
  <2> QED BY <1>0, <2>1, ForgetProgs DEF TypeCalls
<1>5. ASSUME NEW t \in Tasks, CancelRunning(t) PROVE TypeCalls'
  <2>1. Forget(t)
    BY <1>5 DEF CancelRunning
  <2>2. regs' \in [Registers -> Int]
    <3>1. CASE t \in Callers /\ at[t] > 0 /\ stream # "closed"
      <4>1. regs' \in {regs, Applied(t)}
        BY <1>5, <3>1 DEF CancelRunning
      <4>2. at[t] \in 1..Len(prog[t])
        BY <1>5, <3>1 DEF CancelRunning, LockDiscipline, TypeOK, TypeTasks
      <4> QED BY <1>0, <3>1, <4>1, <4>2, AppliedType
    <3>2. CASE ~(t \in Callers /\ at[t] > 0 /\ stream # "closed")
      BY <1>0, <1>5, <3>2 DEF CancelRunning
    <3> QED BY <3>1, <3>2
  <2> QED BY <1>0, <2>1, <2>2, ForgetProgs DEF TypeCalls
<1>6. CASE Unload \/ Heal \/ Tick
  BY <1>0, <1>6 DEF Unload, Heal, Tick, TypeCalls
<1>7. CASE Elsewhere
  BY <1>0, <1>7 DEF Elsewhere, TypeCalls, Registers
<1> QED
  BY <1>1, <1>2, <1>3, <1>4, <1>5, <1>6, <1>7 DEF Next

LEMMA StepPolls == TypeOK /\ Next => TypePolls'
<1> SUFFICES ASSUME TypeOK, Next PROVE TypePolls'
    OBVIOUS
<1> USE CoordinatorAssumption DEF Tasks
<1>0. TypePolls /\ frame \in [Polls -> Frames] /\ regs \in [Registers -> Int]
  BY DEF TypeOK, TypePolls, TypeCalls
<1>1. ASSUME NEW p \in Polls, ReadRequired(p) PROVE TypePolls'
  <2>1. frame' \in {frame, [frame EXCEPT ![p].regs = regs]} \/ Forget(p)
    BY <1>1 DEF ReadRequired
  <2>2. [frame EXCEPT ![p].regs = regs] \in [Polls -> Frames]
    BY <1>0 DEF Frames
  <2>3. frame' \in [Polls -> Frames]
    BY <1>0, <2>1, <2>2, ForgetFrames
  <2> QED BY <1>0, <1>1, <2>3 DEF ReadRequired, TypePolls
<1>2. ASSUME NEW p \in Polls, ProbeSerial(p) PROVE TypePolls'
  BY <1>0, <1>2 DEF ProbeSerial, TypePolls
<1>3. ASSUME NEW p \in Polls, BlockAnswered(p) PROVE TypePolls'
  <2>1. frame' \in [Polls -> Frames]
    <3>1. PICK m \in BOOLEAN : frame' = [frame EXCEPT ![p].meter = m]
      BY <1>3, Zenon DEF BlockAnswered
    <3> QED BY <1>0, <3>1 DEF Frames
  <2> QED BY <1>0, <1>3, <2>1 DEF BlockAnswered, TypePolls
<1>4. ASSUME NEW p \in Polls, BlockTimedOut(p) PROVE TypePolls'
  <2>1. frame' \in [Polls -> Frames]
    BY <1>0, <1>4 DEF BlockTimedOut, Frames
  <2> QED BY <1>0, <1>4, <2>1 DEF BlockTimedOut, TypePolls
<1>5. ASSUME NEW p \in Polls, Publish(p) PROVE TypePolls'
  <2>1. frame[p] \in Frames
    BY <1>0
  <2>2. data' \in [regs : [Registers -> Int], meter : BOOLEAN, polled : BOOLEAN]
    BY <1>5, <2>1 DEF Publish, Frames
  <2>3. bounds' \in [charge : Nat, discharge : Nat]
    BY <1>5, NameplateType DEF Publish
  <2>4. frame' \in [Polls -> Frames]
    BY <1>0, <1>5, ForgetFrames DEF Publish
  <2>5. serial' \in {NoSerial, SerialAt10750, SerialAt10100} /\ probed' \in BOOLEAN
    BY <1>0, <1>5 DEF Publish, TypePolls
  <2> QED BY <2>2, <2>3, <2>4, <2>5 DEF TypePolls
<1>6. ASSUME NEW p \in Polls,
             StartPoll(p) \/ SkipProbe(p) \/ SkipBlock(p) \/ AskBlock(p) \/ BlockEmpty(p)
      PROVE  TypePolls'
  <2>1. UNCHANGED pollVars
    BY <1>6 DEF StartPoll, SkipProbe, SkipBlock, AskBlock, BlockEmpty
  <2> QED BY <1>0, <2>1 DEF pollVars, TypePolls
<1>7. ASSUME NEW c \in Callers, NEW w, Submit(c, w) PROVE TypePolls'
  BY <1>0, <1>7 DEF Submit, pollVars, TypePolls
<1>8. ASSUME NEW c \in Callers, CallStep(c) PROVE TypePolls'
  <2>1. frame' = frame \/ Forget(c)
    BY <1>8 DEF CallStep, WriteAccepted, WriteFailed
  <2>2. frame' \in [Polls -> Frames]
    BY <1>0, <2>1, ForgetFrames
  <2> QED BY <1>0, <1>8, <2>2 DEF CallStep, WriteAccepted, WriteFailed, TypePolls
<1>9. ASSUME NEW t \in Tasks, Acquire(t) \/ EnsureConnected(t) PROVE TypePolls'
  <2>1. frame' = frame \/ Forget(t)
    BY <1>9 DEF Acquire, EnsureConnected, AlreadyConnected, Connect, CannotConnect, pollVars
  <2>2. frame' \in [Polls -> Frames]
    BY <1>0, <2>1, ForgetFrames
  <2> QED BY <1>0, <1>9, <2>2
          DEF Acquire, EnsureConnected, AlreadyConnected, Connect, CannotConnect, pollVars, TypePolls
<1>10. ASSUME NEW t \in Tasks, CancelWaiting(t) \/ CancelRunning(t) PROVE TypePolls'
  <2>0. Forget(t)
    BY <1>10 DEF CancelWaiting, CancelRunning
  <2>1. frame' \in [Polls -> Frames]
    BY <1>0, <2>0, ForgetFrames
  <2>2. probed' \in BOOLEAN
    BY <1>0, <1>10 DEF CancelWaiting, CancelRunning, TypePolls
  <2> QED BY <1>0, <1>10, <2>1, <2>2 DEF CancelWaiting, CancelRunning, TypePolls
<1>11. CASE Unload \/ Elsewhere \/ Heal \/ Tick
  BY <1>0, <1>11 DEF Unload, Elsewhere, Heal, Tick, pollVars, TypePolls
<1> QED
  BY <1>1, <1>2, <1>3, <1>4, <1>5, <1>6, <1>7, <1>8, <1>9, <1>10, <1>11
     DEF Next, PollStep, Call, SetBatteryPower, SetWorkMode, Engage, Restore,
         SetExportLimitMode, SetExportLimitValue, SetImportLimitMode,
         SetImportLimitValue, SetWatchdog

(* The skip-list, as the coordinator uses it. *)
LEMMA StepBlocks == IInv /\ Next => TypeBlocks' /\ StreaksAgree'
<1> SUFFICES ASSUME IInv, Next PROVE TypeBlocks' /\ StreaksAgree'
    OBVIOUS
<1> USE CoordinatorAssumption DEF Tasks
<1>0. TypeTasks /\ TypeBlocks /\ StreaksAgree /\ LockDiscipline
  BY DEF IInv, TypeOK
<1>1. ASSUME UNCHANGED blockVars,
             \A p \in Polls : pc'[p] = "asked" => pc[p] = "asked" /\ at'[p] = at[p]
      PROVE  TypeBlocks' /\ StreaksAgree'
  BY <1>0, <1>1 DEF blockVars, TypeBlocks, StreaksAgree
<1>2. ASSUME NEW p \in Polls, AskBlock(p) PROVE TypeBlocks' /\ StreaksAgree'
  <2> DEFINE b == BlockOrder[at[p]]
  <2>1. b \in OptionalNames
    BY <1>2 DEF AskBlock, AtBlock
  <2>2. /\ retired' = [retired EXCEPT ![b] = FALSE]
        /\ age' = [age EXCEPT ![b] = 0]
        /\ timeouts' = IF retired[b] THEN [timeouts EXCEPT ![b] = 0] ELSE timeouts
    BY <1>2 DEF AskBlock, Opt!ShouldReadEffect
  <2> HIDE DEF b
  <2>3. TypeBlocks'
    BY <1>0, <2>1, <2>2 DEF TypeBlocks
  <2>4. (\A x \in OptionalNames : retired[x] <=> timeouts[x] = Threshold)'
    BY <1>0, <2>1, <2>2 DEF TypeBlocks, StreaksAgree
  <2>5. \A q \in Polls : pc'[q] = "asked" => q = p
    BY <1>0, <1>2 DEF AskBlock, Holds, LockDiscipline, TypeTasks
  <2>6. (\A q \in Polls : pc[q] = "asked" => ~retired[BlockOrder[at[q]]])'
    BY <1>0, <1>2, <2>1, <2>2, <2>5 DEF AskBlock, TypeBlocks, b
  <2> QED BY <2>3, <2>4, <2>6 DEF StreaksAgree
<1>3. ASSUME NEW p \in Polls, BlockAnswered(p) \/ BlockTimedOut(p)
      PROVE  TypeBlocks' /\ StreaksAgree'
  <2> DEFINE b == BlockOrder[at[p]]
  <2>1. lock = p /\ pc[p] = "asked" /\ Advance(p)
    BY <1>3 DEF BlockAnswered, BlockTimedOut
  <2>2. b \in OptionalNames /\ ~retired[b]
    BY <1>0, <2>1 DEF LockDiscipline, StreaksAgree, AtBlock
  <2>3. \/ /\ retired' = [retired EXCEPT ![b] = FALSE]
           /\ age' = [age EXCEPT ![b] = 0]
           /\ timeouts' = [timeouts EXCEPT ![b] = 0]
        \/ /\ timeouts' = [timeouts EXCEPT ![b] = timeouts[b] + 1]
           /\ retired' = IF timeouts[b] + 1 >= Threshold
                         THEN [retired EXCEPT ![b] = TRUE] ELSE retired
           /\ age' = age
    BY <1>3 DEF BlockAnswered, BlockTimedOut, Opt!RecordSuccessEffect, Opt!RecordTimeoutEffect
  <2> HIDE DEF b
  <2>4. timeouts[b] \in 0..(Threshold - 1)
    BY <1>0, <2>2 DEF TypeBlocks, StreaksAgree
  <2>5. TypeBlocks'
    <3>1. timeouts' \in [OptionalNames -> 0..Threshold]
      BY <1>0, <2>2, <2>3, <2>4 DEF TypeBlocks
    <3>2. retired' \in [OptionalNames -> BOOLEAN]
      BY <1>0, <2>2, <2>3 DEF TypeBlocks
    <3>3. age' \in [OptionalNames -> 0..RetryAfter]
      BY <1>0, <2>2, <2>3 DEF TypeBlocks
    <3> QED BY <3>1, <3>2, <3>3 DEF TypeBlocks
  <2>6. (\A x \in OptionalNames : retired[x] <=> timeouts[x] = Threshold)'
    BY <1>0, <2>2, <2>3, <2>4 DEF TypeBlocks, StreaksAgree
  <2>7. \A q \in Polls : pc'[q] # "asked"
    BY <1>0, <2>1 DEF LockDiscipline, Advance, TypeTasks
  <2> QED BY <2>5, <2>6, <2>7 DEF StreaksAgree
<1>4. CASE Tick
  <2>1. timeouts' = timeouts /\ retired' = retired
    BY <1>4 DEF Tick, Opt!ClockEffect
  <2>2. age' \in [OptionalNames -> 0..RetryAfter]
    BY <1>0, <1>4 DEF Tick, Opt!ClockEffect, TypeBlocks
  <2>3. pc' = pc /\ at' = at
    BY <1>4 DEF Tick, taskVars
  <2> QED BY <1>0, <2>1, <2>2, <2>3 DEF TypeBlocks, StreaksAgree
<1>5. ASSUME NEW t \in Tasks, Advance(t), UNCHANGED blockVars
      PROVE  TypeBlocks' /\ StreaksAgree'
  BY <1>0, <1>1, <1>5 DEF Advance, TypeTasks
<1>6. ASSUME NEW t \in Tasks, NEW r, Leave(t, r), UNCHANGED blockVars, lock = t
      PROVE  TypeBlocks' /\ StreaksAgree'
  BY <1>0, <1>1, <1>6 DEF Leave, TypeTasks
<1>7. ASSUME NEW p \in Polls,
             \/ ReadRequired(p) \/ SkipProbe(p) \/ ProbeSerial(p)
             \/ SkipBlock(p) \/ BlockEmpty(p) \/ Publish(p)
      PROVE  TypeBlocks' /\ StreaksAgree'
  <2>1. UNCHANGED blockVars /\ lock = p
    BY <1>7 DEF ReadRequired, SkipProbe, ProbeSerial, SkipBlock, BlockEmpty, Publish, Holds
  <2>2. Advance(p) \/ Leave(p, "failed") \/ Leave(p, "ok")
    BY <1>7 DEF ReadRequired, SkipProbe, ProbeSerial, SkipBlock, BlockEmpty, Publish
  <2> QED BY <2>1, <2>2, <1>5, <1>6
<1>8. ASSUME NEW c \in Callers, CallStep(c) PROVE TypeBlocks' /\ StreaksAgree'
  <2>1. UNCHANGED blockVars /\ lock = c
    BY <1>8 DEF CallStep, WriteAccepted, WriteFailed, Holds
  <2>2. Advance(c) \/ Leave(c, "failed") \/ Leave(c, "ok")
    BY <1>8 DEF CallStep, WriteAccepted, WriteFailed
  <2> QED BY <2>1, <2>2, <1>5, <1>6
<1>9. ASSUME NEW t \in Tasks, EnsureConnected(t) \/ CancelRunning(t)
      PROVE TypeBlocks' /\ StreaksAgree'
  <2>1. UNCHANGED blockVars /\ lock = t
    BY <1>9 DEF EnsureConnected, AlreadyConnected, Connect, CannotConnect, CancelRunning, Holds
  <2>2. Advance(t) \/ Leave(t, "failed") \/ Leave(t, "cancelled")
    BY <1>9 DEF EnsureConnected, AlreadyConnected, Connect, CannotConnect, CancelRunning
  <2> QED BY <2>1, <2>2, <1>5, <1>6
<1>10. ASSUME NEW t \in Tasks, Acquire(t) \/ CancelWaiting(t)
       PROVE TypeBlocks' /\ StreaksAgree'
  BY <1>0, <1>1, <1>10 DEF Acquire, CancelWaiting, TypeTasks
<1>11. ASSUME NEW p \in Polls, StartPoll(p) PROVE TypeBlocks' /\ StreaksAgree'
  BY <1>0, <1>1, <1>11 DEF StartPoll, TypeTasks
<1>12. ASSUME NEW c \in Callers, NEW w, Submit(c, w) PROVE TypeBlocks' /\ StreaksAgree'
  BY <1>0, <1>1, <1>12 DEF Submit, TypeTasks
<1>13. CASE Unload \/ Elsewhere \/ Heal
  BY <1>1, <1>13 DEF Unload, Elsewhere, Heal, taskVars
<1> QED
  BY <1>2, <1>3, <1>4, <1>7, <1>8, <1>9, <1>10, <1>11, <1>12, <1>13
     DEF Next, PollStep, Call, SetBatteryPower, SetWorkMode, Engage, Restore,
         SetExportLimitMode, SetExportLimitValue, SetImportLimitMode,
         SetImportLimitValue, SetWatchdog

(* The lock: leaving it, or going on while holding it, keeps the discipline. *)
LEMMA LeaveDiscipline ==
  ASSUME IInv, NEW t \in Tasks, NEW r, lock = t, Leave(t, r), Forget(t)
  PROVE  LockDiscipline'
  BY CoordinatorAssumption
     DEF IInv, TypeOK, TypeTasks, TypeCalls, TypePolls, LockDiscipline, Leave, Forget, AtBlock, Tasks

LEMMA AdvanceDiscipline ==
  ASSUME IInv, NEW t \in Tasks, lock = t, Advance(t), UNCHANGED prog,
         \A p \in Polls : p # t => frame'[p] = frame[p],
         t \in Callers => at[t] + 1 <= Len(prog[t])
  PROVE  LockDiscipline'
  BY CoordinatorAssumption
     DEF IInv, TypeOK, TypeTasks, TypeCalls, TypePolls, LockDiscipline, Advance, AtBlock, Tasks

LEMMA SubmitDiscipline ==
  ASSUME IInv, NEW c \in Callers, NEW w \in Seq(Writes), Len(w) >= 1, Submit(c, w)
  PROVE  LockDiscipline'
<1> USE DEF IInv, TypeOK, TypeTasks, TypeCalls, LockDiscipline, Submit, Tasks
<1>1. /\ pc' = [pc EXCEPT ![c] = "wait"] /\ prog' = [prog EXCEPT ![c] = w]
      /\ pc[c] = "idle" /\ UNCHANGED <<lock, at, frame>>
  BY DEF pollVars
<1>2. (\A t \in Tasks : pc[t] \in {"held", "asked"} <=> lock = t)'
  BY <1>1
<1>3. (\A t \in Tasks : lock # t => at[t] = 0)'
  BY <1>1
<1>4. (\A t \in Tasks : pc[t] = "asked" => AtBlock(t, OptionalNames))'
  BY <1>1 DEF AtBlock
<1>5. (\A p \in Polls : lock # p => frame[p] = EmptyFrame)'
  BY <1>1
<1>6. (\A x \in Callers : IF pc[x] = "idle" THEN prog[x] = <<>>
                          ELSE Len(prog[x]) >= 1 /\ at[x] <= Len(prog[x]))'
  <2> TAKE x \in Callers
  <2>1. CASE x = c
    <3>1. at[c] = 0
      BY <1>1
    <3> QED BY <1>1, <2>1, <3>1
  <2>2. CASE x # c
    BY <1>1, <2>2
  <2> QED BY <2>1, <2>2
<1> QED BY <1>2, <1>3, <1>4, <1>5, <1>6

LEMMA StepLock == IInv /\ Next => LockDiscipline'
<1> SUFFICES ASSUME IInv, Next PROVE LockDiscipline'
    OBVIOUS
<1> USE CoordinatorAssumption DEF Tasks
<1>0. TypeTasks /\ TypeCalls /\ TypePolls /\ LockDiscipline
  BY DEF IInv, TypeOK
<1>1. ASSUME NEW p \in Polls, PollStep(p) PROVE LockDiscipline'
  <2>1. CASE AskBlock(p)
    BY <1>0, <2>1 DEF AskBlock, Holds, AtBlock, LockDiscipline, TypeTasks, pollVars
  <2>2. CASE ~AskBlock(p)
    <3>1. lock = p
      BY <1>1, <2>2 DEF PollStep, ReadRequired, SkipProbe, ProbeSerial, SkipBlock,
         BlockAnswered, BlockTimedOut, BlockEmpty, Publish, Holds
    <3>2. \/ Advance(p) /\ UNCHANGED prog
          \/ (Leave(p, "failed") \/ Leave(p, "ok")) /\ Forget(p)
      BY <1>1, <2>2 DEF PollStep, ReadRequired, SkipProbe, ProbeSerial, SkipBlock,
         BlockAnswered, BlockTimedOut, BlockEmpty, Publish
    <3>3. Advance(p) => \A q \in Polls : q # p => frame'[q] = frame[q]
      BY <1>0, <1>1, <2>2 DEF PollStep, ReadRequired, SkipProbe, ProbeSerial, SkipBlock,
         BlockAnswered, BlockTimedOut, BlockEmpty, Publish, TypePolls, pollVars, Forget
    <3> QED BY <3>1, <3>2, <3>3, LeaveDiscipline, AdvanceDiscipline
  <2> QED BY <2>1, <2>2
<1>2. ASSUME NEW c \in Callers, CallStep(c) PROVE LockDiscipline'
  <2>1. lock = c /\ at[c] \in 1..Len(prog[c])
    BY <1>2 DEF CallStep, WriteAccepted, WriteFailed, Holds
  <2>2. \/ Advance(c) /\ UNCHANGED <<frame, prog>> /\ at[c] # Len(prog[c])
        \/ (Leave(c, "failed") \/ Leave(c, "ok")) /\ Forget(c)
    BY <1>2 DEF CallStep, WriteAccepted, WriteFailed
  <2>3. prog[c] \in Seq(Writes) /\ at[c] \in Nat
    BY <1>0 DEF TypeCalls, TypeTasks
  <2> QED BY <2>1, <2>2, <2>3, LeaveDiscipline, AdvanceDiscipline
<1>3. ASSUME NEW c \in Callers, Call(c) PROVE LockDiscipline'
  <2>1. TypeCalls'
    BY <1>0, <1>3, CallTypes
  <2>2. PICK w \in Seq(Writes) : Len(w) >= 1 /\ Submit(c, w)
    <3>1. PICK w : Submit(c, w) /\ Len(w) >= 1
      <4>1. \/ \E x : Submit(c, <<x>>)
            \/ \E x, y : Submit(c, <<x, y>>)
        BY <1>3 DEF Call, SetBatteryPower, SetWorkMode, Engage, Restore, RestoreWrites,
           SetExportLimitMode, SetExportLimitValue, SetImportLimitMode,
           SetImportLimitValue, SetWatchdog
      <4>2. ASSUME NEW x, Submit(c, <<x>>) PROVE \E w : Submit(c, w) /\ Len(w) >= 1
        <5>1. Len(<<x>>) >= 1
          OBVIOUS
        <5> QED BY <4>2, <5>1, Zenon
      <4>3. ASSUME NEW x, NEW y, Submit(c, <<x, y>>) PROVE \E w : Submit(c, w) /\ Len(w) >= 1
        <5>1. Len(<<x, y>>) >= 1
          OBVIOUS
        <5> QED BY <4>3, <5>1, Zenon
      <4> QED BY <4>1, <4>2, <4>3, Zenon
    <3>2. prog'[c] = w
      BY <1>0, <3>1 DEF Submit, TypeCalls
    <3> QED BY <2>1, <3>1, <3>2 DEF TypeCalls
  <2> QED BY <2>2, SubmitDiscipline
<1>4. ASSUME NEW t \in Tasks, EnsureConnected(t) PROVE LockDiscipline'
  <2>1. lock = t /\ at[t] = 0 /\ pc[t] = "held"
    BY <1>4 DEF EnsureConnected, AlreadyConnected, Connect, CannotConnect, Holds
  <2>2. \/ Advance(t) /\ UNCHANGED <<frame, prog>>
        \/ Leave(t, "failed") /\ Forget(t)
    BY <1>4 DEF EnsureConnected, AlreadyConnected, Connect, CannotConnect, pollVars
  <2>3. t \in Callers => at[t] + 1 <= Len(prog[t])
    BY <1>0, <2>1 DEF LockDiscipline
  <2> QED BY <2>1, <2>2, <2>3, LeaveDiscipline, AdvanceDiscipline
<1>5. ASSUME NEW t \in Tasks, CancelRunning(t) PROVE LockDiscipline'
  BY <1>5, LeaveDiscipline DEF CancelRunning
<1>6. ASSUME NEW t \in Tasks, CancelWaiting(t) PROVE LockDiscipline'
  BY <1>0, <1>6 DEF CancelWaiting, Forget, LockDiscipline, TypeTasks, TypeCalls, TypePolls, AtBlock
<1>7. ASSUME NEW t \in Tasks, Acquire(t) PROVE LockDiscipline'
  BY <1>0, <1>7 DEF Acquire, LockDiscipline, TypeTasks, AtBlock, pollVars
<1>8. ASSUME NEW p \in Polls, StartPoll(p) PROVE LockDiscipline'
  BY <1>0, <1>8 DEF StartPoll, LockDiscipline, TypeTasks, AtBlock, pollVars
<1>9. CASE Unload \/ Elsewhere \/ Heal \/ Tick
  BY <1>0, <1>9 DEF Unload, Elsewhere, Heal, Tick, LockDiscipline, AtBlock, pollVars, taskVars
<1> QED
  BY <1>1, <1>2, <1>3, <1>4, <1>5, <1>6, <1>7, <1>8, <1>9 DEF Next

LEMMA StepEnv == TypeEnv /\ Next => TypeEnv'
<1> SUFFICES ASSUME TypeEnv, Next PROVE TypeEnv'
    OBVIOUS
<1>1. faults' \in BOOLEAN /\ unloaded' \in BOOLEAN
  BY Zenon DEF TypeEnv, Next, StartPoll, PollStep, ReadRequired, SkipProbe, ProbeSerial, SkipBlock,
     AskBlock, BlockAnswered, BlockTimedOut, BlockEmpty, Publish, CallStep, WriteAccepted,
     WriteFailed, Acquire, EnsureConnected, AlreadyConnected, Connect, CannotConnect,
     CancelWaiting, CancelRunning, Unload, Elsewhere, Heal, Tick, Submit, Call,
     SetBatteryPower, SetWorkMode, Engage, Restore, SetExportLimitMode, SetExportLimitValue,
     SetImportLimitMode, SetImportLimitValue, SetWatchdog, envVars
<1>2. gap' \in {gap, 0} \/ (gap < ScanTicks /\ gap' = gap + 1)
  BY DEF Next, StartPoll, PollStep, ReadRequired, SkipProbe, ProbeSerial, SkipBlock,
     AskBlock, BlockAnswered, BlockTimedOut, BlockEmpty, Publish, CallStep, WriteAccepted,
     WriteFailed, Acquire, EnsureConnected, AlreadyConnected, Connect, CannotConnect,
     CancelWaiting, CancelRunning, Unload, Elsewhere, Heal, Tick, Submit, Call,
     SetBatteryPower, SetWorkMode, Engage, Restore, SetExportLimitMode, SetExportLimitValue,
     SetImportLimitMode, SetImportLimitValue, SetWatchdog, envVars
<1>3. gap' \in 0..ScanTicks
  BY <1>2, CoordinatorAssumption DEF TypeEnv
<1> QED BY <1>1, <1>3 DEF TypeEnv

LEMMA StepIInv == IInv /\ [Next]_vars => IInv'
<1> SUFFICES ASSUME IInv, [Next]_vars PROVE IInv'
    OBVIOUS
<1>1. CASE Next
  BY <1>1, StepTasks, StepCalls, StepPolls, StepBlocks, StepEnv, StepLock DEF IInv, TypeOK
<1>2. CASE UNCHANGED vars
  BY <1>2 DEF vars, taskVars, pollVars, blockVars, envVars, IInv, TypeOK, TypeTasks, TypeCalls,
     TypePolls, TypeBlocks, TypeEnv, LockDiscipline, AtBlock, StreaksAgree
<1> QED BY <1>1, <1>2

(* The coordinator's state keeps its types, whatever fails or is cancelled:
   in particular no block's streak grows beyond the threshold
   (coordinator.py:178-214). *)
THEOREM TypeCorrect == Spec => []TypeOK
<1>1. IInv => TypeOK
  BY DEF IInv
<1> QED BY InitIInv, StepIInv, <1>1, PTL DEF Spec

(* One task at a time is past the lock, and every way out of it, exception and
   cancellation included, releases it (coordinator.py:231, 660-776). *)
THEOREM LockHeld == Spec => []LockDiscipline
<1>1. IInv => LockDiscipline
  BY DEF IInv
<1> QED BY InitIInv, StepIInv, <1>1, PTL DEF Spec

-----------------------------------------------------------------------------
(* The socket is left as it is, or closed: nothing but Connect opens it. *)
StreamKept == stream' = stream \/ stream' = "closed"

(* A strike means that this poll, still in the lock and past connecting, has
   closed the socket: no request can time out on it before the poll is over. *)
StrikeClosed ==
  \A p \in Polls :
    \/ frame[p].strikes = 0
    \/ frame[p].strikes = 1 /\ lock = p /\ stream = "closed" /\ at[p] >= 1

LEMMA StrikeForgotten ==
  ASSUME IInv, StrikeClosed, NEW t \in Tasks, lock = t, Forget(t)
  PROVE  StrikeClosed'
  BY DEF IInv, TypeOK, TypePolls, StrikeClosed, Forget, EmptyFrame

LEMMA StrikeKept ==
  ASSUME IInv, StrikeClosed, \A p \in Polls : frame'[p].strikes = frame[p].strikes,
         UNCHANGED <<lock, at>>, StreamKept
  PROVE  StrikeClosed'
  BY DEF StrikeClosed, StreamKept

LEMMA ClosedStaysClosed ==
  ASSUME NEW silent, NEW o, NEW s, stream = "closed", Reply(silent, o, s)
  PROVE  o = "down" /\ s = "closed"
  BY DEF Reply

LEMMA StrikeStep == IInv /\ StrikeClosed /\ [Next]_vars => StrikeClosed'
<1> SUFFICES ASSUME IInv, StrikeClosed, [Next]_vars PROVE StrikeClosed'
    OBVIOUS
<1> USE CoordinatorAssumption DEF Tasks
<1>0. /\ TypeTasks /\ LockDiscipline
      /\ frame \in [Polls -> Frames]
      /\ \A p \in Polls : frame[p].strikes \in Nat
  BY DEF IInv, TypeOK, TypePolls, Frames
<1>1. ASSUME NEW p \in Polls, lock = p, at[p] >= 1,
             Advance(p), StreamKept \/ stream # "closed",
             \A q \in Polls : frame'[q].strikes = frame[q].strikes
      PROVE  StrikeClosed'
  <2>1. lock' = p /\ at'[p] = at[p] + 1 /\ at[p] \in Nat
    BY <1>0, <1>1 DEF Advance, TypeTasks
  <2>2. \A q \in Polls : q # p => frame'[q].strikes = 0
    BY <1>1 DEF StrikeClosed
  <2>3. frame[p].strikes = 0 \/ (frame[p].strikes = 1 /\ stream = "closed")
    BY DEF StrikeClosed
  <2>4. frame'[p].strikes = 0 \/ (frame'[p].strikes = 1 /\ stream' = "closed")
    BY <1>1, <2>3 DEF StreamKept
  <2> QED BY <1>1, <2>1, <2>2, <2>4 DEF StrikeClosed
<1>2. ASSUME NEW p \in Polls, ReadRequired(p) PROVE StrikeClosed'
  <2>1. lock = p /\ at[p] >= 1
    BY <1>2 DEF ReadRequired, Holds, AtBlock
  <2>2. CASE Forget(p)
    BY <2>1, <2>2, StrikeForgotten
  <2>3. CASE ~Forget(p)
    <3>1. PICK o \in Outcomes, s \in Streams :
            /\ Reply(FALSE, o, s) /\ stream' = Dropped(o, s) /\ Advance(p)
            /\ frame' \in {frame, [frame EXCEPT ![p].regs = regs]}
      BY <1>2, <2>3 DEF ReadRequired
    <3>2. StreamKept \/ stream # "closed"
      BY <3>1, ClosedStaysClosed DEF Dropped, StreamKept
    <3>3. \A q \in Polls : frame'[q].strikes = frame[q].strikes
      BY <1>0, <3>1 DEF Frames
    <3> QED BY <1>1, <2>1, <3>1, <3>2, <3>3
  <2> QED BY <2>2, <2>3
<1>3. ASSUME NEW p \in Polls, ProbeSerial(p) \/ BlockEmpty(p) PROVE StrikeClosed'
  <2>1. lock = p /\ at[p] >= 1 /\ Advance(p) /\ frame' = frame
    BY <1>0, <1>3 DEF ProbeSerial, BlockEmpty, Holds, AtBlock, LockDiscipline, pollVars
  <2>2. PICK silent, o : Reply(silent, o, stream')
    BY <1>3 DEF ProbeSerial, BlockEmpty
  <2>3. StreamKept \/ stream # "closed"
    BY <2>2, ClosedStaysClosed DEF StreamKept
  <2> QED BY <1>1, <2>1, <2>3
<1>4. ASSUME NEW p \in Polls, SkipProbe(p) \/ SkipBlock(p) \/ BlockAnswered(p)
      PROVE  StrikeClosed'
  <2>1. lock = p /\ at[p] >= 1 /\ Advance(p) /\ StreamKept
    BY <1>0, <1>4 DEF SkipProbe, SkipBlock, BlockAnswered, Holds, AtBlock, LockDiscipline, StreamKept
  <2>2. PICK m : frame' \in {frame, [frame EXCEPT ![p].meter = m]}
    BY <1>4 DEF SkipProbe, SkipBlock, BlockAnswered, pollVars
  <2>3. \A q \in Polls : frame'[q].strikes = frame[q].strikes
    BY <1>0, <2>2 DEF Frames
  <2> QED BY <1>1, <2>1, <2>3
<1>5. ASSUME NEW p \in Polls, BlockTimedOut(p) PROVE StrikeClosed'
  <2>1. lock = p /\ at[p] >= 1 /\ Advance(p) /\ stream' = "closed"
    BY <1>0, <1>5 DEF BlockTimedOut, AtBlock, LockDiscipline
  <2>2. stream # "closed"
    BY <1>5, ClosedStaysClosed DEF BlockTimedOut
  <2>3. frame[p].strikes = 0
    BY <2>2 DEF StrikeClosed
  <2>4. frame' = [frame EXCEPT ![p].strikes = frame[p].strikes + 1]
    BY <1>5 DEF BlockTimedOut
  <2>5. /\ frame'[p].strikes = 1
        /\ \A q \in Polls : q # p => frame'[q].strikes = frame[q].strikes
    BY <1>0, <2>3, <2>4 DEF Frames
  <2>6. \A q \in Polls : q # p => frame[q].strikes = 0
    BY <2>1 DEF StrikeClosed
  <2> QED BY <1>0, <2>1, <2>5, <2>6 DEF StrikeClosed, Advance, TypeTasks
<1>6. ASSUME NEW p \in Polls, AskBlock(p) PROVE StrikeClosed'
  BY <1>6, StrikeKept DEF AskBlock, StreamKept, pollVars, IInv, TypeOK, TypeTasks
<1>7. ASSUME NEW p \in Polls, Publish(p) PROVE StrikeClosed'
  BY <1>7, StrikeForgotten DEF Publish, Holds
<1>8. ASSUME NEW c \in Callers, CallStep(c) PROVE StrikeClosed'
  <2>1. lock = c /\ (Forget(c) \/ (frame' = frame /\ lock' = lock /\ stream' = stream))
    BY <1>8 DEF CallStep, WriteAccepted, WriteFailed, Holds, Advance
  <2>2. \A p \in Polls : frame[p].strikes = 0
    BY <2>1 DEF StrikeClosed
  <2> QED BY <2>1, <2>2, StrikeForgotten DEF StrikeClosed
<1>9. ASSUME NEW t \in Tasks, EnsureConnected(t) PROVE StrikeClosed'
  <2>1. lock = t /\ at[t] = 0 /\ (Forget(t) \/ frame' = frame)
    BY <1>9 DEF EnsureConnected, AlreadyConnected, Connect, CannotConnect, Holds, pollVars
  <2>2. \A p \in Polls : frame[p].strikes = 0
    BY <2>1 DEF StrikeClosed
  <2> QED BY <2>1, <2>2, StrikeForgotten DEF StrikeClosed
<1>10. ASSUME NEW t \in Tasks, CancelRunning(t) PROVE StrikeClosed'
  BY <1>10, StrikeForgotten DEF CancelRunning
<1>11. ASSUME NEW t \in Tasks, CancelWaiting(t) PROVE StrikeClosed'
  BY <1>0, <1>11 DEF CancelWaiting, Forget, StrikeClosed, EmptyFrame, LockDiscipline, TypeTasks
<1>12. ASSUME NEW t \in Tasks, Acquire(t) PROVE StrikeClosed'
  BY <1>0, <1>12 DEF Acquire, StrikeClosed, pollVars
<1>13. ASSUME NEW p \in Polls, StartPoll(p) PROVE StrikeClosed'
  BY <1>13, StrikeKept DEF StartPoll, StreamKept, pollVars, IInv, TypeOK, TypeTasks
<1>14. ASSUME NEW c \in Callers, NEW w, Submit(c, w) PROVE StrikeClosed'
  BY <1>14, StrikeKept DEF Submit, StreamKept, pollVars, IInv, TypeOK, TypeTasks
<1>15. CASE Unload \/ Elsewhere \/ Heal \/ Tick \/ UNCHANGED vars
  BY <1>15, StrikeKept
     DEF Unload, Elsewhere, Heal, Tick, vars, StreamKept, pollVars, taskVars, IInv, TypeOK, TypeTasks
<1> QED
  BY <1>2, <1>3, <1>4, <1>5, <1>6, <1>7, <1>8, <1>9, <1>10, <1>11, <1>12, <1>13, <1>14, <1>15
     DEF Next, PollStep, Call, SetBatteryPower, SetWorkMode, Engage, Restore,
         SetExportLimitMode, SetExportLimitValue, SetImportLimitMode,
         SetImportLimitValue, SetWatchdog

(* One glitch costs one strike, whatever fails and however late its replies:
   no poll charges two optional blocks (coordinator.py:189-195). *)
THEOREM OneStrikePerGlitch == Spec => []OneGlitchOneStrike
<1>1. Init => StrikeClosed
  <2> SUFFICES ASSUME Init, NEW p \in Polls PROVE frame[p].strikes = 0
    BY DEF StrikeClosed
  <2>1. frame[p] = EmptyFrame
    BY DEF Init
  <2> QED BY <2>1 DEF EmptyFrame
<1>2. StrikeClosed => OneGlitchOneStrike
  <2> SUFFICES ASSUME StrikeClosed, NEW p \in Polls PROVE frame[p].strikes <= 1
    BY DEF OneGlitchOneStrike
  <2>1. frame[p].strikes \in {0, 1}
    BY DEF StrikeClosed
  <2> QED BY <2>1
<1> QED BY InitIInv, StepIInv, StrikeStep, <1>1, <1>2, PTL DEF Spec

-----------------------------------------------------------------------------
(* HandBackIsDisarmed is inductive with the lock discipline: the write of zero
   that precedes was made under the same hold of the lock. *)
LEMMA DisarmedStep == IInv /\ HandBackIsDisarmed /\ [Next]_vars => HandBackIsDisarmed'
<1> SUFFICES ASSUME IInv, HandBackIsDisarmed, [Next]_vars,
                    NEW c \in Callers, Holds(c)', (prog[c] = RestoreWrites)', (at[c] = 2)'
             PROVE  regs'["setpoint"] = 0
    BY DEF HandBackIsDisarmed
<1> USE CoordinatorAssumption DEF Tasks
<1>0. /\ LockDiscipline /\ pc \in [Tasks -> {"idle", "wait", "held", "asked"}]
      /\ at \in [Tasks -> Nat] /\ prog \in [Callers -> Seq(Writes)]
      /\ regs \in [Registers -> Int]
  BY DEF IInv, TypeOK, TypeTasks, TypeCalls
<1>1. lock' = c /\ pc'[c] = "held" /\ at'[c] = 2 /\ prog'[c] = RestoreWrites
  BY DEF Holds
<1>2. CASE lock # c
  <2>1. at[c] = 0
    BY <1>0, <1>2 DEF LockDiscipline
  <2>2. \E t \in Tasks : Acquire(t)
    BY <1>1, <1>2
       DEF Next, StartPoll, PollStep, ReadRequired, SkipProbe, ProbeSerial, SkipBlock,
       AskBlock, BlockAnswered, BlockTimedOut, BlockEmpty, Publish, CallStep, WriteAccepted,
       WriteFailed, EnsureConnected, AlreadyConnected, Connect, CannotConnect,
       CancelWaiting, CancelRunning, Unload, Elsewhere, Heal, Tick, Submit, Call, Leave, Advance,
       SetBatteryPower, SetWorkMode, Engage, Restore, SetExportLimitMode, SetExportLimitValue,
       SetImportLimitMode, SetImportLimitValue, SetWatchdog, vars
  <2> QED BY <1>1, <2>1, <2>2 DEF Acquire
<1>3. CASE lock = c
  <2>1. \A t \in Tasks : lock = t => t = c
    BY <1>3
  <2>2. CASE WriteAccepted(c)
    <3>1. Advance(c) /\ UNCHANGED prog
      BY <1>1, <2>2 DEF WriteAccepted, Leave
    <3>2. at[c] = 1 /\ prog[c] = RestoreWrites
      BY <1>0, <1>1, <3>1 DEF Advance
    <3>3. RestoreWrites[1] = Put("setpoint", 0)
      BY DEF RestoreWrites
    <3>4. prog[c][at[c]].reg = "setpoint" /\ prog[c][at[c]].val = 0
      BY <3>2, <3>3 DEF Put
    <3>5. regs' = [regs EXCEPT !["setpoint"] = 0]
      BY <2>2, <3>4 DEF WriteAccepted, Applied
    <3> QED BY <1>0, <3>5 DEF Registers
  <2>3. CASE EnsureConnected(c)
    <3>1. at[c] = 0
      BY <2>3 DEF EnsureConnected, AlreadyConnected, Connect, CannotConnect
    <3> QED BY <1>0, <1>1, <2>3, <3>1
            DEF EnsureConnected, AlreadyConnected, Connect, CannotConnect, Advance, Leave
  <2>4. CASE Elsewhere
    <3>1. UNCHANGED <<lock, pc, at, prog>> /\ \E m : regs' = [regs EXCEPT !["mode"] = m]
      BY <2>4 DEF Elsewhere, taskVars
    <3>2. regs["setpoint"] = 0
      BY <1>1, <3>1 DEF HandBackIsDisarmed, Holds
    <3> QED BY <1>0, <3>1, <3>2 DEF Registers
  <2>5. CASE \/ UNCHANGED <<lock, pc, at, prog, regs>>
             \/ \E p \in Polls : StartPoll(p)
             \/ \E d \in Callers : Call(d)
             \/ \E t \in Tasks : CancelWaiting(t)
    <3>1. UNCHANGED <<at, regs>>
      BY <2>5 DEF StartPoll, Call, Submit, CancelWaiting,
         SetBatteryPower, SetWorkMode, Engage, Restore, SetExportLimitMode, SetExportLimitValue,
         SetImportLimitMode, SetImportLimitValue, SetWatchdog
    <3>2. pc[c] = "held"
      <4>1. pc[c] \in {"held", "asked"}
        BY <1>0, <1>3 DEF LockDiscipline
      <4>2. pc[c] # "asked"
        BY <1>0 DEF LockDiscipline, AtBlock
      <4> QED BY <4>1, <4>2
    <3>3. prog'[c] = prog[c]
      BY <1>0, <1>3, <2>5, <3>2 DEF StartPoll, Call, Submit, CancelWaiting, Forget,
         SetBatteryPower, SetWorkMode, Engage, Restore, SetExportLimitMode, SetExportLimitValue,
         SetImportLimitMode, SetImportLimitValue, SetWatchdog
    <3> QED BY <1>1, <1>3, <3>1, <3>2, <3>3 DEF HandBackIsDisarmed, Holds
  <2>6. ~\E p \in Polls : PollStep(p)
    BY <1>3 DEF PollStep, ReadRequired, SkipProbe, ProbeSerial, SkipBlock,
       AskBlock, BlockAnswered, BlockTimedOut, BlockEmpty, Publish, Holds
  <2>7. \A d \in Callers : CallStep(d) => d = c /\ WriteAccepted(c)
    BY <1>1, <1>3 DEF CallStep, WriteAccepted, WriteFailed, Holds, Leave
  <2>8. \A t \in Tasks : ~CancelRunning(t) /\ ~Acquire(t)
    BY <1>1, <1>3 DEF CancelRunning, Acquire, Leave
  <2>9. \A t \in Tasks : EnsureConnected(t) => t = c
    BY <1>3 DEF EnsureConnected, AlreadyConnected, Connect, CannotConnect, Holds
  <2>10. Unload \/ Heal \/ Tick \/ UNCHANGED vars => UNCHANGED <<lock, pc, at, prog, regs>>
    BY DEF Unload, Heal, Tick, vars, taskVars
  <2> QED BY <2>2, <2>3, <2>4, <2>5, <2>6, <2>7, <2>8, <2>9, <2>10 DEF Next
<1> QED BY <1>2, <1>3

(* Control is given back with the setpoint at zero: no interleaving of calls,
   no failure and no cancellation between the two writes of async_restore lets
   its mode write happen over a live setpoint (coordinator.py:733-757). *)
THEOREM HandBackDisarmed == Spec => []HandBackIsDisarmed
<1>1. Init => HandBackIsDisarmed
  BY CoordinatorAssumption DEF Init, HandBackIsDisarmed, Holds, Tasks
<1> QED BY InitIInv, StepIInv, DisarmedStep, <1>1, PTL DEF Spec
-----------------------------------------------------------------------------
(* The setpoint is clamped before the lock, to bounds that a poll left: safe
   because no call exists before a first poll published the nameplate, and
   every poll publishes it again. *)
SafePower == {w \in Int : /\ \E b \in ChargeBounds : -b <= w
                          /\ \E b \in DischargeBounds : w <= b}

Harmless(writes) ==
  \A i \in 1..Len(writes) : writes[i].reg = "setpoint" => writes[i].val \in SafePower

SetpointInv == /\ data.polled => bounds \in Nameplates
               /\ \A c \in Callers : Harmless(prog[c])
               /\ regs["setpoint"] \in SafePower

LEMMA SafePowerFacts == SafePower \subseteq Int /\ 0 \in SafePower
<1>1. PICK r \in RatedPowers, m \in MaxActivePowers : TRUE
  BY CoordinatorAssumption
<1>2. OrDefault(r, FallbackCharge) \in ChargeBounds /\ OrDefault(m, FallbackDischarge) \in DischargeBounds
  BY DEF ChargeBounds, DischargeBounds
<1>3. OrDefault(r, FallbackCharge) \in Nat /\ OrDefault(m, FallbackDischarge) \in Nat
  BY <1>2, BoundTypes
<1>4. -OrDefault(r, FallbackCharge) <= 0 /\ 0 <= OrDefault(m, FallbackDischarge)
  BY <1>3
<1> QED BY <1>2, <1>4 DEF SafePower

LEMMA ClampSafe ==
  ASSUME bounds \in Nameplates, NEW w \in Int
  PROVE  Clamp(w) \in SafePower
<1>1. /\ bounds.charge \in ChargeBounds /\ bounds.charge \in Nat
      /\ bounds.discharge \in DischargeBounds /\ bounds.discharge \in Nat
  BY BoundTypes DEF Nameplates
<1>2. Clamp(w) \in Int /\ -bounds.charge <= Clamp(w) /\ Clamp(w) <= bounds.discharge
  BY <1>1 DEF Clamp
<1> QED BY <1>1, <1>2 DEF SafePower

LEMMA AppliedSafe ==
  ASSUME NEW c \in Callers, regs \in [Registers -> Int], regs["setpoint"] \in SafePower,
         Harmless(prog[c]), at[c] \in 1..Len(prog[c])
  PROVE  Applied(c)["setpoint"] \in SafePower
<1>1. prog[c][at[c]].reg = "setpoint" => prog[c][at[c]].val \in SafePower
  BY DEF Harmless
<1>2. CASE prog[c][at[c]].reg = "setpoint"
  BY <1>1, <1>2 DEF Applied, Registers
<1>3. CASE prog[c][at[c]].reg # "setpoint"
  BY <1>3 DEF Applied, Registers
<1> QED BY <1>2, <1>3

LEMMA ForgetHarmless ==
  ASSUME \A c \in Callers : Harmless(prog[c]), NEW t, Forget(t)
  PROVE  \A c \in Callers : Harmless(prog'[c])
<1>1. Harmless(<<>>)
  BY DEF Harmless
<1> QED BY <1>1 DEF Forget

LEMMA CallHarmless ==
  ASSUME TypeCalls, SetpointInv, NEW c \in Callers, Call(c)
  PROVE  \A d \in Callers : Harmless(prog'[d])
<1> USE CoordinatorAssumption
<1>1. PICK writes : Submit(c, writes) /\ Harmless(writes)
  <2>1. ASSUME NEW r, NEW v, r # "setpoint" PROVE Harmless(<<Put(r, v)>>)
    BY <2>1 DEF Harmless, Put
  <2>2. ASSUME NEW w \in PowerRequests, SetBatteryPower(c, w)
        PROVE  \E writes : Submit(c, writes) /\ Harmless(writes)
    <3>1. Clamp(w) \in SafePower
      BY <2>2, ClampSafe DEF SetBatteryPower, Submit, SetpointInv
    <3>2. Harmless(<<Put("mode", VPP), Put("setpoint", Clamp(w))>>)
      BY <3>1 DEF Harmless, Put
    <3> QED BY <2>2, <3>2 DEF SetBatteryPower
  <2>3. CASE Restore(c)
    <3>1. Harmless(RestoreWrites)
      BY SafePowerFacts DEF Harmless, Put, RestoreWrites
    <3> QED BY <2>3, <3>1 DEF Restore
  <2>4. ASSUME NEW m, SetWorkMode(c, m) PROVE \E writes : Submit(c, writes) /\ Harmless(writes)
    BY <2>1, <2>4 DEF SetWorkMode
  <2>5. ASSUME NEW v, \/ SetExportLimitMode(c, v) \/ SetExportLimitValue(c, v)
                      \/ SetImportLimitMode(c, v) \/ SetImportLimitValue(c, v)
                      \/ SetWatchdog(c, v)
        PROVE  \E writes : Submit(c, writes) /\ Harmless(writes)
    BY <2>1, <2>5 DEF SetExportLimitMode, SetExportLimitValue, SetImportLimitMode,
       SetImportLimitValue, SetWatchdog
  <2> QED BY <2>2, <2>3, <2>4, <2>5 DEF Call, Engage
<1>2. prog' = [prog EXCEPT ![c] = writes]
  BY <1>1 DEF Submit
<1> QED BY <1>1, <1>2 DEF TypeCalls, SetpointInv

LEMMA SetpointStep == IInv /\ SetpointInv /\ [Next]_vars => SetpointInv'
<1> SUFFICES ASSUME IInv, SetpointInv, [Next]_vars PROVE SetpointInv'
    OBVIOUS
<1> USE CoordinatorAssumption DEF Tasks
<1>0. /\ LockDiscipline /\ TypeCalls /\ at \in [Tasks -> Nat]
      /\ regs \in [Registers -> Int]
  BY DEF IInv, TypeOK, TypeTasks, TypeCalls
<1>1. ASSUME UNCHANGED <<regs, data, bounds>>,
             \A c \in Callers : Harmless(prog'[c])
      PROVE  SetpointInv'
  BY <1>1 DEF SetpointInv, SafePower, Nameplates, ChargeBounds, DischargeBounds, OrDefault, Harmless
<1>2. ASSUME UNCHANGED <<data, bounds>>, regs'["setpoint"] \in SafePower,
             \A c \in Callers : Harmless(prog'[c])
      PROVE  SetpointInv'
  BY <1>2 DEF SetpointInv, SafePower, Nameplates, ChargeBounds, DischargeBounds, OrDefault, Harmless
<1>3. ASSUME NEW c \in Callers, CallStep(c) PROVE SetpointInv'
  <2>1. Applied(c)["setpoint"] \in SafePower
    BY <1>0, <1>3, AppliedSafe DEF CallStep, WriteAccepted, WriteFailed, SetpointInv
  <2>2. regs'["setpoint"] \in SafePower
    BY <1>3, <2>1 DEF CallStep, WriteAccepted, WriteFailed, SetpointInv
  <2>3. \A d \in Callers : Harmless(prog'[d])
    BY <1>3, ForgetHarmless DEF CallStep, WriteAccepted, WriteFailed, SetpointInv
  <2> QED BY <1>2, <1>3, <2>2, <2>3 DEF CallStep, WriteAccepted, WriteFailed
<1>4. ASSUME NEW t \in Tasks, CancelRunning(t) PROVE SetpointInv'
  <2>1. regs'["setpoint"] \in SafePower
    <3>1. CASE t \in Callers /\ at[t] > 0
      <4>1. at[t] \in 1..Len(prog[t])
        BY <1>0, <1>4, <3>1 DEF LockDiscipline, CancelRunning, TypeCalls
      <4>2. Applied(t)["setpoint"] \in SafePower
        BY <1>0, <3>1, <4>1, AppliedSafe DEF SetpointInv
      <4> QED BY <1>4, <4>2 DEF CancelRunning, SetpointInv
    <3>2. CASE ~(t \in Callers /\ at[t] > 0)
      BY <1>4, <3>2 DEF CancelRunning, SetpointInv
    <3> QED BY <3>1, <3>2
  <2>2. \A d \in Callers : Harmless(prog'[d])
    BY <1>4, ForgetHarmless DEF CancelRunning, SetpointInv
  <2> QED BY <1>2, <1>4, <2>1, <2>2 DEF CancelRunning
<1>5. ASSUME NEW p \in Polls, Publish(p) PROVE SetpointInv'
  <2>1. bounds' \in Nameplates /\ regs' = regs
    BY <1>5 DEF Publish
  <2>2. \A d \in Callers : Harmless(prog'[d])
    BY <1>5, ForgetHarmless DEF Publish, SetpointInv
  <2> QED BY <2>1, <2>2
          DEF SetpointInv, SafePower, Nameplates, ChargeBounds, DischargeBounds, OrDefault, Harmless
<1>6. ASSUME NEW c \in Callers, Call(c) PROVE SetpointInv'
  <2>1. \A d \in Callers : Harmless(prog'[d])
    BY <1>0, <1>6, CallHarmless
  <2>2. UNCHANGED <<regs, data, bounds>>
    BY <1>6 DEF Call, Submit, pollVars, SetBatteryPower, SetWorkMode, Engage, Restore,
       SetExportLimitMode, SetExportLimitValue, SetImportLimitMode,
       SetImportLimitValue, SetWatchdog
  <2> QED BY <1>1, <2>1, <2>2
<1>7. ASSUME NEW t \in Tasks, EnsureConnected(t) \/ CancelWaiting(t) \/ Acquire(t)
      PROVE  SetpointInv'
  <2>1. UNCHANGED <<regs, data, bounds>> /\ (Forget(t) \/ prog' = prog)
    BY <1>7 DEF EnsureConnected, AlreadyConnected, Connect, CannotConnect, CancelWaiting,
       Acquire, pollVars
  <2>2. \A c \in Callers : Harmless(prog'[c])
    BY <2>1, ForgetHarmless DEF SetpointInv
  <2> QED BY <1>1, <2>1, <2>2
<1>8. ASSUME NEW p \in Polls, StartPoll(p) \/ (PollStep(p) /\ ~Publish(p))
      PROVE  SetpointInv'
  <2>1. UNCHANGED <<regs, data, bounds>> /\ (Forget(p) \/ prog' = prog)
    BY <1>8 DEF StartPoll, PollStep, ReadRequired, SkipProbe, ProbeSerial, SkipBlock, AskBlock,
       BlockAnswered, BlockTimedOut, BlockEmpty, pollVars
  <2>2. \A c \in Callers : Harmless(prog'[c])
    BY <2>1, ForgetHarmless DEF SetpointInv
  <2> QED BY <1>1, <2>1, <2>2
<1>9. CASE Elsewhere
  <2>1. PICK m : regs' = [regs EXCEPT !["mode"] = m]
    BY <1>9 DEF Elsewhere
  <2>2. regs'["setpoint"] = regs["setpoint"]
    BY <1>0, <2>1 DEF Registers
  <2> QED BY <1>2, <1>9, <2>2 DEF Elsewhere, pollVars, SetpointInv
<1>10. CASE Unload \/ Heal \/ Tick \/ UNCHANGED vars
  BY <1>1, <1>10 DEF Unload, Heal, Tick, vars, pollVars, SetpointInv
<1> QED
  BY <1>3, <1>4, <1>5, <1>6, <1>7, <1>8, <1>9, <1>10 DEF Next

LEMMA SetpointInit == Init => SetpointInv
<1> SUFFICES ASSUME Init PROVE SetpointInv
    OBVIOUS
<1>1. PICK m \in OtherModes \cup {VPP}, w \in {0} \cup DischargeBounds :
        regs = [NoRegs EXCEPT !["mode"] = m, !["setpoint"] = w]
  BY DEF Init
<1>2. regs["setpoint"] = w
  BY <1>1 DEF NoRegs, Registers
<1>3. w \in SafePower
  BY <1>1, BoundTypes, SafePowerFacts, CoordinatorAssumption DEF SafePower, ChargeBounds
<1> QED BY <1>2, <1>3 DEF Init, SetpointInv, Harmless, NoData

(* The battery setpoint in the inverter never exceeds the nameplate, for any
   request, any nameplate and any schedule (coordinator.py:399-400, 659). *)
THEOREM SetpointBounded == Spec => []SetpointWithinNameplate
<1>1. SetpointInv => SetpointWithinNameplate
  BY DEF SetpointInv, SetpointWithinNameplate, SafePower
<1> QED BY InitIInv, StepIInv, SetpointInit, SetpointStep, <1>1, PTL DEF Spec
-----------------------------------------------------------------------------
(* A required read or a write that fails leaves no doubtful socket: it closes it,
   and an error response says nothing against it. *)
LEMMA DroppedIsSound ==
  ASSUME NEW o \in Outcomes, NEW s \in Streams, NEW silent,
         Reply(silent, o, s), stream = "clean"
  PROVE  Dropped(o, s) \notin Doubtful
  BY DEF Reply, Dropped, Doubtful, Outcomes, Streams

LEMMA DoubtStep ==
  ASSUME Next, stream = "clean", stream' \in Doubtful
  PROVE  \E t \in Tasks : lock = t /\ (AtBlock(t, {"D"}) \/ ended' = "cancelled")
<1>1. ASSUME NEW p \in Polls, StartPoll(p) \/ PollStep(p) PROVE p \in Tasks /\ lock = p /\ AtBlock(p, {"D"})
  <2>1. ~ReadRequired(p)
    BY DroppedIsSound DEF ReadRequired
  <2>2. ~BlockEmpty(p)
    BY DEF BlockEmpty, Reply, Doubtful
  <2>3. stream' # stream
    BY DEF Doubtful
  <2>4. ~StartPoll(p) /\ ~SkipProbe(p) /\ ~SkipBlock(p) /\ ~AskBlock(p) /\ ~BlockAnswered(p)
        /\ ~BlockTimedOut(p) /\ ~Publish(p)
    BY <2>3 DEF StartPoll, SkipProbe, SkipBlock, AskBlock, BlockAnswered, BlockTimedOut, Publish, Doubtful
  <2>5. ProbeSerial(p)
    BY <1>1, <2>1, <2>2, <2>4 DEF PollStep
  <2> QED BY <2>5 DEF ProbeSerial, Holds, Tasks
<1>2. ASSUME NEW c \in Callers PROVE ~Call(c) /\ ~CallStep(c)
  <2>1. ~Call(c)
    BY DEF Call, SetBatteryPower, SetWorkMode, Engage, Restore, SetExportLimitMode,
       SetExportLimitValue, SetImportLimitMode, SetImportLimitValue, SetWatchdog, Submit, Doubtful
  <2>2. ~WriteAccepted(c)
    BY DEF WriteAccepted, Doubtful
  <2>3. ~WriteFailed(c)
    BY DroppedIsSound DEF WriteFailed, Outcomes
  <2> QED BY <2>1, <2>2, <2>3 DEF CallStep
<1>3. ASSUME NEW t \in Tasks, Acquire(t) \/ EnsureConnected(t) \/ CancelWaiting(t) \/ CancelRunning(t)
      PROVE  lock = t /\ ended' = "cancelled"
  <2>1. ~Acquire(t) /\ ~EnsureConnected(t) /\ ~CancelWaiting(t)
    BY DEF Acquire, EnsureConnected, AlreadyConnected, Connect, CannotConnect, CancelWaiting, Doubtful
  <2> QED BY <1>3, <2>1 DEF CancelRunning, Leave
<1>4. ~Unload /\ ~Elsewhere /\ ~Heal /\ ~Tick
  BY DEF Unload, Elsewhere, Heal, Tick, Doubtful
<1> QED BY <1>1, <1>2, <1>3, <1>4 DEF Next

(* A sound socket becomes doubtful only under the serial probe or a cancelled task
   (guarded_call, _reconnect_on_transport_error, _read_optional_block). *)
THEOREM DoubtExplained == Spec => DoubtHasACause
<1> DEFINE Step == stream = "clean" /\ stream' \in Doubtful =>
             \E t \in Tasks : lock = t /\ (AtBlock(t, {"D"}) \/ ended' = "cancelled")
<1>1. [Next]_vars => [Step]_vars
  <2> SUFFICES ASSUME Next PROVE Step
      OBVIOUS
  <2> QED BY DoubtStep
<1> QED BY <1>1, PTL DEF Spec, DoubtHasACause

-----------------------------------------------------------------------------
(* The skip-list is used by its protocol: a step of the coordinator is a step of  *)
(* Opt, or none.                                                               *)

LEMMA AskedFacts ==
  ASSUME IInv
  PROVE  /\ lock \notin Polls \/ pc[lock] # "asked" => AskedBlock = NoBlock
         /\ \A p \in Polls : pc[p] = "asked" =>
              lock = p /\ AskedBlock = BlockOrder[at[p]] /\ BlockOrder[at[p]] \in OptionalNames
  BY DEF IInv, LockDiscipline, AskedBlock, AtBlock, Tasks

LEMMA BlocksQuiet ==
  ASSUME UNCHANGED blockVars, AskedBlock' = AskedBlock
  PROVE  UNCHANGED Opt!optVars
  BY DEF blockVars, Opt!optVars

LEMMA SkipListInit == Init => Opt!Init
  BY CoordinatorAssumption DEF Init, Opt!Init, AskedBlock, Tasks

LEMMA SkipListStep == IInv /\ [Next]_vars => [Opt!Next]_Opt!optVars
<1> SUFFICES ASSUME IInv, [Next]_vars PROVE Opt!Next \/ UNCHANGED Opt!optVars
    OBVIOUS
<1>0. NoTask \notin Polls /\ Polls \cap Callers = {}
  BY CoordinatorAssumption DEF Tasks
<1>1. ASSUME NEW p \in Polls, AskBlock(p) PROVE Opt!Next
  <2>1. Holds(p) /\ BlockOrder[at[p]] \in OptionalNames
    BY <1>1 DEF AskBlock, AtBlock
  <2>2. AskedBlock = NoBlock
    BY <2>1 DEF Holds, AskedBlock
  <2>3. AskedBlock' = BlockOrder[at[p]]
    BY <1>1, <2>1 DEF AskBlock, Holds, AskedBlock, IInv, TypeOK, TypeTasks, Tasks
  <2>4. Opt!Ask(BlockOrder[at[p]])
    BY <1>1, <2>2, <2>3 DEF AskBlock, Opt!Ask
  <2> QED BY <2>1, <2>4 DEF Opt!Next
<1>2. ASSUME NEW p \in Polls, BlockAnswered(p) \/ BlockTimedOut(p) \/ BlockEmpty(p) PROVE Opt!Next
  <2>1. pc[p] = "asked"
    BY <1>2 DEF BlockAnswered, BlockTimedOut, BlockEmpty
  <2>2. AskedBlock = BlockOrder[at[p]] /\ BlockOrder[at[p]] \in OptionalNames
    BY <2>1, AskedFacts
  <2>3. lock' = p /\ pc'[p] = "held"
    BY <1>2 DEF BlockAnswered, BlockTimedOut, BlockEmpty, Advance, IInv, TypeOK, TypeTasks, Tasks
  <2>4. AskedBlock' = NoBlock
    BY <2>3 DEF AskedBlock
  <2>5. CASE BlockAnswered(p)
    BY <2>2, <2>4, <2>5 DEF BlockAnswered, Opt!Answered, Opt!Next
  <2>6. CASE BlockTimedOut(p)
    BY <2>2, <2>4, <2>6 DEF BlockTimedOut, Opt!TimedOut, Opt!Next
  <2>7. CASE BlockEmpty(p)
    BY <2>2, <2>4, <2>7 DEF BlockEmpty, Opt!NoVerdict, Opt!Next, blockVars
  <2> QED BY <1>2, <2>5, <2>6, <2>7
<1>3. ASSUME NEW t \in Tasks, Holds(t), UNCHANGED blockVars,
             \E r : Leave(t, r) \/ Advance(t)
      PROVE  UNCHANGED Opt!optVars
  <2>1. AskedBlock = NoBlock
    BY <1>3 DEF Holds, AskedBlock
  <2>2. lock' = NoTask \/ (lock' = t /\ pc'[t] = "held")
    BY <1>3 DEF Leave, Advance, Holds, IInv, TypeOK, TypeTasks
  <2>3. AskedBlock' = NoBlock
    BY <1>0, <2>2 DEF AskedBlock
  <2> QED BY <1>3, <2>1, <2>3, BlocksQuiet
<1>4. ASSUME NEW p \in Polls, ReadRequired(p) \/ SkipProbe(p) \/ ProbeSerial(p) \/ SkipBlock(p) \/ Publish(p)
      PROVE  UNCHANGED Opt!optVars
  <2>1. Holds(p) /\ UNCHANGED blockVars /\ p \in Tasks
    BY <1>4 DEF ReadRequired, SkipProbe, ProbeSerial, SkipBlock, Publish, Tasks
  <2>2. \E r : Leave(p, r) \/ Advance(p)
    BY <1>4 DEF ReadRequired, SkipProbe, ProbeSerial, SkipBlock, Publish
  <2> QED BY <1>3, <2>1, <2>2
<1>5. ASSUME NEW c \in Callers, CallStep(c) PROVE UNCHANGED Opt!optVars
  <2>1. Holds(c) /\ UNCHANGED blockVars /\ c \in Tasks
    BY <1>5 DEF CallStep, WriteAccepted, WriteFailed, Tasks
  <2>2. \E r : Leave(c, r) \/ Advance(c)
    BY <1>5 DEF CallStep, WriteAccepted, WriteFailed
  <2> QED BY <1>3, <2>1, <2>2
<1>6. ASSUME NEW t \in Tasks, EnsureConnected(t) PROVE UNCHANGED Opt!optVars
  <2>1. Holds(t) /\ UNCHANGED blockVars
    BY <1>6 DEF EnsureConnected, AlreadyConnected, Connect, CannotConnect
  <2>2. \E r : Leave(t, r) \/ Advance(t)
    BY <1>6 DEF EnsureConnected, AlreadyConnected, Connect, CannotConnect
  <2> QED BY <1>3, <2>1, <2>2
<1>7. ASSUME NEW t \in Tasks, lock # t, UNCHANGED <<lock, at, blockVars>>,
             \E v : pc' = [pc EXCEPT ![t] = v]
      PROVE  UNCHANGED Opt!optVars
  <2>1. lock \in Polls => pc'[lock] = pc[lock]
    BY <1>7 DEF IInv, TypeOK, TypeTasks, Tasks
  <2>2. AskedBlock' = AskedBlock
    BY <1>7, <2>1 DEF AskedBlock
  <2> QED BY <1>7, <2>2, BlocksQuiet
<1>8. ASSUME NEW t \in Tasks, pc[t] \in {"idle", "wait"} PROVE lock # t
  BY <1>8 DEF IInv, LockDiscipline
<1>9. ASSUME NEW p \in Polls, StartPoll(p) PROVE UNCHANGED Opt!optVars
  BY <1>7, <1>8, <1>9 DEF StartPoll, Tasks
<1>10. ASSUME NEW c \in Callers, Call(c) PROVE UNCHANGED Opt!optVars
  <2>1. PICK writes : Submit(c, writes)
    BY <1>10 DEF Call, SetBatteryPower, SetWorkMode, Engage, Restore, SetExportLimitMode,
       SetExportLimitValue, SetImportLimitMode, SetImportLimitValue, SetWatchdog
  <2> QED BY <1>7, <1>8, <2>1 DEF Submit, Tasks
<1>11. ASSUME NEW t \in Tasks, CancelWaiting(t) PROVE UNCHANGED Opt!optVars
  BY <1>7, <1>8, <1>11 DEF CancelWaiting
<1>12. ASSUME NEW t \in Tasks, Acquire(t) PROVE UNCHANGED Opt!optVars
  <2>1. AskedBlock = NoBlock
    BY <1>0, <1>12 DEF Acquire, AskedBlock
  <2>2. lock' = t /\ pc'[t] = "held"
    BY <1>12 DEF Acquire, IInv, TypeOK, TypeTasks
  <2>3. AskedBlock' = NoBlock
    BY <2>2 DEF AskedBlock
  <2> QED BY <1>12, <2>1, <2>3, BlocksQuiet DEF Acquire
<1>13. ASSUME NEW t \in Tasks, CancelRunning(t) PROVE Opt!Next \/ UNCHANGED Opt!optVars
  <2>1. lock = t /\ lock' = NoTask /\ UNCHANGED blockVars
    BY <1>13 DEF CancelRunning, Leave
  <2>2. AskedBlock' = NoBlock
    BY <1>0, <2>1 DEF AskedBlock
  <2>3. CASE t \in Polls /\ pc[t] = "asked"
    <3>1. AskedBlock = BlockOrder[at[t]] /\ BlockOrder[at[t]] \in OptionalNames
      BY <2>3, AskedFacts
    <3> QED BY <2>1, <2>2, <3>1 DEF blockVars, Opt!NoVerdict, Opt!Next
  <2>4. CASE ~(t \in Polls /\ pc[t] = "asked")
    <3>1. AskedBlock = NoBlock
      BY <2>1, <2>4 DEF AskedBlock
    <3> QED BY <2>1, <2>2, <3>1, BlocksQuiet
  <2> QED BY <2>3, <2>4
<1>14. CASE Unload \/ Elsewhere \/ Heal \/ UNCHANGED vars
  <2>1. UNCHANGED <<lock, pc, at, blockVars>>
    BY <1>14 DEF Unload, Elsewhere, Heal, vars, taskVars
  <2> QED BY <2>1, BlocksQuiet DEF AskedBlock
<1>15. CASE Tick
  <2>1. Opt!ClockEffect /\ AskedBlock' = AskedBlock
    BY <1>15 DEF Tick, taskVars, AskedBlock
  <2>2. CASE \E b \in OptionalNames : retired[b] /\ age[b] < RetryAfter
    BY <2>1, <2>2 DEF Opt!Tick, Opt!Next
  <2>3. CASE ~\E b \in OptionalNames : retired[b] /\ age[b] < RetryAfter
    <3>1. age' = age
      BY <2>1, <2>3 DEF Opt!ClockEffect, IInv, TypeOK, TypeBlocks
    <3> QED BY <2>1, <3>1 DEF Opt!ClockEffect, Opt!optVars
  <2> QED BY <2>2, <2>3
<1> QED
  BY <1>1, <1>2, <1>4, <1>5, <1>6, <1>9, <1>10, <1>11, <1>12, <1>13, <1>14, <1>15 DEF Next, PollStep

(* The coordinator implements the skip-list's protocol: a verdict is recorded only
   for the block that was asked for, and once (coordinator.py:196-214). *)
THEOREM SkipListUsed == Spec => UsesSkipList
<1> QED BY InitIInv, StepIInv, SkipListInit, SkipListStep, PTL DEF Spec, UsesSkipList, Opt!Spec
=============================================================================
