------------------------- MODULE ControlEntitiesProofs -------------------------
(***************************************************************************)
(* Coordinator implements SerialControl, with and without the entities in     *)
(* front of it, and a limit fits the mode it was offered for: for any number   *)
(* of polls and callers, any requests and any nameplates.                      *)
(***************************************************************************)
EXTENDS ControlEntities, CoordinatorProofs

(* Every command there may be, and the writes that it stands for. *)
Commands ==
  [method : {"set_battery_power"} \cup DOMAIN Serial!RegisterOf, value : Int]
    \cup [method : {"restore"}, value : {RestoreMode}]

WritesOf(command) ==
  IF command.method = "set_battery_power"
  THEN <<Put("mode", VPP), Put("setpoint", command.value)>>
  ELSE IF command.method = "restore" THEN RestoreWrites
  ELSE <<Put(Serial!RegisterOf[command.method], command.value)>>

(* A caller that has not returned carries out the command it was noted with. *)
CommandInv ==
  /\ called \in [Callers -> Commands \cup {Nothing}]
  /\ \A c \in Callers : IF pc[c] = "idle" THEN called[c] = Nothing
                        ELSE called[c] \in Commands /\ prog[c] = WritesOf(called[c])

(* The registers after the first n writes of a list; no list is longer than two. *)
Written(r, write) == [r EXCEPT ![write.reg] = write.val]

AfterWrites(r, writes, n) ==
  IF n = 0 THEN r
  ELSE IF n = 1 THEN Written(r, writes[1])
  ELSE Written(Written(r, writes[1]), writes[2])

(* The app may have taken the mode since. *)
ModeTaken(r) == {r} \cup Serial!Taken(r)

Accepted(c) == IF at[c] = 0 THEN 0 ELSE at[c] - 1

(* What the holder of the lock has done since before is its writes so far. *)
CallSoFar ==
  \A c \in Callers : lock = c =>
    /\ before \in [Registers -> Int]
    /\ regs \in ModeTaken(AfterWrites(before, prog[c], Accepted(c)))

RInv == IInv /\ SetpointInv /\ CommandInv /\ CallSoFar

-----------------------------------------------------------------------------
(* Lemmas about commands and their writes                                    *)

LEMMA TwoWrites ==
  ASSUME NEW x, NEW y
  PROVE  Len(<<x, y>>) = 2 /\ <<x, y>>[1] = x /\ <<x, y>>[2] = y /\ Len(<<x>>) = 1 /\ <<x>>[1] = x
  OBVIOUS

LEMMA RegisterTypes ==
  /\ \A name \in DOMAIN Serial!RegisterOf :
        Serial!RegisterOf[name] \in Registers \ {"setpoint"} /\ name \notin {"set_battery_power", "restore", "none"}
  /\ DOMAIN Serial!RegisterOf =
       {"set_work_mode", "set_export_limit_mode", "set_export_limit_value",
        "set_import_limit_mode", "set_import_limit_value", "set_watchdog"}
  BY DEF Serial!RegisterOf, Registers

LEMMA NothingIsNoCommand == Nothing \notin Commands
  BY RegisterTypes DEF Nothing, Commands

LEMMA CommandCases ==
  ASSUME NEW command \in Commands
  PROVE  \/ command.method = "set_battery_power" /\ command.value \in Int
         \/ command.method = "restore" /\ command.value = RestoreMode
         \/ /\ command.method \in DOMAIN Serial!RegisterOf
            /\ command.method \notin {"set_battery_power", "restore"} /\ command.value \in Int
  BY RegisterTypes DEF Commands

(* The writes of a command are well typed, and one or two. *)
LEMMA WritesFacts ==
  ASSUME NEW command \in Commands
  PROVE  /\ Len(WritesOf(command)) \in {1, 2}
         /\ \A i \in 1..Len(WritesOf(command)) : WritesOf(command)[i] \in Writes
<1> USE CoordinatorAssumption
<1>1. CASE command.method = "set_battery_power" /\ command.value \in Int
  <2>1. Put("mode", VPP) \in Writes /\ Put("setpoint", command.value) \in Writes
    BY <1>1 DEF Put, Writes, Registers, VPP
  <2>2. WritesOf(command) = <<Put("mode", VPP), Put("setpoint", command.value)>>
    BY <1>1 DEF WritesOf
  <2> QED BY <2>1, <2>2, TwoWrites
<1>2. CASE command.method = "restore"
  <2>1. Put("setpoint", 0) \in Writes /\ Put("mode", RestoreMode) \in Writes
    BY DEF Put, Writes, Registers
  <2>2. WritesOf(command) = <<Put("setpoint", 0), Put("mode", RestoreMode)>>
    BY <1>2 DEF WritesOf, RestoreWrites
  <2> QED BY <2>1, <2>2, TwoWrites
<1>3. CASE /\ command.method \in DOMAIN Serial!RegisterOf /\ command.value \in Int
           /\ command.method \notin {"set_battery_power", "restore"}
  <2>1. Put(Serial!RegisterOf[command.method], command.value) \in Writes
    BY <1>3, RegisterTypes DEF Put, Writes
  <2>2. WritesOf(command) = <<Put(Serial!RegisterOf[command.method], command.value)>>
    BY <1>3 DEF WritesOf
  <2> QED BY <2>1, <2>2, TwoWrites
<1> QED BY <1>1, <1>2, <1>3, CommandCases

(* Clamping to the last published nameplate is what the specification says. *)
LEMMA ClampIsWithin ==
  ASSUME TypePolls, NEW w \in Int
  PROVE  Clamp(w) = Serial!Within(w) /\ Clamp(w) \in Int
  BY DEF TypePolls, Clamp, Serial!Within

LEMMA WrittenType ==
  ASSUME NEW r \in [Registers -> Int], NEW x \in Writes
  PROVE  Written(r, x) \in [Registers -> Int]
  BY DEF Written, Writes

(* Its first n writes are a part of what the command is specified to do, all of
   them the whole of it: its own registers, with its own values. *)
LEMMA EffectReached ==
  ASSUME NEW r \in [Registers -> Int], NEW command \in Commands, NEW n \in 0..Len(WritesOf(command))
  PROVE  /\ AfterWrites(r, WritesOf(command), n) \in Serial!Partly(command, r)
         /\ n = Len(WritesOf(command)) =>
              AfterWrites(r, WritesOf(command), n) = Serial!Whole(command, r)
<1> DEFINE writes == WritesOf(command)
<1>0. Len(writes) \in {1, 2}
  BY WritesFacts
<1>1. ASSUME n = 0 PROVE AfterWrites(r, writes, n) \in Serial!Partly(command, r)
  BY <1>1 DEF AfterWrites, Serial!Partly
<1>2. CASE command.method = "set_battery_power"
  <2>1. writes = <<Put("mode", VPP), Put("setpoint", command.value)>>
    BY <1>2 DEF WritesOf
  <2> HIDE DEF writes
  <2>2. Len(writes) = 2 /\ writes[1] = Put("mode", VPP) /\ writes[2] = Put("setpoint", command.value)
    BY <2>1, TwoWrites
  <2>3. Written(r, writes[1]) = [r EXCEPT !["mode"] = VPP]
    BY <2>2 DEF Written, Put
  <2>4. Written(Written(r, writes[1]), writes[2]) = [r EXCEPT !["mode"] = VPP, !["setpoint"] = command.value]
    BY <2>2, <2>3 DEF Written, Put
  <2>5. Serial!Half(command, r) = Written(r, writes[1])
    BY <1>2, <2>3 DEF Serial!Half
  <2>6. Serial!Whole(command, r) = Written(Written(r, writes[1]), writes[2])
    BY <1>2, <2>4 DEF Serial!Whole
  <2>7. AfterWrites(r, writes, 1) = Serial!Half(command, r) /\ AfterWrites(r, writes, 2) = Serial!Whole(command, r)
    BY <2>5, <2>6 DEF AfterWrites
  <2>8. n \in {0, 1, 2} /\ writes = WritesOf(command)
    BY <2>2 DEF writes
  <2> QED BY <1>1, <2>2, <2>7, <2>8 DEF Serial!Partly
<1>3. CASE command.method = "restore"
  <2>1. writes[1] = Put("setpoint", 0) /\ writes[2] = Put("mode", RestoreMode) /\ Len(writes) = 2
    BY <1>3 DEF WritesOf, RestoreWrites
  <2> HIDE DEF writes
  <2>2. Written(r, writes[1]) = [r EXCEPT !["setpoint"] = 0]
    BY <2>1 DEF Written, Put
  <2>3. Written(Written(r, writes[1]), writes[2]) = [r EXCEPT !["setpoint"] = 0, !["mode"] = RestoreMode]
    BY <2>1, <2>2 DEF Written, Put
  <2>4. command.value = RestoreMode
    BY <1>3, CommandCases
  <2>5. Serial!Half(command, r) = Written(r, writes[1])
    BY <1>3, <2>2 DEF Serial!Half
  <2>6. Serial!Whole(command, r) = Written(Written(r, writes[1]), writes[2])
    BY <1>3, <2>3, <2>4 DEF Serial!Whole
  <2>7. AfterWrites(r, writes, 1) = Serial!Half(command, r) /\ AfterWrites(r, writes, 2) = Serial!Whole(command, r)
    BY <2>5, <2>6 DEF AfterWrites
  <2>8. n \in {0, 1, 2} /\ writes = WritesOf(command)
    BY <2>1 DEF writes
  <2> QED BY <1>1, <2>1, <2>7, <2>8 DEF Serial!Partly
<1>4. CASE command.method \notin {"set_battery_power", "restore"}
  <2>1. writes = <<Put(Serial!RegisterOf[command.method], command.value)>>
    BY <1>4 DEF WritesOf
  <2> HIDE DEF writes
  <2>2. Len(writes) = 1 /\ writes[1] = Put(Serial!RegisterOf[command.method], command.value)
    BY <2>1, TwoWrites
  <2>3. Serial!Whole(command, r) = [r EXCEPT ![Serial!RegisterOf[command.method]] = command.value]
    BY <1>4 DEF Serial!Whole
  <2>4. AfterWrites(r, writes, 1) = Serial!Whole(command, r)
    BY <2>2, <2>3 DEF AfterWrites, Written, Put
  <2>5. n \in {0, 1} /\ writes = WritesOf(command)
    BY <2>2 DEF writes
  <2> QED BY <1>1, <2>2, <2>4, <2>5 DEF Serial!Partly
<1> QED BY <1>2, <1>3, <1>4

(* One more write, over a mode that the app may have taken. *)
LEMMA WriteOverTakenMode ==
  ASSUME NEW r \in [Registers -> Int], NEW s \in ModeTaken(r), NEW x \in Writes
  PROVE  Written(s, x) \in ModeTaken(Written(r, x))
<1>1. CASE s = r
  BY <1>1 DEF ModeTaken
<1>2. ASSUME NEW m \in OtherModes, s = [r EXCEPT !["mode"] = m]
      PROVE  Written(s, x) \in ModeTaken(Written(r, x))
  <2>1. CASE x.reg = "mode"
    <3>1. Written(s, x) = Written(r, x)
      BY <1>2, <2>1 DEF Written, Registers
    <3> QED BY <3>1 DEF ModeTaken
  <2>2. CASE x.reg # "mode"
    <3>1. Written(s, x) = [Written(r, x) EXCEPT !["mode"] = m]
      BY <1>2, <2>2 DEF Written
    <3> QED BY <3>1 DEF ModeTaken, Serial!Taken
  <2> QED BY <2>1, <2>2
<1> QED BY <1>1, <1>2 DEF ModeTaken, Serial!Taken

-----------------------------------------------------------------------------
(* Every call in progress is one of the commands.                            *)

(* A caller goes from idle to the lock's door, and keeps its writes till it is idle again. *)
LEMMA CallerKeepsItsCall ==
  ASSUME IInv, Next, NEW c \in Callers, pc'[c] # "idle"
  PROVE  Begins(c) \/ (pc[c] # "idle" /\ prog'[c] = prog[c])
<1> DEFINE Goal == Begins(c) \/ (pc[c] # "idle" /\ prog'[c] = prog[c])
<1> USE CoordinatorAssumption DEF Tasks
<1>0. /\ pc \in [Tasks -> {"idle", "wait", "held", "asked"}] /\ prog \in [Callers -> Seq(Writes)]
      /\ NoTask \notin Tasks /\ Polls \cap Callers = {} /\ (pc[c] \in {"held", "asked"} <=> lock = c)
  BY DEF IInv, TypeOK, TypeTasks, TypeCalls, LockDiscipline
<1>2. ASSUME NEW t \in Tasks, NEW v, pc' = [pc EXCEPT ![t] = v], prog' = prog \/ Forget(t),
             pc[t] # "idle", v = "idle" \/ prog' = prog
      PROVE  Goal
  <2>1. CASE t = c
    BY <1>0, <1>2, <2>1
  <2>2. CASE t # c
    BY <1>0, <1>2, <2>2 DEF Forget
  <2> QED BY <2>1, <2>2
<1>3. ASSUME NEW t \in Tasks, lock = t, NEW r, Leave(t, r), prog' = prog \/ Forget(t) PROVE Goal
  <2>1. pc[t] # "idle"
    BY <1>3 DEF IInv, LockDiscipline
  <2> QED BY <1>2, <1>3, <2>1 DEF Leave
<1>4. ASSUME NEW t \in Tasks, lock = t, Advance(t), prog' = prog PROVE Goal
  <2>1. pc[t] # "idle"
    BY <1>4 DEF IInv, LockDiscipline
  <2> QED BY <1>2, <1>4, <2>1 DEF Advance
<1>5. ASSUME NEW d \in Callers, NEW writes, Submit(d, writes) PROVE Goal
  <2>1. CASE d = c
    BY <1>0, <1>5, <2>1 DEF Submit, Begins
  <2>2. CASE d # c
    BY <1>0, <1>5, <2>2 DEF Submit
  <2> QED BY <2>1, <2>2
<1>6. ASSUME NEW p \in Polls, StartPoll(p) \/ PollStep(p) PROVE Goal
  <2>1. CASE StartPoll(p)
    BY <1>0, <2>1 DEF StartPoll
  <2>2. CASE AskBlock(p)
    <3>1. pc[p] # "idle" /\ p \in Tasks /\ pc' = [pc EXCEPT ![p] = "asked"] /\ prog' = prog
      BY <2>2 DEF AskBlock, Holds
    <3> QED BY <1>2, <3>1
  <2>3. CASE ReadRequired(p) \/ Publish(p)
    <3>1. lock = p /\ p \in Tasks
      BY <2>3 DEF ReadRequired, Publish, Holds
    <3>2. (Advance(p) /\ prog' = prog) \/ (Forget(p) /\ \E r : Leave(p, r))
      BY <2>3 DEF ReadRequired, Publish
    <3> QED BY <1>3, <1>4, <3>1, <3>2
  <2>4. CASE \/ SkipProbe(p) \/ ProbeSerial(p) \/ SkipBlock(p)
             \/ BlockAnswered(p) \/ BlockTimedOut(p) \/ BlockEmpty(p)
    <3>1. lock = p /\ p \in Tasks /\ Advance(p) /\ prog' = prog
      BY <2>4 DEF SkipProbe, ProbeSerial, SkipBlock, BlockAnswered, BlockTimedOut, BlockEmpty, Holds
    <3> QED BY <1>4, <3>1
  <2> QED BY <1>6, <2>1, <2>2, <2>3, <2>4 DEF PollStep
<1>7. ASSUME NEW d \in Callers, CallStep(d) PROVE Goal
  <2>1. lock = d /\ d \in Tasks
    BY <1>7 DEF CallStep, WriteAccepted, WriteFailed, Holds
  <2>2. (Advance(d) /\ prog' = prog) \/ (Forget(d) /\ \E r : Leave(d, r))
    BY <1>7 DEF CallStep, WriteAccepted, WriteFailed
  <2> QED BY <1>3, <1>4, <2>1, <2>2
<1>8. ASSUME NEW t \in Tasks, Acquire(t) PROVE Goal
  BY <1>2, <1>8 DEF Acquire
<1>9. ASSUME NEW t \in Tasks, EnsureConnected(t) \/ CancelRunning(t) PROVE Goal
  <2>1. lock = t
    BY <1>9 DEF EnsureConnected, AlreadyConnected, Connect, CannotConnect, CancelRunning, Holds
  <2>2. (Advance(t) /\ prog' = prog) \/ (Forget(t) /\ \E r : Leave(t, r))
    BY <1>9 DEF EnsureConnected, AlreadyConnected, Connect, CannotConnect, CancelRunning
  <2> QED BY <1>3, <1>4, <2>1, <2>2
<1>10. ASSUME NEW t \in Tasks, CancelWaiting(t) PROVE Goal
  BY <1>2, <1>10 DEF CancelWaiting
<1>11. CASE Unload \/ Elsewhere \/ Heal \/ Tick
  <2>1. pc' = pc /\ prog' = prog
    BY <1>11 DEF Unload, Elsewhere, Heal, Tick, taskVars
  <2> QED BY <1>0, <2>1
<1>12. ASSUME NEW d \in Callers, Call(d) PROVE \E writes : Submit(d, writes)
  BY <1>12 DEF Call, SetBatteryPower, SetWorkMode, Engage, Restore, SetExportLimitMode,
     SetExportLimitValue, SetImportLimitMode, SetImportLimitValue, SetWatchdog
<1> HIDE DEF Goal
<1> QED BY <1>5, <1>6, <1>7, <1>8, <1>9, <1>10, <1>11, <1>12 DEF Next, Goal

(* What is noted is what the specification lets a caller ask for, and the call
   carries it out. *)
LEMMA PlacedListed ==
  ASSUME TypePolls, NEW c \in Callers, Placed(c)
  PROVE  \E command \in Commands \cap Serial!Requests :
           Submit(c, WritesOf(command)) /\ called' = [called EXCEPT ![c] = command]
<1> USE CoordinatorAssumption, RegisterTypes
<1> DEFINE Goal == \E command \in Commands \cap Serial!Requests :
                     Submit(c, WritesOf(command)) /\ called' = [called EXCEPT ![c] = command]
<1>1. ASSUME NEW w \in PowerRequests, SetBatteryPower(c, w), Noted(c, "set_battery_power", Serial!Within(w))
      PROVE  Goal
  <2> DEFINE command == [method |-> "set_battery_power", value |-> Serial!Within(w)]
  <2>1. Clamp(w) = Serial!Within(w) /\ Clamp(w) \in Int
    BY ClampIsWithin
  <2>2. WritesOf(command) = <<Put("mode", VPP), Put("setpoint", Clamp(w))>>
    BY <2>1 DEF WritesOf
  <2>3. command \in Commands
    BY <2>1 DEF Commands
  <2>4. command \in Serial!Requests
    BY DEF Serial!Requests
  <2> QED BY <1>1, <2>2, <2>3, <2>4 DEF SetBatteryPower, Noted
<1>2. ASSUME Restore(c), Noted(c, "restore", RestoreMode) PROVE Goal
  <2> DEFINE command == [method |-> "restore", value |-> RestoreMode]
  <2>1. command \in Commands /\ command \in Serial!Requests /\ WritesOf(command) = RestoreWrites
    BY DEF Commands, Serial!Requests, WritesOf
  <2> QED BY <1>2, <2>1 DEF Restore, Noted
<1>3. ASSUME NEW name \in DOMAIN Serial!RegisterOf, NEW v \in Int, Noted(c, name, v),
             Submit(c, <<Put(Serial!RegisterOf[name], v)>>),
             [method |-> name, value |-> v] \in Serial!Requests
      PROVE  Goal
  <2> DEFINE command == [method |-> name, value |-> v]
  <2>1. command \in Commands
    BY DEF Commands
  <2>2. WritesOf(command) = <<Put(Serial!RegisterOf[name], v)>>
    BY DEF WritesOf
  <2> QED BY <1>3, <2>1, <2>2 DEF Noted
<1>4. ASSUME NEW m \in ModeRequests \cup {VPP}, SetWorkMode(c, m), Noted(c, "set_work_mode", m) PROVE Goal
  <2>1. Serial!RegisterOf["set_work_mode"] = "mode" /\ m \in Int
    BY DEF Serial!RegisterOf, VPP
  <2>2. [method |-> "set_work_mode", value |-> m] \in Serial!Requests
    BY DEF Serial!Requests
  <2> QED BY <1>3, <1>4, <2>1, <2>2 DEF SetWorkMode
<1>5. ASSUME NEW m \in LimitModes,
             \/ SetExportLimitMode(c, m) /\ Noted(c, "set_export_limit_mode", m)
             \/ SetImportLimitMode(c, m) /\ Noted(c, "set_import_limit_mode", m)
      PROVE  Goal
  <2>1. /\ Serial!RegisterOf["set_export_limit_mode"] = "exportMode"
        /\ Serial!RegisterOf["set_import_limit_mode"] = "importMode" /\ m \in Int
    BY DEF Serial!RegisterOf
  <2>2. /\ [method |-> "set_export_limit_mode", value |-> m] \in Serial!Requests
        /\ [method |-> "set_import_limit_mode", value |-> m] \in Serial!Requests
    BY DEF Serial!Requests
  <2> QED BY <1>3, <1>5, <2>1, <2>2 DEF SetExportLimitMode, SetImportLimitMode
<1>6. ASSUME NEW v \in LimitValues,
             \/ SetExportLimitValue(c, v) /\ Noted(c, "set_export_limit_value", v)
             \/ SetImportLimitValue(c, v) /\ Noted(c, "set_import_limit_value", v)
      PROVE  Goal
  <2>1. /\ Serial!RegisterOf["set_export_limit_value"] = "exportValue"
        /\ Serial!RegisterOf["set_import_limit_value"] = "importValue" /\ v \in Int
    BY DEF Serial!RegisterOf
  <2>2. /\ [method |-> "set_export_limit_value", value |-> v] \in Serial!Requests
        /\ [method |-> "set_import_limit_value", value |-> v] \in Serial!Requests
    BY DEF Serial!Requests
  <2> QED BY <1>3, <1>6, <2>1, <2>2 DEF SetExportLimitValue, SetImportLimitValue
<1>7. ASSUME NEW n \in WatchdogRequests, SetWatchdog(c, n), Noted(c, "set_watchdog", n) PROVE Goal
  <2>1. Serial!RegisterOf["set_watchdog"] = "watchdog" /\ n \in Int
    BY DEF Serial!RegisterOf
  <2>2. [method |-> "set_watchdog", value |-> n] \in Serial!Requests
    BY <1>7 DEF Serial!Requests, SetWatchdog
  <2> QED BY <1>3, <1>7, <2>1, <2>2 DEF SetWatchdog
<1> HIDE DEF Goal
<1>8. Goal
  BY <1>1, <1>2, <1>4, <1>5, <1>6, <1>7 DEF Placed, Engage
<1> QED BY <1>8 DEF Goal

LEMMA CommandStep == IInv /\ CommandInv /\ [HNext]_hvars => CommandInv'
<1> SUFFICES ASSUME IInv, CommandInv, [HNext]_hvars PROVE CommandInv'
    OBVIOUS
<1>0. /\ TypePolls /\ called \in [Callers -> Commands \cup {Nothing}]
      /\ pc \in [Tasks -> {"idle", "wait", "held", "asked"}] /\ prog \in [Callers -> Seq(Writes)]
  BY DEF IInv, TypeOK, TypeTasks, TypeCalls, CommandInv
<1>1. ASSUME NEW c \in Callers, Begins(c), Placed(c) PROVE CommandInv'
  <2>1. PICK command \in Commands : Submit(c, WritesOf(command)) /\ called' = [called EXCEPT ![c] = command]
    BY <1>0, <1>1, PlacedListed
  <2>2. pc' = [pc EXCEPT ![c] = "wait"] /\ prog' = [prog EXCEPT ![c] = WritesOf(command)]
    BY <2>1 DEF Submit
  <2>3. called' \in [Callers -> Commands \cup {Nothing}]
    BY <1>0, <2>1
  <2>4. ASSUME NEW d \in Callers
        PROVE  IF pc'[d] = "idle" THEN called'[d] = Nothing
               ELSE called'[d] \in Commands /\ prog'[d] = WritesOf(called'[d])
    <3>1. CASE d = c
      BY <1>0, <2>1, <2>2, <3>1 DEF Tasks
    <3>2. CASE d # c
      BY <1>0, <2>1, <2>2, <3>2 DEF Tasks, CommandInv
    <3> QED BY <3>1, <3>2
  <2> QED BY <2>3, <2>4 DEF CommandInv
<1>2. CASE Next /\ (\A c \in Callers : ~Begins(c))
           /\ called' = [c \in Callers |-> IF pc'[c] = "idle" THEN Nothing ELSE called[c]]
  <2>1. ASSUME NEW d \in Callers, pc'[d] # "idle" PROVE called'[d] \in Commands /\ prog'[d] = WritesOf(called'[d])
    <3>1. pc[d] # "idle" /\ prog'[d] = prog[d]
      BY <1>2, <2>1, CallerKeepsItsCall
    <3> QED BY <1>2, <2>1, <3>1 DEF CommandInv
  <2>2. called' \in [Callers -> Commands \cup {Nothing}]
    BY <1>0, <1>2
  <2> QED BY <1>2, <2>1, <2>2 DEF CommandInv
<1>3. CASE UNCHANGED hvars
  BY <1>3 DEF hvars, vars, taskVars, CommandInv
<1> QED BY <1>1, <1>2, <1>3 DEF HNext

(* The note of a call stands until it returns. *)
LEMMA CalledKept ==
  ASSUME IInv, CommandInv, HNext, NEW t \in Tasks, NEW v, pc' = [pc EXCEPT ![t] = v],
         t \in Polls \/ (pc[t] # "idle" /\ v # "idle")
  PROVE  called' = called
<1>0. /\ called \in [Callers -> Commands \cup {Nothing}] /\ Polls \cap Callers = {}
      /\ pc \in [Tasks -> {"idle", "wait", "held", "asked"}] /\ Callers \subseteq Tasks
  BY CoordinatorAssumption DEF IInv, TypeOK, TypeTasks, CommandInv, Tasks
<1>1. \A c \in Callers : ~Begins(c) /\ (pc'[c] = "idle" => pc[c] = "idle")
  BY <1>0 DEF Begins
<1>2. called' = [c \in Callers |-> IF pc'[c] = "idle" THEN Nothing ELSE called[c]]
  BY <1>1 DEF HNext
<1>3. \A c \in Callers : pc[c] = "idle" => called[c] = Nothing
  BY DEF CommandInv
<1> QED BY <1>0, <1>1, <1>2, <1>3

LEMMA CalledStays ==
  ASSUME IInv, CommandInv, HNext, pc' = pc
  PROVE  called' = called
<1>0. called \in [Callers -> Commands \cup {Nothing}]
  BY DEF CommandInv
<1>1. \A c \in Callers : ~Begins(c)
  BY DEF Begins
<1>2. called' = [c \in Callers |-> IF pc'[c] = "idle" THEN Nothing ELSE called[c]]
  BY <1>1 DEF HNext
<1>3. \A c \in Callers : pc[c] = "idle" => called[c] = Nothing
  BY DEF CommandInv
<1> QED BY <1>0, <1>2, <1>3

LEMMA CalledDone ==
  ASSUME IInv, CommandInv, HNext, NEW c \in Callers, pc' = [pc EXCEPT ![c] = "idle"]
  PROVE  called' = [called EXCEPT ![c] = Nothing]
<1>0. /\ called \in [Callers -> Commands \cup {Nothing}] /\ Callers \subseteq Tasks
      /\ pc \in [Tasks -> {"idle", "wait", "held", "asked"}]
  BY DEF IInv, TypeOK, TypeTasks, CommandInv, Tasks
<1>1. \A d \in Callers : ~Begins(d) /\ (d # c => pc'[d] = pc[d])
  BY <1>0 DEF Begins
<1>2. called' = [d \in Callers |-> IF pc'[d] = "idle" THEN Nothing ELSE called[d]]
  BY <1>1 DEF HNext
<1>3. \A d \in Callers : pc[d] = "idle" => called[d] = Nothing
  BY DEF CommandInv
<1> QED BY <1>0, <1>1, <1>2, <1>3

-----------------------------------------------------------------------------
(* The holder's writes so far account for what the inverter holds.            *)

LEMMA AfterOneMore ==
  ASSUME NEW r \in [Registers -> Int], NEW command \in Commands, NEW n \in 1..Len(WritesOf(command))
  PROVE  /\ AfterWrites(r, WritesOf(command), n - 1) \in [Registers -> Int]
         /\ AfterWrites(r, WritesOf(command), n)
              = Written(AfterWrites(r, WritesOf(command), n - 1), WritesOf(command)[n])
<1> DEFINE writes == WritesOf(command)
<1>1. n \in {1, 2} /\ writes[1] \in Writes /\ (n = 2 => writes[2] \in Writes)
  BY WritesFacts
<1> HIDE DEF writes
<1>2. AfterWrites(r, writes, n - 1) \in [Registers -> Int]
  BY <1>1, WrittenType DEF AfterWrites
<1>3. AfterWrites(r, writes, n) = Written(AfterWrites(r, writes, n - 1), writes[n])
  BY <1>1 DEF AfterWrites
<1> QED BY <1>2, <1>3 DEF writes

(* The write that the holder is at, if it reaches the inverter. *)
LEMMA NextWrite ==
  ASSUME IInv, CommandInv, CallSoFar, NEW c \in Callers, lock = c, at[c] \in 1..Len(prog[c])
  PROVE  /\ called[c] \in Commands /\ prog[c] = WritesOf(called[c]) /\ at[c] \in Nat \ {0}
         /\ Applied(c) \in ModeTaken(AfterWrites(before, prog[c], at[c]))
<1> DEFINE n == at[c]
           s == AfterWrites(before, prog[c], n - 1)
<1>1. pc[c] # "idle"
  BY DEF IInv, LockDiscipline, Tasks
<1>2. called[c] \in Commands /\ prog[c] = WritesOf(called[c])
  BY <1>1 DEF CommandInv
<1>3. Len(prog[c]) \in {1, 2} /\ n \in 1..Len(prog[c]) /\ prog[c][n] \in Writes
  BY <1>2, WritesFacts
<1>4. n \in Nat \ {0} /\ Accepted(c) = n - 1
  BY <1>3 DEF Accepted
<1>5. before \in [Registers -> Int] /\ regs \in ModeTaken(s)
  BY <1>4 DEF CallSoFar
<1>6. s \in [Registers -> Int] /\ AfterWrites(before, prog[c], n) = Written(s, prog[c][n])
  BY <1>2, <1>3, <1>5, AfterOneMore
<1>7. Applied(c) = Written(regs, prog[c][n])
  BY DEF Applied, Written
<1> HIDE DEF n, s
<1>8. Applied(c) \in ModeTaken(AfterWrites(before, prog[c], n))
  BY <1>3, <1>5, <1>6, <1>7, WriteOverTakenMode
<1> QED BY <1>2, <1>4, <1>8 DEF n

LEMMA SoFarPrimed ==
  CallSoFar' <=>
    \A c \in Callers : lock' = c =>
      /\ before' \in [Registers -> Int]
      /\ regs' \in ModeTaken(AfterWrites(before', prog'[c], IF at'[c] = 0 THEN 0 ELSE at'[c] - 1))
  BY DEF CallSoFar, ModeTaken, Serial!Taken, AfterWrites, Written, Accepted

(* A step that is not the holder's changes nothing of it. *)
LEMMA SoFarKept ==
  ASSUME CallSoFar, HNext, regs' = regs, lock' = lock \/ lock' \notin Callers,
         \A c \in Callers : lock = c /\ lock' = c =>
            prog'[c] = prog[c] /\ (at'[c] = at[c] \/ (at[c] = 0 /\ at'[c] = 1))
  PROVE  CallSoFar'
<1> SUFFICES ASSUME NEW c \in Callers, lock' = c
             PROVE  /\ before' \in [Registers -> Int]
                    /\ regs' \in ModeTaken(AfterWrites(before', prog'[c], IF at'[c] = 0 THEN 0 ELSE at'[c] - 1))
    BY SoFarPrimed
<1>1. lock = c /\ prog'[c] = prog[c] /\ before' = before
  BY DEF HNext
<1>2. (IF at'[c] = 0 THEN 0 ELSE at'[c] - 1) = Accepted(c)
  BY <1>1 DEF Accepted
<1> QED BY <1>1, <1>2 DEF CallSoFar

LEMMA SoFarFound ==
  ASSUME IInv, HNext, NEW t \in Tasks, Acquire(t)
  PROVE  CallSoFar'
<1> SUFFICES ASSUME NEW c \in Callers, lock' = c
             PROVE  /\ before' \in [Registers -> Int]
                    /\ regs' \in ModeTaken(AfterWrites(before', prog'[c], IF at'[c] = 0 THEN 0 ELSE at'[c] - 1))
    BY SoFarPrimed
<1>1. lock = NoTask /\ NoTask # c /\ at' = at /\ regs' = regs
  BY CoordinatorAssumption DEF Acquire, Tasks
<1>2. before' = regs
  BY <1>1 DEF HNext
<1>3. at'[c] = 0
  BY <1>1 DEF IInv, LockDiscipline, Tasks
<1>4. regs \in [Registers -> Int]
  BY DEF IInv, TypeOK, TypeCalls
<1> QED BY <1>1, <1>2, <1>3, <1>4 DEF AfterWrites, ModeTaken

LEMMA SoFarWritten ==
  ASSUME IInv, CommandInv, CallSoFar, HNext, NEW c \in Callers, WriteAccepted(c)
  PROVE  CallSoFar'
<1>1. CASE at[c] = Len(prog[c])
  <2>1. lock' \notin Callers
    BY <1>1, CoordinatorAssumption DEF WriteAccepted, Leave, Tasks
  <2> QED BY <2>1, SoFarPrimed
<1>2. CASE at[c] # Len(prog[c])
  <2>1. lock = c /\ at[c] \in 1..Len(prog[c]) /\ regs' = Applied(c) /\ prog' = prog
    BY <1>2 DEF WriteAccepted, Holds
  <2>2. lock' = c /\ at'[c] = at[c] + 1
    BY <1>2, <2>1 DEF WriteAccepted, Advance, IInv, TypeOK, TypeTasks, Tasks
  <2>3. before \in [Registers -> Int] /\ before' = before
    BY <2>1, <2>2 DEF CallSoFar, HNext
  <2>4. at[c] \in Nat \ {0} /\ regs' \in ModeTaken(AfterWrites(before, prog[c], at[c]))
    BY <2>1, NextWrite
  <2>5. (IF at'[c] = 0 THEN 0 ELSE at'[c] - 1) = at[c]
    BY <2>2, <2>4
  <2> QED BY <2>1, <2>2, <2>3, <2>4, <2>5, SoFarPrimed
<1> QED BY <1>1, <1>2

LEMMA SoFarOverridden ==
  ASSUME CallSoFar, HNext, Elsewhere
  PROVE  CallSoFar'
<1> SUFFICES ASSUME NEW c \in Callers, lock' = c
             PROVE  /\ before' \in [Registers -> Int]
                    /\ regs' \in ModeTaken(AfterWrites(before', prog'[c], IF at'[c] = 0 THEN 0 ELSE at'[c] - 1))
    BY SoFarPrimed
<1> DEFINE r == AfterWrites(before, prog[c], Accepted(c))
<1>1. PICK m \in OtherModes : regs' = [regs EXCEPT !["mode"] = m]
  BY DEF Elsewhere
<1>2. lock = c /\ prog' = prog /\ at' = at
  BY DEF Elsewhere, taskVars
<1>3. before \in [Registers -> Int] /\ regs \in ModeTaken(r) /\ before' = before
  BY <1>2 DEF CallSoFar, HNext
<1>4. AfterWrites(before', prog'[c], IF at'[c] = 0 THEN 0 ELSE at'[c] - 1) = r
  BY <1>2, <1>3 DEF Accepted
<1> HIDE DEF r
<1>5. regs' \in ModeTaken(r)
  BY <1>1, <1>3 DEF ModeTaken, Serial!Taken
<1> QED BY <1>3, <1>4, <1>5

LEMMA SoFarStep ==
  IInv /\ CommandInv /\ CallSoFar /\ [HNext]_hvars => CallSoFar'
<1> SUFFICES ASSUME IInv, CommandInv, CallSoFar, [HNext]_hvars PROVE CallSoFar'
    OBVIOUS
<1> USE CoordinatorAssumption DEF Tasks
<1>0. TypeTasks /\ NoTask \notin Tasks /\ Polls \cap Callers = {}
  BY DEF IInv, TypeOK
<1>1. ASSUME NEW t \in Tasks, NEW r, lock = t, Leave(t, r) PROVE CallSoFar'
  <2>1. lock' \notin Callers
    BY <1>1 DEF Leave
  <2> QED BY <2>1, SoFarPrimed
<1>2. ASSUME UNCHANGED <<lock, prog, at, regs>>, HNext PROVE CallSoFar'
  BY <1>2, SoFarKept
<1>4. ASSUME NEW p \in Polls, StartPoll(p) \/ PollStep(p), HNext PROVE CallSoFar'
  <2>1. lock' = lock \/ lock' \notin Callers
    BY <1>4 DEF StartPoll, PollStep, ReadRequired, SkipProbe, ProbeSerial, SkipBlock,
       AskBlock, BlockAnswered, BlockTimedOut, BlockEmpty, Publish, Leave, Advance
  <2>3. CASE lock \in Callers
    <3>1. StartPoll(p)
      BY <1>4, <2>3 DEF PollStep, ReadRequired, SkipProbe, ProbeSerial, SkipBlock,
         AskBlock, BlockAnswered, BlockTimedOut, BlockEmpty, Publish, Holds
    <3> QED BY <1>2, <1>4, <3>1 DEF StartPoll
  <2>4. CASE lock \notin Callers
    <3>1. lock' \notin Callers
      BY <2>1, <2>4
    <3> QED BY <3>1, SoFarPrimed
  <2> QED BY <2>3, <2>4
<1>5. ASSUME NEW c \in Callers, NEW writes, Submit(c, writes), HNext PROVE CallSoFar'
  <2>1. lock # c
    BY <1>5 DEF Submit, IInv, LockDiscipline
  <2>2. UNCHANGED <<lock, at, regs>>
    BY <1>5 DEF Submit
  <2>3. \A d \in Callers : lock = d => prog'[d] = prog[d]
    BY <1>5, <2>1 DEF Submit, IInv, TypeOK, TypeCalls
  <2> QED BY <1>5, <2>2, <2>3, SoFarKept
<1>6. ASSUME NEW c \in Callers, CallStep(c), HNext PROVE CallSoFar'
  <2>1. lock = c
    BY <1>6 DEF CallStep, WriteAccepted, WriteFailed, Holds
  <2>2. CASE WriteAccepted(c)
    BY <1>6, <2>2, SoFarWritten
  <2>3. CASE WriteFailed(c)
    BY <1>1, <2>1, <2>3 DEF WriteFailed
  <2> QED BY <1>6, <2>2, <2>3 DEF CallStep
<1>7. ASSUME NEW t \in Tasks, Acquire(t), HNext PROVE CallSoFar'
  BY <1>7, SoFarFound
<1>8. ASSUME NEW t \in Tasks, EnsureConnected(t), HNext PROVE CallSoFar'
  <2>1. lock = t /\ at[t] = 0 /\ regs' = regs
    BY <1>8 DEF EnsureConnected, AlreadyConnected, Connect, CannotConnect, Holds
  <2>2. CASE CannotConnect(t)
    BY <1>1, <2>1, <2>2 DEF CannotConnect
  <2>3. CASE AlreadyConnected(t) \/ Connect(t)
    <3>1. lock' = lock /\ prog' = prog /\ at'[t] = 1
      BY <1>0, <2>1, <2>3 DEF AlreadyConnected, Connect, Advance, TypeTasks
    <3> QED BY <1>8, <2>1, <3>1, SoFarKept
  <2> QED BY <1>8, <2>2, <2>3 DEF EnsureConnected
<1>9. ASSUME NEW t \in Tasks, CancelWaiting(t), HNext PROVE CallSoFar'
  <2>1. lock # t
    BY <1>9 DEF CancelWaiting, IInv, LockDiscipline
  <2>2. UNCHANGED <<lock, at, regs>>
    BY <1>9 DEF CancelWaiting
  <2>3. \A d \in Callers : lock = d => prog'[d] = prog[d]
    BY <1>9, <2>1 DEF CancelWaiting, Forget
  <2> QED BY <1>9, <2>2, <2>3, SoFarKept
<1>10. ASSUME NEW t \in Tasks, CancelRunning(t), HNext PROVE CallSoFar'
  BY <1>1, <1>10 DEF CancelRunning
<1>11. CASE HNext /\ (Unload \/ Heal \/ Tick)
  <2>1. UNCHANGED <<lock, prog, at, regs>>
    BY <1>11 DEF Unload, Heal, Tick, taskVars
  <2> QED BY <1>2, <1>11, <2>1
<1>12. CASE HNext /\ Elsewhere
  BY <1>12, SoFarOverridden
<1>13. CASE UNCHANGED hvars
  <2>1. UNCHANGED <<lock, prog, at, regs, before>>
    BY <1>13 DEF hvars, vars, taskVars
  <2> QED BY <2>1, SoFarPrimed DEF CallSoFar, Accepted
<1>14. ASSUME NEW c \in Callers, Call(c) PROVE \E writes : Submit(c, writes)
  BY <1>14 DEF Call, SetBatteryPower, SetWorkMode, Engage, Restore, SetExportLimitMode,
     SetExportLimitValue, SetImportLimitMode, SetImportLimitValue, SetWatchdog
<1> QED
  BY <1>4, <1>5, <1>6, <1>7, <1>8, <1>9, <1>10, <1>11, <1>12, <1>13, <1>14 DEF HNext, Next

-----------------------------------------------------------------------------
(* Every step is one of SerialControl's, or none.                             *)

LEMMA SerialQuiet ==
  ASSUME HNext, lock' = lock, lock \in Callers \/ regs' = regs,
         UNCHANGED <<data, bounds, ended, called>>,
         lock \in Polls => frame'[lock].regs = frame[lock].regs
  PROVE  UNCHANGED Serial!serialVars
<1>1. lock \in Callers => before' = before
  BY DEF HNext
<1> QED BY <1>1 DEF Serial!serialVars

LEMMA CallEnds ==
  ASSUME NEW c \in Callers, lock = c, lock' = NoTask, UNCHANGED <<data, bounds>>,
         called[c] # Nothing, called' = [called EXCEPT ![c] = Nothing],
         NEW r, regs' \in ModeTaken(r)
  PROVE  /\ ended' = "ok" /\ r = Serial!Whole(called[c], before) => Serial!Succeed(c)
         /\ ended' \in {"failed", "cancelled"} /\ r \in Serial!Partly(called[c], before) => Serial!Fail(c)
<1>1. c \notin Polls /\ NoTask \notin Callers /\ NoTask \notin Polls
  BY CoordinatorAssumption DEF Tasks
<1>2. (IF lock \in Callers THEN before ELSE regs) = before
  OBVIOUS
<1>3. (IF lock \in Callers THEN before ELSE regs)' = regs'
  BY <1>1
<1>4. UNCHANGED <<IF lock \in Polls THEN frame[lock].regs ELSE NoRegs, data.regs, bounds>>
  BY <1>1
<1>5. regs' \in {r} \cup Serial!Taken(r)
  BY DEF ModeTaken
<1>6. ASSUME ended' = "ok", r = Serial!Whole(called[c], before) PROVE Serial!Succeed(c)
  BY <1>2, <1>3, <1>4, <1>5, <1>6 DEF Serial!Succeed
<1>7. ASSUME ended' \in {"failed", "cancelled"}, r \in Serial!Partly(called[c], before) PROVE Serial!Fail(c)
  BY <1>2, <1>3, <1>4, <1>5, <1>7 DEF Serial!Fail
<1> QED BY <1>6, <1>7

LEMMA HolderIsCalled ==
  ASSUME IInv, CommandInv, NEW c \in Callers, lock = c
  PROVE  called[c] \in Commands /\ called[c] # Nothing /\ prog[c] = WritesOf(called[c]) /\ pc[c] # "idle"
<1>1. pc[c] # "idle"
  BY DEF IInv, LockDiscipline, Tasks
<1> QED BY <1>1, NothingIsNoCommand DEF CommandInv

(* A call that returns made all its writes ... *)
LEMMA CallSucceeds ==
  ASSUME RInv, HNext, NEW c \in Callers, WriteAccepted(c), at[c] = Len(prog[c])
  PROVE  Serial!Succeed(c)
<1>0. IInv /\ CommandInv /\ CallSoFar
  BY DEF RInv
<1>1. /\ lock = c /\ at[c] \in 1..Len(prog[c]) /\ regs' = Applied(c) /\ UNCHANGED <<data, bounds>>
      /\ lock' = NoTask /\ ended' = "ok" /\ pc' = [pc EXCEPT ![c] = "idle"]
  BY DEF WriteAccepted, Holds, Leave
<1>2. called[c] \in Commands /\ called[c] # Nothing /\ prog[c] = WritesOf(called[c])
  BY <1>0, <1>1, HolderIsCalled
<1>3. called' = [called EXCEPT ![c] = Nothing]
  BY <1>0, <1>1, CalledDone
<1>4. regs' \in ModeTaken(AfterWrites(before, prog[c], at[c]))
  BY <1>0, <1>1, NextWrite
<1>5. before \in [Registers -> Int] /\ at[c] \in 0..Len(prog[c])
  BY <1>0, <1>1 DEF CallSoFar
<1>6. AfterWrites(before, prog[c], at[c]) = Serial!Whole(called[c], before)
  BY <1>2, <1>5, EffectReached
<1> QED BY <1>1, <1>2, <1>3, <1>4, <1>6, CallEnds

(* ... and one that raises none, some or all. *)
LEMMA CallFails ==
  ASSUME RInv, HNext, NEW c \in Callers, lock = c, NEW r \in {"failed", "cancelled"}, Leave(c, r),
         UNCHANGED <<data, bounds>>,
         \/ regs' = regs
         \/ at[c] \in 1..Len(prog[c]) /\ regs' = Applied(c)
  PROVE  Serial!Fail(c)
<1>0. IInv /\ CommandInv /\ CallSoFar
  BY DEF RInv
<1>1. lock' = NoTask /\ ended' \in {"failed", "cancelled"} /\ pc' = [pc EXCEPT ![c] = "idle"]
  BY DEF Leave
<1>2. called[c] \in Commands /\ called[c] # Nothing /\ prog[c] = WritesOf(called[c]) /\ pc[c] # "idle"
  BY <1>0, HolderIsCalled
<1>3. called' = [called EXCEPT ![c] = Nothing]
  BY <1>0, <1>1, CalledDone
<1>4. before \in [Registers -> Int] /\ regs \in ModeTaken(AfterWrites(before, prog[c], Accepted(c)))
  BY <1>0 DEF CallSoFar
<1>5. at[c] \in 0..Len(prog[c]) /\ Len(prog[c]) \in {1, 2}
  BY <1>0, <1>2, WritesFacts DEF IInv, LockDiscipline, TypeOK, TypeTasks, Tasks
<1>6. CASE regs' = regs
  <2>1. Accepted(c) \in 0..Len(prog[c])
    BY <1>5 DEF Accepted
  <2>2. AfterWrites(before, prog[c], Accepted(c)) \in Serial!Partly(called[c], before)
    BY <1>2, <1>4, <2>1, EffectReached
  <2> QED BY <1>1, <1>2, <1>3, <1>4, <1>6, <2>2, CallEnds
<1>7. CASE at[c] \in 1..Len(prog[c]) /\ regs' = Applied(c)
  <2>1. regs' \in ModeTaken(AfterWrites(before, prog[c], at[c]))
    BY <1>0, <1>7, NextWrite
  <2>2. AfterWrites(before, prog[c], at[c]) \in Serial!Partly(called[c], before)
    BY <1>2, <1>4, <1>5, EffectReached
  <2> QED BY <1>1, <1>2, <1>3, <2>1, <2>2, CallEnds
<1> QED BY <1>6, <1>7

LEMMA PollEnds ==
  ASSUME NEW p \in Polls, lock = p, NEW r \in {"failed", "cancelled"}, Leave(p, r),
         UNCHANGED <<regs, data, bounds, called>>
  PROVE  Serial!GiveUp
<1>1. p \notin Callers /\ NoTask \notin Callers /\ NoTask \notin Polls
  BY CoordinatorAssumption DEF Tasks
<1> QED BY <1>1 DEF Leave, Serial!GiveUp

LEMMA PollLooks ==
  ASSUME NEW p \in Polls, lock = p, lock' = p, UNCHANGED <<regs, data, bounds, ended, called>>,
         frame'[p].regs = regs
  PROVE  Serial!Look
<1>1. p \notin Callers
  BY CoordinatorAssumption
<1> QED BY <1>1 DEF Serial!Look

LEMMA PollPublishes ==
  ASSUME NEW p \in Polls, Publish(p), called' = called
  PROVE  Serial!Publish
<1>1. p \notin Callers /\ NoTask \notin Callers /\ NoTask \notin Polls
  BY CoordinatorAssumption DEF Tasks
<1>2. /\ lock = p /\ lock' = NoTask /\ ended' = "ok" /\ regs' = regs
      /\ data'.regs = frame[p].regs /\ bounds' \in Nameplates
  BY DEF Publish, Holds, Leave
<1> QED BY <1>1, <1>2 DEF Serial!Publish

LEMMA TurnComes ==
  ASSUME IInv, HNext, NEW t \in Tasks, Acquire(t), called' = called
  PROVE  Serial!Turn
<1> USE CoordinatorAssumption DEF Tasks
<1>1. /\ lock = NoTask /\ lock' = t /\ ended' = "none" /\ UNCHANGED <<regs, frame, data, bounds>>
      /\ NoTask \notin Callers /\ NoTask \notin Polls /\ Polls \cap Callers = {}
  BY DEF Acquire, pollVars
<1>2. t \in Callers => before' = regs
  BY <1>1 DEF HNext
<1>3. t \in Polls => frame[t].regs = NoRegs
  BY <1>1 DEF IInv, LockDiscipline, EmptyFrame
<1> QED BY <1>1, <1>2, <1>3 DEF Serial!Turn

LEMMA CallPlaced ==
  ASSUME IInv, CommandInv, HNext, NEW c \in Callers, Begins(c), Placed(c)
  PROVE  Serial!Place(c)
<1>1. PICK command \in Commands \cap Serial!Requests :
         Submit(c, WritesOf(command)) /\ called' = [called EXCEPT ![c] = command]
  BY PlacedListed DEF IInv, TypeOK
<1>2. called[c] = Nothing
  BY DEF Begins, CommandInv
<1>3. UNCHANGED <<lock, regs, frame, data, bounds, ended>>
  BY <1>1 DEF Submit, pollVars
<1>4. lock \in Callers => before' = before
  BY <1>3 DEF HNext
<1> QED BY <1>1, <1>2, <1>3, <1>4 DEF Serial!Place

LEMMA ModeTakenAway ==
  ASSUME HNext, Elsewhere, called' = called
  PROVE  Serial!Override \/ UNCHANGED Serial!serialVars
<1>1. UNCHANGED <<lock, frame, data, bounds, ended>>
  BY DEF Elsewhere, pollVars, taskVars
<1>2. CASE lock \in Callers
  BY <1>1, <1>2, SerialQuiet
<1>3. CASE lock \notin Callers
  <2>1. PICK m \in OtherModes : regs' = [regs EXCEPT !["mode"] = m]
    BY DEF Elsewhere
  <2>2. regs' \in Serial!Taken(regs)
    BY <2>1 DEF Serial!Taken
  <2>3. (IF lock \in Callers THEN before ELSE regs) = regs /\ (IF lock \in Callers THEN before ELSE regs)' = regs'
    BY <1>1, <1>3
  <2>4. UNCHANGED <<IF lock \in Polls THEN frame[lock].regs ELSE NoRegs, data.regs>>
    BY <1>1
  <2> QED BY <1>1, <2>2, <2>3, <2>4 DEF Serial!Override
<1> QED BY <1>2, <1>3

LEMMA SerialInit == HInit => Serial!Init
<1> SUFFICES ASSUME HInit PROVE Serial!Init
    OBVIOUS
<1>1. NoTask \notin Polls /\ NoTask \notin Callers /\ lock = NoTask
  BY CoordinatorAssumption DEF HInit, Init, Tasks
<1>2. regs \in [Registers -> Int] /\ bounds \in [charge : Nat, discharge : Nat]
  BY InitIInv DEF HInit, IInv, TypeOK, TypeCalls, TypePolls
<1>3. data.regs = NoRegs /\ ended = "none" /\ called = [c \in Callers |-> Nothing]
  BY DEF HInit, Init, NoData
<1> QED BY <1>1, <1>2, <1>3 DEF Serial!Init

LEMMA SerialStep == RInv /\ [HNext]_hvars => [Serial!Next]_Serial!serialVars
<1> DEFINE Maps == Serial!Next \/ UNCHANGED Serial!serialVars
<1> SUFFICES ASSUME RInv, [HNext]_hvars PROVE Maps
    OBVIOUS
<1> USE CoordinatorAssumption DEF Tasks
<1>0. /\ NoTask \notin Tasks /\ Polls \cap Callers = {}
      /\ IInv /\ CommandInv /\ TypeTasks /\ frame \in [Polls -> Frames]
  BY DEF RInv, IInv, TypeOK, TypePolls
<1>1. ASSUME NEW p \in Polls, StartPoll(p), HNext PROVE Maps
  <2>1. pc' = [pc EXCEPT ![p] = "wait"] /\ UNCHANGED <<lock, regs, frame, data, bounds, ended>>
    BY <1>1 DEF StartPoll, pollVars
  <2>2. called' = called
    BY <1>0, <1>1, <2>1, CalledKept
  <2> QED BY <1>1, <2>1, <2>2, SerialQuiet
<1>2. ASSUME NEW p \in Polls, lock = p, Advance(p) \/ \E r : Leave(p, r), HNext PROVE called' = called
  <2>1. \E v : pc' = [pc EXCEPT ![p] = v]
    BY <1>2 DEF Advance, Leave
  <2> QED BY <1>0, <1>2, <2>1, CalledKept
<1>3. ASSUME NEW p \in Polls, ReadRequired(p), HNext PROVE Maps
  <2>1. lock = p /\ UNCHANGED <<regs, data, bounds>>
    BY <1>3 DEF ReadRequired, Holds
  <2>2. called' = called
    BY <1>2, <1>3, <2>1 DEF ReadRequired
  <2>3. CASE Leave(p, "failed")
    BY <2>1, <2>2, <2>3, PollEnds DEF Serial!Next
  <2>4. CASE Advance(p) /\ frame' = [frame EXCEPT ![p].regs = regs]
    <3>1. lock' = p /\ frame'[p].regs = regs /\ ended' = ended
      BY <1>0, <2>1, <2>4 DEF Advance, Frames
    <3> QED BY <2>1, <2>2, <3>1, PollLooks DEF Serial!Next
  <2>5. CASE Advance(p) /\ frame' = frame
    BY <1>3, <2>1, <2>2, <2>5, SerialQuiet DEF Advance
  <2> QED BY <1>3, <2>3, <2>4, <2>5 DEF ReadRequired
<1>4. ASSUME NEW p \in Polls, lock = p, Advance(p), UNCHANGED <<regs, data, bounds>>,
             frame'[p].regs = frame[p].regs, HNext
      PROVE  Maps
  BY <1>2, <1>4, SerialQuiet DEF Advance
<1>5. ASSUME NEW p \in Polls, SkipProbe(p) \/ ProbeSerial(p) \/ SkipBlock(p) \/ BlockEmpty(p), HNext
      PROVE  Maps
  BY <1>4, <1>5 DEF SkipProbe, ProbeSerial, SkipBlock, BlockEmpty, Holds, pollVars
<1>6. ASSUME NEW p \in Polls, AskBlock(p), HNext PROVE Maps
  <2>1. pc' = [pc EXCEPT ![p] = "asked"] /\ UNCHANGED <<lock, regs, frame, data, bounds, ended>>
    BY <1>6 DEF AskBlock, pollVars
  <2>2. called' = called
    BY <1>0, <1>6, <2>1, CalledKept
  <2> QED BY <1>6, <2>1, <2>2, SerialQuiet
<1>7. ASSUME NEW p \in Polls, BlockAnswered(p) \/ BlockTimedOut(p), HNext PROVE Maps
  <2>1. lock = p /\ Advance(p) /\ UNCHANGED <<regs, data, bounds>>
    BY <1>7 DEF BlockAnswered, BlockTimedOut
  <2>2. frame'[p].regs = frame[p].regs
    BY <1>0, <1>7 DEF BlockAnswered, BlockTimedOut, Frames
  <2> QED BY <1>4, <1>7, <2>1, <2>2
<1>8. ASSUME NEW p \in Polls, Publish(p), HNext PROVE Maps
  <2>1. called' = called
    BY <1>2, <1>8 DEF Publish, Holds
  <2> QED BY <1>8, <2>1, PollPublishes DEF Serial!Next
<1>9. ASSUME NEW c \in Callers, Begins(c), Placed(c), HNext PROVE Maps
  BY <1>0, <1>9, CallPlaced DEF Serial!Next
<1>10. ASSUME NEW c \in Callers, NEW writes, Submit(c, writes), HNext PROVE Maps
  <2>1. pc[c] = "idle" /\ pc'[c] = "wait"
    BY <1>0, <1>10 DEF Submit, TypeTasks
  <2>2. Begins(c)
    BY <2>1 DEF Begins
  <2>3. PICK d \in Callers : Begins(d) /\ Placed(d)
    BY <1>10, <2>2 DEF HNext
  <2> QED BY <1>9, <1>10, <2>3
<1>11. ASSUME NEW c \in Callers, WriteAccepted(c), HNext PROVE Maps
  <2>1. CASE at[c] = Len(prog[c])
    BY <1>11, <2>1, CallSucceeds DEF Serial!Next
  <2>2. CASE at[c] # Len(prog[c])
    <3>1. lock = c /\ lock' = c /\ UNCHANGED <<data, bounds, ended>> /\ pc' = [pc EXCEPT ![c] = "held"]
      BY <1>11, <2>2 DEF WriteAccepted, Advance, Holds
    <3>2. pc[c] # "idle"
      BY <1>0, <3>1, HolderIsCalled
    <3>3. called' = called
      BY <1>0, <1>11, <3>1, <3>2, CalledKept
    <3> QED BY <1>0, <1>11, <3>1, <3>3, SerialQuiet
  <2> QED BY <2>1, <2>2
<1>12. ASSUME NEW c \in Callers, WriteFailed(c), HNext PROVE Maps
  <2>1. /\ lock = c /\ at[c] \in 1..Len(prog[c]) /\ regs' \in {regs, Applied(c)}
        /\ UNCHANGED <<data, bounds>> /\ Leave(c, "failed")
    BY <1>12 DEF WriteFailed, Holds
  <2> QED BY <1>12, <2>1, CallFails DEF Serial!Next
<1>13. ASSUME NEW t \in Tasks, Acquire(t), HNext PROVE Maps
  <2>1. pc[t] = "wait" /\ pc' = [pc EXCEPT ![t] = "held"]
    BY <1>13 DEF Acquire
  <2>2. called' = called
    BY <1>0, <1>13, <2>1, CalledKept
  <2> QED BY <1>0, <1>13, <2>2, TurnComes DEF Serial!Next
<1>14. ASSUME NEW t \in Tasks, EnsureConnected(t), HNext PROVE Maps
  <2>1. lock = t /\ at[t] = 0 /\ pc[t] # "idle" /\ UNCHANGED <<regs, data, bounds>>
    BY <1>14 DEF EnsureConnected, AlreadyConnected, Connect, CannotConnect, Holds, pollVars
  <2>2. CASE CannotConnect(t)
    <3>1. Leave(t, "failed")
      BY <2>2 DEF CannotConnect
    <3>2. CASE t \in Callers
      BY <1>14, <2>1, <3>1, <3>2, CallFails DEF Serial!Next
    <3>3. CASE t \in Polls
      BY <1>2, <1>14, <2>1, <3>1, <3>3, PollEnds DEF Serial!Next
    <3> QED BY <3>2, <3>3
  <2>3. CASE AlreadyConnected(t) \/ Connect(t)
    <3>1. Advance(t) /\ frame' = frame
      BY <2>3 DEF AlreadyConnected, Connect, pollVars
    <3>2. called' = called
      BY <1>0, <1>14, <2>1, <3>1, CalledKept DEF Advance
    <3> QED BY <1>14, <2>1, <3>1, <3>2, SerialQuiet DEF Advance
  <2> QED BY <1>14, <2>2, <2>3 DEF EnsureConnected
<1>15. ASSUME NEW t \in Tasks, CancelWaiting(t), HNext PROVE Maps
  <2>1. /\ lock # t /\ UNCHANGED <<lock, regs, data, bounds, ended>>
        /\ pc[t] = "wait" /\ pc' = [pc EXCEPT ![t] = "idle"]
    BY <1>0, <1>15 DEF CancelWaiting, IInv, LockDiscipline
  <2>2. lock \in Polls => frame'[lock] = frame[lock]
    BY <1>15, <2>1 DEF CancelWaiting, Forget
  <2>3. CASE t \in Polls
    <3>1. called' = called
      BY <1>0, <1>15, <2>1, <2>3, CalledKept
    <3> QED BY <1>15, <2>1, <2>2, <3>1, SerialQuiet
  <2>4. CASE t \in Callers
    <3>1. called' = [called EXCEPT ![t] = Nothing]
      BY <1>0, <1>15, <2>1, <2>4, CalledDone
    <3>2. called[t] # Nothing
      BY <1>0, <2>1, <2>4, NothingIsNoCommand DEF CommandInv
    <3>3. lock \in Callers => before' = before
      BY <1>15, <2>1 DEF HNext
    <3>4. Serial!Withdraw(t)
      BY <2>1, <2>2, <3>1, <3>2, <3>3 DEF Serial!Withdraw
    <3> QED BY <2>4, <3>4 DEF Serial!Next
  <2> QED BY <2>3, <2>4
<1>16. ASSUME NEW t \in Tasks, CancelRunning(t), HNext PROVE Maps
  <2>1. lock = t /\ Leave(t, "cancelled") /\ UNCHANGED <<data, bounds>>
    BY <1>16 DEF CancelRunning
  <2>2. CASE t \in Callers
    <3>1. at[t] \in 0..Len(prog[t])
      BY <1>0, <2>1, <2>2, HolderIsCalled DEF IInv, LockDiscipline, TypeTasks
    <3>2. regs' = regs \/ (at[t] \in 1..Len(prog[t]) /\ regs' = Applied(t))
      BY <1>16, <3>1 DEF CancelRunning
    <3> QED BY <1>16, <2>1, <2>2, <3>2, CallFails DEF Serial!Next
  <2>3. CASE t \in Polls
    <3>1. regs' = regs
      BY <1>0, <1>16, <2>3 DEF CancelRunning
    <3> QED BY <1>2, <1>16, <2>1, <2>3, <3>1, PollEnds DEF Serial!Next
  <2> QED BY <2>2, <2>3
<1>17. CASE HNext /\ (Unload \/ Heal \/ Tick \/ Elsewhere)
  <2>1. pc' = pc /\ UNCHANGED <<lock, frame, data, bounds, ended>>
    BY <1>17 DEF Unload, Heal, Tick, Elsewhere, taskVars, pollVars
  <2>2. called' = called
    BY <1>0, <1>17, <2>1, CalledStays
  <2>3. CASE Elsewhere
    BY <1>17, <2>2, <2>3, ModeTakenAway DEF Serial!Next
  <2>4. CASE Unload \/ Heal \/ Tick
    <3>1. regs' = regs
      BY <2>4 DEF Unload, Heal, Tick
    <3> QED BY <1>17, <2>1, <2>2, <3>1, SerialQuiet
  <2> QED BY <1>17, <2>3, <2>4
<1>18. CASE UNCHANGED hvars
  BY <1>18 DEF hvars, vars, pollVars, taskVars, Serial!serialVars
<1>19. ASSUME NEW c \in Callers, Call(c) PROVE \E writes : Submit(c, writes)
  BY <1>19 DEF Call, SetBatteryPower, SetWorkMode, Engage, Restore, SetExportLimitMode,
     SetExportLimitValue, SetImportLimitMode, SetImportLimitValue, SetWatchdog
<1> HIDE DEF Maps
<1> QED
  BY <1>1, <1>3, <1>5, <1>6, <1>7, <1>8, <1>10, <1>11, <1>12, <1>13, <1>14,
     <1>15, <1>16, <1>17, <1>18, <1>19 DEF HNext, Next, PollStep, CallStep

LEMMA HistoriesInit == HInit => RInv
<1> SUFFICES ASSUME HInit PROVE RInv
    OBVIOUS
<1>1. IInv /\ SetpointInv
  BY InitIInv, SetpointInit DEF HInit
<1>2. CommandInv
  BY DEF HInit, Init, CommandInv, Tasks
<1>3. CallSoFar
  BY CoordinatorAssumption DEF HInit, Init, CallSoFar, Tasks
<1> QED BY <1>1, <1>2, <1>3 DEF RInv

LEMMA HistoryIsOurs == [HNext]_hvars => [Next]_vars
  BY DEF HNext, hvars

LEMMA HistoriesStep == RInv /\ [HNext]_hvars => RInv'
  BY HistoryIsOurs, StepIInv, SetpointStep, CommandStep, SoFarStep DEF RInv

(* What the holder of the lock wrote so far, and the app meanwhile, is all that
   happened to the inverter since the call took the lock: a control method is
   a transaction with one intruder (coordinator.py:660-776). *)
THEOREM CallsAccountForRegisters == HSpec => []CallSoFar
<1>1. RInv => CallSoFar
  BY DEF RInv
<1> QED BY HistoriesInit, HistoriesStep, <1>1, PTL DEF HSpec

(* A call that returns has written its own registers with its own values, all of
   them; one that raises wrote the first of them, or none; calls are serial and
   no poll publishes one half done, for any number of callers and polls, any
   requests and any nameplates (coordinator.py:231 and 660-776). *)
THEOREM CallsAreSerial == HSpec => SerialControlHolds
<1> QED
  BY HistoriesInit, HistoriesStep, SerialInit, SerialStep, PTL DEF HSpec, SerialControlHolds, Serial!Spec

(* The entities only choose among the calls. *)
LEMMA EntitiesChoose == [ENext]_evars => [HNext]_hvars
  BY DEF ENext, evars

(* Coordinator with its entities implements SerialControl too. *)
THEOREM EntityCallsAreSerial == ESpec => SerialControlHolds
<1>1. EInit => HInit
  BY DEF EInit
<1> QED BY <1>1, EntitiesChoose, HistoriesInit, HistoriesStep, SerialInit, SerialStep,
           PTL DEF ESpec, SerialControlHolds, Serial!Spec

-----------------------------------------------------------------------------
(* A limit was in the range of the mode it was offered for.                   *)

(* A call that waits or runs carries the value that the entity validated. *)
OfferedInv ==
  \A c \in Callers : pc[c] # "idle" =>
    \A i \in 1..Len(prog[c]), l \in Limits :
      prog[c][i].reg = l.value => prog[c][i].val \in RangeIn(basis[c][l.mode])

LEMMA OfferedFits ==
  ASSUME NEW command \in Commands, Offered(command), NEW i \in 1..Len(WritesOf(command)), NEW l \in Limits,
         WritesOf(command)[i].reg = l.value
  PROVE  WritesOf(command)[i].val \in RangeIn(data.regs[l.mode])
<1>0. \/ l.value = "exportValue" /\ l.mode = "exportMode"
      \/ l.value = "importValue" /\ l.mode = "importMode"
  BY DEF Limits
<1>1. CASE command.method = "set_battery_power"
  <2>1. WritesOf(command)[i].reg \in {"mode", "setpoint"}
    BY <1>1, TwoWrites DEF WritesOf, Put
  <2> QED BY <1>0, <2>1
<1>2. CASE command.method = "restore"
  <2>1. WritesOf(command)[i].reg \in {"mode", "setpoint"}
    BY <1>2, TwoWrites DEF WritesOf, RestoreWrites, Put
  <2> QED BY <1>0, <2>1
<1>3. CASE command.method \in DOMAIN Serial!RegisterOf
  <2>1. command.method \notin {"set_battery_power", "restore"}
    BY <1>3, RegisterTypes
  <2>2. WritesOf(command) = <<Put(Serial!RegisterOf[command.method], command.value)>>
    BY <2>1 DEF WritesOf
  <2>3. i = 1 /\ WritesOf(command)[i] = Put(Serial!RegisterOf[command.method], command.value)
    BY <2>2, TwoWrites
  <2>4. Serial!RegisterOf[command.method] = l.value /\ WritesOf(command)[i].val = command.value
    BY <2>3 DEF Put
  <2>5. \/ l.value = "exportValue" /\ l.mode = "exportMode" /\ command.method = "set_export_limit_value"
        \/ l.value = "importValue" /\ l.mode = "importMode" /\ command.method = "set_import_limit_value"
    BY <1>0, <1>3, <2>4 DEF Serial!RegisterOf
  <2> QED BY <2>4, <2>5 DEF Offered, ExportRange, ImportRange
<1> QED BY <1>1, <1>2, <1>3, CommandCases

LEMMA OfferedStep ==
  IInv /\ CommandInv /\ OfferedInv /\ [ENext]_evars => OfferedInv'
<1> SUFFICES ASSUME IInv, CommandInv, CommandInv', OfferedInv, [ENext]_evars,
                    NEW c \in Callers, pc'[c] # "idle",
                    NEW i \in 1..Len(prog'[c]), NEW l \in Limits, prog'[c][i].reg = l.value
             PROVE  prog'[c][i].val \in RangeIn(basis'[c][l.mode])
  <2>1. IInv /\ CommandInv /\ [ENext]_evars => CommandInv'
    BY CommandStep, EntitiesChoose
  <2>2. OfferedInv' <=>
          \A c \in Callers : pc'[c] # "idle" =>
            \A i \in 1..Len(prog'[c]), l \in Limits :
              prog'[c][i].reg = l.value => prog'[c][i].val \in RangeIn(basis'[c][l.mode])
    BY DEF OfferedInv, Limits, RangeIn
  <2> QED BY <2>1, <2>2
<1>1. CASE ENext /\ Begins(c)
  <2>1. Offered(called'[c]) /\ basis'[c] = data.regs
    BY <1>1 DEF ENext
  <2>2. called'[c] \in Commands /\ prog'[c] = WritesOf(called'[c])
    BY DEF CommandInv, Commands, WritesOf, RestoreWrites, Put, Serial!RegisterOf
  <2> QED BY <2>1, <2>2, OfferedFits
<1>2. CASE ENext /\ ~Begins(c)
  <2>1. pc[c] # "idle" /\ prog'[c] = prog[c]
    BY <1>2, CallerKeepsItsCall DEF ENext, HNext
  <2>2. basis'[c] = basis[c]
    BY <1>2 DEF ENext
  <2> QED BY <2>1, <2>2 DEF OfferedInv
<1>3. CASE UNCHANGED evars
  BY <1>3 DEF OfferedInv, evars, hvars, vars, taskVars
<1> QED BY <1>1, <1>2, <1>3

(* Only the holder of the lock writes a register that is not the mode. *)
LEMMA HolderWrites ==
  ASSUME IInv, Next, NEW c \in Callers, lock = c, NEW reg \in Registers \ {"mode"}, regs'[reg] # regs[reg]
  PROVE  regs' = Applied(c) /\ at[c] \in 1..Len(prog[c])
<1> USE CoordinatorAssumption DEF Tasks
<1>1. regs' # regs /\ pc[c] # "idle" /\ regs \in [Registers -> Int] /\ at[c] \in 0..Len(prog[c])
  BY DEF IInv, LockDiscipline, TypeOK, TypeTasks, TypeCalls
<1>2. ASSUME NEW p \in Polls, StartPoll(p) \/ PollStep(p) PROVE FALSE
  BY <1>1, <1>2 DEF StartPoll, PollStep, ReadRequired, SkipProbe, ProbeSerial, SkipBlock,
     AskBlock, BlockAnswered, BlockTimedOut, BlockEmpty, Publish
<1>3. ASSUME NEW d \in Callers, Call(d) PROVE FALSE
  BY <1>1, <1>3 DEF Call, SetBatteryPower, SetWorkMode, Engage, Restore, SetExportLimitMode,
     SetExportLimitValue, SetImportLimitMode, SetImportLimitValue, SetWatchdog, Submit
<1>4. ASSUME NEW d \in Callers, CallStep(d) PROVE regs' = Applied(c) /\ at[c] \in 1..Len(prog[c])
  <2>1. d = c
    BY <1>4 DEF CallStep, WriteAccepted, WriteFailed, Holds
  <2> QED BY <1>1, <1>4, <2>1 DEF CallStep, WriteAccepted, WriteFailed
<1>5. ASSUME NEW t \in Tasks, Acquire(t) \/ EnsureConnected(t) \/ CancelWaiting(t) PROVE FALSE
  BY <1>1, <1>5 DEF Acquire, EnsureConnected, AlreadyConnected, Connect, CannotConnect, CancelWaiting
<1>6. ASSUME NEW t \in Tasks, CancelRunning(t) PROVE regs' = Applied(c) /\ at[c] \in 1..Len(prog[c])
  <2>1. t = c
    BY <1>6 DEF CancelRunning
  <2> QED BY <1>1, <1>6, <2>1 DEF CancelRunning
<1>7. ~(Unload \/ Heal \/ Tick)
  BY <1>1 DEF Unload, Heal, Tick
<1>8. ~Elsewhere
  BY <1>1 DEF Elsewhere
<1> QED BY <1>2, <1>3, <1>4, <1>5, <1>6, <1>7, <1>8 DEF Next

LEMMA LimitStep ==
  IInv /\ OfferedInv /\ [ENext]_evars =>
    \A c \in Callers, l \in Limits :
      lock = c /\ regs'[l.value] # regs[l.value] =>
        \/ regs'[l.value] \in RangeIn(regs[l.mode])
        \/ basis[c][l.mode] # regs[l.mode]
<1> SUFFICES ASSUME IInv, OfferedInv, [ENext]_evars, NEW c \in Callers, NEW l \in Limits,
                    lock = c, regs'[l.value] # regs[l.value], basis[c][l.mode] = regs[l.mode]
             PROVE  regs'[l.value] \in RangeIn(regs[l.mode])
    OBVIOUS
<1>1. l.value \in Registers \ {"mode"}
  BY DEF Limits, Registers
<1>2. Next
  BY DEF ENext, HNext, evars, hvars, vars
<1>3. regs' = Applied(c) /\ at[c] \in 1..Len(prog[c])
  BY <1>1, <1>2, HolderWrites
<1>4. prog[c][at[c]].reg = l.value /\ prog[c][at[c]].val = regs'[l.value]
  BY <1>1, <1>3 DEF Applied, IInv, TypeOK, TypeCalls
<1>5. pc[c] # "idle"
  BY DEF IInv, LockDiscipline, Tasks
<1> QED BY <1>3, <1>4, <1>5 DEF OfferedInv

(* A limit that is written is in the range of the mode then in force, unless that
   mode changed since the poll its entity looked at: the checks that Home Assistant
   makes before the call, and the lock that the call waits for, leave no other way
   (number.py:112-118 and 165-171). *)
THEOREM LimitsFit == ESpec => LimitFitsItsMode
<1>1. EInit => RInv /\ OfferedInv
  <2> SUFFICES ASSUME EInit PROVE RInv /\ OfferedInv
    OBVIOUS
  <2>1. OfferedInv
    BY DEF EInit, HInit, Init, OfferedInv, Tasks
  <2> QED BY <2>1, HistoriesInit DEF EInit
<1>2. RInv => IInv /\ CommandInv
  BY DEF RInv
<1> QED BY HistoriesStep, EntitiesChoose, OfferedStep, LimitStep, <1>1, <1>2, PTL DEF ESpec, LimitFitsItsMode
=============================================================================
