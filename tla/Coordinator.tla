----------------------------- MODULE Coordinator -----------------------------
(***************************************************************************)
(* AnkerX1Coordinator (coordinator.py): the polling cycle and the control    *)
(* methods, tasks of one asyncio loop that share one Modbus socket under one *)
(* lock.  A step is what runs between two awaits.                            *)
(*                                                                          *)
(* The socket, as the comments of guarded_call and _drop_connection tell it: *)
(*   closed   no connection                                                  *)
(*   clean    every request sent on it was answered                          *)
(*   suspect  a request was given up on; its reply may still arrive          *)
(*   skewed   a late reply was taken for another's: no request on this       *)
(*            connection is answered any more                                *)
(* While faults holds, links fail and tasks are cancelled; Heal ends that.   *)
(***************************************************************************)
EXTENDS Integers, Sequences

CONSTANTS
  Polls,             \* refreshes of the DataUpdateCoordinator
  Callers,           \* entity and service calls that write to the inverter
  NoTask,
  Silent,            \* blocks this unit never answers
  RatedPowers,       \* what registers 10124 and 10126 may hold when a poll
  MaxActivePowers,   \* reads them; a unit may report 0
  FallbackCharge,    \* MAX_CHARGE_W and MAX_DISCHARGE_W of const.py
  FallbackDischarge,
  SerialAt10750,     \* the two places a serial number is read from
  SerialAt10100,
  NoSerial,
  RestoreMode,       \* option: the mode written when control is given back
  OtherModes,        \* modes the app, or the unit's own watchdog, switches to
  PowerRequests,     \* arguments that users and automations pass
  ModeRequests,
  LimitModes,
  LimitValues,
  WatchdogRequests,
  MinWatchdog,
  MaxWatchdog,
  Threshold,         \* of OptionalBlocks
  RetryAfter,
  InitialFaults,     \* whether links may fail: {TRUE}, or {FALSE} on a sound one
  ScanTicks          \* the longest scan interval, in the ticks of RetryAfter

VPP == 3
Tasks == Polls \cup Callers
Registers == {"mode", "setpoint", "exportMode", "exportValue",
              "importMode", "importValue", "watchdog"}
BlockOrder == <<"A", "B", "C", "D", "E", "F", "G", "H", "M">>
Required == {"A", "B", "C", "E", "F", "G"}
OptionalNames == {"H", "M"}
NoBlock == "none"
NoRegs == [r \in Registers |-> 0]
NoData == [regs |-> NoRegs, meter |-> FALSE, polled |-> FALSE]

ASSUME CoordinatorAssumption ==
  /\ Polls \cap Callers = {}
  /\ NoTask \notin Tasks
  /\ Silent \subseteq {"D", "H", "M"}
  /\ RatedPowers \subseteq Nat /\ RatedPowers # {}
  /\ MaxActivePowers \subseteq Nat /\ MaxActivePowers # {}
  /\ FallbackCharge \in Nat \ {0} /\ FallbackDischarge \in Nat \ {0}
  /\ RestoreMode \in Int /\ OtherModes \subseteq Int
  /\ PowerRequests \subseteq Int /\ ModeRequests \subseteq Int
  /\ LimitModes \subseteq Int /\ LimitValues \subseteq Int
  /\ WatchdogRequests \subseteq Int /\ MinWatchdog \in Int /\ MaxWatchdog \in Int
  /\ InitialFaults \subseteq BOOLEAN
  /\ Threshold \in Nat \ {0} /\ RetryAfter \in Nat \ {0} /\ ScanTicks \in Nat

(* Block B carries the nameplate, read again by every poll: "decode or MAX_..." *)
OrDefault(value, default) == IF value = 0 THEN default ELSE value

ChargeBounds == {OrDefault(r, FallbackCharge) : r \in RatedPowers}
DischargeBounds == {OrDefault(m, FallbackDischarge) : m \in MaxActivePowers}

Nameplates == [charge : ChargeBounds, discharge : DischargeBounds]

Fallback == [charge |-> FallbackCharge, discharge |-> FallbackDischarge]

VARIABLES
  lock,       \* the task that holds self._lock
  stream,     \* the socket, see above
  pc,         \* idle, wait (for the lock), held, asked (an optional block)
  at,         \* 0: ensure_connected; n: the n-th block or write
  ended,      \* how the last holder of the lock left it
  frame,      \* the locals of a running poll
  prog,       \* the writes of a running control method
  regs,       \* the holding registers of the inverter
  data,       \* coordinator.data
  bounds,     \* max_charge_w and max_discharge_w
  serial, probed,            \* self.serial, self._serial_probe_done
  timeouts, retired, age,    \* self._optional
  faults, unloaded,
  gap         \* ticks since a poll was last due

taskVars == <<pc, at, ended>>
pollVars == <<frame, data, bounds, serial, probed>>
blockVars == <<timeouts, retired, age>>
envVars == <<faults, unloaded, gap>>
vars == <<lock, stream, taskVars, prog, regs, pollVars, blockVars, envVars>>

AskedBlock == IF lock \in Polls /\ pc[lock] = "asked"
              THEN BlockOrder[at[lock]] ELSE NoBlock

Opt == INSTANCE OptionalBlocks WITH Blocks <- OptionalNames, asked <- AskedBlock

(* What a poll remembers between reads; strikes is history: the timeouts this
   poll has charged to optional blocks. *)
EmptyFrame == [regs |-> NoRegs, meter |-> FALSE, strikes |-> 0]

Init ==
  /\ lock = NoTask /\ stream = "closed"
  /\ pc = [t \in Tasks |-> "idle"]
  /\ at = [t \in Tasks |-> 0]
  /\ ended = "none"
  /\ frame = [p \in Polls |-> EmptyFrame]
  /\ prog = [c \in Callers |-> <<>>]
  /\ \E m \in OtherModes \cup {VPP}, w \in {0} \cup DischargeBounds :
       regs = [NoRegs EXCEPT !["mode"] = m, !["setpoint"] = w]  \* of an earlier session
  /\ data = NoData
  /\ bounds = Fallback
  /\ serial = NoSerial /\ probed = FALSE
  /\ timeouts = [b \in OptionalNames |-> 0]
  /\ retired = [b \in OptionalNames |-> FALSE]
  /\ age = [b \in OptionalNames |-> 0]
  /\ faults \in InitialFaults /\ unloaded = FALSE /\ gap = 0

-----------------------------------------------------------------------------
(* One Modbus request, answered by the unit unless it is silent: outcome o,
   and the socket becomes s before the caller sees any of it.  The outcome is
   an answer, a Modbus error response, a timeout (pymodbus gives up, the socket
   stays open), or down (a ConnectionException). *)
Reply(silent, o, s) ==
  \/ o = "answer" /\ ~silent /\ stream \in {"clean", "suspect"} /\ s = stream
  \/ o = "error" /\ faults /\ ~silent /\ stream \in {"clean", "suspect"} /\ s = stream
  \/ o = "timeout" /\ (faults \/ silent) /\ stream \in {"clean", "suspect"} /\ s = "suspect"
  \/ o = "timeout" /\ stream \in {"suspect", "skewed"} /\ s = "skewed"
  \/ o = "down" /\ (faults \/ stream = "closed") /\ s = "closed"

Outcomes == {"answer", "error", "timeout", "down"}
Streams == {"closed", "clean", "suspect", "skewed"}

KeepsSocket(o, s) == s

(* _drop_connection, on a transport error only *)
Dropped(o, s) == IF o \in {"timeout", "down"} THEN "closed" ELSE s

Holds(t) == lock = t /\ pc[t] = "held"

LeaveLocked(t, r) == /\ pc' = [pc EXCEPT ![t] = "idle"]
                     /\ at' = [at EXCEPT ![t] = 0]
                     /\ ended' = r
                     /\ UNCHANGED lock

(* Leaving async with self._lock, with a value or an exception. *)
Leave(t, r) == /\ lock' = NoTask
               /\ pc' = [pc EXCEPT ![t] = "idle"]
               /\ at' = [at EXCEPT ![t] = 0]
               /\ ended' = r

Advance(t) == /\ at' = [at EXCEPT ![t] = @ + 1]
              /\ pc' = [pc EXCEPT ![t] = "held"]
              /\ UNCHANGED <<lock, ended>>

Forget(t) == /\ frame' = [p \in Polls |-> IF p = t THEN EmptyFrame ELSE frame[p]]
             /\ prog' = [c \in Callers |-> IF c = t THEN <<>> ELSE prog[c]]

(* asyncio.Lock: a waiter gets the lock once it is free. *)
Acquire(t) == /\ lock = NoTask /\ pc[t] = "wait"
              /\ lock' = t
              /\ pc' = [pc EXCEPT ![t] = "held"]
              /\ ended' = "none"
              /\ UNCHANGED <<stream, at, prog, regs, pollVars, blockVars, envVars>>

(* _ensure_connected *)
AlreadyConnected(t) ==
  /\ Holds(t) /\ at[t] = 0 /\ stream # "closed"
  /\ Advance(t)
  /\ UNCHANGED <<stream, prog, regs, pollVars, blockVars, envVars>>

Connect(t) ==
  /\ Holds(t) /\ at[t] = 0 /\ stream = "closed"
  /\ stream' = "clean"
  /\ Advance(t)
  /\ UNCHANGED <<prog, regs, pollVars, blockVars, envVars>>

CannotConnect(t) ==
  /\ Holds(t) /\ at[t] = 0 /\ stream = "closed" /\ faults
  /\ Leave(t, "failed") /\ Forget(t)
  /\ UNCHANGED <<stream, regs, data, bounds, serial, probed, blockVars, envVars>>

-----------------------------------------------------------------------------
(* The polling cycle, _async_update_data.                                    *)

AtBlock(p, names) == /\ p \in Polls /\ at[p] \in 1..Len(BlockOrder)
                     /\ BlockOrder[at[p]] \in names

(* Home Assistant starts a refresh when one is due or asked for. *)
StartPoll(p) == /\ pc[p] = "idle" /\ ~unloaded
                /\ pc' = [pc EXCEPT ![p] = "wait"]
                /\ gap' = 0
                /\ UNCHANGED <<lock, stream, at, ended, prog, regs, pollVars, blockVars, faults, unloaded>>

ReadRequired(p) ==
  /\ Holds(p) /\ AtBlock(p, Required)
  /\ \E o \in Outcomes, s \in Streams :
       /\ Reply(FALSE, o, s)
       /\ stream' = Dropped(o, s)
       /\ IF o = "answer"
          THEN /\ Advance(p)
               /\ frame' = IF BlockOrder[at[p]] = "E"
                           THEN [frame EXCEPT ![p].regs = regs] ELSE frame
               /\ UNCHANGED prog
          ELSE Leave(p, "failed") /\ Forget(p)
  /\ UNCHANGED <<regs, data, bounds, serial, probed, blockVars, envVars>>

(* Block D: probed once; whatever the outcome the poll goes on, on the same
   socket. *)
ProbeDue == serial = NoSerial /\ ~probed

SkipProbe(p) == /\ Holds(p) /\ AtBlock(p, {"D"}) /\ ~ProbeDue
                /\ Advance(p)
                /\ UNCHANGED <<stream, prog, regs, pollVars, blockVars, envVars>>

ProbeSerial(p) ==
  /\ Holds(p) /\ AtBlock(p, {"D"}) /\ ProbeDue
  /\ probed' = TRUE
  /\ \E o \in Outcomes :
       /\ Reply("D" \in Silent, o, stream')
       /\ serial' = IF o = "answer" THEN SerialAt10750 ELSE serial
  /\ Advance(p)
  /\ UNCHANGED <<prog, regs, frame, data, bounds, blockVars, envVars>>

(* _read_optional_block, up to its await ... *)
SkipBlock(p) ==
  /\ Holds(p) /\ AtBlock(p, OptionalNames)
  /\ ~Opt!MayRead(BlockOrder[at[p]])
  /\ Advance(p)
  /\ UNCHANGED <<stream, prog, regs, pollVars, blockVars, envVars>>

AskAnyway(p) ==
  /\ Holds(p) /\ AtBlock(p, OptionalNames)
  /\ pc' = [pc EXCEPT ![p] = "asked"]
  /\ UNCHANGED <<lock, stream, at, ended, prog, regs, pollVars, blockVars, envVars>>

AskBlock(p) ==
  /\ Holds(p) /\ AtBlock(p, OptionalNames)
  /\ Opt!MayRead(BlockOrder[at[p]])
  /\ Opt!ShouldReadEffect(BlockOrder[at[p]])
  /\ pc' = [pc EXCEPT ![p] = "asked"]
  /\ UNCHANGED <<lock, stream, at, ended, prog, regs, pollVars, envVars>>

(* ... and after it: read_optional's verdict. *)
BlockAnswered(p) ==
  /\ lock = p /\ pc[p] = "asked"
  /\ Reply(BlockOrder[at[p]] \in Silent, "answer", stream)
  /\ Opt!RecordSuccessEffect(BlockOrder[at[p]])
  /\ frame' = [frame EXCEPT ![p].meter = (BlockOrder[at[p]] = "M")]
  /\ Advance(p)
  /\ UNCHANGED <<stream, prog, regs, data, bounds, serial, probed, envVars>>

TimedOutOnOpenSocket(p) ==
  /\ lock = p /\ pc[p] = "asked"
  /\ \E s \in Streams : /\ Reply(BlockOrder[at[p]] \in Silent, "timeout", s)
                        /\ stream' = s
  /\ Opt!RecordTimeoutEffect(BlockOrder[at[p]])
  /\ frame' = [frame EXCEPT ![p].strikes = @ + 1]
  /\ Advance(p)
  /\ UNCHANGED <<prog, regs, data, bounds, serial, probed, envVars>>

TimedOutUncounted(p) ==
  /\ lock = p /\ pc[p] = "asked"
  /\ \E s \in Streams : Reply(BlockOrder[at[p]] \in Silent, "timeout", s)
  /\ stream' = "closed"
  /\ Advance(p)
  /\ UNCHANGED <<prog, regs, frame, data, bounds, serial, probed, blockVars, envVars>>

BlockTimedOut(p) ==
  /\ lock = p /\ pc[p] = "asked"
  /\ \E s \in Streams : Reply(BlockOrder[at[p]] \in Silent, "timeout", s)
  /\ stream' = "closed"
  /\ Opt!RecordTimeoutEffect(BlockOrder[at[p]])
  /\ frame' = [frame EXCEPT ![p].strikes = @ + 1]
  /\ Advance(p)
  /\ UNCHANGED <<prog, regs, data, bounds, serial, probed, envVars>>

BlockEmpty(p) ==
  /\ lock = p /\ pc[p] = "asked"
  /\ \E o \in {"error", "down"} : Reply(BlockOrder[at[p]] \in Silent, o, stream')
  /\ Advance(p)
  /\ UNCHANGED <<prog, regs, pollVars, blockVars, envVars>>

(* The decode and the returned dictionary: no await from here to the end.  The
   answer to block B is decoded here, and nothing looked at it before. *)
Publish(p) ==
  /\ Holds(p) /\ at[p] = Len(BlockOrder) + 1
  /\ data' = [regs |-> frame[p].regs, meter |-> frame[p].meter, polled |-> TRUE]
  /\ bounds' \in Nameplates        \* block B of this poll
  /\ serial' = IF serial = NoSerial THEN SerialAt10100 ELSE serial
  /\ Leave(p, "ok") /\ Forget(p)
  /\ UNCHANGED <<stream, regs, probed, blockVars, envVars>>

-----------------------------------------------------------------------------
(* The control methods: each is the list of registers it writes.             *)

Put(r, v) == [reg |-> r, val |-> v]

ClampBottomOnly(watts) == IF watts < -bounds.charge THEN -bounds.charge ELSE watts

Clamp(watts) ==
  LET low == -bounds.charge
      high == IF watts < bounds.discharge THEN watts ELSE bounds.discharge
  IN  IF high < low THEN low ELSE high

ModeFirst == <<Put("mode", RestoreMode), Put("setpoint", 0)>>

RestoreWrites == <<Put("setpoint", 0), Put("mode", RestoreMode)>>

(* An entity or service call, once the platforms exist, up to the lock. *)
Submit(c, writes) ==
  /\ pc[c] = "idle" /\ data.polled /\ ~unloaded
  /\ prog' = [prog EXCEPT ![c] = writes]
  /\ pc' = [pc EXCEPT ![c] = "wait"]
  /\ UNCHANGED <<lock, stream, at, ended, regs, pollVars, blockVars, envVars>>

SetBatteryPower(c, watts) == Submit(c, <<Put("mode", VPP), Put("setpoint", Clamp(watts))>>)

SetWorkMode(c, mode) == Submit(c, <<Put("mode", mode)>>)

Engage(c) == SetWorkMode(c, VPP)

Restore(c) == Submit(c, RestoreWrites)

SetExportLimitMode(c, mode) == Submit(c, <<Put("exportMode", mode)>>)

SetExportLimitValue(c, value) == Submit(c, <<Put("exportValue", value)>>)

SetImportLimitMode(c, mode) == Submit(c, <<Put("importMode", mode)>>)

IntoExport(c, value) == Submit(c, <<Put("exportValue", value)>>)

SetImportLimitValue(c, value) == Submit(c, <<Put("importValue", value)>>)

(* A watchdog out of range is refused before the lock, with a ValueError. *)
SetWatchdog(c, seconds) == /\ seconds \in MinWatchdog..MaxWatchdog
                           /\ Submit(c, <<Put("watchdog", seconds)>>)

Call(c) == \/ \E w \in PowerRequests : SetBatteryPower(c, w)
           \/ \E m \in ModeRequests : SetWorkMode(c, m)
           \/ Engage(c)
           \/ Restore(c)
           \/ \E m \in LimitModes : SetExportLimitMode(c, m) \/ SetImportLimitMode(c, m)
           \/ \E v \in LimitValues : SetExportLimitValue(c, v) \/ SetImportLimitValue(c, v)
           \/ \E n \in WatchdogRequests : SetWatchdog(c, n)

Applied(c) == [regs EXCEPT ![prog[c][at[c]].reg] = prog[c][at[c]].val]

(* One write of a control method.  A write that times out, or loses the
   connection, may have reached the inverter all the same. *)
WriteAccepted(c) ==
  /\ Holds(c) /\ at[c] \in 1..Len(prog[c])
  /\ Reply(FALSE, "answer", stream)
  /\ regs' = Applied(c)
  /\ IF at[c] = Len(prog[c]) THEN Leave(c, "ok") /\ Forget(c)
                             ELSE Advance(c) /\ UNCHANGED <<frame, prog>>
  /\ UNCHANGED <<stream, data, bounds, serial, probed, blockVars, envVars>>

WriteFailed(c) ==
  /\ Holds(c) /\ at[c] \in 1..Len(prog[c])
  /\ \E o \in {"error", "timeout", "down"}, s \in Streams :
       /\ Reply(FALSE, o, s)
       /\ stream' = Dropped(o, s)
       /\ regs' \in IF o = "error" \/ stream = "closed" THEN {regs} ELSE {regs, Applied(c)}
  /\ Leave(c, "failed") /\ Forget(c)
  /\ UNCHANGED <<data, bounds, serial, probed, blockVars, envVars>>

-----------------------------------------------------------------------------
(* The surroundings.                                                         *)

(* A CancelledError says nothing about the link: it unwinds the lock and
   leaves the socket as it is, a request in flight unanswered. *)
CancelWaiting(t) ==
  /\ faults /\ pc[t] = "wait"
  /\ pc' = [pc EXCEPT ![t] = "idle"]
  /\ Forget(t)
  /\ UNCHANGED <<lock, stream, at, ended, regs, data, bounds, serial, probed, blockVars, envVars>>

CancelRunning(t) ==
  /\ faults /\ lock = t /\ ~(t \in Polls /\ at[t] > Len(BlockOrder))
  /\ stream' \in IF at[t] > 0 /\ stream = "clean" THEN {"clean", "suspect"} ELSE {stream}
  /\ regs' \in IF t \in Callers /\ at[t] > 0 /\ stream # "closed" THEN {regs, Applied(t)} ELSE {regs}
  /\ probed' = (probed \/ (AtBlock(t, {"D"}) /\ ProbeDue))
  /\ Leave(t, "cancelled") /\ Forget(t)
  /\ UNCHANGED <<data, bounds, serial, blockVars, envVars>>

(* async_unload_entry, down to async_close: the socket is closed without the
   lock; calls that wait for it are not withdrawn. *)
Unload == /\ data.polled /\ ~unloaded
          /\ unloaded' = TRUE
          /\ stream' = "closed"
          /\ UNCHANGED <<lock, taskVars, prog, regs, pollVars, blockVars, faults, gap>>

(* The app, or the unit's own watchdog, takes the battery back. *)
Elsewhere == /\ \E m \in OtherModes \ {regs["mode"]} : regs' = [regs EXCEPT !["mode"] = m]
             /\ UNCHANGED <<lock, stream, taskVars, prog, pollVars, blockVars, envVars>>

Heal == /\ faults
        /\ faults' = FALSE
        /\ UNCHANGED <<lock, stream, taskVars, prog, regs, pollVars, blockVars, unloaded, gap>>

(* A tick is longer than a poll: it passes between two polls, and no more than
   ScanTicks of them do while polling goes on. *)
Tick == /\ \A p \in Polls : pc[p] = "idle"
        /\ gap < ScanTicks
        /\ gap' = gap + 1
        /\ Opt!ClockEffect
        /\ UNCHANGED <<lock, stream, taskVars, prog, regs, pollVars, faults, unloaded>>

-----------------------------------------------------------------------------
PollStep(p) == \/ ReadRequired(p) \/ SkipProbe(p) \/ ProbeSerial(p)
               \/ SkipBlock(p) \/ AskBlock(p)
               \/ BlockAnswered(p) \/ BlockTimedOut(p) \/ BlockEmpty(p)
               \/ Publish(p)

CallStep(c) == WriteAccepted(c) \/ WriteFailed(c)

EnsureConnected(t) == AlreadyConnected(t) \/ Connect(t) \/ CannotConnect(t)

Next == \/ \E p \in Polls : StartPoll(p) \/ PollStep(p)
        \/ \E c \in Callers : Call(c) \/ CallStep(c)
        \/ \E t \in Tasks : \/ Acquire(t) \/ EnsureConnected(t)
                            \/ CancelWaiting(t) \/ CancelRunning(t)
        \/ Unload \/ Elsewhere \/ Heal \/ Tick

Spec == Init /\ [][Next]_vars

(* Home Assistant keeps polling; asyncio.Lock serves its waiters in order, so
   one that waits while the lock is freed again and again gets it (SF); a
   request ends, by its reply or by pymodbus's own timeout; time passes, however
   many polls fit in a tick (SF). *)
FairSpec == /\ Spec
            /\ \A p \in Polls : WF_vars(StartPoll(p)) /\ WF_vars(PollStep(p))
            /\ \A c \in Callers : WF_vars(CallStep(c))
            /\ \A t \in Tasks : SF_vars(Acquire(t)) /\ WF_vars(EnsureConnected(t))
            /\ SF_vars(Tick)

-----------------------------------------------------------------------------
Writes == [reg : Registers, val : Int]

TypeTasks == /\ lock \in Tasks \cup {NoTask}
             /\ stream \in Streams
             /\ pc \in [Tasks -> {"idle", "wait", "held", "asked"}]
             /\ at \in [Tasks -> Nat]
             /\ ended \in {"none", "ok", "failed", "cancelled"}

TypeCalls == prog \in [Callers -> Seq(Writes)] /\ regs \in [Registers -> Int]

Frames == [regs : [Registers -> Int], meter : BOOLEAN, strikes : Nat]

TypePolls == /\ frame \in [Polls -> Frames]
             /\ data \in [regs : [Registers -> Int], meter : BOOLEAN, polled : BOOLEAN]
             /\ bounds \in [charge : Nat, discharge : Nat]
             /\ serial \in {NoSerial, SerialAt10750, SerialAt10100}
             /\ probed \in BOOLEAN

TypeBlocks == /\ timeouts \in [OptionalNames -> 0..Threshold]
              /\ retired \in [OptionalNames -> BOOLEAN]
              /\ age \in [OptionalNames -> 0..RetryAfter]

TypeEnv == faults \in BOOLEAN /\ unloaded \in BOOLEAN /\ gap \in 0..ScanTicks

TypeOK == TypeTasks /\ TypeCalls /\ TypePolls /\ TypeBlocks /\ TypeEnv

(* A task past the lock's door is its only holder, and a task without the lock
   has left nothing behind: whatever exception or cancellation ended it, it
   released the lock and its position (coordinator.py:231, 660-776). *)
LockDiscipline ==
  /\ \A t \in Tasks : pc[t] \in {"held", "asked"} <=> lock = t
  /\ \A t \in Tasks : lock # t => at[t] = 0
  /\ \A t \in Tasks : pc[t] = "asked" => AtBlock(t, OptionalNames)
  /\ \A p \in Polls : lock # p => frame[p] = EmptyFrame
  /\ \A c \in Callers : IF pc[c] = "idle" THEN prog[c] = <<>>
                        ELSE Len(prog[c]) >= 1 /\ at[c] <= Len(prog[c])

(* One glitch costs one strike: a timeout charged to an optional block closes
   the socket, so no later block of the same poll can be charged for it
   (coordinator.py:189-195, the nine dead hours of modbus_client.py:93-95). *)
OneGlitchOneStrike == \A p \in Polls : frame[p].strikes <= 1

(* When a hand-back writes the mode, the setpoint in the inverter is zero,
   whoever else wrote it before (coordinator.py:733-757: the lock is kept over
   both writes, and a failed first write ends the call). *)
HandBackIsDisarmed ==
  \A c \in Callers :
    Holds(c) /\ prog[c] = RestoreWrites /\ at[c] = 2 => regs["setpoint"] = 0

(* The setpoint in the inverter never exceeds what a nameplate allows, although
   it is clamped before the lock, to bounds an earlier poll left and a poll in
   between may replace (coordinator.py:399-400 and 659). *)
SetpointWithinNameplate ==
  /\ \E b \in ChargeBounds : -b <= regs["setpoint"]
  /\ \E b \in DischargeBounds : regs["setpoint"] <= b

(* A socket becomes doubtful only under the serial probe or a cancelled task:
   every other request that fails leaves no socket for the next one
   (guarded_call, _reconnect_on_transport_error, _read_optional_block). *)
Doubtful == {"suspect", "skewed"}

DoubtHasACause ==
  [][stream = "clean" /\ stream' \in Doubtful =>
       \E t \in Tasks : lock = t /\ (AtBlock(t, {"D"}) \/ ended' = "cancelled")]_vars

(* The coordinator uses the skip-list by its protocol: it records a verdict
   only for the block it asked for, at most once (coordinator.py:196-214). *)
UsesSkipList == Opt!Spec

(* Once links stop failing, polls succeed again and again, however skewed the
   socket was left and whichever blocks the unit never answers. *)
PollsRecover ==
  (<>[]~faults /\ []~unloaded) => []<><<\E p \in Polls : Publish(p)>>_vars

(* A unit that never answers block H still has its meter served again and
   again: H is retired, and not probed before M has had its turn
   (coordinator.py:327-335, const.py MAX_SCAN_INTERVAL). *)
MeterServed == (<>[]~faults /\ []~unloaded) => []<>data.meter

(* A control call returns, with a value or an exception, even while links
   fail: no one waits for the lock for ever. *)
CallsReturn == \A c \in Callers : pc[c] # "idle" ~> pc[c] = "idle"

(* guarded_call's comment: "every call that touches the wire routes through
   here and hands the caller a chance to drop the socket before the next
   request goes out".  No task goes on with its next request on a socket it
   has just given up on. *)
NoRequestAfterGivingUp ==
  [][\A t \in Tasks :
       stream = "clean" /\ stream' \in Doubtful /\ lock = t => lock' # t]_vars
=============================================================================
