--------------------------- MODULE SerialRefinement ---------------------------
(***************************************************************************)
(* Coordinator implements SerialControl.  While a call holds the lock its    *)
(* writes reach the inverter one by one; to the users nothing has happened   *)
(* until it lets go.  Two history variables: before keeps the registers as   *)
(* the call found them, called the method and argument of every call that    *)
(* has not returned.                                                         *)
(***************************************************************************)
EXTENDS Coordinator

VARIABLES before, called

Nothing == [method |-> "none", value |-> 0]

Serial == INSTANCE SerialControl WITH
  Powers <- PowerRequests, Modes <- ModeRequests,
  Watchdogs <- WatchdogRequests \cap (MinWatchdog..MaxWatchdog),
  Blank <- NoRegs,
  regs <- IF lock \in Callers THEN before ELSE regs,
  seen <- IF lock \in Polls THEN frame[lock].regs ELSE NoRegs,
  view <- data.regs,
  limits <- bounds,
  outcome <- ended

Begins(c) == pc[c] = "idle" /\ pc'[c] = "wait"

Noted(c, name, argument) == called' = [called EXCEPT ![c] = [method |-> name, value |-> argument]]

(* Which method it was, and what it was asked for, whatever it goes on to write. *)
Placed(c) ==
  \/ \E w \in PowerRequests :
       SetBatteryPower(c, w) /\ Noted(c, "set_battery_power", Serial!Within(w))
  \/ \E m \in ModeRequests : SetWorkMode(c, m) /\ Noted(c, "set_work_mode", m)
  \/ Engage(c) /\ Noted(c, "set_work_mode", VPP)
  \/ Restore(c) /\ Noted(c, "restore", RestoreMode)
  \/ \E m \in LimitModes :
       \/ SetExportLimitMode(c, m) /\ Noted(c, "set_export_limit_mode", m)
       \/ SetImportLimitMode(c, m) /\ Noted(c, "set_import_limit_mode", m)
  \/ \E v \in LimitValues :
       \/ SetExportLimitValue(c, v) /\ Noted(c, "set_export_limit_value", v)
       \/ SetImportLimitValue(c, v) /\ Noted(c, "set_import_limit_value", v)
  \/ \E n \in WatchdogRequests : SetWatchdog(c, n) /\ Noted(c, "set_watchdog", n)

HInit == Init /\ before = NoRegs /\ called = [c \in Callers |-> Nothing]

HNext == /\ Next
         /\ before' = IF lock' \notin Callers THEN NoRegs ELSE IF lock = lock' THEN before ELSE regs
         /\ \/ \E c \in Callers : Begins(c) /\ Placed(c)
            \/ /\ \A c \in Callers : ~Begins(c)
               /\ called' = [c \in Callers |-> IF pc'[c] = "idle" THEN Nothing ELSE called[c]]

hvars == <<vars, before, called>>

HSpec == HInit /\ [][HNext]_hvars

(* A call that returns has written its own registers with its own values, all
   of them; one that raises wrote the first of them, or none; calls are serial,
   and no poll publishes one half done, although calls and polls interleave,
   fail and are cancelled, and a poll may replace the nameplate a call was
   clamped to (coordinator.py:231 and 660-776, the lock around every read and
   write). *)
SerialControlHolds == Serial!Spec
=============================================================================
