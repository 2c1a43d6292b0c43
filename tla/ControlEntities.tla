--------------------------- MODULE ControlEntities ---------------------------
(***************************************************************************)
(* The number, select and switch entities (number.py, select.py, switch.py)  *)
(* on top of the coordinator.  They keep no state: an entity offers a range,   *)
(* or a list of options, made from the data of the last poll, Home Assistant   *)
(* refuses a value outside it, and the rest is a call of a control method.     *)
(* The range of a limit depends on its mode, which may change between the      *)
(* poll that was looked at and the write; the history variable basis keeps     *)
(* the registers each call was validated against.                              *)
(***************************************************************************)
EXTENDS SerialRefinement

CONSTANTS PercentMode,        \* 1: the limit is a percentage of the rated power
          PercentMax, WattMax \* 100 and 30000

ASSUME EntitiesAssumption == PercentMode \in Int /\ PercentMax \in Nat /\ WattMax \in Nat

VARIABLE basis

RangeIn(mode) == 0..(IF mode = PercentMode THEN PercentMax ELSE WattMax)

ExportRange == RangeIn(data.regs["exportMode"])

ExportForBoth == RangeIn(data.regs["exportMode"])

ImportRange == RangeIn(data.regs["importMode"])

ExposedModes == {0, 1, 2, 3, 4, 5, 16, 20}
LimitOptions == {0, 1, 2}

(* The calls Home Assistant lets through: a value in the entity's range or among
   its options.  The setpoint needs no guard, its range is what the coordinator
   clamps to; the switches and the watchdog service have none. *)
Offered(command) ==
  /\ command.method = "set_export_limit_value" => command.value \in ExportRange
  /\ command.method = "set_import_limit_value" => command.value \in ImportRange
  /\ command.method \in {"set_export_limit_mode", "set_import_limit_mode"} =>
       command.value \in LimitOptions
  /\ command.method = "set_work_mode" => command.value \in ExposedModes

EInit == HInit /\ basis = [c \in Callers |-> NoRegs]

ENext == /\ HNext
         /\ \A c \in Callers : Begins(c) => Offered(called'[c])
         /\ basis' = [c \in Callers |-> IF Begins(c) THEN data.regs
                                        ELSE IF pc'[c] = "idle" THEN NoRegs ELSE basis[c]]

evars == <<hvars, basis>>

ESpec == EInit /\ [][ENext]_evars

-----------------------------------------------------------------------------
(* A limit value is read by the inverter in the unit of the mode in force.  One
   that is out of range in that mode is written only when the mode changed under
   the call: between the poll its entity offered the range from and the write
   (number.py:112-118 and 165-171; the two limits do not mix). *)
Limits == {[mode |-> "exportMode", value |-> "exportValue"],
           [mode |-> "importMode", value |-> "importValue"]}

LimitFitsItsMode ==
  [][\A c \in Callers, l \in Limits :
       lock = c /\ regs'[l.value] # regs[l.value] =>
         \/ regs'[l.value] \in RangeIn(regs[l.mode])
         \/ basis[c][l.mode] # regs[l.mode]]_evars
=============================================================================
