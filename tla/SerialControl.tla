---------------------------- MODULE SerialControl ----------------------------
(***************************************************************************)
(* What the coordinator promises to its users about the inverter: a control  *)
(* call takes effect in one step, after it was placed and before it returns;  *)
(* whole when it returns with a value, up to the write that failed when it   *)
(* raises; and never with another call's registers or values.  What a poll   *)
(* publishes is a state the inverter was in while no call was half done.     *)
(* No lock, no socket, no tasks.                                             *)
(***************************************************************************)
EXTENDS Integers

CONSTANTS Callers, Nothing,   \* no command under way
          Registers, VPP, RestoreMode, OtherModes,
          Nameplates,         \* the limits that a poll may find
          Powers, Modes, LimitModes, LimitValues, Watchdogs, Blank

VARIABLES regs,     \* the holding registers
          seen,     \* what the poll under way has read of them, or Blank
          view,     \* what the last successful poll published
          limits,   \* the charge and discharge it published
          called,   \* the command of each caller that waits for its return
          outcome   \* how the last one to have its turn ended

serialVars == <<regs, seen, view, limits, called, outcome>>

(* What a caller may ask for: a power is clamped to the limits of the moment. *)
Within(w) == IF w < -limits.charge THEN -limits.charge
             ELSE IF w > limits.discharge THEN limits.discharge ELSE w

RegisterOf == [set_work_mode |-> "mode",
               set_export_limit_mode |-> "exportMode", set_export_limit_value |-> "exportValue",
               set_import_limit_mode |-> "importMode", set_import_limit_value |-> "importValue",
               set_watchdog |-> "watchdog"]

Requests ==
  [method : {"set_battery_power"}, value : {Within(w) : w \in Powers}]
    \cup [method : {"restore"}, value : {RestoreMode}]
    \cup [method : {"set_work_mode"}, value : Modes \cup {VPP}]
    \cup [method : {"set_export_limit_mode", "set_import_limit_mode"}, value : LimitModes]
    \cup [method : {"set_export_limit_value", "set_import_limit_value"}, value : LimitValues]
    \cup [method : {"set_watchdog"}, value : Watchdogs]

(* What a command does, and what it has done when it stops half way. *)
Whole(command, r) ==
  CASE command.method = "set_battery_power" ->
         [r EXCEPT !["mode"] = VPP, !["setpoint"] = command.value]
    [] command.method = "restore" ->
         [r EXCEPT !["setpoint"] = 0, !["mode"] = command.value]
    [] OTHER -> [r EXCEPT ![RegisterOf[command.method]] = command.value]

Half(command, r) ==
  CASE command.method = "set_battery_power" -> [r EXCEPT !["mode"] = VPP]
    [] command.method = "restore" -> [r EXCEPT !["setpoint"] = 0]
    [] OTHER -> r

Partly(command, r) == {r, Half(command, r), Whole(command, r)}

(* The app may take the mode away at any time. *)
Taken(r) == {[r EXCEPT !["mode"] = m] : m \in OtherModes}

Init == /\ regs \in [Registers -> Int]
        /\ seen = Blank /\ view = Blank
        /\ limits \in [charge : Nat, discharge : Nat]
        /\ called = [c \in Callers |-> Nothing]
        /\ outcome = "none"

-----------------------------------------------------------------------------
Place(c) == /\ called[c] = Nothing
            /\ \E command \in Requests : called' = [called EXCEPT ![c] = command]
            /\ UNCHANGED <<regs, seen, view, limits, outcome>>

(* A call that returns; what the app takes meanwhile counts as after it. *)
Succeed(c) == /\ called[c] # Nothing
              /\ \E r \in {Whole(called[c], regs)} : regs' \in {r} \cup Taken(r)
              /\ called' = [called EXCEPT ![c] = Nothing]
              /\ outcome' = "ok"
              /\ UNCHANGED <<seen, view, limits>>

Fail(c) == /\ called[c] # Nothing
           /\ \E r \in Partly(called[c], regs) : regs' \in {r} \cup Taken(r)
           /\ called' = [called EXCEPT ![c] = Nothing]
           /\ outcome' \in {"failed", "cancelled"}
           /\ UNCHANGED <<seen, view, limits>>

(* Cancelled before its turn. *)
Withdraw(c) == /\ called[c] # Nothing
               /\ called' = [called EXCEPT ![c] = Nothing]
               /\ UNCHANGED <<regs, seen, view, limits, outcome>>

Override == regs' \in Taken(regs) /\ UNCHANGED <<seen, view, limits, called, outcome>>

Turn == outcome' = "none" /\ UNCHANGED <<regs, seen, view, limits, called>>

Look == seen' = regs /\ UNCHANGED <<regs, view, limits, called, outcome>>

Publish == /\ view' = seen /\ seen' = Blank
           /\ limits' \in Nameplates
           /\ outcome' = "ok"
           /\ UNCHANGED <<regs, called>>

GiveUp == /\ seen' = Blank
          /\ outcome' \in {"failed", "cancelled"}
          /\ UNCHANGED <<regs, view, limits, called>>

Next == \/ \E c \in Callers : Place(c) \/ Succeed(c) \/ Fail(c) \/ Withdraw(c)
        \/ Override \/ Turn \/ Look \/ Publish \/ GiveUp

Spec == Init /\ [][Next]_serialVars
=============================================================================
