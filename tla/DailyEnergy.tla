----------------------------- MODULE DailyEnergy -----------------------------
(***************************************************************************)
(* AnkerX1DailyEnergySensor (sensor.py): the energy of the day, as a lifetime *)
(* counter of the device minus its value when the day began.  The baseline    *)
(* outlives a restart through Home Assistant's RestoreEntity, which writes it  *)
(* out now and then and when the entity is removed.                            *)
(*                                                                          *)
(* Once the entity is added the coordinator has data, and every lifetime       *)
(* counter is in it: the branches for a missing total are left out.            *)
(***************************************************************************)
EXTENDS Integers

CONSTANTS MaxEnergy,   \* bound: energy ever produced
          MaxDays,     \* bound: days
          Crashes,     \* whether Home Assistant may die without writing out
          Rollbacks    \* whether the device's counter may restart from zero

ASSUME DailyAssumption == /\ MaxEnergy \in Nat \ {0} /\ MaxDays \in Nat
                          /\ Crashes \in BOOLEAN /\ Rollbacks \in BOOLEAN

VARIABLES
  lifetime,        \* the device's counter
  total,           \* its value in coordinator.data
  today,
  midnight,        \* the day has turned, _handle_midnight is still to run
  up,              \* the entity is added
  baseline, day,   \* _baseline, _baseline_day
  saved,           \* the extra data on disk
  produced,        \* history: energy ever produced,
  seen,            \*   the part of it that polls have read,
  opening,         \*   the part read before today,
  reading, booked  \*   the last state written, and the sum of a TOTAL_INCREASING

device == <<lifetime, produced>>
entity == <<baseline, day>>
states == <<reading, booked>>
vars == <<device, total, today, midnight, up, entity, saved, seen, opening, states>>

Unset == [baseline |-> 0, day |-> -1]     \* no extra data yet

Init == /\ lifetime \in 0..1 /\ produced = lifetime
        /\ total = 0 /\ seen = 0 /\ opening = 0
        /\ today = 0 /\ midnight = FALSE /\ up = FALSE
        /\ baseline = 0 /\ day = -1 /\ saved = Unset
        /\ reading = 0 /\ booked = 0

(* The recorder adds the growth of a TOTAL_INCREASING; a lower state is a new
   cycle, which starts from zero. *)
Book(value) == booked + (IF value >= reading THEN value - reading ELSE value)

WriteUnchecked(t, b, d) == /\ baseline' = b /\ day' = d
                           /\ reading' = t - b
                           /\ booked' = Book(t - b)

(* native_value, at every state write: a counter below the baseline has been
   rolled back. *)
WriteState(t, b, d) == /\ baseline' = IF t < b THEN t ELSE b
                       /\ day' = d
                       /\ reading' = t - baseline'
                       /\ booked' = Book(reading')

-----------------------------------------------------------------------------
Produce == /\ produced < MaxEnergy
           /\ produced' = produced + 1 /\ lifetime' = lifetime + 1
           /\ UNCHANGED <<total, today, midnight, up, entity, saved, seen, opening, states>>

(* On some firmware every day, at an hour of its own (README.md:93). *)
RollBack == /\ Rollbacks
            /\ lifetime' = 0
            /\ UNCHANGED <<produced, total, today, midnight, up, entity, saved, seen, opening, states>>

(* A poll, and the state write of its listener *)
Poll == /\ up
        /\ total' = lifetime /\ seen' = produced
        /\ WriteState(lifetime, baseline, day)
        /\ UNCHANGED <<device, today, midnight, up, saved, opening>>

(* The clock passes midnight; the callback runs when the loop gets to it. *)
DayTurns == /\ today < MaxDays /\ ~midnight
            /\ today' = today + 1 /\ midnight' = up
            /\ opening' = seen
            /\ UNCHANGED <<device, total, up, entity, saved, seen, states>>

MidnightOnlyWrites == /\ up /\ midnight
                      /\ midnight' = FALSE
                      /\ WriteState(total, baseline, day)
                      /\ UNCHANGED <<device, total, today, up, saved, seen, opening>>

HandleMidnight == /\ up /\ midnight
                  /\ midnight' = FALSE
                  /\ WriteState(total, total, today)
                  /\ UNCHANGED <<device, total, today, up, saved, seen, opening>>

AddedKeepingRestored == /\ ~up /\ up' = TRUE
                        /\ total' = lifetime /\ seen' = produced
                        /\ IF saved = Unset THEN WriteState(lifetime, lifetime, today)
                                            ELSE WriteState(lifetime, saved.baseline, saved.day)
                        /\ UNCHANGED <<device, today, midnight, saved, opening>>

(* Setup: the first refresh, then async_added_to_hass and the first state. *)
AddedToHass == /\ ~up /\ up' = TRUE
               /\ total' = lifetime /\ seen' = produced
               /\ IF saved.day # today THEN WriteState(lifetime, lifetime, today)
                                       ELSE WriteState(lifetime, saved.baseline, saved.day)
               /\ UNCHANGED <<device, today, midnight, saved, opening>>

(* RestoreEntity: extra_restore_state_data, written out at intervals and when
   the entity goes. *)
Dump == /\ up
        /\ saved' = [baseline |-> baseline, day |-> day]
        /\ UNCHANGED <<device, total, today, midnight, up, entity, seen, opening, states>>

Remove == /\ up /\ up' = FALSE /\ midnight' = FALSE
          /\ saved' = [baseline |-> baseline, day |-> day]
          /\ UNCHANGED <<device, total, today, entity, seen, opening, states>>

Crash == /\ Crashes
         /\ up /\ up' = FALSE /\ midnight' = FALSE
         /\ UNCHANGED <<device, total, today, entity, saved, seen, opening, states>>

Next == \/ Produce \/ RollBack \/ Poll \/ DayTurns \/ HandleMidnight
        \/ AddedToHass \/ Dump \/ Remove \/ Crash

Spec == Init /\ [][Next]_vars

-----------------------------------------------------------------------------
Baselines == [baseline : 0..MaxEnergy, day : -1..MaxDays]

(* Every field within its bound; in particular no state is negative, so the
   baseline never passes the counter it is subtracted from (sensor.py:597-599). *)
TypeOK == /\ lifetime \in 0..MaxEnergy /\ produced \in 0..MaxEnergy
          /\ total \in 0..MaxEnergy /\ seen \in 0..MaxEnergy
          /\ opening \in 0..MaxEnergy
          /\ today \in 0..MaxDays /\ day \in -1..MaxDays
          /\ midnight \in BOOLEAN /\ up \in BOOLEAN
          /\ baseline \in 0..MaxEnergy /\ saved \in Baselines
          /\ reading \in 0..MaxEnergy /\ booked \in Nat

(* Once midnight has been handled, the reading holds no energy that a poll of an
   earlier day had already read, whatever restart, crash, missed midnight or
   restarted counter came between ("re-based if HA was off across midnight",
   sensor.py:524-526). *)
TodaysEnergyOnly == up /\ ~midnight => reading <= seen - opening

(* A crash may lose a rebase of native_value that was never written out: then the
   restart takes up the day's older, higher baseline. *)
RebaseLost == ~up /\ saved.day = today /\ saved.baseline # baseline

(* No state that is written makes the recorder book more than the device produced
   since the poll before, across midnights, restarts and restarted counters; only
   a restart on a baseline that a rebase had replaced may (sensor.py:519-599). *)
NothingCountedTwice ==
  [][booked' - booked <= seen' - seen \/ (RebaseLost /\ up')]_vars
=============================================================================
