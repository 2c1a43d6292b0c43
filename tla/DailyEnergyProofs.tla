-------------------------- MODULE DailyEnergyProofs --------------------------
(***************************************************************************)
(* Theorems about DailyEnergy for any number of days, restarts, crashes and    *)
(* restarts of the device's counter: the range of every state, and what the    *)
(* energies stand for.                                                          *)
(***************************************************************************)
EXTENDS DailyEnergy, TLAPS

Types == /\ lifetime \in Nat /\ total \in Nat /\ produced \in Nat
         /\ seen \in Nat /\ opening \in Nat /\ reading \in Nat /\ booked \in Nat
         /\ today \in Nat /\ day \in Int /\ baseline \in Nat
         /\ saved \in [baseline : Nat, day : Int]

Counts == /\ baseline <= total /\ reading = total - baseline
          /\ opening <= seen /\ seen <= produced /\ lifetime <= produced

(* What the polls have not read: the counter's lead over their copy of it, or, when
   the counter restarted behind their back, all that it shows and more. *)
Behind == \/ total <= lifetime /\ produced - seen = lifetime - total
          \/ lifetime <= produced - seen

(* The day stamped on a baseline is the day it was taken: a baseline stamped
   today, in memory or on disk, is of today, no midnight callback is still to come
   for it, and the one on disk is the higher, for a rebase only lowers it. *)
Stamps == /\ day <= today /\ saved.day <= today
          /\ midnight => up /\ day # today /\ saved.day # today
          /\ up /\ ~midnight => day = today
          /\ day = today => reading <= seen - opening
          /\ saved.day = today => saved.baseline >= baseline /\ day = today

DailyInv == Types /\ Counts /\ Behind /\ Stamps

LEMMA InitDaily == Init => DailyInv
<1> SUFFICES ASSUME Init PROVE DailyInv
    OBVIOUS
<1>1. Types
  BY DEF Init, Types, Unset
<1>2. Counts /\ Behind
  BY DEF Init, Counts, Behind
<1>3. Stamps
  BY DEF Init, Stamps, Unset
<1> QED BY <1>1, <1>2, <1>3 DEF DailyInv

(* What is written to the states: never less than nothing, and never more to the
   recorder than the state grew, or, in a new cycle, than it is. *)
LEMMA StateWritten ==
  ASSUME reading \in Nat, booked \in Nat, NEW t \in Nat, NEW b \in Nat, NEW d, WriteState(t, b, d)
  PROVE  /\ baseline' \in Nat /\ baseline' <= t /\ (b <= t => baseline' = b)
         /\ day' = d
         /\ reading' \in Nat /\ reading' = t - baseline' /\ reading' <= t
         /\ booked' \in Nat
         /\ \/ reading' >= reading /\ booked' = booked + (reading' - reading)
            \/ reading' < reading /\ booked' = booked + reading'
<1>1. baseline' \in Nat /\ baseline' <= t /\ (b <= t => baseline' = b) /\ day' = d
  BY DEF WriteState
<1>2. reading' = t - baseline' /\ reading' \in Nat /\ reading' <= t
  BY <1>1 DEF WriteState
<1>3. booked' = booked + (IF reading' >= reading THEN reading' - reading ELSE reading')
  BY DEF WriteState, Book
<1>4. \/ reading' >= reading /\ booked' = booked + (reading' - reading)
      \/ reading' < reading /\ booked' = booked + reading'
  BY <1>2, <1>3
<1>5. booked' \in Nat
  BY <1>2, <1>4
<1> QED BY <1>1, <1>2, <1>4, <1>5

(* The growth of a state, or a new one within what the polls had not read. *)
LEMMA Growth ==
  ASSUME NEW r \in Nat, NEW n \in Nat, NEW m \in Nat, NEW w \in Nat, NEW g \in Nat,
         n = r + g \/ n <= g,
         (n >= r /\ w = m + (n - r)) \/ (n < r /\ w = m + n)
  PROVE  w - m <= g
  OBVIOUS

(* A refresh on a baseline of the day, after a poll or a restart. *)
LEMMA Refreshed ==
  ASSUME DailyInv, total' = lifetime, seen' = produced, NEW b \in Nat, b >= baseline,
         WriteState(lifetime, b, day),
         UNCHANGED <<lifetime, produced, opening, today, midnight, saved>>
  PROVE  /\ Types' /\ Counts' /\ Behind'
         /\ day' = day /\ (day = today => reading' <= seen' - opening')
         /\ baseline' <= b
         /\ b = baseline => booked' - booked <= seen' - seen
<1>0. /\ Types /\ Counts /\ Stamps
      /\ lifetime \in Nat /\ total \in Nat /\ produced \in Nat /\ seen \in Nat /\ opening \in Nat
      /\ reading \in Nat /\ booked \in Nat /\ baseline \in Nat
  BY DEF DailyInv, Types
<1>1. /\ baseline' \in Nat /\ baseline' <= lifetime /\ baseline' <= b
      /\ (b <= lifetime => baseline' = b) /\ (baseline <= lifetime => baseline <= baseline')
  BY <1>0 DEF WriteState
<1>2. day' = day /\ reading' \in Nat /\ reading' = lifetime - baseline' /\ reading' <= lifetime /\ booked' \in Nat
  BY <1>0, StateWritten
<1>3. \/ reading' >= reading /\ booked' = booked + (reading' - reading)
      \/ reading' < reading /\ booked' = booked + reading'
  BY <1>0, StateWritten
<1>4. opening <= seen /\ seen <= produced /\ reading = total - baseline
      /\ baseline <= total /\ lifetime <= produced
  BY <1>0 DEF Counts
<1>5. Types'
  BY <1>0, <1>1, <1>2 DEF Types
<1>6. Counts'
  BY <1>0, <1>1, <1>2, <1>4 DEF Counts
<1>7. Behind'
  BY <1>0 DEF Behind
<1> DEFINE newBaseline == baseline'   newReading == reading'   newBooked == booked'
<1>8. /\ newBaseline \in Nat /\ newReading \in Nat /\ newBooked \in Nat
      /\ newReading = lifetime - newBaseline /\ newReading <= lifetime
      /\ (baseline <= lifetime => baseline <= newBaseline /\ (b = baseline => newBaseline = baseline))
      /\ \/ newReading >= reading /\ newBooked = booked + (newReading - reading)
         \/ newReading < reading /\ newBooked = booked + newReading
  BY <1>1, <1>2, <1>3
<1> HIDE DEF newBaseline, newReading, newBooked
<1>9. /\ day = today => newReading <= produced - opening
      /\ b = baseline => newBooked - booked <= produced - seen
  <2>1. CASE total <= lifetime /\ produced - seen = lifetime - total
    <3>1. baseline <= newBaseline /\ (b = baseline => newBaseline = baseline)
      BY <1>0, <1>4, <1>8, <2>1
    <3>2. newReading - reading <= produced - seen
      BY <1>0, <1>4, <1>8, <2>1, <3>1
    <3>3. day = today => newReading <= produced - opening
      <4>1. day = today => reading <= seen - opening
        BY <1>0 DEF Stamps
      <4> QED BY <1>0, <1>8, <3>2, <4>1
    <3>4. ASSUME b = baseline PROVE newBooked - booked <= produced - seen
      <4>1. newReading = reading + (produced - seen)
        BY <1>0, <1>4, <1>8, <2>1, <3>1, <3>4
      <4>2. produced - seen \in Nat
        BY <1>0, <1>4
      <4> QED BY <1>0, <1>8, <4>1, <4>2, Growth
    <3> QED BY <3>3, <3>4
  <2>2. CASE lifetime <= produced - seen
    <3>1. produced - seen \in Nat /\ newReading <= produced - seen
      BY <1>0, <1>4, <1>8, <2>2
    <3>2. newReading <= produced - opening
      BY <1>0, <1>4, <1>8, <3>1
    <3>3. newBooked - booked <= produced - seen
      BY <1>0, <1>8, <3>1, Growth
    <3> QED BY <3>2, <3>3
  <2> QED BY <2>1, <2>2 DEF DailyInv, Behind
<1> QED BY <1>1, <1>2, <1>5, <1>6, <1>7, <1>9 DEF newReading, newBooked

LEMMA StepDaily == DailyInv /\ [Next]_vars => DailyInv'
<1> SUFFICES ASSUME DailyInv, [Next]_vars PROVE DailyInv'
    OBVIOUS
<1> USE DailyAssumption DEF DailyInv
<1>1. CASE Produce
  BY <1>1 DEF Produce, entity, states, Types, Counts, Behind, Stamps
<1>2. CASE RollBack
  BY <1>2 DEF RollBack, entity, states, Types, Counts, Behind, Stamps
<1>3. CASE Poll
  <2>1. /\ up /\ up' = up /\ total' = lifetime /\ seen' = produced
        /\ WriteState(lifetime, baseline, day)
        /\ UNCHANGED <<lifetime, produced, opening, today, midnight, saved>>
    BY <1>3 DEF Poll, device
  <2>2. /\ Types' /\ Counts' /\ Behind'
        /\ day' = day /\ (day = today => reading' <= seen' - opening')
        /\ baseline' <= baseline
    BY <2>1, Refreshed DEF Types
  <2>3. Stamps'
    BY <2>1, <2>2 DEF Types, Stamps
  <2> QED BY <2>2, <2>3
<1>4. CASE DayTurns
  BY <1>4 DEF DayTurns, device, entity, states, Types, Counts, Behind, Stamps
<1>5. CASE HandleMidnight
  <2>1. /\ UNCHANGED <<lifetime, produced, total, seen, opening, today, saved, up>>
        /\ up /\ midnight /\ midnight' = FALSE
    BY <1>5 DEF HandleMidnight, device
  <2>2. baseline' = total /\ day' = today /\ reading' = 0 /\ booked' = booked
    <3>1. WriteState(total, total, today)
      BY <1>5 DEF HandleMidnight
    <3> QED BY <3>1, StateWritten DEF Types
  <2>3. Types'
    BY <2>1, <2>2 DEF Types
  <2>4. Counts' /\ Behind'
    BY <2>1, <2>2 DEF Types, Counts, Behind
  <2>5. Stamps'
    BY <2>1, <2>2 DEF Types, Counts, Stamps
  <2> QED BY <2>3, <2>4, <2>5
<1>6. CASE AddedToHass
  <2>1. /\ ~up /\ up' = TRUE /\ total' = lifetime /\ seen' = produced
        /\ UNCHANGED <<lifetime, produced, opening, today, midnight, saved>>
    BY <1>6 DEF AddedToHass, device
  <2>2. CASE saved.day # today
    <3>1. baseline' = lifetime /\ day' = today /\ reading' = 0 /\ booked' = booked
      <4>1. WriteState(lifetime, lifetime, today)
        BY <1>6, <2>2 DEF AddedToHass
      <4> QED BY <4>1, StateWritten DEF Types
    <3>2. Types'
      BY <2>1, <3>1 DEF Types
    <3>3. Counts' /\ Behind'
      BY <2>1, <3>1 DEF Types, Counts, Behind
    <3>4. Stamps'
      BY <2>1, <2>2, <3>1 DEF Types, Counts, Stamps
    <3> QED BY <3>2, <3>3, <3>4
  <2>3. CASE saved.day = today
    <3>1. saved.baseline >= baseline /\ day = today /\ saved.baseline \in Nat
      BY <2>1, <2>3 DEF Types, Stamps
    <3>2. WriteState(lifetime, saved.baseline, day)
      BY <1>6, <2>3, <3>1 DEF AddedToHass
    <3>3. /\ Types' /\ Counts' /\ Behind'
          /\ day' = day /\ (day = today => reading' <= seen' - opening')
          /\ baseline' <= saved.baseline
      BY <2>1, <3>1, <3>2, Refreshed
    <3>4. Stamps'
      BY <2>1, <2>3, <3>1, <3>3 DEF Types, Stamps
    <3> QED BY <3>3, <3>4
  <2> QED BY <2>2, <2>3
<1>7. CASE Dump \/ Remove
  <2>1. /\ UNCHANGED <<lifetime, produced, total, seen, opening, today, baseline, day, reading, booked>>
        /\ saved' = [baseline |-> baseline, day |-> day]
        /\ midnight' \in {midnight, FALSE} /\ up /\ (up' => midnight' = midnight)
    BY <1>7 DEF Dump, Remove, device, entity, states
  <2>2. Types' /\ Counts' /\ Behind'
    BY <2>1 DEF Types, Counts, Behind
  <2>3. (midnight => up)'
    BY <1>7 DEF Dump, Remove, Stamps
  <2>4. Stamps'
    BY <2>1, <2>3 DEF Types, Stamps
  <2> QED BY <2>2, <2>4
<1>8. CASE Crash
  BY <1>8 DEF Crash, device, entity, states, Types, Counts, Behind, Stamps
<1>9. CASE UNCHANGED vars
  BY <1>9 DEF vars, device, entity, states, Types, Counts, Behind, Stamps
<1> QED
  BY <1>1, <1>2, <1>3, <1>4, <1>5, <1>6, <1>7, <1>8, <1>9 DEF Next

LEMMA StepBooked ==
  DailyInv /\ [Next]_vars => booked' - booked <= seen' - seen \/ (RebaseLost /\ up')
<1> SUFFICES ASSUME DailyInv, [Next]_vars, ~(RebaseLost /\ up') PROVE booked' - booked <= seen' - seen
    OBVIOUS
<1>0. Types /\ Stamps /\ seen \in Nat /\ produced \in Nat /\ seen <= produced /\ booked \in Nat
  BY DEF DailyInv, Types, Counts
<1>1. ASSUME booked' = booked, seen' \in {seen, produced} PROVE booked' - booked <= seen' - seen
  <2>1. CASE seen' = seen
    BY <1>0, <1>1, <2>1
  <2>2. CASE seen' = produced
    <3>1. booked' - booked = 0 /\ seen' - seen = produced - seen
      BY <1>0, <1>1, <2>2
    <3>2. 0 <= produced - seen
      BY <1>0
    <3> QED BY <3>1, <3>2
  <2> QED BY <1>1, <2>1, <2>2
<1>2. CASE Produce \/ RollBack \/ DayTurns \/ Dump \/ Remove \/ Crash \/ UNCHANGED vars
  BY <1>1, <1>2 DEF Produce, RollBack, DayTurns, Dump, Remove, Crash, vars, states
<1>3. CASE Poll
  BY <1>0, <1>3, Refreshed DEF Poll, device, Types
<1>4. CASE HandleMidnight
  <2>1. WriteState(total, total, today) /\ seen' = seen
    BY <1>4 DEF HandleMidnight
  <2>2. booked' = booked
    BY <1>0, <2>1, StateWritten DEF Types
  <2> QED BY <1>1, <2>1, <2>2
<1>5. CASE AddedToHass
  <2>1. /\ ~up /\ up' /\ total' = lifetime /\ seen' = produced
        /\ UNCHANGED <<lifetime, produced, opening, today, midnight, saved>>
    BY <1>5 DEF AddedToHass, device
  <2>2. CASE saved.day # today
    <3>1. WriteState(lifetime, lifetime, today)
      BY <1>5, <2>2 DEF AddedToHass
    <3>2. booked' = booked
      BY <1>0, <3>1, StateWritten DEF Types
    <3> QED BY <1>1, <2>1, <3>2
  <2>3. CASE saved.day = today
    <3>1. saved.baseline = baseline /\ day = today
      BY <1>0, <2>1, <2>3 DEF Stamps, RebaseLost
    <3>2. WriteState(lifetime, baseline, day)
      BY <1>5, <2>3, <3>1 DEF AddedToHass
    <3> QED BY <1>0, <2>1, <3>2, Refreshed DEF Types
  <2> QED BY <2>2, <2>3
<1> QED BY <1>2, <1>3, <1>4, <1>5 DEF Next

(* No restart, crash, missed midnight or restarted counter makes the recorder book
   more than the device produced since the poll before, save a restart that takes
   up a baseline which a rebase had replaced (sensor.py:519-599). *)
THEOREM CountedOnce == Spec => NothingCountedTwice
<1> QED BY InitDaily, StepDaily, StepBooked, PTL DEF Spec, NothingCountedTwice

(* After midnight was handled, no energy read before today is in the reading
   (sensor.py:567-583). *)
THEOREM OnlyToday == Spec => []TodaysEnergyOnly
<1>1. DailyInv => TodaysEnergyOnly
  BY DEF DailyInv, Stamps, TodaysEnergyOnly
<1> QED BY InitDaily, StepDaily, <1>1, PTL DEF Spec

-----------------------------------------------------------------------------
(* A counter may restart, but never runs ahead of the production. *)
InRange == TypeOK /\ lifetime <= produced

(* Rebasing keeps the baseline at or below the counter it is taken from. *)
LEMMA WrittenInRange ==
  ASSUME InRange, NEW t \in 0..MaxEnergy, NEW b \in 0..MaxEnergy, NEW d \in -1..MaxDays,
         WriteState(t, b, d)
  PROVE  /\ baseline' \in 0..MaxEnergy /\ day' \in -1..MaxDays
         /\ reading' \in 0..MaxEnergy /\ booked' \in Nat
<1>1. baseline' \in 0..MaxEnergy /\ baseline' <= t /\ day' \in -1..MaxDays
  BY DEF WriteState
<1>2. reading' \in 0..MaxEnergy
  BY <1>1, DailyAssumption DEF WriteState
<1>3. booked' \in Nat
  BY <1>2, DailyAssumption DEF WriteState, Book, InRange, TypeOK
<1> QED BY <1>1, <1>2, <1>3

LEMMA StepInRange == InRange /\ [Next]_vars => InRange'
<1> SUFFICES ASSUME InRange, [Next]_vars PROVE InRange'
    OBVIOUS
<1> USE DailyAssumption
<1>1. CASE Produce
  BY <1>1 DEF Produce, entity, states, InRange, TypeOK, Baselines
<1>2. CASE RollBack
  BY <1>2 DEF RollBack, entity, states, InRange, TypeOK, Baselines
<1>3. CASE Poll
  <2>1. WriteState(lifetime, baseline, day)
    BY <1>3 DEF Poll
  <2>2. /\ lifetime \in 0..MaxEnergy /\ baseline \in 0..MaxEnergy /\ day \in -1..MaxDays
    BY DEF InRange, TypeOK
  <2>3. /\ baseline' \in 0..MaxEnergy /\ day' \in -1..MaxDays
        /\ reading' \in 0..MaxEnergy /\ booked' \in Nat
    BY <2>1, <2>2, WrittenInRange
  <2> QED BY <1>3, <2>3 DEF Poll, device, InRange, TypeOK
<1>4. CASE DayTurns
  BY <1>4 DEF DayTurns, device, entity, states, InRange, TypeOK
<1>5. CASE HandleMidnight
  <2>1. WriteState(total, total, today)
    BY <1>5 DEF HandleMidnight
  <2>2. total \in 0..MaxEnergy /\ today \in -1..MaxDays
    BY DEF InRange, TypeOK
  <2>3. /\ baseline' \in 0..MaxEnergy /\ day' \in -1..MaxDays
        /\ reading' \in 0..MaxEnergy /\ booked' \in Nat
    BY <2>1, <2>2, WrittenInRange
  <2> QED BY <1>5, <2>3 DEF HandleMidnight, device, InRange, TypeOK
<1>6. CASE AddedToHass
  <2>1. PICK b \in 0..MaxEnergy, d \in -1..MaxDays : WriteState(lifetime, b, d)
    <3>1. /\ lifetime \in 0..MaxEnergy /\ today \in -1..MaxDays
          /\ saved.baseline \in 0..MaxEnergy /\ saved.day \in -1..MaxDays
      BY DEF InRange, TypeOK, Baselines
    <3> QED BY <1>6, <3>1 DEF AddedToHass
  <2>2. lifetime \in 0..MaxEnergy
    BY DEF InRange, TypeOK
  <2>3. /\ baseline' \in 0..MaxEnergy /\ day' \in -1..MaxDays
        /\ reading' \in 0..MaxEnergy /\ booked' \in Nat
    BY <2>1, <2>2, WrittenInRange
  <2> QED BY <1>6, <2>3 DEF AddedToHass, device, InRange, TypeOK
<1>7. CASE Dump \/ Remove
  <2>1. [baseline |-> baseline, day |-> day] \in Baselines
    BY DEF InRange, TypeOK, Baselines
  <2>2. saved' \in Baselines
    BY <1>7, <2>1 DEF Dump, Remove
  <2>3. CASE Dump
    BY <2>2, <2>3 DEF Dump, device, entity, states, InRange, TypeOK
  <2>4. CASE Remove
    BY <2>2, <2>4 DEF Remove, device, entity, states, InRange, TypeOK
  <2> QED BY <1>7, <2>3, <2>4
<1>8. CASE Crash
  BY <1>8 DEF Crash, device, entity, states, InRange, TypeOK
<1>9. CASE UNCHANGED vars
  BY <1>9 DEF vars, device, entity, states, InRange, TypeOK
<1> QED
  BY <1>1, <1>2, <1>3, <1>4, <1>5, <1>6, <1>7, <1>8, <1>9 DEF Next

(* No state of the sensor is negative or beyond the production, whatever restarts
   first, and however often: Home Assistant, without warning or not, or the device's counter
   (sensor.py:597-599). *)
THEOREM TypeCorrect == Spec => []TypeOK
<1>1. Init => InRange
  <2>1. Unset \in Baselines
    BY DailyAssumption DEF Unset, Baselines
  <2> SUFFICES ASSUME Init PROVE InRange
      OBVIOUS
  <2>2. lifetime \in 0..MaxEnergy /\ produced \in 0..MaxEnergy /\ lifetime <= produced
    BY DailyAssumption DEF Init
  <2>3. 0 \in 0..MaxEnergy /\ 0 \in 0..MaxDays /\ -1 \in -1..MaxDays
    BY DailyAssumption
  <2>4. saved \in Baselines
    BY <2>1 DEF Init
  <2> QED BY <2>2, <2>3, <2>4 DEF Init, InRange, TypeOK
<1>2. InRange => TypeOK
  BY DEF InRange
<1> QED BY <1>1, <1>2, StepInRange, PTL DEF Spec
=============================================================================
