------------------------------ MODULE PollValues ------------------------------
(***************************************************************************)
(* What a poll makes of the words it has read (coordinator.py:338-555):       *)
(* powers of the PV strings, the corrected battery power, the inverter loss    *)
(* and the voltages of the external meter.  A frame says what the unit         *)
(* measured; OnWire, MeterWords are its words, as its firmware sends them.     *)
(***************************************************************************)
EXTENDS Words

CONSTANTS
  Frames,        \* what the unit may have measured
  NoFrame,
  PowerGain,     \* deci-volts times centi-amperes per watt
  Scale,         \* meter words per volt, on the firmware with the fine unit
  LowestMains    \* volts that some phase of a working connection has

Strings == {1, 2}
Phases == {1, 2, 3}
Standby == 0
Sleep == 3

Measurements ==
  [connected : BOOLEAN,                       \* the pv_connected option
   pv : Int, third : Int, ac : Int, battery : Int, status : Nat,
   strings : [Strings -> [volts : Int, amps : Int]],
   online : BOOLEAN,                          \* the meter communicates
   fine : BOOLEAN, mains : [Phases -> Nat]]   \* in 1/Scale V

ASSUME PollAssumption ==
  /\ Frames \subseteq Measurements /\ NoFrame \notin Measurements
  /\ PowerGain \in Nat \ {0} /\ Scale \in Nat \ {0} /\ LowestMains \in Nat \ {0}

VARIABLES frame, values

pollVars == <<frame, values>>

OnWire(n) == n % Base

MeterWords(f) == [p \in Phases |-> IF f.fine THEN f.mains[p] ELSE f.mains[p] \div Scale]

-----------------------------------------------------------------------------
decode_raw(word) == word

decode_i16(word) == IF 2 * word >= Base THEN word - Base ELSE word

NotBelowZero(n) == IF n > 0 THEN n ELSE 0

Magnitude(n) == IF n < 0 THEN -n ELSE n

(* round(n / d), ties to even; n is not negative *)
Rounded(n, d) ==
  LET q == n \div d   r == n % d
  IN  IF 2 * r > d \/ (2 * r = d /\ q % 2 = 1) THEN q + 1 ELSE q

StringPower(s) == Rounded(NotBelowZero(decode_i16(OnWire(s.volts)))
                            * NotBelowZero(decode_i16(OnWire(s.amps))), PowerGain)

(* Every phase at least LowestMains would miss one that is down. *)
AllPhasesFine(words) == \A p \in Phases : words[p] >= LowestMains * Scale

FineUnit(words) == \E p \in Phases : words[p] >= LowestMains * Scale

decode_meter_voltages(words) ==
  [p \in Phases |-> IF FineUnit(words) THEN words[p] ELSE words[p] * Scale]

PvPower(f) == IF f.connected THEN f.pv ELSE 0

StringsOf(f) == [s \in Strings |-> IF f.connected THEN StringPower(f.strings[s]) ELSE 0]

SumForAverage(f) ==
  IF ~f.connected /\ f.battery < 0
  THEN -(Magnitude(f.battery) + Magnitude(f.ac)) ELSE f.battery

BatteryPower(f) ==
  IF ~f.connected /\ f.battery < 0
  THEN -Rounded(Magnitude(f.battery) + Magnitude(f.ac), 2)
  ELSE f.battery

LossUnlessStandby(f) ==
  IF f.status # Standby THEN NotBelowZero(PvPower(f) + f.third + BatteryPower(f) - f.ac) ELSE 0

InverterLoss(f) ==
  LET balance == NotBelowZero(PvPower(f) + f.third + BatteryPower(f) - f.ac)
      observable == IF f.connected
                    THEN BatteryPower(f) > 0
                    ELSE ~(f.status \in {Standby, Sleep} /\ PvPower(f) = 0)
  IN  IF observable THEN balance ELSE 0

Decoded(f) == [strings |-> StringsOf(f), battery |-> BatteryPower(f), loss |-> InverterLoss(f),
               mains |-> IF f.online THEN decode_meter_voltages(MeterWords(f)) ELSE <<>>]

(* One poll: it keeps nothing of an earlier one. *)
Poll == /\ frame = NoFrame
        /\ frame' \in Frames
        /\ values' = Decoded(frame')
        /\ UNCHANGED vars

PollInit == Init /\ frame = NoFrame /\ values = <<>>

PollNext == Poll \/ (Next /\ UNCHANGED pollVars)

PollSpec == PollInit /\ [][PollNext]_<<vars, pollVars>>

-----------------------------------------------------------------------------
Polled == frame # NoFrame

(* At night the firmware sends small negative readings of a string: no power
   comes of them, nor of strings declared absent (coordinator.py:407-422, and
   497-509). *)
InI16(n) == 2 * n >= -Base /\ 2 * n < Base

NoPhantomPower ==
  Polled => \A s \in Strings :
    LET truth == frame.strings[s]
    IN  values.strings[s] # 0 /\ InI16(truth.volts) /\ InI16(truth.amps)
          => frame.connected /\ truth.volts > 0 /\ truth.amps > 0

(* The corrected charge power lies between the two readings it averages, and
   the correction never turns charging into discharging (coordinator.py:516-526). *)
Between(n, a, b) == (a <= n /\ n <= b) \/ (b <= n /\ n <= a)

CorrectionBetween ==
  Polled /\ frame.battery < 0 =>
    IF frame.connected THEN values.battery = frame.battery
    ELSE Between(-values.battery, Magnitude(frame.battery), Magnitude(frame.ac))

(* In Standby and in Sleep an AC-coupled unit without an array reports no loss,
   whatever flows past its idle port (coordinator.py:545-554).  With an array the
   code's comment promises a loss; the README tells what becomes of it. *)
IdleShowsNoLoss ==
  Polled /\ ~frame.connected /\ frame.pv = 0 /\ frame.status \in {Standby, Sleep}
    => values.loss = 0

(* Whichever unit the firmware uses, and with one or two phases down, the meter's
   voltages are the true ones, to the resolution of that unit
   (modbus_client.py:236-241). *)
MeterVoltagesTrue ==
  Polled /\ frame.online
    /\ (\E p \in Phases : frame.mains[p] >= LowestMains * Scale)
    /\ (\A p \in Phases : frame.mains[p] < LowestMains * Scale * Scale)
  => \A p \in Phases :
       values.mains[p] = IF frame.fine THEN frame.mains[p]
                         ELSE Scale * (frame.mains[p] \div Scale)
=============================================================================
