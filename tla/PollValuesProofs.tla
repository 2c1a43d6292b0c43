--------------------------- MODULE PollValuesProofs ---------------------------
(***************************************************************************)
(* Theorems about PollValues, for every measurement, width of a word and      *)
(* scale of the meter.                                                        *)
(***************************************************************************)
EXTENDS PollValues, TLAPS

-----------------------------------------------------------------------------
(* The codec (Words).                                                        *)

LEMMA Division ==
  ASSUME NEW b \in Nat, b > 0, NEW n \in Int
  PROVE  n % b \in 0..(b-1) /\ n \div b \in Int /\ n = b * (n \div b) + (n % b)
  BY SMT

LEMMA HighWord ==
  ASSUME NEW b \in Nat, b > 0, NEW u \in 0..(b * b - 1)
  PROVE  u \div b \in 0..(b - 1)
<1>1. u % b \in 0..(b - 1) /\ u \div b \in Int /\ u = b * (u \div b) + (u % b)
  BY Division
<1> DEFINE q == u \div b
<1> HIDE DEF q
<1>2. q \in Int /\ b * q <= u /\ u < b * q + b
  BY <1>1 DEF q
<1>3. q >= 0
  BY <1>2, SMT
<1>4. q < b
  BY <1>2, SMT
<1> QED BY <1>2, <1>3, <1>4 DEF q

LEMMA Modulo ==
  ASSUME NEW b \in Nat, b > 0, NEW n \in Int
  PROVE  /\ 0 <= n /\ n < b => n % b = n
         /\ n < 0 /\ 0 <= n + b => n % b = n + b
<1>1. n % b \in 0..(b-1) /\ n \div b \in Int /\ n = b * (n \div b) + (n % b)
  BY Division
<1> DEFINE q == n \div b   r == n % b
<1> HIDE DEF q, r
<1>2. q \in Int /\ r \in Int /\ 0 <= r /\ r < b /\ n = b * q + r
  BY <1>1 DEF q, r
<1>3. ASSUME 0 <= n, n < b PROVE r = n
  <2>1. q = 0
    BY <1>2, <1>3, SMT
  <2> QED BY <1>2, <2>1, SMT
<1>4. ASSUME n < 0, 0 <= n + b PROVE r = n + b
  <2>1. q = -1
    BY <1>2, <1>4, SMT
  <2> QED BY <1>2, <2>1, SMT
<1> QED BY <1>3, <1>4 DEF r

(* le_words loses nothing: its two words are registers, and together they are
   the number modulo 2^32 (modbus_client.py:271-278). *)
LEMMA EncodedWords ==
  ASSUME NEW n \in Int
  PROVE  le_words(n) \in Word \X Word /\ decode_u32_le(le_words(n)) = n % (Base * Base)
<1> DEFINE u == n % (Base * Base)
<1> HIDE DEF u
<1>1. Base \in Nat /\ Base > 0 /\ Base * Base \in Nat /\ Base * Base > 0
  <2>1. Base \in Nat /\ Base > 1
    BY WordsAssumption
  <2> QED BY <2>1, SMT
<1>2. u \in 0..(Base * Base - 1)
  BY <1>1, Division DEF u
<1>3. u \in Int
  BY <1>1, <1>2, SMT
<1>4. u % Base \in Word /\ u = Base * (u \div Base) + (u % Base) /\ u \div Base \in Int
  BY <1>1, <1>3, Division DEF Word
<1>5. u \div Base \in Word
  BY <1>1, <1>2, HighWord DEF Word
<1>6. le_words(n) = <<u % Base, u \div Base>>
  BY DEF le_words, u
<1>7. decode_u32_le(le_words(n)) = (u % Base) + Base * (u \div Base)
  BY <1>6 DEF decode_u32_le
<1>8. (u % Base) + Base * (u \div Base) = u
  <2>1. u % Base \in Int /\ Base * (u \div Base) \in Int
    BY <1>1, <1>4, SMT DEF Word
  <2> QED BY <1>4, <2>1, SMT
<1> QED BY <1>4, <1>5, <1>6, <1>7, <1>8 DEF u

(* Every signed number of two words survives the way out and back. *)
LEMMA RoundTrip ==
  ASSUME NEW n \in Int, 2 * n < Base * Base, 2 * n >= -(Base * Base)
  PROVE  decode_i32_le(le_words(n)) = n
<1> DEFINE bb == Base * Base   v == decode_u32_le(le_words(n))
<1> HIDE DEF bb, v
<1>1. bb \in Nat /\ bb > 0
  <2>1. Base \in Nat /\ Base > 1
    BY WordsAssumption
  <2> QED BY <2>1, SMT DEF bb
<1>2. 2 * n < bb /\ 2 * n >= -bb
  BY DEF bb
<1>3. v = n % bb
  BY EncodedWords DEF bb, v
<1>4. decode_i32_le(le_words(n)) = IF 2 * v >= bb THEN v - bb ELSE v
  BY DEF decode_i32_le, v, bb
<1>5. CASE n >= 0
  <2>1. n < bb
    BY <1>1, <1>2, <1>5, SMT
  <2>2. v = n
    BY <1>1, <1>3, <1>5, <2>1, Modulo
  <2> QED BY <1>1, <1>2, <1>4, <2>2, SMT
<1>6. CASE n < 0
  <2>1. n + bb >= 0
    BY <1>1, <1>2, <1>6, SMT
  <2>2. v = n + bb
    BY <1>1, <1>3, <1>6, <2>1, Modulo
  <2> QED BY <1>1, <1>2, <1>4, <2>2, SMT
<1> QED BY <1>5, <1>6

LEMMA ZeroReadsBack == decode_i32_le(<<0, 0>>) = 0
<1>1. Base \in Nat /\ Base > 1
  BY WordsAssumption
<1>2. decode_u32_le(<<0, 0>>) = 0
  BY <1>1, SMT DEF decode_u32_le
<1>3. Base * Base > 0 /\ Base * Base \in Int
  BY <1>1, SMT
<1>4. ~(2 * decode_u32_le(<<0, 0>>) >= Base * Base)
  BY <1>2, <1>3, SMT
<1> QED BY <1>2, <1>4 DEF decode_i32_le

-----------------------------------------------------------------------------
(* What the two properties need between steps: words that are registers, and a
   setpoint within bounds that never change. *)
WordsInv ==
  /\ setpoint \in Word \X Word
  /\ Bound(rated, FallbackCharge) \in Nat /\ Bound(maxActive, FallbackDischarge) \in Nat
  /\ SetpointReadsBack

LEMMA BoundType ==
  ASSUME NEW n \in Nameplates, NEW fallback \in Nat
  PROVE  Bound(<<n % Base, n \div Base>>, fallback) \in Nat
<1>1. Base \in Nat /\ Base > 0 /\ n \in 0..(Base * Base - 1)
  BY WordsAssumption, SMT
<1>2. n % Base \in Nat /\ n \div Base \in Nat
  BY <1>1, Division, HighWord
<1>3. (n % Base) + Base * (n \div Base) \in Nat
  BY <1>1, <1>2, SMT
<1> QED BY <1>3 DEF Bound, decode_u32_le

LEMMA InitWords == Init => WordsInv
<1> SUFFICES ASSUME Init PROVE WordsInv
    OBVIOUS
<1>1. Base \in Nat /\ Base > 1 /\ FallbackCharge \in Nat /\ FallbackDischarge \in Nat
  BY WordsAssumption
<1>2. Bound(rated, FallbackCharge) \in Nat /\ Bound(maxActive, FallbackDischarge) \in Nat
  BY <1>1, BoundType DEF Init
<1>3. setpoint = <<0, 0>> /\ sent = 0
  BY DEF Init
<1>4. setpoint \in Word \X Word
  BY <1>1, <1>3 DEF Word
<1>5. decode_i32_le(setpoint) = 0
  BY <1>3, ZeroReadsBack
<1> QED BY <1>2, <1>3, <1>4, <1>5 DEF WordsInv, SetpointReadsBack

LEMMA StepWords == WordsInv /\ [Next]_vars => WordsInv'
<1> SUFFICES ASSUME WordsInv, [Next]_vars PROVE WordsInv'
    OBVIOUS
<1> DEFINE low == Bound(rated, FallbackCharge)   high == Bound(maxActive, FallbackDischarge)
<1>1. rated' = rated /\ maxActive' = maxActive
  BY DEF Next, SetBatteryPower, ClearSetpoint, vars
<1>2. low' = low /\ high' = high /\ low \in Nat /\ high \in Nat
  BY <1>1 DEF Bound, WordsInv
<1>3. CASE SetBatteryPower
  <2>1. PICK w \in Requests : sent' = Clamped(w)
    BY <1>3 DEF SetBatteryPower
  <2>2. sent' \in Int /\ -low <= sent' /\ sent' <= high
    <3>1. w \in Int
      BY WordsAssumption
    <3> HIDE DEF low, high
    <3>2. Clamped(w) = LET l == -low  h == IF w < high THEN w ELSE high
                       IN  IF h < l THEN l ELSE h
      BY DEF Clamped, low, high
    <3> QED BY <1>2, <2>1, <3>1, <3>2, SMT
  <2>3. setpoint' = le_words(sent')
    BY <1>3 DEF SetBatteryPower
  <2>4. setpoint' \in Word \X Word
    BY <2>2, <2>3, EncodedWords
  <2>5. ASSUME Signed32(low), Signed32(high) PROVE decode_i32_le(setpoint') = sent'
    <3> HIDE DEF low, high
    <3>1. 2 * sent' < Base * Base /\ 2 * sent' >= -(Base * Base)
      <4>1. 2 * low < Base * Base /\ 2 * high < Base * Base
        BY <2>5 DEF Signed32
      <4>2. Base * Base \in Int
        BY WordsAssumption, SMT
      <4> QED BY <1>2, <2>2, <4>1, <4>2, SMT
    <3> QED BY <2>2, <2>3, <3>1, RoundTrip
  <2> QED BY <1>2, <2>4, <2>5 DEF WordsInv, SetpointReadsBack, Signed32
<1>4. CASE ClearSetpoint
  <2>1. setpoint' = <<0, 0>> /\ sent' = 0
    BY <1>4 DEF ClearSetpoint
  <2>2. Base \in Nat /\ Base > 1
    BY WordsAssumption
  <2>3. setpoint' \in Word \X Word
    BY <2>1, <2>2 DEF Word
  <2>4. decode_i32_le(setpoint') = 0
    BY <2>1, ZeroReadsBack
  <2> QED BY <1>2, <2>1, <2>3, <2>4 DEF WordsInv, SetpointReadsBack
<1>5. CASE UNCHANGED vars
  BY <1>2, <1>5 DEF WordsInv, SetpointReadsBack, vars, Signed32, decode_i32_le, decode_u32_le
<1> QED BY <1>3, <1>4, <1>5 DEF Next

(* The polls leave the setpoint alone. *)
LEMMA StepWordsBesidePolls == WordsInv /\ [PollNext]_<<vars, pollVars>> => WordsInv'
  BY StepWords DEF PollNext, Poll

(* What a control method writes always fits in registers, charging included
   (modbus_client.py:271-278). *)
THEOREM WrittenWordsFit == PollSpec => []WordsFit
<1>1. PollInit => WordsInv
  BY InitWords DEF PollInit
<1>2. WordsInv => WordsFit
  BY DEF WordsInv, WordsFit
<1> QED BY <1>1, StepWordsBesidePolls, <1>2, PTL DEF PollSpec

(* A setpoint reads back as it was written, for every width of a word and every
   nameplate that is itself a signed number (coordinator.py:659-672, 443). *)
THEOREM ReadsBack == PollSpec => []SetpointReadsBack
<1>1. PollInit => WordsInv
  BY InitWords DEF PollInit
<1>2. WordsInv => SetpointReadsBack
  BY DEF WordsInv
<1> QED BY <1>1, StepWordsBesidePolls, <1>2, PTL DEF PollSpec

-----------------------------------------------------------------------------
(* The values of a poll (PollValues).                                        *)

(* What is published is decoded from the poll that published it. *)
PollInv == Polled => frame \in Measurements /\ values = Decoded(frame)

LEMMA InitPolls == PollInit => PollInv
  BY DEF PollInit, PollInv, Polled

LEMMA StepPolls == PollInv /\ [PollNext]_<<vars, pollVars>> => PollInv'
<1> SUFFICES ASSUME PollInv, [PollNext]_<<vars, pollVars>> PROVE PollInv'
    OBVIOUS
<1>1. CASE Poll
  BY <1>1, PollAssumption DEF Poll, PollInv, Polled
<1>2. CASE UNCHANGED pollVars
  BY <1>2 DEF pollVars, PollInv, Polled
<1> QED BY <1>1, <1>2 DEF PollNext

-----------------------------------------------------------------------------
LEMMA SignedWord ==
  ASSUME NEW n \in Int, InI16(n)
  PROVE  decode_i16(OnWire(n)) = n
<1>1. Base \in Nat /\ Base > 0
  BY WordsAssumption
<1>2. CASE n >= 0
  <2>1. n < Base
    BY <1>1, <1>2 DEF InI16
  <2>2. n % Base = n
    BY <1>1, <1>2, <2>1, Modulo
  <2> QED BY <1>1, <2>2 DEF InI16, OnWire, decode_i16
<1>3. CASE n < 0
  <2>1. 0 <= n + Base
    BY <1>1, <1>3 DEF InI16
  <2>2. n % Base = n + Base
    BY <1>1, <1>3, <2>1, Modulo
  <2> QED BY <1>1, <1>3, <2>2 DEF InI16, OnWire, decode_i16
<1> QED BY <1>2, <1>3

LEMMA RoundedZero == ASSUME NEW d \in Nat \ {0} PROVE Rounded(0, d) = 0
<1>1. 0 \div d = 0 /\ 0 % d = 0
  BY SMT
<1> QED BY <1>1 DEF Rounded

(* A string with no voltage or no current yields no power. *)
LEMMA DarkString ==
  ASSUME NEW s \in [volts : Int, amps : Int], InI16(s.volts), InI16(s.amps),
         ~(s.volts > 0 /\ s.amps > 0)
  PROVE  StringPower(s) = 0
<1>1. decode_i16(OnWire(s.volts)) = s.volts /\ decode_i16(OnWire(s.amps)) = s.amps
  BY SignedWord
<1> DEFINE v == NotBelowZero(s.volts)   a == NotBelowZero(s.amps)
<1>2. v \in Nat /\ a \in Nat /\ (v = 0 \/ a = 0)
  BY DEF NotBelowZero
<1> HIDE DEF v, a
<1>3. v * a = 0
  BY <1>2, SMT
<1> QED BY <1>1, <1>3, RoundedZero, PollAssumption DEF StringPower, v, a

(* Small negative readings of a string at night make no power
   (coordinator.py:407-422 and 501-509). *)
THEOREM NoPowerAtNight == PollSpec => []NoPhantomPower
<1>1. PollInv => NoPhantomPower
  <2> SUFFICES ASSUME PollInv, Polled, NEW s \in Strings,
                      values.strings[s] # 0,
                      InI16(frame.strings[s].volts), InI16(frame.strings[s].amps)
               PROVE  /\ frame.connected
                      /\ frame.strings[s].volts > 0 /\ frame.strings[s].amps > 0
      BY DEF NoPhantomPower
  <2>1. values.strings[s] = IF frame.connected THEN StringPower(frame.strings[s]) ELSE 0
    BY DEF PollInv, Decoded, StringsOf
  <2>2. frame.connected /\ StringPower(frame.strings[s]) # 0
    BY <2>1
  <2>3. frame.strings[s] \in [volts : Int, amps : Int]
    BY DEF PollInv, Measurements
  <2> QED BY <2>2, <2>3, DarkString
<1> QED BY InitPolls, StepPolls, <1>1, PTL DEF PollSpec

-----------------------------------------------------------------------------
LEMMA RoundedHalf ==
  ASSUME NEW n \in Nat
  PROVE  /\ Rounded(n, 2) \in Int
         /\ n - 1 <= 2 * Rounded(n, 2) /\ 2 * Rounded(n, 2) <= n + 1
<1> DEFINE q == n \div 2   r == n % 2
<1>1. r \in 0..1 /\ q \in Int /\ n = 2 * q + r
  BY Division
<1> HIDE DEF q, r
<1>2. Rounded(n, 2) \in {q, q + 1} /\ (r = 0 => Rounded(n, 2) = q)
  BY <1>1 DEF Rounded, q, r
<1> QED BY <1>1, <1>2

(* The corrected charge power lies between the two readings it averages, rounding
   included (coordinator.py:516-526). *)
THEOREM CorrectionStaysBetween == PollSpec => []CorrectionBetween
<1>1. PollInv => CorrectionBetween
  <2> SUFFICES ASSUME PollInv, Polled, frame.battery < 0
               PROVE  IF frame.connected THEN values.battery = frame.battery
                      ELSE Between(-values.battery, Magnitude(frame.battery),
                                   Magnitude(frame.ac))
      BY DEF CorrectionBetween
  <2>1. frame.battery \in Int /\ frame.ac \in Int /\ values.battery = BatteryPower(frame)
    BY DEF PollInv, Measurements, Decoded
  <2>2. CASE frame.connected
    BY <2>1, <2>2 DEF BatteryPower
  <2>3. CASE ~frame.connected
    <3> DEFINE a == Magnitude(frame.battery)   b == Magnitude(frame.ac)
    <3>1. a \in Nat /\ b \in Nat
      BY <2>1 DEF Magnitude
    <3>2. values.battery = -Rounded(a + b, 2)
      BY <2>1, <2>3 DEF BatteryPower
    <3> HIDE DEF a, b
    <3>3. /\ Rounded(a + b, 2) \in Int
          /\ a + b - 1 <= 2 * Rounded(a + b, 2) /\ 2 * Rounded(a + b, 2) <= a + b + 1
      BY <3>1, RoundedHalf
    <3>4. Between(-values.battery, a, b)
      BY <3>1, <3>2, <3>3 DEF Between
    <3> QED BY <2>3, <3>4 DEF a, b
  <2> QED BY <2>2, <2>3
<1> QED BY InitPolls, StepPolls, <1>1, PTL DEF PollSpec

(* An AC-coupled unit without an array reports no loss in Standby or Sleep, whatever
   flows past its idle port (coordinator.py:545-554). *)
THEOREM IdleIsLossless == PollSpec => []IdleShowsNoLoss
<1>1. PollInv => IdleShowsNoLoss
  BY DEF PollInv, IdleShowsNoLoss, Decoded, InverterLoss, PvPower
<1> QED BY InitPolls, StepPolls, <1>1, PTL DEF PollSpec

-----------------------------------------------------------------------------
LEMMA BelowQuotient ==
  ASSUME NEW s \in Nat \ {0}, NEW k \in Nat, NEW n \in Nat, n < k * s
  PROVE  n \div s \in Nat /\ n \div s < k
<1> DEFINE q == n \div s   r == n % s
<1>1. r \in 0..(s - 1) /\ q \in Int /\ n = s * q + r
  BY Division
<1> HIDE DEF q, r
<1>2. q >= 0
  BY <1>1, SMT
<1>3. q < k
  BY <1>1, SMT
<1> QED BY <1>1, <1>2, <1>3 DEF q

(* The unit is guessed from the largest phase: right with any phases down, as long
   as one is up and none is a coarse reading as large as a fine one
   (modbus_client.py:236-241). *)
THEOREM TrueVoltages == PollSpec => []MeterVoltagesTrue
<1>1. PollInv => MeterVoltagesTrue
  <2> SUFFICES ASSUME PollInv, Polled, frame.online,
                      \E p \in Phases : frame.mains[p] >= LowestMains * Scale,
                      \A p \in Phases : frame.mains[p] < LowestMains * Scale * Scale,
                      NEW p \in Phases
               PROVE  values.mains[p] = IF frame.fine THEN frame.mains[p]
                                        ELSE Scale * (frame.mains[p] \div Scale)
      BY DEF MeterVoltagesTrue
  <2> DEFINE w == MeterWords(frame)
  <2>1. values.mains = decode_meter_voltages(w)
    BY DEF PollInv, Decoded
  <2>2. CASE frame.fine
    <3>1. \A x \in Phases : w[x] = frame.mains[x]
      BY <2>2 DEF MeterWords
    <3>2. FineUnit(w)
      BY <3>1 DEF FineUnit
    <3> QED BY <2>1, <2>2, <3>1, <3>2 DEF decode_meter_voltages
  <2>3. CASE ~frame.fine
    <3> DEFINE k == LowestMains * Scale
    <3>1. k \in Nat /\ Scale \in Nat \ {0}
      <4>1. LowestMains \in Nat /\ Scale \in Nat \ {0}
        BY PollAssumption
      <4> QED BY <4>1, SMT
    <3> HIDE DEF k
    <3>2. \A x \in Phases : w[x] = frame.mains[x] \div Scale
      BY <2>3 DEF MeterWords
    <3>3. \A x \in Phases : frame.mains[x] \in Nat /\ frame.mains[x] < k * Scale
      BY DEF k, PollInv, Measurements
    <3>4. \A x \in Phases : w[x] \in Nat /\ w[x] < k
      BY <3>1, <3>2, <3>3, BelowQuotient
    <3>5. ~FineUnit(w)
      BY <3>1, <3>4 DEF FineUnit, k
    <3>6. values.mains[p] = w[p] * Scale
      BY <2>1, <3>5 DEF decode_meter_voltages
    <3> HIDE DEF w
    <3>7. w[p] * Scale = Scale * w[p]
      BY <3>1, <3>4, SMT
    <3> QED BY <2>3, <3>2, <3>6, <3>7
  <2> QED BY <2>2, <2>3
<1> QED BY InitPolls, StepPolls, <1>1, PTL DEF PollSpec
=============================================================================
