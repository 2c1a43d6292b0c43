------------------------------- MODULE Words -------------------------------
(***************************************************************************)
(* The register codec (modbus_client.py) on the way a battery setpoint takes: *)
(* two words of block B give its bounds, the clamped watts go out as two words *)
(* at 10071, and block E reads them back.  A word is a number below Base,      *)
(* 65536 in the code; "& 0xFFFF" is "% Base".                                  *)
(***************************************************************************)
EXTENDS Integers, Sequences

CONSTANTS Base,
          Nameplates,       \* 32-bit values that 10124 and 10126 may hold
          Requests,         \* watts asked for
          FallbackCharge, FallbackDischarge

ASSUME WordsAssumption ==
  /\ Base \in Nat /\ Base > 1
  /\ Nameplates \subseteq 0..(Base * Base - 1)
  /\ Requests \subseteq Int
  /\ FallbackCharge \in 1..(Base * Base - 1) /\ FallbackDischarge \in 1..(Base * Base - 1)

Word == 0..(Base - 1)

decode_u32_le(words) == words[1] + Base * words[2]

decode_unsigned(words) == decode_u32_le(words)

decode_i32_le(words) ==
  LET value == decode_u32_le(words)
  IN  IF 2 * value >= Base * Base THEN value - Base * Base ELSE value

le_signed(n) == <<n % Base, n \div Base>>

le_words(n) == LET u == n % (Base * Base) IN <<u % Base, u \div Base>>

VARIABLES rated, maxActive,   \* words at 10124 and 10126
          setpoint,           \* words at 10071
          sent                \* history: the watts last written

vars == <<rated, maxActive, setpoint, sent>>

Bound(words, fallback) ==
  IF decode_u32_le(words) = 0 THEN fallback ELSE decode_u32_le(words)

Clamped(watts) ==
  LET low == -Bound(rated, FallbackCharge)
      high == IF watts < Bound(maxActive, FallbackDischarge)
              THEN watts ELSE Bound(maxActive, FallbackDischarge)
  IN  IF high < low THEN low ELSE high

Init == /\ \E n \in Nameplates : rated = <<n % Base, n \div Base>>
        /\ \E n \in Nameplates : maxActive = <<n % Base, n \div Base>>
        /\ setpoint = <<0, 0>> /\ sent = 0

SetBatteryPower == /\ \E w \in Requests : sent' = Clamped(w)
                   /\ setpoint' = le_words(sent')
                   /\ UNCHANGED <<rated, maxActive>>

ClearSetpoint == /\ sent' = 0 /\ setpoint' = <<0, 0>>
                 /\ UNCHANGED <<rated, maxActive>>

Next == SetBatteryPower \/ ClearSetpoint

Spec == Init /\ [][Next]_vars

-----------------------------------------------------------------------------
(* What goes on the wire fits in registers: a negative setpoint too
   (modbus_client.py:271-278; pymodbus refuses a word out of range). *)
WordsFit == setpoint \in Word \X Word

(* The setpoint that block E decodes is the one that was written, charging or
   discharging, whenever the nameplate itself is a signed 32-bit value
   (coordinator.py:399-400, 659, 672 and 443). *)
Signed32(n) == 2 * n < Base * Base

SetpointReadsBack ==
  Signed32(Bound(rated, FallbackCharge)) /\ Signed32(Bound(maxActive, FallbackDischarge))
    => decode_i32_le(setpoint) = sent
=============================================================================
