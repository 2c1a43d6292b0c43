------------------------ MODULE OptionalBlocksProofs ------------------------
(***************************************************************************)
(* For every set of blocks, threshold and retry delay: the skip-list is      *)
(* well-typed, its two dictionaries agree, and every retirement was earned.   *)
(***************************************************************************)
EXTENDS RetirementHistory, TLAPS

(* Neither conjunct is inductive alone: the streak stays within 0..Threshold
   only because a block that is being read is not retired. *)
OptInv == TypeOK /\ StreakMatchesRetirement

LEMMA OptInit == Init => OptInv
  BY OptionalAssumption DEF Init, OptInv, TypeOK, StreakMatchesRetirement

(* Each action keeps the skip-list well-typed and consistent. *)
LEMMA OptStep == OptInv /\ [Next]_optVars => OptInv'
<1> SUFFICES ASSUME OptInv, [Next]_optVars PROVE OptInv'
    OBVIOUS
<1> USE OptionalAssumption DEF OptInv, TypeOK, StreakMatchesRetirement
<1>1. ASSUME NEW b \in Blocks, Ask(b) PROVE OptInv'
  <2>1. TypeOK'
    BY <1>1 DEF Ask, ShouldReadEffect
  <2>2. (\A x \in Blocks : retired[x] <=> timeouts[x] = Threshold)'
    BY <1>1 DEF Ask, ShouldReadEffect
  <2>3. (\A x \in Blocks : asked = x => ~retired[x])'
    BY <1>1 DEF Ask, ShouldReadEffect
  <2>4. (\A x \in Blocks : ~retired[x] => age[x] = 0)'
    BY <1>1 DEF Ask, ShouldReadEffect
  <2> QED BY <2>1, <2>2, <2>3, <2>4
<1>2. ASSUME NEW b \in Blocks, Answered(b) PROVE OptInv'
  BY <1>2 DEF Answered, RecordSuccessEffect
<1>3. ASSUME NEW b \in Blocks, TimedOut(b) PROVE OptInv'
  <2>1. ~retired[b] /\ timeouts[b] \in 0..(Threshold - 1) /\ age[b] = 0
    BY <1>3 DEF TimedOut
  <2>2. TypeOK'
    BY <1>3, <2>1 DEF TimedOut, RecordTimeoutEffect
  <2>3. (\A x \in Blocks : retired[x] <=> timeouts[x] = Threshold)'
    BY <1>3, <2>1 DEF TimedOut, RecordTimeoutEffect
  <2>4. (\A x \in Blocks : asked = x => ~retired[x])'
    BY <1>3 DEF TimedOut
  <2>5. (\A x \in Blocks : ~retired[x] => age[x] = 0)'
    BY <1>3, <2>1 DEF TimedOut, RecordTimeoutEffect
  <2> QED BY <2>2, <2>3, <2>4, <2>5
<1>4. ASSUME NEW b \in Blocks, NoVerdict(b) PROVE OptInv'
  BY <1>4 DEF NoVerdict
<1>5. CASE Tick
  BY <1>5 DEF Tick, ClockEffect
<1>6. CASE UNCHANGED optVars
  BY <1>6 DEF optVars
<1> QED
  BY <1>1, <1>2, <1>3, <1>4, <1>5, <1>6 DEF Next

(* The skip-list (modbus_client.py:90-160) never leaves its types: a streak is
   never longer than the threshold, however long a unit keeps quiet. *)
THEOREM TypeCorrect == Spec => []TypeOK
<1>1. OptInv => TypeOK
  BY DEF OptInv
<1> QED
  BY OptInit, OptStep, <1>1, PTL DEF Spec

(* A block is retired exactly when its streak has reached the threshold, and a
   block that is being read is not retired (modbus_client.py:128-160). *)
THEOREM StreakConsistent == Spec => []StreakMatchesRetirement
<1>1. OptInv => StreakMatchesRetirement
  BY DEF OptInv
<1> QED
  BY OptInit, OptStep, <1>1, PTL DEF Spec

-----------------------------------------------------------------------------
(* The history ends with the streak, and before the streak comes something else. *)
Events == {"reprobe", "success", "timeout"}

EndsWith(s, streak) ==
  /\ Len(s) <= Threshold + 1 /\ streak <= Len(s)
  /\ \A i \in 1..streak : s[Len(s) + 1 - i] = "timeout"
  /\ streak < Threshold /\ streak < Len(s) => s[Len(s) - streak] # "timeout"

RecentInv == /\ recent \in [Blocks -> Seq(Events)]
             /\ \A b \in Blocks : EndsWith(recent[b], timeouts[b])

(* LastFew drops the oldest events, and only those. *)
LEMMA LastFewOf ==
  ASSUME NEW s \in Seq(Events), NEW event \in Events, Len(s) <= Threshold + 1
  PROVE  LET new == LastFew(Append(s, event))
             drop == Len(s) + 1 - Len(new)
         IN  /\ new \in Seq(Events) /\ Len(new) \in 1..(Threshold + 1) /\ drop \in 0..1
             /\ Len(s) <= Threshold => drop = 0
             /\ new[Len(new)] = event
             /\ \A i \in 1..(Len(new) - 1) : new[i] = s[i + drop]
<1> DEFINE long == Append(s, event)
           from == IF Len(long) > Threshold THEN Len(long) - Threshold ELSE 1
           new == LastFew(long)
<1> USE OptionalAssumption
<1>1. /\ long \in Seq(Events) /\ Len(long) = Len(s) + 1
      /\ long[Len(long)] = event /\ \A i \in 1..Len(s) : long[i] = s[i]
  OBVIOUS
<1>2. from \in 1..2 /\ from <= Len(long) /\ new = SubSeq(long, from, Len(long))
  BY <1>1 DEF LastFew
<1>3. (Len(s) <= Threshold => from = 1) /\ Len(long) - from <= Threshold
  BY <1>1
<1> HIDE DEF from, new, long
<1>4. /\ new \in Seq(Events) /\ Len(new) = Len(long) - from + 1
      /\ \A i \in 1..Len(new) : new[i] = long[from + i - 1]
  BY <1>1, <1>2
<1> QED BY <1>1, <1>2, <1>3, <1>4 DEF new, long

LEMMA StreakGrows ==
  ASSUME NEW s \in Seq(Events), NEW n \in 0..(Threshold - 1), EndsWith(s, n)
  PROVE  LastFew(Append(s, "timeout")) \in Seq(Events) /\ EndsWith(LastFew(Append(s, "timeout")), n + 1)
<1> DEFINE new == LastFew(Append(s, "timeout"))
           drop == Len(s) + 1 - Len(new)
<1> USE OptionalAssumption
<1>1. /\ new \in Seq(Events) /\ Len(new) \in 1..(Threshold + 1) /\ drop \in 0..1
      /\ Len(s) <= Threshold => drop = 0
      /\ new[Len(new)] = "timeout"
      /\ \A i \in 1..(Len(new) - 1) : new[i] = s[i + drop]
  BY LastFewOf DEF EndsWith, Events
<1>2. Len(s) \in Nat /\ Len(s) = Len(new) - 1 + drop
  BY <1>1
<1> HIDE DEF new, drop
<1>3. n + 1 <= Len(new)
  BY <1>1, <1>2 DEF EndsWith
<1>4. ASSUME NEW i \in 1..(n + 1) PROVE new[Len(new) + 1 - i] = "timeout"
  <2>1. CASE i = 1
    BY <1>1, <2>1
  <2>2. CASE i # 1
    <3>1. Len(new) + 1 - i \in 1..(Len(new) - 1) /\ i - 1 \in 1..n
      BY <1>1, <1>3, <2>2
    <3>2. new[Len(new) + 1 - i] = s[Len(new) + 1 - i + drop]
      BY <1>1, <3>1
    <3>3. Len(new) + 1 - i + drop = Len(s) + 1 - (i - 1)
      BY <1>1, <1>2
    <3> QED BY <3>1, <3>2, <3>3 DEF EndsWith
  <2> QED BY <2>1, <2>2
<1>5. ASSUME n + 1 < Len(new) PROVE new[Len(new) - (n + 1)] # "timeout"
  <2>1. Len(new) - (n + 1) \in 1..(Len(new) - 1)
    BY <1>1, <1>5
  <2>2. new[Len(new) - (n + 1)] = s[Len(new) - (n + 1) + drop]
    BY <1>1, <2>1
  <2>3. Len(new) - (n + 1) + drop = Len(s) - n /\ n < Len(s) /\ n < Threshold
    BY <1>1, <1>2, <1>5
  <2> QED BY <2>2, <2>3 DEF EndsWith
<1> QED BY <1>1, <1>3, <1>4, <1>5 DEF new, EndsWith

LEMMA StreakEnds ==
  ASSUME NEW s \in Seq(Events), NEW event \in {"reprobe", "success"}, Len(s) <= Threshold + 1
  PROVE  LastFew(Append(s, event)) \in Seq(Events) /\ EndsWith(LastFew(Append(s, event)), 0)
<1> DEFINE new == LastFew(Append(s, event))
<1>1. event \in Events
  BY DEF Events
<1>2. new \in Seq(Events) /\ Len(new) \in 1..(Threshold + 1) /\ new[Len(new)] = event
  BY <1>1, LastFewOf
<1> HIDE DEF new
<1> QED BY <1>2, OptionalAssumption DEF new, EndsWith

LEMMA RecentStep == OptInv /\ RecentInv /\ [HistoryNext]_<<optVars, recent>> => RecentInv'
<1> SUFFICES ASSUME OptInv, RecentInv, [HistoryNext]_<<optVars, recent>> PROVE RecentInv'
    OBVIOUS
<1>0. /\ RecentInv' <=> /\ recent' \in [Blocks -> Seq(Events)]
                        /\ \A b \in Blocks : EndsWith(recent'[b], timeouts'[b])
      /\ timeouts \in [Blocks -> 0..Threshold] /\ recent \in [Blocks -> Seq(Events)]
  BY DEF RecentInv, EndsWith, Events, OptInv, TypeOK
<1>1. ASSUME UNCHANGED <<timeouts, recent>> PROVE RecentInv'
  BY <1>1, <1>0 DEF RecentInv
<1>2. ASSUME NEW b \in Blocks, NEW event \in Events, Saw(b, event), NEW n, timeouts' = [timeouts EXCEPT ![b] = n],
             LastFew(Append(recent[b], event)) \in Seq(Events), EndsWith(LastFew(Append(recent[b], event)), n)
      PROVE  RecentInv'
  <2> DEFINE new == LastFew(Append(recent[b], event))
  <2>1. recent' = [recent EXCEPT ![b] = new]
    BY <1>2 DEF Saw
  <2> HIDE DEF new
  <2>2. new \in Seq(Events) /\ EndsWith(new, n)
    BY <1>2 DEF new
  <2> QED BY <1>0, <1>2, <2>1, <2>2 DEF RecentInv
<1>3. ASSUME NEW b \in Blocks, NEW event \in {"reprobe", "success"}, Saw(b, event),
             timeouts' = [timeouts EXCEPT ![b] = 0]
      PROVE  RecentInv'
  <2>1. recent[b] \in Seq(Events) /\ Len(recent[b]) <= Threshold + 1
    BY DEF RecentInv, EndsWith
  <2> QED BY <1>2, <1>3, <2>1, StreakEnds DEF Events
<1>4. ASSUME NEW b \in Blocks, Ask(b) /\ retired[b] /\ Saw(b, "reprobe") PROVE RecentInv'
  BY <1>3, <1>4 DEF Ask, ShouldReadEffect
<1>5. ASSUME NEW b \in Blocks, Ask(b) /\ ~retired[b] /\ UNCHANGED recent PROVE RecentInv'
  BY <1>1, <1>5 DEF Ask, ShouldReadEffect
<1>6. ASSUME NEW b \in Blocks, Answered(b) /\ Saw(b, "success") PROVE RecentInv'
  BY <1>3, <1>6 DEF Answered, RecordSuccessEffect
<1>7. ASSUME NEW b \in Blocks, TimedOut(b) /\ Saw(b, "timeout") PROVE RecentInv'
  <2>1. timeouts[b] \in 0..(Threshold - 1) /\ timeouts' = [timeouts EXCEPT ![b] = timeouts[b] + 1]
    BY <1>0, <1>7, OptionalAssumption DEF TimedOut, RecordTimeoutEffect, OptInv, StreakMatchesRetirement
  <2>2. recent[b] \in Seq(Events) /\ EndsWith(recent[b], timeouts[b])
    BY DEF RecentInv
  <2> QED BY <1>2, <1>7, <2>1, <2>2, StreakGrows DEF Events
<1>8. CASE \/ \E b \in Blocks : NoVerdict(b) /\ UNCHANGED recent
           \/ Tick /\ UNCHANGED recent
           \/ UNCHANGED <<optVars, recent>>
  BY <1>1, <1>8 DEF NoVerdict, Tick, ClockEffect, optVars
<1> QED BY <1>4, <1>5, <1>6, <1>7, <1>8 DEF HistoryNext

(* The history adds nothing to the skip-list. *)
LEMMA HistoryIsOptional == [HistoryNext]_<<optVars, recent>> => [Next]_optVars
  BY DEF HistoryNext, Next

(* A block is retired exactly when its last Threshold verdicts since a success or
   a re-probe are timeouts, for any blocks, threshold and delay
   (modbus_client.py:90-160). *)
THEOREM EveryRetirementEarned == HistorySpec => []RetirementEarned
<1>1. HistoryInit => OptInv /\ RecentInv
  <2> SUFFICES ASSUME HistoryInit PROVE OptInv /\ RecentInv
    OBVIOUS
  <2>1. RecentInv
    BY OptionalAssumption DEF HistoryInit, Init, RecentInv, EndsWith
  <2> QED BY <2>1, OptInit DEF HistoryInit
<1>2. OptInv /\ RecentInv => RetirementEarned
  <2> SUFFICES ASSUME OptInv, RecentInv, NEW b \in Blocks
               PROVE  retired[b] <=> /\ Len(recent[b]) >= Threshold
                                     /\ \A i \in 1..Threshold :
                                          recent[b][Len(recent[b]) + 1 - i] = "timeout"
    BY DEF RetirementEarned
  <2> DEFINE s == recent[b]   n == timeouts[b]
  <2>1. s \in Seq(Events) /\ EndsWith(s, n) /\ n \in 0..Threshold /\ (retired[b] <=> n = Threshold)
    BY DEF RecentInv, OptInv, TypeOK, StreakMatchesRetirement
  <2> HIDE DEF s, n
  <2>2. n = Threshold => Len(s) >= Threshold /\ \A i \in 1..Threshold : s[Len(s) + 1 - i] = "timeout"
    BY <2>1 DEF EndsWith
  <2>3. ASSUME n # Threshold, Len(s) >= Threshold, \A i \in 1..Threshold : s[Len(s) + 1 - i] = "timeout"
        PROVE  FALSE
    <3>1. n + 1 \in 1..Threshold /\ n < Len(s) /\ Len(s) + 1 - (n + 1) = Len(s) - n
      BY <2>1, <2>3, OptionalAssumption
    <3>2. s[Len(s) - n] = "timeout"
      BY <2>3, <3>1
    <3>3. n < Threshold
      BY <2>1, <2>3, OptionalAssumption
    <3> QED BY <2>1, <3>1, <3>2, <3>3 DEF EndsWith
  <2> QED BY <2>1, <2>2, <2>3 DEF s
<1> QED BY OptStep, RecentStep, HistoryIsOptional, <1>1, <1>2, PTL DEF HistorySpec
=============================================================================
