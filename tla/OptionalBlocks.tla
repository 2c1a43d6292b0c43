--------------------------- MODULE OptionalBlocks ---------------------------
(***************************************************************************)
(* The skip-list of class OptionalBlocks (modbus_client.py): which register *)
(* blocks are worth asking for.  A block that times out Threshold times     *)
(* with no success in between is retired; once RetryAfter has passed it is  *)
(* probed again, with a fresh streak.                                       *)
(*                                                                          *)
(* The code keeps the instant of retirement and compares monotonic() with   *)
(* it; only the time elapsed matters, so age[b] counts it and stops at      *)
(* RetryAfter.  The XxxEffect operators are the methods; the actions add    *)
(* the protocol of their only caller, _read_optional_block: one block asked *)
(* at a time, and the verdict recorded, if any, is about that block.        *)
(***************************************************************************)
EXTENDS Integers

CONSTANTS Blocks,      \* names of the blocks a unit may lack
          NoBlock,     \* no block is being read
          Threshold,   \* consecutive timeouts that retire a block
          RetryAfter   \* clock ticks until a retired block is probed again

(* __init__ raises ValueError on a threshold below 1 or a delay <= 0. *)
ASSUME OptionalAssumption == /\ Threshold \in Nat \ {0}
                             /\ RetryAfter \in Nat \ {0}
                             /\ NoBlock \notin Blocks

VARIABLES timeouts,    \* _timeouts: the streak of each block
          retired,     \* whether _retired_at has the block
          age,         \* time since retirement, up to RetryAfter
          asked        \* the block the caller is waiting for

optVars == <<timeouts, retired, age, asked>>

Init == /\ timeouts = [b \in Blocks |-> 0]
        /\ retired = [b \in Blocks |-> FALSE]
        /\ age = [b \in Blocks |-> 0]
        /\ asked = NoBlock

-----------------------------------------------------------------------------
(* should_read: what it answers, and what a True answer does. *)
MayRead(b) == retired[b] => age[b] >= RetryAfter

KeepStreakOnReprobe(b) == /\ retired' = [retired EXCEPT ![b] = FALSE]
                          /\ age' = [age EXCEPT ![b] = 0]
                          /\ UNCHANGED timeouts

ShouldReadEffect(b) ==
  /\ retired' = [retired EXCEPT ![b] = FALSE]
  /\ age' = [age EXCEPT ![b] = 0]
  /\ timeouts' = IF retired[b] THEN [timeouts EXCEPT ![b] = 0] ELSE timeouts

(* record_success *)
RecordSuccessEffect(b) == /\ timeouts' = [timeouts EXCEPT ![b] = 0]
                          /\ retired' = [retired EXCEPT ![b] = FALSE]
                          /\ age' = [age EXCEPT ![b] = 0]

(* record_timeout: _retired_at is the present, so the age starts at 0. *)
RetireOneLate(b) ==
  LET count == timeouts[b] + 1
  IN  /\ timeouts' = [timeouts EXCEPT ![b] = count]
      /\ retired' = IF count > Threshold THEN [retired EXCEPT ![b] = TRUE] ELSE retired
      /\ UNCHANGED age

RetireOneEarly(b) ==
  LET count == timeouts[b] + 1
  IN  /\ timeouts' = [timeouts EXCEPT ![b] = count]
      /\ retired' = IF count >= Threshold - 1 THEN [retired EXCEPT ![b] = TRUE] ELSE retired
      /\ UNCHANGED age

RecordTimeoutEffect(b) ==
  LET count == timeouts[b] + 1
  IN  /\ timeouts' = [timeouts EXCEPT ![b] = count]
      /\ retired' = IF count >= Threshold THEN [retired EXCEPT ![b] = TRUE] ELSE retired
      /\ UNCHANGED age

(* monotonic() moves on for every retired block whose re-probe is not due. *)
FrozenClock == /\ age' = [b \in Blocks |->
                            IF retired[b] /\ age[b] < RetryAfter - 1
                            THEN age[b] + 1 ELSE age[b]]
               /\ UNCHANGED <<timeouts, retired>>

ClockEffect == /\ age' = [b \in Blocks |->
                            IF retired[b] /\ age[b] < RetryAfter
                            THEN age[b] + 1 ELSE age[b]]
               /\ UNCHANGED <<timeouts, retired>>

-----------------------------------------------------------------------------
Ask(b) == /\ asked = NoBlock
          /\ MayRead(b)
          /\ ShouldReadEffect(b)
          /\ asked' = b

Answered(b) == asked = b /\ RecordSuccessEffect(b) /\ asked' = NoBlock

TimedOut(b) == asked = b /\ RecordTimeoutEffect(b) /\ asked' = NoBlock

(* A clean error, a socket that is down, or a cancelled poll: nothing is
   recorded, so the streak neither grows nor ends. *)
NoVerdict(b) == /\ asked = b
                /\ asked' = NoBlock
                /\ UNCHANGED <<timeouts, retired, age>>

Tick == /\ \E b \in Blocks : retired[b] /\ age[b] < RetryAfter
        /\ ClockEffect
        /\ UNCHANGED asked

Next == \/ \E b \in Blocks : Ask(b) \/ Answered(b) \/ TimedOut(b) \/ NoVerdict(b)
        \/ Tick

Spec == Init /\ [][Next]_optVars

(* Time passes, and a poll reaches every block it may read again and again:
   SF because reading one block keeps the other from being asked. *)
Fairness ==
  /\ WF_optVars(Tick)
  /\ \A b \in Blocks : SF_optVars(Ask(b))
  /\ \A b \in Blocks : WF_optVars(Answered(b) \/ TimedOut(b) \/ NoVerdict(b))

FairSpec == Spec /\ Fairness

-----------------------------------------------------------------------------
TypeOK == /\ timeouts \in [Blocks -> 0..Threshold]
          /\ retired \in [Blocks -> BOOLEAN]
          /\ age \in [Blocks -> 0..RetryAfter]
          /\ asked \in Blocks \cup {NoBlock}

(* The streak and the retirement agree: a block is retired exactly when its
   streak has reached Threshold, a block being read is not retired, and the
   retirement clock of a block in use stands at zero.  (modbus_client.py
   128-160: the three methods change the two dictionaries separately.) *)
StreakMatchesRetirement ==
  /\ \A b \in Blocks : retired[b] <=> timeouts[b] = Threshold
  /\ \A b \in Blocks : asked = b => ~retired[b]
  /\ \A b \in Blocks : ~retired[b] => age[b] = 0

(* A retired block is not retired for ever: a later poll asks for it again
   (the nine hours without meter sensors the class comment tells of). *)
RetiredIsProbedAgain == \A b \in Blocks : retired[b] ~> asked = b
=============================================================================
