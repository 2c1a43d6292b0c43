-------------------------- MODULE RetirementHistory --------------------------
(***************************************************************************)
(* OptionalBlocks with a history variable: the last Threshold + 1 events of  *)
(* each block that the retirement rule is about, newest last.               *)
(***************************************************************************)
EXTENDS OptionalBlocks, Sequences

VARIABLE recent

LastFew(s) == SubSeq(s, (IF Len(s) > Threshold THEN Len(s) - Threshold ELSE 1), Len(s))

Saw(b, event) == recent' = [recent EXCEPT ![b] = LastFew(Append(@, event))]

HistoryInit == Init /\ recent = [b \in Blocks |-> <<>>]

HistoryNext ==
  \/ \E b \in Blocks : \/ Ask(b) /\ retired[b] /\ Saw(b, "reprobe")
                       \/ Ask(b) /\ ~retired[b] /\ UNCHANGED recent
                       \/ Answered(b) /\ Saw(b, "success")
                       \/ TimedOut(b) /\ Saw(b, "timeout")
                       \/ NoVerdict(b) /\ UNCHANGED recent
  \/ Tick /\ UNCHANGED recent

HistorySpec == HistoryInit /\ [][HistoryNext]_<<optVars, recent>>

HistoryFairSpec == HistorySpec /\ Fairness

(* A block is retired exactly when its last Threshold events are timeouts,
   counted afresh from its last success or re-probe: one glitch never retires
   a block, and a block that keeps quiet never escapes.  (The class comment at
   modbus_client.py:90-110 and should_read's at 128-134.) *)
RetirementEarned ==
  \A b \in Blocks :
    retired[b] <=> /\ Len(recent[b]) >= Threshold
                   /\ \A i \in 1..Threshold :
                        recent[b][Len(recent[b]) + 1 - i] = "timeout"
=============================================================================
