--------------------------- MODULE X1ControlProofs ---------------------------
(***************************************************************************)
(* Theorems about X1Control, for any number of signals, any house, any        *)
(* limits and gain, and an inverter that may lose, refuse or delay anything.  *)
(***************************************************************************)
EXTENDS X1Control, TLAPS

(* What the reply to the transaction under way vouches for. *)
Done == Writes.reg # "none" => regs[Writes.reg] = Writes.val

(* The request under way is the last in the pipe, its reply comes after all
   others: while it is in the pipe nothing is behind it, and once it is answered
   the pipe is empty. *)
InOrder ==
  /\ clause = "exited" => ~sent
  /\ \A i \in 1..Len(pipe) :
       pipe[i].own => sent /\ i = Len(pipe) /\ pipe[i].write = Writes
  /\ \A i \in 1..Len(back) :
       back[i].own => sent /\ i = Len(back) /\ pipe = <<>> /\ (back[i].ok => Done)

(* A register has the value n, and keeps it whatever is still in the pipe. *)
Settled(reg, n) ==
  /\ regs[reg] = n
  /\ \A i \in 1..Len(pipe) : pipe[i].write.reg = reg => pipe[i].write.val = n

(* The inverter is not in VPP, and nothing in the pipe puts it there. *)
Calm ==
  /\ regs.mode # VPP
  /\ \A i \in 1..Len(pipe) : pipe[i].write.reg = "mode" => pipe[i].write.val # VPP

Watched == Settled("watchdog", WatchdogS)

Foreign == orig.mode \notin {NoOrig.mode, VPP}

(* VPP is only asked for under the watchdog, the watchdog only given back once
   VPP is over. *)
Phases ==
  Foreign => /\ Calm \/ Watched
             /\ at = "engage" => Watched
             /\ at = "rearm" => Calm

(* The progress of a restore; the one that reported keeps all of it. *)
Progress ==
  /\ restored => at \in {"clear", "giveBack", "rearm", "none"}
  /\ restored \/ at \in {"giveBack", "rearm"} => Settled("setpoint", 0)
  /\ (restored \/ at = "rearm") /\ orig.mode # VPP => Settled("mode", orig.mode)
  /\ restored => Settled("watchdog", orig.watchdog)

Healthy == InOrder /\ Phases /\ Progress

IInv == TypeOK /\ (~torn => Healthy)

(* ------------------------------ the command ------------------------------ *)

LEMMA CorrectionBound ==
  ASSUME NEW error \in Int
  PROVE  /\ Correction(error) \in Int
         /\ error >= 0 => Correction(error) \in 0..error
         /\ error < 0 => Correction(error) \in error..0
<1> DEFINE m == Magnitude(error)   size == (GainNum * m) \div GainDen
<1>1. m \in Nat /\ (error >= 0 => m = error) /\ (error < 0 => m = -error)
  BY DEF Magnitude
<1>2. GainDen \in Nat /\ GainDen > 0 /\ GainNum \in Nat /\ GainNum <= GainDen
  BY GainAssumption
<1> HIDE DEF m
<1>3. GainNum * m \in Nat /\ GainNum * m <= GainDen * m
  BY <1>1, <1>2, SMT
<1>4. size \in Int /\ GainNum * m = GainDen * size + ((GainNum * m) % GainDen)
         /\ (GainNum * m) % GainDen \in 0..(GainDen - 1)
  BY <1>2, <1>3, SMT
<1> HIDE DEF size
<1>5. size <= m
  <2>1. GainDen * size <= GainDen * m
    BY <1>1, <1>2, <1>3, <1>4, SMT
  <2> QED BY <1>1, <1>2, <1>4, <2>1, SMT
<1>6. size >= 0
  <2>1. GainDen * size + GainDen > 0
    BY <1>2, <1>3, <1>4, SMT
  <2> QED BY <1>2, <1>4, <2>1, SMT
<1>7. Correction(error) = IF error < 0 THEN -size ELSE size
  BY DEF Correction, size, m
<1> QED BY <1>1, <1>4, <1>5, <1>6, <1>7

(* The command stays in its range, and above the floor of the state of charge
   it moves towards zero grid power without passing it. *)
LEMMA CommandMoves ==
  ASSUME NEW c \in 0..MaxDischarge, NEW grid \in Int, NEW soc \in Int
  PROVE  LET error == grid - TargetGrid   step == NewCmd(c, grid, soc) - c
         IN /\ NewCmd(c, grid, soc) \in 0..MaxDischarge
            /\ soc > MinSoc => IF error >= 0 THEN step \in 0..error ELSE step \in error..0
<1> DEFINE error == grid - TargetGrid   new == NewCmd(c, grid, soc)
<1>1. error \in Int /\ MaxDischarge \in Nat /\ MinSoc \in Int
  BY LimitsAssumption, HouseAssumption
<1>2. /\ Correction(error) \in Int
      /\ error >= 0 => Correction(error) \in 0..error
      /\ error < 0 => Correction(error) \in error..0
  BY <1>1, CorrectionBound
<1>3. \/ new = 0 /\ soc <= MinSoc
      \/ new = c
      \/ new = Clamp(c + Correction(error))
  BY DEF NewCmd
<1> HIDE DEF new, error
<1>4. new \in 0..MaxDischarge /\ (soc > MinSoc => IF error >= 0 THEN new - c \in 0..error
                                                   ELSE new - c \in error..0)
  <2>1. CASE new = 0 /\ soc <= MinSoc
    BY <1>1, <2>1
  <2>2. CASE new = c
    BY <1>1, <2>2
  <2>3. CASE new = Clamp(c + Correction(error))
    BY <1>1, <1>2, <2>3 DEF Clamp
  <2> QED BY <1>3, <2>1, <2>2, <2>3
<1> QED BY <1>4 DEF new, error

(* ------------------------------- the wire -------------------------------- *)

Sent == [own : BOOLEAN, write : Request]
Answered == [own : BOOLEAN, ok : BOOLEAN]

LEMMA StalePipe ==
  ASSUME NEW s \in Seq(Sent)
  PROVE  /\ Stale(s) \in Seq(Sent) /\ Len(Stale(s)) = Len(s)
         /\ \A i \in 1..Len(s) : ~Stale(s)[i].own /\ Stale(s)[i].write = s[i].write
<1>1. DOMAIN s = 1..Len(s) /\ Len(s) \in Nat /\ \A i \in 1..Len(s) : s[i] \in Sent
  OBVIOUS
<1>2. \A i \in 1..Len(s) : /\ [s[i] EXCEPT !.own = FALSE] \in Sent
                           /\ [s[i] EXCEPT !.own = FALSE].own = FALSE
                           /\ [s[i] EXCEPT !.own = FALSE].write = s[i].write
  BY <1>1 DEF Sent
<1>3. Stale(s) = [i \in 1..Len(s) |-> [s[i] EXCEPT !.own = FALSE]]
  BY <1>1 DEF Stale
<1>4. Stale(s) \in Seq(Sent) /\ Len(Stale(s)) = Len(s)
  BY <1>1, <1>2, <1>3
<1> QED BY <1>2, <1>3, <1>4

LEMMA StaleBack ==
  ASSUME NEW s \in Seq(Answered)
  PROVE  /\ Stale(s) \in Seq(Answered) /\ Len(Stale(s)) = Len(s)
         /\ \A i \in 1..Len(s) : ~Stale(s)[i].own
<1>1. DOMAIN s = 1..Len(s) /\ Len(s) \in Nat /\ \A i \in 1..Len(s) : s[i] \in Answered
  OBVIOUS
<1>2. \A i \in 1..Len(s) : /\ [s[i] EXCEPT !.own = FALSE] \in Answered
                           /\ [s[i] EXCEPT !.own = FALSE].own = FALSE
  BY <1>1 DEF Answered
<1>3. Stale(s) = [i \in 1..Len(s) |-> [s[i] EXCEPT !.own = FALSE]]
  BY <1>1 DEF Stale
<1>4. Stale(s) \in Seq(Answered) /\ Len(Stale(s)) = Len(s)
  BY <1>1, <1>2, <1>3
<1> QED BY <1>2, <1>3, <1>4

(* An exception leaves a restore to begin, or nothing. *)
LEMMA Leaving ==
  ASSUME ErrorRaised \/ ExitRaised
  PROVE  at' \in {"clear", "none"} /\ restored' = restored
           /\ clause' \in {"except", "exited"}
BY DEF ErrorRaised, ExitRaised, EnterExcept, RestoreOrder

LEMMA WritesTyped == ASSUME TypeOK PROVE Writes \in Request
<1>1. orig.mode \in Int /\ orig.watchdog \in Int /\ newCmd \in 0..MaxDischarge
  BY DEF TypeOK
<1>2. WatchdogS \in Int /\ 0 \in 0..MaxDischarge
  BY RegistersAssumption, LimitsAssumption
<1> QED BY <1>1, <1>2, SMT DEF Writes, Put, Request, VPP, TypeOK

LEMMA ObeyedTyped ==
  ASSUME TypeOK, NEW w \in Request
  PROVE  /\ Obeyed(w) \in [mode : Int, watchdog : Int, setpoint : 0..MaxDischarge]
         /\ w.reg # "none" => Obeyed(w)[w.reg] = w.val
         /\ \A reg \in {"mode", "watchdog", "setpoint"} :
              w.reg # reg => Obeyed(w)[reg] = regs[reg]
BY DEF TypeOK, Request, Obeyed

(* ------------------------------ type correctness -------------------------- *)

LEMMA InitTyped == Init => TypeOK
<1> SUFFICES ASSUME Init PROVE TypeOK
    OBVIOUS
<1>1. regs \in [mode : Int, watchdog : Int, setpoint : 0..MaxDischarge]
  <2>1. \A m \in Modes : m \in Int
    BY RegistersAssumption
  <2>2. \A w \in Watchdogs : w \in Int
    BY RegistersAssumption
  <2>3. \A n \in {0} : n \in 0..MaxDischarge
    BY LimitsAssumption
  <2> QED BY <2>1, <2>2, <2>3 DEF Init
<1>2. orig \in [mode : Int, watchdog : Int] /\ st \in [grid : Int, soc : Int]
  BY LimitsAssumption, HouseAssumption DEF Init, NoOrig, Unread
<1>3. pipe \in Seq([own : BOOLEAN, write : Request]) /\ back \in Seq([own : BOOLEAN, ok : BOOLEAN])
  BY DEF Init
<1>4. cmd \in 0..MaxDischarge /\ newCmd \in 0..MaxDischarge /\ signals \in Nat
  BY LimitsAssumption DEF Init
<1>5. /\ live \in BOOLEAN /\ sent \in BOOLEAN /\ engaged \in BOOLEAN
      /\ link \in BOOLEAN /\ torn \in BOOLEAN /\ restored \in BOOLEAN
      /\ clause = "start" /\ at = "readMode"
  BY DEF Init
<1> QED BY <1>1, <1>2, <1>3, <1>4, <1>5 DEF TypeOK

(* The typing of the wire and that of the program's own variables. *)
WireTyped ==
  /\ sent \in BOOLEAN /\ link \in BOOLEAN /\ torn \in BOOLEAN /\ signals \in Nat
  /\ regs \in [mode : Int, watchdog : Int, setpoint : 0..MaxDischarge]
  /\ pipe \in Seq(Sent) /\ back \in Seq(Answered)

LocalTyped ==
  /\ live \in BOOLEAN /\ engaged \in BOOLEAN /\ restored \in BOOLEAN
  /\ clause \in {"start", "try", "except", "exited"}
  /\ at \in {"readMode", "readWatchdog", "look", "arm", "engage", "command",
             "clear", "giveBack", "rearm", "none"}
  /\ cmd \in 0..MaxDischarge /\ newCmd \in 0..MaxDischarge
  /\ orig \in [mode : Int, watchdog : Int] /\ st \in [grid : Int, soc : Int]

LEMMA Typing ==
  /\ TypeOK <=> WireTyped /\ LocalTyped
  /\ TypeOK' <=> WireTyped' /\ LocalTyped'
BY DEF TypeOK, WireTyped, LocalTyped, Sent, Answered

LEMMA AbandonTyped == WireTyped /\ Abandon /\ signals' \in Nat => WireTyped'
<1> SUFFICES ASSUME WireTyped, Abandon, signals' \in Nat PROVE WireTyped'
    OBVIOUS
<1>1. pipe' \in Seq(Sent)
  BY StalePipe DEF WireTyped, Abandon
<1>2. back' \in Seq(Answered)
  <2>1. CASE back' = Stale(back)
    BY <2>1, StaleBack DEF WireTyped
  <2>2. CASE back # <<>> /\ back' = Stale(Tail(back))
    <3>1. Tail(back) \in Seq(Answered)
      BY <2>2 DEF WireTyped
    <3> QED BY <2>2, <3>1, StaleBack
  <2> QED BY <2>1, <2>2 DEF Abandon
<1> QED BY <1>1, <1>2 DEF WireTyped, Abandon

LEMMA LeavingTyped ==
  ASSUME LocalTyped, ErrorRaised \/ ExitRaised, UNCHANGED <<live, local>>
  PROVE  LocalTyped'
BY Leaving DEF LocalTyped, local

LEMMA RestoreTyped == LocalTyped /\ Restore /\ UNCHANGED live => LocalTyped'
BY DEF LocalTyped, Restore, local, RestoreOrder

LEMMA ReceiveTyped == WireTyped /\ LocalTyped /\ Receive => WireTyped' /\ LocalTyped'
<1> SUFFICES ASSUME WireTyped, LocalTyped, Receive PROVE WireTyped' /\ LocalTyped'
    OBVIOUS
<1>1. WireTyped'
  <2>1. sent' \in BOOLEAN
    BY DEF WireTyped, Receive
  <2>2. back' \in Seq(Answered)
    BY DEF WireTyped, Receive
  <2> QED BY <2>1, <2>2 DEF WireTyped, Receive
<1>2. UNCHANGED live
  BY DEF Receive
<1>3. CASE UNCHANGED <<clause, at, local, restored>>
  BY <1>1, <1>2, <1>3 DEF LocalTyped, local
<1>4. CASE ErrorRaised /\ UNCHANGED local
  BY <1>1, <1>2, <1>4, LeavingTyped
<1>5. CASE Begin
  <2>1. orig' \in [mode : Int, watchdog : Int]
    BY <1>5 DEF LocalTyped, Begin, WireTyped
  <2>2. LocalTyped'
    BY <1>2, <1>5, <2>1 DEF LocalTyped, Begin
  <2> QED BY <1>1, <2>2
<1>6. CASE Decide
  <2>1. st' \in [grid : Int, soc : Int]
    <3>1. Battery \in Int
      BY LimitsAssumption DEF Battery, WireTyped
    <3>2. \A load \in Loads : load - Battery \in Int
      BY <3>1, HouseAssumption
    <3> QED BY <1>6, <3>2, HouseAssumption DEF Decide
  <2>2. newCmd' \in 0..MaxDischarge
    BY <1>6, <2>1, CommandMoves DEF Decide, LocalTyped
  <2>3. cmd' \in 0..MaxDischarge /\ UNCHANGED <<live, clause, engaged, orig, restored>>
    BY <1>2, <1>6, <2>2 DEF LocalTyped, Decide
  <2>4. at' \in {"look", "arm", "command"}
    BY <1>6 DEF Decide, EngageOrder
  <2>5. LocalTyped'
    BY <2>1, <2>2, <2>3, <2>4 DEF LocalTyped
  <2> QED BY <1>1, <2>5
<1>7. CASE Engage
  <2>1. LocalTyped'
    BY <1>2, <1>7 DEF LocalTyped, Engage, EngageOrder
  <2> QED BY <1>1, <2>1
<1>8. CASE Restore
  BY <1>1, <1>2, <1>8, RestoreTyped
<1>9. \/ UNCHANGED <<clause, at, local, restored>>
      \/ ErrorRaised /\ UNCHANGED local
      \/ Begin \/ Decide \/ Engage \/ Restore
  BY DEF Receive
<1> QED BY <1>1, <1>3, <1>4, <1>5, <1>6, <1>7, <1>8, <1>9

LEMMA AnswerTyped == TypeOK /\ Answer => TypeOK'
<1> SUFFICES ASSUME TypeOK, Answer PROVE TypeOK'
    OBVIOUS
<1>1. WireTyped /\ LocalTyped
  BY Typing
<1>2. Head(pipe) \in Sent /\ Tail(pipe) \in Seq(Sent)
  BY <1>1 DEF WireTyped, Answer
<1>3. regs' \in [mode : Int, watchdog : Int, setpoint : 0..MaxDischarge]
  <2>1. Head(pipe).write \in Request
    BY <1>2 DEF Sent
  <2>2. Obeyed(Head(pipe).write) \in [mode : Int, watchdog : Int, setpoint : 0..MaxDischarge]
    BY <2>1, ObeyedTyped
  <2> QED BY <1>1, <2>2 DEF Answer, WireTyped
<1>4. back' \in Seq(Answered)
  <2>1. \A ok \in BOOLEAN : [own |-> Head(pipe).own, ok |-> ok] \in Answered
    BY <1>2 DEF Sent, Answered
  <2>2. \A ok \in BOOLEAN : Append(back, [own |-> Head(pipe).own, ok |-> ok]) \in Seq(Answered)
    BY <1>1, <2>1 DEF WireTyped
  <2> QED BY <1>1, <2>2 DEF Answer, WireTyped
<1>5. WireTyped'
  BY <1>1, <1>2, <1>3, <1>4 DEF WireTyped, Answer
<1>6. LocalTyped'
  BY <1>1 DEF LocalTyped, Answer, local
<1> QED BY <1>5, <1>6, Typing

LEMMA StepTyped == TypeOK /\ [Next]_vars => TypeOK'
<1> SUFFICES ASSUME TypeOK, [Next]_vars PROVE TypeOK'
    OBVIOUS
<1>0. WireTyped /\ LocalTyped
  BY Typing
<1>1. CASE Send
  <2>1. [own |-> TRUE, write |-> Writes] \in Sent
    BY WritesTyped DEF Sent
  <2>2. pipe' \in Seq(Sent)
    BY <1>0, <1>1, <2>1 DEF WireTyped, Send
  <2> QED BY <1>0, <1>1, <2>2 DEF Send, TypeOK, WireTyped, LocalTyped, local, Sent
<1>2. CASE SendFails
  <2>1. LocalTyped'
    BY <1>0, <1>2, LeavingTyped DEF SendFails
  <2>2. WireTyped'
    BY <1>0, <1>2 DEF SendFails, WireTyped, wire
  <2> QED BY <2>1, <2>2, Typing
<1>3. CASE Receive
  BY <1>0, <1>3, ReceiveTyped, Typing
<1>4. CASE ReceiveTorn
  <2>1. LocalTyped'
    <3>1. CASE Restore
      BY <1>0, <1>4, <3>1, RestoreTyped DEF ReceiveTorn
    <3>2. CASE ErrorRaised /\ UNCHANGED local
      BY <1>0, <1>4, <3>2, LeavingTyped DEF ReceiveTorn
    <3> QED BY <1>4, <3>1, <3>2 DEF ReceiveTorn
  <2>2. WireTyped'
    BY <1>0, <1>4, StalePipe, StaleBack DEF ReceiveTorn, WireTyped
  <2> QED BY <2>1, <2>2, Typing
<1>5. CASE TimeOut
  <2>1. LocalTyped'
    BY <1>0, <1>5, LeavingTyped DEF TimeOut
  <2>2. WireTyped'
    BY <1>0, <1>5, AbandonTyped DEF TimeOut, WireTyped
  <2> QED BY <2>1, <2>2, Typing
<1>6. CASE Sigterm
  <2>1. LocalTyped'
    <3>1. CASE at' = RestoreOrder[1] /\ UNCHANGED <<clause, restored>>
      BY <1>0, <1>6, <3>1 DEF Sigterm, LocalTyped, local, RestoreOrder
    <3>2. CASE ExitRaised
      BY <1>0, <1>6, <3>2, LeavingTyped DEF Sigterm
    <3> QED BY <1>6, <3>1, <3>2 DEF Sigterm
  <2>2. signals' \in Nat
    BY <1>0, <1>6 DEF Sigterm, WireTyped
  <2>3. WireTyped'
    BY <1>0, <1>6, <2>2, AbandonTyped DEF Sigterm
  <2> QED BY <2>1, <2>3, Typing
<1>7. CASE Sigint
  <2>1. LocalTyped'
    BY <1>0, <1>7, LeavingTyped DEF Sigint
  <2>2. signals' \in Nat
    BY <1>0, <1>7 DEF Sigint, WireTyped
  <2>3. WireTyped'
    BY <1>0, <1>7, <2>2, AbandonTyped DEF Sigint
  <2> QED BY <2>1, <2>3, Typing
<1>8. CASE Answer
  BY <1>8, AnswerTyped
<1>9. CASE LoseLink
  <2>1. WireTyped'
    <3>1. pipe' \in Seq(Sent) /\ back' \in Seq(Answered)
      BY <1>9 DEF LoseLink
    <3>2. UNCHANGED <<sent, torn, signals, regs>> /\ link' \in BOOLEAN
      BY <1>9 DEF LoseLink
    <3> QED BY <1>0, <3>1, <3>2 DEF WireTyped
  <2> QED BY <1>0, <1>9, <2>1, Typing DEF LoseLink, LocalTyped, local
<1>10. CASE Expire
  <2>1. WireTyped'
    BY <1>0, <1>10 DEF Expire, WireTyped, SelfConsumption
  <2> QED BY <1>0, <1>10, <2>1, Typing DEF Expire, LocalTyped, local
<1>11. CASE UNCHANGED vars
  BY <1>11 DEF TypeOK, vars
<1> QED BY <1>1, <1>2, <1>3, <1>4, <1>5, <1>6, <1>7, <1>8, <1>9, <1>10, <1>11 DEF Next

(* The tool's variables keep their types; the command, in the program and in the
   inverter, is never a charge nor above the cap (x1_control.py:129-130). *)
THEOREM TypeCorrect == Spec => []TypeOK
<1> QED BY InitTyped, StepTyped, PTL DEF Spec

(* ---------------------------- no overshooting ----------------------------- *)

LEMMA StepOvershoots == TypeOK /\ TypeOK' /\ NeverOvershoots /\ [Next]_vars => NeverOvershoots'
<1> SUFFICES ASSUME TypeOK, TypeOK', NeverOvershoots, [Next]_vars PROVE NeverOvershoots'
    OBVIOUS
<1>1. CASE at' \notin {"arm", "engage", "command"}
  BY <1>1 DEF NeverOvershoots
<1>2. CASE UNCHANGED <<clause, at, local, restored>>
  BY <1>2 DEF NeverOvershoots, local
<1>3. CASE Decide
  <2>1. CASE cmd' = cmd
    <3>1. newCmd' = NewCmd(cmd, st'.grid, st'.soc) /\ cmd \in 0..MaxDischarge
            /\ st'.grid \in Int /\ st'.soc \in Int
      BY <1>3 DEF Decide, TypeOK
    <3> QED BY <2>1, <3>1, CommandMoves DEF NeverOvershoots
  <2>2. CASE at' = at
    BY <1>1, <1>3, <2>2 DEF Decide
  <2> QED BY <1>3, <2>1, <2>2 DEF Decide
<1>4. CASE Engage
  BY <1>1, <1>4 DEF Engage, EngageOrder, NeverOvershoots
<1>5. CASE ErrorRaised \/ ExitRaised
  BY <1>1, <1>5, Leaving
<1>6. CASE Begin \/ Restore \/ at' = RestoreOrder[1]
  BY <1>1, <1>6 DEF Begin, Restore, RestoreOrder
<1>7. CASE UNCHANGED vars
  BY <1>7 DEF NeverOvershoots, vars
<1>8. \/ UNCHANGED <<clause, at, local, restored>> \/ UNCHANGED vars
      \/ Begin \/ Decide \/ Engage \/ Restore \/ ErrorRaised \/ ExitRaised
      \/ at' = RestoreOrder[1]
  BY DEF Next, Send, SendFails, Receive, ReceiveTorn, TimeOut, Sigterm, Sigint,
         Answer, LoseLink, Expire
<1> QED BY <1>2, <1>3, <1>4, <1>5, <1>6, <1>7, <1>8

(* For every house, gain, deadband and cap, a correction goes towards zero grid
   power and not beyond it (x1_control.py:124-130). *)
THEOREM NoOvershoot == Spec => []NeverOvershoots
<1>1. Init => NeverOvershoots
  BY DEF Init, NeverOvershoots
<1> QED BY <1>1, InitTyped, StepTyped, StepOvershoots, PTL DEF Spec

(* ---------------------------- the invariant ------------------------------- *)

LEMMA InitInv == Init => IInv
<1> SUFFICES ASSUME Init PROVE IInv
    OBVIOUS
<1>1. TypeOK
  BY InitTyped
<1>2. Len(pipe) = 0 /\ Len(back) = 0 /\ clause = "start"
  BY DEF Init
<1>3. InOrder
  BY <1>2 DEF InOrder
<1>4. Phases
  BY DEF Init, Phases, Foreign
<1>5. Progress
  BY DEF Init, Progress
<1> QED BY <1>1, <1>3, <1>4, <1>5 DEF IInv, Healthy

(* Nothing new in the pipe. *)
NoMore == \A i \in 1..Len(pipe') : \E j \in 1..Len(pipe) : pipe'[i].write = pipe[j].write

(* What an exception leaves behind: nothing of the transaction under way. *)
LEMMA Given ==
  ASSUME TypeOK, Healthy, NoMore, UNCHANGED <<regs, orig>>, sent' = FALSE,
         at' \in {"clear", "none"}, restored' = restored,
         \A i \in 1..Len(pipe') : ~pipe'[i].own,
         \A i \in 1..Len(back') : ~back'[i].own
  PROVE  Healthy'
<1>1. InOrder'
  BY DEF InOrder
<1>2. (Calm \/ Watched => Calm' \/ Watched')
  BY DEF NoMore, Calm, Watched, Settled
<1>3. Phases'
  BY <1>2 DEF Healthy, Phases, Foreign
<1>5. Progress'
  <2>1. Settled("setpoint", 0) => Settled("setpoint", 0)'
    BY DEF NoMore, Settled
  <2>2. Settled("mode", orig.mode) => Settled("mode", orig.mode)'
    BY DEF NoMore, Settled
  <2>3. Settled("watchdog", orig.watchdog) => Settled("watchdog", orig.watchdog)'
    BY DEF NoMore, Settled
  <2> QED BY <2>1, <2>2, <2>3 DEF Healthy, Progress
<1> QED BY <1>1, <1>3, <1>5 DEF Healthy

LEMMA AbandonClean ==
  ASSUME TypeOK, Abandon
  PROVE  NoMore /\ (\A i \in 1..Len(pipe') : ~pipe'[i].own) /\ (\A i \in 1..Len(back') : ~back'[i].own)
<1>1. pipe \in Seq(Sent) /\ back \in Seq(Answered)
  BY DEF TypeOK, Sent, Answered
<1>2. /\ Len(pipe') = Len(pipe)
      /\ \A i \in 1..Len(pipe) : ~pipe'[i].own /\ pipe'[i].write = pipe[i].write
  BY <1>1, StalePipe DEF Abandon
<1>3. \A i \in 1..Len(back') : ~back'[i].own
  <2>1. CASE back' = Stale(back)
    BY <1>1, <2>1, StaleBack
  <2>2. CASE back # <<>> /\ back' = Stale(Tail(back))
    <3>1. Tail(back) \in Seq(Answered)
      BY <1>1, <2>2
    <3> QED BY <2>2, <3>1, StaleBack
  <2> QED BY <2>1, <2>2 DEF Abandon
<1> QED BY <1>2, <1>3 DEF NoMore

LEMMA SendInv ==
  ASSUME TypeOK, Healthy, Send
  PROVE  Healthy'
<1> DEFINE new == [own |-> TRUE, write |-> Writes]
<1>1. pipe \in Seq(Sent) /\ back \in Seq(Answered) /\ Len(pipe) \in Nat
  BY DEF TypeOK, Sent, Answered
<1>2. pipe' = Append(pipe, new) /\ UNCHANGED <<at, orig, newCmd, restored, regs, back>> /\ sent' = TRUE /\ ~sent
  BY DEF Send, local
<1>3. /\ Len(pipe') = Len(pipe) + 1 /\ pipe'[Len(pipe) + 1] = new
      /\ \A i \in 1..Len(pipe) : pipe'[i] = pipe[i]
  BY <1>1, <1>2
<1> HIDE DEF new
<1>4. new.own = TRUE /\ new.write = Writes /\ Writes' = Writes
  BY <1>2 DEF new, Writes
<1>5. InOrder'
  <2>1. (\A i \in 1..Len(pipe) : ~pipe[i].own) /\ (\A i \in 1..Len(back) : ~back[i].own)
    BY <1>2 DEF Healthy, InOrder
  <2>2. ASSUME NEW i \in 1..Len(pipe'), pipe'[i].own
        PROVE  sent' /\ i = Len(pipe') /\ pipe'[i].write = Writes'
    <3>1. i = Len(pipe) + 1
      BY <1>1, <1>3, <2>1, <2>2
    <3> QED BY <1>2, <1>3, <1>4, <3>1
  <2>3. clause' # "exited"
    BY DEF Send
  <2> QED BY <1>2, <2>1, <2>2, <2>3 DEF InOrder
<1>6. \A i \in 1..Len(pipe') : (i \in 1..Len(pipe) /\ pipe'[i] = pipe[i]) \/ pipe'[i].write = Writes
  BY <1>1, <1>3, <1>4
<1>7. \A reg, n : Settled(reg, n) /\ (Writes.reg = reg => Writes.val = n) => Settled(reg, n)'
  BY <1>2, <1>6 DEF Settled
<1>8. Phases'
  <2> SUFFICES ASSUME Foreign PROVE /\ Calm' \/ Watched'
                                    /\ at = "engage" => Watched'
                                    /\ at = "rearm" => Calm'
    BY <1>2 DEF Phases, Foreign
  <2>1. orig.mode # VPP
    BY DEF Foreign
  <2>2. at # "engage" /\ Calm => Calm'
    BY <1>2, <1>6, <2>1, SMT DEF Calm, Writes, Put, Foreign, VPP
  <2>3. at # "rearm" /\ Watched => Watched'
    <3>1. at # "rearm" => (Writes.reg = "watchdog" => Writes.val = WatchdogS)
      BY SMT DEF Writes, Put
    <3> QED BY <1>7, <3>1, <1>2, <1>6 DEF Watched, Settled
  <2> QED BY <2>2, <2>3 DEF Healthy, Phases
<1>9. Progress'
  <2>1. restored \/ at \in {"giveBack", "rearm"} => (Writes.reg = "setpoint" => Writes.val = 0)
    BY SMT DEF Healthy, Progress, Writes, Put
  <2>2. restored \/ at = "rearm" => (Writes.reg = "mode" => Writes.val = orig.mode)
    BY SMT DEF Healthy, Progress, Writes, Put
  <2>3. restored => (Writes.reg = "watchdog" => Writes.val = orig.watchdog)
    BY SMT DEF Healthy, Progress, Writes, Put
  <2>4. orig' = orig
    BY <1>2
  <2> QED BY <1>2, <1>6, <2>1, <2>2, <2>3, <2>4 DEF Healthy, Progress, Settled
<1> QED BY <1>5, <1>8, <1>9 DEF Healthy

LEMMA AnswerInv ==
  ASSUME TypeOK, Healthy, Answer
  PROVE  Healthy'
<1> DEFINE request == Head(pipe)   w == Head(pipe).write
<1>1. pipe \in Seq(Sent) /\ back \in Seq(Answered) /\ pipe # <<>> /\ Len(pipe) \in Nat \ {0}
  BY DEF TypeOK, Sent, Answered, Answer
<1>0. 1 \in 1..Len(pipe)
  BY <1>1
<1>2. /\ pipe' = Tail(pipe) /\ Len(pipe') = Len(pipe) - 1
      /\ \A i \in 1..Len(pipe') : i + 1 \in 1..Len(pipe) /\ pipe'[i] = pipe[i + 1]
      /\ request = pipe[1] /\ request \in Sent
  BY <1>1 DEF Answer
<1>3. w \in Request /\ request.own \in BOOLEAN
  BY <1>2 DEF Sent
<1>4. regs' = regs \/ regs' = Obeyed(w)
  BY DEF Answer
<1>5. \/ back' = back
      \/ \E ok \in BOOLEAN : /\ back' = Append(back, [own |-> request.own, ok |-> ok])
                             /\ ok => regs' = Obeyed(w)
  BY DEF Answer
<1>6. UNCHANGED <<clause, at, sent, orig, newCmd, restored>>
  BY DEF Answer, local
<1> HIDE DEF request, w
<1>7. w = pipe[1].write /\ request = pipe[1]
  BY <1>2 DEF request, w
<1>8. InOrder'
  <2>1. ASSUME NEW i \in 1..Len(pipe'), pipe'[i].own
        PROVE  sent' /\ i = Len(pipe') /\ pipe'[i].write = Writes'
    <3>1. Writes' = Writes
      BY <1>6 DEF Writes
    <3>2. sent /\ i + 1 = Len(pipe) /\ pipe[i + 1].write = Writes
      BY <1>2, <2>1 DEF Healthy, InOrder
    <3>3. sent'
      BY <1>6, <3>2
    <3>4. i = Len(pipe')
      <4>1. Len(pipe) \in Nat /\ Len(pipe') = Len(pipe) - 1 /\ i \in Int
        BY <1>1, <1>2
      <4>2. i + 1 = Len(pipe)
        BY <3>2
      <4> QED BY <4>1, <4>2
    <3>5. pipe'[i].write = Writes'
      BY <1>2, <3>1, <3>2
    <3> QED BY <3>3, <3>4, <3>5
  <2>2. \A i \in 1..Len(back) : ~back[i].own
    BY <1>1 DEF Healthy, InOrder
  <2>3. CASE back' = back
    BY <1>6, <2>1, <2>2, <2>3 DEF Healthy, InOrder
  <2>4. ASSUME NEW ok \in BOOLEAN, back' = Append(back, [own |-> request.own, ok |-> ok]),
               ok => regs' = Obeyed(w), NEW i \in 1..Len(back'), back'[i].own
        PROVE  sent' /\ i = Len(back') /\ pipe' = <<>> /\ (back'[i].ok => Done')
    <3> DEFINE reply == [own |-> request.own, ok |-> ok]
    <3>1. /\ Len(back) \in Nat /\ Len(back') = Len(back) + 1
          /\ back'[Len(back) + 1] = reply
          /\ \A j \in 1..Len(back) : back'[j] = back[j]
      BY <1>1, <2>4
    <3>2. i = Len(back) + 1
      BY <2>2, <2>4, <3>1
    <3>3. request.own /\ back'[i].ok = ok
      BY <2>4, <3>1, <3>2
    <3>4. sent /\ 1 = Len(pipe) /\ w = Writes
      <4>1. pipe[1].own
        BY <1>7, <3>3
      <4> QED BY <1>0, <1>7, <4>1 DEF Healthy, InOrder
    <3>5. pipe' = <<>>
      BY <1>1, <1>2, <3>4
    <3>6. ok => Done'
      <4>1. Writes' = Writes
        BY <1>6 DEF Writes
      <4>2. w.reg # "none" => Obeyed(w)[w.reg] = w.val
        BY <1>3, ObeyedTyped
      <4> QED BY <2>4, <3>4, <4>1, <4>2 DEF Done
    <3> QED BY <1>6, <3>1, <3>2, <3>3, <3>4, <3>5, <3>6
  <2>5. CASE \E ok \in BOOLEAN : /\ back' = Append(back, [own |-> request.own, ok |-> ok])
                                 /\ ok => regs' = Obeyed(w)
    <3>1. \A i \in 1..Len(back') :
            back'[i].own => sent' /\ i = Len(back') /\ pipe' = <<>> /\ (back'[i].ok => Done')
      BY <2>4, <2>5
    <3> QED BY <1>6, <2>1, <3>1 DEF Healthy, InOrder
  <2> QED BY <1>5, <2>3, <2>5
<1>9. \A i \in 1..Len(pipe') : \E j \in 1..Len(pipe) : pipe'[i].write = pipe[j].write
  BY <1>2
<1>10. \A reg \in {"mode", "watchdog", "setpoint"} :
         regs'[reg] = regs[reg] \/ (w.reg = reg /\ regs'[reg] = w.val)
  <2>1. CASE regs' = regs
    BY <2>1
  <2>2. CASE regs' = Obeyed(w)
    BY <1>3, <2>2, ObeyedTyped
  <2> QED BY <1>4, <2>1, <2>2
<1>12. Phases'
  <2>1. Calm => Calm'
    <3>1. Calm => regs'["mode"] # VPP
      BY <1>7, <1>10, <1>0 DEF Calm
    <3> QED BY <1>9, <3>1 DEF Calm
  <2>2. Watched => Watched'
    <3>1. Watched => regs'["watchdog"] = WatchdogS
      BY <1>7, <1>10, <1>0 DEF Watched, Settled
    <3> QED BY <1>9, <3>1 DEF Watched, Settled
  <2> QED BY <1>6, <2>1, <2>2 DEF Healthy, Phases, Foreign
<1>13. Progress'
  <2>1. Settled("setpoint", 0) => Settled("setpoint", 0)'
    BY <1>7, <1>9, <1>10, <1>0 DEF Settled
  <2>2. Settled("mode", orig.mode) => Settled("mode", orig.mode)'
    BY <1>6, <1>7, <1>9, <1>10, <1>0 DEF Settled
  <2>3. Settled("watchdog", orig.watchdog) => Settled("watchdog", orig.watchdog)'
    BY <1>6, <1>7, <1>9, <1>10, <1>0 DEF Settled
  <2> QED BY <1>6, <2>1, <2>2, <2>3 DEF Healthy, Progress
<1> QED BY <1>8, <1>12, <1>13 DEF Healthy

LEMMA ReceiveInv ==
  ASSUME TypeOK, Healthy, Receive
  PROVE  Healthy'
<1>1. back \in Seq(Answered) /\ back # <<>> /\ Len(back) \in Nat \ {0} /\ back' = Tail(back)
  BY DEF TypeOK, Answered, Receive
<1>2. /\ Head(back) = back[1] /\ Len(back') = Len(back) - 1
      /\ \A i \in 1..Len(back') : i + 1 \in 1..Len(back) /\ back'[i] = back[i + 1]
  BY <1>1
<1>3. UNCHANGED <<regs, pipe, torn>>
  BY DEF Receive
<1>4. CASE ~Head(back).own
  <2>1. UNCHANGED <<clause, at, sent, orig, newCmd, restored>>
    BY <1>4 DEF Receive, Accepted, local
  <2>2. Writes' = Writes
    BY <2>1 DEF Writes
  <2>3. InOrder'
    <3>1. \A i \in 1..Len(back') : back'[i].own =>
            sent' /\ i = Len(back') /\ pipe' = <<>> /\ (back'[i].ok => Done')
      <4> SUFFICES ASSUME NEW i \in 1..Len(back'), back'[i].own
                   PROVE  sent' /\ i = Len(back') /\ pipe' = <<>> /\ (back'[i].ok => Done')
        OBVIOUS
      <4>1. sent /\ i + 1 = Len(back) /\ pipe = <<>> /\ (back[i + 1].ok => Done)
        BY <1>2 DEF Healthy, InOrder
      <4>2. Done' = Done
        BY <1>3, <2>2 DEF Done
      <4>3. sent' /\ pipe' = <<>>
        BY <1>3, <2>1, <4>1
      <4>4. i = Len(back')
        <5>1. Len(back) \in Nat /\ Len(back') = Len(back) - 1 /\ i \in Int
          BY <1>1, <1>2
        <5>2. i + 1 = Len(back)
          BY <4>1
        <5> QED BY <5>1, <5>2
      <4>5. back'[i].ok => Done'
        BY <1>2, <4>1, <4>2
      <4> QED BY <4>3, <4>4, <4>5
    <3> QED BY <1>3, <2>1, <2>2, <3>1 DEF Healthy, InOrder
  <2>4. Phases' /\ Progress'
    BY <1>3, <2>1 DEF Healthy, Phases, Foreign, Calm, Watched, Progress, Settled
  <2> QED BY <2>3, <2>4 DEF Healthy
<1>5. CASE Head(back).own
  <2>1. sent /\ Len(back) = 1 /\ pipe = <<>> /\ (Head(back).ok => Done)
    <3>1. 1 \in 1..Len(back) /\ Head(back) = back[1]
      BY <1>1, <1>2
    <3>2. back[1].own
      BY <1>5, <3>1
    <3>3. sent /\ 1 = Len(back) /\ pipe = <<>> /\ (back[1].ok => Done)
      BY <3>1, <3>2 DEF Healthy, InOrder
    <3> QED BY <3>1, <3>3
  <2>2. Len(back') = 0 /\ Len(pipe') = 0 /\ Len(pipe) = 0 /\ sent' = FALSE
    BY <1>1, <1>2, <1>3, <1>5, <2>1 DEF Receive, Accepted
  <2>3. InOrder'
    BY <2>2 DEF InOrder
  <2>4. ASSUME NEW reg, NEW n, regs[reg] = n PROVE Settled(reg, n)'
    BY <1>3, <2>2, <2>4 DEF Settled
  <2>5. CASE ErrorRaised /\ UNCHANGED local
    <3>1. at' \in {"clear", "none"} /\ restored' = restored
      BY <2>5, Leaving
    <3>2. NoMore /\ UNCHANGED <<regs, orig>>
      BY <1>3, <2>2, <2>5 DEF NoMore, local
    <3>3. (\A i \in 1..Len(pipe') : ~pipe'[i].own) /\ (\A i \in 1..Len(back') : ~back'[i].own)
      BY <2>2
    <3> QED BY <2>2, <3>1, <3>2, <3>3, Given
  <2>6. CASE Begin /\ Head(back).ok
    <3>1. restored = FALSE /\ restored' = FALSE /\ at' \in {"readWatchdog", "look"}
      BY <2>6 DEF Begin, Healthy, Progress, TypeOK
    <3>2. Progress'
      BY <3>1 DEF Progress
    <3>3. Phases'
      <4>1. CASE at = "readMode" /\ orig' = [orig EXCEPT !.mode = regs.mode]
        <5>1. orig'.mode = regs.mode
          BY <4>1 DEF TypeOK
        <5> QED BY <1>3, <2>2, <3>1, <5>1 DEF Phases, Foreign, Calm
      <4>2. CASE orig' = [orig EXCEPT !.watchdog = regs.watchdog]
        <5>1. orig'.mode = orig.mode
          BY <4>2 DEF TypeOK
        <5> QED BY <1>3, <2>2, <3>1, <5>1 DEF Healthy, Phases, Foreign, Calm, Watched, Settled
      <4> QED BY <2>6, <4>1, <4>2 DEF Begin
    <3> QED BY <2>3, <3>2, <3>3 DEF Healthy
  <2>7. CASE Decide
    <3>1. restored = FALSE /\ restored' = FALSE /\ orig' = orig /\ at' \in {"look", "arm", "command"}
      BY <2>7 DEF Decide, Healthy, Progress, TypeOK, EngageOrder
    <3>2. Progress'
      BY <3>1 DEF Progress
    <3>3. Phases'
      BY <1>3, <2>2, <3>1 DEF Healthy, Phases, Foreign, Calm, Watched, Settled
    <3> QED BY <2>3, <3>2, <3>3 DEF Healthy
  <2>8. CASE Engage /\ Head(back).ok
    <3>1. /\ restored = FALSE /\ restored' = FALSE /\ orig' = orig
          /\ at' \in {"engage", "command", "look"} /\ (at' = "engage" => at = "arm")
      BY <2>8 DEF Engage, Healthy, Progress, TypeOK, EngageOrder
    <3>2. Progress'
      BY <3>1 DEF Progress
    <3>3. at = "arm" => regs["watchdog"] = WatchdogS
      BY <2>1, <2>8, SMT DEF Done, Writes, Put
    <3>4. Phases'
      BY <1>3, <2>2, <3>1, <3>3 DEF Healthy, Phases, Foreign, Calm, Watched, Settled
    <3> QED BY <2>3, <3>2, <3>4 DEF Healthy
  <2>9. CASE Restore /\ Head(back).ok
    <3>1. orig' = orig /\ at \in {"clear", "giveBack", "rearm"}
      BY <2>9 DEF Restore, Restoring, local
    <3>2. /\ at = "clear" => regs["setpoint"] = 0
          /\ at = "giveBack" => regs["mode"] = orig.mode
          /\ at = "rearm" => regs["watchdog"] = orig.watchdog
      BY <2>1, <2>9, SMT DEF Done, Writes, Put
    <3>3. \/ at = "clear" /\ at' = "giveBack" /\ restored' = restored
          \/ at = "giveBack" /\ at' = "rearm" /\ restored' = restored
          \/ at = "rearm" /\ at' \in {"clear", "none"} /\ restored' = TRUE
      BY <2>9, <3>1 DEF Restore, RestoreOrder
    <3>4. Phases'
      BY <1>3, <2>2, <3>1, <3>2, <3>3 DEF Healthy, Phases, Foreign, Calm, Watched, Settled
    <3>5. Progress'
      BY <1>3, <2>2, <3>1, <3>2, <3>3 DEF Healthy, Progress, Settled
    <3> QED BY <2>3, <3>4, <3>5 DEF Healthy
  <2> QED BY <1>5, <2>5, <2>6, <2>7, <2>8, <2>9 DEF Receive, Accepted
<1> QED BY <1>4, <1>5

LEMMA StepInv == IInv /\ [Next]_vars => IInv'
<1> SUFFICES ASSUME IInv, [Next]_vars PROVE IInv'
    OBVIOUS
<1>1. TypeOK /\ TypeOK'
  BY StepTyped DEF IInv
<1>2. torn => torn'
  BY DEF Next, Send, SendFails, Receive, ReceiveTorn, TimeOut, Sigterm, Sigint,
         Answer, LoseLink, Expire, Abandon, wire, vars
<1> SUFFICES ASSUME Healthy, ~torn PROVE Healthy'
  BY <1>1, <1>2 DEF IInv
<1>3. CASE Send
  BY <1>1, <1>3, SendInv
<1>4. CASE SendFails
  <2>1. at' \in {"clear", "none"} /\ restored' = restored
    BY <1>4, Leaving DEF SendFails
  <2>2. UNCHANGED <<regs, orig, sent, pipe, back>> /\ ~sent
    BY <1>4 DEF SendFails, wire, local
  <2>3. NoMore /\ (\A i \in 1..Len(pipe') : ~pipe'[i].own) /\ (\A i \in 1..Len(back') : ~back'[i].own)
    BY <2>2 DEF Healthy, InOrder, NoMore
  <2>4. sent' = FALSE
    BY <1>1, <2>2 DEF TypeOK
  <2> QED BY <1>1, <2>1, <2>2, <2>3, <2>4, Given
<1>5. CASE Receive
  BY <1>1, <1>5, ReceiveInv
<1>6. CASE ReceiveTorn
  BY <1>6 DEF ReceiveTorn
<1>7. CASE Abandon /\ UNCHANGED local /\ (ErrorRaised \/ ExitRaised \/ (at' = RestoreOrder[1] /\ UNCHANGED restored))
  <2>1. at' \in {"clear", "none"} /\ restored' = restored
    BY <1>7, Leaving DEF RestoreOrder
  <2>2. UNCHANGED <<regs, orig>> /\ sent' = FALSE
    BY <1>7 DEF Abandon, local
  <2>3. NoMore /\ (\A i \in 1..Len(pipe') : ~pipe'[i].own) /\ (\A i \in 1..Len(back') : ~back'[i].own)
    BY <1>1, <1>7, AbandonClean
  <2> QED BY <1>1, <2>1, <2>2, <2>3, Given
<1>8. CASE Answer
  BY <1>1, <1>8, AnswerInv
<1>9. CASE LoseLink
  <2>1. UNCHANGED <<clause, at, sent, orig, restored, regs>> /\ Len(pipe') = 0 /\ Len(back') = 0
    BY <1>9 DEF LoseLink, local
  <2>2. InOrder'
    BY <2>1 DEF Healthy, InOrder
  <2>3. Phases'
    BY <2>1 DEF Healthy, Phases, Foreign, Calm, Watched, Settled
  <2>4. Progress'
    BY <2>1 DEF Healthy, Progress, Settled
  <2> QED BY <2>2, <2>3, <2>4 DEF Healthy
<1>10. CASE Expire
  <2>1. UNCHANGED <<clause, at, sent, orig, restored, pipe, back>> /\ Len(pipe) = 0
          /\ clause = "exited" /\ regs.mode = VPP
    BY <1>10 DEF Expire, local
  <2>2. regs'["mode"] = SelfConsumption /\ regs'["setpoint"] = regs["setpoint"] /\ regs'["watchdog"] = regs["watchdog"]
    BY <1>1, <1>10 DEF Expire, TypeOK
  <2>3. InOrder'
    BY <2>1 DEF Healthy, InOrder
  <2>4. Phases'
    BY <2>1, <2>2 DEF Healthy, Phases, Foreign, Calm, Watched, Settled, VPP, SelfConsumption
  <2>5. Progress'
    BY <2>1, <2>2 DEF Healthy, Progress, Settled, VPP, SelfConsumption
  <2> QED BY <2>3, <2>4, <2>5 DEF Healthy
<1>11. CASE UNCHANGED vars
  BY <1>11 DEF vars, Healthy, InOrder, Phases, Progress, Foreign, Calm, Watched, Settled, Done, Writes
<1> QED BY <1>3, <1>4, <1>5, <1>6, <1>7, <1>8, <1>9, <1>10, <1>11
        DEF Next, TimeOut, Sigterm, Sigint

(* However requests are lost, refused, delayed or abandoned, and whatever signals
   arrive, the tool keeps VPP under its short watchdog: armed before VPP is asked
   for, given back only when VPP is over (x1_control.py:107-109, 139-142). *)
THEOREM VPPIsGuarded == Spec => []GuardedVPP
<1>1. IInv => GuardedVPP
  BY DEF IInv, Healthy, Phases, Foreign, Calm, Watched, Settled, GuardedVPP
<1> QED BY <1>1, InitInv, StepInv, PTL DEF Spec

(* A restore that reports success has restored, and nothing still on its way
   undoes it (x1_control.py:51-56, 104-113). *)
THEOREM RestoreIsReal == Spec => []ReportedRestoreHolds
<1>1. IInv => ReportedRestoreHolds
  BY DEF IInv, Healthy, Progress, Settled, ReportedRestoreHolds
<1> QED BY <1>1, InitInv, StepInv, PTL DEF Spec
=============================================================================
