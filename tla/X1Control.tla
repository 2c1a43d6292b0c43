------------------------------ MODULE X1Control ------------------------------
(***************************************************************************)
(* tools/x1_control.py: a process that takes the battery over, tracks zero   *)
(* grid power, and gives the battery back when a signal ends it.  Its socket *)
(* delivers requests and replies in order; the process may be interrupted    *)
(* between any two bytes.                                                    *)
(***************************************************************************)
EXTENDS Integers, Sequences

CONSTANTS MinSoc, MaxDischarge, TargetGrid, Deadband, GainNum, GainDen,
          WatchdogS, \* the watchdog while controlling; 0 turns it off
          Modes,     \* work modes the tool may find
          Watchdogs, \* watchdogs it may find
          Loads,     \* what the house may draw, less its own production
          Socs,
          MaxSignals \* bound on the signals the process receives

VPP == 3
SelfConsumption == 0

ASSUME GainAssumption == GainDen \in Nat \ {0} /\ GainNum \in 0..GainDen
ASSUME RegistersAssumption == Modes \subseteq Nat /\ Watchdogs \subseteq Nat /\ WatchdogS \in Nat
ASSUME HouseAssumption == Loads \subseteq Int /\ Socs \subseteq Int /\ MinSoc \in Int
(* Eight frames are as many as _txn reads in search of its reply: every signal
   and one error in the handler leave a stale one. *)
ASSUME SignalsAssumption == MaxSignals \in 0..6
ASSUME LimitsAssumption == MaxDischarge \in Nat /\ Deadband \in Nat /\ TargetGrid \in Int

VARIABLES live,     \* LIVE
          clause,   \* "start", "try", "except" (of main) or "exited"
          at,       \* the transaction under way
          sent,     \* its request is out, its reply awaited
          engaged, cmd, newCmd,
          orig,     \* orig_wm, orig_wd
          st,       \* grid and soc as read_state returned them
          restored, \* a restore has reported success
          regs,     \* the inverter's registers
          pipe,     \* requests on their way; .own: of the transaction under way
          back,     \* replies on their way
          link, torn, signals

vars == <<live, clause, at, sent, engaged, cmd, newCmd, orig, st, restored,
          regs, pipe, back, link, torn, signals>>

local == <<engaged, cmd, newCmd, orig, st>>
wire == <<regs, pipe, back, link, torn>>

Unread == [grid |-> TargetGrid, soc |-> MinSoc]
NoOrig == [mode |-> -1, watchdog |-> 0]

Magnitude(n) == IF n < 0 THEN -n ELSE n

(* int(GAIN * error): towards zero. *)
Correction(error) ==
  LET size == (GainNum * Magnitude(error)) \div GainDen
  IN IF error < 0 THEN -size ELSE size

CapOnly(w) == IF w > MaxDischarge THEN MaxDischarge ELSE w

Clamp(w) == IF w < 0 THEN 0 ELSE IF w > MaxDischarge THEN MaxDischarge ELSE w

Backwards(c, grid, soc) == IF soc <= MinSoc THEN 0 ELSE Clamp(c - Correction(grid - TargetGrid))

NewCmd(c, grid, soc) ==
  IF soc <= MinSoc THEN 0
  ELSE IF Magnitude(grid - TargetGrid) <= Deadband THEN c
  ELSE Clamp(c + Correction(grid - TargetGrid))

Init ==
  /\ live \in BOOLEAN /\ clause = "start" /\ at = "readMode" /\ sent = FALSE
  /\ engaged = FALSE /\ cmd = 0 /\ newCmd = 0 /\ orig = NoOrig /\ st = Unread
  /\ restored = FALSE
  /\ regs \in [mode : Modes, watchdog : Watchdogs, setpoint : {0}]
  /\ pipe = <<>> /\ back = <<>> /\ link = TRUE /\ torn = FALSE /\ signals = 0

(* --- the program's transactions, in the order of main and of restore --- *)

VPPFirst == <<"engage", "arm">>

EngageOrder == <<"arm", "engage">>

RearmFirst == <<"clear", "rearm", "giveBack">>

RestoreOrder == <<"clear", "giveBack", "rearm">>

Restoring == at \in {"clear", "giveBack", "rearm"}

Put(reg, n) == [reg |-> reg, val |-> n]

(* What the transaction under way writes. *)
Writes ==
  CASE at = "arm"      -> Put("watchdog", WatchdogS)
    [] at = "engage"   -> Put("mode", VPP)
    [] at = "command"  -> Put("setpoint", newCmd)
    [] at = "clear"    -> Put("setpoint", 0)
    [] at = "giveBack" -> Put("mode", orig.mode)
    [] at = "rearm"    -> Put("watchdog", orig.watchdog)
    [] OTHER           -> Put("none", 0)

Stale(messages) == [i \in DOMAIN messages |-> [messages[i] EXCEPT !.own = FALSE]]

(* The transaction is given up; what is on the wire stays there for the next. *)
Abandon ==
  /\ sent' = FALSE
  /\ pipe' = Stale(pipe)
  /\ UNCHANGED <<regs, link>>
  /\ \/ back' = Stale(back) /\ UNCHANGED torn
     \/ back # <<>> /\ back' = Stale(Tail(back)) /\ torn' = TRUE  \* in mid-frame

(* restore() is called, from the handler or from the except clause; with
   nothing engaged it raises SystemExit at once. *)
EnterExcept ==
  /\ UNCHANGED restored
  /\ IF live /\ engaged THEN clause' = "except" /\ at' = RestoreOrder[1]
     ELSE clause' = "exited" /\ at' = "none"

(* SystemExit or KeyboardInterrupt leaves what runs now. *)
ExitRaised ==
  IF clause = "try" THEN EnterExcept
  ELSE clause' = "exited" /\ at' = "none" /\ UNCHANGED restored

(* An error leaves main, which catches none, but not restore. *)
ErrorRaised ==
  IF Restoring THEN ExitRaised
  ELSE clause' = "exited" /\ at' = "none" /\ UNCHANGED restored

Send ==
  /\ clause # "exited" /\ ~sent /\ link
  /\ sent' = TRUE
  /\ pipe' = Append(pipe, [own |-> TRUE, write |-> Writes])
  /\ UNCHANGED <<live, clause, at, local, restored, regs, back, link, torn, signals>>

SendFails ==
  /\ clause # "exited" /\ ~sent /\ ~link
  /\ ErrorRaised
  /\ UNCHANGED <<live, sent, local, wire, signals>>

(* What main or restore does with an accepted reply, up to the next request.
   Between answering a read and its receipt the inverter obeys nothing else of
   this master, so the values read are taken at the receipt. *)
Begin ==
  /\ \/ at = "readMode" /\ at' = "readWatchdog" /\ orig' = [orig EXCEPT !.mode = regs.mode]
        /\ UNCHANGED clause
     \/ at = "readWatchdog" /\ at' = "look" /\ orig' = [orig EXCEPT !.watchdog = regs.watchdog]
        /\ clause' = "try"
  /\ UNCHANGED <<engaged, cmd, newCmd, st, restored>>

Battery == IF regs.mode = VPP THEN regs.setpoint ELSE 0

Decide ==
  /\ at = "look"
  /\ st' \in [grid : {load - Battery : load \in Loads}, soc : Socs]
  /\ newCmd' = NewCmd(cmd, st'.grid, st'.soc)
  /\ IF live THEN at' = (IF engaged THEN "command" ELSE EngageOrder[1]) /\ UNCHANGED cmd
     ELSE cmd' = newCmd' /\ UNCHANGED at
  /\ UNCHANGED <<clause, engaged, orig, restored>>

Engage ==
  /\ \/ at = EngageOrder[1] /\ at' = EngageOrder[2] /\ UNCHANGED <<engaged, cmd>>
     \/ at = EngageOrder[2] /\ at' = "command" /\ engaged' = TRUE /\ UNCHANGED cmd
     \/ at = "command" /\ at' = "look" /\ cmd' = newCmd /\ UNCHANGED engaged
  /\ UNCHANGED <<clause, newCmd, orig, st, restored>>

Restore ==
  /\ Restoring
  /\ UNCHANGED local
  /\ IF at = RestoreOrder[3]
     THEN restored' = TRUE /\ IF clause = "try" THEN clause' = "except" /\ at' = RestoreOrder[1]
                              ELSE clause' = "exited" /\ at' = "none"
     ELSE at' = RestoreOrder[IF at = RestoreOrder[1] THEN 2 ELSE 3] /\ UNCHANGED <<clause, restored>>

AnyReply(reply) == TRUE

(* _txn skips replies whose transaction id is not its own. *)
Accepted(reply) == reply.own

Receive ==
  /\ sent /\ ~torn /\ back # <<>>
  /\ back' = Tail(back)
  /\ LET reply == Head(back) IN
     IF ~Accepted(reply) THEN UNCHANGED <<clause, at, sent, local, restored>>
     ELSE /\ sent' = FALSE
          /\ IF reply.ok THEN Begin \/ Decide \/ Engage \/ Restore
             ELSE ErrorRaised /\ UNCHANGED local
  /\ UNCHANGED <<live, regs, pipe, link, torn, signals>>

(* Out of step with the stream, _txn takes anything for its reply, or fails. *)
ReceiveTorn ==
  /\ sent /\ torn
  /\ sent' = FALSE
  /\ pipe' = Stale(pipe) /\ back' = Stale(back)
  /\ Restore \/ (ErrorRaised /\ UNCHANGED local)
  /\ UNCHANGED <<live, regs, link, torn, signals>>

TimeOut ==
  /\ sent
  /\ Abandon
  /\ ErrorRaised
  /\ UNCHANGED <<live, local, signals>>

(* SIGTERM: kills before the handler is set, then runs restore() on top of
   whatever was running, which never goes on. *)
Sigterm ==
  /\ clause # "exited" /\ signals < MaxSignals
  /\ signals' = signals + 1
  /\ Abandon
  /\ IF clause # "start" /\ live /\ engaged
     THEN at' = RestoreOrder[1] /\ UNCHANGED <<clause, restored>>
     ELSE ExitRaised
  /\ UNCHANGED <<live, local>>

(* Ctrl-C: KeyboardInterrupt, which restore() does not catch. *)
Sigint ==
  /\ clause # "exited" /\ signals < MaxSignals
  /\ signals' = signals + 1
  /\ Abandon
  /\ ExitRaised
  /\ UNCHANGED <<live, local>>

(* --- the inverter and the link --- *)

Obeyed(write) == IF write.reg = "none" THEN regs ELSE [regs EXCEPT ![write.reg] = write.val]

(* It obeys, refuses, or stays silent, having obeyed or not. *)
Answer ==
  /\ pipe # <<>>
  /\ pipe' = Tail(pipe)
  /\ LET request == Head(pipe)
         reply(ok) == back' = Append(back, [own |-> request.own, ok |-> ok])
     IN \/ regs' = Obeyed(request.write) /\ reply(TRUE)
        \/ regs' = regs /\ reply(FALSE)
        \/ regs' \in {regs, Obeyed(request.write)} /\ UNCHANGED back
  /\ UNCHANGED <<live, clause, at, sent, local, restored, link, torn, signals>>

LoseLink ==
  /\ link /\ link' = FALSE
  /\ pipe' = <<>> /\ back' = <<>>
  /\ UNCHANGED <<live, clause, at, sent, local, restored, regs, torn, signals>>

(* The comms watchdog, when its only master has gone quiet. *)
Expire ==
  /\ clause = "exited" /\ pipe = <<>>
  /\ regs.mode = VPP /\ regs.watchdog > 0
  /\ regs' = [regs EXCEPT !.mode = SelfConsumption]
  /\ UNCHANGED <<live, clause, at, sent, local, restored, pipe, back, link, torn, signals>>

Next == \/ Send \/ SendFails \/ Receive \/ ReceiveTorn \/ TimeOut
        \/ Sigterm \/ Sigint \/ Answer \/ LoseLink \/ Expire

Spec == Init /\ [][Next]_vars

(* A request in flight is answered or dropped, a quiet master is noticed. *)
FairSpec == Spec /\ WF_vars(Answer) /\ WF_vars(Expire)

(* ------------------------------ properties ------------------------------ *)

Request == [reg : {"mode", "watchdog", "none"}, val : Int]
             \cup [reg : {"setpoint"}, val : 0..MaxDischarge]

(* The variables keep their types; a command is never a charge nor above the
   cap (x1_control.py:130). *)
TypeOK ==
  /\ live \in BOOLEAN /\ sent \in BOOLEAN /\ engaged \in BOOLEAN
  /\ link \in BOOLEAN /\ torn \in BOOLEAN /\ restored \in BOOLEAN
  /\ clause \in {"start", "try", "except", "exited"}
  /\ at \in {"readMode", "readWatchdog", "look", "arm", "engage", "command",
             "clear", "giveBack", "rearm", "none"}
  /\ cmd \in 0..MaxDischarge /\ newCmd \in 0..MaxDischarge
  /\ orig \in [mode : Int, watchdog : Int] /\ st \in [grid : Int, soc : Int]
  /\ regs \in [mode : Int, watchdog : Int, setpoint : 0..MaxDischarge]
  /\ pipe \in Seq([own : BOOLEAN, write : Request]) /\ back \in Seq([own : BOOLEAN, ok : BOOLEAN])
  /\ signals \in Nat

(* The tool never holds the inverter in VPP without its short watchdog, in
   whatever way requests are lost, refused or abandoned: the watchdog is armed
   before VPP and given back after it (x1_control.py:107-109, 139-142).  A signal in
   the middle of a reply is the exception: the reply is then misread. *)
GuardedVPP ==
  (regs.mode = VPP /\ orig.mode \notin {NoOrig.mode, VPP} /\ ~torn) => regs.watchdog = WatchdogS

(* Once a restore has printed that it restored, the inverter is as the tool
   found it and idle, and stays so whatever requests of interrupted
   transactions are still on their way (x1_control.py:51-56, 104-113). *)
ReportedRestoreHolds ==
  (restored /\ ~torn) =>
     /\ regs.setpoint = 0 /\ regs.watchdog = orig.watchdog
     /\ orig.mode # VPP => regs.mode = orig.mode

(* Above the floor, a correction goes towards zero grid power and not beyond
   it, and a clamped one goes less far (x1_control.py:124-130). *)
NeverOvershoots ==
  LET error == st.grid - TargetGrid
      step == newCmd - cmd
  IN st.soc > MinSoc /\ clause = "try" /\ at \in {"arm", "engage", "command"} =>
       IF error >= 0 THEN step \in 0..error ELSE step \in error..0

(* However the tool ends, the inverter leaves VPP: by the restore, or by the
   watchdog (x1_control.py:112; README.md:184-186). *)
LeavesVPP ==
  (clause = "exited" /\ ~torn /\ orig.mode \notin {NoOrig.mode, VPP}) ~> (regs.mode # VPP)

(* "always restores the original work mode on exit" (x1_control.py:7-8), taken
   where it can: the tool has engaged, the link is up, nothing is in flight. *)
AlwaysRestores ==
  (clause = "exited" /\ engaged /\ link /\ ~torn /\ pipe = <<>> /\ orig.mode \notin {NoOrig.mode, VPP})
     => regs.mode = orig.mode
=============================================================================
