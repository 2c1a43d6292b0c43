---------------------------- MODULE WatchdogProofs ----------------------------
(***************************************************************************)
(* Theorems about Watchdog, for any entries, intervals and requests.          *)
(***************************************************************************)
EXTENDS Watchdog, TLAPS

(* A checked watchdog is longer than two of the intervals it was checked against. *)
Margins == /\ \A e \in Entries : agreed[e] = 0 \/ watchdog[e] > 2 * agreed[e]
           /\ call # NoCall => call.seconds > 2 * call.checked

(* A poll is never further away than an interval and a second, counted from the
   last time the unit was heard, unless a poll got lost. *)
Schedules ==
  \A e \in up : /\ interval[e] >= 1 /\ due[e] <= interval[e] + 1
                /\ ~lost[e] => quiet[e] + due[e] <= interval[e] + 1

IInv == TypeOK /\ Margins /\ Schedules

LEMMA InitInv == Init => IInv
<1> SUFFICES ASSUME Init PROVE IInv
    OBVIOUS
<1>1. PICK w \in Factory : watchdog = [e \in Entries |-> w]
  BY DEF Init
<1>2. w \in Nat
  BY WatchdogAssumption
<1>3. TypeOK
  BY <1>1, <1>2 DEF Init, TypeOK
<1>4. Margins
  BY <1>1, <1>2 DEF Init, Margins
<1>5. Schedules
  BY DEF Init, Schedules
<1> QED BY <1>3, <1>4, <1>5 DEF IInv

LEMMA StepInv == IInv /\ [Next]_vars => IInv'
<1> SUFFICES ASSUME IInv, [Next]_vars PROVE IInv'
    OBVIOUS
<1> USE WatchdogAssumption DEF IInv
<1>1. ASSUME NEW e \in Entries, Start(e) PROVE IInv'
  <2>1. PICK i \in Intervals : /\ interval' = [interval EXCEPT ![e] = i]
                               /\ due' = [due EXCEPT ![e] = i + 1]
    BY <1>1 DEF Start, Rescheduled
  <2>2. i \in Nat /\ i >= 1
    BY <2>1
  <2>3. /\ up' = up \cup {e} /\ UNCHANGED <<watchdog, vpp, call, agreed>>
        /\ quiet' = [quiet EXCEPT ![e] = 0] /\ lost' = [lost EXCEPT ![e] = FALSE]
    BY <1>1 DEF Start, Heard
  <2>4. TypeOK'
    BY <2>1, <2>2, <2>3 DEF TypeOK
  <2>5. Margins'
    BY <2>3 DEF Margins
  <2>6. Schedules'
    BY <2>1, <2>2, <2>3 DEF Schedules, TypeOK
  <2> QED BY <2>4, <2>5, <2>6
<1>2. ASSUME NEW e \in Entries, Stop(e) PROVE IInv'
  <2>1. TypeOK'
    BY <1>2 DEF Stop, TypeOK
  <2>2. Margins'
    BY <1>2 DEF Stop, Margins
  <2>3. Schedules'
    BY <1>2 DEF Stop, Schedules, TypeOK
  <2> QED BY <2>1, <2>2, <2>3
<1>3. ASSUME NEW e \in Entries, Poll(e) PROVE IInv'
  <2>1. TypeOK'
    BY <1>3 DEF Poll, Rescheduled, Heard, TypeOK
  <2>2. Margins'
    BY <1>3 DEF Poll, Margins
  <2>3. Schedules'
    BY <1>3 DEF Poll, Rescheduled, Heard, Schedules, TypeOK
  <2> QED BY <2>1, <2>2, <2>3
<1>4. ASSUME NEW e \in Entries, LosePoll(e) PROVE IInv'
  <2>1. TypeOK'
    BY <1>4 DEF LosePoll, Rescheduled, TypeOK
  <2>2. Margins'
    BY <1>4 DEF LosePoll, Margins
  <2>3. Schedules'
    BY <1>4 DEF LosePoll, Rescheduled, Schedules, TypeOK
  <2> QED BY <2>1, <2>2, <2>3
<1>5. ASSUME NEW id \in Entries \cup {NoEntry}, SetWatchdog(id) PROVE IInv'
  <2>1. PICK seconds \in Requests, e \in Targets(id) :
          /\ Accepts(seconds, interval[e])
          /\ call' = [entry |-> e, seconds |-> seconds, checked |-> interval[e]]
          /\ UNCHANGED <<home, quiet, watchdog, vpp, agreed, lost>>
    BY <1>5 DEF SetWatchdog
  <2>2. e \in Entries
    BY <2>1 DEF Targets, TypeOK
  <2>3. seconds \in Nat /\ interval[e] \in Nat /\ seconds > 2 * interval[e]
    BY <2>1, <2>2 DEF Accepts, TypeOK
  <2>4. call' \in Calls
    BY <2>1, <2>2, <2>3 DEF Calls
  <2>5. TypeOK'
    BY <2>1, <2>4 DEF TypeOK, home
  <2>6. Margins'
    BY <2>1, <2>3 DEF Margins
  <2>7. Schedules'
    BY <2>1 DEF Schedules, home
  <2> QED BY <2>5, <2>6, <2>7
<1>6. ASSUME NEW e \in Entries, WriteWatchdog(e) PROVE IInv'
  <2>1. /\ call \in Calls /\ call.seconds > 2 * call.checked
        /\ watchdog' = [watchdog EXCEPT ![e] = call.seconds]
        /\ agreed' = [agreed EXCEPT ![e] = call.checked]
        /\ call' = NoCall
        /\ quiet' = [quiet EXCEPT ![e] = 0] /\ lost' = [lost EXCEPT ![e] = FALSE]
        /\ UNCHANGED <<up, interval, due, vpp>>
    BY <1>6 DEF WriteWatchdog, Heard, home, TypeOK, Margins
  <2>2. call.seconds \in Nat /\ call.checked \in Nat
    BY <2>1 DEF Calls
  <2>3. TypeOK'
    BY <2>1, <2>2 DEF TypeOK
  <2>4. Margins'
    BY <2>1, <2>2 DEF Margins, TypeOK
  <2>5. Schedules'
    BY <2>1 DEF Schedules, TypeOK
  <2> QED BY <2>3, <2>4, <2>5
<1>7. ASSUME FailWatchdog PROVE IInv'
  BY <1>7 DEF FailWatchdog, home, TypeOK, Margins, Schedules
<1>8. ASSUME NEW e \in Entries, Control(e) PROVE IInv'
  <2>1. /\ UNCHANGED <<up, interval, due, watchdog, call, agreed>>
        /\ vpp' = [vpp EXCEPT ![e] = ~@]
        /\ quiet' = [quiet EXCEPT ![e] = 0] /\ lost' = [lost EXCEPT ![e] = FALSE]
    BY <1>8 DEF Control, Heard, home
  <2>2. vpp' \in [Entries -> BOOLEAN]
    BY <2>1 DEF TypeOK
  <2>3. TypeOK'
    BY <2>1, <2>2 DEF TypeOK
  <2>4. Margins'
    BY <2>1 DEF Margins
  <2>5. Schedules'
    BY <2>1 DEF Schedules, TypeOK
  <2> QED BY <2>3, <2>4, <2>5
<1>9. ASSUME NEW e \in Entries, Revert(e) PROVE IInv'
  BY <1>9 DEF Revert, home, TypeOK, Margins, Schedules
<1>10. ASSUME Tick PROVE IInv'
  <2>1. /\ \A e \in up : due[e] > 0
        /\ due' = [e \in Entries |-> IF e \in up THEN due[e] - 1 ELSE due[e]]
        /\ quiet' = [e \in Entries |->
                       IF quiet[e] < watchdog[e] THEN quiet[e] + 1 ELSE quiet[e]]
        /\ UNCHANGED <<up, interval, watchdog, vpp, call, agreed, lost>>
    BY <1>10 DEF Tick
  <2>2. due' \in [Entries -> Nat] /\ quiet' \in [Entries -> Nat]
    BY <2>1 DEF TypeOK
  <2>3. TypeOK'
    BY <2>1, <2>2 DEF TypeOK
  <2>4. Margins'
    BY <2>1 DEF Margins
  <2>5. Schedules'
    BY <2>1 DEF Schedules, TypeOK
  <2> QED BY <2>3, <2>4, <2>5
<1>11. CASE UNCHANGED vars
  BY <1>11 DEF vars, home, TypeOK, Margins, Schedules
<1> QED
  BY <1>1, <1>2, <1>3, <1>4, <1>5, <1>6, <1>7, <1>8, <1>9, <1>10, <1>11 DEF Next

(* Every variable of the watchdog keeps its type, for any schedule of polls, calls
   and reloads (__init__.py:59-145). *)
THEOREM TypeCorrect == Spec => []TypeOK
<1>1. IInv => TypeOK
  BY DEF IInv
<1> QED BY InitInv, StepInv, <1>1, PTL DEF Spec

(* The check of the service is enough: a second of scheduling slack never exceeds
   an interval, so twice the interval outlasts the wait for the next poll
   (__init__.py:79-83). *)
THEOREM AlwaysHeardInTime == Spec => []HeardInTime
<1>1. IInv => HeardInTime
  BY DEF IInv, TypeOK, Margins, Schedules, HeardInTime
<1> QED BY InitInv, StepInv, <1>1, PTL DEF Spec
=============================================================================
