------------------------------- MODULE Watchdog -------------------------------
(***************************************************************************)
(* The dead-man's switch of the battery: the inverter's comms watchdog        *)
(* (register 10080), the set_watchdog service that sets it (__init__.py) and   *)
(* the polling that feeds it.  A tick is a second; polls and writes take none. *)
(***************************************************************************)
EXTENDS Integers, FiniteSets

CONSTANTS
  Entries, NoEntry,   \* config entries, each with a unit of its own
  NoCall,
  Intervals,          \* poll intervals that the options offer
  MinWatchdog, MaxWatchdog,
  Requests,           \* seconds that service calls ask for
  Factory             \* what a register may hold before the first call

ASSUME WatchdogAssumption ==
  /\ NoEntry \notin Entries
  /\ Intervals \subseteq Nat \ {0} /\ Requests \subseteq Nat /\ Factory \subseteq Nat
  /\ MinWatchdog \in Nat \ {0} /\ MaxWatchdog \in Nat

VARIABLES
  up,         \* entries in hass.data[DOMAIN]
  interval,   \* coordinator.update_interval
  due,        \* seconds until the next poll, at the latest
  quiet,      \* seconds the unit has not heard from its master, up to watchdog
  watchdog,   \* register 10080
  vpp,        \* the unit is in VPP mode
  call,       \* the service call past its checks, waiting for the lock; one at a time
  agreed,     \* history: the interval the watchdog was checked against, or 0
  lost        \* history: the unit has missed a poll since it last heard one

home == <<up, interval, due>>
vars == <<home, quiet, watchdog, vpp, call, agreed, lost>>

Init == /\ up = {}
        /\ interval = [e \in Entries |-> 0] /\ due = [e \in Entries |-> 0]
        /\ quiet = [e \in Entries |-> 0]
        /\ \E w \in Factory : watchdog = [e \in Entries |-> w]
        /\ vpp = [e \in Entries |-> FALSE]
        /\ call = NoCall
        /\ agreed = [e \in Entries |-> 0] /\ lost = [e \in Entries |-> FALSE]

(* DataUpdateCoordinator rounds to its own fraction of a second: the next refresh
   comes less than a second after its interval. *)
Rescheduled(e, i) == due' = [due EXCEPT ![e] = i + 1]

Heard(e) == quiet' = [quiet EXCEPT ![e] = 0] /\ lost' = [lost EXCEPT ![e] = FALSE]

-----------------------------------------------------------------------------
(* async_setup_entry, with the interval of the options and a first refresh; at
   first, or when a reload follows Stop. *)
Start(e) == /\ e \notin up
            /\ up' = up \cup {e}
            /\ \E i \in Intervals : /\ interval' = [interval EXCEPT ![e] = i]
                                    /\ Rescheduled(e, i)
            /\ Heard(e)
            /\ UNCHANGED <<watchdog, vpp, call, agreed>>

(* Unloaded, removed, or Home Assistant is gone.  No call is withdrawn. *)
Stop(e) == /\ e \in up
           /\ up' = up \ {e}
           /\ interval' = [interval EXCEPT ![e] = 0] /\ due' = [due EXCEPT ![e] = 0]
           /\ lost' = [lost EXCEPT ![e] = FALSE]
           /\ UNCHANGED <<quiet, watchdog, vpp, call, agreed>>

Poll(e) == /\ e \in up
           /\ Rescheduled(e, interval[e]) /\ Heard(e)
           /\ UNCHANGED <<up, interval, watchdog, vpp, call, agreed>>

LosePoll(e) == /\ e \in up
               /\ Rescheduled(e, interval[e])
               /\ lost' = [lost EXCEPT ![e] = TRUE]
               /\ UNCHANGED <<up, interval, quiet, watchdog, vpp, call, agreed>>

-----------------------------------------------------------------------------
(* _async_set_watchdog: the entry that is named, or the only one *)
Targets(id) == IF id # NoEntry THEN {id} \cap up
               ELSE IF Cardinality(up) = 1 THEN up ELSE {}

AcceptsAnyLength(seconds, i) == seconds \in MinWatchdog..MaxWatchdog

AcceptsOff(seconds, i) == seconds = 0 \/ (seconds \in MinWatchdog..MaxWatchdog /\ seconds > 2 * i)

Accepts(seconds, i) == seconds \in MinWatchdog..MaxWatchdog /\ seconds > 2 * i

SetWatchdog(id) ==
  \E seconds \in Requests : \E e \in Targets(id) :
    /\ call = NoCall
    /\ Accepts(seconds, interval[e])
    /\ call' = [entry |-> e, seconds |-> seconds, checked |-> interval[e]]
    /\ UNCHANGED <<home, quiet, watchdog, vpp, agreed, lost>>

(* async_set_watchdog with the lock: it connects if need be, even when its entry
   has been unloaded meanwhile. *)
WriteWatchdog(e) ==
  /\ call # NoCall /\ call.entry = e
  /\ watchdog' = [watchdog EXCEPT ![e] = call.seconds]
  /\ agreed' = [agreed EXCEPT ![e] = call.checked]
  /\ call' = NoCall
  /\ Heard(e)
  /\ UNCHANGED <<home, vpp>>

FailWatchdog == /\ call # NoCall
                /\ call' = NoCall
                /\ UNCHANGED <<home, quiet, watchdog, vpp, agreed, lost>>

(* async_engage, async_restore *)
Control(e) == /\ e \in up
              /\ vpp' = [vpp EXCEPT ![e] = ~@]
              /\ Heard(e)
              /\ UNCHANGED <<home, watchdog, call, agreed>>

-----------------------------------------------------------------------------
MustRevert(e) == vpp[e] /\ watchdog[e] > 0 /\ quiet[e] >= watchdog[e]

Revert(e) == /\ MustRevert(e)
             /\ vpp' = [vpp EXCEPT ![e] = FALSE]
             /\ UNCHANGED <<home, quiet, watchdog, call, agreed, lost>>

Tick == /\ \A e \in up : due[e] > 0
        /\ \A e \in Entries : ~MustRevert(e)
        /\ due' = [e \in Entries |-> IF e \in up THEN due[e] - 1 ELSE due[e]]
        /\ quiet' = [e \in Entries |->
                       IF quiet[e] < watchdog[e] THEN quiet[e] + 1 ELSE quiet[e]]
        /\ UNCHANGED <<up, interval, watchdog, vpp, call, agreed, lost>>

Next == \/ \E id \in Entries \cup {NoEntry} : SetWatchdog(id)
        \/ \E e \in Entries : \/ Start(e) \/ Stop(e) \/ Poll(e) \/ LosePoll(e)
                              \/ WriteWatchdog(e) \/ Control(e) \/ Revert(e)
        \/ FailWatchdog \/ Tick

Spec == Init /\ [][Next]_vars

(* Time passes, however many polls fit in a second (SF); polls that are due and
   reverts that are due happen. *)
FairSpec == /\ Spec /\ SF_vars(Tick)
            /\ \A e \in Entries : WF_vars(Revert(e)) /\ WF_vars(Poll(e) \/ LosePoll(e))

-----------------------------------------------------------------------------
Calls == [entry : Entries, seconds : Nat, checked : Nat]

TypeOK == /\ up \subseteq Entries
          /\ interval \in [Entries -> Nat] /\ due \in [Entries -> Nat]
          /\ quiet \in [Entries -> Nat] /\ watchdog \in [Entries -> Nat]
          /\ vpp \in [Entries -> BOOLEAN]
          /\ call \in Calls \cup {NoCall}
          /\ agreed \in [Entries -> Nat] /\ lost \in [Entries -> BOOLEAN]

(* "Watchdog must exceed twice the poll interval": as long as polls get through,
   and the entry polls no slower than when the service checked its call, the unit
   is heard before its watchdog runs out - were it set on behalf of a coordinator
   that is gone (__init__.py:79-85 against 131-145). *)
HeardInTime ==
  \A e \in up : agreed[e] >= interval[e] /\ ~lost[e] => quiet[e] < watchdog[e]

(* "a crash or removal can't leave the battery stuck on a stale command"
   (README, Watchdog): no call switches a running watchdog off, so a unit that has
   lost its master leaves VPP (const.py:61-65) - if its watchdog was ever on. *)
DeadMansSwitch ==
  \A e \in Entries : <>(watchdog[e] > 0) /\ <>[](e \notin up) => <>[]~vpp[e]
=============================================================================
