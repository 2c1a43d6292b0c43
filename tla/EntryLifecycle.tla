---------------------------- MODULE EntryLifecycle ----------------------------
(***************************************************************************)
(* The life of a config entry: the config flow that makes it (config_flow.py), *)
(* set-up, options, reload and unload (__init__.py), its nightly purge         *)
(* (history.py), and the one TCP connection that an X1 accepts.                *)
(*                                                                          *)
(* Home Assistant serialises set-up, reload and unload of an entry            *)
(* (setup_lock); option changes, calls, and other entries and flows come in    *)
(* between.  While faults holds, links and units fail, and Home Assistant may  *)
(* restart; Heal ends that.                                                    *)
(***************************************************************************)
EXTENDS Integers

CONSTANTS
  Units, NoUnit,
  Entries, NoEntry,     \* places for config entries
  Edited,               \* those whose options the user changes
  Serials, Blank,       \* what 10750 and 10100 may hold; not implemented, or empty
  Identities,           \* of units: which serial is where
  Address,              \* host:port of each unit
  Options, Defaults,    \* option sets: poll interval, restore mode, days of history
  WorkModes, VPP, DefaultMode

Registers == [at10750 : Serials \cup {Blank}, at10100 : Serials \cup {Blank}]
OptionSets == [poll : Nat, mode : Nat, history : Nat]
Names == Serials \cup {Address[u] : u \in Units}

ASSUME EntryAssumption ==
  /\ NoUnit \notin Units /\ NoEntry \notin Entries /\ Blank \notin Names
  /\ Identities \subseteq Registers
  /\ Options \subseteq OptionSets /\ Defaults \in Options
  /\ DefaultMode \in Nat

VARIABLES
  identity,   \* the serial registers of each unit
  conn,       \* to whom each unit's only connection belongs
  flow,       \* the unit the config flow talks to; one flow at a time
  entry,      \* unit and unique_id; sure is history: no serial read was lost
  state,      \* ConfigEntry.state, or absent, disabled
  options,    \* entry.options
  coord,      \* its coordinator: options in force and identifier; sure as above
  keep,       \* days of the history purge that is scheduled, or 0
  hooks,      \* live listeners and timers
  owned,      \* those that entry.async_on_unload releases
  reload,     \* the update listener's task waits
  missed,     \* history: the options changed with no listener there
  call,       \* a control call waits for the lock; of a coordinator that is gone
  faults

entryVars == <<entry, options>>
serveVars == <<coord, keep, hooks, owned>>
vars == <<identity, conn, flow, entryVars, state, serveVars, reload, missed, call, faults>>

Kinds == {"purge", "listener"}
Free == [to |-> NoEntry, as |-> "nobody"]
Flowing == [to |-> NoEntry, as |-> "flow"]
Live(e) == [to |-> e, as |-> "coordinator"]
FailedSetup(e) == [to |-> e, as |-> "failed setup"]
LateCall(e) == [to |-> e, as |-> "late call"]
NoBuild == [poll |-> 0, mode |-> 0]
NoCoordinator == [built |-> NoBuild, ident |-> Blank, sure |-> TRUE]
NotConfigured(u) == [unit |-> u, uid |-> Blank, sure |-> TRUE]
NoSetUp == [k \in Kinds |-> 0]

Init ==
  /\ identity \in [Units -> Identities]
  /\ conn = [u \in Units |-> Free] /\ flow = NoUnit
  /\ entry \in [Entries -> {NotConfigured(u) : u \in Units}]
  /\ state = [e \in Entries |-> "absent"]
  /\ options = [e \in Entries |-> Defaults]
  /\ coord = [e \in Entries |-> NoCoordinator] /\ keep = [e \in Entries |-> 0]
  /\ hooks = [e \in Entries |-> NoSetUp] /\ owned = [e \in Entries |-> {}]
  /\ reload = [e \in Entries |-> FALSE] /\ missed = [e \in Entries |-> FALSE]
  /\ call = [e \in Entries |-> "none"]
  /\ faults = TRUE

UnitOf(e) == entry[e].unit
Serving(e) == state[e] \in {"loaded", "failed_unload"}

-----------------------------------------------------------------------------
(* The config flow.                                                          *)

(* decode_string_lowbyte(...) or ...: an empty string is no serial *)
Name(first, second, u) ==
  IF first # Blank THEN first ELSE IF second # Blank THEN second ELSE Address[u]

(* read_optional: what the register holds, or nothing *)
Tolerant(value) == IF faults THEN {value, Blank} ELSE {value}

FlowConnect(u) == /\ flow = NoUnit /\ conn[u] = Free
                  /\ flow' = u /\ conn' = [conn EXCEPT ![u] = Flowing]
                  /\ UNCHANGED <<identity, entryVars, state, serveVars, reload, missed, call, faults>>

(* "finally: client.close()" *)
FlowFails(u) == /\ flow = u /\ faults
                /\ flow' = NoUnit /\ conn' = [conn EXCEPT ![u] = Free]
                /\ UNCHANGED <<identity, entryVars, state, serveVars, reload, missed, call, faults>>

NeverConfigured(uid) == FALSE

Configured(uid) == \E e \in Entries : state[e] # "absent" /\ entry[e].uid = uid

UniqueIdNewFirst(s, p, u) == Name(p, s, u)

UniqueId(s, p, u) == Name(s, p, u)

FlowFinishes(u, e) ==
  \E s \in Tolerant(identity[u].at10750), p \in Tolerant(identity[u].at10100) :
    /\ flow = u /\ state[e] = "absent" /\ call[e] = "none"
    /\ flow' = NoUnit /\ conn' = [conn EXCEPT ![u] = Free]
    /\ IF Configured(UniqueId(s, p, u))
       THEN UNCHANGED <<entryVars, state>>
       ELSE /\ entry' = [entry EXCEPT ![e] = [unit |-> u, uid |-> UniqueId(s, p, u),
                   sure |-> s = identity[u].at10750 /\ p = identity[u].at10100]]
            /\ state' = [state EXCEPT ![e] = "not_loaded"]
            /\ options' = [options EXCEPT ![e] = Defaults]
    /\ UNCHANGED <<identity, serveVars, reload, missed, call, faults>>

-----------------------------------------------------------------------------
(* async_setup_entry                                                         *)

valid_restore_work_mode(mode) ==
  IF mode = VPP \/ mode \notin WorkModes THEN DefaultMode ELSE mode

Built(o) == [poll |-> o.poll, mode |-> valid_restore_work_mode(o.mode)]

(* A new AnkerX1Coordinator, up to its first refresh. *)
SetUp(e) ==
  /\ state[e] \in {"not_loaded", "setup_retry"}
  /\ state' = [state EXCEPT ![e] = "refreshing"]
  /\ coord' = [coord EXCEPT ![e] = [NoCoordinator EXCEPT !.built = Built(options[e])]]
  /\ missed' = [missed EXCEPT ![e] = FALSE]
  /\ UNCHANGED <<identity, conn, flow, entryVars, keep, hooks, owned, reload, call, faults>>

(* It needs block B, where 10100 is, but not 10750. *)
FirstRefreshes(e) ==
  /\ state[e] = "refreshing" /\ conn[UnitOf(e)] = Free
  /\ conn' = [conn EXCEPT ![UnitOf(e)] = Live(e)]
  /\ state' = [state EXCEPT ![e] = "forwarding"]
  /\ \E s \in Tolerant(identity[UnitOf(e)].at10750) :
       coord' = [coord EXCEPT
         ![e].ident = Name(s, identity[UnitOf(e)].at10100, UnitOf(e)),
         ![e].sure = (s = identity[UnitOf(e)].at10750)]
  /\ UNCHANGED <<identity, flow, entryVars, keep, hooks, owned, reload, missed, call, faults>>

(* ConfigEntryNotReady.  The coordinator is dropped as it is: a transport error
   has closed its socket, an error response has not. *)
FirstRefreshFails(e) ==
  /\ state[e] = "refreshing"
  /\ LET u == UnitOf(e)
     IN  \/ conn[u] # Free /\ UNCHANGED conn
         \/ /\ conn[u] = Free /\ faults
            /\ \E c \in {Free, FailedSetup(e)} : conn' = [conn EXCEPT ![u] = c]
  /\ state' = [state EXCEPT ![e] = "setup_retry"]
  /\ coord' = [coord EXCEPT ![e] = NoCoordinator]
  /\ missed' = [missed EXCEPT ![e] = FALSE]
  /\ UNCHANGED <<identity, flow, entryVars, keep, hooks, owned, reload, call, faults>>

(* The purge, unless its days are zero; and the update listener. *)
Needed(o) == {"listener"} \cup (IF o.history > 0 THEN {"purge"} ELSE {})

PurgeNotReleased(o) == {"listener"}

Released(o) == Needed(o)

Loads(e) ==
  /\ state[e] = "forwarding"
  /\ state' = [state EXCEPT ![e] = "loaded"]
  /\ keep' = [keep EXCEPT ![e] = options[e].history]
  /\ hooks' = [hooks EXCEPT ![e] =
                 [k \in Kinds |-> IF k \in Needed(options[e]) THEN @[k] + 1 ELSE @[k]]]
  /\ owned' = [owned EXCEPT ![e] = Released(options[e])]
  /\ UNCHANGED <<identity, conn, flow, entryVars, coord, reload, missed, call, faults>>

-----------------------------------------------------------------------------
(* In service: polls and control calls keep one connection, or make it again. *)

Reconnect(e) == /\ Serving(e) /\ conn[UnitOf(e)] = Free
                /\ conn' = [conn EXCEPT ![UnitOf(e)] = Live(e)]
                /\ UNCHANGED <<identity, flow, entryVars, state, serveVars, reload, missed, call, faults>>

LoseLink(e) == /\ faults /\ Serving(e) /\ conn[UnitOf(e)] = Live(e)
               /\ conn' = [conn EXCEPT ![UnitOf(e)] = Free]
               /\ UNCHANGED <<identity, flow, entryVars, state, serveVars, reload, missed, call, faults>>

Call(e) == /\ Serving(e) /\ call[e] = "none"
           /\ call' = [call EXCEPT ![e] = "waits"]
           /\ UNCHANGED <<identity, conn, flow, entryVars, state, serveVars, reload, missed, faults>>

(* _ensure_connected, on whichever coordinator the call was made *)
Runs(e) ==
  LET u == UnitOf(e)
      connected == IF call[e] = "waits" THEN Live(e) ELSE LateCall(e)
  IN  /\ call[e] # "none"
      /\ call' = [call EXCEPT ![e] = "none"]
      /\ conn' \in IF conn[u] = Free THEN {conn, [conn EXCEPT ![u] = connected]} ELSE {conn}
      /\ UNCHANGED <<identity, flow, entryVars, state, serveVars, reload, missed, faults>>

-----------------------------------------------------------------------------
(* async_unload_entry, and what Home Assistant does around it.               *)

LeftOpen(e) == conn

Closed(e) == [conn EXCEPT ![UnitOf(e)] = IF @ = Live(e) THEN Free ELSE @]

Unloaded(e, s) ==
  /\ state' = [state EXCEPT ![e] = s]
  /\ coord' = [coord EXCEPT ![e] = NoCoordinator]
  /\ keep' = [keep EXCEPT ![e] = 0]
  /\ conn' = Closed(e)
  /\ hooks' = [hooks EXCEPT ![e] = [k \in Kinds |-> IF k \in owned[e] THEN @[k] - 1 ELSE @[k]]]
  /\ owned' = [owned EXCEPT ![e] = {}]
  /\ call' = [call EXCEPT ![e] = IF @ = "waits" THEN "late" ELSE @]
  /\ missed' = [missed EXCEPT ![e] = FALSE]

NotServed(e, s) == /\ state' = [state EXCEPT ![e] = s]
                   /\ missed' = [missed EXCEPT ![e] = FALSE]
                   /\ UNCHANGED <<conn, serveVars, call>>

(* The user disables or removes the entry; the listener reloads it. *)
Leaves(e, s) == \/ state[e] = "loaded" /\ Unloaded(e, s)
                \/ state[e] \in {"not_loaded", "setup_retry"} /\ NotServed(e, s)

Disable(e) == /\ Leaves(e, "disabled")
              /\ UNCHANGED <<identity, flow, entryVars, reload, faults>>

Enable(e) == /\ state[e] = "disabled" /\ NotServed(e, "not_loaded")
             /\ UNCHANGED <<identity, flow, entryVars, reload, faults>>

Remove(e) == /\ Leaves(e, "absent") \/ (state[e] = "disabled" /\ NotServed(e, "absent"))
             /\ reload' = [reload EXCEPT ![e] = FALSE]
             /\ entry' = [entry EXCEPT ![e] = NotConfigured(@.unit)]
             /\ options' = [options EXCEPT ![e] = Defaults]
             /\ UNCHANGED <<identity, flow, faults>>

Reload(e) == /\ reload[e]
             /\ reload' = [reload EXCEPT ![e] = FALSE]
             /\ \/ Leaves(e, "not_loaded")
                \/ state[e] \in {"disabled", "failed_unload"} /\ NotServed(e, state[e])
             /\ UNCHANGED <<identity, flow, entryVars, faults>>

(* A platform refuses: the coordinator stays, "if unload_ok". *)
UnloadRefused(e) == /\ faults /\ state[e] = "loaded" /\ NotServed(e, "failed_unload")
                    /\ reload' = [reload EXCEPT ![e] = FALSE]
                    /\ UNCHANGED <<identity, flow, entryVars, faults>>

-----------------------------------------------------------------------------
(* The options flow; its listener task runs later. *)
NotReloaded(e) == FALSE

ReloadsOn(e) == hooks[e]["listener"] > 0

SetOptions(e) ==
  /\ e \in Edited /\ state[e] # "absent"
  /\ \E o \in Options \ {options[e]} : options' = [options EXCEPT ![e] = o]
  /\ reload' = [reload EXCEPT ![e] = @ \/ ReloadsOn(e)]
  /\ missed' = [missed EXCEPT ![e] = @ \/ state[e] \in {"refreshing", "forwarding"}]
  /\ UNCHANGED <<identity, conn, flow, entry, state, serveVars, call, faults>>

(* Home Assistant restarts: nothing but the entries is left. *)
Restart ==
  /\ faults
  /\ state' = [e \in Entries |-> IF state[e] \in {"absent", "disabled"}
                                 THEN state[e] ELSE "not_loaded"]
  /\ conn' = [u \in Units |-> Free] /\ flow' = NoUnit
  /\ coord' = [e \in Entries |-> NoCoordinator] /\ keep' = [e \in Entries |-> 0]
  /\ hooks' = [e \in Entries |-> NoSetUp] /\ owned' = [e \in Entries |-> {}]
  /\ reload' = [e \in Entries |-> FALSE]
  /\ missed' = [e \in Entries |-> FALSE] /\ call' = [e \in Entries |-> "none"]
  /\ UNCHANGED <<identity, entryVars, faults>>

Heal == /\ faults /\ faults' = FALSE
        /\ UNCHANGED <<identity, conn, flow, entryVars, state, serveVars, reload, missed, call>>

Flow(u) == FlowConnect(u) \/ FlowFails(u) \/ \E e \in Entries : FlowFinishes(u, e)

Life(e) == \/ SetUp(e) \/ FirstRefreshes(e) \/ FirstRefreshFails(e) \/ Loads(e)
           \/ Reconnect(e) \/ LoseLink(e) \/ Call(e) \/ Runs(e)
           \/ Disable(e) \/ Enable(e) \/ Remove(e) \/ Reload(e) \/ UnloadRefused(e)
           \/ SetOptions(e)

Next == (\E u \in Units : Flow(u)) \/ (\E e \in Entries : Life(e)) \/ Restart \/ Heal

Spec == Init /\ [][Next]_vars

(* Home Assistant retries, and goes on with what it has begun. *)
FairSpec == /\ Spec
            /\ \A e \in Entries : /\ WF_vars(SetUp(e)) /\ WF_vars(Loads(e))
                                  /\ WF_vars(FirstRefreshes(e) \/ FirstRefreshFails(e))

-----------------------------------------------------------------------------
Connections == {Free, Flowing} \cup {Live(e) : e \in Entries}
  \cup {FailedSetup(e) : e \in Entries} \cup {LateCall(e) : e \in Entries}

States == {"absent", "disabled", "not_loaded", "refreshing", "setup_retry", "forwarding",
           "loaded", "failed_unload"}

TypeUnits == /\ identity \in [Units -> Identities] /\ conn \in [Units -> Connections]
             /\ flow \in Units \cup {NoUnit} /\ faults \in BOOLEAN

TypeEntries == /\ entry \in [Entries -> [unit : Units, uid : Names \cup {Blank}, sure : BOOLEAN]]
               /\ state \in [Entries -> States] /\ options \in [Entries -> Options]

TypeService == /\ coord \in [Entries -> [built : [poll : Nat, mode : Nat],
                                         ident : Names \cup {Blank}, sure : BOOLEAN]]
               /\ keep \in [Entries -> Nat]
               /\ hooks \in [Entries -> [Kinds -> Int]] /\ owned \in [Entries -> SUBSET Kinds]

TypeTasks == /\ reload \in [Entries -> BOOLEAN] /\ missed \in [Entries -> BOOLEAN]
             /\ call \in [Entries -> {"none", "waits", "late"}]

TypeOK == TypeUnits /\ TypeEntries /\ TypeService /\ TypeTasks

(* However often an entry is reloaded, retried, disabled or given up on, it has
   at most one update listener and one nightly purge, and only while it is in
   service: async_on_unload takes back what set-up registered (__init__.py:119-127,
   history.py:70-72). *)
NoLeftovers ==
  \A e \in Entries, k \in Kinds :
    hooks[e][k] = IF Serving(e) /\ (k = "purge" => keep[e] > 0) THEN 1 ELSE 0

(* A unit's only connection is left with a coordinator that serves no entry in
   two cases only: the first refresh ended in an error response, or a call had
   waited for the lock over the unload (__init__.py:113 and 137-145). *)
OrphanHasACause ==
  \A u \in Units, e \in Entries :
    conn[u] = Live(e) => UnitOf(e) = u /\ state[e] \in {"forwarding", "loaded", "failed_unload"}

(* The device an entry's coordinator registers carries the entry's unique id,
   whichever of the two serial registers the unit has, unless one that it has
   was not answered (config_flow.py:71-85, coordinator.py:270-285 and 632). *)
DeviceIsTheEntry ==
  \A e \in Entries :
    (Serving(e) \/ state[e] = "forwarding") /\ entry[e].sure /\ coord[e].sure
      => coord[e].ident = entry[e].uid

(* No unit is configured twice, at whatever state its first entry is, unless a
   flow lost a serial read (config_flow.py:126-127). *)
NoUnitTwice ==
  \A e, f \in Entries :
    /\ e # f /\ state[e] # "absent" /\ state[f] # "absent"
    /\ entry[e].sure /\ entry[f].sure
    => UnitOf(e) # UnitOf(f)

(* An entry works with the options it has, once its reloads are through - except
   when they changed during set-up, which reads them before the first refresh
   and listens to changes only in the end (__init__.py:95-127). *)
OptionsInForce ==
  \A e \in Entries :
    state[e] = "loaded" /\ ~reload[e] /\ ~missed[e]
      => coord[e].built = Built(options[e]) /\ keep[e] = options[e].history

(* Once links and units are sound and the unit's connection is free or the entry's
   own, an entry that is wanted is loaded, or loaded again, through retries,
   reloads and restarts (__init__.py:95-145).  The connection that a failed set-up
   or a late call leaves behind is the matter of OneConnectionPerEntry. *)
OwnOrFree(e) == conn[UnitOf(e)] \in {Free, Live(e)}

ComesUp ==
  \A e \in Entries :
    <>[](~faults /\ OwnOrFree(e) /\ state[e] \notin {"absent", "disabled", "failed_unload"})
      => []<>(state[e] = "loaded")

(* "one coordinator (and one Modbus TCP connection) per entry" (__init__.py:3), and
   "Unload a config entry and close the Modbus connection" (138): no connection
   belongs to a coordinator that is gone. *)
OneConnectionPerEntry == \A u \in Units : conn[u].as \notin {"failed setup", "late call"}
=============================================================================
