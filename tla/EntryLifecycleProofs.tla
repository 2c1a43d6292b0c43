------------------------ MODULE EntryLifecycleProofs ------------------------
(***************************************************************************)
(* Theorems about EntryLifecycle, for any number of units and entries, any    *)
(* serials and any options.                                                   *)
(***************************************************************************)
EXTENDS EntryLifecycle, TLAPS

LEMMA NameTypes ==
  ASSUME NEW u \in Units, NEW s \in Serials \cup {Blank}, NEW p \in Serials \cup {Blank}
  PROVE  Name(s, p, u) \in Names
  BY DEF Name, Names

LEMMA BuiltTypes ==
  ASSUME NEW o \in OptionSets, DefaultMode \in Nat
  PROVE  Built(o) \in [poll : Nat, mode : Nat]
  BY DEF Built, valid_restore_work_mode, OptionSets

LEMMA ConnectionTypes ==
  ASSUME NEW e \in Entries
  PROVE  /\ Free \in Connections /\ Flowing \in Connections /\ Live(e) \in Connections
         /\ FailedSetup(e) \in Connections /\ LateCall(e) \in Connections
  BY DEF Connections

LEMMA ConnectionsDiffer ==
  ASSUME NEW e \in Entries, NEW f \in Entries
  PROVE  /\ Live(e) = Live(f) => e = f
         /\ Live(e) # Free /\ Live(e) # Flowing
         /\ Live(e) # FailedSetup(f) /\ Live(e) # LateCall(f)
  BY DEF Live, Free, Flowing, FailedSetup, LateCall

LEMMA TolerantTypes ==
  ASSUME NEW v, NEW s \in Tolerant(v)
  PROVE  s \in {v, Blank}
  BY DEF Tolerant

LEMMA UnitTypes ==
  ASSUME TypeOK, NEW e \in Entries
  PROVE  UnitOf(e) \in Units
  BY DEF TypeOK, TypeEntries, UnitOf

LEMMA SerialTypes ==
  ASSUME TypeOK, NEW u \in Units
  PROVE  /\ identity[u].at10750 \in Serials \cup {Blank}
         /\ identity[u].at10100 \in Serials \cup {Blank}
  BY EntryAssumption DEF TypeOK, TypeUnits, Registers

-----------------------------------------------------------------------------
(* Types                                                                     *)

LEMMA InitTypes == Init => TypeOK
<1> SUFFICES ASSUME Init PROVE TypeOK
    OBVIOUS
<1>1. TypeUnits
  BY EntryAssumption DEF Init, TypeUnits, Connections
<1>2. TypeEntries
  <2> DEFINE T == [unit : Units, uid : Names \cup {Blank}, sure : BOOLEAN]
  <2>0. \A u \in Units : NotConfigured(u) \in T
    BY DEF NotConfigured
  <2>1. entry \in [Entries -> T]
    <3>1. entry \in [Entries -> {NotConfigured(u) : u \in Units}]
      BY DEF Init
    <3> HIDE DEF T
    <3> QED BY <2>0, <3>1
  <2> QED BY <2>1, EntryAssumption DEF Init, TypeEntries, States
<1>3. TypeService
  <2>1. NoCoordinator \in [built : [poll : Nat, mode : Nat], ident : Names \cup {Blank}, sure : BOOLEAN]
    BY DEF NoCoordinator, NoBuild
  <2>2. NoSetUp \in [Kinds -> Int]
    BY DEF NoSetUp
  <2> QED BY <2>1, <2>2 DEF Init, TypeService
<1>4. TypeTasks
  BY DEF Init, TypeTasks
<1> QED BY <1>1, <1>2, <1>3, <1>4 DEF TypeOK

LEMMA UnloadedTypes ==
  ASSUME TypeOK, NEW e \in Entries, NEW s \in States, Unloaded(e, s)
  PROVE  /\ state' \in [Entries -> States] /\ conn' \in [Units -> Connections]
         /\ TypeService'
         /\ missed' \in [Entries -> BOOLEAN] /\ call' \in [Entries -> {"none", "waits", "late"}]
<1> USE DEF TypeOK, TypeUnits, TypeEntries, TypeService, TypeTasks
<1>1. state' \in [Entries -> States]
  BY DEF Unloaded
<1>2. conn' \in [Units -> Connections]
  BY ConnectionTypes DEF Unloaded, Closed
<1>3. coord' \in [Entries -> [built : [poll : Nat, mode : Nat], ident : Names \cup {Blank}, sure : BOOLEAN]]
  <2>1. NoCoordinator \in [built : [poll : Nat, mode : Nat], ident : Names \cup {Blank}, sure : BOOLEAN]
    BY DEF NoCoordinator, NoBuild
  <2> QED BY <2>1 DEF Unloaded
<1>4. keep' \in [Entries -> Nat] /\ hooks' \in [Entries -> [Kinds -> Int]] /\ owned' \in [Entries -> SUBSET Kinds]
  BY DEF Unloaded
<1>5. missed' \in [Entries -> BOOLEAN] /\ call' \in [Entries -> {"none", "waits", "late"}]
  BY DEF Unloaded
<1> QED BY <1>1, <1>2, <1>3, <1>4, <1>5

LEMMA NotServedTypes ==
  ASSUME TypeOK, NEW e \in Entries, NEW s \in States, NotServed(e, s)
  PROVE  /\ state' \in [Entries -> States] /\ conn' \in [Units -> Connections]
         /\ TypeService'
         /\ missed' \in [Entries -> BOOLEAN] /\ call' \in [Entries -> {"none", "waits", "late"}]
<1>1. state' \in [Entries -> States]
  BY DEF NotServed, TypeOK, TypeEntries
<1>2. UNCHANGED <<conn, serveVars, call>> /\ missed' \in [Entries -> BOOLEAN]
  BY DEF NotServed, TypeOK, TypeTasks
<1> QED BY <1>1, <1>2 DEF TypeOK, TypeUnits, TypeEntries, TypeService, TypeTasks, entryVars, serveVars

(* Whatever an entry leaves its state for, the types hold. *)
LEMMA LeavingTypes ==
  ASSUME TypeOK, NEW e \in Entries, NEW s \in States,
         \/ Leaves(e, s) \/ NotServed(e, s),
         UNCHANGED <<identity, flow, faults>>,
         reload' \in [Entries -> BOOLEAN],
         entry' \in [Entries -> [unit : Units, uid : Names \cup {Blank}, sure : BOOLEAN]],
         options' \in [Entries -> Options]
  PROVE  TypeOK'
<1>1. /\ state' \in [Entries -> States] /\ conn' \in [Units -> Connections]
      /\ TypeService'
      /\ missed' \in [Entries -> BOOLEAN] /\ call' \in [Entries -> {"none", "waits", "late"}]
  BY UnloadedTypes, NotServedTypes DEF Leaves
<1> QED BY <1>1 DEF TypeOK, TypeUnits, TypeEntries, TypeTasks

LEMMA StepTypes == TypeOK /\ [Next]_vars => TypeOK'
<1> SUFFICES ASSUME TypeOK, [Next]_vars PROVE TypeOK'
    OBVIOUS
<1>1. ASSUME NEW u \in Units, Flow(u) PROVE TypeOK'
  <2>1. CASE FlowConnect(u) \/ FlowFails(u)
    BY <2>1, ConnectionTypes DEF FlowConnect, FlowFails, Connections, TypeOK, TypeUnits, TypeEntries, TypeService, TypeTasks, entryVars, serveVars
  <2>2. ASSUME NEW e \in Entries, FlowFinishes(u, e) PROVE TypeOK'
    <3>1. PICK s \in Tolerant(identity[u].at10750), p \in Tolerant(identity[u].at10100) :
            /\ flow' = NoUnit /\ conn' = [conn EXCEPT ![u] = Free]
            /\ IF Configured(UniqueId(s, p, u))
               THEN UNCHANGED <<entryVars, state>>
               ELSE /\ entry' = [entry EXCEPT ![e] = [unit |-> u, uid |-> UniqueId(s, p, u),
                           sure |-> s = identity[u].at10750 /\ p = identity[u].at10100]]
                    /\ state' = [state EXCEPT ![e] = "not_loaded"]
                    /\ options' = [options EXCEPT ![e] = Defaults]
            /\ UNCHANGED <<identity, serveVars, reload, missed, call, faults>>
      BY <2>2 DEF FlowFinishes
    <3>2. s \in Serials \cup {Blank} /\ p \in Serials \cup {Blank}
      BY SerialTypes, TolerantTypes
    <3>3. UniqueId(s, p, u) \in Names
      BY <3>2, NameTypes DEF UniqueId
    <3> DEFINE q == s = identity[u].at10750 /\ p = identity[u].at10100
               new == [unit |-> u, uid |-> UniqueId(s, p, u), sure |-> q]
    <3>4. new \in [unit : Units, uid : Names \cup {Blank}, sure : BOOLEAN]
      <4>1. q \in BOOLEAN
        OBVIOUS
      <4> HIDE DEF q
      <4> QED BY <3>3, <4>1
    <3>5. entry' \in {entry, [entry EXCEPT ![e] = new]}
      BY <3>1 DEF entryVars
    <3> HIDE DEF new
    <3>6. entry' \in [Entries -> [unit : Units, uid : Names \cup {Blank}, sure : BOOLEAN]]
      BY <3>4, <3>5 DEF TypeOK, TypeEntries
    <3>7. state' \in [Entries -> States] /\ options' \in [Entries -> Options]
      BY <3>1, EntryAssumption DEF TypeOK, TypeEntries, States, entryVars
    <3>8. TypeUnits'
      BY <3>1, <2>2, ConnectionTypes DEF TypeOK, TypeUnits
    <3>9. TypeService' /\ TypeTasks'
      BY <3>1 DEF TypeOK, TypeUnits, TypeEntries, TypeService, TypeTasks, entryVars, serveVars
    <3> QED BY <3>6, <3>7, <3>8, <3>9 DEF TypeOK, TypeEntries
  <2> QED BY <1>1, <2>1, <2>2 DEF Flow
<1>2. ASSUME NEW e \in Entries, Life(e) PROVE TypeOK'
  <2>1. CASE SetUp(e)
    <3>1. [NoCoordinator EXCEPT !.built = Built(options[e])]
            \in [built : [poll : Nat, mode : Nat], ident : Names \cup {Blank}, sure : BOOLEAN]
      <4>1. options[e] \in OptionSets
        BY EntryAssumption DEF TypeOK, TypeEntries
      <4>2. Built(options[e]) \in [poll : Nat, mode : Nat]
        BY <4>1, EntryAssumption, BuiltTypes
      <4> QED BY <4>2 DEF NoCoordinator, NoBuild
    <3>2. TypeService'
      BY <2>1, <3>1 DEF SetUp, TypeOK, TypeService
    <3> QED BY <2>1, <3>2 DEF SetUp, States, TypeOK, TypeUnits, TypeEntries, TypeTasks, entryVars
  <2>2. CASE FirstRefreshes(e)
    <3>1. PICK s \in Tolerant(identity[UnitOf(e)].at10750) :
            coord' = [coord EXCEPT
              ![e].ident = Name(s, identity[UnitOf(e)].at10100, UnitOf(e)),
              ![e].sure = (s = identity[UnitOf(e)].at10750)]
      BY <2>2 DEF FirstRefreshes
    <3>2. Name(s, identity[UnitOf(e)].at10100, UnitOf(e)) \in Names
      BY UnitTypes, SerialTypes, TolerantTypes, NameTypes
    <3>3. TypeService'
      <4> DEFINE n == Name(s, identity[UnitOf(e)].at10100, UnitOf(e))
                 q == (s = identity[UnitOf(e)].at10750)
                 T == [built : [poll : Nat, mode : Nat], ident : Names \cup {Blank}, sure : BOOLEAN]
      <4>1. q \in BOOLEAN /\ n \in Names \cup {Blank}
        BY <3>2
      <4>2. coord' = [coord EXCEPT ![e].ident = n, ![e].sure = q]
        BY <3>1
      <4>3. coord \in [Entries -> T]
        BY DEF TypeOK, TypeService
      <4>4. [[coord[e] EXCEPT !.ident = n] EXCEPT !.sure = q] \in T
        <5> HIDE DEF n, q
        <5> QED BY <4>1, <4>3
      <4>5. coord' \in [Entries -> T]
        <5> HIDE DEF n, q, T
        <5> QED BY <4>2, <4>3, <4>4
      <4>6. UNCHANGED <<keep, hooks, owned>>
        BY <2>2 DEF FirstRefreshes
      <4> QED BY <4>5, <4>6 DEF TypeOK, TypeService
    <3>4. TypeUnits'
      BY <2>2, ConnectionTypes DEF FirstRefreshes, TypeOK, TypeUnits
    <3> QED BY <2>2, <3>3, <3>4 DEF FirstRefreshes, States, TypeOK, TypeEntries, TypeTasks, entryVars
  <2>3. CASE FirstRefreshFails(e)
    <3>1. conn' \in [Units -> Connections]
      BY <2>3, ConnectionTypes DEF FirstRefreshFails, TypeOK, TypeUnits
    <3>2. NoCoordinator \in [built : [poll : Nat, mode : Nat], ident : Names \cup {Blank}, sure : BOOLEAN]
      BY DEF NoCoordinator, NoBuild
    <3>3. TypeService'
      BY <2>3, <3>2 DEF FirstRefreshFails, TypeOK, TypeService
    <3> QED BY <2>3, <3>1, <3>3 DEF FirstRefreshFails, States, TypeOK, TypeUnits, TypeEntries, TypeTasks, entryVars
  <2>4. CASE Loads(e)
    <3>1. options[e].history \in Nat
      BY EntryAssumption DEF TypeOK, TypeEntries, OptionSets
    <3>2. Released(options[e]) \in SUBSET Kinds
      BY DEF Released, Needed, Kinds
    <3>3. TypeService'
      BY <2>4, <3>1, <3>2 DEF Loads, TypeOK, TypeService
    <3> QED BY <2>4, <3>3 DEF Loads, States, TypeOK, TypeUnits, TypeEntries, TypeTasks, entryVars
  <2>5. CASE Reconnect(e) \/ LoseLink(e) \/ Runs(e)
    <3>1. conn' \in [Units -> Connections]
      BY <2>5, ConnectionTypes DEF Reconnect, LoseLink, Runs, TypeOK, TypeUnits
    <3>2. call' \in [Entries -> {"none", "waits", "late"}]
      BY <2>5 DEF Reconnect, LoseLink, Runs, TypeOK, TypeTasks
    <3> QED BY <2>5, <3>1, <3>2 DEF Reconnect, LoseLink, Runs, TypeOK, TypeUnits, TypeEntries, TypeService, TypeTasks, entryVars, serveVars
  <2>6. CASE Call(e)
    BY <2>6 DEF Call, TypeOK, TypeUnits, TypeEntries, TypeService, TypeTasks, entryVars, serveVars
  <2>7. CASE Disable(e) \/ Enable(e) \/ UnloadRefused(e)
    <3>1. \E s \in States : Leaves(e, s) \/ NotServed(e, s)
      BY <2>7 DEF Disable, Enable, UnloadRefused, States
    <3>2. UNCHANGED <<identity, flow, faults, entryVars>> /\ reload' \in [Entries -> BOOLEAN]
      BY <2>7 DEF Disable, Enable, UnloadRefused, TypeOK, TypeTasks
    <3> QED BY <3>1, <3>2, LeavingTypes DEF TypeOK, TypeEntries, entryVars
  <2>8. CASE Remove(e)
    <3>1. Leaves(e, "absent") \/ NotServed(e, "absent")
      BY <2>8 DEF Remove
    <3>2. UNCHANGED <<identity, flow, faults>> /\ reload' \in [Entries -> BOOLEAN]
      BY <2>8 DEF Remove, TypeOK, TypeTasks
    <3>3. NotConfigured(entry[e].unit) \in [unit : Units, uid : Names \cup {Blank}, sure : BOOLEAN]
      BY DEF NotConfigured, TypeOK, TypeEntries
    <3>4. entry' \in [Entries -> [unit : Units, uid : Names \cup {Blank}, sure : BOOLEAN]]
      BY <2>8, <3>3 DEF Remove, TypeOK, TypeEntries
    <3>5. options' \in [Entries -> Options]
      BY <2>8, EntryAssumption DEF Remove, TypeOK, TypeEntries
    <3> QED BY <3>1, <3>2, <3>4, <3>5, LeavingTypes DEF States
  <2>9. CASE Reload(e)
    <3>1. \E s \in States : Leaves(e, s) \/ NotServed(e, s)
      BY <2>9 DEF Reload, States
    <3>2. UNCHANGED <<identity, flow, faults, entryVars>> /\ reload' \in [Entries -> BOOLEAN]
      BY <2>9 DEF Reload, TypeOK, TypeTasks
    <3> QED BY <3>1, <3>2, LeavingTypes DEF TypeOK, TypeEntries, entryVars
  <2>10. CASE SetOptions(e)
    <3>1. options' \in [Entries -> Options]
      BY <2>10 DEF SetOptions, TypeOK, TypeEntries
    <3>2. reload' \in [Entries -> BOOLEAN] /\ missed' \in [Entries -> BOOLEAN]
      BY <2>10, Zenon DEF SetOptions, TypeOK, TypeTasks
    <3> QED BY <2>10, <3>1, <3>2 DEF SetOptions, TypeOK, TypeUnits, TypeEntries, TypeService, TypeTasks, entryVars, serveVars
  <2> QED
    BY <1>2, <2>1, <2>2, <2>3, <2>4, <2>5, <2>6, <2>7, <2>8, <2>9, <2>10 DEF Life
<1>3. CASE Restart
  <2>1. state' \in [Entries -> States]
    BY <1>3 DEF Restart, TypeOK, TypeEntries, States
  <2>2. TypeService'
    <3>1. NoCoordinator \in [built : [poll : Nat, mode : Nat], ident : Names \cup {Blank}, sure : BOOLEAN]
      BY DEF NoCoordinator, NoBuild
    <3>2. NoSetUp \in [Kinds -> Int]
      BY DEF NoSetUp
    <3> QED BY <1>3, <3>1, <3>2 DEF Restart, TypeService
  <2>3. TypeTasks'
    BY <1>3 DEF Restart, TypeTasks
  <2>4. TypeUnits'
    BY <1>3 DEF Restart, TypeOK, TypeUnits, Connections
  <2> QED BY <1>3, <2>1, <2>2, <2>3, <2>4 DEF Restart, TypeOK, TypeEntries, entryVars
<1>4. CASE Heal
  BY <1>4 DEF Heal, TypeOK, TypeUnits, TypeEntries, TypeService, TypeTasks, entryVars, serveVars
<1>5. CASE UNCHANGED vars
  BY <1>5 DEF vars, TypeOK, TypeUnits, TypeEntries, TypeService, TypeTasks, entryVars, serveVars
<1> QED BY <1>1, <1>2, <1>3, <1>4, <1>5 DEF Next

(* Every variable keeps its type, whatever users, units and links do. *)
THEOREM TypeCorrect == Spec => []TypeOK
  BY InitTypes, StepTypes, PTL DEF Spec

-----------------------------------------------------------------------------
(* Listeners and timers                                                      *)

(* What set-up registered is what async_on_unload will release: the update
   listener, and the purge that has days to keep. *)
HooksOf(e) ==
  /\ owned[e] = IF Serving(e) THEN {"listener"} \cup (IF keep[e] > 0 THEN {"purge"} ELSE {}) ELSE {}
  /\ hooks[e] = [k \in Kinds |-> IF k \in owned[e] THEN 1 ELSE 0]

HookInv == \A e \in Entries : HooksOf(e)

LEMMA HooksKept ==
  ASSUME NEW e \in Entries, HooksOf(e), Serving(e)' = Serving(e),
         keep'[e] = keep[e], owned'[e] = owned[e], hooks'[e] = hooks[e]
  PROVE  HooksOf(e)'
  BY DEF HooksOf

(* All is released when the entry leaves its service; what never served had nothing. *)
LEMMA LeavingHooks ==
  ASSUME TypeOK, HookInv, NEW e \in Entries, NEW s \in States,
         Leaves(e, s), s \notin {"loaded", "failed_unload"}
  PROVE  HookInv'
<1> SUFFICES ASSUME NEW f \in Entries PROVE HooksOf(f)'
    BY DEF HookInv
<1> USE DEF TypeOK, TypeEntries, TypeService
<1>1. HooksOf(f)
  BY DEF HookInv
<1>2. CASE state[e] = "loaded" /\ Unloaded(e, s)
  <2>1. CASE f = e
    <3>1. ~Serving(f)' /\ owned'[f] = {}
      BY <1>2, <2>1 DEF Unloaded, Serving
    <3>2. hooks'[f] = [k \in Kinds |-> IF k \in owned[f] THEN hooks[f][k] - 1 ELSE hooks[f][k]]
      BY <1>2, <2>1 DEF Unloaded
    <3>3. \A k \in Kinds : hooks[f][k] = IF k \in owned[f] THEN 1 ELSE 0
      BY <1>1 DEF HooksOf
    <3>4. hooks'[f] = [k \in Kinds |-> 0]
      BY <3>2, <3>3
    <3> QED BY <3>1, <3>4 DEF HooksOf
  <2>2. CASE f # e
    <3>1. Serving(f)' = Serving(f) /\ keep'[f] = keep[f] /\ owned'[f] = owned[f] /\ hooks'[f] = hooks[f]
      BY <1>2, <2>2 DEF Unloaded, Serving
    <3> QED BY <1>1, <3>1, HooksKept
  <2> QED BY <2>1, <2>2
<1>3. CASE state[e] \in {"not_loaded", "setup_retry"} /\ NotServed(e, s)
  <2>1. Serving(f)' = Serving(f) /\ UNCHANGED <<keep, owned, hooks>>
    BY <1>3 DEF NotServed, Serving, serveVars
  <2> QED BY <1>1, <2>1, HooksKept
<1> QED BY <1>2, <1>3 DEF Leaves

LEMMA HookStep == TypeOK /\ HookInv /\ [Next]_vars => HookInv'
<1> SUFFICES ASSUME TypeOK, HookInv, [Next]_vars PROVE HookInv'
    OBVIOUS
<1>0. ASSUME UNCHANGED <<keep, owned, hooks>>, \A f \in Entries : Serving(f)' = Serving(f)
      PROVE  HookInv'
  <2> SUFFICES ASSUME NEW f \in Entries PROVE HooksOf(f)'
      BY DEF HookInv
  <2>1. HooksOf(f)
    BY DEF HookInv
  <2> QED BY <1>0, <2>1, HooksKept
<1>1. ASSUME NEW u \in Units, Flow(u) PROVE HookInv'
  <2>1. UNCHANGED <<keep, owned, hooks>>
    BY <1>1 DEF Flow, FlowConnect, FlowFails, FlowFinishes, serveVars
  <2>2. ASSUME NEW f \in Entries PROVE Serving(f)' = Serving(f)
    <3>1. CASE FlowConnect(u) \/ FlowFails(u)
      BY <3>1 DEF FlowConnect, FlowFails, Serving
    <3>2. ASSUME NEW e \in Entries, FlowFinishes(u, e) PROVE Serving(f)' = Serving(f)
      <4>1. state[e] = "absent" /\ state' \in {state, [state EXCEPT ![e] = "not_loaded"]}
        BY <3>2 DEF FlowFinishes
      <4> QED BY <4>1 DEF Serving, TypeOK, TypeEntries
    <3> QED BY <1>1, <3>1, <3>2 DEF Flow
  <2> QED BY <2>1, <2>2, <1>0
<1>2. ASSUME NEW e \in Entries, Life(e) PROVE HookInv'
  <2>1. CASE SetUp(e) \/ FirstRefreshes(e) \/ FirstRefreshFails(e)
    <3>1. UNCHANGED <<keep, owned, hooks>>
      BY <2>1 DEF SetUp, FirstRefreshes, FirstRefreshFails
    <3>2. state[e] \in {"not_loaded", "setup_retry", "refreshing"}
          /\ \E s \in {"refreshing", "forwarding", "setup_retry"} : state' = [state EXCEPT ![e] = s]
      BY <2>1 DEF SetUp, FirstRefreshes, FirstRefreshFails
    <3>3. \A f \in Entries : Serving(f)' = Serving(f)
      BY <3>2 DEF Serving, TypeOK, TypeEntries
    <3> QED BY <3>1, <3>3, <1>0
  <2>2. CASE Loads(e)
    <3> SUFFICES ASSUME NEW f \in Entries PROVE HooksOf(f)'
        BY DEF HookInv
    <3>1. HooksOf(f)
      BY DEF HookInv
    <3>2. CASE f = e
      <4>1. Serving(f)' /\ owned'[f] = Needed(options[f]) /\ keep'[f] = options[f].history
        BY <2>2, <3>2 DEF Loads, Serving, Released, TypeOK, TypeEntries, TypeService
      <4>2. owned[f] = {}
        BY <2>2, <3>1, <3>2 DEF Loads, Serving, HooksOf
      <4>3. \A k \in Kinds : hooks[f][k] = 0
        BY <3>1, <4>2 DEF HooksOf
      <4>4. hooks'[f] = [k \in Kinds |-> IF k \in Needed(options[f]) THEN hooks[f][k] + 1 ELSE hooks[f][k]]
        BY <2>2, <3>2 DEF Loads, TypeOK, TypeService
      <4>5. hooks'[f] = [k \in Kinds |-> IF k \in owned'[f] THEN 1 ELSE 0]
        BY <4>1, <4>3, <4>4
      <4> QED BY <4>1, <4>5 DEF HooksOf, Needed
    <3>3. CASE f # e
      <4>1. Serving(f)' = Serving(f) /\ keep'[f] = keep[f] /\ owned'[f] = owned[f] /\ hooks'[f] = hooks[f]
        BY <2>2, <3>3 DEF Loads, Serving, TypeOK, TypeEntries, TypeService
      <4> QED BY <3>1, <4>1, HooksKept
    <3> QED BY <3>2, <3>3
  <2>3. CASE Reconnect(e) \/ LoseLink(e) \/ Call(e) \/ Runs(e) \/ SetOptions(e)
    <3>1. UNCHANGED <<keep, owned, hooks, state>>
      BY <2>3 DEF Reconnect, LoseLink, Call, Runs, SetOptions, serveVars
    <3>2. \A f \in Entries : Serving(f)' = Serving(f)
      BY <3>1 DEF Serving
    <3> QED BY <3>1, <3>2, <1>0
  <2>4. ASSUME NEW s \in States, NotServed(e, s),
               s \in {"loaded", "failed_unload"} <=> Serving(e)
        PROVE  HookInv'
    <3>1. UNCHANGED <<keep, owned, hooks>>
      BY <2>4 DEF NotServed, serveVars
    <3>2. \A f \in Entries : Serving(f)' = Serving(f)
      BY <2>4 DEF NotServed, Serving, TypeOK, TypeEntries
    <3> QED BY <3>1, <3>2, <1>0
  <2>5. CASE Disable(e) \/ Enable(e) \/ UnloadRefused(e)
    BY <2>5, <2>4, LeavingHooks DEF Disable, Enable, UnloadRefused, Serving, States
  <2>6. CASE Remove(e) \/ Reload(e)
    BY <2>6, <2>4, LeavingHooks DEF Remove, Reload, Serving, States
  <2> QED BY <1>2, <2>1, <2>2, <2>3, <2>5, <2>6 DEF Life
<1>3. CASE Restart
  <2> SUFFICES ASSUME NEW f \in Entries PROVE HooksOf(f)'
      BY DEF HookInv
  <2>1. state'[f] \notin {"loaded", "failed_unload"}
    BY <1>3 DEF Restart
  <2>2. owned'[f] = {} /\ hooks'[f] = NoSetUp
    BY <1>3 DEF Restart
  <2> QED BY <2>1, <2>2 DEF HooksOf, Serving, NoSetUp
<1>4. CASE Heal \/ UNCHANGED vars
  <2>1. UNCHANGED <<keep, owned, hooks, state>>
    BY <1>4 DEF Heal, vars, serveVars
  <2> QED BY <2>1, <1>0 DEF Serving
<1> QED BY <1>1, <1>2, <1>3, <1>4 DEF Next

LEMMA HookInit == Init => HookInv
  BY DEF Init, HookInv, HooksOf, Serving, NoSetUp

(* However often an entry is set up again, it has at most one update listener and
   one purge, and those only in service (__init__.py:119-127, history.py:70-72). *)
THEOREM NothingLeftOver == Spec => []NoLeftovers
<1>1. HookInv => NoLeftovers
  <2> SUFFICES ASSUME HookInv, NEW e \in Entries, NEW k \in Kinds
               PROVE  hooks[e][k] = IF Serving(e) /\ (k = "purge" => keep[e] > 0) THEN 1 ELSE 0
      BY DEF NoLeftovers
  <2> QED BY DEF HookInv, HooksOf, Kinds
<1> QED BY <1>1, HookInit, HookStep, InitTypes, StepTypes, PTL DEF Spec

-----------------------------------------------------------------------------
(* Connections                                                               *)

(* A coordinator holds its own unit's connection, while its entry is in service
   or about to be; a call waits for the lock of a coordinator in service. *)
ConnOf(e) ==
  /\ \A u \in Units : conn[u] = Live(e) =>
       UnitOf(e) = u /\ state[e] \in {"forwarding", "loaded", "failed_unload"}
  /\ call[e] = "waits" => Serving(e)

ConnInv == \A e \in Entries : ConnOf(e)

LEMMA ConnKept ==
  ASSUME NEW e \in Entries, ConnOf(e), UnitOf(e)' = UnitOf(e), state'[e] = state[e],
         \A u \in Units : conn'[u] = Live(e) => conn[u] = Live(e),
         call'[e] = "waits" => call[e] = "waits"
  PROVE  ConnOf(e)'
  BY DEF ConnOf, Serving, Live

(* An entry that is not there, or not yet, holds nothing. *)
LEMMA NothingHeld ==
  ASSUME NEW e \in Entries, ConnOf(e), state[e] \notin {"forwarding", "loaded", "failed_unload"}
  PROVE  call[e] # "waits" /\ \A u \in Units : conn[u] # Live(e)
  BY DEF ConnOf, Serving

LEMMA LeavingConn ==
  ASSUME TypeOK, ConnInv, NEW e \in Entries, NEW s \in States, Leaves(e, s),
         \A f \in Entries : UnitOf(f)' = UnitOf(f)
  PROVE  ConnInv'
<1> SUFFICES ASSUME NEW f \in Entries PROVE ConnOf(f)'
    BY DEF ConnInv
<1> USE DEF TypeOK, TypeUnits, TypeEntries, TypeTasks
<1>1. ConnOf(f) /\ ConnOf(e)
  BY DEF ConnInv
<1>2. CASE state[e] = "loaded" /\ Unloaded(e, s)
  <2>1. \A u \in Units : conn'[u] = Live(f) => conn[u] = Live(f) /\ f # e
    <3> SUFFICES ASSUME NEW u \in Units, conn'[u] = Live(f)
                 PROVE  conn[u] = Live(f) /\ f # e
        OBVIOUS
    <3>1. Live(f) # Free
      BY ConnectionsDiffer
    <3>2. conn[u] = Live(f)
      BY <1>2, <3>1 DEF Unloaded, Closed
    <3>3. f = e => u = UnitOf(e)
      BY <1>1, <3>2 DEF ConnOf
    <3> QED BY <1>2, <3>1, <3>2, <3>3 DEF Unloaded, Closed
  <2>2. CASE f = e
    <3>1. call'[f] # "waits"
      BY <1>2, <2>2 DEF Unloaded
    <3>2. \A u \in Units : conn'[u] # Live(f)
      BY <2>1, <2>2
    <3>3. Live(f)' = Live(f)
      BY DEF Live
    <3> QED BY <3>1, <3>2, <3>3 DEF ConnOf
  <2>3. CASE f # e
    <3>1. state'[f] = state[f] /\ call'[f] = call[f]
      BY <1>2, <2>3 DEF Unloaded
    <3> QED BY <1>1, <2>1, <3>1, ConnKept
  <2> QED BY <2>2, <2>3
<1>3. CASE state[e] \in {"not_loaded", "setup_retry"} /\ NotServed(e, s)
  <2>1. UNCHANGED <<conn, call>>
    BY <1>3 DEF NotServed
  <2>2. CASE f = e
    <3>1. call[f] # "waits" /\ \A u \in Units : conn[u] # Live(f)
      BY <1>1, <1>3, <2>2, NothingHeld
    <3> QED BY <2>1, <3>1 DEF ConnOf, Live
  <2>3. CASE f # e
    <3>1. state'[f] = state[f]
      BY <1>3, <2>3 DEF NotServed
    <3> QED BY <1>1, <2>1, <3>1, ConnKept
  <2> QED BY <2>2, <2>3
<1> QED BY <1>2, <1>3 DEF Leaves

LEMMA ConnStep == TypeOK /\ ConnInv /\ [Next]_vars => ConnInv'
<1> SUFFICES ASSUME TypeOK, ConnInv, [Next]_vars PROVE ConnInv'
    OBVIOUS
<1>0. ASSUME UNCHANGED <<entry, state>>,
             \A f \in Entries : /\ \A u \in Units : conn'[u] = Live(f) => conn[u] = Live(f)
                                /\ call'[f] = "waits" => call[f] = "waits"
      PROVE  ConnInv'
  <2> SUFFICES ASSUME NEW f \in Entries PROVE ConnOf(f)'
      BY DEF ConnInv
  <2>1. ConnOf(f)
    BY DEF ConnInv
  <2>2. UnitOf(f)' = UnitOf(f) /\ state'[f] = state[f]
    BY <1>0 DEF UnitOf
  <2> QED BY <1>0, <2>1, <2>2, ConnKept
<1>1. ASSUME NEW u \in Units, Flow(u) PROVE ConnInv'
  <2>1. CASE FlowConnect(u) \/ FlowFails(u)
    <3>1. UNCHANGED <<entry, state, call>> /\ \E c \in {Free, Flowing} : conn' = [conn EXCEPT ![u] = c]
      BY <2>1 DEF FlowConnect, FlowFails, entryVars
    <3>2. \A f \in Entries : Live(f) # Free /\ Live(f) # Flowing
      BY ConnectionsDiffer
    <3> QED BY <3>1, <3>2, <1>0 DEF TypeOK, TypeUnits
  <2>2. ASSUME NEW e \in Entries, FlowFinishes(u, e) PROVE ConnInv'
    <3> SUFFICES ASSUME NEW f \in Entries PROVE ConnOf(f)'
        BY DEF ConnInv
    <3>1. ConnOf(f)
      BY DEF ConnInv
    <3>2. state[e] = "absent" /\ call' = call /\ conn' = [conn EXCEPT ![u] = Free]
      BY <2>2 DEF FlowFinishes
    <3>3. \A v \in Units : conn'[v] = Live(f) => conn[v] = Live(f)
      <4>1. Live(f) # Free
        BY ConnectionsDiffer
      <4> QED BY <3>2, <4>1 DEF TypeOK, TypeUnits
    <3>4. CASE f = e
      <4>1. call[f] # "waits" /\ \A v \in Units : conn[v] # Live(f)
        BY <3>1, <3>2, <3>4, NothingHeld
      <4> QED BY <3>2, <3>3, <4>1 DEF ConnOf, Live
    <3>5. CASE f # e
      <4>1. UnitOf(f)' = UnitOf(f)
        <5>1. PICK r : entry' \in {entry, [entry EXCEPT ![e] = r]}
          BY <2>2 DEF FlowFinishes, entryVars
        <5> QED BY <3>5, <5>1 DEF UnitOf, TypeOK, TypeEntries
      <4>2. state'[f] = state[f]
        BY <2>2, <3>5 DEF FlowFinishes, TypeOK, TypeEntries
      <4> QED BY <3>1, <3>2, <3>3, <4>1, <4>2, ConnKept
    <3> QED BY <3>4, <3>5
  <2> QED BY <1>1, <2>1, <2>2 DEF Flow
<1>2. ASSUME NEW e \in Entries, Life(e) PROVE ConnInv'
  <2>0. ConnOf(e) /\ UnitOf(e) \in Units
    BY UnitTypes DEF ConnInv
  <2>1. CASE SetUp(e) \/ FirstRefreshFails(e) \/ Loads(e)
    <3> SUFFICES ASSUME NEW f \in Entries PROVE ConnOf(f)'
        BY DEF ConnInv
    <3>1. ConnOf(f)
      BY DEF ConnInv
    <3>2. UnitOf(f)' = UnitOf(f) /\ call' = call
      BY <2>1 DEF SetUp, FirstRefreshFails, Loads, entryVars, UnitOf
    <3>3. \A u \in Units : conn'[u] = Live(f) => conn[u] = Live(f)
      <4>1. conn' = conn \/ \E c \in {Free, FailedSetup(e)} : conn' = [conn EXCEPT ![UnitOf(e)] = c]
        BY <2>1 DEF SetUp, FirstRefreshFails, Loads
      <4>2. Live(f) # Free /\ Live(f) # FailedSetup(e)
        BY ConnectionsDiffer
      <4> QED BY <4>1, <4>2 DEF TypeOK, TypeUnits
    <3>4. CASE f # e
      <4>1. state'[f] = state[f]
        BY <2>1, <3>4 DEF SetUp, FirstRefreshFails, Loads, TypeOK, TypeEntries
      <4> QED BY <3>1, <3>2, <3>3, <4>1, ConnKept
    <3>5. CASE f = e /\ ~Loads(e)
      <4>1. state[f] \notin {"forwarding", "loaded", "failed_unload"}
        BY <2>1, <3>5 DEF SetUp, FirstRefreshFails
      <4>2. call[f] # "waits" /\ \A u \in Units : conn[u] # Live(f)
        BY <3>1, <4>1, NothingHeld
      <4> QED BY <3>2, <3>3, <4>2 DEF ConnOf, Live
    <3>6. CASE f = e /\ Loads(e)
      <4>1. state'[f] = "loaded"
        BY <3>6 DEF Loads, TypeOK, TypeEntries
      <4> QED BY <3>1, <3>2, <3>3, <4>1 DEF ConnOf, Serving, Live
    <3> QED BY <3>4, <3>5, <3>6
  <2>2. CASE FirstRefreshes(e)
    <3> SUFFICES ASSUME NEW f \in Entries PROVE ConnOf(f)'
        BY DEF ConnInv
    <3>1. ConnOf(f)
      BY DEF ConnInv
    <3>2. UnitOf(f)' = UnitOf(f) /\ call' = call
      BY <2>2 DEF FirstRefreshes, entryVars, UnitOf
    <3>3. conn' = [conn EXCEPT ![UnitOf(e)] = Live(e)]
      BY <2>2 DEF FirstRefreshes
    <3>4. CASE f # e
      <4>1. state'[f] = state[f]
        BY <2>2, <3>4 DEF FirstRefreshes, TypeOK, TypeEntries
      <4>2. Live(e) # Live(f)
        BY <3>4, ConnectionsDiffer
      <4> QED BY <3>1, <3>2, <3>3, <4>1, <4>2, ConnKept DEF TypeOK, TypeUnits
    <3>5. CASE f = e
      <4>1. state'[f] = "forwarding" /\ call[f] # "waits" /\ \A u \in Units : conn[u] # Live(f)
        BY <2>2, <3>1, <3>5, NothingHeld DEF FirstRefreshes, TypeOK, TypeEntries
      <4> QED BY <3>2, <3>3, <3>5, <4>1 DEF ConnOf, Live, TypeOK, TypeUnits
    <3> QED BY <3>4, <3>5
  <2>3. CASE Reconnect(e) \/ Runs(e) \/ Call(e)
    <3> SUFFICES ASSUME NEW f \in Entries PROVE ConnOf(f)'
        BY DEF ConnInv
    <3>1. ConnOf(f)
      BY DEF ConnInv
    <3>2. UnitOf(f)' = UnitOf(f) /\ state' = state
      BY <2>3 DEF Reconnect, Runs, Call, entryVars, UnitOf
    <3>3. /\ \/ conn' = conn
             \/ conn' = [conn EXCEPT ![UnitOf(e)] = LateCall(e)]
             \/ conn' = [conn EXCEPT ![UnitOf(e)] = Live(e)] /\ Serving(e)
      BY <2>0, <2>3 DEF Reconnect, Runs, Call, ConnOf
    <3>4. \A u \in Units : conn'[u] = Live(f) => conn[u] = Live(f) \/ (u = UnitOf(f) /\ Serving(f))
      <4>1. Live(f) # LateCall(e) /\ (Live(e) = Live(f) => e = f)
        BY ConnectionsDiffer
      <4> QED BY <3>3, <4>1 DEF TypeOK, TypeUnits
    <3>5. call'[f] = "waits" => Serving(f)
      BY <2>3, <3>1 DEF Reconnect, Runs, Call, ConnOf, TypeOK, TypeTasks
    <3> QED BY <3>1, <3>2, <3>4, <3>5 DEF ConnOf, Serving, Live
  <2>4. CASE LoseLink(e) \/ SetOptions(e)
    <3>1. UNCHANGED <<entry, state, call>> /\ conn' \in {conn, [conn EXCEPT ![UnitOf(e)] = Free]}
      BY <2>4 DEF LoseLink, SetOptions, entryVars
    <3>2. \A f \in Entries : Live(f) # Free
      BY ConnectionsDiffer
    <3> QED BY <3>1, <3>2, <1>0 DEF TypeOK, TypeUnits
  <2>5. \A f \in Entries : Disable(e) \/ Enable(e) \/ Remove(e) \/ Reload(e) \/ UnloadRefused(e)
                             => UnitOf(f)' = UnitOf(f)
    BY DEF Disable, Enable, Remove, Reload, UnloadRefused, NotConfigured, entryVars, UnitOf, TypeOK, TypeEntries
  <2>6. ASSUME NEW s \in States, NotServed(e, s), \A f \in Entries : UnitOf(f)' = UnitOf(f),
               \/ state[e] = "disabled"
               \/ state[e] \in {"loaded", "failed_unload"} /\ s = "failed_unload"
        PROVE  ConnInv'
    <3> SUFFICES ASSUME NEW f \in Entries PROVE ConnOf(f)'
        BY DEF ConnInv
    <3>1. ConnOf(f)
      BY DEF ConnInv
    <3>2. UNCHANGED <<conn, call>> /\ state' = [state EXCEPT ![e] = s]
      BY <2>6 DEF NotServed
    <3>3. CASE f # e
      BY <2>6, <3>1, <3>2, <3>3, ConnKept DEF TypeOK, TypeEntries
    <3>4. CASE f = e /\ s = "failed_unload"
      <4>1. state'[f] = "failed_unload"
        BY <3>2, <3>4 DEF TypeOK, TypeEntries
      <4> QED BY <2>6, <3>1, <3>2, <4>1 DEF ConnOf, Serving, Live
    <3>5. CASE f = e /\ state[e] = "disabled"
      <4>1. call[f] # "waits" /\ \A u \in Units : conn[u] # Live(f)
        BY <3>1, <3>5, NothingHeld
      <4> QED BY <3>2, <4>1 DEF ConnOf, Live
    <3> QED BY <2>6, <3>3, <3>4, <3>5
  <2>7. CASE Disable(e) \/ Enable(e) \/ Remove(e) \/ Reload(e) \/ UnloadRefused(e)
    <3>1. \E s \in States :
            \/ Leaves(e, s)
            \/ /\ NotServed(e, s)
               /\ \/ state[e] = "disabled"
                  \/ state[e] \in {"loaded", "failed_unload"} /\ s = "failed_unload"
      BY <2>7 DEF Disable, Enable, Remove, Reload, UnloadRefused, States
    <3> QED BY <2>5, <2>6, <2>7, <3>1, LeavingConn
  <2> QED BY <1>2, <2>1, <2>2, <2>3, <2>4, <2>7 DEF Life
<1>3. CASE Restart
  <2> SUFFICES ASSUME NEW f \in Entries PROVE ConnOf(f)'
      BY DEF ConnInv
  <2>1. call'[f] = "none" /\ \A u \in Units : conn'[u] = Free
    BY <1>3 DEF Restart
  <2>2. Live(f) # Free
    BY ConnectionsDiffer
  <2> QED BY <2>1, <2>2 DEF ConnOf, Live
<1>4. CASE Heal \/ UNCHANGED vars
  BY <1>4, <1>0 DEF Heal, vars, entryVars
<1> QED BY <1>1, <1>2, <1>3, <1>4 DEF Next

LEMMA ConnInit == Init => ConnInv
<1> SUFFICES ASSUME Init, NEW f \in Entries PROVE ConnOf(f)
    BY DEF ConnInv
<1>1. call[f] = "none" /\ \A u \in Units : conn[u] = Free
  BY DEF Init
<1> QED BY <1>1, ConnectionsDiffer DEF ConnOf

(* A coordinator that serves no entry holds a unit's only connection in two cases
   only: its first refresh ended in an error response, or a call had waited for
   the lock over the unload (__init__.py:113 and 137-145). *)
THEOREM OrphansExplained == Spec => []OrphanHasACause
<1>1. ConnInv => OrphanHasACause
  BY DEF ConnInv, ConnOf, OrphanHasACause
<1> QED BY <1>1, ConnInit, ConnStep, InitTypes, StepTypes, PTL DEF Spec

-----------------------------------------------------------------------------
(* Identities                                                                *)

TrueName(u) == Name(identity[u].at10750, identity[u].at10100, u)

(* Both who names the entry and who names its device take the same name, unless
   a serial read was lost; and no two entries have the same unique id. *)
NamedOf(e) ==
  /\ state[e] # "absent" /\ entry[e].sure => entry[e].uid = TrueName(UnitOf(e))
  /\ (Serving(e) \/ state[e] = "forwarding") /\ coord[e].sure
       => coord[e].ident = TrueName(UnitOf(e))

NoNameTwice == \A e, f \in Entries :
  e # f /\ state[e] # "absent" /\ state[f] # "absent" => entry[e].uid # entry[f].uid

NameInv == NoNameTwice /\ \A e \in Entries : NamedOf(e)

LEMMA NamedKept ==
  ASSUME NEW e \in Entries, NamedOf(e), identity' = identity, entry'[e] = entry[e],
         state'[e] # "absent" => state[e] # "absent",
         (Serving(e) \/ state[e] = "forwarding")' =>
           (Serving(e) \/ state[e] = "forwarding") /\ coord'[e] = coord[e]
  PROVE  NamedOf(e)'
  BY DEF NamedOf, TrueName, UnitOf

LEMMA NoNameTwiceKept ==
  ASSUME NoNameTwice, NEW g \in Entries,
         \A f \in Entries \ {g} : entry'[f] = entry[f] /\ state'[f] = state[f],
         state'[g] # "absent" => state[g] # "absent" /\ entry'[g] = entry[g]
  PROVE  NoNameTwice'
  BY DEF NoNameTwice

(* A step of an entry that is there changes nothing of the others. *)
LEMMA OneEntrySteps ==
  ASSUME TypeOK, NEW e \in Entries, Life(e)
  PROVE  /\ \A f \in Entries \ {e} :
              /\ entry'[f] = entry[f] /\ state'[f] = state[f] /\ coord'[f] = coord[f]
              /\ options'[f] = options[f] /\ keep'[f] = keep[f] /\ hooks'[f] = hooks[f]
              /\ reload'[f] = reload[f] /\ missed'[f] = missed[f]
         /\ identity' = identity
<1> USE DEF TypeOK, TypeUnits, TypeEntries, TypeService, TypeTasks, entryVars, serveVars
<1>1. CASE SetUp(e)
  BY <1>1 DEF SetUp
<1>2. CASE FirstRefreshes(e)
  BY <1>2 DEF FirstRefreshes
<1>3. CASE FirstRefreshFails(e)
  BY <1>3 DEF FirstRefreshFails
<1>4. CASE Loads(e)
  BY <1>4 DEF Loads
<1>5. CASE Reconnect(e) \/ LoseLink(e) \/ Call(e) \/ Runs(e)
  BY <1>5 DEF Reconnect, LoseLink, Call, Runs
<1>6. CASE SetOptions(e)
  BY <1>6 DEF SetOptions
<1>7. ASSUME NEW s, Unloaded(e, s) \/ NotServed(e, s)
      PROVE  \A f \in Entries \ {e} : /\ state'[f] = state[f] /\ coord'[f] = coord[f] /\ keep'[f] = keep[f]
                                      /\ hooks'[f] = hooks[f] /\ missed'[f] = missed[f]
  BY <1>7 DEF Unloaded, NotServed
<1>8. CASE Disable(e) \/ Enable(e) \/ UnloadRefused(e)
  BY <1>7, <1>8 DEF Disable, Enable, UnloadRefused, Leaves
<1>9. CASE Remove(e) \/ Reload(e)
  BY <1>7, <1>9 DEF Remove, Reload, Leaves
<1> QED BY <1>1, <1>2, <1>3, <1>4, <1>5, <1>6, <1>8, <1>9 DEF Life

LEMMA NameStep == TypeOK /\ NameInv /\ [Next]_vars => NameInv'
<1> SUFFICES ASSUME TypeOK, NameInv, [Next]_vars PROVE NameInv'
    OBVIOUS
<1>0. ASSUME UNCHANGED <<identity, entry, state, coord>> PROVE NameInv'
  BY <1>0 DEF NameInv, NoNameTwice, NamedOf, TrueName, UnitOf, Serving
<1>1. ASSUME NEW u \in Units, Flow(u) PROVE NameInv'
  <2>1. CASE FlowConnect(u) \/ FlowFails(u)
    BY <2>1, <1>0 DEF FlowConnect, FlowFails, entryVars, serveVars
  <2>2. ASSUME NEW e \in Entries, FlowFinishes(u, e) PROVE NameInv'
    <3>1. PICK s \in Tolerant(identity[u].at10750), p \in Tolerant(identity[u].at10100) :
            /\ state[e] = "absent"
            /\ IF Configured(UniqueId(s, p, u))
               THEN UNCHANGED <<entryVars, state>>
               ELSE /\ entry' = [entry EXCEPT ![e] = [unit |-> u, uid |-> UniqueId(s, p, u),
                           sure |-> s = identity[u].at10750 /\ p = identity[u].at10100]]
                    /\ state' = [state EXCEPT ![e] = "not_loaded"]
            /\ UNCHANGED <<identity, serveVars>>
      BY <2>2 DEF FlowFinishes
    <3>2. CASE Configured(UniqueId(s, p, u))
      BY <3>1, <3>2, <1>0 DEF entryVars, serveVars
    <3>3. CASE ~Configured(UniqueId(s, p, u))
      <4> DEFINE q == s = identity[u].at10750 /\ p = identity[u].at10100
                 new == [unit |-> u, uid |-> UniqueId(s, p, u), sure |-> q]
      <4>1. /\ entry' = [entry EXCEPT ![e] = new] /\ state' = [state EXCEPT ![e] = "not_loaded"]
            /\ identity' = identity /\ coord' = coord
        BY <3>1, <3>3 DEF serveVars
      <4>2. new.uid = UniqueId(s, p, u) /\ new.unit = u /\ (new.sure => new.uid = TrueName(u))
        BY DEF UniqueId, TrueName
      <4> HIDE DEF new, q
      <4>3. \A f \in Entries \ {e} : entry'[f] = entry[f] /\ state'[f] = state[f]
        BY <4>1 DEF TypeOK, TypeEntries
      <4>4. entry'[e] = new /\ state'[e] = "not_loaded"
        BY <4>1 DEF TypeOK, TypeEntries
      <4>5. \A f \in Entries \ {e} : state[f] # "absent" => entry[f].uid # new.uid
        BY <3>3, <4>2 DEF Configured
      <4>6. NoNameTwice'
        BY <4>3, <4>4, <4>5 DEF NameInv, NoNameTwice
      <4>7. ASSUME NEW f \in Entries PROVE NamedOf(f)'
        <5>1. CASE f = e
          BY <4>1, <4>2, <4>4, <5>1 DEF NamedOf, TrueName, UnitOf, Serving
        <5>2. CASE f # e
          <6>1. NamedOf(f) /\ entry'[f] = entry[f] /\ state'[f] = state[f]
            BY <4>3, <5>2 DEF NameInv
          <6> QED BY <4>1, <6>1, NamedKept DEF Serving
        <5> QED BY <5>1, <5>2
      <4> QED BY <4>6, <4>7 DEF NameInv
    <3> QED BY <3>2, <3>3
  <2> QED BY <1>1, <2>1, <2>2 DEF Flow
<1>2. ASSUME NEW e \in Entries, Life(e) PROVE NameInv'
  <2>0. /\ \A f \in Entries \ {e} : entry'[f] = entry[f] /\ state'[f] = state[f] /\ coord'[f] = coord[f]
        /\ identity' = identity
    BY <1>2, OneEntrySteps
  <2>1. ASSUME NEW f \in Entries \ {e} PROVE NamedOf(f)'
    <3>1. NamedOf(f)
      BY DEF NameInv
    <3> QED BY <2>0, <3>1, NamedKept DEF Serving
  <2>2. state'[e] # "absent" => state[e] # "absent" /\ entry'[e] = entry[e]
    <3>1. ASSUME NEW s, Unloaded(e, s) \/ NotServed(e, s) PROVE state'[e] = s
      BY <3>1 DEF Unloaded, NotServed, TypeOK, TypeEntries
    <3>2. CASE SetUp(e) \/ FirstRefreshes(e) \/ FirstRefreshFails(e) \/ Loads(e)
      BY <3>2 DEF SetUp, FirstRefreshes, FirstRefreshFails, Loads, entryVars
    <3>3. CASE Reconnect(e) \/ LoseLink(e) \/ Call(e) \/ Runs(e) \/ SetOptions(e)
      BY <3>3 DEF Reconnect, LoseLink, Call, Runs, SetOptions, entryVars
    <3>4. CASE Disable(e) \/ Enable(e) \/ Reload(e) \/ UnloadRefused(e)
      BY <3>4 DEF Disable, Enable, Reload, UnloadRefused, Leaves, entryVars
    <3>5. CASE Remove(e)
      BY <3>1, <3>5 DEF Remove, Leaves
    <3> QED BY <1>2, <3>2, <3>3, <3>4, <3>5 DEF Life
  <2>3. NoNameTwice'
    BY <2>0, <2>2, NoNameTwiceKept DEF NameInv
  <2>4. NamedOf(e)'
    <3>1. NamedOf(e)
      BY DEF NameInv
    <3>2. CASE FirstRefreshes(e)
      <4>1. PICK s \in Tolerant(identity[UnitOf(e)].at10750) :
              coord' = [coord EXCEPT
                ![e].ident = Name(s, identity[UnitOf(e)].at10100, UnitOf(e)),
                ![e].sure = (s = identity[UnitOf(e)].at10750)]
        BY <3>2 DEF FirstRefreshes
      <4>2. coord'[e].sure => coord'[e].ident = TrueName(UnitOf(e))
        <5> DEFINE n == Name(s, identity[UnitOf(e)].at10100, UnitOf(e))
                   q == (s = identity[UnitOf(e)].at10750)
        <5>1. q => n = TrueName(UnitOf(e))
          BY DEF TrueName
        <5>2. coord' = [coord EXCEPT ![e].ident = n, ![e].sure = q]
          BY <4>1
        <5>3. coord'[e] = [[coord[e] EXCEPT !.ident = n] EXCEPT !.sure = q]
          <6> HIDE DEF n, q
          <6> QED BY <5>2 DEF TypeOK, TypeService
        <5>4. coord'[e].ident = n /\ coord'[e].sure = q
          <6> HIDE DEF n, q
          <6> QED BY <5>3 DEF TypeOK, TypeService
        <5> QED BY <5>1, <5>4
      <4>3. entry' = entry /\ state'[e] = "forwarding" /\ state[e] # "absent"
        BY <3>2 DEF FirstRefreshes, entryVars, TypeOK, TypeEntries
      <4>4. TrueName(UnitOf(e))' = TrueName(UnitOf(e))
        BY <2>0, <4>3 DEF TrueName, UnitOf
      <4> QED BY <3>1, <4>2, <4>3, <4>4 DEF NamedOf, UnitOf
    <3>3. CASE ~FirstRefreshes(e)
      <4>1. (Serving(e) \/ state[e] = "forwarding")' =>
              (Serving(e) \/ state[e] = "forwarding") /\ coord'[e] = coord[e]
        <5>1. CASE SetUp(e) \/ FirstRefreshFails(e)
          BY <5>1 DEF SetUp, FirstRefreshFails, Serving, TypeOK, TypeEntries
        <5>2. CASE Loads(e)
          BY <5>2 DEF Loads, Serving
        <5>3. CASE Reconnect(e) \/ LoseLink(e) \/ Call(e) \/ Runs(e) \/ SetOptions(e)
          BY <5>3 DEF Reconnect, LoseLink, Call, Runs, SetOptions, Serving, serveVars
        <5>4. ASSUME NEW s, Leaves(e, s), s \in {"disabled", "absent", "not_loaded"} PROVE ~(Serving(e) \/ state[e] = "forwarding")'
          BY <5>4 DEF Leaves, Unloaded, NotServed, Serving, TypeOK, TypeEntries
        <5>5. ASSUME NEW s, NotServed(e, s) PROVE state'[e] = s /\ coord' = coord
          BY <5>5 DEF NotServed, serveVars, TypeOK, TypeEntries
        <5>6. CASE Disable(e) \/ Enable(e) \/ UnloadRefused(e)
          BY <5>4, <5>5, <5>6 DEF Disable, Enable, UnloadRefused, Serving
        <5>7. CASE Remove(e) \/ Reload(e)
          BY <5>4, <5>5, <5>7 DEF Remove, Reload, Serving
        <5> QED BY <1>2, <3>3, <5>1, <5>2, <5>3, <5>6, <5>7 DEF Life
      <4>2. state'[e] # "absent" => NamedOf(e)'
        BY <2>0, <2>2, <3>1, <4>1, NamedKept
      <4>3. state'[e] = "absent" => NamedOf(e)'
        BY DEF NamedOf, Serving
      <4> QED BY <4>2, <4>3
    <3> QED BY <3>2, <3>3
  <2> QED BY <2>1, <2>3, <2>4 DEF NameInv
<1>3. CASE Restart
  <2>1. UNCHANGED <<identity, entry>>
    BY <1>3 DEF Restart, entryVars
  <2>2. \A e \in Entries : state'[e] \in {state[e], "not_loaded"} /\ (state'[e] = "absent" <=> state[e] = "absent")
                           /\ state'[e] \notin {"loaded", "failed_unload", "forwarding"}
    BY <1>3 DEF Restart
  <2>3. NoNameTwice'
    BY <2>1, <2>2 DEF NameInv, NoNameTwice
  <2>4. ASSUME NEW e \in Entries PROVE NamedOf(e)'
    BY <2>1, <2>2, <2>4, NamedKept DEF NameInv, Serving
  <2> QED BY <2>3, <2>4 DEF NameInv
<1>4. CASE Heal \/ UNCHANGED vars
  BY <1>4, <1>0 DEF Heal, vars, entryVars, serveVars
<1> QED BY <1>1, <1>2, <1>3, <1>4 DEF Next

LEMMA NameInit == Init => NameInv
  BY DEF Init, NameInv, NoNameTwice, NamedOf, Serving

(* The device of an entry in service carries the entry's unique id, unless a
   serial read was lost (config_flow.py:71-85, coordinator.py:270-285 and 632). *)
THEOREM DevicesMatch == Spec => []DeviceIsTheEntry
<1>1. NameInv => DeviceIsTheEntry
  <2> SUFFICES ASSUME NameInv, NEW e \in Entries, Serving(e) \/ state[e] = "forwarding",
                      entry[e].sure, coord[e].sure
               PROVE  coord[e].ident = entry[e].uid
      BY DEF DeviceIsTheEntry
  <2> QED BY DEF NameInv, NamedOf, Serving
<1> QED BY <1>1, NameInit, NameStep, InitTypes, StepTypes, PTL DEF Spec

(* No unit is configured twice, unless a flow lost a serial read
   (config_flow.py:126-127). *)
THEOREM UnitsConfiguredOnce == Spec => []NoUnitTwice
<1>1. NameInv => NoUnitTwice
  <2> SUFFICES ASSUME NameInv, NEW e \in Entries, NEW f \in Entries,
                      e # f, state[e] # "absent", state[f] # "absent",
                      entry[e].sure, entry[f].sure, UnitOf(e) = UnitOf(f)
               PROVE  FALSE
      BY DEF NoUnitTwice
  <2>1. entry[e].uid = TrueName(UnitOf(e)) /\ entry[f].uid = TrueName(UnitOf(f))
    BY DEF NameInv, NamedOf
  <2> QED BY <2>1 DEF NameInv, NoNameTwice
<1> QED BY <1>1, NameInit, NameStep, InitTypes, StepTypes, PTL DEF Spec

-----------------------------------------------------------------------------
(* Options                                                                   *)

(* From the first refresh on the coordinator works with the entry's options,
   unless they changed before there was a listener; in service a listener is there. *)
OptionsOf(e) ==
  /\ state[e] \in {"refreshing", "forwarding"} /\ ~missed[e] => coord[e].built = Built(options[e])
  /\ state[e] = "loaded" /\ ~reload[e] /\ ~missed[e]
       => coord[e].built = Built(options[e]) /\ keep[e] = options[e].history

OptionsInv == \A e \in Entries : OptionsOf(e)

LEMMA OptionsKept ==
  ASSUME NEW e \in Entries, OptionsOf(e), state'[e] = state[e], reload'[e] = reload[e],
         missed'[e] = missed[e], options'[e] = options[e], keep'[e] = keep[e], coord'[e] = coord[e]
  PROVE  OptionsOf(e)'
  BY DEF OptionsOf, Built, valid_restore_work_mode

(* Nothing is claimed of an entry that is not being set up and not loaded. *)
LEMMA NoOptions ==
  ASSUME NEW e \in Entries, state'[e] \notin {"refreshing", "forwarding", "loaded"}
  PROVE  OptionsOf(e)'
  BY DEF OptionsOf

LEMMA OptionsStep == TypeOK /\ HookInv /\ OptionsInv /\ [Next]_vars => OptionsInv'
<1> SUFFICES ASSUME TypeOK, HookInv, OptionsInv, [Next]_vars PROVE OptionsInv'
    OBVIOUS
<1>0. ASSUME UNCHANGED <<state, reload, missed, options, keep, coord>> PROVE OptionsInv'
  BY <1>0, OptionsKept DEF OptionsInv
<1>1. ASSUME NEW u \in Units, Flow(u) PROVE OptionsInv'
  <2>1. CASE FlowConnect(u) \/ FlowFails(u)
    BY <2>1, <1>0 DEF FlowConnect, FlowFails, entryVars, serveVars
  <2>2. ASSUME NEW e \in Entries, FlowFinishes(u, e) PROVE OptionsInv'
    <3> SUFFICES ASSUME NEW f \in Entries PROVE OptionsOf(f)'
        BY DEF OptionsInv
    <3>1. OptionsOf(f) /\ state[e] = "absent" /\ UNCHANGED <<reload, missed, keep, coord>>
      BY <2>2 DEF OptionsInv, FlowFinishes, serveVars
    <3>2. \/ UNCHANGED <<state, options>>
          \/ state' = [state EXCEPT ![e] = "not_loaded"] /\ options' = [options EXCEPT ![e] = Defaults]
      BY <2>2 DEF FlowFinishes, entryVars
    <3>3. CASE f = e
      BY <3>1, <3>2, <3>3, NoOptions DEF TypeOK, TypeEntries
    <3>4. CASE f # e
      <4>1. state'[f] = state[f] /\ options'[f] = options[f]
        BY <3>2, <3>4 DEF TypeOK, TypeEntries
      <4> QED BY <3>1, <4>1, OptionsKept
    <3> QED BY <3>3, <3>4
  <2> QED BY <1>1, <2>1, <2>2 DEF Flow
<1>2. ASSUME NEW e \in Entries, Life(e) PROVE OptionsInv'
  <2>0. \A f \in Entries \ {e} :
          /\ state'[f] = state[f] /\ coord'[f] = coord[f] /\ options'[f] = options[f]
          /\ keep'[f] = keep[f] /\ reload'[f] = reload[f] /\ missed'[f] = missed[f]
    BY <1>2, OneEntrySteps
  <2>1. ASSUME NEW f \in Entries \ {e} PROVE OptionsOf(f)'
    BY <2>0, <2>1, OptionsKept DEF OptionsInv
  <2>2. OptionsOf(e)'
    <3>0. OptionsOf(e)
      BY DEF OptionsInv
    <3>1. CASE SetUp(e)
      <4>1. state'[e] = "refreshing" /\ options' = options
        BY <3>1 DEF SetUp, entryVars, TypeOK, TypeEntries
      <4>2. coord'[e].built = Built(options[e])
        BY <3>1 DEF SetUp, NoCoordinator, TypeOK, TypeService
      <4> QED BY <4>1, <4>2 DEF OptionsOf, Built, valid_restore_work_mode
    <3>2. CASE FirstRefreshes(e)
      <4>1. /\ state'[e] = "forwarding" /\ state[e] = "refreshing"
            /\ UNCHANGED <<options, missed, reload>>
        BY <3>2 DEF FirstRefreshes, entryVars, TypeOK, TypeEntries
      <4>2. coord'[e].built = coord[e].built
        <5>1. PICK s \in Tolerant(identity[UnitOf(e)].at10750) :
                coord' = [coord EXCEPT
                  ![e].ident = Name(s, identity[UnitOf(e)].at10100, UnitOf(e)),
                  ![e].sure = (s = identity[UnitOf(e)].at10750)]
          BY <3>2 DEF FirstRefreshes
        <5> DEFINE n == Name(s, identity[UnitOf(e)].at10100, UnitOf(e))
                   q == (s = identity[UnitOf(e)].at10750)
        <5>2. coord' = [coord EXCEPT ![e].ident = n, ![e].sure = q]
          BY <5>1
        <5> HIDE DEF n, q
        <5>3. coord'[e] = [[coord[e] EXCEPT !.ident = n] EXCEPT !.sure = q]
          BY <5>2 DEF TypeOK, TypeService
        <5> QED BY <5>3 DEF TypeOK, TypeService
      <4> QED BY <3>0, <4>1, <4>2 DEF OptionsOf, Built, valid_restore_work_mode
    <3>3. CASE Loads(e)
      <4>1. /\ state'[e] = "loaded" /\ state[e] = "forwarding" /\ keep'[e] = options[e].history
            /\ UNCHANGED <<options, missed, coord>>
        BY <3>3 DEF Loads, entryVars, TypeOK, TypeEntries, TypeService
      <4> QED BY <3>0, <4>1 DEF OptionsOf, Built, valid_restore_work_mode
    <3>4. CASE Reconnect(e) \/ LoseLink(e) \/ Call(e) \/ Runs(e)
      <4>1. UNCHANGED <<state, reload, missed, options, keep, coord>>
        BY <3>4 DEF Reconnect, LoseLink, Call, Runs, entryVars, serveVars
      <4> QED BY <3>0, <4>1, OptionsKept
    <3>5. CASE SetOptions(e)
      <4>1. state' = state /\ missed' = [missed EXCEPT ![e] = @ \/ state[e] \in {"refreshing", "forwarding"}]
            /\ reload' = [reload EXCEPT ![e] = @ \/ ReloadsOn(e)]
        BY <3>5 DEF SetOptions
      <4>2. state[e] \in {"refreshing", "forwarding"} => missed'[e]
        BY <4>1, Zenon DEF TypeOK, TypeTasks
      <4>3. state[e] = "loaded" => ReloadsOn(e)
        <5> SUFFICES ASSUME state[e] = "loaded" PROVE ReloadsOn(e)
            OBVIOUS
        <5>1. HooksOf(e) /\ Serving(e)
          BY DEF HookInv, Serving
        <5>2. "listener" \in owned[e] /\ "listener" \in Kinds
          BY <5>1 DEF HooksOf, Kinds
        <5>3. hooks[e]["listener"] = 1
          BY <5>1, <5>2 DEF HooksOf
        <5> QED BY <5>3 DEF ReloadsOn
      <4>4. state[e] = "loaded" => reload'[e]
        BY <4>1, <4>3, Zenon DEF TypeOK, TypeTasks
      <4> QED BY <4>1, <4>2, <4>4 DEF OptionsOf
    <3>6. CASE FirstRefreshFails(e)
      BY <3>6, NoOptions DEF FirstRefreshFails, TypeOK, TypeEntries
    <3>7. ASSUME NEW s, Unloaded(e, s) \/ NotServed(e, s),
                 s \in {"disabled", "not_loaded", "absent", "failed_unload"}
          PROVE  OptionsOf(e)'
      <4>1. state'[e] = s
        BY <3>7 DEF Unloaded, NotServed, TypeOK, TypeEntries
      <4> QED BY <3>7, <4>1, NoOptions
    <3>8. CASE Disable(e) \/ Enable(e) \/ UnloadRefused(e)
      BY <3>7, <3>8 DEF Disable, Enable, UnloadRefused, Leaves
    <3>9. CASE Remove(e) \/ Reload(e)
      BY <3>7, <3>9 DEF Remove, Reload, Leaves
    <3> QED BY <1>2, <3>1, <3>2, <3>3, <3>4, <3>5, <3>6, <3>8, <3>9 DEF Life
  <2> QED BY <2>1, <2>2 DEF OptionsInv
<1>3. CASE Restart
  <2>1. \A e \in Entries : state'[e] \notin {"refreshing", "forwarding", "loaded"}
    BY <1>3 DEF Restart
  <2> QED BY <2>1, NoOptions DEF OptionsInv
<1>4. CASE Heal \/ UNCHANGED vars
  BY <1>4, <1>0 DEF Heal, vars, entryVars, serveVars
<1> QED BY <1>1, <1>2, <1>3, <1>4 DEF Next

LEMMA OptionsInit == Init => OptionsInv
  BY DEF Init, OptionsInv, OptionsOf

(* A loaded entry whose reloads are through works with the options it has, unless
   they changed during its set-up (__init__.py:95-127). *)
THEOREM OptionsApply == Spec => []OptionsInForce
<1>1. OptionsInv => OptionsInForce
  BY DEF OptionsInv, OptionsOf, OptionsInForce
<1> QED BY <1>1, OptionsInit, OptionsStep, HookInit, HookStep, InitTypes, StepTypes, PTL DEF Spec
=============================================================================
