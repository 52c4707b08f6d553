------------------------- MODULE MonitorDriverProofs -------------------------
(***************************************************************************)
(* Proofs about MonitorDriver, for every number of tries, every cool-down  *)
(* and any number of requests and IddCx failures.                          *)
(*                                                                         *)
(* The argument: a monitor that is present is either in g_state.monitor or *)
(* is the victim of the one thread that removes it; while it departs,      *)
(* g_state.monitor is null and nothing else may be created.  That thread's *)
(* failed departures are all counted in `failures', so that the control    *)
(* thread gives up only after DestroyAttempts of them.                     *)
(***************************************************************************)
EXTENDS MonitorDriver, TLAPS

\* The two parts of the type invariant, which different provers take: numbers,
\* and flags.
Numbers ==
    /\ monitor \in Nat /\ made \in Nat /\ arrived \subseteq 1..made
    /\ cooldown \in 0..Cooldown
    /\ attempt \in Nat /\ victim \in [Threads -> Nat]
    /\ failures \in 0..MaxFailures /\ requests \in 0..MaxRequests

Flags ==
    /\ power \in {"off", "initialising", "on"}
    /\ adapter \in BOOLEAN /\ finished \in BOOLEAN
    /\ departing \in BOOLEAN
    /\ active \in BOOLEAN /\ create \in BOOLEAN /\ destroy \in BOOLEAN
    /\ stop \in BOOLEAN
    /\ asking \in {"none", "create", "destroy"}
    /\ wanted \in {"none", "create", "destroy"} /\ overtaken \in BOOLEAN

\* Where each of the two threads can be.
PcInv ==
    /\ pc \in [Threads -> {"waiting", "creating", "destroying", "departing",
                           "settling", "stopped", "loaded", "stopping",
                           "joining", "unloaded"}]
    /\ pc["control"] \in {"waiting", "creating", "destroying", "departing",
                          "settling", "stopped"}
    /\ pc["unload"] \in {"loaded", "destroying", "departing", "settling",
                         "stopping", "joining", "unloaded"}

Removing(t) == pc[t] \in {"departing", "settling"}

\* At most one thread removes a monitor, and it is the flag's reason.
RemovalInv ==
    /\ \A t \in Threads : Removing(t) => departing /\ monitor = 0
    /\ \A t \in Threads : ~Removing(t) => victim[t] = 0
    /\ ~(Removing("control") /\ Removing("unload"))
    /\ departing => \E t \in Threads : Removing(t)

\* Every monitor present is held by the state or by a thread.
HeldInv ==
    arrived \subseteq {monitor, victim["control"], victim["unload"]}

\* The control thread counts its failed departures.
AttemptInv ==
    /\ pc["control"] \in {"destroying", "departing"} => attempt <= failures
    /\ pc["control"] = "settling" =>
          /\ attempt <= failures
          /\ victim["control"] \in arrived => attempt + 1 <= failures

\* A monitor is being created only while one is wanted, or the tray has asked to
\* destroy it since.
ActiveInv == pc["control"] = "creating" /\ Loaded => ~NotWanted

IInv ==
    /\ Numbers /\ Flags /\ PcInv /\ RemovalInv /\ HeldInv /\ AttemptInv
    /\ ActiveInv /\ GoneWhenNotActive

LEMMA TypeFromParts == Numbers /\ Flags /\ PcInv => TypeOK
  BY DEF Numbers, Flags, PcInv, TypeOK

LEMMA InitIInv == Init => IInv
<1> SUFFICES ASSUME Init PROVE IInv
  OBVIOUS
<1>1. Numbers
  BY DriverAssumption DEF Init, Numbers
<1>2. Flags
  BY Zenon DEF Init, Flags
<1>3. PcInv
  BY DEF Init, PcInv, Threads
<1>4. RemovalInv /\ HeldInv /\ AttemptInv
  BY <1>3 DEF Init, RemovalInv, Removing, HeldInv, AttemptInv, Threads
<1>5. ActiveInv /\ GoneWhenNotActive
  BY <1>3 DEF Init, ActiveInv, GoneWhenNotActive, Threads
<1> QED
  BY <1>1, <1>2, <1>3, <1>4, <1>5 DEF IInv

\* The tray and the host touch the events only; what they do to them never makes
\* a wanted monitor an unwanted one.
LEMMA StepPrograms ==
  ASSUME IInv, Programs
  PROVE  IInv'
<1>1. UNCHANGED <<adapterVars, monitorVars, departing, cooldown, stop, pc,
                  attempt, victim, failures>>
  BY DEF Programs, TrayAsks, TraySignals, HostSignals
<1>2. requests' \in 0..MaxRequests
  BY DriverAssumption
  DEF Programs, TrayAsks, TraySignals, HostSignals, IInv, Numbers
<1>3. Numbers'
  BY <1>1, <1>2 DEF IInv, Numbers, monitorVars
<1>4. Flags' /\ (NotWanted' => NotWanted)
  <2>1. ASSUME NEW what \in {"create", "destroy"}, TrayAsks(what)
        PROVE  Flags' /\ ~NotWanted'
    <3>1. /\ active' = (what = "create") /\ asking' = what
          /\ UNCHANGED <<create, destroy, wanted, overtaken>>
      BY <2>1 DEF TrayAsks, requestEvents
    <3>2. active' \in BOOLEAN /\ asking' \in {"none", "create", "destroy"}
      BY <3>1, Zenon
    <3>3. Flags'
      BY <1>1, <3>1, <3>2, Zenon DEF IInv, Flags, adapterVars
    <3>4. CASE what = "create"
      BY <3>1, <3>3, <3>4, Zenon DEF NotWanted
    <3>5. CASE what = "destroy"
      BY <3>1, <3>3, <3>5, Zenon DEF NotWanted
    <3> QED
      BY <3>4, <3>5
  <2>2. ASSUME TraySignals
        PROVE  Flags' /\ (NotWanted' => NotWanted)
    <3>1. /\ asking' = "none" /\ UNCHANGED active
          /\ create' = (create \/ asking = "create")
          /\ destroy' = (destroy \/ asking = "destroy")
          /\ wanted' = asking /\ overtaken' = (asking = "create" /\ destroy)
      BY <2>2, Zenon DEF TraySignals, Signal
    <3>2. /\ create' \in BOOLEAN /\ destroy' \in BOOLEAN /\ overtaken' \in BOOLEAN
          /\ wanted' \in {"none", "create", "destroy"}
          /\ asking' \in {"none", "create", "destroy"}
      BY <3>1, Zenon DEF IInv, Flags
    <3>3. Flags'
      BY <1>1, <3>1, <3>2, Zenon DEF IInv, Flags, adapterVars
    <3> QED
      BY <3>1, <3>3, Zenon DEF NotWanted
  <2>3. ASSUME NEW what \in {"create", "destroy"}, HostSignals(what)
        PROVE  Flags' /\ (NotWanted' => NotWanted)
    <3>1. /\ UNCHANGED <<active, asking>>
          /\ create' = (create \/ what = "create")
          /\ destroy' = (destroy \/ what = "destroy")
          /\ wanted' = what /\ overtaken' = (what = "create" /\ destroy)
      BY <2>3, Zenon DEF HostSignals, Signal
    <3>2. /\ create' \in BOOLEAN /\ destroy' \in BOOLEAN /\ overtaken' \in BOOLEAN
          /\ wanted' \in {"none", "create", "destroy"}
      BY <3>1, Zenon DEF IInv, Flags
    <3>3. Flags'
      BY <1>1, <3>1, <3>2, Zenon DEF IInv, Flags, adapterVars
    <3> QED
      BY <3>1, <3>3, Zenon DEF NotWanted
  <2> QED
    BY <2>1, <2>2, <2>3 DEF Programs
<1>5. ActiveInv' /\ GoneWhenNotActive'
  BY <1>1, <1>4 DEF IInv, ActiveInv, GoneWhenNotActive, At, Loaded, monitorVars
<1> QED
  BY <1>1, <1>3, <1>4, <1>5
  DEF IInv, PcInv, RemovalInv, Removing, HeldInv, AttemptInv, monitorVars

LEMMA SleepType ==
  ASSUME cooldown \in 0..Cooldown, Sleep
  PROVE  cooldown' \in 0..Cooldown
  BY DriverAssumption DEF Sleep

LEMMA StepTick ==
  ASSUME IInv, Tick
  PROVE  IInv'
<1>1. /\ UNCHANGED <<adapterVars, monitorVars, departing, requestEvents, active,
                     stop, pc, attempt, victim, failures, requestVars>>
      /\ cooldown' \in 0..Cooldown
  BY SleepType DEF Tick, IInv, Numbers
<1>2. Numbers'
  BY <1>1 DEF IInv, Numbers, monitorVars, requestVars
<1>3. Flags'
  BY <1>1, Zenon DEF IInv, Flags, adapterVars, requestEvents, requestVars
<1> QED
  BY <1>1, <1>2, <1>3
  DEF IInv, PcInv, RemovalInv, Removing, HeldInv, AttemptInv, ActiveInv,
      GoneWhenNotActive, NotWanted, requestEvents, requestVars, At, Loaded,
      monitorVars

\* What CreateVirtualMonitor does to the monitors: nothing, or one arrives
\* where none was and none was departing.
LEMMA CreateEffect ==
  ASSUME IInv, NEW hasAdapter \in BOOLEAN, NEW ok \in BOOLEAN,
         CreateVirtualMonitor(hasAdapter, ok)
  PROVE  /\ \/ UNCHANGED monitorVars
            \/ /\ ~departing /\ monitor = 0 /\ arrived = {}
               /\ made' = made + 1 /\ monitor' = made + 1
               /\ arrived' = {made + 1}
         /\ failures' \in 0..MaxFailures /\ failures <= failures'
<1>1. ASSUME ~departing, monitor = 0
      PROVE  arrived = {}
  <2>1. victim["control"] = 0 /\ victim["unload"] = 0
    BY <1>1 DEF IInv, RemovalInv, Threads
  <2> QED
    BY <1>1, <2>1 DEF IInv, HeldInv, Numbers
<1>2. failures' \in 0..MaxFailures /\ failures <= failures'
  BY DriverAssumption DEF CreateVirtualMonitor, IInv, Numbers
<1>3. \/ UNCHANGED monitorVars
      \/ /\ ~departing /\ monitor = 0
         /\ made' = made + 1 /\ monitor' = made + 1
         /\ arrived' = arrived \cup {made + 1}
  BY Zenon DEF CreateVirtualMonitor, Refused
<1> QED
  BY <1>1, <1>2, <1>3

\* The monitors' part of the invariant is kept by such an effect.
LEMMA CreateKeeps ==
  ASSUME IInv, UNCHANGED <<departing, victim>>,
         \A t \in Threads : Removing(t)' <=> Removing(t),
         \/ UNCHANGED monitorVars
         \/ /\ ~departing /\ monitor = 0 /\ arrived = {}
            /\ made' = made + 1 /\ monitor' = made + 1
            /\ arrived' = {made + 1}
  PROVE  /\ RemovalInv' /\ HeldInv'
         /\ monitor' \in Nat /\ made' \in Nat /\ arrived' \subseteq 1..made'
         /\ victim["control"] # 0 => arrived' = arrived
<1>1. RemovalInv'
  <2>1. CASE UNCHANGED monitorVars
    BY <2>1, Zenon DEF IInv, RemovalInv, monitorVars, Threads
  <2>2. CASE ~departing
    BY <2>2, Zenon DEF IInv, RemovalInv, Threads
  <2> QED
    BY <2>1, <2>2
<1>2. HeldInv'
  BY DEF IInv, HeldInv, monitorVars
<1>3. monitor' \in Nat /\ made' \in Nat /\ arrived' \subseteq 1..made'
  <2>1. CASE UNCHANGED monitorVars
    BY <2>1 DEF IInv, Numbers, monitorVars
  <2>2. CASE made' = made + 1 /\ monitor' = made + 1 /\ arrived' = {made + 1}
    BY <2>2 DEF IInv, Numbers
  <2> QED
    BY <2>1, <2>2
<1>4. victim["control"] # 0 => arrived' = arrived
  BY DEF IInv, RemovalInv, Threads, monitorVars
<1> QED
  BY <1>1, <1>2, <1>3, <1>4

LEMMA StepAdapter ==
  ASSUME IInv, Adapter
  PROVE  IInv'
<1>1. CASE EvtDeviceD0Entry \/ D0EntryReturns
  <2>1. UNCHANGED <<finished, monitorVars, departing, cooldown, requestEvents,
                   active, stop, pc, attempt, victim, failures, requestVars>>
    BY <1>1 DEF EvtDeviceD0Entry, D0EntryReturns
  <2>2. power' \in {"off", "initialising", "on"} /\ adapter' \in BOOLEAN
    BY <1>1, Zenon DEF EvtDeviceD0Entry, D0EntryReturns, IInv, Flags
  <2>3. Flags'
    BY <2>1, <2>2, Zenon DEF IInv, Flags, requestEvents, requestVars
  <2> QED
    BY <2>1, <2>3
    DEF IInv, Numbers, PcInv, RemovalInv, Removing, HeldInv, AttemptInv,
        ActiveInv, GoneWhenNotActive, NotWanted, At, Loaded, monitorVars,
        requestEvents, requestVars
<1>2. CASE EvtIddAdapterInitFinished
  <2>1. /\ UNCHANGED <<power, departing, cooldown, requestEvents, active, stop,
                       pc, attempt, victim, requestVars>>
        /\ adapter' = TRUE /\ finished' = TRUE
    BY <1>2 DEF EvtIddAdapterInitFinished
  <2>2. Flags'
    BY <2>1, Zenon DEF IInv, Flags, requestEvents, requestVars
  <2>3. CASE ~active
    <3>1. UNCHANGED <<monitorVars, failures>>
      BY <1>2, <2>3, Zenon DEF EvtIddAdapterInitFinished
    <3> QED
      BY <2>1, <2>2, <3>1
      DEF IInv, Numbers, PcInv, RemovalInv, Removing, HeldInv, AttemptInv,
          ActiveInv, GoneWhenNotActive, NotWanted, At, Loaded, monitorVars,
          requestEvents, requestVars
  <2>4. CASE active
    <3>1. PICK ok \in BOOLEAN : CreateVirtualMonitor(TRUE, ok)
      BY <1>2, <2>4, Zenon DEF EvtIddAdapterInitFinished
    <3>2. /\ \/ UNCHANGED monitorVars
             \/ /\ ~departing /\ monitor = 0 /\ arrived = {}
                /\ made' = made + 1 /\ monitor' = made + 1
                /\ arrived' = {made + 1}
          /\ failures' \in 0..MaxFailures /\ failures <= failures'
      BY <3>1, CreateEffect
    <3>3. /\ RemovalInv' /\ HeldInv'
          /\ monitor' \in Nat /\ made' \in Nat /\ arrived' \subseteq 1..made'
          /\ victim["control"] # 0 => arrived' = arrived
      BY <2>1, <3>2, CreateKeeps DEF Removing
    <3>4. Numbers'
      BY <2>1, <3>2, <3>3 DEF IInv, Numbers, requestVars
    <3>5. AttemptInv'
      BY <2>1, <3>2, <3>3, DriverAssumption
      DEF IInv, Numbers, AttemptInv, HeldInv
    <3>6. ~NotWanted'
      BY <2>1, <2>4, Zenon DEF NotWanted
    <3>7. PcInv' /\ ActiveInv' /\ GoneWhenNotActive'
      BY <2>1, <3>6 DEF IInv, PcInv, ActiveInv, GoneWhenNotActive
    <3> QED
      BY <2>2, <3>3, <3>4, <3>5, <3>7 DEF IInv
  <2> QED
    BY <2>3, <2>4
<1> QED
  BY <1>1, <1>2 DEF Adapter

LEMMA StepControl ==
  ASSUME IInv, Control
  PROVE  IInv'
<1>1. CASE ControlStops
  <2>1. /\ UNCHANGED <<adapterVars, monitorVars, departing, cooldown,
                       requestEvents, active, stop, attempt, victim, failures,
                       requestVars>>
        /\ pc["control"] = "waiting" /\ pc' = [pc EXCEPT !["control"] = "stopped"]
    BY <1>1 DEF ControlStops, At, Goto
  <2>2. pc'["control"] = "stopped" /\ pc'["unload"] = pc["unload"] /\ PcInv'
    BY <2>1 DEF IInv, PcInv, Threads
  <2>3. Flags'
    BY <2>1, Zenon DEF IInv, Flags, adapterVars, requestEvents, requestVars
  <2> QED
    BY <2>1, <2>2, <2>3
    DEF IInv, Numbers, RemovalInv, Removing, HeldInv, AttemptInv, ActiveInv,
        GoneWhenNotActive, NotWanted, requestEvents, requestVars, At, Loaded,
        monitorVars, Threads
<1>2. CASE ControlTakesCreate
  <2>1. /\ UNCHANGED <<adapterVars, monitorVars, departing, cooldown, destroy,
                       stop, victim, failures, requestVars>>
        /\ create' = FALSE /\ active' = TRUE /\ attempt' = 0
        /\ pc["control"] = "waiting" /\ pc' = [pc EXCEPT !["control"] = "creating"]
    BY <1>2 DEF ControlTakesCreate, At, Goto
  <2>2. pc'["control"] = "creating" /\ pc'["unload"] = pc["unload"] /\ PcInv'
    BY <2>1 DEF IInv, PcInv, Threads
  <2>3. Flags'
    BY <2>1, Zenon DEF IInv, Flags, adapterVars, requestVars
  <2> QED
    BY <2>1, <2>2, <2>3
    DEF IInv, Numbers, RemovalInv, Removing, HeldInv, AttemptInv, ActiveInv,
        GoneWhenNotActive, NotWanted, requestEvents, requestVars, At, Loaded,
        monitorVars, Threads
<1>3. CASE ControlTakesDestroy
  <2>1. /\ UNCHANGED <<adapterVars, monitorVars, departing, cooldown, create,
                       stop, victim, failures, requestVars>>
        /\ destroy' = FALSE /\ active' = FALSE /\ attempt' = 0
        /\ pc["control"] = "waiting"
        /\ pc' = [pc EXCEPT !["control"] = "destroying"]
    BY <1>3 DEF ControlTakesDestroy, At, Goto
  <2>2. pc'["control"] = "destroying" /\ pc'["unload"] = pc["unload"] /\ PcInv'
    BY <2>1 DEF IInv, PcInv, Threads
  <2>3. Flags'
    BY <2>1, Zenon DEF IInv, Flags, adapterVars, requestVars
  <2>4. Numbers'
    BY <2>1 DEF IInv, Numbers, monitorVars, requestVars
  <2>5. AttemptInv'
    BY <2>1, <2>2, DriverAssumption DEF IInv, Numbers, AttemptInv
  <2> QED
    BY <2>1, <2>2, <2>3, <2>4, <2>5
    DEF IInv, RemovalInv, Removing, HeldInv, ActiveInv, GoneWhenNotActive, At,
        Loaded, monitorVars, Threads
<1>4. ASSUME NEW ok \in BOOLEAN, ControlCreates(ok)
      PROVE  IInv'
  <2>1. /\ UNCHANGED <<adapterVars, departing, requestEvents, active, stop,
                       victim, requestVars>>
        /\ pc["control"] = "creating"
        /\ pc' = pc \/ pc' = [pc EXCEPT !["control"] = "waiting"]
        /\ CreateVirtualMonitor(adapter, ok)
    BY <1>4, Zenon DEF ControlCreates, At, Goto
  <2>2. /\ pc'["control"] \in {"creating", "waiting"}
        /\ pc'["unload"] = pc["unload"] /\ PcInv'
    BY <2>1 DEF IInv, PcInv, Threads
  <2>3. /\ \/ UNCHANGED monitorVars
           \/ /\ ~departing /\ monitor = 0 /\ arrived = {}
              /\ made' = made + 1 /\ monitor' = made + 1
              /\ arrived' = {made + 1}
        /\ failures' \in 0..MaxFailures /\ failures <= failures'
    BY <2>1, CreateEffect DEF IInv, Flags
  <2>4. /\ RemovalInv' /\ HeldInv'
        /\ monitor' \in Nat /\ made' \in Nat /\ arrived' \subseteq 1..made'
    <3>1. \A t \in Threads : Removing(t)' <=> Removing(t)
      BY <2>1, <2>2 DEF Removing, Threads
    <3> QED
      BY <2>1, <2>3, <3>1, CreateKeeps
  <2>5. Numbers'
    <3>1. cooldown' \in 0..Cooldown
      <4>1. cooldown' = cooldown \/ Sleep
        BY <1>4, Zenon DEF ControlCreates
      <4> QED
        BY <4>1, SleepType DEF IInv, Numbers
    <3>2. attempt' \in Nat
      <4>1. attempt' = attempt \/ attempt' = attempt + 1
        BY <1>4, Zenon DEF ControlCreates
      <4> QED
        BY <4>1 DEF IInv, Numbers
    <3> QED
      BY <2>1, <2>3, <2>4, <3>1, <3>2 DEF IInv, Numbers, requestVars
  <2>6. Flags'
    BY <2>1, Zenon DEF IInv, Flags, adapterVars, requestEvents, requestVars
  <2>7. AttemptInv'
    BY <2>2 DEF AttemptInv
  <2>8. ActiveInv' /\ GoneWhenNotActive'
    <3>1. NotWanted' <=> NotWanted
      BY <2>1, Zenon DEF NotWanted, requestEvents, requestVars
    <3> QED
      BY <2>1, <2>2, <3>1 DEF IInv, ActiveInv, GoneWhenNotActive, Loaded, At
  <2> QED
    BY <2>2, <2>4, <2>5, <2>6, <2>7, <2>8 DEF IInv
<1> QED
  BY <1>1, <1>2, <1>3, <1>4 DEF Control

\* The thread that is done with removing goes where it came from.
LEMMA DonePc ==
  ASSUME IInv, NEW t \in Threads,
         pc[t] \in {"destroying", "departing", "settling"}
  PROVE  /\ [pc EXCEPT ![t] = Done(t)] \in
              [Threads -> {"waiting", "creating", "destroying", "departing",
                           "settling", "stopped", "loaded", "stopping",
                           "joining", "unloaded"}]
         /\ t = "control" => Done(t) = "waiting"
         /\ t = "unload" => Done(t) = "stopping" /\ ~Loaded
  BY DEF Done, Threads, IInv, PcInv, Loaded, At

LEMMA StepClaim ==
  ASSUME IInv, NEW t \in Threads, ClaimMonitor(t)
  PROVE  IInv'
<1>1. /\ pc[t] = "destroying"
      /\ UNCHANGED <<adapterVars, arrived, made, cooldown, requestEvents,
                     active, stop, attempt, failures, requestVars>>
  BY DEF ClaimMonitor, At
<1>2. CASE monitor = 0
  <2>1. pc' = [pc EXCEPT ![t] = Done(t)] /\ UNCHANGED <<victim, monitor, departing>>
    BY <1>2, Zenon DEF ClaimMonitor, Goto
  <2>2. /\ PcInv' /\ \A u \in Threads : Removing(u)' <=> Removing(u)
        /\ t = "control" => pc'["control"] = "waiting"
                              /\ pc'["unload"] = pc["unload"]
        /\ t = "unload" => /\ pc'["unload"] = "stopping"
                           /\ pc'["control"] = pc["control"]
    BY <1>1, <2>1, DonePc DEF IInv, PcInv, Removing, Threads
  <2>3. RemovalInv' /\ HeldInv'
    BY <1>1, <2>1, <2>2 DEF IInv, RemovalInv, HeldInv, Threads
  <2>4. Numbers'
    BY <1>1, <2>1 DEF IInv, Numbers, requestVars
  <2>5. Flags'
    BY <1>1, <2>1, Zenon DEF IInv, Flags, adapterVars, requestEvents, requestVars
  <2>6. AttemptInv' /\ ActiveInv'
    BY <1>1, <2>1, <2>2 DEF IInv, AttemptInv, ActiveInv, Loaded, At, Threads
  <2>7. GoneWhenNotActive'
    <3>1. CASE t = "unload"
      BY <2>2, <3>1 DEF GoneWhenNotActive, Loaded, At
    <3>2. CASE t = "control" /\ Loaded
      <4>1. victim["control"] = 0 /\ victim["unload"] = 0
        BY <1>1, <3>2 DEF IInv, RemovalInv, Removing, Threads, Loaded, At
      <4>2. arrived = {}
        BY <1>2, <4>1 DEF IInv, HeldInv, Numbers
      <4> QED
        BY <1>1, <4>2 DEF GoneWhenNotActive
    <3>3. CASE t = "control" /\ ~Loaded
      BY <2>2, <3>3 DEF GoneWhenNotActive, Loaded, At
    <3> QED
      BY <3>1, <3>2, <3>3 DEF Threads
  <2> QED
    BY <2>2, <2>3, <2>4, <2>5, <2>6, <2>7 DEF IInv
<1>3. CASE monitor # 0
  <2>1. /\ departing' = TRUE /\ monitor' = 0
        /\ victim' = [victim EXCEPT ![t] = monitor]
        /\ pc' = [pc EXCEPT ![t] = "departing"]
    BY <1>3, Zenon DEF ClaimMonitor, Goto
  <2>2. PcInv' /\ pc'[t] = "departing" /\ \A u \in Threads \ {t} : pc'[u] = pc[u]
    BY <1>1, <2>1 DEF IInv, PcInv, Threads
  <2>3. \A u \in Threads : ~Removing(u) /\ victim[u] = 0
    BY <1>3 DEF IInv, RemovalInv
  <2>4. victim'[t] = monitor /\ \A u \in Threads \ {t} : victim'[u] = 0
    BY <2>1, <2>3 DEF IInv, Numbers
  <2>5. RemovalInv'
    BY <2>1, <2>2, <2>3, <2>4 DEF RemovalInv, Removing, Threads
  <2>6. HeldInv'
    BY <1>1, <2>3, <2>4 DEF IInv, HeldInv, Threads
  <2>7. Numbers'
    BY <1>1, <2>1 DEF IInv, Numbers, requestVars
  <2>8. Flags'
    BY <1>1, <2>1, Zenon DEF IInv, Flags, adapterVars, requestEvents, requestVars
  <2>9. AttemptInv'
    BY <1>1, <2>2, <2>3 DEF IInv, AttemptInv, Removing, Threads
  <2>10. ActiveInv' /\ GoneWhenNotActive'
    <3>1. CASE t = "control"
      BY <2>2, <3>1 DEF ActiveInv, GoneWhenNotActive, At
    <3>2. CASE t = "unload"
      BY <2>2, <3>2 DEF ActiveInv, GoneWhenNotActive, Loaded, At
    <3> QED
      BY <3>1, <3>2 DEF Threads
  <2> QED
    BY <2>2, <2>5, <2>6, <2>7, <2>8, <2>9, <2>10 DEF IInv
<1> QED
  BY <1>2, <1>3

LEMMA StepDepart ==
  ASSUME IInv, NEW t \in Threads, Depart(t)
  PROVE  IInv'
<1>1. /\ pc[t] = "departing" /\ pc' = [pc EXCEPT ![t] = "settling"]
      /\ UNCHANGED <<adapterVars, monitor, made, departing, cooldown,
                     requestEvents, active, stop, attempt, victim, requestVars>>
  BY DEF Depart, At, Goto
<1>2. /\ \/ arrived' = arrived \ {victim[t]} /\ failures' = failures
         \/ arrived' = arrived /\ failures' = failures + 1
      /\ failures' \in 0..MaxFailures
  BY DriverAssumption DEF Depart, IInv, Numbers
<1>3. PcInv' /\ pc'[t] = "settling" /\ \A u \in Threads \ {t} : pc'[u] = pc[u]
  BY <1>1 DEF IInv, PcInv, Threads
<1>4. RemovalInv'
  <2>1. \A u \in Threads : Removing(u)' <=> Removing(u)
    BY <1>1, <1>3 DEF Removing, Threads
  <2> QED
    BY <1>1, <2>1 DEF IInv, RemovalInv, Threads
<1>5. HeldInv'
  BY <1>1, <1>2 DEF IInv, HeldInv
<1>6. Numbers'
  BY <1>1, <1>2 DEF IInv, Numbers, requestVars
<1>7. Flags'
  BY <1>1, Zenon DEF IInv, Flags, adapterVars, requestEvents, requestVars
<1>8. AttemptInv'
  <2>1. CASE t = "control"
    <3>1. attempt <= failures
      BY <1>1, <2>1 DEF IInv, AttemptInv
    <3> QED
      BY <1>1, <1>2, <1>3, <2>1, <3>1, DriverAssumption
      DEF IInv, Numbers, AttemptInv
  <2>2. CASE t = "unload"
    <3>1. pc["control"] # "settling"
      BY <1>1, <2>2 DEF IInv, RemovalInv, Removing
    <3> QED
      BY <1>1, <1>2, <1>3, <2>2, <3>1, DriverAssumption
      DEF IInv, Numbers, AttemptInv, Threads
  <2> QED
    BY <2>1, <2>2 DEF Threads
<1>9. ActiveInv' /\ GoneWhenNotActive'
  <2>1. CASE t = "control"
    BY <1>3, <2>1 DEF ActiveInv, GoneWhenNotActive, At
  <2>2. CASE t = "unload"
    BY <1>3, <2>2 DEF ActiveInv, GoneWhenNotActive, Loaded, At
  <2> QED
    BY <2>1, <2>2 DEF Threads
<1> QED
  BY <1>3, <1>4, <1>5, <1>6, <1>7, <1>8, <1>9 DEF IInv

LEMMA StepSettle ==
  ASSUME IInv, NEW t \in Threads, Settle(t)
  PROVE  IInv'
<1>1. /\ pc[t] = "settling"
      /\ departing' = FALSE /\ cooldown' = Cooldown
      /\ monitor' = MonitorAfter(t)
      /\ victim' = [victim EXCEPT ![t] = 0]
      /\ UNCHANGED <<adapterVars, arrived, made, requestEvents, active, stop,
                     failures, requestVars>>
  BY DEF Settle, At
<1>2. \/ /\ victim[t] \in arrived /\ DestroyAgain(t)
         /\ attempt' = attempt + 1 /\ pc' = [pc EXCEPT ![t] = "destroying"]
      \/ /\ ~(victim[t] \in arrived /\ DestroyAgain(t))
         /\ attempt' = attempt /\ pc' = [pc EXCEPT ![t] = Done(t)]
  BY Zenon DEF Settle, Goto
<1>3. monitor = 0 /\ \A u \in Threads \ {t} : ~Removing(u) /\ victim[u] = 0
  BY <1>1 DEF IInv, RemovalInv, Removing, Threads
<1>4. /\ PcInv' /\ \A u \in Threads \ {t} : pc'[u] = pc[u]
      /\ pc'[t] \in {"destroying", "waiting", "stopping"}
      /\ t = "control" => pc'[t] \in {"destroying", "waiting"}
      /\ t = "unload" => pc'[t] = "stopping"
  BY <1>1, <1>2, DonePc DEF DestroyAgain, IInv, PcInv, Threads
<1>5. \A u \in Threads : victim'[u] = 0 /\ ~Removing(u)'
  BY <1>1, <1>3, <1>4 DEF IInv, Numbers, Removing
<1>6. arrived' \subseteq {monitor'}
  BY <1>1, <1>3 DEF IInv, HeldInv, Numbers, MonitorAfter, Threads
<1>7. RemovalInv' /\ HeldInv'
  BY <1>1, <1>5, <1>6 DEF RemovalInv, HeldInv, Threads
<1>8. Numbers'
  <2>1. monitor' \in Nat
    BY <1>1, <1>3 DEF MonitorAfter, IInv, Numbers
  <2>2. attempt' \in Nat
    BY <1>2 DEF IInv, Numbers
  <2>3. cooldown' \in 0..Cooldown
    BY <1>1, DriverAssumption
  <2> QED
    BY <1>1, <2>1, <2>2, <2>3 DEF IInv, Numbers, requestVars
<1>9. Flags'
  BY <1>1, Zenon DEF IInv, Flags, adapterVars, requestEvents, requestVars
<1>10. ActiveInv'
  BY <1>4 DEF IInv, ActiveInv, Loaded, At, Threads
<1>11. CASE t = "control"
  <2>1. /\ attempt <= failures /\ failures \in Nat /\ attempt \in Nat
        /\ victim["control"] \in arrived => attempt + 1 <= failures
    BY <1>1, <1>11, DriverAssumption DEF IInv, AttemptInv, Numbers
  <2>2. AttemptInv'
    BY <1>1, <1>2, <1>4, <1>11, <2>1 DEF AttemptInv
  <2>3. GoneWhenNotActive'
    <3>1. CASE victim["control"] \notin arrived
      <4>1. arrived = {}
        BY <1>1, <1>3, <1>11, <3>1 DEF IInv, HeldInv, Numbers, Threads
      <4> QED
        BY <1>1, <4>1 DEF GoneWhenNotActive
    <3>2. CASE pc'["control"] = "waiting" /\ victim["control"] \in arrived
      <4>1. pc[t] = "settling" /\ "destroying" # "waiting"
        BY <1>1
      <4>2. ~DestroyAgain(t)
        BY <1>2, <1>11, <3>2, <4>1 DEF IInv, PcInv, Threads
      <4>3. ~(attempt + 1 < DestroyAttempts)
        BY <1>11, <4>2 DEF DestroyAgain
      <4>4. ~(failures < DestroyAttempts)
        BY <2>1, <3>2, <4>3, DriverAssumption
      <4> QED
        BY <1>1, <4>4 DEF GoneWhenNotActive
    <3>3. CASE pc'["control"] # "waiting"
      BY <3>3 DEF GoneWhenNotActive, At
    <3> QED
      BY <3>1, <3>2, <3>3
  <2> QED
    BY <1>4, <1>7, <1>8, <1>9, <1>10, <2>2, <2>3 DEF IInv
<1>12. CASE t = "unload"
  <2>1. AttemptInv'
    <3>1. attempt' = attempt /\ pc'["control"] = pc["control"]
          /\ pc["control"] # "settling"
      BY <1>2, <1>3, <1>4, <1>12 DEF DestroyAgain, Removing, Threads
    <3> QED
      BY <1>1, <3>1 DEF IInv, AttemptInv
  <2>2. GoneWhenNotActive'
    BY <1>4, <1>12 DEF GoneWhenNotActive, Loaded, At
  <2> QED
    BY <1>4, <1>7, <1>8, <1>9, <1>10, <2>1, <2>2 DEF IInv
<1> QED
  BY <1>11, <1>12 DEF Threads

LEMMA StepUnload ==
  ASSUME IInv, Unload
  PROVE  IInv'
<1>1. PICK label \in {"destroying", "joining", "unloaded"} :
        /\ pc["unload"] \in {"loaded", "stopping", "joining"}
        /\ pc' = [pc EXCEPT !["unload"] = label]
  BY DEF Unload, EvtDriverUnload, SignalStop, CloseEvents, At, Goto
<1>2. UNCHANGED <<adapterVars, monitorVars, departing, cooldown, attempt, victim,
                  failures, requestVars>>
  BY DEF Unload, EvtDriverUnload, SignalStop, CloseEvents
<1>3. /\ active' \in BOOLEAN /\ create' \in BOOLEAN /\ destroy' \in BOOLEAN
      /\ stop' \in BOOLEAN
  BY Zenon DEF Unload, EvtDriverUnload, SignalStop, CloseEvents, requestEvents,
               IInv, Flags
<1>4. PcInv' /\ pc'["control"] = pc["control"] /\ pc'["unload"] = label
  BY <1>1 DEF IInv, PcInv, Threads
<1>5. Flags'
  BY <1>2, <1>3, Zenon DEF IInv, Flags, adapterVars, requestVars
<1>6. RemovalInv'
  <2>1. \A t \in Threads : Removing(t)' <=> Removing(t)
    BY <1>1, <1>4 DEF Removing, Threads
  <2> QED
    BY <1>2, <2>1 DEF IInv, RemovalInv, Threads, monitorVars
<1>7. ActiveInv' /\ GoneWhenNotActive'
  BY <1>4 DEF ActiveInv, GoneWhenNotActive, Loaded, At
<1> QED
  BY <1>2, <1>4, <1>5, <1>6, <1>7
  DEF IInv, Numbers, HeldInv, AttemptInv, monitorVars, requestVars

LEMMA StepStutter ==
  ASSUME IInv, UNCHANGED vars
  PROVE  IInv'
<1>1. Flags'
  BY Zenon DEF IInv, Flags, vars, adapterVars, requestEvents, requestVars
<1> QED
  BY <1>1
  DEF IInv, Numbers, PcInv, RemovalInv, Removing, HeldInv, AttemptInv, ActiveInv,
      GoneWhenNotActive, NotWanted, requestEvents, requestVars, At, Loaded,
      vars, monitorVars

LEMMA InvariantIInv == Spec => []IInv
<1>1. IInv /\ [Next]_vars => IInv'
  <2> SUFFICES ASSUME IInv, [Next]_vars PROVE IInv'
    OBVIOUS
  <2>1. ASSUME NEW t \in Threads, Destroys(t) PROVE IInv'
    BY <2>1, StepClaim, StepDepart, StepSettle DEF Destroys
  <2> QED
    BY <2>1, StepPrograms, StepTick, StepAdapter, StepControl, StepUnload,
       StepStutter DEF Next
<1> QED
  BY <1>1, InitIInv, PTL DEF Spec

\* Type correctness of the driver's state.
THEOREM TypeCorrect == Spec => []TypeOK
<1>1. IInv => TypeOK
  BY TypeFromParts DEF IInv
<1> QED
  BY <1>1, InvariantIInv, PTL

\* Two monitors are never present together: the flag monitorDeparting keeps
\* every thread from creating one while another departs outside the lock.
THEOREM AtMostOneMonitor == Spec => []OneMonitor
<1>1. IInv => OneMonitor
  <2> SUFFICES ASSUME IInv, NEW m \in arrived, NEW n \in arrived
               PROVE  m = n
    BY DEF OneMonitor
  <2>1. m # 0 /\ n # 0
    BY DEF IInv, Numbers
  <2>2. \/ victim["control"] = 0 /\ victim["unload"] = 0
        \/ monitor = 0 /\ victim["control"] = 0
        \/ monitor = 0 /\ victim["unload"] = 0
    BY DEF IInv, RemovalInv, Threads
  <2> QED
    BY <2>1, <2>2 DEF IInv, HeldInv
<1> QED
  BY <1>1, InvariantIInv, PTL

\* A monitor that is present is never lost: the next destroy request finds it,
\* or a thread is removing it; a departure that fails puts it back.
THEOREM MonitorsAreKept == Spec => []NoMonitorLost
<1>1. IInv => NoMonitorLost
  BY DEF IInv, HeldInv, NoMonitorLost, Threads
<1> QED
  BY <1>1, InvariantIInv, PTL

\* When the control thread is idle and no monitor is wanted, there is none,
\* however the adapter callback interleaved with the last destroy request.
THEOREM NoneWhenNotActive == Spec => []GoneWhenNotActive
<1>1. IInv => GoneWhenNotActive
  BY DEF IInv
<1> QED
  BY <1>1, InvariantIInv, PTL
-----------------------------------------------------------------------------
(***************************************************************************)
(* The driver implements the display it promises, as long as it stays      *)
(* loaded and IddCx fails less often than a departure is tried.            *)
(***************************************************************************)
\* A driver that is loaded after a step was loaded before it.
LEMMA LoadedBefore ==
  ASSUME IInv, Loaded', [Next]_vars
  PROVE  Loaded
<1>1. \A t \in Threads : \A label :
        Goto(t, label) => pc'["unload"] = IF t = "unload" THEN label
                                          ELSE pc["unload"]
  BY DEF Goto, IInv, PcInv, Threads
<1>2. pc'["unload"] = "loaded"
  BY DEF Loaded, At
<1>3. CASE UNCHANGED pc
  BY <1>2, <1>3 DEF Loaded, At
<1>4. CASE Programs \/ Tick \/ Adapter \/ UNCHANGED vars
  <2>1. UNCHANGED pc
    BY <1>4 DEF Programs, TrayAsks, TraySignals, HostSignals, Tick, Adapter,
                EvtDeviceD0Entry, D0EntryReturns, EvtIddAdapterInitFinished,
                vars
  <2> QED
    BY <1>3, <2>1
<1>5. CASE Control
  <2>1. UNCHANGED pc \/ \E label : Goto("control", label)
    BY <1>5, Zenon DEF Control, ControlStops, ControlTakesCreate,
                       ControlTakesDestroy, ControlCreates
  <2>2. UNCHANGED pc \/ pc'["unload"] = pc["unload"]
    BY <1>1, <2>1 DEF Threads
  <2> QED
    BY <1>2, <1>3, <2>2 DEF Loaded, At
<1>6. CASE Unload
  BY <1>1, <1>2, <1>6 DEF Unload, EvtDriverUnload, SignalStop, CloseEvents,
                          Threads
<1>7. ASSUME NEW t \in Threads, Destroys(t) PROVE Loaded
  <2>1. \E label \in {"departing", "settling", "destroying", Done(t)} :
           Goto(t, label)
    BY <1>7, Zenon DEF Destroys, ClaimMonitor, Depart, Settle
  <2>2. PICK label \in {"departing", "settling", "destroying", Done(t)} :
           Goto(t, label)
    BY <2>1
  <2>3. label # "loaded"
    BY DEF Done
  <2> QED
    BY <1>1, <1>2, <2>2, <2>3 DEF Loaded, At
<1> QED
  BY <1>4, <1>5, <1>6, <1>7 DEF Next

\* What the mapped variables depend on.
LEMMA Mapped ==
  ASSUME UNCHANGED <<create, destroy, active, finished, arrived>>, Doing' = Doing
  PROVE  UNCHANGED Display!displayVars
  BY DEF Display!displayVars

LEMMA DoingChanges ==
  ASSUME PcInv, NEW label, pc' = [pc EXCEPT !["control"] = label]
  PROVE  /\ label = "creating" => Doing' = "create"
         /\ label \in {"destroying", "departing", "settling"} => Doing' = "destroy"
         /\ label \in {"waiting", "stopped"} => Doing' = "nothing"
         /\ Loaded' = Loaded
<1>1. pc'["control"] = label /\ pc'["unload"] = pc["unload"]
  BY DEF PcInv, Threads
<1> QED
  BY <1>1 DEF Doing, Loaded, At

\* A monitor appears, or nothing changes, when CreateVirtualMonitor runs.
LEMMA CreateMaps ==
  ASSUME IInv, NEW hasAdapter \in BOOLEAN, NEW ok \in BOOLEAN,
         CreateVirtualMonitor(hasAdapter, ok)
  PROVE  \/ UNCHANGED arrived
         \/ ok /\ arrived = {} /\ arrived' # {}
<1>1. \/ UNCHANGED monitorVars
      \/ arrived = {} /\ arrived' = {made + 1}
  BY CreateEffect
<1>2. UNCHANGED monitorVars \/ ok
  BY Zenon DEF CreateVirtualMonitor
<1> QED
  BY <1>1, <1>2 DEF monitorVars

LEMMA ControlImplements ==
  ASSUME IInv, Control
  PROVE  [Display!DisplayNext]_Display!displayVars /\ Loaded' = Loaded
<1>1. CASE ControlStops
  <2>1. /\ UNCHANGED <<create, destroy, active, finished, arrived>>
        /\ pc["control"] = "waiting" /\ pc' = [pc EXCEPT !["control"] = "stopped"]
    BY <1>1 DEF ControlStops, At, Goto, requestEvents, adapterVars, monitorVars
  <2>2. Doing' = Doing /\ Loaded' = Loaded
    BY <2>1, DoingChanges DEF IInv, Doing
  <2> QED
    BY <2>1, <2>2, Mapped
<1>2. CASE ControlTakesCreate
  <2>1. /\ create /\ create' = FALSE /\ active' = TRUE
        /\ UNCHANGED <<destroy, finished, arrived>>
        /\ pc["control"] = "waiting" /\ pc' = [pc EXCEPT !["control"] = "creating"]
    BY <1>2 DEF ControlTakesCreate, At, Goto, adapterVars, monitorVars
  <2>2. Doing = "nothing" /\ Doing' = "create" /\ Loaded' = Loaded
    BY <2>1, DoingChanges DEF IInv, Doing
  <2>3. Display!TakeCreate
    BY <2>1, <2>2, Zenon DEF Display!TakeCreate
  <2> QED
    BY <2>2, <2>3 DEF Display!DisplayNext, Display!Serve
<1>3. CASE ControlTakesDestroy
  <2>1. /\ destroy /\ ~create /\ destroy' = FALSE /\ active' = FALSE
        /\ UNCHANGED <<create, finished, arrived>>
        /\ pc["control"] = "waiting"
        /\ pc' = [pc EXCEPT !["control"] = "destroying"]
    BY <1>3 DEF ControlTakesDestroy, At, Goto, adapterVars, monitorVars
  <2>2. Doing = "nothing" /\ Doing' = "destroy" /\ Loaded' = Loaded
    BY <2>1, DoingChanges DEF IInv, Doing
  <2>3. Display!TakeDestroy
    BY <2>1, <2>2, Zenon DEF Display!TakeDestroy
  <2> QED
    BY <2>2, <2>3 DEF Display!DisplayNext, Display!Serve
<1>4. ASSUME NEW ok \in BOOLEAN, ControlCreates(ok)
      PROVE  [Display!DisplayNext]_Display!displayVars /\ Loaded' = Loaded
  <2>1. /\ UNCHANGED <<create, destroy, active, finished>>
        /\ pc["control"] = "creating"
        /\ CreateVirtualMonitor(adapter, ok)
        /\ \/ pc' = pc /\ ~ok
           \/ pc' = [pc EXCEPT !["control"] = "waiting"]
    BY <1>4, Zenon DEF ControlCreates, At, Goto, adapterVars, requestEvents
  <2>2. UNCHANGED arrived \/ (ok /\ arrived = {} /\ arrived' # {})
    <3>1. adapter \in BOOLEAN
      BY DEF IInv, Flags
    <3> QED
      BY <2>1, <3>1, CreateMaps
  <2>3. Doing = "create"
    BY <2>1 DEF Doing
  <2>4. CASE pc' = pc /\ ~ok
    BY <2>1, <2>2, <2>4, Mapped DEF Doing, Loaded, At
  <2>5. CASE pc' = [pc EXCEPT !["control"] = "waiting"]
    <3>1. Doing' = "nothing" /\ Loaded' = Loaded
      BY <2>5, DoingChanges DEF IInv
    <3>2. CASE UNCHANGED arrived
      <4>1. Display!CreateEnds
        BY <2>1, <2>3, <3>1, <3>2 DEF Display!CreateEnds
      <4> QED
        BY <3>1, <4>1 DEF Display!DisplayNext, Display!Serve
    <3>3. CASE arrived = {} /\ arrived' # {}
      <4>1. Display!Appear
        BY <2>1, <2>3, <3>1, <3>3 DEF Display!Appear
      <4> QED
        BY <3>1, <4>1 DEF Display!DisplayNext, Display!Serve
    <3> QED
      BY <2>2, <3>2, <3>3
  <2> QED
    BY <2>1, <2>4, <2>5
<1> QED
  BY <1>1, <1>2, <1>3, <1>4 DEF Control

\* When the control thread removes a monitor, no other one is there.
LEMMA OnlyVictim ==
  ASSUME IInv, Loaded, pc["control"] \in {"destroying", "departing", "settling"},
         monitor = 0
  PROVE  arrived \subseteq {victim["control"]} /\ 0 \notin arrived
  BY DEF IInv, HeldInv, RemovalInv, Removing, Numbers, Loaded, At, Threads

LEMMA DestroyImplements ==
  ASSUME IInv, Loaded, failures' < DestroyAttempts, Destroys("control")
  PROVE  [Display!DisplayNext]_Display!displayVars /\ Loaded' = Loaded
<1> DEFINE Ends == /\ pc' = [pc EXCEPT !["control"] = "waiting"]
                   /\ UNCHANGED <<create, destroy, active, finished, arrived>>
                   /\ arrived = {} /\ Doing = "destroy"
<1>1. Ends => [Display!DisplayNext]_Display!displayVars /\ Loaded' = Loaded
  <2> SUFFICES ASSUME Ends
               PROVE  [Display!DisplayNext]_Display!displayVars /\ Loaded' = Loaded
    OBVIOUS
  <2>1. Doing' = "nothing" /\ Loaded' = Loaded
    BY DoingChanges DEF IInv
  <2>2. Display!DestroyEnds
    BY <2>1 DEF Display!DestroyEnds
  <2> QED
    BY <2>1, <2>2 DEF Display!DisplayNext, Display!Serve
<1>2. CASE ClaimMonitor("control")
  <2>1. /\ UNCHANGED <<create, destroy, active, finished, arrived>>
        /\ pc["control"] = "destroying"
        /\ \/ monitor = 0 /\ pc' = [pc EXCEPT !["control"] = "waiting"]
           \/ pc' = [pc EXCEPT !["control"] = "departing"]
    BY <1>2, Zenon DEF ClaimMonitor, At, Goto, Done, adapterVars, requestEvents
  <2>2. Doing = "destroy"
    BY <2>1 DEF Doing
  <2>3. CASE monitor = 0 /\ pc' = [pc EXCEPT !["control"] = "waiting"]
    <3>1. victim["control"] = 0
      BY <2>1 DEF IInv, RemovalInv, Removing, Threads
    <3>2. arrived = {}
      BY <2>1, <2>3, <3>1, OnlyVictim
    <3> QED
      BY <1>1, <2>1, <2>2, <2>3, <3>2
  <2>4. CASE pc' = [pc EXCEPT !["control"] = "departing"]
    <3>1. Doing' = "destroy" /\ Loaded' = Loaded
      BY <2>4, DoingChanges DEF IInv
    <3> QED
      BY <2>1, <2>2, <3>1, Mapped
  <2> QED
    BY <2>1, <2>3, <2>4
<1>3. CASE Depart("control")
  <2>1. /\ UNCHANGED <<create, destroy, active, finished>>
        /\ pc["control"] = "departing"
        /\ pc' = [pc EXCEPT !["control"] = "settling"]
        /\ arrived' = arrived \/ arrived' = arrived \ {victim["control"]}
    BY <1>3, Zenon DEF Depart, At, Goto, adapterVars, requestEvents
  <2>2. Doing = "destroy" /\ Doing' = "destroy" /\ Loaded' = Loaded
    BY <2>1, DoingChanges DEF IInv, Doing
  <2>3. monitor = 0
    BY <2>1 DEF IInv, RemovalInv, Removing, Threads
  <2>4. arrived' = arrived \/ (arrived # {} /\ arrived' = {})
    <3>1. arrived \subseteq {victim["control"]}
      BY <2>1, <2>3, OnlyVictim
    <3> QED
      BY <2>1, <3>1
  <2>5. CASE arrived' = arrived
    BY <2>1, <2>2, <2>5, Mapped
  <2>6. CASE arrived # {} /\ arrived' = {}
    <3>1. Display!Disappear
      BY <2>1, <2>2, <2>6 DEF Display!Disappear
    <3> QED
      BY <2>2, <3>1 DEF Display!DisplayNext, Display!Serve
  <2> QED
    BY <2>4, <2>5, <2>6
<1>4. CASE Settle("control")
  <2>1. /\ UNCHANGED <<create, destroy, active, finished, arrived, failures>>
        /\ pc["control"] = "settling"
        /\ \/ pc' = [pc EXCEPT !["control"] = "destroying"]
           \/ /\ ~(victim["control"] \in arrived /\ DestroyAgain("control"))
              /\ pc' = [pc EXCEPT !["control"] = "waiting"]
    BY <1>4, Zenon DEF Settle, At, Goto, Done, adapterVars, requestEvents
  <2>2. Doing = "destroy" /\ monitor = 0
    BY <2>1 DEF Doing, IInv, RemovalInv, Removing, Threads
  <2>3. CASE pc' = [pc EXCEPT !["control"] = "destroying"]
    <3>1. Doing' = "destroy" /\ Loaded' = Loaded
      BY <2>3, DoingChanges DEF IInv
    <3> QED
      BY <2>1, <2>2, <3>1, Mapped
  <2>4. CASE /\ ~(victim["control"] \in arrived /\ DestroyAgain("control"))
             /\ pc' = [pc EXCEPT !["control"] = "waiting"]
    <3>1. victim["control"] \notin arrived
      <4> SUFFICES ASSUME victim["control"] \in arrived PROVE FALSE
        OBVIOUS
      <4>1. attempt + 1 <= failures /\ attempt \in Nat /\ failures \in 0..MaxFailures
        BY <2>1 DEF IInv, AttemptInv, Numbers
      <4>2. attempt + 1 < DestroyAttempts
        BY <2>1, <4>1, DriverAssumption
      <4> QED
        BY <2>4, <4>2 DEF DestroyAgain
    <3>2. arrived = {}
      BY <2>1, <2>2, <3>1, OnlyVictim
    <3> QED
      BY <1>1, <2>1, <2>2, <2>4, <3>2
  <2> QED
    BY <2>1, <2>3, <2>4
<1> QED
  BY <1>2, <1>3, <1>4 DEF Destroys

LEMMA StepImplements ==
  ASSUME IInv, InService', [Next]_vars
  PROVE  [Display!DisplayNext]_Display!displayVars
<1> Loaded /\ Loaded' /\ failures' < DestroyAttempts
  BY LoadedBefore DEF InService
<1>1. CASE Programs
  <2>1. UNCHANGED <<arrived, finished, pc>>
    BY <1>1 DEF Programs, TrayAsks, TraySignals, HostSignals, adapterVars,
                monitorVars
  <2>2. (create => create') /\ (destroy => destroy')
    <3>1. \A what : Signal(what) => (create => create') /\ (destroy => destroy')
      BY Zenon DEF Signal
    <3>2. CASE \E what \in {"create", "destroy"} : TrayAsks(what)
      <4>1. UNCHANGED <<create, destroy>>
        BY <3>2, Zenon DEF TrayAsks, requestEvents
      <4> QED
        BY <4>1
    <3>3. CASE \E what : Signal(what)
      BY <3>1, <3>3, Zenon
    <3> QED
      BY <1>1, <3>2, <3>3, Zenon DEF Programs, TraySignals, HostSignals
  <2>3. active' \in BOOLEAN
    BY <1>1, Zenon DEF Programs, TrayAsks, TraySignals, HostSignals, IInv, Flags
  <2>4. Display!Ask
    BY <2>1, <2>2, <2>3 DEF Display!Ask, Doing
  <2> QED
    BY <2>1, <2>4 DEF Display!DisplayNext, Loaded, At
<1>2. CASE Tick \/ EvtDeviceD0Entry \/ D0EntryReturns \/ UNCHANGED vars
  <2>1. UNCHANGED <<create, destroy, active, finished, arrived, pc>>
    BY <1>2 DEF Tick, EvtDeviceD0Entry, D0EntryReturns, vars, requestEvents,
                adapterVars, monitorVars
  <2> QED
    BY <2>1, Mapped DEF Doing, Loaded, At
<1>3. CASE EvtIddAdapterInitFinished
  <2>1. /\ UNCHANGED <<create, destroy, active, pc>>
        /\ ~finished /\ finished' = TRUE
    BY <1>3 DEF EvtIddAdapterInitFinished, requestEvents
  <2>2. Doing' = Doing /\ Loaded' = Loaded
    BY <2>1 DEF Doing, Loaded, At
  <2>3. UNCHANGED arrived \/ (active /\ arrived = {} /\ arrived' # {})
    <3>1. CASE ~active
      BY <1>3, <3>1, Zenon DEF EvtIddAdapterInitFinished, monitorVars
    <3>2. CASE active
      <4>1. PICK ok \in BOOLEAN : CreateVirtualMonitor(TRUE, ok)
        BY <1>3, <3>2, Zenon DEF EvtIddAdapterInitFinished
      <4> QED
        BY <3>2, <4>1, CreateMaps
    <3> QED
      BY <3>1, <3>2
  <2>4. CASE UNCHANGED arrived
    <3>1. Display!BecomeReady
      BY <2>1, <2>2, <2>4 DEF Display!BecomeReady
    <3> QED
      BY <2>2, <3>1 DEF Display!DisplayNext
  <2>5. CASE active /\ arrived = {} /\ arrived' # {}
    <3>1. Display!Appear
      BY <2>1, <2>2, <2>5 DEF Display!Appear
    <3> QED
      BY <2>2, <3>1 DEF Display!DisplayNext, Display!Serve
  <2> QED
    BY <2>3, <2>4, <2>5
<1>4. CASE Control
  BY <1>4, ControlImplements
<1>5. CASE Destroys("control")
  BY <1>5, DestroyImplements
<1>6. ~Unload /\ ~Destroys("unload")
  <2>1. ~EvtDriverUnload
    BY DEF EvtDriverUnload, Goto, At, Loaded, IInv, PcInv, Threads
  <2> QED
    BY <2>1 DEF Unload, SignalStop, CloseEvents, Destroys, ClaimMonitor, Depart,
                Settle, At, Loaded
<1> QED
  BY <1>1, <1>2, <1>3, <1>4, <1>5, <1>6 DEF Next, Adapter, Threads

\* The tray and the host can rely on the display of VirtualDisplay: the control
\* thread with its retries, the adapter callback and the departure in two
\* critical sections look like one display that serves one request at a time.
THEOREM DriverImplementsDisplay == Spec => ImplementsDisplay
<1>1. Init => Display!DisplayInit
  BY DEF Init, Display!DisplayInit, Doing, At, Threads
<1>2. IInv /\ [Next]_vars =>
        [InService' => Display!DisplayNext]_Display!displayVars
  BY StepImplements
<1>3. Spec => []IInv
  BY InvariantIInv
<1> QED
  BY <1>1, <1>2, <1>3, PTL DEF Spec, ImplementsDisplay
=============================================================================
