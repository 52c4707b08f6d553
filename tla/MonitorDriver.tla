---------------------------- MODULE MonitorDriver ----------------------------
(***************************************************************************)
(* The virtual monitor of the Windows indirect display driver (driver.cpp).*)
(*                                                                         *)
(* The tray and the host ask for the monitor through two auto-reset events *)
(* (create, destroy); one control thread of the driver serves them.  The   *)
(* adapter callbacks of IddCx and the unload routine run on other threads; *)
(* g_stateLock makes each step below atomic, and is not held while a       *)
(* monitor departs.  The manual-reset event `active' remembers that a      *)
(* monitor is wanted, for an adapter that becomes ready later; the tray    *)
(* sets and resets it too, in a call of its own before it signals.         *)
(*                                                                         *)
(* Time is counted in the 100 ms the retry loops sleep: cooldown is what   *)
(* is left of the two seconds after a departure.                           *)
(***************************************************************************)
EXTENDS Naturals, FiniteSets

CONSTANTS
    CreateAttempts,  \* tries of RetryCreateVirtualMonitor (50 in the code)
    DestroyAttempts, \* tries of RequestDestroyVirtualMonitor (20)
    Cooldown,        \* length of the cool-down (20 sleeps)
    MaxRequests,     \* bound: requests by the tray and the host
    MaxFailures,     \* bound: IddCx calls that fail
    MayUnload        \* whether the driver may be unloaded

ASSUME DriverAssumption ==
    /\ CreateAttempts \in Nat \ {0}
    /\ DestroyAttempts \in Nat \ {0}
    /\ Cooldown \in Nat
    /\ MaxRequests \in Nat
    /\ MaxFailures \in Nat
    /\ MayUnload \in BOOLEAN

Threads == {"control", "unload"}

VARIABLES
    power,     \* "off", "initialising" (IddCxAdapterInitAsync called), "on"
    adapter,   \* g_state.adapter # nullptr
    finished,  \* EvtIddAdapterInitFinished has been called
    monitor,   \* g_state.monitor; 0 is nullptr
    departing, \* g_state.monitorDeparting
    cooldown,  \* sleeps until a new monitor may arrive
    active, create, destroy, stop,
               \* the four events, TRUE when signalled
    pc,        \* where the control thread and the unload routine are
    attempt,   \* tries the control thread has made in its retry loop
    victim,    \* the monitor a thread is removing
    arrived,   \* IddCx: monitors that have arrived and not departed
    made,      \* IddCx: monitors created so far
    failures,  \* IddCx calls that have failed
    asking,    \* the request the tray is in the middle of, or "none"
    requests,  \* requests so far
    wanted,    \* history: the latest request
    overtaken  \* history: it found an older destroy request pending

adapterVars == <<power, adapter, finished>>
monitorVars == <<monitor, arrived, made>>
requestEvents == <<create, destroy>>
requestVars == <<asking, requests, wanted, overtaken>>
vars == <<adapterVars, monitorVars, departing, cooldown, requestEvents, active,
          stop, pc, attempt, victim, failures, requestVars>>

At(t, label) == pc[t] = label
Goto(t, label) == pc' = [pc EXCEPT ![t] = label]

Open == ~At("unload", "unloaded")   \* the events have not been closed

\* StartControlChannel has run: the control thread waits for its events.
Init ==
    /\ power = "off" /\ adapter = FALSE /\ finished = FALSE
    /\ monitor = 0 /\ arrived = {} /\ made = 0
    /\ departing = FALSE /\ cooldown = 0
    /\ active = FALSE /\ create = FALSE /\ destroy = FALSE /\ stop = FALSE
    /\ pc = [t \in Threads |-> IF t = "control" THEN "waiting" ELSE "loaded"]
    /\ attempt = 0 /\ victim = [t \in Threads |-> 0]
    /\ failures = 0
    /\ asking = "none" /\ requests = 0 /\ wanted = "none" /\ overtaken = FALSE

(***************************************************************************)
(* The tray, the host and time.                                            *)
(***************************************************************************)
\* SetEvent of one of the two requests.
Signal(what) ==
    /\ create' = (create \/ what = "create")
    /\ destroy' = (destroy \/ what = "destroy")
    /\ wanted' = what
    /\ overtaken' = (what = "create" /\ destroy)

\* The tray sets or resets `active' first (createVirtualMonitor,
\* destroyVirtualMonitor, requestDriverMonitorDestroy of tray_app.cpp), ...
TrayAsks(what) ==
    /\ Open /\ requests < MaxRequests /\ asking = "none"
    /\ requests' = requests + 1
    /\ asking' = what /\ active' = (what = "create")
    /\ UNCHANGED <<adapterVars, monitorVars, departing, cooldown, requestEvents,
                   stop, pc, attempt, victim, failures, wanted, overtaken>>

\* ... then it signals the request.
TraySignals ==
    /\ Open /\ asking # "none"
    /\ Signal(asking) /\ asking' = "none"
    /\ UNCHANGED <<adapterVars, monitorVars, departing, cooldown, active, stop,
                   pc, attempt, victim, failures, requests>>

\* The host signals a request and leaves `active' alone (host_app.cpp).
HostSignals(what) ==
    /\ Open /\ requests < MaxRequests
    /\ requests' = requests + 1
    /\ Signal(what)
    /\ UNCHANGED <<adapterVars, monitorVars, departing, cooldown, active, stop,
                   pc, attempt, victim, failures, asking>>

\* Sleep(100).
Sleep == cooldown' = IF cooldown = 0 THEN 0 ELSE cooldown - 1

Tick ==
    /\ cooldown > 0
    /\ Sleep
    /\ UNCHANGED <<adapterVars, monitorVars, departing, requestEvents, active,
                   stop, pc, attempt, victim, failures, requestVars>>

(***************************************************************************)
(* CreateVirtualMonitor, called with the lock held; ok is its result.      *)
(***************************************************************************)
\* Why a missing monitor cannot be created now.  (The slip: a monitor that is
\* still departing counts as gone.)
RefusedWithoutDeparting(hasAdapter) == cooldown > 0 \/ ~hasAdapter
Refused(hasAdapter) == departing \/ cooldown > 0 \/ ~hasAdapter

CreateVirtualMonitor(hasAdapter, ok) ==
    \/ /\ monitor # 0 /\ ok
       /\ UNCHANGED <<monitorVars, failures>>
    \/ /\ monitor = 0 /\ Refused(hasAdapter) /\ ~ok
       /\ UNCHANGED <<monitorVars, failures>>
    \/ /\ monitor = 0 /\ ~Refused(hasAdapter) /\ ok
       /\ made' = made + 1 /\ monitor' = made + 1
       /\ arrived' = arrived \cup {made + 1}
       /\ UNCHANGED failures
    \/ /\ monitor = 0 /\ ~Refused(hasAdapter) /\ ~ok
       /\ failures < MaxFailures /\ failures' = failures + 1
       /\ UNCHANGED monitorVars

(***************************************************************************)
(* Adapter callbacks.                                                      *)
(***************************************************************************)
EvtDeviceD0Entry ==
    /\ power = "off" /\ At("unload", "loaded")
    /\ power' = "initialising"
    /\ UNCHANGED <<adapter, finished, monitorVars, departing, cooldown,
                   requestEvents, active, stop, pc, attempt, victim, failures,
                   requestVars>>

\* IddCxAdapterInitAsync returns; IddCx may have called back before.
D0EntryReturns ==
    /\ power = "initialising"
    /\ power' = "on" /\ adapter' = TRUE
    /\ UNCHANGED <<finished, monitorVars, departing, cooldown, requestEvents,
                   active, stop, pc, attempt, victim, failures, requestVars>>

\* A monitor asked for while there was no adapter arrives now: one try.
EvtIddAdapterInitFinished ==
    /\ power # "off" /\ ~finished
    /\ finished' = TRUE /\ adapter' = TRUE
    /\ IF active THEN \E ok \in BOOLEAN : CreateVirtualMonitor(TRUE, ok)
                 ELSE UNCHANGED <<monitorVars, failures>>
    /\ UNCHANGED <<power, departing, cooldown, requestEvents, active, stop, pc,
                   attempt, victim, requestVars>>

(***************************************************************************)
(* The control thread.                                                     *)
(***************************************************************************)
\* WaitForMultipleObjects takes the first signalled event in the order stop,
\* create, destroy, and resets it (all but stop).
ControlStops ==
    /\ At("control", "waiting") /\ stop /\ Open
    /\ Goto("control", "stopped")
    /\ UNCHANGED <<adapterVars, monitorVars, departing, cooldown,
                   requestEvents, active, stop, attempt, victim, failures,
                   requestVars>>

ControlTakesCreate ==
    /\ At("control", "waiting") /\ create /\ ~stop /\ Open
    /\ create' = FALSE /\ active' = TRUE
    /\ Goto("control", "creating") /\ attempt' = 0
    /\ UNCHANGED <<adapterVars, monitorVars, departing, cooldown, destroy,
                   stop, victim, failures, requestVars>>

ControlTakesDestroy ==
    /\ At("control", "waiting") /\ destroy /\ ~create /\ ~stop /\ Open
    /\ destroy' = FALSE /\ active' = FALSE
    /\ Goto("control", "destroying") /\ attempt' = 0
    /\ UNCHANGED <<adapterVars, monitorVars, departing, cooldown, create,
                   stop, victim, failures, requestVars>>

\* Another try of the retry loop after one that failed.  (The slip: as many
\* tries as the cool-down has sleeps.)
CreateAgainForCooldown == attempt + 1 < Cooldown
CreateAgain == attempt + 1 < CreateAttempts

\* One try of RetryCreateVirtualMonitor.
ControlCreates(ok) ==
    /\ At("control", "creating")
    /\ CreateVirtualMonitor(adapter, ok)
    /\ IF ok THEN UNCHANGED cooldown ELSE Sleep
    /\ IF ok \/ ~CreateAgain
       THEN Goto("control", "waiting") /\ UNCHANGED attempt
       ELSE attempt' = attempt + 1 /\ UNCHANGED pc
    /\ UNCHANGED <<adapterVars, departing, requestEvents, active, stop, victim,
                   requestVars>>

(***************************************************************************)
(* DestroyVirtualMonitor, by the control thread (in its retry loop) or by  *)
(* the unload routine (once).                                              *)
(***************************************************************************)
Done(t) == IF t = "control" THEN "waiting" ELSE "stopping"

\* The first critical section: the thread takes the monitor, if there is one.
\* (A departing monitor is never in g_state, so that a second thread finds
\* none and reports success.)
ClaimMonitor(t) ==
    /\ At(t, "destroying")
    /\ IF monitor = 0
       THEN Goto(t, Done(t)) /\ UNCHANGED <<victim, monitor, departing>>
       ELSE /\ departing' = TRUE /\ monitor' = 0
            /\ victim' = [victim EXCEPT ![t] = monitor]
            /\ Goto(t, "departing")
    /\ UNCHANGED <<adapterVars, arrived, made, cooldown, requestEvents, active,
                   stop, attempt, failures, requestVars>>

\* StopSwapChainPump and IddCxMonitorDeparture, outside the lock.
Depart(t) ==
    /\ At(t, "departing")
    /\ \/ arrived' = arrived \ {victim[t]} /\ UNCHANGED failures
       \/ /\ failures < MaxFailures /\ failures' = failures + 1
          /\ UNCHANGED arrived
    /\ Goto(t, "settling")
    /\ UNCHANGED <<adapterVars, monitor, made, departing, cooldown,
                   requestEvents, active, stop, attempt, victim, requestVars>>

\* What g_state.monitor is after the departure.  (The slip: a monitor that
\* could not be removed is forgotten.)
MonitorForgotten(t) == monitor
MonitorAfter(t) == IF victim[t] \in arrived THEN victim[t] ELSE monitor

\* The control thread tries again.  (The slip: it tries once.)
DestroyAgainNever(t) == FALSE
DestroyAgain(t) == t = "control" /\ attempt + 1 < DestroyAttempts

\* The second critical section.
Settle(t) ==
    /\ At(t, "settling")
    /\ departing' = FALSE /\ cooldown' = Cooldown
    /\ monitor' = MonitorAfter(t)
    /\ IF victim[t] \in arrived /\ DestroyAgain(t)
       THEN attempt' = attempt + 1 /\ Goto(t, "destroying")
       ELSE UNCHANGED attempt /\ Goto(t, Done(t))
    /\ victim' = [victim EXCEPT ![t] = 0]
    /\ UNCHANGED <<adapterVars, arrived, made, requestEvents, active, stop,
                   failures, requestVars>>

(***************************************************************************)
(* EvtDriverUnload: the monitor is removed, then the control thread is     *)
(* asked to stop and waited for five seconds at most.                      *)
(***************************************************************************)
EvtDriverUnload ==
    /\ MayUnload /\ At("unload", "loaded")
    /\ Goto("unload", "destroying")
    /\ UNCHANGED <<adapterVars, monitorVars, departing, cooldown, requestEvents,
                   active, stop, attempt, victim, failures, requestVars>>

SignalStop ==
    /\ At("unload", "stopping")
    /\ stop' = TRUE
    /\ Goto("unload", "joining")
    /\ UNCHANGED <<adapterVars, monitorVars, departing, cooldown, requestEvents,
                   active, attempt, victim, failures, requestVars>>

\* The control thread has ended, or it is still in a retry loop after the five
\* seconds: the events are closed in any case.
CloseEvents ==
    /\ At("unload", "joining")
    /\ ~At("control", "waiting")
    /\ Goto("unload", "unloaded")
    /\ create' = FALSE /\ destroy' = FALSE /\ active' = FALSE /\ stop' = FALSE
    /\ UNCHANGED <<adapterVars, monitorVars, departing, cooldown, attempt,
                   victim, failures, requestVars>>

Control == \/ ControlStops \/ ControlTakesCreate \/ ControlTakesDestroy
           \/ \E ok \in BOOLEAN : ControlCreates(ok)

Destroys(t) == ClaimMonitor(t) \/ Depart(t) \/ Settle(t)

Unload == EvtDriverUnload \/ SignalStop \/ CloseEvents

Adapter == EvtDeviceD0Entry \/ D0EntryReturns \/ EvtIddAdapterInitFinished

Programs == \/ \E what \in {"create", "destroy"} : TrayAsks(what) \/ HostSignals(what)
            \/ TraySignals

Next == \/ Programs \/ Tick
        \/ Adapter \/ Control \/ Unload
        \/ \E t \in Threads : Destroys(t)

Spec == Init /\ [][Next]_vars

\* The threads of the driver run, the adapter is powered up, and the tray gets
\* from one call to the next.
FairSpec == /\ Spec
            /\ WF_vars(TraySignals)
            /\ WF_vars(Control \/ Destroys("control"))
            /\ WF_vars(Adapter)
            /\ WF_vars(SignalStop \/ CloseEvents \/ Destroys("unload"))
-----------------------------------------------------------------------------
(***************************************************************************)
(* Properties.                                                             *)
(***************************************************************************)
Loaded == At("unload", "loaded")

\* Type invariant of the driver's state, the events and the two threads.
TypeOK ==
    /\ power \in {"off", "initialising", "on"}
    /\ adapter \in BOOLEAN /\ finished \in BOOLEAN
    /\ monitor \in Nat /\ made \in Nat /\ arrived \subseteq 1..made
    /\ departing \in BOOLEAN /\ cooldown \in 0..Cooldown
    /\ active \in BOOLEAN /\ create \in BOOLEAN /\ destroy \in BOOLEAN
    /\ stop \in BOOLEAN
    /\ pc \in [Threads -> {"waiting", "creating", "destroying", "departing",
                           "settling", "stopped", "loaded", "stopping",
                           "joining", "unloaded"}]
    /\ attempt \in Nat /\ victim \in [Threads -> Nat]
    /\ failures \in 0..MaxFailures /\ requests \in 0..MaxRequests
    /\ asking \in {"none", "create", "destroy"}
    /\ wanted \in {"none", "create", "destroy"} /\ overtaken \in BOOLEAN

\* The adapter is announced with MaxMonitorsSupported = 1: whatever the events,
\* the adapter callback and the unload routine do at the same time, two monitors
\* are never present together, also while one of them is departing.
OneMonitor == \A m, n \in arrived : m = n

\* No monitor is left behind: one that has arrived is in g_state.monitor, where
\* the next destroy request finds it, or a thread is about to remove it.
NoMonitorLost ==
    \A m \in arrived :
        \/ m = monitor
        \/ \E t \in Threads : m = victim[t]

NotWanted == ~active /\ ~destroy /\ asking # "destroy"

\* "The virtual display should not be present before Start": when the control
\* thread is idle, no monitor is wanted and no request to destroy it is on its
\* way, there is none - however the adapter callback and the tray's calls
\* interleaved with the last destroy request - unless IddCx refused to remove
\* it as often as the driver tries, or the driver is being unloaded.
GoneWhenNotActive ==
    At("control", "waiting") /\ Loaded /\ NotWanted /\ failures < DestroyAttempts
        => arrived = {}

\* "Stop removes the virtual display": when the latest request is to destroy
\* the monitor, it is gone some time later.
DestroyServed ==
    wanted = "destroy" /\ Loaded ~>
        arrived = {} \/ wanted = "create" \/ ~Loaded \/ failures >= DestroyAttempts

\* "Start creates the virtual display": when the latest request is to create
\* the monitor and no older request to destroy it is pending, there is one some
\* time later, though the adapter may not be ready or the last monitor have
\* departed a moment ago.  (Unless a call of IddCx fails: the adapter callback
\* tries only once.)
CreateServed ==
    wanted = "create" /\ ~overtaken /\ Loaded ~>
        monitor # 0 \/ wanted = "destroy" \/ ~Loaded \/ failures > 0

Doing == CASE pc["control"] = "creating" -> "create"
           [] pc["control"] \in {"destroying", "departing", "settling"} -> "destroy"
           [] OTHER -> "nothing"

Display == INSTANCE VirtualDisplay WITH doing <- Doing, ready <- finished,
                                        present <- arrived # {}

\* The driver is loaded, and IddCx has not refused a departure as often as the
\* driver tries one.
InService == Loaded /\ failures < DestroyAttempts

\* Seen from the tray and the host, the control thread, the adapter callback and
\* the two-phase departure are one display that serves one request at a time, for
\* as long as the driver is in service.
ImplementsDisplay ==
    /\ Display!DisplayInit
    /\ [][InService' => Display!DisplayNext]_Display!displayVars

=============================================================================
