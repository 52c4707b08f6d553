------------------------------ MODULE HostTray ------------------------------
(***************************************************************************)
(* A session seen from the Windows tray (tray_app.cpp): the tray process,  *)
(* the host process it starts (host_app.cpp), the Linux client it calls    *)
(* and the virtual display of the driver, which VirtualDisplay describes.  *)
(*                                                                         *)
(* The tray is one thread.  Its window procedure handles menu commands,    *)
(* the two-second timer and a message posted by a waiting thread when a    *)
(* host process has ended; it blocks while it starts or stops a host.      *)
(* Generations tell the exit of an old host from that of the present one.  *)
(*                                                                         *)
(* Time is not counted.  What its lengths imply is in the guards: 1.2 s    *)
(* after CreateProcess the tray goes on, before the host has looked for    *)
(* the display for 5 s or for a client for 10 s; the driver is idle again  *)
(* before the 8 s until a recovery attempt are over.  With every start it  *)
(* is open whether the display is there within the 1.2 s, so that the host *)
(* listens when the tray goes on and calls the client.                     *)
(***************************************************************************)
EXTENDS VirtualDisplay, Naturals, FiniteSets

CONSTANTS
    Generations,         \* host generations (a counter in the code)
    MaxRecoveryAttempts, \* kMaxRecoveryAttempts (120)
    MaxStarts,           \* bound: start commands
    MaxRestarts,         \* bound: quality and diagnostics changes
    MaxFaults            \* bound: crashes, losses and failures

ASSUME TrayAssumption ==
    /\ IsFiniteSet(Generations) /\ 0 \notin Generations
    /\ MaxRecoveryAttempts \in Nat /\ MaxStarts \in Nat
    /\ MaxRestarts \in Nat /\ MaxFaults \in Nat

VARIABLES
    tray,    \* the globals of tray_app.cpp, see TypeOK
    host,    \* the host process: its phase, generation, the stop event, whether
             \* a thread of the tray waits for its end; slow: it looks for the
             \* display for more than 1.2 s
    exited,  \* generations whose exit message is in the tray's queue
    client,  \* "away", "idle", "calling" (connecting) or "session"
    used,    \* starts, restarts and faults so far
    wish,    \* history: what the user wants, "none", "display" or "gone"
    session, \* history: a client has connected since the last start command
    abandoned \* history: a recovery has given up while a host ran

programVars == <<tray, host, exited, client>>
historyVars == <<used, wish, session, abandoned>>
vars == <<displayVars, programVars, historyVars>>

NoHost == [phase |-> "none", gen |-> 0, stop |-> FALSE, watched |-> FALSE,
           slow |-> FALSE]

\* A display may be left from an earlier tray: WM_CREATE asks to destroy it.
Init ==
    /\ create = FALSE /\ destroy = TRUE /\ active = FALSE
    /\ doing = "nothing" /\ ready \in BOOLEAN /\ present \in BOOLEAN
    /\ tray = [at |-> "idle", why |-> "start", installed |-> FALSE,
               armed |-> FALSE, mayArm |-> FALSE, pending |-> FALSE,
               wasOffline |-> FALSE, waiting |-> FALSE, attempts |-> 0,
               held |-> FALSE, gen |-> 0, expected |-> 0]
    /\ host = NoHost /\ exited = {} /\ client \in {"away", "idle"}
    /\ used = [starts |-> 0, restarts |-> 0, faults |-> 0]
    /\ wish = "none" /\ session = FALSE /\ abandoned = FALSE

Use(what, bound) ==
    /\ used[what] < bound
    /\ used' = [used EXCEPT ![what] = @ + 1]

Fault == Use("faults", MaxFaults)

(***************************************************************************)
(* The driver (VirtualDisplay) and the Linux client.                       *)
(***************************************************************************)
Driver ==
    /\ BecomeReady \/ (Serve /\ ~(CreateEnds /\ ~present))
    /\ UNCHANGED <<programVars, historyVars>>

DriverFails ==
    /\ CreateEnds /\ ~present /\ Fault
    /\ UNCHANGED <<programVars, wish, session, abandoned>>

\* The client process connects once; it is the tray that calls it again.
ClientConnects ==
    /\ client = "calling" /\ host.phase = "listening"
    /\ client' = "session" /\ session' = TRUE
    /\ host' = [host EXCEPT !.phase = "serving"]
    /\ UNCHANGED <<displayVars, tray, exited, used, wish, abandoned>>

ClientEnds ==
    /\ \/ client = "calling" /\ host.phase # "listening"
       \/ client = "session" /\ host.phase \notin {"serving", "recovering"}
    /\ client' = "idle"
    /\ UNCHANGED <<displayVars, tray, host, exited, historyVars>>

ClientLeaves ==
    /\ client # "away" /\ Fault
    /\ client' = "away"
    /\ UNCHANGED <<displayVars, tray, host, exited, wish, session, abandoned>>

ClientReturns ==
    /\ client = "away"
    /\ client' = "idle"
    /\ UNCHANGED <<displayVars, tray, host, exited, historyVars>>

(***************************************************************************)
(* The host process: runServeMjpegCaptureMode.                             *)
(***************************************************************************)
\* The process has ended: the waiting thread posts its generation.
End == /\ host' = NoHost
       /\ exited' = exited \cup (IF host.watched THEN {host.gen} ELSE {})

\* DriverMonitorLease::requestCreate
HostRequests ==
    /\ host.phase = "created"
    /\ create' = TRUE
    /\ host' = [host EXCEPT !.phase = "looking"]
    /\ UNCHANGED <<destroy, active, ready, doing, present, tray, exited, client,
                   historyVars>>

HostFinds ==
    /\ host.phase = "looking" /\ present
    /\ host' = [host EXCEPT !.phase = "listening", !.slow = FALSE]
    /\ UNCHANGED <<displayVars, tray, exited, client, historyVars>>

NoDisplay == ~present /\ (host.slow \/ ~(create \/ doing = "create"))

\* Why the host returns from its function: no display within 5 s; no client
\* within 10 s; the stop event, which only the capture loop looks at; the
\* client's connection is closed or its acknowledgements stopped.
Returns ==
    \/ host.phase = "looking" /\ NoDisplay /\ tray.at # "starting"
    \/ host.phase = "listening" /\ client # "calling" /\ tray.at # "starting"
    \/ host.phase \in {"serving", "recovering"} /\ host.stop
    \/ host.phase = "serving" /\ client # "session"

\* The lease asks to destroy the display on every way out; the argument
\* keep-monitor-on-exit is read and not used.
Leave == /\ destroy' = TRUE
         /\ host' = [host EXCEPT !.phase = "leaving", !.slow = FALSE]
         /\ UNCHANGED <<create, active, ready, doing, present, tray, exited, client>>

HostReturns == Returns /\ Leave /\ UNCHANGED historyVars

\* A handshake, the encoder or a socket fails, or the display does not come back.
HostFails ==
    /\ host.phase \in {"looking", "listening", "serving", "recovering"}
    /\ Fault /\ Leave
    /\ UNCHANGED <<wish, session, abandoned>>

\* A capture fails: recoverCapture asks for the display, every 250 ms.
HostLosesCapture ==
    /\ host.phase = "serving"
    /\ IF present THEN Fault ELSE UNCHANGED used
    /\ host' = [host EXCEPT !.phase = "recovering"]
    /\ create' = (create \/ ~host.stop)
    /\ UNCHANGED <<destroy, active, ready, doing, present, tray, exited, client, wish,
                   session, abandoned>>

HostAsksAgain ==
    /\ host.phase = "recovering" /\ ~host.stop /\ ~create /\ ~present
    /\ create' = TRUE
    /\ UNCHANGED <<destroy, active, ready, doing, present, programVars, historyVars>>

HostRecovers ==
    /\ host.phase = "recovering" /\ present
    /\ host' = [host EXCEPT !.phase = "serving"]
    /\ UNCHANGED <<displayVars, tray, exited, client, historyVars>>

HostEnds ==
    /\ host.phase = "leaving" /\ End
    /\ UNCHANGED <<displayVars, tray, client, historyVars>>

HostCrashes ==
    /\ host.phase # "none" /\ Fault /\ End
    /\ UNCHANGED <<displayVars, tray, client, wish, session, abandoned>>

(***************************************************************************)
(* Parts of the tray's handlers.                                           *)
(***************************************************************************)
Alive(t) == t.held /\ host.phase # "none"               \* hostStillRunning
Checked(t) == [t EXCEPT !.held = Alive(t)]              \* its effect

\* createVirtualMonitor and requestDriverMonitorDestroy: `active' and the event.
\* (MonitorDriver takes the two calls apart.)
RequestCreate ==
    /\ active' = TRUE /\ create' = TRUE
    /\ UNCHANGED <<destroy, ready, doing, present>>

RequestDestroy ==
    /\ active' = FALSE /\ destroy' = TRUE
    /\ UNCHANGED <<create, ready, doing, present>>

\* removeVirtualDisplayIfInstalled
Remove(t) ==
    IF t.installed
    THEN tray' = [t EXCEPT !.installed = FALSE] /\ RequestDestroy
    ELSE tray' = t /\ UNCHANGED displayVars

\* resetRecoveryState
Reset(t) == [t EXCEPT !.pending = FALSE, !.wasOffline = FALSE, !.mayArm = FALSE,
                      !.waiting = FALSE, !.attempts = 0]

\* beginRecovery, by a tray that is armed.
BeginRecovery(t) ==
    IF t.pending THEN t
    ELSE [t EXCEPT !.pending = TRUE, !.wasOffline = TRUE, !.waiting = TRUE,
                   !.attempts = 0]

\* The host has ended and nobody asked it to.  (The slip: it is left to the host
\* to remove the display.)
EndedByHost(t) ==
    /\ tray' = IF t.armed THEN BeginRecovery(t) ELSE [t EXCEPT !.installed = FALSE]
    /\ UNCHANGED displayVars
Ended(t) == IF t.armed THEN tray' = BeginRecovery(t) /\ UNCHANGED displayVars
                       ELSE Remove(t)

\* markExpectedHostExit
Expecting(t) == [t EXCEPT !.expected = IF t.held THEN t.gen ELSE 0]

\* notifyClientToConnect: the client's process is replaced by one that connects,
\* unless a recovery command finds one that was started less than 20 s ago.
Call(recover) ==
    client' \in IF client = "away" THEN {"away"}
                ELSE {"calling"} \cup
                     (IF recover /\ client = "session" THEN {"session"} ELSE {})

\* startHost returns TRUE, the host runs; what the caller does next.  (The slip:
\* a client whose session is recovered is not called.)
StartedQuietly(t, why) ==
    /\ tray' = [t EXCEPT !.at = IF why = "restart" THEN "recalling" ELSE "idle",
                         !.pending = @ /\ why # "recover",
                         !.wasOffline = @ /\ why # "recover"]
    /\ IF why = "start" THEN Call(FALSE) ELSE UNCHANGED client
Started(t, why) ==
    IF why = "restart"
    THEN tray' = [t EXCEPT !.at = "recalling"] /\ UNCHANGED client
    ELSE /\ tray' = [t EXCEPT !.at = "idle", !.pending = @ /\ why # "recover",
                              !.wasOffline = @ /\ why # "recover"]
         /\ Call(why = "recover")

\* A generation no message and no variable holds.
Unused(t) == Generations \ (exited \cup {t.gen, t.expected, host.gen})
Fresh(t) == CHOOSE g \in Unused(t) : TRUE

\* A process that has just been created.
Created(g) == {[NoHost EXCEPT !.phase = "created", !.gen = g, !.slow = s] : s \in BOOLEAN}

\* startHost, until it waits for 1.2 s.
StartHost(t, why) ==
    IF Alive(t) THEN Started(t, why) /\ UNCHANGED host
    ELSE /\ Unused(t) # {}
         /\ tray' = [t EXCEPT !.at = "starting", !.why = why, !.held = TRUE,
                              !.gen = Fresh(t)]
         /\ host' \in Created(Fresh(t)) /\ UNCHANGED client

\* What the caller does when stopHost returns.  (The slip: Stop leaves it to the
\* host to remove the display.)
StoppedByHost(t, why) ==
    IF why = "restart" THEN StartHost(t, why) /\ UNCHANGED displayVars
    ELSE /\ tray' = [t EXCEPT !.at = IF why = "exit" THEN "down" ELSE "idle",
                              !.installed = FALSE]
         /\ UNCHANGED <<displayVars, host, client>>
Stopped(t, why) ==
    IF why = "restart" THEN StartHost(t, why) /\ UNCHANGED displayVars
    ELSE /\ Remove([t EXCEPT !.at = IF why = "exit" THEN "down" ELSE "idle"])
         /\ UNCHANGED <<host, client>>

\* stopHost, until it waits for 5 s.
StopHost(t, why) ==
    IF t.held
    THEN /\ tray' = [t EXCEPT !.at = "stopping", !.why = why]
         /\ host' = [host EXCEPT !.stop = host.phase # "none"]
         /\ UNCHANGED <<displayVars, client>>
    ELSE Stopped(t, why)

(***************************************************************************)
(* The tray's commands.                                                    *)
(***************************************************************************)
UserStart ==
    /\ tray.at = "idle" /\ Use("starts", MaxStarts)
    /\ StartHost([Reset(tray) EXCEPT !.armed = FALSE, !.mayArm = TRUE,
                                     !.installed = TRUE], "start")
    /\ RequestCreate
    /\ wish' = "display" /\ session' = FALSE /\ abandoned' = FALSE
    /\ UNCHANGED exited

\* stopExtendedDisplay, and WM_DESTROY after Exit.
UserStops(why) ==
    /\ tray.at = "idle" /\ why \in {"stop", "exit"}
    /\ StopHost(Expecting([Reset(tray) EXCEPT !.armed = FALSE]), why)
    /\ wish' = "gone"
    /\ UNCHANGED <<exited, used, session, abandoned>>

\* setJpegQuality and setDiagnosticsEnabled while the display is in use.
UserRestart ==
    /\ tray.at = "idle" /\ Use("restarts", MaxRestarts)
    /\ Alive(tray) \/ tray.installed
    /\ Unused(tray) # {}
    /\ StopHost([Expecting(Checked(tray)) EXCEPT !.gen = Fresh(tray)], "restart")
    /\ UNCHANGED <<exited, wish, session, abandoned>>

\* The 1.2 s are over, whether the host listens or not: the client is called.
StartCompletes ==
    /\ tray.at = "starting" /\ host.phase \notin {"none", "created"}
    /\ host.slow \/ host.phase # "looking" \/ NoDisplay
    /\ Started(tray, tray.why)
    /\ host' = [host EXCEPT !.watched = TRUE]
    /\ UNCHANGED <<displayVars, exited, historyVars>>

\* The host ended while the tray waited for it to start.
StartFails ==
    /\ tray.at = "starting" /\ host.phase = "none"
    /\ LET t == [tray EXCEPT !.at = "idle", !.held = FALSE]
       IN  IF tray.why = "start" THEN Remove([t EXCEPT !.armed = FALSE])
                                 ELSE tray' = t /\ UNCHANGED displayVars
    /\ UNCHANGED <<host, exited, client, historyVars>>

StopCompletes ==
    /\ tray.at = "stopping" /\ host.phase = "none"
    /\ Stopped([tray EXCEPT !.held = FALSE], tray.why)
    /\ UNCHANGED <<exited, historyVars>>

\* TerminateProcess, for a host that has not looked at the stop event for 5 s.
StopTerminates ==
    /\ tray.at = "stopping"
    /\ host.phase \in {"looking", "listening", "recovering"} /\ End
    /\ UNCHANGED <<displayVars, tray, client, historyVars>>

\* notifyClientAfterHotRestart: a call when the host listens, or after 5 s; a
\* second one if the client has not connected 6 s later.
Recall ==
    /\ tray.at = "recalling"
    /\ host.slow \/ host.phase \notin {"created", "looking"} \/ NoDisplay
    /\ tray' = [Checked(tray) EXCEPT !.at = "checking"] /\ Call(FALSE)
    /\ UNCHANGED <<displayVars, host, exited, historyVars>>

RecallAgain ==
    /\ tray.at = "checking" /\ client # "calling"
    /\ tray' = [Checked(tray) EXCEPT !.at = "idle"]
    /\ IF client = "session" /\ Alive(tray) THEN UNCHANGED client ELSE Call(FALSE)
    /\ UNCHANGED <<displayVars, host, exited, historyVars>>

(***************************************************************************)
(* The timer.                                                              *)
(***************************************************************************)
Due(t) == t.pending /\ ~t.waiting

\* GetTickCount has reached the time of the next attempt.
DelayElapses ==
    /\ tray.at = "idle" /\ tray.waiting
    /\ doing = "nothing" /\ ~create /\ ~destroy
    /\ tray' = [tray EXCEPT !.waiting = FALSE]
    /\ UNCHANGED <<displayVars, host, exited, client, historyVars>>

\* A live host: 15 s after the start command recovery is armed, and a client
\* that has been offline is called when it is back.
TimerWatchesClient ==
    /\ tray.at = "idle" /\ Alive(tray) /\ ~tray.pending
    /\ tray.armed \/ tray.mayArm
    /\ LET online == client # "away"
           wasOffline == IF tray.armed THEN tray.wasOffline ELSE ~online
       IN  /\ tray' = [tray EXCEPT !.armed = TRUE, !.wasOffline = ~online]
           /\ IF online /\ wasOffline THEN Call(TRUE) ELSE UNCHANGED client
    /\ UNCHANGED <<displayVars, host, exited, historyVars>>

\* A host that has ended, seen before its message (and nothing more happens
\* when recovery is pending already).
TimerNotices ==
    /\ tray.at = "idle" /\ tray.installed /\ ~Alive(tray) /\ ~tray.pending
    /\ IF tray.expected # 0 /\ tray.expected = tray.gen
       THEN tray' = [Checked(tray) EXCEPT !.expected = 0] /\ UNCHANGED displayVars
       ELSE Ended(Checked(tray))
    /\ UNCHANGED <<host, exited, client, historyVars>>

\* (The slip: one attempt too many.)
AttemptsLeftOneMore(t) == t.attempts <= MaxRecoveryAttempts
AttemptsLeft(t) == t.attempts < MaxRecoveryAttempts

TimerGivesUp ==
    /\ tray.at = "idle" /\ tray.pending /\ tray.armed
    /\ tray.installed \/ Alive(tray)
    /\ ~AttemptsLeft(tray)
    /\ Remove([Reset(Checked(tray)) EXCEPT !.armed = FALSE])
    /\ abandoned' = (abandoned \/ host.phase # "none")
    /\ UNCHANGED <<host, exited, client, used, wish, session>>

TimerRetries ==
    /\ tray.at = "idle" /\ Due(tray) /\ tray.armed
    /\ tray.installed \/ Alive(tray)
    /\ AttemptsLeft(tray)
    /\ StartHost([Checked(tray) EXCEPT !.attempts = @ + 1, !.waiting = TRUE,
                                       !.installed = TRUE], "recover")
    /\ RequestCreate
    /\ UNCHANGED <<exited, historyVars>>

(***************************************************************************)
(* The message posted when the host process of generation g has ended.     *)
(***************************************************************************)
\* Whether it is about an older host.  (The slip: any host is meant.)
StaleNever(t, g) == FALSE
Stale(t, g) == g # t.gen

HostExitedMessage(g) ==
    /\ tray.at = "idle" /\ g \in exited
    /\ exited' = exited \ {g}
    /\ CASE g = tray.expected ->
              tray' = [Checked(tray) EXCEPT !.expected = 0] /\ UNCHANGED displayVars
         [] g # tray.expected /\ Stale(tray, g) ->
              UNCHANGED <<tray, displayVars>>
         [] OTHER ->
              IF tray.installed THEN Ended(Checked(tray))
              ELSE tray' = Checked(tray) /\ RequestDestroy
    /\ UNCHANGED <<host, client, historyVars>>

Client == ClientConnects \/ ClientEnds

Host == HostRequests \/ HostFinds \/ HostReturns \/ HostAsksAgain \/ HostRecovers
        \/ HostEnds

User == UserStart \/ UserStops("stop") \/ UserStops("exit") \/ UserRestart

Blocked == \/ StartCompletes \/ StartFails \/ StopCompletes \/ StopTerminates
           \/ Recall \/ RecallAgain

Timer == \/ TimerWatchesClient \/ TimerNotices \/ TimerGivesUp \/ TimerRetries

Message == \E g \in Generations : HostExitedMessage(g)

Faults == DriverFails \/ ClientLeaves \/ HostFails \/ HostCrashes

Next == \/ Driver \/ Client \/ ClientReturns \/ Host \/ HostLosesCapture
        \/ User \/ Blocked \/ DelayElapses \/ Timer \/ Message \/ Faults

Spec == Init /\ [][Next]_vars

\* The processes and their timers run; what is tried again and again is not
\* prevented for ever by the order of steps.
FairSpec ==
    /\ Spec
    /\ WF_vars(Driver) /\ WF_vars(Client) /\ WF_vars(Host) /\ WF_vars(Blocked)
    /\ WF_vars(Timer) /\ WF_vars(Message) /\ WF_vars(DelayElapses)

\* A recovery attempt that finds the display within the 1.2 s.
QuickRetry == TimerRetries /\ ~host'.slow

\* What a reconnection depends on outside this program: the client comes back,
\* reaches a host that goes on listening, and the display is not slow every time
\* (a client that is called too early fails, and nothing calls it again before
\* the next attempt).
ReturningSpec ==
    /\ FairSpec
    /\ WF_vars(ClientReturns) /\ SF_vars(ClientConnects) /\ SF_vars(QuickRetry)
-----------------------------------------------------------------------------
(***************************************************************************)
(* Properties.                                                             *)
(***************************************************************************)
\* Type invariant of the tray's globals, the host process and the client.
TypeOK ==
    /\ tray \in [at : {"idle", "starting", "stopping", "recalling", "checking",
                       "down"},
                 why : {"start", "recover", "restart", "stop", "exit"},
                 installed : BOOLEAN, armed : BOOLEAN, mayArm : BOOLEAN,
                 pending : BOOLEAN, wasOffline : BOOLEAN, waiting : BOOLEAN,
                 attempts : 0..MaxRecoveryAttempts, held : BOOLEAN,
                 gen : Generations \cup {0}, expected : Generations \cup {0}]
    /\ host \in [phase : {"none", "created", "looking", "listening", "serving",
                          "recovering", "leaving"},
                 gen : Generations \cup {0}, stop : BOOLEAN, watched : BOOLEAN,
                 slow : BOOLEAN]
    /\ exited \subseteq Generations
    /\ client \in {"away", "idle", "calling", "session"}
    /\ create \in BOOLEAN /\ destroy \in BOOLEAN /\ active \in BOOLEAN
    /\ ready \in BOOLEAN
    /\ doing \in {"nothing", "create", "destroy"} /\ present \in BOOLEAN
    /\ wish \in {"none", "display", "gone"} /\ session \in BOOLEAN
    /\ abandoned \in BOOLEAN

\* Nothing is left behind: when no host runs and the driver has nothing to do,
\* there is a display only if the tray knows of it - however the host ended, and
\* whatever the tray was doing at the time.
\* (A recovery that gives up does not look whether a host runs: what that host
\* leaves is not the tray's any more.)
NoOrphanDisplay ==
    ~abandoned /\ present /\ host.phase = "none"
    /\ ~create /\ ~destroy /\ doing = "nothing"
        => tray.installed

\* The tray never takes the display away from a host that runs: exit messages of
\* old hosts, timers and recovery attempts do not mistake the present host for
\* one that has ended.  Only a recovery that has used all its attempts does not
\* look whether a host runs.
HostKeepsDisplay ==
    [][tray.installed /\ ~tray'.installed =>
         host.phase = "none" \/ (tray.pending /\ ~AttemptsLeft(tray))]_vars

Gone == ~present /\ ~create /\ doing # "create" /\ host.phase = "none"

\* "Manual `Stop extended display' removes the virtual display": after Stop or
\* Exit, the host has ended some time later, the display is gone and nobody has
\* asked for it - unless a recovery has given up under a host that ran.
StopRemoves == wish = "gone" /\ ~abandoned ~> Gone \/ wish = "display"

\* "The tray starts a recovery loop": after a host has ended in a session that
\* is armed, a client that comes back whenever it left is served again, unless
\* the tray has given up or the user stopped it.  Calls that come before the host
\* listens, and so are lost, may happen any number of times, but not for ever: a
\* display that always takes longer than 1.2 s is never reconnected.
RecoveryReconnects == tray.pending ~> host.phase = "serving" \/ ~tray.armed

\* "If no Linux client connects during an initial manual start, the tray app
\* removes the virtual display automatically."
InitialStartRemoves ==
    tray.installed /\ ~session ~> ~tray.installed \/ session
=============================================================================
