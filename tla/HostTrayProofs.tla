--------------------------- MODULE HostTrayProofs ---------------------------
(***************************************************************************)
(* Proofs about a session seen from the Windows tray, for any number of    *)
(* generations, starts, restarts, faults and recovery attempts.            *)
(*                                                                         *)
(* The argument: a host that runs is the one the tray holds, and no exit   *)
(* message is about it (HostOwned).  So whatever makes the tray believe    *)
(* that its host has ended is true, and it gives the display up only when  *)
(* no host runs; from then on the display is going away (DisplayOwned).    *)
(* The one exception is a recovery that gives up, which does not look.     *)
(***************************************************************************)
EXTENDS HostTray, TLAPS

(***************************************************************************)
(* The types, and what the parts of the tray's handlers change.            *)
(***************************************************************************)
Whys == {"start", "recover", "restart", "stop", "exit"}

Trays == [at : {"idle", "starting", "stopping", "recalling", "checking", "down"},
          why : Whys,
          installed : BOOLEAN, armed : BOOLEAN, mayArm : BOOLEAN,
          pending : BOOLEAN, wasOffline : BOOLEAN, waiting : BOOLEAN,
          attempts : 0..MaxRecoveryAttempts, held : BOOLEAN,
          gen : Generations \cup {0}, expected : Generations \cup {0}]

Hosts == [phase : {"none", "created", "looking", "listening", "serving",
                   "recovering", "leaving"},
          gen : Generations \cup {0}, stop : BOOLEAN, watched : BOOLEAN,
          slow : BOOLEAN]

DisplayTypes ==
    /\ create \in BOOLEAN /\ destroy \in BOOLEAN /\ active \in BOOLEAN
    /\ ready \in BOOLEAN
    /\ doing \in {"nothing", "create", "destroy"} /\ present \in BOOLEAN

HistoryTypes ==
    wish \in {"none", "display", "gone"} /\ session \in BOOLEAN /\ abandoned \in BOOLEAN

Clients == {"away", "idle", "calling", "session"}

Types == /\ tray \in Trays /\ host \in Hosts /\ exited \subseteq Generations
         /\ client \in Clients /\ DisplayTypes /\ HistoryTypes

\* Whether two values of the tray's globals agree on the host and the display.
SameHold(t, s) == t.installed = s.installed /\ t.held = s.held /\ t.gen = s.gen

LEMMA ResetKeeps ==
    ASSUME NEW t \in Trays
    PROVE  Reset(t) \in Trays /\ SameHold(Reset(t), t) /\ Reset(t).at = t.at
<1>1. 0 \in 0..MaxRecoveryAttempts
  BY TrayAssumption
<1> QED BY <1>1 DEF Reset, Trays, SameHold

LEMMA CheckedKeeps ==
    ASSUME NEW t \in Trays
    PROVE  /\ Checked(t) \in Trays /\ Checked(t).at = t.at
           /\ Checked(t).installed = t.installed /\ Checked(t).gen = t.gen
           /\ Checked(t).held = Alive(t)
           /\ (host.phase = "none" \/ t.held) => (Checked(t).held <=> host.phase # "none")
<1>1. Alive(t) \in BOOLEAN
  BY DEF Alive
<1>2. Checked(t) = [t EXCEPT !.held = Alive(t)]
  BY DEF Checked
<1>3. Checked(t) \in Trays
  BY <1>1, <1>2 DEF Trays
<1>4. Alive(t) <=> t.held /\ host.phase # "none"
  BY DEF Alive
<1> QED BY <1>2, <1>3, <1>4 DEF Trays

LEMMA BeginRecoveryKeeps ==
    ASSUME NEW t \in Trays
    PROVE  /\ BeginRecovery(t) \in Trays /\ SameHold(BeginRecovery(t), t)
           /\ BeginRecovery(t).at = t.at
<1>1. 0 \in 0..MaxRecoveryAttempts
  BY TrayAssumption
<1> QED BY <1>1 DEF BeginRecovery, Trays, SameHold

LEMMA ExpectingKeeps ==
    ASSUME NEW t \in Trays
    PROVE  Expecting(t) \in Trays /\ SameHold(Expecting(t), t) /\ Expecting(t).at = t.at
BY DEF Expecting, Trays, SameHold

LEMMA CallKeeps ==
    ASSUME NEW recover, client \in Clients, Call(recover)
    PROVE  client' \in Clients
BY DEF Call, Clients

(***************************************************************************)
(* The invariant.                                                          *)
(***************************************************************************)
\* The display goes away: the driver is asked to destroy it, or it is gone or going and
\* nobody wants it.
GoesAway ==
    \/ destroy = TRUE
    \/ /\ create = FALSE /\ active = FALSE /\ doing # "create"
       /\ present = TRUE => doing = "destroy"

Runs == host.phase # "none"

\* The host that runs is the one the tray holds, and no message says it has ended.
HostOwned ==
    /\ ~Runs => host = NoHost
    /\ Runs => /\ tray.held = TRUE /\ host.gen \in Generations /\ host.gen \notin exited
               /\ tray.at # "stopping" => host.gen = tray.gen

\* A display the tray does not know of goes away, and no host uses it.
DisplayOwned ==
    abandoned = FALSE /\ tray.installed = FALSE => ~Runs /\ GoesAway

\* A restart, while the old host is waited for, still knows of the display.
RestartOwned ==
    abandoned = FALSE /\ tray.at = "stopping" /\ tray.why = "restart" =>
        tray.installed = TRUE

TrayInv == Types /\ HostOwned /\ DisplayOwned /\ RestartOwned

\* What HostKeepsDisplay says of a step.
Kept ==
    tray.installed /\ ~tray'.installed =>
        host.phase = "none" \/ (tray.pending /\ ~AttemptsLeft(tray))

LEMMA TrayInit == Init => TrayInv
<1> SUFFICES ASSUME Init PROVE TrayInv
  OBVIOUS
<1>1. tray \in Trays
  BY TrayAssumption DEF Init, Trays, Whys
<1>2. host \in Hosts
  BY DEF Init, Hosts, NoHost
<1>3. DisplayTypes /\ HistoryTypes /\ client \in Clients /\ exited \subseteq Generations
  BY DEF Init, DisplayTypes, HistoryTypes, Clients
<1>4. HostOwned /\ DisplayOwned /\ RestartOwned
  BY DEF Init, HostOwned, DisplayOwned, RestartOwned, Runs, NoHost, GoesAway
<1> QED BY <1>1, <1>2, <1>3, <1>4 DEF TrayInv, Types

(***************************************************************************)
(* The driver and the client.                                              *)
(***************************************************************************)
\* A display that goes away goes on doing so, whatever the driver does.
LEMMA DriverKeepsGoing ==
    ASSUME DisplayTypes, BecomeReady \/ Serve
    PROVE  DisplayTypes' /\ (GoesAway => GoesAway')
BY DEF DisplayTypes, BecomeReady, Serve, TakeCreate, TakeDestroy, Appear, CreateEnds,
       Disappear, DestroyEnds, GoesAway

LEMMA DriverKeeps ==
    ASSUME TrayInv, Driver \/ DriverFails
    PROVE  TrayInv' /\ Kept
<1>1. /\ BecomeReady \/ Serve
      /\ UNCHANGED <<programVars, wish, session, abandoned>>
  BY DEF Driver, DriverFails, historyVars, Serve
<1>2. DisplayTypes' /\ (GoesAway => GoesAway')
  BY <1>1, DriverKeepsGoing DEF TrayInv, Types
<1>3. UNCHANGED <<tray, host, exited, client, wish, session, abandoned>>
  BY <1>1 DEF programVars
<1>4. Types'
  BY <1>2, <1>3 DEF TrayInv, Types, Trays, Hosts, Clients, HistoryTypes
<1>5. HostOwned' /\ DisplayOwned' /\ RestartOwned'
  BY <1>2, <1>3 DEF TrayInv, HostOwned, DisplayOwned, RestartOwned, Runs, NoHost
<1>6. Kept
  BY <1>3 DEF Kept
<1> QED BY <1>4, <1>5, <1>6 DEF TrayInv

LEMMA ClientKeeps ==
    ASSUME TrayInv, ClientConnects \/ ClientEnds \/ ClientLeaves \/ ClientReturns
    PROVE  TrayInv' /\ Kept
<1>1. /\ UNCHANGED <<displayVars, tray, exited, wish, abandoned>>
      /\ client' \in Clients /\ session' \in BOOLEAN
      /\ host' = host \/ (Runs /\ host' = [host EXCEPT !.phase = "serving"])
  BY DEF TrayInv, Types, HistoryTypes, ClientConnects, ClientEnds, ClientLeaves,
         ClientReturns, historyVars, Clients, Runs
<1>2. Types'
  BY <1>1 DEF TrayInv, Types, Trays, Hosts, DisplayTypes, displayVars, HistoryTypes
<1>3. HostOwned' /\ DisplayOwned' /\ RestartOwned'
  BY <1>1 DEF TrayInv, Types, Hosts, HostOwned, DisplayOwned, RestartOwned, Runs, NoHost,
              GoesAway, displayVars
<1>4. Kept
  BY <1>1 DEF Kept
<1> QED BY <1>2, <1>3, <1>4 DEF TrayInv

(***************************************************************************)
(* The host process.                                                       *)
(***************************************************************************)
\* A step of a host that goes on: it may ask for the display and to destroy it.
LEMMA HostGoesOn ==
    ASSUME TrayInv, Runs, UNCHANGED <<tray, exited, client, wish, session, abandoned>>,
           DisplayTypes', NEW h \in Hosts, host' = h, h.phase # "none", h.gen = host.gen
    PROVE  TrayInv' /\ Kept
<1>1. Types'
  BY DEF TrayInv, Types, Trays, HistoryTypes
<1>2. HostOwned'
  BY DEF TrayInv, HostOwned, Runs
<1>3. DisplayOwned' /\ RestartOwned'
  BY DEF TrayInv, DisplayOwned, RestartOwned, Runs
<1> QED BY <1>1, <1>2, <1>3 DEF TrayInv, Kept

\* A host that ends: when somebody waits for it, its message is posted.
LEMMA HostIsGone ==
    ASSUME TrayInv, Runs, End,
           UNCHANGED <<displayVars, tray, client, wish, session, abandoned>>
    PROVE  TrayInv' /\ Kept
<1>1. host' = NoHost /\ exited' \in {exited, exited \cup {host.gen}}
  BY DEF End
<1>2. Types'
  <2>1. host' \in Hosts
    BY <1>1 DEF NoHost, Hosts
  <2>2. exited' \subseteq Generations
    BY <1>1 DEF TrayInv, Types, HostOwned
  <2> QED BY <2>1, <2>2 DEF TrayInv, Types, Trays, DisplayTypes, displayVars, HistoryTypes
<1>3. HostOwned'
  BY <1>1 DEF HostOwned, Runs, NoHost
<1>4. DisplayOwned' /\ RestartOwned'
  BY <1>1 DEF TrayInv, DisplayOwned, RestartOwned, Runs
<1> QED BY <1>2, <1>3, <1>4 DEF TrayInv, Kept

LEMMA HostKeeps ==
    ASSUME TrayInv,
           HostRequests \/ HostFinds \/ HostReturns \/ HostFails \/ HostLosesCapture
               \/ HostAsksAgain \/ HostRecovers
    PROVE  TrayInv' /\ Kept
<1>1. Runs /\ UNCHANGED <<tray, exited, client, wish, session, abandoned>>
  BY DEF HostRequests, HostFinds, HostReturns, Returns, HostFails, HostLosesCapture,
         HostAsksAgain, HostRecovers, Leave, Runs, historyVars, programVars
<1>2. DisplayTypes'
  BY DEF TrayInv, Types, DisplayTypes, HostRequests, HostFinds, HostReturns, HostFails,
         HostLosesCapture, HostAsksAgain, HostRecovers, Leave, displayVars
<1>3. \/ host' = host
      \/ \E to \in {"looking", "listening", "leaving", "recovering", "serving"} :
            \/ host' = [host EXCEPT !.phase = to]
            \/ host' = [host EXCEPT !.phase = to, !.slow = FALSE]
  BY DEF HostRequests, HostFinds, HostReturns, HostFails, HostLosesCapture,
         HostAsksAgain, HostRecovers, Leave, programVars
<1>4. host' \in Hosts /\ host'.phase # "none" /\ host'.gen = host.gen
  BY <1>1, <1>3 DEF TrayInv, Types, Hosts, Runs
<1> QED BY <1>1, <1>2, <1>4, HostGoesOn

LEMMA HostEndKeeps ==
    ASSUME TrayInv, HostEnds \/ HostCrashes \/ StopTerminates
    PROVE  TrayInv' /\ Kept
<1>1. Runs /\ End /\ UNCHANGED <<displayVars, tray, client, wish, session, abandoned>>
  BY DEF HostEnds, HostCrashes, StopTerminates, Runs, historyVars
<1> QED BY <1>1, HostIsGone

(***************************************************************************)
(* The tray.                                                               *)
(***************************************************************************)
\* A handler that goes on with the host and the display it has, or with the display it
\* now asks for.
LEMMA TrayGoesOn ==
    ASSUME TrayInv, UNCHANGED host, exited' \subseteq exited, client' \in Clients,
           DisplayTypes', HistoryTypes',
           NEW t \in Trays, tray' = t, t.installed = FALSE => tray.installed = FALSE,
           Runs => t.held = TRUE,
           Runs /\ t.at # "stopping" => tray.at # "stopping" /\ t.gen = tray.gen,
           t.installed = FALSE /\ abandoned' = FALSE => abandoned = FALSE,
           t.installed = FALSE /\ GoesAway => GoesAway',
           t.at = "stopping" /\ t.why = "restart" /\ abandoned' = FALSE =>
               t.installed = TRUE
    PROVE  TrayInv' /\ Kept
<1>1. Types'
  BY DEF TrayInv, Types, Hosts
<1>2. HostOwned'
  BY DEF TrayInv, HostOwned, Runs, NoHost
<1>3. DisplayOwned' /\ RestartOwned'
  BY DEF TrayInv, DisplayOwned, RestartOwned, Runs, Types, Trays
<1>4. Kept
  BY DEF Kept, Trays
<1> QED BY <1>1, <1>2, <1>3, <1>4 DEF TrayInv

\* A handler that gives the display up when no host runs asks the driver to destroy it.
LEMMA TrayRemoves ==
    ASSUME TrayInv, ~Runs, UNCHANGED <<host, client, abandoned>>, HistoryTypes',
           exited' \subseteq exited, NEW t \in Trays, Remove(t),
           t.installed = tray.installed, t.at # "stopping"
    PROVE  TrayInv' /\ Kept
<1>1. /\ tray' = [t EXCEPT !.installed = FALSE] /\ tray' \in Trays
      /\ tray'.installed = FALSE /\ tray'.at = t.at
  <2>1. tray' = t \/ tray' = [t EXCEPT !.installed = FALSE]
    BY DEF Remove
  <2>2. tray' = t => t.installed = FALSE
    BY DEF Remove, Trays
  <2>3. tray' = [t EXCEPT !.installed = FALSE]
    BY <2>1, <2>2 DEF Trays
  <2> QED BY <2>3 DEF Trays
<1>2. /\ DisplayTypes'
      /\ destroy' = TRUE \/ (UNCHANGED displayVars /\ tray.installed = FALSE)
  BY DEF TrayInv, Types, Trays, DisplayTypes, Remove, RequestDestroy, displayVars
<1>3. Types'
  BY <1>1, <1>2 DEF TrayInv, Types, Hosts, HistoryTypes
<1>4. HostOwned'
  BY DEF TrayInv, HostOwned, Runs, NoHost
<1>5. DisplayOwned' /\ RestartOwned'
  BY <1>1, <1>2 DEF TrayInv, DisplayOwned, RestartOwned, Runs, GoesAway, displayVars
<1>6. Kept
  BY DEF Kept, Runs
<1> QED BY <1>3, <1>4, <1>5, <1>6 DEF TrayInv

\* startHost: a host that runs is left alone; otherwise one is started with a generation
\* that no message and no variable holds.
LEMMA StartHostKeeps ==
    ASSUME TrayInv, NEW t \in Trays, NEW why \in Whys, StartHost(t, why),
           exited' = exited, DisplayTypes', HistoryTypes',
           t.installed = TRUE \/ abandoned' = TRUE,
           Runs => t.held = TRUE /\ t.gen = tray.gen /\ tray.at # "stopping",
           tray.installed = TRUE => t.installed = TRUE
    PROVE  TrayInv' /\ Kept
<1>1. CASE Alive(t)
  <2>1. Started(t, why) /\ host' = host /\ Runs
    BY <1>1 DEF StartHost, Alive, Runs
  <2>2. /\ tray' \in Trays /\ tray'.installed = t.installed /\ tray'.held = t.held
        /\ tray'.gen = t.gen /\ tray'.at \in {"idle", "recalling"}
    <3>1. CASE why = "restart"
      BY <2>1, <3>1 DEF Started, Trays
    <3>2. CASE why # "restart"
      <4> DEFINE p == t.pending /\ why # "recover"  o == t.wasOffline /\ why # "recover"
      <4>1. p \in BOOLEAN /\ o \in BOOLEAN
        BY DEF Trays
      <4>2. tray' = [t EXCEPT !.at = "idle", !.pending = p, !.wasOffline = o]
        BY <2>1, <3>2 DEF Started
      <4> HIDE DEF p, o
      <4> QED BY <4>1, <4>2 DEF Trays
    <3> QED BY <3>1, <3>2
  <2>3. client' \in Clients
    BY <2>1, CallKeeps DEF Started, TrayInv, Types
  <2>4. Types'
    BY <2>1, <2>2, <2>3 DEF TrayInv, Types, Hosts
  <2>5. HostOwned'
    BY <2>1, <2>2 DEF TrayInv, HostOwned, Runs
  <2>6. DisplayOwned' /\ RestartOwned'
    BY <2>2 DEF DisplayOwned, RestartOwned, HistoryTypes
  <2>7. Kept
    BY <2>2 DEF Kept, TrayInv, Types, Trays
  <2> QED BY <2>4, <2>5, <2>6, <2>7 DEF TrayInv
<1>2. CASE ~Alive(t)
  <2>1. ~Runs
    BY <1>2 DEF Alive, Runs
  <2> DEFINE g == Fresh(t)
  <2>2. g \in Generations /\ g \notin exited
    <3>1. Unused(t) # {}
      BY <1>2 DEF StartHost
    <3>2. g \in Unused(t)
      BY <3>1 DEF Fresh
    <3> QED BY <3>2 DEF Unused
  <2>3. /\ tray' = [t EXCEPT !.at = "starting", !.why = why, !.held = TRUE, !.gen = g]
        /\ host' \in Created(g) /\ client' = client
    BY <1>2 DEF StartHost
  <2> HIDE DEF g
  <2>4. /\ tray' \in Trays /\ tray'.installed = t.installed /\ tray'.held = TRUE
        /\ tray'.gen = g /\ tray'.at = "starting"
    BY <2>2, <2>3 DEF Trays
  <2>5. host' \in Hosts /\ host'.gen = g /\ host'.phase = "created"
    <3>1. PICK s \in BOOLEAN :
                host' = [NoHost EXCEPT !.phase = "created", !.gen = g, !.slow = s]
      BY <2>3, Zenon DEF Created
    <3>2. host' = [phase |-> "created", gen |-> g, stop |-> FALSE, watched |-> FALSE,
                   slow |-> s]
      BY <3>1 DEF NoHost
    <3> QED BY <2>2, <3>2 DEF Hosts
  <2>6. Types'
    BY <2>3, <2>4, <2>5 DEF TrayInv, Types
  <2>7. HostOwned'
    BY <2>2, <2>4, <2>5 DEF HostOwned, Runs
  <2>8. DisplayOwned' /\ RestartOwned'
    BY <2>4 DEF DisplayOwned, RestartOwned, HistoryTypes
  <2>9. Kept
    BY <2>1 DEF Kept, Runs
  <2> QED BY <2>6, <2>7, <2>8, <2>9 DEF TrayInv
<1> QED BY <1>1, <1>2

\* What RequestCreate and RequestDestroy change.
LEMMA Requested ==
    ASSUME DisplayTypes, RequestCreate \/ RequestDestroy
    PROVE  DisplayTypes' /\ (RequestDestroy => destroy' = TRUE)
BY DEF DisplayTypes, RequestCreate, RequestDestroy

LEMMA UserStartKeeps ==
    ASSUME TrayInv, UserStart
    PROVE  TrayInv' /\ Kept
<1> DEFINE t == [Reset(tray) EXCEPT !.armed = FALSE, !.mayArm = TRUE, !.installed = TRUE]
<1>1. /\ tray.at = "idle" /\ StartHost(t, "start") /\ RequestCreate /\ exited' = exited
      /\ wish' = "display" /\ session' = FALSE /\ abandoned' = FALSE
  BY DEF UserStart
<1>2. t \in Trays /\ t.installed = TRUE /\ t.held = tray.held /\ t.gen = tray.gen
  <2>1. Reset(tray) \in Trays /\ SameHold(Reset(tray), tray)
    BY ResetKeeps DEF TrayInv, Types
  <2> QED BY <2>1 DEF Trays, SameHold
<1> HIDE DEF t
<1>3. DisplayTypes' /\ HistoryTypes'
  BY <1>1, Requested DEF TrayInv, Types, HistoryTypes
<1>4. Runs => t.held = TRUE
  BY <1>2 DEF TrayInv, HostOwned
<1> QED BY <1>1, <1>2, <1>3, <1>4, StartHostKeeps DEF Whys

\* stopHost, when a host is held: the tray waits for it.
LEMMA StopKeeps ==
    ASSUME TrayInv, NEW t \in Trays, NEW why \in Whys, t.held = TRUE, StopHost(t, why),
           tray.at = "idle", UNCHANGED <<exited, session, abandoned>>, HistoryTypes',
           t.installed = tray.installed,
           why = "restart" /\ abandoned = FALSE => tray.installed = TRUE
    PROVE  TrayInv' /\ Kept
<1>1. /\ tray' = [t EXCEPT !.at = "stopping", !.why = why]
      /\ host' = [host EXCEPT !.stop = host.phase # "none"]
      /\ UNCHANGED <<displayVars, client>>
  BY DEF StopHost
<1>2. /\ tray' \in Trays /\ tray'.installed = tray.installed /\ tray'.held = TRUE
      /\ tray'.at = "stopping" /\ tray'.why = why
  BY <1>1 DEF Trays
<1>3. /\ host' \in Hosts /\ host'.phase = host.phase /\ host'.gen = host.gen
      /\ ~Runs => host' = NoHost
  <2> DEFINE stop == host.phase # "none"
  <2>1. stop \in BOOLEAN /\ (stop <=> Runs) /\ host' = [host EXCEPT !.stop = stop]
    BY <1>1 DEF Runs
  <2> HIDE DEF stop
  <2>2. host' \in Hosts /\ host'.phase = host.phase /\ host'.gen = host.gen
    BY <2>1 DEF TrayInv, Types, Hosts
  <2>3. CASE Runs
    BY <2>2, <2>3
  <2>4. CASE ~Runs
    <3>1. host = NoHost /\ stop = FALSE
      BY <2>1, <2>4 DEF TrayInv, HostOwned
    <3>2. host' = NoHost
      BY <2>1, <3>1 DEF NoHost
    <3> QED BY <2>2, <3>2
  <2> QED BY <2>3, <2>4
<1>4. Types'
  BY <1>1, <1>2, <1>3 DEF TrayInv, Types, DisplayTypes, displayVars
<1>5. HostOwned'
  BY <1>2, <1>3 DEF TrayInv, HostOwned, Runs
<1>6. DisplayOwned' /\ RestartOwned'
  BY <1>1, <1>2, <1>3 DEF TrayInv, DisplayOwned, RestartOwned, Runs, GoesAway, displayVars
<1>7. Kept
  BY <1>2 DEF Kept
<1> QED BY <1>4, <1>5, <1>6, <1>7 DEF TrayInv

LEMMA UserStopsKeeps ==
    ASSUME TrayInv, NEW why \in {"stop", "exit"}, UserStops(why)
    PROVE  TrayInv' /\ Kept
<1> DEFINE s == [Reset(tray) EXCEPT !.armed = FALSE]  t == Expecting(s)
<1>1. /\ tray.at = "idle" /\ StopHost(t, why) /\ wish' = "gone"
      /\ UNCHANGED <<exited, session, abandoned>>
  BY DEF UserStops
<1>2. t \in Trays /\ SameHold(t, tray)
  <2>1. Reset(tray) \in Trays /\ SameHold(Reset(tray), tray)
    BY ResetKeeps DEF TrayInv, Types
  <2>2. s \in Trays /\ SameHold(s, tray)
    BY <2>1 DEF Trays, SameHold
  <2> HIDE DEF s
  <2> QED BY <2>2, ExpectingKeeps DEF SameHold
<1> HIDE DEF t
<1>3. HistoryTypes'
  BY <1>1 DEF TrayInv, Types, HistoryTypes
<1>4. CASE t.held = TRUE
  BY <1>1, <1>2, <1>3, <1>4, StopKeeps DEF Whys, SameHold
<1>5. CASE t.held = FALSE
  <2> DEFINE r == [t EXCEPT !.at = IF why = "exit" THEN "down" ELSE "idle"]
  <2>1. ~Runs /\ Remove(r) /\ UNCHANGED <<host, client>>
    BY <1>1, <1>2, <1>5 DEF StopHost, Stopped, TrayInv, HostOwned, SameHold
  <2>2. r \in Trays /\ r.installed = tray.installed /\ r.at # "stopping"
    BY <1>2 DEF Trays, SameHold
  <2> HIDE DEF r
  <2> QED BY <1>1, <1>3, <2>1, <2>2, TrayRemoves
<1> QED BY <1>2, <1>4, <1>5 DEF Trays

LEMMA UserRestartKeeps ==
    ASSUME TrayInv, UserRestart
    PROVE  TrayInv' /\ Kept
<1> DEFINE s == Expecting(Checked(tray))  t == [s EXCEPT !.gen = Fresh(tray)]
<1>1. /\ tray.at = "idle" /\ StopHost(t, "restart")
      /\ Alive(tray) \/ tray.installed = TRUE
      /\ UNCHANGED <<exited, wish, session, abandoned>>
  BY DEF UserRestart, TrayInv, Types, Trays
<1>2. Fresh(tray) \in Generations
  <2>1. Unused(tray) # {}
    BY DEF UserRestart
  <2>2. Fresh(tray) \in Unused(tray)
    BY <2>1 DEF Fresh
  <2> QED BY <2>2 DEF Unused
<1>3. t \in Trays /\ t.installed = tray.installed /\ (t.held = TRUE <=> Runs)
  <2>1. /\ Checked(tray) \in Trays /\ Checked(tray).installed = tray.installed
        /\ Checked(tray).held <=> Runs
    BY CheckedKeeps DEF TrayInv, Types, HostOwned, Runs
  <2>2. s \in Trays /\ s.installed = tray.installed /\ (s.held <=> Runs)
    BY <2>1, ExpectingKeeps DEF SameHold
  <2> HIDE DEF s
  <2> QED BY <1>2, <2>2 DEF Trays
<1> HIDE DEF t
<1>4. abandoned = FALSE => tray.installed = TRUE
  BY <1>1 DEF TrayInv, DisplayOwned, Alive, Runs, Types, Trays
<1>5. DisplayTypes /\ HistoryTypes /\ HistoryTypes'
  BY <1>1 DEF TrayInv, Types, HistoryTypes
<1>6. CASE Runs
  BY <1>1, <1>3, <1>4, <1>5, <1>6, StopKeeps DEF Whys
<1>7. CASE ~Runs
  <2>1. StartHost(t, "restart") /\ UNCHANGED displayVars
    BY <1>1, <1>3, <1>7 DEF StopHost, Stopped
  <2>2. DisplayTypes'
    BY <1>5, <2>1 DEF DisplayTypes, displayVars
  <2>3. t.installed = TRUE \/ abandoned' = TRUE
    BY <1>1, <1>3, <1>4, <1>5 DEF HistoryTypes
  <2> QED BY <1>1, <1>3, <1>5, <1>7, <2>1, <2>2, <2>3, StartHostKeeps DEF Whys
<1> QED BY <1>6, <1>7

LEMMA StartCompletesKeeps ==
    ASSUME TrayInv, StartCompletes
    PROVE  TrayInv' /\ Kept
<1>1. /\ tray.at = "starting" /\ Runs /\ Started(tray, tray.why)
      /\ host' = [host EXCEPT !.watched = TRUE]
      /\ UNCHANGED <<displayVars, exited, wish, session, abandoned>>
  BY DEF StartCompletes, Runs, historyVars
<1>2. /\ tray' \in Trays /\ SameHold(tray', tray) /\ tray'.at \in {"idle", "recalling"}
  <2>1. CASE tray.why = "restart"
    BY <1>1, <2>1 DEF Started, TrayInv, Types, Trays, SameHold
  <2>2. CASE tray.why # "restart"
    <3> DEFINE p == tray.pending /\ tray.why # "recover"
               o == tray.wasOffline /\ tray.why # "recover"
    <3>1. p \in BOOLEAN /\ o \in BOOLEAN
      BY DEF TrayInv, Types, Trays
    <3>2. tray' = [tray EXCEPT !.at = "idle", !.pending = p, !.wasOffline = o]
      BY <1>1, <2>2 DEF Started
    <3> HIDE DEF p, o
    <3> QED BY <3>1, <3>2 DEF TrayInv, Types, Trays, SameHold
  <2> QED BY <2>1, <2>2
<1>3. client' \in Clients
  BY <1>1, CallKeeps DEF Started, TrayInv, Types
<1>4. host' \in Hosts /\ host'.phase = host.phase /\ host'.gen = host.gen
  BY <1>1 DEF TrayInv, Types, Hosts
<1>5. Types'
  BY <1>1, <1>2, <1>3, <1>4
     DEF TrayInv, Types, DisplayTypes, displayVars, HistoryTypes
<1>6. HostOwned'
  BY <1>1, <1>2, <1>4 DEF TrayInv, HostOwned, Runs, SameHold
<1>7. DisplayOwned' /\ RestartOwned'
  BY <1>1, <1>2, <1>4 DEF TrayInv, DisplayOwned, RestartOwned, Runs, SameHold
<1>8. Kept
  BY <1>2 DEF Kept, SameHold
<1> QED BY <1>5, <1>6, <1>7, <1>8 DEF TrayInv

LEMMA StartFailsKeeps ==
    ASSUME TrayInv, StartFails
    PROVE  TrayInv' /\ Kept
<1> DEFINE t == [tray EXCEPT !.at = "idle", !.held = FALSE]
           r == [t EXCEPT !.armed = FALSE]
<1>1. /\ tray.at = "starting" /\ ~Runs
      /\ UNCHANGED <<host, exited, client, wish, session, abandoned>>
  BY DEF StartFails, Runs, historyVars
<1>2. /\ t \in Trays /\ t.installed = tray.installed /\ t.at = "idle"
      /\ r \in Trays /\ r.installed = tray.installed /\ r.at = "idle"
  BY DEF TrayInv, Types, Trays
<1>3. Remove(r) \/ (tray' = t /\ UNCHANGED displayVars)
  BY DEF StartFails
<1>4. HistoryTypes'
  BY <1>1 DEF TrayInv, Types, HistoryTypes
<1> HIDE DEF t, r
<1>5. CASE Remove(r)
  BY <1>1, <1>2, <1>4, <1>5, TrayRemoves
<1>6. CASE tray' = t /\ UNCHANGED displayVars
  <2>1. DisplayTypes' /\ (GoesAway => GoesAway')
    BY <1>6 DEF TrayInv, Types, DisplayTypes, displayVars, GoesAway
  <2> QED BY <1>1, <1>2, <1>4, <1>6, <2>1, TrayGoesOn DEF TrayInv, Types
<1> QED BY <1>3, <1>5, <1>6

LEMMA StopCompletesKeeps ==
    ASSUME TrayInv, StopCompletes
    PROVE  TrayInv' /\ Kept
<1> DEFINE t == [tray EXCEPT !.held = FALSE]
           r == [t EXCEPT !.at = IF tray.why = "exit" THEN "down" ELSE "idle"]
<1>1. /\ tray.at = "stopping" /\ ~Runs /\ Stopped(t, tray.why)
      /\ UNCHANGED <<exited, wish, session, abandoned>>
  BY DEF StopCompletes, Runs, historyVars
<1>2. /\ t \in Trays /\ t.installed = tray.installed
      /\ r \in Trays /\ r.installed = tray.installed /\ r.at # "stopping"
      /\ tray.why \in Whys
  BY DEF TrayInv, Types, Trays
<1>3. DisplayTypes /\ HistoryTypes /\ HistoryTypes'
  BY <1>1 DEF TrayInv, Types, HistoryTypes
<1>4. CASE tray.why = "restart"
  <2>1. StartHost(t, tray.why) /\ UNCHANGED displayVars
    BY <1>1, <1>4 DEF Stopped
  <2> HIDE DEF t
  <2>2. DisplayTypes'
    BY <1>3, <2>1 DEF DisplayTypes, displayVars
  <2>3. t.installed = TRUE \/ abandoned' = TRUE
    BY <1>1, <1>2, <1>3, <1>4 DEF TrayInv, RestartOwned, HistoryTypes
  <2> QED BY <1>1, <1>2, <1>3, <2>1, <2>2, <2>3, StartHostKeeps
<1>5. CASE tray.why # "restart"
  <2>1. Remove(r) /\ UNCHANGED <<host, client>>
    BY <1>1, <1>5 DEF Stopped
  <2> HIDE DEF r
  <2> QED BY <1>1, <1>2, <1>3, <2>1, TrayRemoves
<1> QED BY <1>4, <1>5

\* Handlers that leave the display and the host alone.
LEMMA QuietKeeps ==
    ASSUME TrayInv, Recall \/ RecallAgain \/ DelayElapses \/ TimerWatchesClient
    PROVE  TrayInv' /\ Kept
<1>1. /\ UNCHANGED <<displayVars, host, exited, wish, session, abandoned>>
      /\ tray.at # "stopping"
  BY DEF Recall, RecallAgain, DelayElapses, TimerWatchesClient, historyVars
<1>2. client' \in Clients
  BY CallKeeps
     DEF TrayInv, Types, Recall, RecallAgain, DelayElapses, TimerWatchesClient
<1>3. /\ tray' \in Trays /\ tray'.installed = tray.installed /\ tray'.gen = tray.gen
      /\ tray'.at # "stopping" /\ (Runs => tray'.held = TRUE)
  <2> DEFINE t == Checked(tray)
  <2>1. /\ t \in Trays /\ t.installed = tray.installed /\ t.gen = tray.gen
        /\ Runs => t.held = TRUE
    BY CheckedKeeps DEF TrayInv, Types, HostOwned, Runs, Trays
  <2>2. CASE Recall
    <3>1. tray' = [t EXCEPT !.at = "checking"]
      BY <2>2 DEF Recall
    <3> HIDE DEF t
    <3> QED BY <2>1, <3>1 DEF Trays
  <2>3. CASE RecallAgain
    <3>1. tray' = [t EXCEPT !.at = "idle"]
      BY <2>3 DEF RecallAgain
    <3> HIDE DEF t
    <3> QED BY <2>1, <3>1 DEF Trays
  <2>4. CASE DelayElapses
    BY <2>4 DEF DelayElapses, TrayInv, Types, Trays, HostOwned
  <2>5. CASE TimerWatchesClient
    <3> DEFINE offline == ~(client # "away")
    <3>1. offline \in BOOLEAN
      OBVIOUS
    <3>2. tray' = [tray EXCEPT !.armed = TRUE, !.wasOffline = offline]
      BY <2>5 DEF TimerWatchesClient
    <3> HIDE DEF offline
    <3> QED BY <1>1, <3>1, <3>2 DEF TrayInv, Types, Trays, HostOwned
  <2> QED BY <2>2, <2>3, <2>4, <2>5
<1>4. DisplayTypes' /\ HistoryTypes' /\ (GoesAway => GoesAway')
  BY <1>1 DEF TrayInv, Types, DisplayTypes, HistoryTypes, displayVars, GoesAway
<1> QED BY <1>1, <1>2, <1>3, <1>4, TrayGoesOn

(***************************************************************************)
(* The timer and the exit messages.                                        *)
(***************************************************************************)
\* What hostStillRunning finds out about a tray that is in none of its waits.
LEMMA CheckedTray ==
    ASSUME TrayInv
    PROVE  /\ Checked(tray) \in Trays /\ Checked(tray).at = tray.at
           /\ Checked(tray).installed = tray.installed /\ Checked(tray).gen = tray.gen
           /\ Checked(tray).held = TRUE <=> Runs
<1>1. tray \in Trays /\ (~Runs \/ tray.held)
  BY DEF TrayInv, Types, HostOwned
<1>2. /\ Checked(tray) \in Trays /\ Checked(tray).at = tray.at
      /\ Checked(tray).installed = tray.installed /\ Checked(tray).gen = tray.gen
  BY <1>1, CheckedKeeps
<1>3. Checked(tray).held \in BOOLEAN /\ (Checked(tray).held <=> Runs)
  BY <1>1, <1>2, CheckedKeeps DEF Runs, Trays
<1> QED BY <1>2, <1>3

\* The tray finds that its host has ended: a recovery begins, or the display goes.
LEMMA EndedKeeps ==
    ASSUME TrayInv, ~Runs, tray.at = "idle", Ended(Checked(tray)),
           exited' \subseteq exited,
           UNCHANGED <<host, client, wish, session, abandoned>>
    PROVE  TrayInv' /\ Kept
<1> DEFINE t == Checked(tray)  r == BeginRecovery(t)
<1>1. t \in Trays /\ t.installed = tray.installed /\ t.at = "idle"
  BY CheckedTray
<1>2. (tray' = r /\ UNCHANGED displayVars) \/ Remove(t)
  BY DEF Ended
<1>3. r \in Trays /\ r.installed = tray.installed /\ r.at = "idle"
  BY <1>1, BeginRecoveryKeeps DEF SameHold
<1> HIDE DEF t, r
<1>4. HistoryTypes' /\ client' \in Clients
  BY DEF TrayInv, Types, HistoryTypes
<1>5. CASE tray' = r /\ UNCHANGED displayVars
  <2>1. DisplayTypes' /\ (GoesAway => GoesAway')
    BY <1>5 DEF TrayInv, Types, DisplayTypes, displayVars, GoesAway
  <2> QED BY <1>3, <1>4, <1>5, <2>1, TrayGoesOn
<1>6. CASE Remove(t)
  BY <1>1, <1>4, <1>6, TrayRemoves
<1> QED BY <1>2, <1>5, <1>6

\* The end of a host that was expected: the tray remembers that it has seen it.
LEMMA ExpectedKeeps ==
    ASSUME TrayInv, tray.at = "idle", tray' = [Checked(tray) EXCEPT !.expected = 0],
           exited' \subseteq exited,
           UNCHANGED <<displayVars, host, client, wish, session, abandoned>>
    PROVE  TrayInv' /\ Kept
<1> DEFINE t == Checked(tray)
<1>1. /\ t \in Trays /\ t.at = "idle" /\ t.installed = tray.installed /\ t.gen = tray.gen
      /\ t.held = TRUE <=> Runs
  BY CheckedTray
<1>2. tray' = [t EXCEPT !.expected = 0]
  OBVIOUS
<1> HIDE DEF t
<1>3. /\ tray' \in Trays /\ tray'.at = "idle" /\ tray'.installed = tray.installed
      /\ tray'.gen = tray.gen /\ (tray'.held = TRUE <=> Runs)
  BY <1>1, <1>2 DEF Trays
<1>4. /\ DisplayTypes' /\ HistoryTypes' /\ client' \in Clients
      /\ GoesAway => GoesAway'
  BY DEF TrayInv, Types, DisplayTypes, HistoryTypes, displayVars, GoesAway
<1> QED BY <1>3, <1>4, TrayGoesOn

LEMMA TimerNoticesKeeps ==
    ASSUME TrayInv, TimerNotices
    PROVE  TrayInv' /\ Kept
<1>1. /\ tray.at = "idle" /\ ~Alive(tray)
      /\ UNCHANGED <<host, exited, client, wish, session, abandoned>>
  BY DEF TimerNotices, historyVars
<1>2. ~Runs
  BY <1>1 DEF Alive, TrayInv, HostOwned, Runs
<1>3. \/ tray' = [Checked(tray) EXCEPT !.expected = 0] /\ UNCHANGED displayVars
      \/ Ended(Checked(tray))
  BY DEF TimerNotices
<1>4. CASE tray' = [Checked(tray) EXCEPT !.expected = 0] /\ UNCHANGED displayVars
  BY <1>1, <1>4, ExpectedKeeps
<1>5. CASE Ended(Checked(tray))
  BY <1>1, <1>2, <1>5, EndedKeeps
<1> QED BY <1>3, <1>4, <1>5

\* A recovery that gives up: a host that runs is not looked at.
LEMMA TimerGivesUpKeeps ==
    ASSUME TrayInv, TimerGivesUp
    PROVE  TrayInv' /\ Kept
<1> DEFINE c == Checked(tray)  t == [Reset(c) EXCEPT !.armed = FALSE]
<1>1. /\ tray.at = "idle" /\ tray.pending /\ ~AttemptsLeft(tray) /\ Remove(t)
      /\ abandoned' = (abandoned \/ Runs)
      /\ UNCHANGED <<host, exited, client, wish, session>>
  BY DEF TimerGivesUp, Runs
<1>2. /\ t \in Trays /\ t.at = "idle" /\ t.installed = tray.installed /\ t.gen = tray.gen
      /\ t.held = TRUE <=> Runs
  <2>1. /\ c \in Trays /\ c.at = "idle" /\ c.installed = tray.installed
        /\ c.gen = tray.gen /\ (c.held = TRUE <=> Runs)
    BY <1>1, CheckedTray
  <2> HIDE DEF c
  <2>2. Reset(c) \in Trays /\ SameHold(Reset(c), c) /\ Reset(c).at = c.at
    BY <2>1, ResetKeeps
  <2> QED BY <2>1, <2>2 DEF Trays, SameHold
<1> HIDE DEF t
<1>3. HistoryTypes' /\ DisplayTypes /\ HistoryTypes
  <2>1. DisplayTypes /\ HistoryTypes
    BY DEF TrayInv, Types
  <2>2. abandoned' \in BOOLEAN
    BY <1>1
  <2> QED BY <1>1, <2>1, <2>2 DEF HistoryTypes
<1>4. CASE Runs
  <2>1. /\ tray' \in Trays /\ tray'.at = "idle" /\ tray'.gen = tray.gen
        /\ tray'.held = TRUE
    BY <1>1, <1>2, <1>4 DEF Remove, Trays
  <2>2. DisplayTypes'
    BY <1>1, <1>3 DEF DisplayTypes, Remove, RequestDestroy, displayVars
  <2>3. Types'
    BY <1>1, <1>3, <2>1, <2>2 DEF TrayInv, Types, Hosts
  <2>4. HostOwned'
    BY <1>1, <1>4, <2>1 DEF TrayInv, HostOwned, Runs
  <2>5. DisplayOwned' /\ RestartOwned'
    BY <1>1, <1>4 DEF DisplayOwned, RestartOwned
  <2>6. Kept
    BY <1>1 DEF Kept
  <2> QED BY <2>3, <2>4, <2>5, <2>6 DEF TrayInv
<1>5. CASE ~Runs
  <2>1. abandoned' = abandoned
    BY <1>1, <1>3, <1>5 DEF HistoryTypes
  <2> QED BY <1>1, <1>2, <1>3, <1>5, <2>1, TrayRemoves
<1> QED BY <1>4, <1>5

LEMMA TimerRetriesKeeps ==
    ASSUME TrayInv, TimerRetries
    PROVE  TrayInv' /\ Kept
<1> DEFINE c == Checked(tray)
           t == [c EXCEPT !.attempts = @ + 1, !.waiting = TRUE, !.installed = TRUE]
<1>1. /\ tray.at = "idle" /\ AttemptsLeft(tray) /\ StartHost(t, "recover")
      /\ RequestCreate /\ UNCHANGED <<exited, wish, session, abandoned>>
  BY DEF TimerRetries, historyVars
<1>2. /\ c \in Trays /\ c.gen = tray.gen /\ (c.held = TRUE <=> Runs)
      /\ c.attempts = tray.attempts
  <2>1. c.attempts = tray.attempts
    BY DEF Checked, TrayInv, Types, Trays
  <2> QED BY <2>1, CheckedTray
<1>3. t \in Trays /\ t.gen = tray.gen /\ t.installed = TRUE /\ (t.held = TRUE <=> Runs)
  <2>1. c.attempts + 1 \in 0..MaxRecoveryAttempts
    BY <1>1, <1>2, TrayAssumption DEF AttemptsLeft, Trays
  <2> HIDE DEF c
  <2> QED BY <1>2, <2>1 DEF Trays
<1> HIDE DEF t
<1>4. DisplayTypes' /\ HistoryTypes'
  BY <1>1, Requested DEF TrayInv, Types, HistoryTypes
<1> QED BY <1>1, <1>3, <1>4, StartHostKeeps DEF Whys

\* An exit message that the tray takes for its present host's is about a host that has
\* ended: no message is about a host that runs.
LEMMA MessageKeeps ==
    ASSUME TrayInv, NEW g \in Generations, HostExitedMessage(g)
    PROVE  TrayInv' /\ Kept
<1>1. /\ tray.at = "idle" /\ g \in exited /\ exited' \subseteq exited
      /\ UNCHANGED <<host, client, wish, session, abandoned>>
  BY DEF HostExitedMessage, historyVars
<1>2. /\ g = tray.expected =>
            tray' = [Checked(tray) EXCEPT !.expected = 0] /\ UNCHANGED displayVars
      /\ g # tray.expected /\ g # tray.gen => UNCHANGED <<tray, displayVars>>
      /\ g # tray.expected /\ g = tray.gen =>
            IF tray.installed THEN Ended(Checked(tray))
            ELSE tray' = Checked(tray) /\ RequestDestroy
  BY DEF HostExitedMessage, Stale
<1>3. CASE g = tray.expected
  BY <1>1, <1>2, <1>3, ExpectedKeeps
<1>4. CASE g # tray.expected /\ g # tray.gen
  <2>1. UNCHANGED <<tray, displayVars>>
    BY <1>2, <1>4
  <2>2. /\ DisplayTypes' /\ HistoryTypes' /\ client' \in Clients
        /\ GoesAway => GoesAway'
    BY <1>1, <2>1 DEF TrayInv, Types, DisplayTypes, HistoryTypes, displayVars, GoesAway
  <2>3. tray \in Trays /\ (Runs => tray.held = TRUE)
    BY DEF TrayInv, Types, HostOwned
  <2> QED BY <1>1, <2>1, <2>2, <2>3, TrayGoesOn
<1>5. CASE g # tray.expected /\ g = tray.gen
  <2>1. ~Runs
    BY <1>1, <1>5 DEF TrayInv, HostOwned
  <2>2. CASE tray.installed
    <3>1. Ended(Checked(tray))
      BY <1>2, <1>5, <2>2
    <3> QED BY <1>1, <2>1, <3>1, EndedKeeps
  <2>3. CASE ~tray.installed
    <3> DEFINE t == Checked(tray)
    <3>1. tray' = t /\ RequestDestroy
      BY <1>2, <1>5, <2>3
    <3>2. t \in Trays /\ t.at = "idle" /\ t.installed = tray.installed
      BY <1>1, CheckedTray
    <3> HIDE DEF t
    <3>3. DisplayTypes' /\ GoesAway' /\ HistoryTypes' /\ client' \in Clients
      BY <1>1, <3>1, Requested DEF TrayInv, Types, HistoryTypes, GoesAway
    <3> QED BY <1>1, <2>1, <3>1, <3>2, <3>3, TrayGoesOn
  <2> QED BY <2>2, <2>3
<1> QED BY <1>3, <1>4, <1>5

(***************************************************************************)
(* All steps, and the theorems.                                            *)
(***************************************************************************)
LEMMA TrayNext == TrayInv /\ [Next]_vars => TrayInv' /\ Kept
<1> SUFFICES ASSUME TrayInv, [Next]_vars PROVE TrayInv' /\ Kept
  OBVIOUS
<1>1. CASE Driver \/ DriverFails
  BY <1>1, DriverKeeps
<1>2. CASE ClientConnects \/ ClientEnds \/ ClientLeaves \/ ClientReturns
  BY <1>2, ClientKeeps
<1>3. CASE HostRequests \/ HostFinds \/ HostReturns \/ HostFails \/ HostLosesCapture
           \/ HostAsksAgain \/ HostRecovers
  BY <1>3, HostKeeps
<1>4. CASE HostEnds \/ HostCrashes \/ StopTerminates
  BY <1>4, HostEndKeeps
<1>5. CASE UserStart
  BY <1>5, UserStartKeeps
<1>6. CASE UserStops("stop") \/ UserStops("exit")
  BY <1>6, UserStopsKeeps
<1>7. CASE UserRestart
  BY <1>7, UserRestartKeeps
<1>8. CASE StartCompletes
  BY <1>8, StartCompletesKeeps
<1>9. CASE StartFails
  BY <1>9, StartFailsKeeps
<1>10. CASE StopCompletes
  BY <1>10, StopCompletesKeeps
<1>11. CASE Recall \/ RecallAgain \/ DelayElapses \/ TimerWatchesClient
  BY <1>11, QuietKeeps
<1>12. CASE TimerNotices
  BY <1>12, TimerNoticesKeeps
<1>13. CASE TimerGivesUp
  BY <1>13, TimerGivesUpKeeps
<1>14. CASE TimerRetries
  BY <1>14, TimerRetriesKeeps
<1>15. CASE Message
  BY <1>15, MessageKeeps DEF Message
<1>16. CASE UNCHANGED vars
  <2>1. UNCHANGED <<displayVars, tray, host, exited, client, wish, session, abandoned>>
    BY <1>16 DEF vars, programVars, historyVars
  <2>2. Types'
    BY <2>1 DEF TrayInv, Types, Trays, Hosts, Clients, DisplayTypes, displayVars,
                HistoryTypes
  <2>3. HostOwned' /\ DisplayOwned' /\ RestartOwned'
    BY <2>1 DEF TrayInv, HostOwned, DisplayOwned, RestartOwned, Runs, NoHost, GoesAway,
                displayVars
  <2>4. Kept
    BY <2>1 DEF Kept
  <2> QED BY <2>2, <2>3, <2>4 DEF TrayInv
<1> QED BY <1>1, <1>2, <1>3, <1>4, <1>5, <1>6, <1>7, <1>8, <1>9, <1>10, <1>11, <1>12,
           <1>13, <1>14, <1>15, <1>16
        DEF Next, Client, Host, User, Blocked, Timer, Faults

LEMMA TrayInvariant == Spec => []TrayInv
<1>1. TrayInv /\ [Next]_vars => TrayInv'
  BY TrayNext
<1> QED BY <1>1, TrayInit, PTL DEF Spec

\* The tray's globals, the host process, the client and the display keep their types:
\* generations are of the counter's, attempts never more than kMaxRecoveryAttempts.
THEOREM TypeCorrect == Spec => []TypeOK
<1>1. TrayInv => TypeOK
  BY DEF TrayInv, Types, Trays, Whys, Hosts, Clients, DisplayTypes, HistoryTypes, TypeOK
<1> QED BY <1>1, TrayInvariant, PTL

\* No display is left behind: however a host has ended and whatever the tray was doing,
\* a display that nobody is about to destroy is one the tray knows of.
THEOREM NoOrphans == Spec => []NoOrphanDisplay
<1>1. TrayInv => NoOrphanDisplay
  BY DEF TrayInv, DisplayOwned, GoesAway, NoOrphanDisplay, Types, Trays, DisplayTypes,
         HistoryTypes
<1> QED BY <1>1, TrayInvariant, PTL

\* The tray does not take the display from a host that runs: neither stale exit messages
\* nor the timer nor a restart do, only a recovery that has used all its attempts.
THEOREM HostKeepsIt == Spec => HostKeepsDisplay
<1>1. TrayInv /\ [Next]_vars =>
        [tray.installed /\ ~tray'.installed =>
           host.phase = "none" \/ (tray.pending /\ ~AttemptsLeft(tray))]_vars
  BY TrayNext DEF Kept
<1> QED BY <1>1, TrayInvariant, PTL DEF Spec, HostKeepsDisplay

\* The tray and the host use the display only as the driver offers it: every step serves
\* a request, or signals events and changes nothing else.  Whatever implements
\* VirtualDisplay, MonitorDriver for one, can stand in its place here.
THEOREM DisplayUsedAsOffered == Spec => [][DisplayNext]_displayVars
<1>1. ASSUME TrayInv, [Next]_vars PROVE DisplayNext \/ UNCHANGED displayVars
  <2> USE <1>1
  <2>1. active \in BOOLEAN /\ (RequestCreate \/ RequestDestroy => Ask)
    BY DEF TrayInv, Types, DisplayTypes, RequestCreate, RequestDestroy, Ask
  <2>2. \A t : Remove(t) \/ Ended(t) => Ask \/ UNCHANGED displayVars
    BY <2>1 DEF Remove, Ended
  <2>3. \A t, why : Stopped(t, why) \/ StopHost(t, why) => Ask \/ UNCHANGED displayVars
    BY <2>2 DEF Stopped, StopHost
  <2>4. CASE Driver \/ DriverFails
    BY <2>4 DEF Driver, DriverFails, Serve, DisplayNext
  <2>5. CASE Client \/ ClientReturns \/ ClientLeaves
    BY <2>5 DEF Client, ClientConnects, ClientEnds, ClientReturns, ClientLeaves
  <2>6. CASE Host \/ HostLosesCapture \/ HostFails \/ HostCrashes
    BY <2>1, <2>6
       DEF Host, HostRequests, HostFinds, HostReturns, HostAsksAgain, HostRecovers,
           HostEnds, HostLosesCapture, HostFails, HostCrashes, Leave, Ask, DisplayNext
  <2>7. CASE User
    BY <2>1, <2>3, <2>7 DEF User, UserStart, UserStops, UserRestart, DisplayNext
  <2>8. CASE Blocked \/ DelayElapses
    BY <2>2, <2>3, <2>8
       DEF Blocked, StartCompletes, StartFails, StopCompletes, StopTerminates, Recall,
           RecallAgain, DelayElapses, DisplayNext
  <2>9. CASE Timer
    BY <2>1, <2>2, <2>9
       DEF Timer, TimerWatchesClient, TimerNotices, TimerGivesUp, TimerRetries,
           DisplayNext
  <2>10. CASE Message
    <3>1. PICK g \in Generations : HostExitedMessage(g)
      BY <2>10 DEF Message
    <3> QED BY <2>1, <2>2, <3>1 DEF HostExitedMessage, DisplayNext
  <2>11. CASE UNCHANGED vars
    BY <2>11 DEF vars
  <2> QED BY <2>4, <2>5, <2>6, <2>7, <2>8, <2>9, <2>10, <2>11 DEF Next, Faults
<1> QED BY <1>1, TrayInvariant, PTL DEF Spec
=============================================================================
