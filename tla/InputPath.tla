------------------------------ MODULE InputPath ------------------------------
(***************************************************************************)
(* The way of the mouse and the keyboard back to Windows: the X11 capture  *)
(* thread of the client (x11_input_capture.cpp, input_capture.cpp,         *)
(* input_sender.cpp), the datagrams, and the input thread of the host      *)
(* (host_app.cpp) with its receiver and its injector (input_receiver.cpp,  *)
(* input_injector.cpp), up to the end of the session that owns the thread. *)
(*                                                                         *)
(* A position is a place on the virtual display: that both ends normalise  *)
(* and scale it is left out.  What the state of the Windows pointer, its   *)
(* buttons and its keys becomes is taken from the injected events.         *)
(*                                                                         *)
(* The datagrams arrive, in order.  The code repairs nothing the network   *)
(* does to them: a lost release leaves a key down on Windows.              *)
(***************************************************************************)
EXTENDS Integers, Sequences

CONSTANTS
    Places,         \* positions on the virtual display
    Inputs,         \* buttons and keys the user has
    ForwardEvents,  \* forwardPointerEvents and forwardKeyboardEvents
    MaxEvents,      \* bound: what the user does in a behaviour
    None            \* no place, no code

Buttons == {"left", "middle", "right", "side"}
Keys == {"a", "shiftL", "shiftR", "super"}

Codes == {"LEFT", "RIGHT", "MIDDLE", "SHIFT", "A"} \* what Windows knows

ASSUME InputAssumption ==
    /\ Inputs \subseteq Buttons \cup Keys
    /\ ForwardEvents \in BOOLEAN
    /\ MaxEvents \in Nat
    /\ Places # {}
    /\ None \notin Places \cup Buttons \cup Keys \cup Codes

VARIABLES
    pointer, held, done,  \* the user: pointer, what is held down, events so far
    xqueue,               \* X events the capture thread has not taken
    capturing,            \* "waiting" in select, "draining" the queue, "ended"
    pendingMotion,        \* the motion kept back, or << >>
    net,                  \* datagrams
    serving,              \* the host's main thread: "session", "joining", "ended"
    kind,                 \* which main loop: "live" (H.264) or "mjpeg"
    inputThread,          \* "checking" its flags, "receiving", "ended"
    stopInput, stopEvent, \* the flags it checks
    active,               \* virtualDisplay_.active
    hostPointer, pressed, \* Windows: the pointer, buttons and keys down
    wheel                 \* history: the last wheel step that was injected

userVars == <<pointer, held, done>>
captureVars == <<capturing, pendingMotion>>
windowsVars == <<hostPointer, pressed, wheel>>
hostVars == <<serving, kind, inputThread, stopInput, stopEvent, active>>
vars == <<userVars, xqueue, captureVars, net, hostVars, windowsVars>>

(***************************************************************************)
(* Values.                                                                 *)
(***************************************************************************)
\* What Windows is told: the virtual key of keysymToWindowsVirtualKey (None for a
\* key without one), or the button that inject makes of X11's number.  X11 counts
\* left, middle, right; inject reads 2 as right and 3 as middle, and knows no other.
Code(i) == CASE i = "left" -> "LEFT"
             [] i = "middle" -> "RIGHT"
             [] i = "right" -> "MIDDLE"
             [] i \in {"shiftL", "shiftR"} -> "SHIFT"
             [] i = "a" -> "A"
             [] OTHER -> None

XEvents == [type : {"motion", "press", "release", "scroll", "unscroll"},
            input : Inputs \cup {None}, at : Places \cup {None}]

\* Input events.  The place of a wheel step is history: it is not sent.  (Their
\* numbers serve the receiver's statistics only and are left out.)
InputEvents == [kind : {"move", "button", "wheel", "key"},
                at : Places \cup {None},
                code : Codes \cup {None}, down : BOOLEAN]

Wheels == [seen : Places, on : Places \cup {None}]

(***************************************************************************)
(* The user and the X server.                                              *)
(***************************************************************************)
Init ==
    /\ pointer = (CHOOSE p \in Places : TRUE) /\ held = {} /\ done = 0 /\ xqueue = << >>
    /\ capturing = "waiting" /\ pendingMotion = << >>
    /\ net = << >>
    /\ serving = "session" /\ kind \in {"live", "mjpeg"}
    /\ inputThread = "checking" /\ stopInput = FALSE /\ stopEvent = FALSE
    /\ active = TRUE
    /\ hostPointer = None /\ pressed = {} /\ wheel = None

XEvent(type, input, at) ==
    [type |-> type, input |-> input,
     at |-> IF input \in Keys \/ type = "unscroll" THEN None ELSE at]

\* (Bound: the user does nothing once the session or the capture is over.)
UserDoes(events) ==
    /\ done < MaxEvents /\ capturing # "ended" /\ serving = "session"
    /\ done' = done + 1
    /\ xqueue' = xqueue \o events
    /\ UNCHANGED <<captureVars, net, hostVars, windowsVars>>

UserMoves(p) ==
    /\ p # pointer
    /\ pointer' = p
    /\ UserDoes(<<XEvent("motion", None, p)>>)
    /\ UNCHANGED held

UserPresses(i) ==
    /\ i \notin held
    /\ held' = held \cup {i}
    /\ UserDoes(<<XEvent("press", i, pointer)>>)
    /\ UNCHANGED pointer

UserReleases(i) ==
    /\ i \in held
    /\ held' = held \ {i}
    /\ UserDoes(<<XEvent("release", i, pointer)>>)
    /\ UNCHANGED pointer

\* A wheel step is a press and a release of button 4 or 5.
UserScrolls ==
    /\ UserDoes(<<XEvent("scroll", None, pointer), XEvent("unscroll", None, pointer)>>)
    /\ UNCHANGED <<pointer, held>>

(***************************************************************************)
(* Client: X11InputCapture::run.                                           *)
(***************************************************************************)
\* The stop flag, the event limit and the idle limit are looked at before a batch
\* of X events only: any of them may be found to end the thread.
LoopTop ==
    /\ capturing = "waiting"
    /\ capturing' \in {"draining", "ended"}
    /\ UNCHANGED <<userVars, xqueue, pendingMotion, net, hostVars,
                   windowsVars>>

InputEvent(k, e, down) ==
    [kind |-> k, at |-> e.at, down |-> down,
     code |-> IF e.input = None THEN None ELSE Code(e.input)]

\* What an X event is sent as: nothing for the release of a wheel step or a key
\* without a virtual key.
Translated(e) ==
    CASE e.type = "scroll" -> <<InputEvent("wheel", e, TRUE)>>
      [] e.type \in {"press", "release"} /\ e.input \in Buttons ->
            <<InputEvent("button", e, e.type = "press")>>
      [] e.type \in {"press", "release"} /\ e.input \in Keys
            /\ Code(e.input) # None ->
            <<InputEvent("key", e, e.type = "press")>>
      [] OTHER -> << >>

\* A motion is kept back; anything else is sent after it.  (The slips: a wheel step
\* does not send it first; what comes after it is not sent.)
ToSendWheelFirst(e) == CASE e.type = "motion" -> << >>
                         [] e.type = "scroll" -> Translated(e) \o pendingMotion
                         [] OTHER -> pendingMotion \o Translated(e)
ToSendMotionOnly(e) == IF e.type = "motion" THEN << >>
                       ELSE IF pendingMotion # << >> THEN pendingMotion
                       ELSE Translated(e)
ToSend(e) == IF e.type = "motion" THEN << >>
             ELSE pendingMotion \o Translated(e)

\* It replaces the one kept back before it.  (The slips: it is kept back as well, or
\* instead.)
KeptBackAll(e) == IF e.type = "motion"
                  THEN Append(pendingMotion, InputEvent("move", e, TRUE))
                  ELSE << >>
KeptBackFirst(e) == IF e.type = "motion" /\ pendingMotion = << >>
                    THEN <<InputEvent("move", e, TRUE)>>
                    ELSE IF e.type = "motion" THEN pendingMotion ELSE << >>
KeptBack(e) == IF e.type = "motion" THEN <<InputEvent("move", e, TRUE)>>
               ELSE << >>

\* sendTo refuses the next datagram: the thread ends, the rest is not sent.
SendAll(events, ok) ==
    IF ok THEN net' = net \o events
    ELSE \E k \in 1..Len(events) : net' = net \o SubSeq(events, 1, k - 1)

TakeXEvent(ok) ==
    LET e == Head(xqueue)
    IN  /\ capturing = "draining" /\ xqueue # << >>
        /\ xqueue' = Tail(xqueue)
        /\ IF ForwardEvents
           THEN /\ SendAll(ToSend(e), ok)
                /\ pendingMotion' = KeptBack(e)
           ELSE /\ ok
                /\ UNCHANGED <<net, pendingMotion>>
        /\ capturing' = IF ok THEN "draining" ELSE "ended"
        /\ UNCHANGED <<userVars, hostVars, windowsVars>>

\* The queue is empty: the motion kept back is sent, then select waits.
BatchEnds(ok) ==
    /\ capturing = "draining" /\ xqueue = << >>
    /\ SendAll(pendingMotion, ok)
    /\ pendingMotion' = << >>
    /\ capturing' = IF ok THEN "waiting" ELSE "ended"
    /\ UNCHANGED <<userVars, xqueue, hostVars, windowsVars>>

(***************************************************************************)
(* Host: the input thread.                                                 *)
(***************************************************************************)
\* (The slip: it is not looked at whether the session is over.)
ThreadMustEndOnEvent == stopEvent
ThreadMustEnd == stopInput \/ stopEvent

HostChecks ==
    /\ inputThread = "checking"
    /\ inputThread' = IF ThreadMustEnd THEN "ended" ELSE "receiving"
    /\ UNCHANGED <<userVars, xqueue, captureVars, net, serving, kind,
                   stopInput, stopEvent, active, windowsVars>>

\* 200 ms without a datagram.
ReceiveTimesOut ==
    /\ inputThread = "receiving"
    /\ inputThread' = "checking"
    /\ UNCHANGED <<userVars, xqueue, captureVars, net, serving, kind,
                   stopInput, stopEvent, active, windowsVars>>

\* injectSendInput.
Applied(e) ==
    /\ hostPointer' = IF e.kind \in {"move", "button"} THEN e.at ELSE hostPointer
    /\ pressed' = IF e.kind \notin {"button", "key"} THEN pressed
                  ELSE IF e.down THEN pressed \cup {e.code}
                  ELSE pressed \ {e.code}
    /\ wheel' = IF e.kind = "wheel" THEN [seen |-> e.at, on |-> hostPointer]
                ELSE wheel

\* inject has nothing for a button without a code.
Known(e) == active /\ (e.kind = "button" => e.code # None)

\* A datagram is taken and injected.  An event that inject does not know, or that
\* Windows does not take (a locked screen), ends the thread.
Receive(ok) ==
    LET e == Head(net)
    IN  /\ inputThread = "receiving" /\ net # << >>
        /\ net' = Tail(net)
        /\ ok => Known(e)
        /\ IF ok
           THEN Applied(e) /\ inputThread' = "checking" /\ UNCHANGED stopInput
           ELSE /\ inputThread' = "ended" /\ stopInput' = TRUE
                /\ UNCHANGED windowsVars
        /\ UNCHANGED <<userVars, xqueue, captureVars, serving, kind,
                       stopEvent, active>>

(***************************************************************************)
(* Host: the end of the session.                                           *)
(***************************************************************************)
RequestStop ==
    /\ ~stopEvent
    /\ stopEvent' = TRUE
    /\ UNCHANGED <<userVars, xqueue, captureVars, net, serving, kind,
                   inputThread, stopInput, active, windowsVars>>

\* Only the live loop looks at stopInput: an MJPEG session goes on without input.
MainMustEnd == stopEvent \/ (kind = "live" /\ stopInput)

LeaveLoop ==
    /\ serving = "session"
    /\ serving' = "joining" /\ stopInput' = TRUE
    /\ UNCHANGED <<userVars, xqueue, captureVars, net, kind, inputThread,
                   stopEvent, active, windowsVars>>

\* The stream fails, the client leaves, or all frames asked for were sent.
SessionEnds == ~MainMustEnd /\ LeaveLoop
LoopEnds == MainMustEnd /\ LeaveLoop

\* join returns, then the display is given up.
MayDestroy == serving = "joining" /\ inputThread = "ended"

JoinAndDestroy ==
    /\ MayDestroy
    /\ serving' = "ended" /\ active' = FALSE
    /\ UNCHANGED <<userVars, xqueue, captureVars, net, kind, inputThread,
                   stopInput, stopEvent, windowsVars>>

User == \/ \E p \in Places : UserMoves(p)
        \/ \E i \in Inputs : UserPresses(i) \/ UserReleases(i)
        \/ UserScrolls

Capture == \/ LoopTop
           \/ \E ok \in BOOLEAN : TakeXEvent(ok) \/ BatchEnds(ok)

Main == SessionEnds \/ LoopEnds \/ JoinAndDestroy

Next == \/ User \/ Capture
        \/ HostChecks \/ ReceiveTimesOut
        \/ \E ok \in BOOLEAN : Receive(ok)
        \/ RequestStop \/ Main

Spec == Init /\ [][Next]_vars

\* The threads run; a datagram that has arrived is returned by recvfrom, which
\* times out only on an empty socket.
FairSpec == /\ Spec
            /\ WF_vars(Capture)
            /\ WF_vars(HostChecks \/ ReceiveTimesOut)
            /\ SF_vars(\E ok \in BOOLEAN : Receive(ok))
            /\ WF_vars(LoopEnds \/ JoinAndDestroy)
-----------------------------------------------------------------------------
(***************************************************************************)
(* Properties.                                                             *)
(***************************************************************************)
\* Type invariant of the user, the capture thread, the host and Windows.
TypeOK ==
    /\ pointer \in Places /\ held \subseteq Inputs /\ done \in 0..MaxEvents
    /\ xqueue \in Seq(XEvents)
    /\ capturing \in {"waiting", "draining", "ended"}
    /\ pendingMotion \in Seq(InputEvents) /\ Len(pendingMotion) <= 1
    /\ net \in Seq(InputEvents)
    /\ serving \in {"session", "joining", "ended"} /\ kind \in {"live", "mjpeg"}
    /\ inputThread \in {"checking", "receiving", "ended"}
    /\ stopInput \in BOOLEAN /\ stopEvent \in BOOLEAN /\ active \in BOOLEAN
    /\ hostPointer \in Places \cup {None} /\ pressed \subseteq Codes
    /\ wheel \in Wheels \cup {None}

\* Nothing is on its way, and both threads run.
Settled == /\ xqueue = << >> /\ pendingMotion = << >> /\ net = << >>
           /\ capturing # "ended" /\ inputThread # "ended"

\* Another key the user has is the same key for Windows.
Shared(i) == \E j \in Inputs \ {i} : Code(j) = Code(i)

\* Although motions are merged and kept back: once everything has arrived the
\* pointer of Windows is where the user's is, nothing is down that the user does not
\* hold, and what he holds is down (unless two of his keys are one key for Windows:
\* releasing either releases it).
HostFollows ==
    Settled /\ ForwardEvents =>
        /\ hostPointer \in {None, pointer}
        /\ pressed \subseteq {Code(i) : i \in held}
        /\ \A i \in held : Code(i) \in pressed \/ Code(i) = None \/ Shared(i)

\* A wheel step turns what is under the user's pointer, although it carries no
\* position and the motion in front of it may be kept back when it is read
\* (once Windows knows a position at all).
WheelAtPointer ==
    wheel # None => wheel.on \in {None, wheel.seen}

\* What the user presses is pressed on Windows, unless he lets it go again or one of
\* the threads ends.
PressArrives ==
    \A i \in Inputs :
        (i \in held /\ Code(i) # None /\ ~Shared(i))
            ~> (\/ Code(i) \in pressed \/ i \notin held
                \/ capturing = "ended" \/ inputThread = "ended")

\* An event Windows refuses ends a live session, and a stop event any session: the
\* display is given up, whatever the input thread was doing.
SessionReleases == MainMustEnd ~> (serving = "ended" /\ ~active)
=============================================================================
