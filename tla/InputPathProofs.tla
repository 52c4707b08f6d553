-------------------------- MODULE InputPathProofs --------------------------
(***************************************************************************)
(* Proofs about the input path, for any places, any inputs and any number  *)
(* of events.                                                              *)
(*                                                                         *)
(* HostFollows is about the moment when nothing is on its way.  Its        *)
(* invariant says the same of every moment: when all that is on its way    *)
(* has been applied, in order, Windows will have what the user has now     *)
(* (PointerInv, CodeInv).  WheelAtPointer needs it for a part of the way,  *)
(* up to each wheel step (ScrollInv, WheelInv).                            *)
(***************************************************************************)
EXTENDS InputPath, TLAPS

(***************************************************************************)
(* The last of the values: v[m] is the set of the value that the m-th of   *)
(* n events sets, empty if it sets none.                                   *)
(***************************************************************************)
\* The value after n events is one of those allowed; before says so of the value
\* before the first one.
Ends(v, n, allowed, before) ==
    /\ (\A m \in 1..n : v[m] = {}) => before
    /\ \A m \in 1..n :
          (v[m] # {} /\ (\A k \in (m + 1)..n : v[k] = {})) => v[m] \subseteq allowed

LEMMA EndsNone ==
    ASSUME NEW v, NEW allowed, NEW before
    PROVE  Ends(v, 0, allowed, before) <=> before
BY DEF Ends

LEMMA EndsSame ==
    ASSUME NEW v, NEW w, NEW n \in Nat, NEW allowed, NEW before,
           \A m \in 1..n : w[m] = v[m]
    PROVE  Ends(w, n, allowed, before) <=> Ends(v, n, allowed, before)
BY DEF Ends

\* The last event decides, if it sets a value.
LEMMA EndsLast ==
    ASSUME NEW v, NEW n \in Nat, NEW allowed, NEW before
    PROVE  Ends(v, n + 1, allowed, before) <=>
               IF v[n + 1] = {} THEN Ends(v, n, allowed, before)
               ELSE v[n + 1] \subseteq allowed
<1>1. CASE v[n + 1] = {}
  <2>1. (\A m \in 1..(n + 1) : v[m] = {}) <=> (\A m \in 1..n : v[m] = {})
    BY <1>1
  <2>2. ASSUME NEW m \in 1..n
        PROVE  (\A k \in (m + 1)..(n + 1) : v[k] = {}) <=> (\A k \in (m + 1)..n : v[k] = {})
    BY <1>1
  <2> QED BY <1>1, <2>1, <2>2 DEF Ends
<1>2. CASE v[n + 1] # {}
  <2>1. n + 1 \in 1..(n + 1) /\ \A m \in 1..n : n + 1 \in (m + 1)..(n + 1)
    OBVIOUS
  <2>2. \A k \in (n + 1 + 1)..(n + 1) : v[k] = {}
    OBVIOUS
  <2> QED BY <1>2, <2>1, <2>2 DEF Ends
<1> QED BY <1>1, <1>2

\* The first event can be applied.
LEMMA EndsFirst ==
    ASSUME NEW v, NEW w, NEW n \in Nat, NEW allowed, NEW before, NEW after,
           \A m \in 1..n : w[m] = v[m + 1],
           after <=> IF v[1] = {} THEN before ELSE v[1] \subseteq allowed
    PROVE  Ends(v, n + 1, allowed, before) <=> Ends(w, n, allowed, after)
<1>1. (\A m \in 1..(n + 1) : v[m] = {}) <=> v[1] = {} /\ \A m \in 1..n : w[m] = {}
  <2>1. \A m \in 2..(n + 1) : m - 1 \in 1..n /\ v[m] = w[m - 1]
    OBVIOUS
  <2> QED BY <2>1
<1>2. ASSUME NEW m \in 1..n
      PROVE  (\A k \in (m + 1 + 1)..(n + 1) : v[k] = {}) <=> (\A k \in (m + 1)..n : w[k] = {})
  <2>1. \A k \in (m + 1 + 1)..(n + 1) : k - 1 \in (m + 1)..n /\ v[k] = w[k - 1]
    OBVIOUS
  <2>2. \A k \in (m + 1)..n : k + 1 \in (m + 1 + 1)..(n + 1) /\ v[k + 1] = w[k]
    OBVIOUS
  <2> QED BY <2>1, <2>2
<1>3. (\A k \in (1 + 1)..(n + 1) : v[k] = {}) <=> \A m \in 1..n : w[m] = {}
  <2>1. \A k \in (1 + 1)..(n + 1) : k - 1 \in 1..n /\ v[k] = w[k - 1]
    OBVIOUS
  <2>2. \A m \in 1..n : m + 1 \in (1 + 1)..(n + 1) /\ v[m + 1] = w[m]
    OBVIOUS
  <2> QED BY <2>1, <2>2
<1> DEFINE Last(m) == v[m] # {} /\ \A k \in (m + 1)..(n + 1) : v[k] = {}
           LastW(m) == w[m] # {} /\ \A k \in (m + 1)..n : w[k] = {}
<1>4. \A m \in 1..n : Last(m + 1) <=> LastW(m)
  BY <1>2
<1>5. (\A m \in 1..(n + 1) : Last(m) => v[m] \subseteq allowed) <=>
          /\ Last(1) => v[1] \subseteq allowed
          /\ \A m \in 1..n : LastW(m) => w[m] \subseteq allowed
  <2> HIDE DEF Last, LastW
  <2>1. \A m \in 2..(n + 1) : m - 1 \in 1..n /\ (m - 1) + 1 = m
    OBVIOUS
  <2>2. 1 \in 1..(n + 1) /\ \A m \in 1..n : m + 1 \in 1..(n + 1)
    OBVIOUS
  <2>3. ASSUME NEW m \in 1..(n + 1) PROVE m = 1 \/ m \in 2..(n + 1)
    OBVIOUS
  <2>4. ASSUME NEW m \in 2..(n + 1), \A j \in 1..n : LastW(j) => w[j] \subseteq allowed,
               Last(m)
        PROVE  v[m] \subseteq allowed
    BY <2>1, <2>4, <1>4
  <2>5. ASSUME NEW m \in 1..n, \A j \in 1..(n + 1) : Last(j) => v[j] \subseteq allowed,
               LastW(m)
        PROVE  w[m] \subseteq allowed
    BY <2>2, <2>5, <1>4
  <2> QED BY <2>2, <2>3, <2>4, <2>5
<1> QED BY <1>1, <1>3, <1>5 DEF Ends

-----------------------------------------------------------------------------
(***************************************************************************)
(* What events set, at both ends of the capture thread.                    *)
(***************************************************************************)
State(down) == IF down THEN "down" ELSE "up"

PlaceOf(e) == IF e.kind \in {"move", "button"} THEN {e.at} ELSE {}
StateOf(e, c) == IF e.kind \in {"button", "key"} /\ e.code = c
                 THEN {State(e.down)} ELSE {}

XPlaceOf(e) == IF e.type = "motion" \/ (e.type \in {"press", "release"} /\ e.input \in Buttons)
               THEN {e.at} ELSE {}
XStateOf(e, c) == IF e.type \in {"press", "release"} /\ Code(e.input) = c
                  THEN {State(e.type = "press")} ELSE {}

PlacesIn(s) == [m \in 1..Len(s) |-> PlaceOf(s[m])]
StatesIn(s, c) == [m \in 1..Len(s) |-> StateOf(s[m], c)]
QueuePlaces == [m \in 1..Len(xqueue) |-> XPlaceOf(xqueue[m])]
QueueStates(c) == [m \in 1..Len(xqueue) |-> XStateOf(xqueue[m], c)]

\* After n more datagrams Windows' pointer is at p, if it is anywhere.
NetAt(n, p) == Ends(PlacesIn(net), n, {p}, hostPointer \in {None, p})

\* After all datagrams and the motion kept back.
SentAt(p) == IF pendingMotion = << >> THEN NetAt(Len(net), p) ELSE pendingMotion[1].at = p

\* And after n more X events.
QueueAt(n, p) == Ends(QueuePlaces, n, {p}, SentAt(p))

\* A state of the code c that agrees with what the user holds.
Right(c) == {s \in {"down", "up"} :
                IF s = "down" THEN \E i \in held : Code(i) = c
                ELSE \A i \in held : Code(i) = c => Shared(i)}

\* After all datagrams, after all X events, the state of c is right.
NetRight(c, right) == Ends(StatesIn(net, c), Len(net), right, State(c \in pressed) \in right)
QueueRight(c, right) == Ends(QueueStates(c), Len(xqueue), right, NetRight(c, right))

(***************************************************************************)
(* The invariant.                                                          *)
(***************************************************************************)
XSent == {e \in XEvents :
             /\ e.type \in {"motion", "scroll"} => e.at \in Places /\ e.input = None
             /\ e.type \in {"press", "release"} =>
                   e.input \in Inputs /\ (e.input \in Buttons => e.at \in Places)}

Sent == {e \in InputEvents : /\ e.kind = "key" => e.code # None
                             /\ e.kind # "key" => e.at \in Places}

WellFormed ==
    /\ xqueue \in Seq(XSent) /\ net \in Seq(Sent)
    /\ pendingMotion = << >> \/ \E x \in Sent : x.kind = "move" /\ pendingMotion = <<x>>

Running == ForwardEvents /\ capturing # "ended" /\ inputThread # "ended"

PointerInv == Running => \A p \in Places : pointer = p => QueueAt(Len(xqueue), p)

CodeInv ==
    Running => \A c \in Codes, right \in SUBSET {"down", "up"} :
                  Right(c) = right => QueueRight(c, right)

ScrollInv ==
    Running => \A n \in 1..Len(xqueue), p \in Places :
                  xqueue[n].type = "scroll" /\ xqueue[n].at = p => QueueAt(n - 1, p)

\* A wheel step in s finds the pointer where it was when the user scrolled.
WheelsRight(s) ==
    \A n \in 1..Len(s), p \in Places :
        s[n].kind = "wheel" /\ s[n].at = p =>
            Ends(PlacesIn(s), n - 1, {p}, hostPointer \in {None, p})

WheelInv == inputThread # "ended" => WheelsRight(net)

Inv == TypeOK /\ WellFormed /\ WheelAtPointer
       /\ PointerInv /\ CodeInv /\ ScrollInv /\ WheelInv

-----------------------------------------------------------------------------
LEMMA CodeType == \A i \in Buttons \cup Keys : Code(i) \in Codes \cup {None}
BY DEF Code, Codes

\* What an X event sets, the datagram made of it sets; the place of a wheel step
\* is its own.
LEMMA TranslatedSets ==
    ASSUME NEW e \in XSent, e.type # "motion"
    PROVE  \/ /\ Translated(e) = << >> /\ XPlaceOf(e) = {} /\ e.type # "scroll"
              /\ \A c \in Codes : XStateOf(e, c) = {}
           \/ \E x \in Sent :
                 /\ Translated(e) = <<x>> /\ PlaceOf(x) = XPlaceOf(e)
                 /\ \A c \in Codes : StateOf(x, c) = XStateOf(e, c)
                 /\ x.kind = "wheel" => e.type = "scroll" /\ x.at = e.at
<1>1. /\ e.type \in {"press", "release", "scroll", "unscroll"}
      /\ e.at \in Places \cup {None} /\ e.input \in Inputs \cup {None}
      /\ None \notin Buttons \cup Keys \cup Codes
  BY InputAssumption DEF XSent, XEvents
<1>2. CASE e.type = "scroll"
  <2>1. InputEvent("wheel", e, TRUE) \in Sent
    BY <1>1, <1>2 DEF InputEvent, Sent, InputEvents, XSent
  <2>2. Translated(e) = <<InputEvent("wheel", e, TRUE)>>
    BY <1>2 DEF Translated
  <2> QED BY <1>2, <2>1, <2>2 DEF InputEvent, PlaceOf, StateOf, XPlaceOf, XStateOf
<1>3. CASE e.type \in {"press", "release"} /\ e.input \in Buttons
  <2> DEFINE x == InputEvent("button", e, e.type = "press")
  <2>1. e.input # None /\ Code(e.input) \in Codes \cup {None} /\ e.at \in Places
    BY <1>1, <1>3, CodeType DEF XSent
  <2>2. /\ x.kind = "button" /\ x.at = e.at /\ x.code = Code(e.input)
        /\ x.down = (e.type = "press")
    BY <2>1 DEF InputEvent
  <2>3. x \in Sent
    BY <2>1, <2>2 DEF Sent, InputEvents, InputEvent
  <2>4. Translated(e) = <<x>>
    BY <1>3 DEF Translated, Buttons, Keys
  <2>5. PlaceOf(x) = XPlaceOf(e)
    BY <1>3, <2>2 DEF PlaceOf, XPlaceOf
  <2>6. \A c \in Codes : StateOf(x, c) = XStateOf(e, c)
    BY <1>3, <2>2 DEF StateOf, XStateOf
  <2> QED BY <2>2, <2>3, <2>4, <2>5, <2>6
<1>4. CASE e.type \in {"press", "release"} /\ e.input \notin Buttons /\ Code(e.input) # None
  <2> DEFINE x == InputEvent("key", e, e.type = "press")
  <2>1. /\ e.input \in Keys /\ e.input # None /\ Code(e.input) \in Codes
    BY <1>1, <1>4, CodeType, InputAssumption DEF XSent
  <2>2. /\ x.kind = "key" /\ x.at = e.at /\ x.code = Code(e.input)
        /\ x.down = (e.type = "press")
    BY <2>1 DEF InputEvent
  <2>3. x \in Sent
    BY <1>1, <1>4, <2>1, <2>2 DEF Sent, InputEvents, InputEvent
  <2>4. Translated(e) = <<x>>
    BY <1>4, <2>1 DEF Translated
  <2>5. PlaceOf(x) = XPlaceOf(e)
    BY <1>4, <2>2 DEF PlaceOf, XPlaceOf
  <2>6. \A c \in Codes : StateOf(x, c) = XStateOf(e, c)
    BY <1>4, <2>2 DEF StateOf, XStateOf
  <2> QED BY <2>2, <2>3, <2>4, <2>5, <2>6
<1>5. CASE e.type \in {"press", "release"} /\ e.input \notin Buttons /\ Code(e.input) = None
  BY <1>1, <1>5 DEF Translated, XPlaceOf, XStateOf
<1>6. CASE e.type = "unscroll"
  BY <1>6 DEF Translated, XPlaceOf, XStateOf
<1> QED BY <1>1, <1>2, <1>3, <1>4, <1>5, <1>6

LEMMA InitInv == Init => Inv
<1> SUFFICES ASSUME Init PROVE Inv
  OBVIOUS
<1>1. (CHOOSE p \in Places : TRUE) \in Places
  BY InputAssumption
<1>2. TypeOK
  <2>1. /\ xqueue \in Seq(XEvents) /\ pendingMotion \in Seq(InputEvents)
        /\ net \in Seq(InputEvents) /\ Len(pendingMotion) <= 1
    BY DEF Init
  <2>2. done \in 0..MaxEvents
    BY InputAssumption DEF Init
  <2> QED BY <1>1, <2>1, <2>2 DEF Init, TypeOK
<1>6. WellFormed
  BY DEF Init, WellFormed
<1>7. WheelAtPointer
  BY DEF Init, WheelAtPointer
<1>3. PointerInv
  BY DEF Init, PointerInv, QueueAt, SentAt, NetAt, Ends
<1>4. CodeInv
  <2> SUFFICES ASSUME NEW c \in Codes PROVE QueueRight(c, Right(c))
    BY DEF CodeInv
  <2>1. State(c \in pressed) \in Right(c)
    BY DEF Init, State, Right
  <2> QED BY <2>1 DEF Init, QueueRight, NetRight, Ends
<1>5. ScrollInv /\ WheelInv
  BY DEF Init, ScrollInv, WheelInv, WheelsRight
<1> QED BY <1>2, <1>3, <1>4, <1>5, <1>6, <1>7 DEF Inv

-----------------------------------------------------------------------------
(***************************************************************************)
(* The user.                                                               *)
(***************************************************************************)
\* New X events leave alone what was said of those before them, and the last of
\* them decides.
LEMMA UserDoesKeeps ==
    ASSUME Inv, NEW events \in Seq(XSent), UserDoes(events)
    PROVE  /\ Len(xqueue') = Len(xqueue) + Len(events)
           /\ xqueue' \in Seq(XSent)
           /\ \A m \in 1..Len(xqueue) : xqueue'[m] = xqueue[m]
           /\ \A m \in 1..Len(events) : xqueue'[Len(xqueue) + m] = events[m]
           /\ \A p, n : n \in 0..Len(xqueue) =>
                 (Ends(QueuePlaces', n, {p}, SentAt(p)') <=> QueueAt(n, p))
           /\ \A c, right : Ends(QueueStates(c)', Len(xqueue), right, NetRight(c, right)')
                                <=> QueueRight(c, right)
           /\ UNCHANGED <<captureVars, net, hostVars, windowsVars>>
           /\ done' \in 0..MaxEvents
<1>1. /\ xqueue \in Seq(XSent) /\ xqueue' = xqueue \o events
      /\ UNCHANGED <<captureVars, net, hostVars, windowsVars>>
  BY DEF Inv, WellFormed, UserDoes
<1>2. /\ Len(xqueue') = Len(xqueue) + Len(events)
      /\ xqueue' \in Seq(XSent)
      /\ \A m \in 1..Len(xqueue) : xqueue'[m] = xqueue[m]
      /\ \A m \in 1..Len(events) : xqueue'[Len(xqueue) + m] = events[m]
      /\ Len(xqueue) \in Nat /\ Len(events) \in Nat
  BY <1>1
<1>3. done' \in 0..MaxEvents
  BY InputAssumption DEF Inv, TypeOK, UserDoes
<1>4. \A m \in 1..Len(xqueue) :
         /\ QueuePlaces'[m] = QueuePlaces[m]
         /\ \A c : QueueStates(c)'[m] = QueueStates(c)[m]
  BY <1>2 DEF QueuePlaces, QueueStates
<1>5. /\ \A p : SentAt(p)' <=> SentAt(p)
      /\ \A c, right : NetRight(c, right)' <=> NetRight(c, right)
  BY <1>1 DEF SentAt, NetAt, NetRight, captureVars, windowsVars
<1>6. ASSUME NEW p, NEW n \in 0..Len(xqueue)
      PROVE  Ends(QueuePlaces', n, {p}, SentAt(p)') <=> QueueAt(n, p)
  <2>1. \A m \in 1..n : QueuePlaces'[m] = QueuePlaces[m]
    BY <1>2, <1>4
  <2>2. n \in Nat
    BY <1>2
  <2>3. Ends(QueuePlaces', n, {p}, SentAt(p)') <=> Ends(QueuePlaces, n, {p}, SentAt(p)')
    BY <2>1, <2>2, EndsSame
  <2> QED BY <1>5, <2>3 DEF QueueAt, Ends
<1>7. ASSUME NEW c, NEW right
      PROVE  Ends(QueueStates(c)', Len(xqueue), right, NetRight(c, right)')
                <=> QueueRight(c, right)
  <2>1. Ends(QueueStates(c)', Len(xqueue), right, NetRight(c, right)')
           <=> Ends(QueueStates(c), Len(xqueue), right, NetRight(c, right)')
    BY <1>2, <1>4, EndsSame
  <2> QED BY <1>5, <2>1 DEF QueueRight, Ends
<1> QED BY <1>1, <1>2, <1>3, <1>6, <1>7

LEMMA XEventType ==
    /\ \A p \in Places : XEvent("motion", None, p) \in XSent
    /\ \A i \in Inputs, p \in Places :
          XEvent("press", i, p) \in XSent /\ XEvent("release", i, p) \in XSent
    /\ \A p \in Places :
          XEvent("scroll", None, p) \in XSent /\ XEvent("unscroll", None, p) \in XSent
<1>1. None \notin Keys /\ None \notin Buttons /\ Inputs \subseteq Buttons \cup Keys
  BY InputAssumption
<1> QED BY <1>1 DEF XEvent, XSent, XEvents, Buttons, Keys

\* One X event more: what it sets is what the user has now.
LEMMA OneMoreEvent ==
    ASSUME Inv, NEW x \in XSent, UserDoes(<<x>>),
           x.type # "scroll",
           pointer' \in Places, held' \in SUBSET Inputs,
           IF XPlaceOf(x) = {} THEN pointer' = pointer ELSE XPlaceOf(x) \subseteq {pointer'},
           \A c \in Codes : IF XStateOf(x, c) = {} THEN Right(c)' = Right(c)
                            ELSE XStateOf(x, c) \subseteq Right(c)'
    PROVE  Inv'
<1> DEFINE n == Len(xqueue)
<1>1. /\ Len(xqueue') = n + 1 /\ n \in Nat
      /\ xqueue' \in Seq(XSent)
      /\ \A m \in 1..n : xqueue'[m] = xqueue[m]
      /\ xqueue'[n + 1] = x
      /\ \A p, m : m \in 0..n =>
            (Ends(QueuePlaces', m, {p}, SentAt(p)') <=> QueueAt(m, p))
      /\ \A c, right : Ends(QueueStates(c)', n, right, NetRight(c, right)')
                          <=> QueueRight(c, right)
      /\ UNCHANGED <<captureVars, net, hostVars, windowsVars>>
      /\ done' \in 0..MaxEvents
  <2>1. <<x>> \in Seq(XSent) /\ Len(<<x>>) = 1 /\ <<x>>[1] = x /\ 1 \in 1..1
    OBVIOUS
  <2>2. n \in Nat
    BY DEF Inv, WellFormed
  <2> QED BY <2>1, <2>2, UserDoesKeeps
<1>2. QueuePlaces'[n + 1] = XPlaceOf(x) /\ \A c : QueueStates(c)'[n + 1] = XStateOf(x, c)
  BY <1>1 DEF QueuePlaces, QueueStates
<1> USE DEF Inv
<1>3. TypeOK'
  <2>1. xqueue' \in Seq(XEvents)
    BY <1>1 DEF XSent
  <2> QED BY <1>1, <2>1 DEF TypeOK, captureVars, hostVars, windowsVars
<1>4. WellFormed' /\ WheelAtPointer' /\ WheelInv'
  BY <1>1 DEF WellFormed, WheelAtPointer, WheelInv, WheelsRight, captureVars,
              hostVars, windowsVars
<1>5. Running' => Running
  BY <1>1 DEF Running, captureVars, hostVars
<1>6. PointerInv'
  <2> SUFFICES ASSUME Running', NEW p \in Places, pointer' = p
               PROVE  QueueAt(Len(xqueue), p)'
    BY DEF PointerInv
  <2>1. XPlaceOf(x) = {} => QueueAt(n, p)
    BY <1>5 DEF PointerInv, TypeOK
  <2>2. XPlaceOf(x) = {} => Ends(QueuePlaces', n, {p}, SentAt(p)')
    BY <1>1, <2>1
  <2>3. XPlaceOf(x) # {} => XPlaceOf(x) \subseteq {p}
    OBVIOUS
  <2>4. Ends(QueuePlaces', n + 1, {p}, SentAt(p)')
    <3> HIDE DEF n, Inv
    <3> QED BY <1>1, <1>2, <2>2, <2>3, EndsLast, Zenon
  <2> QED BY <1>1, <2>4 DEF QueueAt
<1>7. CodeInv'
  <2> SUFFICES ASSUME Running', NEW c \in Codes, NEW right \in SUBSET {"down", "up"},
                      Right(c)' = right
               PROVE  QueueRight(c, right)'
    BY DEF CodeInv
  <2>1. XStateOf(x, c) = {} => QueueRight(c, right)
    BY <1>5 DEF CodeInv
  <2>2. XStateOf(x, c) = {} => Ends(QueueStates(c)', n, right, NetRight(c, right)')
    BY <1>1, <2>1
  <2>3. Ends(QueueStates(c)', n + 1, right, NetRight(c, right)')
    BY <1>1, <1>2, <2>2, EndsLast
  <2> QED BY <1>1, <2>3 DEF QueueRight
<1>8. ScrollInv'
  <2> SUFFICES ASSUME Running', NEW m \in 1..Len(xqueue'), NEW p \in Places,
                      xqueue'[m].type = "scroll", xqueue'[m].at = p
               PROVE  QueueAt(m - 1, p)'
    BY DEF ScrollInv
  <2>1. m \in 1..n /\ m - 1 \in 0..n /\ xqueue[m] = xqueue'[m]
    BY <1>1
  <2>2. QueueAt(m - 1, p)
    BY <1>5, <2>1 DEF ScrollInv
  <2> QED BY <1>1, <2>1, <2>2 DEF QueueAt
<1> QED BY <1>3, <1>4, <1>6, <1>7, <1>8

LEMMA UserMovesInv ==
    ASSUME Inv, NEW p \in Places, UserMoves(p)
    PROVE  Inv'
<1> DEFINE x == XEvent("motion", None, p)
<1>1. x \in XSent /\ x.type = "motion" /\ x.at = p
  BY XEventType, InputAssumption DEF XEvent
<1>2. pointer' = p /\ UserDoes(<<x>>) /\ held' = held
  BY DEF UserMoves
<1>3. XPlaceOf(x) = {p} /\ \A c : XStateOf(x, c) = {}
  BY <1>1 DEF XPlaceOf, XStateOf
<1>4. \A c : Right(c)' = Right(c)
  BY <1>2 DEF Right
<1>5. held' \in SUBSET Inputs
  BY <1>2 DEF Inv, TypeOK
<1> QED
  <2> HIDE DEF x
  <2> QED BY <1>1, <1>2, <1>3, <1>4, <1>5, OneMoreEvent

\* A press or a release sets the state of its code, and no other state is any less
\* right for it.
LEMMA UserPressesInv ==
    ASSUME Inv, NEW i \in Inputs, UserPresses(i)
    PROVE  Inv'
<1> DEFINE x == XEvent("press", i, pointer)
<1>1. x \in XSent /\ x.type = "press" /\ x.input = i
      /\ (i \in Buttons => x.at = pointer)
  BY XEventType, InputAssumption DEF Inv, TypeOK, XEvent, Buttons, Keys
<1>2. pointer' = pointer /\ UserDoes(<<x>>) /\ held' = held \cup {i}
  BY DEF UserPresses
<1>3. /\ XPlaceOf(x) = {} \/ XPlaceOf(x) = {pointer}
      /\ \A c : XStateOf(x, c) = IF Code(i) = c THEN {"down"} ELSE {}
  BY <1>1 DEF XPlaceOf, XStateOf, State
<1>4. ASSUME NEW c \in Codes
      PROVE  IF XStateOf(x, c) = {} THEN Right(c)' = Right(c)
             ELSE XStateOf(x, c) \subseteq Right(c)'
  BY <1>2, <1>3 DEF Right
<1>5. pointer' \in Places /\ held' \in SUBSET Inputs
  BY <1>2 DEF Inv, TypeOK
<1>6. IF XPlaceOf(x) = {} THEN pointer' = pointer ELSE XPlaceOf(x) \subseteq {pointer'}
  BY <1>2, <1>3
<1> QED
  <2> HIDE DEF x
  <2> QED BY <1>1, <1>2, <1>4, <1>5, <1>6, OneMoreEvent

LEMMA UserReleasesInv ==
    ASSUME Inv, NEW i \in Inputs, UserReleases(i)
    PROVE  Inv'
<1> DEFINE x == XEvent("release", i, pointer)
<1>1. x \in XSent /\ x.type = "release" /\ x.input = i
      /\ (i \in Buttons => x.at = pointer)
  BY XEventType, InputAssumption DEF Inv, TypeOK, XEvent, Buttons, Keys
<1>2. pointer' = pointer /\ UserDoes(<<x>>) /\ held' = held \ {i} /\ held \in SUBSET Inputs
  BY DEF UserReleases, Inv, TypeOK
<1>3. /\ XPlaceOf(x) = {} \/ XPlaceOf(x) = {pointer}
      /\ \A c : XStateOf(x, c) = IF Code(i) = c THEN {"up"} ELSE {}
  BY <1>1 DEF XPlaceOf, XStateOf, State
<1>4. ASSUME NEW c \in Codes
      PROVE  IF XStateOf(x, c) = {} THEN Right(c)' = Right(c)
             ELSE XStateOf(x, c) \subseteq Right(c)'
  <2>1. CASE Code(i) = c
    <3>1. \A j \in held' : Code(j) = c => Shared(j)
      BY <1>2, <2>1 DEF Shared
    <3> QED BY <1>3, <2>1, <3>1 DEF Right
  <2>2. CASE Code(i) # c
    BY <1>2, <1>3, <2>2 DEF Right
  <2> QED BY <2>1, <2>2
<1>5. pointer' \in Places /\ held' \in SUBSET Inputs
  BY <1>2 DEF Inv, TypeOK
<1>6. IF XPlaceOf(x) = {} THEN pointer' = pointer ELSE XPlaceOf(x) \subseteq {pointer'}
  BY <1>2, <1>3
<1> QED
  <2> HIDE DEF x
  <2> QED BY <1>1, <1>2, <1>4, <1>5, <1>6, OneMoreEvent

\* A wheel step sets nothing, and Windows' pointer will be at its place by then.
LEMMA UserScrollsInv ==
    ASSUME Inv, UserScrolls
    PROVE  Inv'
<1> DEFINE x == XEvent("scroll", None, pointer)
           y == XEvent("unscroll", None, pointer)
           n == Len(xqueue)
<1>1. /\ x \in XSent /\ x.type = "scroll" /\ x.at = pointer
      /\ y \in XSent /\ y.type = "unscroll"
      /\ pointer \in Places
  BY XEventType, InputAssumption DEF Inv, TypeOK, XEvent, Keys
<1>2. pointer' = pointer /\ UserDoes(<<x, y>>) /\ held' = held
  BY DEF UserScrolls
<1>3. /\ XPlaceOf(x) = {} /\ XPlaceOf(y) = {}
      /\ \A c : XStateOf(x, c) = {} /\ XStateOf(y, c) = {}
  BY <1>1 DEF XPlaceOf, XStateOf
<1> HIDE DEF x, y
<1>4. /\ Len(xqueue') = n + 2 /\ n \in Nat
      /\ xqueue' \in Seq(XSent)
      /\ \A m \in 1..n : xqueue'[m] = xqueue[m]
      /\ xqueue'[n + 1] = x /\ xqueue'[n + 2] = y
      /\ \A p, m : m \in 0..n =>
            (Ends(QueuePlaces', m, {p}, SentAt(p)') <=> QueueAt(m, p))
      /\ \A c, right : Ends(QueueStates(c)', n, right, NetRight(c, right)')
                          <=> QueueRight(c, right)
      /\ UNCHANGED <<captureVars, net, hostVars, windowsVars>>
      /\ done' \in 0..MaxEvents
  <2>1. /\ <<x, y>> \in Seq(XSent) /\ Len(<<x, y>>) = 2
        /\ <<x, y>>[1] = x /\ <<x, y>>[2] = y /\ 1 \in 1..2 /\ 2 \in 1..2
    BY <1>1
  <2>2. n \in Nat
    BY DEF Inv, WellFormed
  <2> QED BY <1>2, <2>1, <2>2, UserDoesKeeps
<1>5. /\ QueuePlaces'[n + 1] = {} /\ QueuePlaces'[n + 1 + 1] = {}
      /\ \A c : QueueStates(c)'[n + 1] = {} /\ QueueStates(c)'[n + 1 + 1] = {}
  <2>1. n + 1 \in 1..Len(xqueue') /\ n + 1 + 1 \in 1..Len(xqueue') /\ n + 1 + 1 = n + 2
    BY <1>4
  <2> QED BY <1>3, <1>4, <2>1 DEF QueuePlaces, QueueStates
<1> USE DEF Inv
<1>6. TypeOK'
  <2>1. xqueue' \in Seq(XEvents)
    BY <1>4 DEF XSent
  <2> QED BY <1>2, <1>4, <2>1 DEF TypeOK, captureVars, hostVars, windowsVars
<1>7. WellFormed' /\ WheelAtPointer' /\ WheelInv'
  BY <1>4 DEF WellFormed, WheelAtPointer, WheelInv, WheelsRight, captureVars,
              hostVars, windowsVars
<1>8. Running' => Running
  BY <1>4 DEF Running, captureVars, hostVars
<1>9. PointerInv'
  <2> SUFFICES ASSUME Running', NEW p \in Places, pointer' = p
               PROVE  QueueAt(Len(xqueue), p)'
    BY DEF PointerInv
  <2>1. QueueAt(n, p)
    BY <1>2, <1>8 DEF PointerInv
  <2> HIDE DEF n, Inv
  <2>2. Ends(QueuePlaces', n, {p}, SentAt(p)')
    BY <1>4, <2>1
  <2>3. Ends(QueuePlaces', n + 1, {p}, SentAt(p)')
    BY <1>4, <1>5, <2>2, EndsLast
  <2>4. Ends(QueuePlaces', n + 1 + 1, {p}, SentAt(p)')
    BY <1>4, <1>5, <2>3, EndsLast
  <2>5. Len(xqueue') = n + 1 + 1
    BY <1>4
  <2> QED BY <2>4, <2>5 DEF QueueAt
<1>10. CodeInv'
  <2> SUFFICES ASSUME Running', NEW c \in Codes, NEW right \in SUBSET {"down", "up"},
                      Right(c)' = right
               PROVE  QueueRight(c, right)'
    BY DEF CodeInv
  <2>1. QueueRight(c, right)
    BY <1>2, <1>8 DEF CodeInv, Right
  <2> HIDE DEF n, Inv
  <2>2. Ends(QueueStates(c)', n, right, NetRight(c, right)')
    BY <1>4, <2>1
  <2>3. Ends(QueueStates(c)', n + 1, right, NetRight(c, right)')
    BY <1>4, <1>5, <2>2, EndsLast
  <2>4. Ends(QueueStates(c)', n + 1 + 1, right, NetRight(c, right)')
    BY <1>4, <1>5, <2>3, EndsLast
  <2>5. Len(xqueue') = n + 1 + 1
    BY <1>4
  <2> QED BY <2>4, <2>5 DEF QueueRight
<1>11. ScrollInv'
  <2> SUFFICES ASSUME Running', NEW m \in 1..Len(xqueue'), NEW p \in Places,
                      xqueue'[m].type = "scroll", xqueue'[m].at = p
               PROVE  QueueAt(m - 1, p)'
    BY DEF ScrollInv
  <2>1. m \in 1..n \/ m = n + 1 \/ m = n + 2
    BY <1>4
  <2>2. m # n + 2
    BY <1>1, <1>4
  <2>3. CASE m \in 1..n
    <3>1. m - 1 \in 0..n /\ xqueue[m] = xqueue'[m]
      BY <1>4, <2>3
    <3>2. QueueAt(m - 1, p)
      BY <1>8, <2>3, <3>1 DEF ScrollInv
    <3> QED BY <1>4, <3>1, <3>2 DEF QueueAt
  <2>4. CASE m = n + 1
    <3>1. p = pointer /\ m - 1 = n /\ n \in 0..n
      BY <1>1, <1>4, <2>4
    <3>2. QueueAt(n, p)
      BY <1>8, <3>1 DEF PointerInv
    <3>3. Ends(QueuePlaces', n, {p}, SentAt(p)')
      BY <1>4, <3>1, <3>2
    <3> QED BY <3>1, <3>3 DEF QueueAt
  <2> QED BY <2>1, <2>2, <2>3, <2>4
<1> QED BY <1>6, <1>7, <1>9, <1>10, <1>11

-----------------------------------------------------------------------------
(***************************************************************************)
(* The capture thread.                                                     *)
(***************************************************************************)
LEMMA AppendEnds ==
    ASSUME NEW s \in Seq(Sent), NEW x \in Sent
    PROVE  /\ Append(s, x) \in Seq(Sent)
           /\ \A allowed, before :
                 Ends(PlacesIn(Append(s, x)), Len(Append(s, x)), allowed, before) <=>
                     IF PlaceOf(x) = {} THEN Ends(PlacesIn(s), Len(s), allowed, before)
                     ELSE PlaceOf(x) \subseteq allowed
           /\ \A c, allowed, before :
                 Ends(StatesIn(Append(s, x), c), Len(Append(s, x)), allowed, before) <=>
                     IF StateOf(x, c) = {} THEN Ends(StatesIn(s, c), Len(s), allowed, before)
                     ELSE StateOf(x, c) \subseteq allowed
           /\ \A n, allowed, before : n \in 0..Len(s) =>
                 (Ends(PlacesIn(Append(s, x)), n, allowed, before) <=>
                     Ends(PlacesIn(s), n, allowed, before))
<1> DEFINE w == Append(s, x)
           n == Len(s)
<1>1. /\ w \in Seq(Sent) /\ Len(w) = n + 1 /\ n \in Nat /\ w[n + 1] = x
      /\ \A m \in 1..n : w[m] = s[m]
  OBVIOUS
<1> HIDE DEF w, n
<1>2. /\ \A m \in 1..n : PlacesIn(w)[m] = PlacesIn(s)[m]
      /\ PlacesIn(w)[n + 1] = PlaceOf(x)
      /\ \A c : StatesIn(w, c)[n + 1] = StateOf(x, c)
      /\ \A c : \A m \in 1..n : StatesIn(w, c)[m] = StatesIn(s, c)[m]
  BY <1>1 DEF PlacesIn, StatesIn, n
<1>3. ASSUME NEW allowed, NEW before, NEW m \in 0..n
      PROVE  Ends(PlacesIn(w), m, allowed, before) <=> Ends(PlacesIn(s), m, allowed, before)
  <2>1. m \in Nat /\ \A k \in 1..m : PlacesIn(w)[k] = PlacesIn(s)[k]
    BY <1>1, <1>2
  <2> QED BY <2>1, EndsSame
<1>4. ASSUME NEW allowed, NEW before
      PROVE  Ends(PlacesIn(w), n + 1, allowed, before) <=>
                 IF PlaceOf(x) = {} THEN Ends(PlacesIn(s), n, allowed, before)
                 ELSE PlaceOf(x) \subseteq allowed
  <2>1. n \in 0..n
    BY <1>1
  <2>2. Ends(PlacesIn(w), n, allowed, before) <=> Ends(PlacesIn(s), n, allowed, before)
    BY <1>3, <2>1
  <2> QED BY <1>1, <1>2, <2>2, EndsLast
<1>5. ASSUME NEW c, NEW allowed, NEW before
      PROVE  Ends(StatesIn(w, c), n + 1, allowed, before) <=>
                 IF StateOf(x, c) = {} THEN Ends(StatesIn(s, c), n, allowed, before)
                 ELSE StateOf(x, c) \subseteq allowed
  <2>1. Ends(StatesIn(w, c), n, allowed, before) <=> Ends(StatesIn(s, c), n, allowed, before)
    BY <1>1, <1>2, EndsSame
  <2> QED BY <1>1, <1>2, <2>1, EndsLast
<1> QED BY <1>1, <1>3, <1>4, <1>5 DEF w, n

LEMMA AppendWheels ==
    ASSUME NEW s \in Seq(Sent), NEW x \in Sent, WheelsRight(s),
           x.kind = "wheel" =>
               Ends(PlacesIn(s), Len(s), {x.at}, hostPointer \in {None, x.at})
    PROVE  WheelsRight(Append(s, x))
<1> SUFFICES ASSUME NEW n \in 1..Len(Append(s, x)), NEW p \in Places,
                    Append(s, x)[n].kind = "wheel", Append(s, x)[n].at = p
             PROVE  Ends(PlacesIn(Append(s, x)), n - 1, {p}, hostPointer \in {None, p})
  BY DEF WheelsRight
<1>1. n - 1 \in 0..Len(s)
  OBVIOUS
<1>2. CASE n \in 1..Len(s)
  <2>1. s[n].kind = "wheel" /\ s[n].at = p
    BY <1>2
  <2>2. Ends(PlacesIn(s), n - 1, {p}, hostPointer \in {None, p})
    BY <1>2, <2>1 DEF WheelsRight
  <2> QED BY <1>1, <2>2, AppendEnds
<1>3. CASE n = Len(s) + 1
  <2>1. x.kind = "wheel" /\ x.at = p /\ n - 1 = Len(s)
    BY <1>3
  <2>2. Ends(PlacesIn(s), n - 1, {p}, hostPointer \in {None, p})
    BY <2>1
  <2> QED BY <1>1, <2>2, AppendEnds
<1> QED BY <1>2, <1>3

\* What has been sent once the motion kept back is sent.
Mid == net \o pendingMotion

LEMMA MidEnds ==
    ASSUME WellFormed
    PROVE  /\ Mid \in Seq(Sent)
           /\ \A p : SentAt(p) <=>
                 Ends(PlacesIn(Mid), Len(Mid), {p}, hostPointer \in {None, p})
           /\ \A c, right : NetRight(c, right) <=>
                 Ends(StatesIn(Mid, c), Len(Mid), right, State(c \in pressed) \in right)
           /\ WheelsRight(net) => WheelsRight(Mid)
<1>1. CASE pendingMotion = << >>
  <2>1. Mid = net
    BY <1>1 DEF Mid, WellFormed
  <2> QED BY <1>1, <2>1 DEF SentAt, NetAt, NetRight, WellFormed
<1>2. ASSUME NEW x \in Sent, x.kind = "move", pendingMotion = <<x>>
      PROVE  /\ Mid \in Seq(Sent)
             /\ \A p : SentAt(p) <=>
                   Ends(PlacesIn(Mid), Len(Mid), {p}, hostPointer \in {None, p})
             /\ \A c, right : NetRight(c, right) <=>
                   Ends(StatesIn(Mid, c), Len(Mid), right, State(c \in pressed) \in right)
             /\ WheelsRight(net) => WheelsRight(Mid)
  <2>1. Mid = Append(net, x) /\ net \in Seq(Sent)
    BY <1>2 DEF Mid, WellFormed
  <2>2. PlaceOf(x) = {x.at} /\ \A c : StateOf(x, c) = {}
    BY <1>2 DEF PlaceOf, StateOf
  <2>3. \A p : SentAt(p) <=> {x.at} \subseteq {p}
    BY <1>2 DEF SentAt
  <2>4. WheelsRight(net) => WheelsRight(Mid)
    BY <1>2, <2>1, AppendWheels
  <2>5. Mid \in Seq(Sent)
    BY <2>1, AppendEnds
  <2>6. ASSUME NEW p
        PROVE  SentAt(p) <=> Ends(PlacesIn(Mid), Len(Mid), {p}, hostPointer \in {None, p})
    BY <2>1, <2>2, <2>3, AppendEnds
  <2>7. ASSUME NEW c, NEW right
        PROVE  NetRight(c, right) <=>
                   Ends(StatesIn(Mid, c), Len(Mid), right, State(c \in pressed) \in right)
    BY <2>1, <2>2, AppendEnds DEF NetRight
  <2> QED BY <2>4, <2>5, <2>6, <2>7
<1> QED BY <1>1, <1>2 DEF WellFormed

\* Taking an X event shortens the way of the others, and no more, if what it sets is
\* set behind it.
LEMMA TakenKeepsEnds ==
    ASSUME WellFormed, xqueue # << >>, xqueue' = Tail(xqueue),
           \A p : SentAt(p)' <=> IF XPlaceOf(Head(xqueue)) = {} THEN SentAt(p)
                                 ELSE XPlaceOf(Head(xqueue)) \subseteq {p},
           \A c \in Codes : \A right :
               NetRight(c, right)' <=> IF XStateOf(Head(xqueue), c) = {} THEN NetRight(c, right)
                                       ELSE XStateOf(Head(xqueue), c) \subseteq right,
           Running, Running', UNCHANGED <<pointer, held>>,
           PointerInv, CodeInv, ScrollInv
    PROVE  PointerInv' /\ CodeInv' /\ ScrollInv'
<1>1. PICK n \in Nat : Len(xqueue) = n + 1
  <2>1. Len(xqueue) \in Nat /\ Len(xqueue) # 0
    BY DEF WellFormed
  <2> QED BY <2>1
<1>2. /\ Len(xqueue') = n
      /\ \A m \in 1..n : m + 1 \in 1..(n + 1) /\ xqueue'[m] = xqueue[m + 1]
      /\ 1 \in 1..(n + 1) /\ xqueue[1] = Head(xqueue)
  BY <1>1 DEF WellFormed
<1>3. /\ \A m \in 1..n : QueuePlaces'[m] = QueuePlaces[m + 1]
      /\ \A c : \A m \in 1..n : QueueStates(c)'[m] = QueueStates(c)[m + 1]
      /\ QueuePlaces[1] = XPlaceOf(Head(xqueue))
      /\ \A c : QueueStates(c)[1] = XStateOf(Head(xqueue), c)
  BY <1>1, <1>2 DEF QueuePlaces, QueueStates
<1>4. ASSUME NEW p, NEW m \in 0..n, QueueAt(m + 1, p)
      PROVE  QueueAt(m, p)'
  <2>1. SentAt(p)' <=> IF QueuePlaces[1] = {} THEN SentAt(p) ELSE QueuePlaces[1] \subseteq {p}
    BY <1>3
  <2>2. m \in Nat /\ \A k \in 1..m : QueuePlaces'[k] = QueuePlaces[k + 1]
    BY <1>1, <1>3
  <2>3. Ends(QueuePlaces, m + 1, {p}, SentAt(p)) <=> Ends(QueuePlaces', m, {p}, SentAt(p)')
    BY <2>1, <2>2, EndsFirst
  <2> QED BY <1>4, <2>3 DEF QueueAt
<1>5. ASSUME NEW c \in Codes, NEW right, QueueRight(c, right)
      PROVE  QueueRight(c, right)'
  <2>1. NetRight(c, right)' <=> IF QueueStates(c)[1] = {} THEN NetRight(c, right)
                                ELSE QueueStates(c)[1] \subseteq right
    BY <1>3
  <2>2. \A m \in 1..n : QueueStates(c)'[m] = QueueStates(c)[m + 1]
    BY <1>3
  <2>3. Ends(QueueStates(c), n + 1, right, NetRight(c, right))
           <=> Ends(QueueStates(c)', n, right, NetRight(c, right)')
    BY <2>1, <2>2, EndsFirst
  <2> QED BY <1>1, <1>2, <1>5, <2>3 DEF QueueRight
<1>6. PointerInv'
  <2> SUFFICES ASSUME NEW p \in Places, pointer' = p
               PROVE  Ends(QueuePlaces', n, {p}, SentAt(p)')
    BY <1>2 DEF PointerInv, QueueAt
  <2>1. QueueAt(n + 1, p) /\ n \in 0..n
    BY <1>1 DEF PointerInv
  <2> QED BY <1>4, <2>1 DEF QueueAt
<1>7. CodeInv'
  <2> SUFFICES ASSUME NEW c \in Codes, NEW right \in SUBSET {"down", "up"}, Right(c)' = right
               PROVE  QueueRight(c, right)'
    BY DEF CodeInv
  <2>1. Right(c) = right
    BY DEF Right
  <2> QED BY <1>5, <2>1 DEF CodeInv
<1>8. ScrollInv'
  <2> SUFFICES ASSUME NEW k \in 1..n, NEW p \in Places,
                      xqueue'[k].type = "scroll", xqueue'[k].at = p
               PROVE  Ends(QueuePlaces', k - 1, {p}, SentAt(p)')
    BY <1>2 DEF ScrollInv, QueueAt
  <2>1. /\ k + 1 \in 1..Len(xqueue) /\ k - 1 \in 0..n /\ (k + 1) - 1 = (k - 1) + 1
        /\ xqueue[k + 1] = xqueue'[k]
    BY <1>1, <1>2
  <2>2. QueueAt((k - 1) + 1, p)
    BY <2>1 DEF ScrollInv
  <2> QED BY <1>4, <2>1, <2>2 DEF QueueAt
<1> QED BY <1>6, <1>7, <1>8

\* The motion kept back and the event are sent.
LEMMA SendsBoth ==
    ASSUME Inv, Running, xqueue # << >>, Head(xqueue).type # "motion",
           net' = Mid \o Translated(Head(xqueue)), pendingMotion' = << >>,
           UNCHANGED <<hostPointer, pressed>>
    PROVE  /\ net' \in Seq(Sent)
           /\ \A p : SentAt(p)' <=> IF XPlaceOf(Head(xqueue)) = {} THEN SentAt(p)
                                    ELSE XPlaceOf(Head(xqueue)) \subseteq {p}
           /\ \A c \in Codes : \A right :
                 NetRight(c, right)' <=> IF XStateOf(Head(xqueue), c) = {} THEN NetRight(c, right)
                                         ELSE XStateOf(Head(xqueue), c) \subseteq right
           /\ WheelsRight(net)'
<1> DEFINE e == Head(xqueue)
<1>1. e \in XSent /\ 1 \in 1..Len(xqueue) /\ xqueue[1] = e
  BY DEF Inv, WellFormed
<1>2. /\ Mid \in Seq(Sent)
      /\ \A p : SentAt(p) <=> Ends(PlacesIn(Mid), Len(Mid), {p}, hostPointer \in {None, p})
      /\ \A c, right : NetRight(c, right) <=>
            Ends(StatesIn(Mid, c), Len(Mid), right, State(c \in pressed) \in right)
      /\ WheelsRight(Mid)
  BY MidEnds DEF Inv, WheelInv, Running
<1>3. /\ \A p : SentAt(p)' <=> Ends(PlacesIn(net'), Len(net'), {p}, hostPointer \in {None, p})
      /\ \A c, right : NetRight(c, right)' <=>
            Ends(StatesIn(net', c), Len(net'), right, State(c \in pressed) \in right)
      /\ WheelsRight(net)' <=> WheelsRight(net')
  BY DEF SentAt, NetAt, NetRight, WheelsRight
<1> HIDE DEF e
<1>4. CASE /\ Translated(e) = << >> /\ XPlaceOf(e) = {} /\ e.type # "scroll"
           /\ \A c \in Codes : XStateOf(e, c) = {}
  <2>1. net' = Mid
    BY <1>2, <1>4 DEF e
  <2> QED BY <1>2, <1>3, <1>4, <2>1 DEF e
<1>5. ASSUME NEW x \in Sent, Translated(e) = <<x>>, PlaceOf(x) = XPlaceOf(e),
             \A c \in Codes : StateOf(x, c) = XStateOf(e, c),
             x.kind = "wheel" => e.type = "scroll" /\ x.at = e.at
      PROVE  /\ net' \in Seq(Sent)
             /\ \A p : SentAt(p)' <=> IF XPlaceOf(e) = {} THEN SentAt(p)
                                      ELSE XPlaceOf(e) \subseteq {p}
             /\ \A c \in Codes : \A right :
                   NetRight(c, right)' <=> IF XStateOf(e, c) = {} THEN NetRight(c, right)
                                           ELSE XStateOf(e, c) \subseteq right
             /\ WheelsRight(net)'
  <2>1. net' = Append(Mid, x) /\ net' \in Seq(Sent)
    <3>1. net' = Mid \o <<x>>
      BY <1>5 DEF e
    <3>2. Mid \o <<x>> = Append(Mid, x) /\ Append(Mid, x) \in Seq(Sent)
      BY <1>2
    <3> QED BY <3>1, <3>2
  <2>2. ASSUME NEW p
        PROVE  SentAt(p)' <=> IF XPlaceOf(e) = {} THEN SentAt(p) ELSE XPlaceOf(e) \subseteq {p}
    <3> DEFINE before == hostPointer \in {None, p}
    <3> HIDE DEF before
    <3>1. Ends(PlacesIn(net'), Len(net'), {p}, before) <=>
              IF PlaceOf(x) = {} THEN Ends(PlacesIn(Mid), Len(Mid), {p}, before)
              ELSE PlaceOf(x) \subseteq {p}
      BY <1>2, <2>1, AppendEnds
    <3>2. /\ SentAt(p)' <=> Ends(PlacesIn(net'), Len(net'), {p}, before)
          /\ SentAt(p) <=> Ends(PlacesIn(Mid), Len(Mid), {p}, before)
      BY <1>2, <1>3 DEF before
    <3> QED BY <1>5, <3>1, <3>2
  <2>3. ASSUME NEW c \in Codes, NEW right
        PROVE  NetRight(c, right)' <=> IF XStateOf(e, c) = {} THEN NetRight(c, right)
                                       ELSE XStateOf(e, c) \subseteq right
    <3> DEFINE before == State(c \in pressed) \in right
    <3> HIDE DEF before
    <3>1. Ends(StatesIn(net', c), Len(net'), right, before) <=>
              IF StateOf(x, c) = {} THEN Ends(StatesIn(Mid, c), Len(Mid), right, before)
              ELSE StateOf(x, c) \subseteq right
      BY <1>2, <2>1, AppendEnds
    <3>2. /\ NetRight(c, right)' <=> Ends(StatesIn(net', c), Len(net'), right, before)
          /\ NetRight(c, right) <=> Ends(StatesIn(Mid, c), Len(Mid), right, before)
      BY <1>2, <1>3 DEF before
    <3> QED BY <1>5, <3>1, <3>2
  <2>4. ASSUME x.kind = "wheel"
        PROVE  Ends(PlacesIn(Mid), Len(Mid), {x.at}, hostPointer \in {None, x.at})
    <3>1. x.at \in Places /\ e.type = "scroll" /\ e.at = x.at
      BY <1>5, <2>4 DEF Sent
    <3>2. QueueAt(1 - 1, x.at)
      BY <1>1, <3>1 DEF Inv, ScrollInv
    <3>3. SentAt(x.at)
      BY <3>2, EndsNone DEF QueueAt
    <3> QED BY <1>2, <3>3
  <2>5. WheelsRight(net)'
    BY <1>2, <1>3, <2>1, <2>4, AppendWheels
  <2> QED BY <2>1, <2>2, <2>3, <2>5
<1> QED BY <1>1, <1>4, <1>5, TranslatedSets DEF e

LEMMA WellFormedTypes ==
    ASSUME WellFormed'
    PROVE  /\ xqueue' \in Seq(XEvents) /\ net' \in Seq(InputEvents)
           /\ pendingMotion' \in Seq(InputEvents) /\ Len(pendingMotion') <= 1
<1>1. XSent \subseteq XEvents /\ Sent \subseteq InputEvents
  BY DEF XSent, Sent
<1>2. xqueue' \in Seq(XEvents) /\ net' \in Seq(InputEvents)
  BY <1>1 DEF WellFormed
<1>3. CASE pendingMotion' = << >>
  BY <1>2, <1>3
<1>4. ASSUME NEW x \in Sent, pendingMotion' = <<x>>
      PROVE  pendingMotion' \in Seq(InputEvents) /\ Len(pendingMotion') <= 1
  BY <1>1, <1>4
<1> QED BY <1>2, <1>3, <1>4 DEF WellFormed

LEMMA KeptBackType == WellFormed => pendingMotion \in Seq(Sent)
<1>1. ASSUME NEW x \in Sent, pendingMotion = <<x>>
      PROVE  pendingMotion \in Seq(Sent)
  <2>1. <<x>> \in Seq(Sent)
    OBVIOUS
  <2> QED BY <1>1, <2>1
<1>2. CASE pendingMotion = << >>
  BY <1>2
<1> QED BY <1>1, <1>2 DEF WellFormed

\* Of one element and another.
LEMMA OneAndOne ==
    ASSUME NEW S, NEW m \in S, NEW x \in S
    PROVE  /\ << >> \o << >> = << >> /\ << >> \o <<x>> = <<x>> /\ Len(<<x>>) = 1
           /\ <<m>> \o << >> = <<m>> /\ Len(<<m>>) = 1
           /\ Len(<<m>> \o <<x>>) = 2
           /\ SubSeq(<<m>> \o <<x>>, 1, 1) = <<m>>
<1> DEFINE s == <<m>>
<1>1. s \in Seq(S) /\ Len(s) = 1
  OBVIOUS
<1> HIDE DEF s
<1>2. s \o <<x>> = Append(s, x)
  BY <1>1
<1>3. Len(Append(s, x)) = 2
  BY <1>1
<1>4. SubSeq(Append(s, x), 1, 1) = s
  BY <1>1
<1>5. s \o << >> = s
  BY <1>1
<1>6. \A r \in Seq(S) : << >> \o r = r
  OBVIOUS
<1>7. << >> \in Seq(S) /\ <<x>> \in Seq(S) /\ Len(<<x>>) = 1
  OBVIOUS
<1> QED BY <1>1, <1>2, <1>3, <1>4, <1>5, <1>6, <1>7 DEF s

\* What is sent of a motion and an event, when the socket refuses one of them.
LEMMA RefusedSends ==
    ASSUME WellFormed, NEW events, NEW x \in Sent,
           events = << >> \/ events = <<x>>, SendAll(pendingMotion \o events, FALSE)
    PROVE  net' = net \/ net' = Mid
<1>1. PICK k \in 1..Len(pendingMotion \o events) :
         net' = net \o SubSeq(pendingMotion \o events, 1, k - 1)
  BY DEF SendAll
<1>2. net \in Seq(Sent) /\ net \o << >> = net
  BY DEF WellFormed
<1>3. CASE k = 1
  <2>1. \A s : SubSeq(s, 1, 0) = << >>
    OBVIOUS
  <2>2. k - 1 = 0
    BY <1>3
  <2> QED BY <1>1, <1>2, <2>1, <2>2
<1>4. ASSUME NEW m \in Sent, pendingMotion = <<m>>, k # 1
      PROVE  net' = Mid
  <2>1. /\ <<m>> \o << >> = <<m>> /\ Len(<<m>>) = 1
        /\ Len(<<m>> \o <<x>>) = 2
        /\ SubSeq(<<m>> \o <<x>>, 1, 1) = <<m>>
    BY OneAndOne
  <2>2. events # << >>
    BY <1>1, <1>4, <2>1
  <2>3. events = <<x>> /\ k \in 1..2
    BY <1>1, <1>4, <2>1, <2>2
  <2>4. k - 1 = 1
    BY <1>4, <2>3
  <2> QED BY <1>1, <1>4, <2>1, <2>3, <2>4 DEF Mid
<1>5. CASE pendingMotion = << >> /\ k # 1
  <2>1. << >> \o << >> = << >> /\ << >> \o <<x>> = <<x>> /\ Len(<<x>>) = 1
    BY OneAndOne
  <2>2. pendingMotion \o events = << >> \/ pendingMotion \o events = <<x>>
    BY <1>5, <2>1
  <2>3. Len(<< >>) = 0
    OBVIOUS
  <2>4. Len(pendingMotion \o events) = 0 \/ Len(pendingMotion \o events) = 1
    BY <2>1, <2>2, <2>3
  <2>5. \A n : k \in 1..n /\ (n = 0 \/ n = 1) => k = 1
    OBVIOUS
  <2>6. k \in 1..Len(pendingMotion \o events)
    BY <1>1
  <2> QED BY <1>5, <2>4, <2>5, <2>6
<1>6. CASE pendingMotion # << >> /\ k # 1
  <2>1. PICK m \in Sent : pendingMotion = <<m>>
    BY <1>6 DEF WellFormed
  <2> QED BY <1>4, <1>6, <2>1
<1> QED BY <1>3, <1>5, <1>6

LEMMA TakeXEventInv ==
    ASSUME Inv, NEW ok \in BOOLEAN, TakeXEvent(ok)
    PROVE  Inv'
<1> DEFINE e == Head(xqueue)
<1> USE DEF Inv
<1>1. /\ xqueue # << >> /\ xqueue' = Tail(xqueue) /\ xqueue' \in Seq(XSent) /\ e \in XSent
      /\ capturing = "draining" /\ capturing' = IF ok THEN "draining" ELSE "ended"
      /\ UNCHANGED <<userVars, hostVars, windowsVars>>
      /\ IF ForwardEvents THEN /\ SendAll(ToSend(e), ok)
                               /\ pendingMotion' = KeptBack(e)
         ELSE ok /\ UNCHANGED <<net, pendingMotion>>
  BY DEF TakeXEvent, WellFormed
<1> HIDE DEF e
<1>2. WheelAtPointer'
  BY <1>1 DEF WheelAtPointer, windowsVars
<1>3. ASSUME WellFormed' PROVE TypeOK'
  BY <1>1, <1>3, WellFormedTypes DEF TypeOK, userVars, hostVars, windowsVars
<1>4. (inputThread # "ended")' <=> inputThread # "ended"
  BY <1>1 DEF hostVars
<1>5. CASE ~ForwardEvents
  <2>1. WellFormed' /\ WheelInv'
    BY <1>1, <1>5 DEF WellFormed, WheelInv, WheelsRight, hostVars, windowsVars
  <2>2. PointerInv' /\ CodeInv' /\ ScrollInv'
    BY <1>5 DEF PointerInv, CodeInv, ScrollInv, Running
  <2> QED BY <1>2, <1>3, <2>1, <2>2
<1>6. CASE ForwardEvents /\ e.type = "motion"
  <2>1. InputEvent("move", e, TRUE) \in Sent /\ InputEvent("move", e, TRUE).at = e.at
        /\ InputEvent("move", e, TRUE).kind = "move"
    BY <1>1, <1>6 DEF XSent, Sent, InputEvents, InputEvent
  <2>2. pendingMotion' = <<InputEvent("move", e, TRUE)>> /\ net' = net /\ ok
    <3>1. ToSend(e) = << >> /\ net \o << >> = net
      BY <1>6 DEF ToSend, WellFormed
    <3>2. KeptBack(e) = <<InputEvent("move", e, TRUE)>>
      BY <1>6 DEF KeptBack
    <3>3. SendAll(<< >>, ok)
      BY <1>1, <1>6, <3>1
    <3>4. ok = TRUE /\ net' = net
      <4>1. CASE ok = TRUE
        BY <3>1, <3>3, <4>1 DEF SendAll
      <4>2. CASE ok = FALSE
        <5>1. Len(<< >>) = 0 /\ 1..0 = {}
          OBVIOUS
        <5> QED BY <3>3, <4>2, <5>1 DEF SendAll
      <4> QED BY <4>1, <4>2
    <3> QED BY <1>1, <1>6, <3>2, <3>4
  <2>3. WellFormed'
    BY <1>1, <2>1, <2>2 DEF WellFormed
  <2>4. WheelInv'
    BY <1>1, <2>2 DEF WheelInv, WheelsRight, hostVars, windowsVars
  <2>5. XPlaceOf(e) = {e.at} /\ \A c : XStateOf(e, c) = {}
    BY <1>6 DEF XPlaceOf, XStateOf
  <2>6. ASSUME NEW p
        PROVE  SentAt(p)' <=> IF XPlaceOf(e) = {} THEN SentAt(p) ELSE XPlaceOf(e) \subseteq {p}
    <3>1. SentAt(p)' <=> e.at = p
      BY <2>1, <2>2 DEF SentAt
    <3> QED BY <2>5, <3>1
  <2>7. ASSUME NEW c \in Codes, NEW right
        PROVE  NetRight(c, right)' <=> IF XStateOf(e, c) = {} THEN NetRight(c, right)
                                       ELSE XStateOf(e, c) \subseteq right
    BY <1>1, <2>2, <2>5 DEF NetRight, windowsVars
  <2>8. PointerInv' /\ CodeInv' /\ ScrollInv'
    <3>1. CASE Running
      <4>1. Running' /\ UNCHANGED <<pointer, held>>
        BY <1>1, <2>2, <3>1 DEF Running, hostVars, userVars
      <4> QED BY <1>1, <2>6, <2>7, <3>1, <4>1, TakenKeepsEnds DEF e
    <3>2. CASE ~Running
      <4>1. ~Running'
        BY <1>1, <3>2 DEF Running, hostVars
      <4> QED BY <4>1 DEF PointerInv, CodeInv, ScrollInv
    <3> QED BY <3>1, <3>2
  <2> QED BY <1>2, <1>3, <2>3, <2>4, <2>8
<1>7. CASE ForwardEvents /\ e.type # "motion"
  <2>1. /\ SendAll(pendingMotion \o Translated(e), ok) /\ pendingMotion' = << >>
    BY <1>1, <1>7 DEF ToSend, KeptBack
  <2>2. /\ Mid \in Seq(Sent)
        /\ WheelsRight(net) => WheelsRight(Mid)
    BY MidEnds
  <2>3. ASSUME net' = net \/ net' = Mid
        PROVE  WellFormed' /\ WheelInv'
    <3>1. WellFormed'
      BY <1>1, <2>1, <2>2, <2>3 DEF WellFormed
    <3>2. WheelsRight(net)' <=> WheelsRight(net')
      BY <1>1 DEF WheelsRight, windowsVars
    <3> QED BY <1>4, <2>2, <2>3, <3>1, <3>2 DEF WheelInv
  <2>4. PICK x \in Sent : Translated(e) = << >> \/ Translated(e) = <<x>>
    <3>1. InputEvent("wheel", [e EXCEPT !.at = CHOOSE p \in Places : TRUE, !.input = None], TRUE) \in Sent
      BY <1>1, InputAssumption DEF InputEvent, Sent, InputEvents, XSent, XEvents
    <3> QED BY <1>1, <1>7, <3>1, TranslatedSets
  <2>5. CASE ~ok
    <3>1. net' = net \/ net' = Mid
      BY <2>1, <2>4, <2>5, RefusedSends
    <3>2. ~Running'
      BY <1>1, <2>5 DEF Running
    <3> QED BY <1>2, <1>3, <2>3, <3>1, <3>2 DEF PointerInv, CodeInv, ScrollInv
  <2>6. CASE ok /\ Running
    <3>1. net' = Mid \o Translated(e)
      <4>1. net' = net \o (pendingMotion \o Translated(e))
        <5>1. ok = TRUE
          BY <2>6
        <5> QED BY <2>1, <5>1 DEF SendAll
      <4>2. pendingMotion \in Seq(Sent) /\ Translated(e) \in Seq(Sent) /\ net \in Seq(Sent)
        <5>1. << >> \in Seq(Sent) /\ <<x>> \in Seq(Sent)
          OBVIOUS
        <5> QED BY <2>4, <5>1, KeptBackType DEF WellFormed
      <4> QED BY <4>1, <4>2 DEF Mid
    <3>2. UNCHANGED <<hostPointer, pressed, pointer, held>> /\ Running'
      BY <1>1, <2>6 DEF windowsVars, userVars, Running, hostVars
    <3>3. /\ net' \in Seq(Sent)
          /\ \A p : SentAt(p)' <=> IF XPlaceOf(e) = {} THEN SentAt(p)
                                   ELSE XPlaceOf(e) \subseteq {p}
          /\ \A c \in Codes : \A right :
                NetRight(c, right)' <=> IF XStateOf(e, c) = {} THEN NetRight(c, right)
                                        ELSE XStateOf(e, c) \subseteq right
          /\ WheelsRight(net)'
      BY <1>1, <1>7, <2>1, <2>6, <3>1, <3>2, SendsBoth DEF e
    <3>4. WellFormed' /\ WheelInv'
      BY <1>1, <2>1, <3>3 DEF WellFormed, WheelInv
    <3>5. PointerInv' /\ CodeInv' /\ ScrollInv'
      BY <1>1, <2>6, <3>2, <3>3, TakenKeepsEnds DEF e
    <3> QED BY <1>2, <1>3, <3>4, <3>5
  <2>7. CASE ok /\ ~Running
    <3>1. inputThread = "ended"
      BY <1>1, <1>7, <2>7 DEF Running
    <3>2. ~Running' /\ WheelInv'
      BY <1>4, <3>1 DEF Running, WheelInv
    <3>3. net' \in Seq(Sent)
      <4>1. net' = net \o (pendingMotion \o Translated(e))
        <5>1. ok = TRUE
          BY <2>7
        <5> QED BY <2>1, <5>1 DEF SendAll
      <4>2. pendingMotion \in Seq(Sent) /\ Translated(e) \in Seq(Sent) /\ net \in Seq(Sent)
        <5>1. << >> \in Seq(Sent) /\ <<x>> \in Seq(Sent)
          OBVIOUS
        <5> QED BY <2>4, <5>1, KeptBackType DEF WellFormed
      <4> QED BY <4>1, <4>2
    <3>4. WellFormed'
      BY <1>1, <2>1, <3>3 DEF WellFormed
    <3> QED BY <1>2, <1>3, <3>2, <3>4 DEF PointerInv, CodeInv, ScrollInv
  <2> QED BY <2>5, <2>6, <2>7
<1> QED BY <1>5, <1>6, <1>7

-----------------------------------------------------------------------------
(***************************************************************************)
(* The end of a batch, the host, and the steps that leave the way alone.   *)
(***************************************************************************)
\* Nothing on the way changes.
LEMMA WayUnchanged ==
    ASSUME Inv, TypeOK', UNCHANGED <<pointer, held, xqueue, pendingMotion, net, windowsVars>>,
           Running' => Running, inputThread' # "ended" => inputThread # "ended"
    PROVE  Inv'
<1> USE DEF Inv
<1>1. WellFormed' /\ WheelAtPointer'
  BY DEF WellFormed, WheelAtPointer, windowsVars
<1>2. WheelInv'
  BY DEF WheelInv, WheelsRight, windowsVars
<1>3. \A n, p : QueueAt(n, p)' <=> QueueAt(n, p)
  BY DEF QueueAt, QueuePlaces, SentAt, NetAt, windowsVars
<1>4. \A c, right : QueueRight(c, right)' <=> QueueRight(c, right)
  BY DEF QueueRight, QueueStates, NetRight, windowsVars
<1>5. PointerInv'
  BY <1>3 DEF PointerInv
<1>6. CodeInv'
  <2>1. \A c : Right(c)' = Right(c)
    BY DEF Right
  <2> QED BY <1>4, <2>1 DEF CodeInv
<1>7. ScrollInv'
  BY <1>3 DEF ScrollInv
<1> QED BY <1>1, <1>2, <1>5, <1>6, <1>7

LEMMA BatchEndsInv ==
    ASSUME Inv, NEW ok \in BOOLEAN, BatchEnds(ok)
    PROVE  Inv'
<1> USE DEF Inv
<1>1. /\ xqueue = << >> /\ pendingMotion' = << >> /\ SendAll(pendingMotion, ok)
      /\ capturing = "draining" /\ capturing' = IF ok THEN "waiting" ELSE "ended"
      /\ UNCHANGED <<userVars, xqueue, hostVars, windowsVars>>
  BY DEF BatchEnds
<1>2. WheelAtPointer'
  BY <1>1 DEF WheelAtPointer, windowsVars
<1>3. ASSUME WellFormed' PROVE TypeOK'
  BY <1>1, <1>3, WellFormedTypes DEF TypeOK, userVars, hostVars, windowsVars
<1>4. /\ Mid \in Seq(Sent)
      /\ \A p : SentAt(p) <=>
            Ends(PlacesIn(Mid), Len(Mid), {p}, hostPointer \in {None, p})
      /\ \A c, right : NetRight(c, right) <=>
            Ends(StatesIn(Mid, c), Len(Mid), right, State(c \in pressed) \in right)
      /\ WheelsRight(net) => WheelsRight(Mid)
  BY MidEnds
<1>5. net' = net \/ net' = Mid
  <2>1. CASE ok = TRUE
    BY <1>1, <2>1 DEF SendAll, Mid
  <2>2. CASE ok = FALSE
    <3>1. InputEvent("wheel", [input |-> None, at |-> CHOOSE p \in Places : TRUE], TRUE) \in Sent
      BY InputAssumption DEF InputEvent, Sent, InputEvents
    <3>2. pendingMotion \o << >> = pendingMotion
      BY KeptBackType
    <3>3. SendAll(pendingMotion \o << >>, FALSE)
      BY <1>1, <2>2, <3>2
    <3> QED BY <3>1, <3>3, RefusedSends
  <2> QED BY <2>1, <2>2
<1>6. WellFormed' /\ WheelInv'
  <2>1. WellFormed'
    BY <1>1, <1>4, <1>5 DEF WellFormed
  <2>2. WheelsRight(net)' <=> WheelsRight(net')
    BY <1>1 DEF WheelsRight, windowsVars
  <2> QED BY <1>1, <1>4, <1>5, <2>1, <2>2 DEF WheelInv, hostVars
<1>7. CASE ~ok
  <2>1. ~Running'
    BY <1>1, <1>7 DEF Running
  <2> QED BY <1>2, <1>3, <1>6, <2>1 DEF PointerInv, CodeInv, ScrollInv
<1>8. CASE ok
  <2>1. net' = Mid
    <3>1. ok = TRUE
      BY <1>8
    <3> QED BY <1>1, <3>1 DEF SendAll, Mid
  <2>2. \A p : SentAt(p)' <=> SentAt(p)
    <3>1. \A p : SentAt(p)' <=>
             Ends(PlacesIn(Mid), Len(Mid), {p}, hostPointer \in {None, p})
      BY <1>1, <2>1 DEF SentAt, NetAt, windowsVars
    <3> QED BY <1>4, <3>1
  <2>3. \A c, right : NetRight(c, right)' <=> NetRight(c, right)
    <3>1. \A c, right : NetRight(c, right)' <=>
             Ends(StatesIn(Mid, c), Len(Mid), right, State(c \in pressed) \in right)
      BY <1>1, <2>1 DEF NetRight, windowsVars
    <3> QED BY <1>4, <3>1
  <2>4. Running' => Running
    BY <1>1 DEF Running, hostVars
  <2>5. PointerInv'
    <3>1. \A n, p : QueueAt(n, p)' <=> QueueAt(n, p)
      BY <1>1, <2>2 DEF QueueAt, QueuePlaces, Ends
    <3> QED BY <1>1, <2>4, <3>1 DEF PointerInv, userVars
  <2>6. CodeInv'
    <3>1. \A c, right : QueueRight(c, right)' <=> QueueRight(c, right)
      BY <1>1, <2>3 DEF QueueRight, QueueStates, Ends
    <3>2. \A c : Right(c)' = Right(c)
      BY <1>1 DEF Right, userVars
    <3> QED BY <2>4, <3>1, <3>2 DEF CodeInv
  <2>7. ScrollInv'
    BY <1>1 DEF ScrollInv
  <2> QED BY <1>2, <1>3, <1>6, <2>5, <2>6, <2>7
<1> QED BY <1>7, <1>8

\* The first event sets no value, or one.
LEMMA EndsFirstNone ==
    ASSUME NEW v, NEW w, NEW n \in Nat, NEW allowed, NEW before,
           \A m \in 1..n : w[m] = v[m + 1], v[1] = {}
    PROVE  Ends(v, n + 1, allowed, before) <=> Ends(w, n, allowed, before)
BY EndsFirst

LEMMA EndsFirstSets ==
    ASSUME NEW v, NEW w, NEW n \in Nat, NEW allowed, NEW before,
           \A m \in 1..n : w[m] = v[m + 1], v[1] # {}
    PROVE  Ends(v, n + 1, allowed, before) <=> Ends(w, n, allowed, v[1] \subseteq allowed)
BY EndsFirst

\* The same of the places of datagrams: the pointer is at here, and at there when
\* the first of them has been applied.
LEMMA TailPlaces ==
    ASSUME NEW s, NEW t, NEW k \in Nat, NEW p, NEW here, NEW there,
           k < Len(s), Len(s) \in Nat, k <= Len(t), Len(t) \in Nat,
           \A m \in 1..k : t[m] = s[m + 1],
           there \in {None, p} <=> IF PlaceOf(s[1]) = {} THEN here \in {None, p}
                                  ELSE PlaceOf(s[1]) \subseteq {p}
    PROVE  Ends(PlacesIn(s), k + 1, {p}, here \in {None, p})
              <=> Ends(PlacesIn(t), k, {p}, there \in {None, p})
<1> DEFINE places == PlacesIn(s)
           placesAfter == PlacesIn(t)
           allowed == {p}
           before == here \in {None, p}
           after == there \in {None, p}
<1>1. \A m \in 1..k : placesAfter[m] = places[m + 1]
  BY DEF PlacesIn
<1>2. places[1] = PlaceOf(s[1])
  BY DEF PlacesIn
<1>3. after <=> IF places[1] = {} THEN before ELSE places[1] \subseteq allowed
  BY <1>2
<1> HIDE DEF places, placesAfter, allowed, before, after
<1>4. Ends(places, k + 1, allowed, before) <=> Ends(placesAfter, k, allowed, after)
  <2>1. CASE places[1] = {}
    <3>1. Ends(places, k + 1, allowed, before) <=> Ends(placesAfter, k, allowed, before)
      BY <1>1, <2>1, EndsFirstNone
    <3> QED BY <1>3, <2>1, <3>1 DEF Ends
  <2>2. CASE places[1] # {}
    <3>1. Ends(places, k + 1, allowed, before)
             <=> Ends(placesAfter, k, allowed, places[1] \subseteq allowed)
      BY <1>1, <2>2, EndsFirstSets
    <3> QED BY <1>3, <2>2, <3>1 DEF Ends
  <2> QED BY <2>1, <2>2
<1> QED BY <1>4 DEF places, placesAfter, allowed, before, after

\* The first datagram is taken and injected.
LEMMA ReceivedInv ==
    ASSUME Inv, Receive(TRUE)
    PROVE  Inv'
<1> DEFINE e == Head(net)
           n == Len(net')
<1> USE DEF Inv
<1>1. /\ net # << >> /\ net' = Tail(net) /\ net' \in Seq(Sent) /\ e \in Sent
      /\ n \in Nat /\ Len(net) = n + 1 /\ net[1] = e /\ 1 \in 1..Len(net)
      /\ \A m \in 1..n : net'[m] = net[m + 1]
  BY DEF Receive, WellFormed
<1>2. /\ inputThread = "receiving" /\ inputThread' = "checking" /\ Applied(e)
      /\ e.kind = "button" => e.code # None
      /\ UNCHANGED <<userVars, xqueue, captureVars, serving, kind,
                     stopInput, stopEvent, active>>
  BY DEF Receive, Known
<1> HIDE DEF e, n
<1>3. /\ e.kind \in {"move", "button", "wheel", "key"}
      /\ e.kind # "key" => e.at \in Places
      /\ e.kind \in {"button", "key"} => e.code \in Codes
      /\ e.down \in BOOLEAN
  BY <1>1, <1>2 DEF Sent, InputEvents
<1>4. ASSUME NEW p \in Places
      PROVE  hostPointer' \in {None, p} <=>
                 IF PlaceOf(e) = {} THEN hostPointer \in {None, p} ELSE PlaceOf(e) \subseteq {p}
  <2>1. CASE e.kind \in {"move", "button"}
    <3>1. e.at # None
      BY <1>3, <2>1, InputAssumption
    <3>2. hostPointer' = e.at /\ PlaceOf(e) = {e.at}
      BY <1>2, <2>1 DEF Applied, PlaceOf
    <3>3. hostPointer' \in {None, p} <=> e.at = p
      BY <3>1, <3>2
    <3>4. PlaceOf(e) # {} /\ (PlaceOf(e) \subseteq {p} <=> e.at = p)
      BY <3>2
    <3> QED BY <3>3, <3>4
  <2>2. CASE e.kind \notin {"move", "button"}
    BY <1>2, <2>2 DEF Applied, PlaceOf
  <2> QED BY <2>1, <2>2
<1>5. ASSUME NEW c \in Codes, NEW right
      PROVE  State(c \in pressed') \in right <=>
                 IF StateOf(e, c) = {} THEN State(c \in pressed) \in right
                 ELSE StateOf(e, c) \subseteq right
  <2>1. CASE e.kind \in {"button", "key"} /\ e.code = c
    <3>1. c \in pressed' <=> e.down
      BY <1>2, <1>3, <2>1 DEF Applied
    <3>2. State(c \in pressed') = State(e.down)
      BY <1>3, <3>1 DEF State
    <3> QED BY <2>1, <3>2 DEF StateOf
  <2>2. CASE ~(e.kind \in {"button", "key"} /\ e.code = c)
    <3>1. c \in pressed' <=> c \in pressed
      BY <1>2, <1>3, <2>2 DEF Applied
    <3>2. State(c \in pressed') = State(c \in pressed)
      BY <3>1 DEF State
    <3> QED BY <2>2, <3>2 DEF StateOf
  <2> QED BY <2>1, <2>2
<1>6. ASSUME NEW p \in Places, NEW j \in 0..n
      PROVE  Ends(PlacesIn(net'), j, {p}, hostPointer' \in {None, p}) <=>
                 Ends(PlacesIn(net), j + 1, {p}, hostPointer \in {None, p})
  <2>1. /\ j \in Nat /\ j < Len(net) /\ Len(net) \in Nat /\ j <= Len(net') /\ Len(net') \in Nat
        /\ \A k \in 1..j : net'[k] = net[k + 1]
    BY <1>1 DEF n
  <2>2. hostPointer' \in {None, p} <=>
            IF PlaceOf(net[1]) = {} THEN hostPointer \in {None, p}
            ELSE PlaceOf(net[1]) \subseteq {p}
    BY <1>1, <1>4
  <2> DEFINE netAfter == net'
             there == hostPointer'
  <2>3. /\ j <= Len(netAfter) /\ Len(netAfter) \in Nat
        /\ \A k \in 1..j : netAfter[k] = net[k + 1]
        /\ there \in {None, p} <=> IF PlaceOf(net[1]) = {} THEN hostPointer \in {None, p}
                                   ELSE PlaceOf(net[1]) \subseteq {p}
    BY <2>1, <2>2
  <2> HIDE DEF netAfter, there
  <2>4. Ends(PlacesIn(net), j + 1, {p}, hostPointer \in {None, p})
           <=> Ends(PlacesIn(netAfter), j, {p}, there \in {None, p})
    BY <2>1, <2>3, TailPlaces
  <2> QED BY <2>4 DEF netAfter, there
<1>7. ASSUME NEW c \in Codes, NEW right
      PROVE  Ends(StatesIn(net', c), n, right, State(c \in pressed') \in right) <=>
                 Ends(StatesIn(net, c), n + 1, right, State(c \in pressed) \in right)
  <2>1. \A k \in 1..n : StatesIn(net', c)[k] = StatesIn(net, c)[k + 1]
    BY <1>1 DEF StatesIn, n
  <2>2. StatesIn(net, c)[1] = StateOf(e, c)
    BY <1>1 DEF StatesIn
  <2> DEFINE before == State(c \in pressed) \in right
             after == State(c \in pressed') \in right
  <2>3. after <=> IF StatesIn(net, c)[1] = {} THEN before ELSE StatesIn(net, c)[1] \subseteq right
    BY <1>5, <2>2
  <2> HIDE DEF before, after
  <2>4. Ends(StatesIn(net, c), n + 1, right, before) <=> Ends(StatesIn(net', c), n, right, after)
    BY <1>1, <2>1, <2>3, EndsFirst
  <2> QED BY <2>4 DEF before, after
<1>8. ASSUME NEW p \in Places
      PROVE  SentAt(p)' <=> SentAt(p)
  <2>1. n \in 0..n
    BY <1>1
  <2>2. NetAt(Len(net), p)' <=> NetAt(Len(net), p)
    BY <1>1, <1>6, <2>1 DEF NetAt, n
  <2> QED BY <1>2, <2>2 DEF SentAt, captureVars
<1>9. ASSUME NEW c \in Codes, NEW right
      PROVE  NetRight(c, right)' <=> NetRight(c, right)
  BY <1>1, <1>7 DEF NetRight, n
<1>10. TypeOK'
  <2>1. WellFormed'
    BY <1>1, <1>2 DEF WellFormed, captureVars
  <2>2. pressed' \subseteq Codes
    BY <1>2, <1>3 DEF Applied, TypeOK
  <2>3. hostPointer' \in Places \cup {None}
    BY <1>2, <1>3 DEF Applied, TypeOK
  <2>4. wheel' \in Wheels \cup {None}
    BY <1>2, <1>3 DEF Applied, TypeOK, Wheels
  <2> QED BY <1>2, <2>1, <2>2, <2>3, <2>4, WellFormedTypes DEF TypeOK, userVars, captureVars
<1>11. WellFormed'
  BY <1>1, <1>2 DEF WellFormed, captureVars
<1>12. WheelsRight(net)
  BY <1>2 DEF WheelInv
<1>13. WheelAtPointer'
  <2>1. CASE e.kind = "wheel"
    <3>1. wheel' = [seen |-> e.at, on |-> hostPointer] /\ e.at \in Places
      BY <1>2, <1>3, <2>1 DEF Applied
    <3>2. Ends(PlacesIn(net), 0, {e.at}, hostPointer \in {None, e.at})
      <4>1. 1 - 1 = 0
        OBVIOUS
      <4> QED BY <1>1, <1>12, <2>1, <3>1, <4>1 DEF WheelsRight
    <3>3. hostPointer \in {None, e.at}
      BY <3>2 DEF Ends
    <3> QED BY <3>1, <3>3 DEF WheelAtPointer
  <2>2. CASE e.kind # "wheel"
    BY <1>2, <2>2 DEF Applied, WheelAtPointer
  <2> QED BY <2>1, <2>2
<1>14. WheelInv'
  <2> SUFFICES ASSUME NEW m \in 1..n, NEW p \in Places,
                      net'[m].kind = "wheel", net'[m].at = p
               PROVE  Ends(PlacesIn(net'), m - 1, {p}, hostPointer' \in {None, p})
    BY DEF WheelInv, WheelsRight, n
  <2>1. /\ m + 1 \in 1..Len(net) /\ m - 1 \in 0..n
        /\ (m + 1) - 1 = (m - 1) + 1 /\ net[m + 1] = net'[m]
    BY <1>1
  <2>2. Ends(PlacesIn(net), (m - 1) + 1, {p}, hostPointer \in {None, p})
    BY <1>12, <2>1 DEF WheelsRight
  <2> QED BY <1>6, <2>1, <2>2
<1>15. Running' => Running
  BY <1>2 DEF Running, captureVars
<1>16. \A k : \A p \in Places : QueueAt(k, p)' <=> QueueAt(k, p)
  BY <1>2, <1>8 DEF QueueAt, QueuePlaces, Ends
<1>17. \A c \in Codes : \A right : QueueRight(c, right)' <=> QueueRight(c, right)
  BY <1>2, <1>9 DEF QueueRight, QueueStates, Ends
<1>18. PointerInv' /\ ScrollInv'
  BY <1>2, <1>15, <1>16 DEF PointerInv, ScrollInv, userVars
<1>19. CodeInv'
  <2>1. \A c : Right(c)' = Right(c)
    BY <1>2 DEF Right, userVars
  <2> QED BY <1>15, <1>17, <2>1 DEF CodeInv
<1> QED BY <1>10, <1>11, <1>13, <1>14, <1>18, <1>19

\* An event Windows does not take ends the thread.
LEMMA RefusedInv ==
    ASSUME Inv, Receive(FALSE)
    PROVE  Inv'
<1> USE DEF Inv
<1>1. /\ net # << >> /\ net' = Tail(net) /\ inputThread' = "ended" /\ stopInput' = TRUE
      /\ UNCHANGED windowsVars
      /\ UNCHANGED <<userVars, xqueue, captureVars, serving, kind, stopEvent, active>>
  BY DEF Receive
<1>2. WellFormed'
  BY <1>1 DEF WellFormed, captureVars
<1>3. TypeOK'
  BY <1>1, <1>2, WellFormedTypes DEF TypeOK, userVars, captureVars, windowsVars
<1>4. WheelAtPointer'
  BY <1>1 DEF WheelAtPointer, windowsVars
<1>5. ~Running'
  BY <1>1 DEF Running
<1> QED BY <1>1, <1>2, <1>3, <1>4, <1>5 DEF PointerInv, CodeInv, ScrollInv, WheelInv

-----------------------------------------------------------------------------
LEMMA NextInv == Inv /\ [Next]_vars => Inv'
<1> SUFFICES ASSUME Inv, [Next]_vars PROVE Inv'
  OBVIOUS
<1> USE DEF Inv
<1>1. CASE User
  <2>1. ASSUME NEW p \in Places, UserMoves(p) PROVE Inv'
    BY <2>1, UserMovesInv
  <2>2. ASSUME NEW i \in Inputs, UserPresses(i) PROVE Inv'
    BY <2>2, UserPressesInv
  <2>3. ASSUME NEW i \in Inputs, UserReleases(i) PROVE Inv'
    BY <2>3, UserReleasesInv
  <2>4. CASE UserScrolls
    BY <2>4, UserScrollsInv
  <2> QED BY <1>1, <2>1, <2>2, <2>3, <2>4 DEF User
<1>2. CASE LoopTop
  <2>1. TypeOK'
    BY <1>2 DEF LoopTop, TypeOK, userVars, hostVars, windowsVars
  <2> QED BY <1>2, <2>1, WayUnchanged DEF LoopTop, Running, userVars, hostVars
<1>3. ASSUME NEW ok \in BOOLEAN, TakeXEvent(ok) PROVE Inv'
  BY <1>3, TakeXEventInv
<1>4. ASSUME NEW ok \in BOOLEAN, BatchEnds(ok) PROVE Inv'
  BY <1>4, BatchEndsInv
<1>5. CASE HostChecks
  <2>1. TypeOK'
    BY <1>5 DEF HostChecks, TypeOK, userVars, captureVars, windowsVars
  <2> QED BY <1>5, <2>1, WayUnchanged DEF HostChecks, Running, userVars, captureVars
<1>6. CASE ReceiveTimesOut
  <2>1. TypeOK'
    BY <1>6 DEF ReceiveTimesOut, TypeOK, userVars, captureVars, windowsVars
  <2> QED BY <1>6, <2>1, WayUnchanged DEF ReceiveTimesOut, Running, userVars, captureVars
<1>7. ASSUME NEW ok \in BOOLEAN, Receive(ok) PROVE Inv'
  <2>1. ok = TRUE \/ ok = FALSE
    OBVIOUS
  <2> QED BY <1>7, <2>1, ReceivedInv, RefusedInv
<1>8. CASE RequestStop
  <2>1. TypeOK'
    BY <1>8 DEF RequestStop, TypeOK, userVars, captureVars, windowsVars
  <2> QED BY <1>8, <2>1, WayUnchanged DEF RequestStop, Running, userVars, captureVars
<1>9. CASE SessionEnds \/ LoopEnds
  <2>1. LeaveLoop
    BY <1>9 DEF SessionEnds, LoopEnds
  <2>2. TypeOK'
    BY <2>1 DEF LeaveLoop, TypeOK, userVars, captureVars, windowsVars
  <2> QED BY <2>1, <2>2, WayUnchanged DEF LeaveLoop, Running, userVars, captureVars
<1>10. CASE JoinAndDestroy
  <2>1. TypeOK'
    BY <1>10 DEF JoinAndDestroy, TypeOK, userVars, captureVars, windowsVars
  <2> QED BY <1>10, <2>1, WayUnchanged DEF JoinAndDestroy, Running, userVars, captureVars
<1>11. CASE UNCHANGED vars
  <2>1. TypeOK'
    BY <1>11 DEF vars, TypeOK, userVars, captureVars, hostVars, windowsVars
  <2> QED BY <1>11, <2>1, WayUnchanged DEF vars, Running, userVars, captureVars, hostVars
<1> QED BY <1>1, <1>2, <1>3, <1>4, <1>5, <1>6, <1>7, <1>8, <1>9, <1>10, <1>11
        DEF Next, Capture, Main

\* When nothing is on its way, what was said of the way is said of Windows.
LEMMA InvSettled == Inv => HostFollows
<1> SUFFICES ASSUME Inv, Settled, ForwardEvents
             PROVE  /\ hostPointer \in {None, pointer}
                    /\ pressed \subseteq {Code(i) : i \in held}
                    /\ \A i \in held : Code(i) \in pressed \/ Code(i) = None \/ Shared(i)
  BY DEF HostFollows
<1>1. Running /\ Len(xqueue) = 0 /\ Len(net) = 0 /\ pendingMotion = << >>
  BY DEF Settled, Running
<1>2. hostPointer \in {None, pointer}
  <2>1. pointer \in Places
    BY DEF Inv, TypeOK
  <2>2. QueueAt(0, pointer)
    BY <1>1, <2>1 DEF Inv, PointerInv
  <2>3. NetAt(0, pointer)
    BY <1>1, <2>2 DEF QueueAt, SentAt, Ends
  <2> QED BY <2>3 DEF NetAt, Ends
<1>3. ASSUME NEW c \in Codes
      PROVE  State(c \in pressed) \in Right(c)
  <2>1. Right(c) \in SUBSET {"down", "up"}
    BY DEF Right
  <2>2. QueueRight(c, Right(c))
    BY <1>1, <2>1 DEF Inv, CodeInv
  <2>3. NetRight(c, Right(c))
    BY <1>1, <2>2 DEF QueueRight, Ends
  <2> QED BY <1>1, <2>3 DEF NetRight, Ends
<1>4. ASSUME NEW c \in pressed
      PROVE  \E i \in held : Code(i) = c
  <2>1. c \in Codes
    BY DEF Inv, TypeOK
  <2> QED BY <1>3, <2>1 DEF State, Right
<1>5. ASSUME NEW i \in held, Code(i) \notin pressed, Code(i) # None
      PROVE  Shared(i)
  <2>1. Code(i) \in Codes
    BY <1>5, CodeType, InputAssumption DEF Inv, TypeOK
  <2> QED BY <1>3, <1>5, <2>1 DEF State, Right
<1> QED BY <1>2, <1>4, <1>5

\* The invariant holds in every behaviour.
THEOREM Invariance == Spec => []Inv
<1>1. Init => Inv
  BY InitInv
<1>2. Inv /\ [Next]_vars => Inv'
  BY NextInv
<1> QED BY <1>1, <1>2, PTL DEF Spec

\* What is received, pressed and turned has its type, on both sides of the network.
THEOREM TypeCorrect == Spec => []TypeOK
<1>1. Inv => TypeOK
  BY DEF Inv
<1> QED BY <1>1, Invariance, PTL

\* However motions are merged and kept back, and whatever is still on its way: a
\* wheel step is injected where the user's pointer was when he scrolled.
THEOREM WheelsTurnAtPointer == Spec => []WheelAtPointer
<1>1. Inv => WheelAtPointer
  BY DEF Inv
<1> QED BY <1>1, Invariance, PTL

\* Once everything has arrived the pointer, the buttons and the keys of Windows are
\* those of the user.
THEOREM HostFollowsUser == Spec => []HostFollows
<1>1. Inv => HostFollows
  BY InvSettled
<1> QED BY <1>1, Invariance, PTL
=============================================================================
