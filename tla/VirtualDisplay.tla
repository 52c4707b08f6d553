--------------------------- MODULE VirtualDisplay ---------------------------
(***************************************************************************)
(* What the display driver promises to the programs that use its events.   *)
(* There is at most one virtual display.  Requests are served one at a     *)
(* time, a pending create before a pending destroy.  A request to destroy  *)
(* has been served when the display is gone; a request to create may fail. *)
(* Nothing but a destroy request makes the display disappear, and it       *)
(* appears only when it is wanted.                                         *)
(***************************************************************************)
VARIABLES
    create, destroy, \* the auto-reset events, TRUE when signalled
    active,          \* the manual-reset event: the display is wanted
    ready,           \* whether the graphics adapter has called back
    doing,           \* the request being served: "nothing", "create", "destroy"
    present          \* whether the display is there

displayVars == <<create, destroy, active, ready, doing, present>>

DisplayInit ==
    /\ create = FALSE /\ destroy = FALSE /\ active = FALSE
    /\ ready = FALSE /\ doing = "nothing" /\ present = FALSE

\* The programs outside signal a request, and set or reset `active'.
Ask ==
    /\ create => create'
    /\ destroy => destroy'
    /\ active' \in BOOLEAN
    /\ UNCHANGED <<ready, doing, present>>

TakeCreate ==
    /\ doing = "nothing" /\ create
    /\ create' = FALSE /\ active' = TRUE /\ doing' = "create"
    /\ UNCHANGED <<destroy, ready, present>>

TakeDestroy ==
    /\ doing = "nothing" /\ destroy /\ ~create
    /\ destroy' = FALSE /\ active' = FALSE /\ doing' = "destroy"
    /\ UNCHANGED <<create, ready, present>>

\* The display appears, for the request being served or, whatever is served,
\* because it is wanted when the graphics adapter becomes ready.
Appear ==
    /\ ~present
    /\ \/ doing = "create" /\ doing' = "nothing" /\ UNCHANGED ready
       \/ active /\ ~ready /\ ready' = TRUE /\ UNCHANGED doing
    /\ present' = TRUE
    /\ UNCHANGED <<create, destroy, active>>

BecomeReady ==
    /\ ~ready /\ ready' = TRUE
    /\ UNCHANGED <<create, destroy, active, doing, present>>

\* A create request has been served: the display is there, or cannot be had.
CreateEnds ==
    /\ doing = "create" /\ doing' = "nothing"
    /\ UNCHANGED <<create, destroy, active, ready, present>>

Disappear ==
    /\ doing = "destroy" /\ present
    /\ present' = FALSE
    /\ UNCHANGED <<create, destroy, active, ready, doing>>

DestroyEnds ==
    /\ doing = "destroy" /\ ~present
    /\ doing' = "nothing"
    /\ UNCHANGED <<create, destroy, active, ready, present>>

Serve == \/ TakeCreate \/ TakeDestroy \/ Appear \/ CreateEnds
         \/ Disappear \/ DestroyEnds

DisplayNext == Ask \/ Serve \/ BecomeReady

DisplaySpec == DisplayInit /\ [][DisplayNext]_displayVars
=============================================================================
