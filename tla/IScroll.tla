------------------------------ MODULE IScroll ------------------------------
(***************************************************************************)
(* The scroller of the file list (yundisk/static/js/iscroll.js), as the    *)
(* page sets it up: one direction, with transitions, momentum and bounce,  *)
(* without zoom, snap and watching of the DOM.  What is kept of its state  *)
(* is what decides when it calls the page back: whether a finger is down,  *)
(* whether something moved, where it stands, and whether it waits for the  *)
(* end of a transition.                                                    *)
(***************************************************************************)
EXTENDS PullBars

CONSTANT Place  \* bound: the positions at which a gesture leaves the scroller

ASSUME PlaceAssumption == Place \subseteq Position

VARIABLES
    y,      \* where the scroller stands
    down,   \* a finger or button is down: the handlers of move and end are bound
    moved,  \* something moved since the last start or end
    trn     \* the handler of the end of the transition is bound

scroller == <<y, down, moved, trn>>

InitScroll == y = "zero" /\ down = FALSE /\ moved = FALSE /\ trn = FALSE

TypeScroll == y \in Position /\ {down, moved, trn} \subseteq BOOLEAN

(* The place _resetPos wants the scroller at, given the limits. *)
Top(zero) == IF zero THEN "zero" ELSE "min"
Reset(p, zero, pos) ==
    IF pos \/ p \in {"above", "peek", "zero"} \/ (~zero /\ p = "bar") THEN Top(zero)
    ELSE IF p = "below" THEN "within" ELSE p

(***************************************************************************)
(* _resetPos at p, with the limits and the bars b as the caller left them: *)
(* when there is nothing to correct and something had moved, the scroll    *)
(* has ended; else scrollTo starts a transition to the corrected place.    *)
(***************************************************************************)
_resetPos(p, mv, zero, pos, b) ==
    LET r == Reset(p, zero, pos) IN
    \/ /\ r = p
       /\ y' = p /\ moved' = FALSE
       /\ IF mv THEN onScrollEnd(b) ELSE Become(b) /\ UNCHANGED pullUpTimer
    \/ /\ r # p
       /\ y' = r /\ moved' = TRUE
       /\ Become(b) /\ UNCHANGED pullUpTimer

(* _resetPos leaves the handler of the transition bound when it starts one. *)
Transition(p, zero, pos) == Reset(p, zero, pos) # p

(***************************************************************************)
(* refresh with n rows, of which fit are on the screen, and the onRefresh  *)
(* it calls.  With more rows, a place below the last may now be within.    *)
(* timer tells how many timers of the upper bar still run.                 *)
(***************************************************************************)
refresh(n, fit, timer) ==
    /\ minZero' = FALSE
    /\ maxPos' = (n <= fit)
    /\ \E p \in IF y \in {"within", "below"} THEN {"within", "below"} ELSE {y} :
          /\ trn' = (trn \/ Transition(p, FALSE, n <= fit))
          /\ _resetPos(p, moved, FALSE, n <= fit, onRefresh(timer))
    /\ UNCHANGED down

(* A finger, perhaps a second one: it stops a running transition wherever  *)
(* the list is by then.                                                    *)
_start ==
    /\ down' = TRUE /\ moved' = FALSE
    /\ \/ UNCHANGED <<y, trn>>
       \/ trn /\ trn' = FALSE /\ y' \in Place
    /\ UNCHANGED <<bars, timers, limits>>

_move(p) ==
    /\ down
    /\ y' = p /\ moved' = TRUE
    /\ onScrollMove(p)
    /\ UNCHANGED <<down, trn, timers>>

(***************************************************************************)
(* The last finger is lifted, or the mouse leaves the list, with or        *)
(* without its button down (_mouseout): the list stays where it is or goes *)
(* on by its momentum.                                                     *)
(***************************************************************************)
_end ==
    /\ down' = FALSE
    /\ UNCHANGED limits
    /\ \/ /\ _resetPos(y, moved, minZero, maxPos, Bars)
          /\ trn' = (trn \/ Transition(y, minZero, maxPos))
       \/ /\ moved
          /\ y' \in Place /\ moved' = TRUE /\ trn' = TRUE
          /\ UNCHANGED <<bars, timers>>

(* The wheel: scrollTo without a transition to a place between the limits. *)
_wheel ==
    /\ ~maxPos
    /\ y' \in {p \in Position : Reset(p, minZero, FALSE) = p}
    /\ moved' = FALSE /\ trn' = FALSE
    /\ onScrollEnd(Bars)
    /\ UNCHANGED <<down, limits>>

_transitionEnd ==
    /\ trn
    /\ trn' = Transition(y, minZero, maxPos)
    /\ _resetPos(y, moved, minZero, maxPos, Bars)
    /\ UNCHANGED <<down, limits>>

Gesture == _start \/ _end \/ _wheel \/ \E p \in Place : _move(p)
==============================================================================
