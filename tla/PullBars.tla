------------------------------ MODULE PullBars ------------------------------
(***************************************************************************)
(* The pull bars of the file list (yundisk/static/js/game_bar.js): the     *)
(* callbacks that the page gives its scroller, which turn a pull beyond an *)
(* end of the list into a refresh or into the next page.                   *)
(*                                                                         *)
(* A position of the scroller is one of seven: far enough beyond the top   *)
(* to flip the upper bar ("above"), a little beyond it ("peek"), at it     *)
(* ("zero"), with part of the upper bar in view ("bar"), at the first row  *)
(* ("min"), further down ("within"), and beyond the last row ("below").    *)
(* The list either fits on the screen, with maxScrollY positive, or it is  *)
(* longer by at least a row.                                               *)
(*                                                                         *)
(* A bar that loads can be flipped and released again before its timer has *)
(* fired, so that several timers of a bar may run; they are told apart by  *)
(* nothing and are counted.                                                *)
(***************************************************************************)
EXTENDS Naturals

CONSTANT MaxTimer  \* bound: the upper bar is flipped while fewer of its timers run

ASSUME TimerAssumption == MaxTimer \in Nat \ {0}

VARIABLES
    pullDown, pullUp,            \* the class of each bar: "", "flip" or "loading"
    pullDownTimer, pullUpTimer,  \* how many timers of its action run
    minZero,                     \* minScrollY is 0, not the height of the upper bar
    maxPos                       \* maxScrollY is positive: no y is below the list's end

bars == <<pullDown, pullUp>>
timers == <<pullDownTimer, pullUpTimer>>
limits == <<minZero, maxPos>>

Position == {"above", "peek", "zero", "bar", "min", "within", "below"}
Class == {"", "flip", "loading"}

InitBars ==
    /\ pullDown = "" /\ pullUp = ""
    /\ pullDownTimer = 0 /\ pullUpTimer = 0
    /\ minZero = FALSE /\ maxPos = TRUE

TypeBars ==
    /\ pullDown \in Class /\ pullUp \in Class
    /\ {pullDownTimer, pullUpTimer} \subseteq Nat
    /\ {minZero, maxPos} \subseteq BOOLEAN

(* Where y may be to maxScrollY: past it by more than 5, before it, or near it. *)
ToEnd(y) ==
    CASE y = "below" /\ ~maxPos -> {"past", "near"}
      [] y = "within" /\ ~maxPos -> {"before", "near"}
      [] y \in {"above", "peek"} /\ maxPos -> {"past", "near", "before"}
      [] y \in {"zero", "bar"} /\ maxPos -> {"past", "near"}
      [] y \in {"min", "within", "below"} /\ maxPos -> {"past"}
      [] OTHER -> {"before"}

(* onScrollMove: one of the four branches, or none.  A y of 5 flips nothing. *)
onScrollMove(y) ==
    \/ /\ y = "above" /\ pullDown # "flip" /\ pullDownTimer < MaxTimer
       /\ pullDown' = "flip" /\ minZero' = TRUE
       /\ UNCHANGED <<pullUp, maxPos>>
    \/ /\ y # "above" /\ pullDown = "flip"
       /\ pullDown' = "" /\ minZero' = FALSE
       /\ UNCHANGED <<pullUp, maxPos>>
    \/ /\ y = "peek" \/ (y = "above") = (pullDown = "flip")
       /\ UNCHANGED <<pullDown, minZero>>
       /\ \E e \in ToEnd(y) :
             \/ /\ e = "past" /\ pullUp # "flip"
                /\ pullUp' = "flip" /\ UNCHANGED maxPos
             \/ /\ e = "before" /\ pullUp = "flip"
                /\ pullUp' = "" /\ maxPos' = TRUE
             \/ /\ e = "near" \/ (e = "past") = (pullUp = "flip")
                /\ UNCHANGED <<pullUp, maxPos>>

(* The classes of the bars, and the timers of the upper one. *)
Bars == [down |-> pullDown, up |-> pullUp, timer |-> pullDownTimer]
Become(b) == pullDown' = b.down /\ pullUp' = b.up /\ pullDownTimer' = b.timer

(* onScrollEnd: a flipped bar starts loading, by pullDownAction or pullUpAction. *)
onScrollEnd(b) ==
    \/ /\ b.down = "flip"
       /\ Become([b EXCEPT !.down = "loading", !.timer = @ + 1])
       /\ UNCHANGED pullUpTimer
    \/ /\ b.down # "flip" /\ b.up = "flip"
       /\ Become([b EXCEPT !.up = "loading"])
       /\ pullUpTimer' = pullUpTimer + 1
    \/ /\ b.down # "flip" /\ b.up # "flip"
       /\ Become(b)
       /\ UNCHANGED pullUpTimer

onRefresh_UpperOnly(timer) ==
    [down |-> IF pullDown = "loading" THEN "" ELSE pullDown,
     up |-> pullUp, timer |-> timer]

(* onRefresh: one bar at a time stops loading. *)
onRefresh(timer) ==
    [down |-> IF pullDown = "loading" THEN "" ELSE pullDown,
     up |-> IF pullDown # "loading" /\ pullUp = "loading" THEN "" ELSE pullUp,
     timer |-> timer]
==============================================================================
