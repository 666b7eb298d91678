----------------------------- MODULE ZeptoAjax -----------------------------
(***************************************************************************)
(* The requests of a page (yundisk/static/js/ajax.js, $.ajax), with the    *)
(* options the file list uses: JSON, no timeout, nothing that refuses or   *)
(* aborts a request, global events on.  What the browser reports is an     *)
(* environment's choice: an answer with data, an empty body, a body that   *)
(* cannot be parsed, an error status, or a broken connection.              *)
(*                                                                         *)
(* Bound: a page has the requests in Slot under way.                       *)
(***************************************************************************)
EXTENDS Naturals, FiniteSets

CONSTANTS
    Slot,  \* bound: the numbers of the requests that may be under way
    NULL   \* no request

(* The free request with the least number is taken; finitely many are counted. *)
ASSUME SlotAssumption == IsFiniteSet(Slot) /\ Slot \subseteq Nat

VARIABLES
    active,  \* $.active, which ajaxStart increments and ajaxStop decrements
    xhr      \* slot -> what was requested

requests == <<active, xhr>>

InitAjax ==
    /\ active = 0
    /\ xhr = [i \in Slot |-> NULL]

Flying == {i \in Slot : xhr[i] # NULL}

(* $.ajax: ajaxStart counts the request, and it is sent. *)
ajax(settings) ==
    \E i \in Slot \ Flying :
        /\ \A j \in Slot \ Flying : i <= j
        /\ xhr' = [xhr EXCEPT ![i] = settings]
        /\ active' = active + 1

(* What onreadystatechange makes of the answer: data for ajaxSuccess, or an *)
(* ajaxError, of which "error" stands for "abort" too.                      *)
Outcome == {"data", "null", "parsererror", "error"}

ajaxComplete_ResetsCount(thrown) == active' = IF thrown THEN active ELSE 0

(* ajaxComplete ends the request, unless the callback before it threw. *)
ajaxComplete(thrown) == active' = IF thrown THEN active ELSE active - 1

(* The request is at its end; thrown tells whether the success callback throws. *)
onreadystatechange(i, thrown) ==
    /\ i \in Flying
    /\ xhr' = [xhr EXCEPT ![i] = NULL]
    /\ ajaxComplete(thrown)
==============================================================================
