----------------------------- MODULE MCFileList -----------------------------
(***************************************************************************)
(* The file list with two files in each list of the server, loaded one at  *)
(* a time, a screen that shows one of them, and two requests under way.    *)
(***************************************************************************)
EXTENDS FileList

MCSlot == 1..2

(***************************************************************************)
(* What tells two states apart.  Nothing depends on which of the two       *)
(* numbers a request has: {r, NULL} is one request r, {r} is two of them.  *)
(***************************************************************************)
View == <<scroll, active, {xhr[i] : i \in Slot}, ready, tabs, list, left, crossed, stuck>>
==============================================================================
