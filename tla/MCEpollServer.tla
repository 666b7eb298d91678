---------------------------- MODULE MCEpollServer ----------------------------
(***************************************************************************)
(* EpollServer for TLC, with the words of the red-black tree test cases:   *)
(* RSET, RGET, RDEL, RMOD and RCOUNT, and keys of five and six characters. *)
(***************************************************************************)
EXTENDS EpollServer, TLC

CONSTANTS k1, k2, v1

MCOpLength == [op \in Command |-> IF op = "COUNT" THEN 6 ELSE 4]
MCKeyLength == k1 :> 5 @@ k2 :> 6
MCValueLength == v1 :> 5
MCFd == {1, 2}

Req(op, k, v) == [op |-> op, key |-> k, val |-> v]
MCSent == {Req("SET", k1, v1), Req("GET", k2, NULL), Req("COUNT", NULL, NULL)}
MCTestCase == {Req("SET", k1, v1), Req("COUNT", NULL, NULL)}
==============================================================================
