---------------------------- MODULE MCNtycoServer ----------------------------
(***************************************************************************)
(* NtycoServer for TLC.                                                    *)
(***************************************************************************)
EXTENDS NtycoServer

CONSTANTS k1, k2, v1

MCFd == {1, 2}

Req(op, k, v) == [op |-> op, key |-> k, val |-> v]
MCSent == {Req("SET", k1, v1), Req("SET", k2, v1), Req("MOD", k1, v1), Req("DEL", k1, NULL)}
==============================================================================
