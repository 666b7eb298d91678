----------------------------- MODULE KVProtocol -----------------------------
(***************************************************************************)
(* What the two servers of the key-value store share: the clients on the   *)
(* other end of the sockets, the commands (kvstore.c), and the engine the  *)
(* commands call, here the map that the hash and the red-black tree engine *)
(* are shown to implement.  The commands of the three engines differ only  *)
(* in a prefix and in the engine they call.                                *)
(*                                                                         *)
(* A client has one request on its way at a time and reads the reply       *)
(* before it sends the next, as testcase.c does, and may leave at any      *)
(* moment.  A request is short and sent at once, so it arrives at once.    *)
(***************************************************************************)
EXTENDS Integers, FiniteSets

CONSTANTS
    Client,      \* the clients
    Fd,          \* the descriptors the kernel gives to connections
    Key, Value, NULL,
    DupRet,      \* what the engine returns when it sets a stored key
    MaxSurplus,  \* bound: how far the counter may run ahead of the map
    Sent         \* the requests clients send

(* Descriptors are positive numbers; NULL is nobody and nothing. *)
ASSUME ProtocolAssumption ==
    /\ Fd \subseteq Nat \ {0}
    /\ NULL \notin Key \cup Value \cup Client \cup Fd

VARIABLES
    store, surplus, halted, last,  \* the engine, see KVMap
    client,  \* client -> what it is doing, on which descriptor
    wire     \* descriptor -> what is on its way in the two directions

engine == <<store, surplus, halted, last>>

Engine == INSTANCE KVMap

Command == {"SET", "GET", "DEL", "MOD", "COUNT"}

Request ==
    [op : {"SET", "MOD"}, key : Key, val : Value]
    \cup [op : {"GET", "DEL"}, key : Key, val : {NULL}]
    \cup [op : {"COUNT"}, key : {NULL}, val : {NULL}]

(* Clients send requests, as testcase.c does. *)
ASSUME RequestAssumption == Sent \subseteq Request /\ NULL \notin Request

(***************************************************************************)
(* kvstore_parser_protocol: the call a command makes and the reply the     *)
(* result is turned into.  An allocation may fail in set and in modify:    *)
(* the tree engine then reports -1, the hash engine kills the process.     *)
(***************************************************************************)
Call(op, k, v) ==
    \/ op = "SET" /\ (Engine!Insert(k, v) \/ Engine!InsertAgain(k))
    \/ op = "SET" /\ DupRet = 0 /\ Engine!Refuse("set", k, -1)
    \/ op = "GET" /\ Engine!Get(k)
    \/ op = "DEL" /\ (Engine!Delete(k) \/ Engine!Miss("delete", k))
    \/ op = "MOD" /\ (Engine!Modify(k, v) \/ Engine!Miss("modify", k))
    \/ op = "MOD" /\ DupRet = 0 /\ Engine!Modify(k, NULL)
    \/ op = "COUNT" /\ Engine!Count

Says(text) == [kind |-> text, val |-> NULL]

Reply ==
    [kind : {"SUCCESS", "FAILED", "ERROR", "NO EXIST"}, val : {NULL}]
    \cup [kind : {"value"}, val : Value] \cup [kind : {"number"}, val : Nat]

(* NULL stands for no reply. *)
ASSUME ReplyAssumption == NULL \notin Reply

ReplyTo_Unchecked(op, res) ==
    CASE op = "SET" -> Says(IF res = 0 THEN "SUCCESS" ELSE "FAILED")
      [] op = "GET" -> [kind |-> "value", val |-> res]
      [] op = "COUNT" -> [kind |-> "number", val |-> res]
      [] OTHER -> Says(IF res = 0 THEN "SUCCESS" ELSE "NO EXIST")

ReplyTo(op, res) ==
    CASE op = "SET" -> Says(IF res = 0 THEN "SUCCESS" ELSE "FAILED")
      [] op = "GET" -> IF res = NULL THEN Says("NO EXIST") ELSE [kind |-> "value", val |-> res]
      [] op = "COUNT" -> IF res < 0 THEN Says("ERROR") ELSE [kind |-> "number", val |-> res]
      [] OTHER -> Says(IF res < 0 THEN "ERROR" ELSE IF res = 0 THEN "SUCCESS" ELSE "NO EXIST")

(* The process dies: an assertion, a bad pointer, a signal. *)
Die == Engine!Halt

MallocFails(op) == op \in {"SET", "MOD"} /\ DupRet # 0 /\ Die

-----------------------------------------------------------------------------

Quiet == [req |-> NULL, rep |-> NULL, end |-> "open"]
Away == [state |-> "away", fd |-> NULL, asked |-> NULL]

InitClients ==
    /\ Engine!Init
    /\ client = [c \in Client |-> Away]
    /\ wire = [f \in Fd |-> Quiet]

Connect(c) ==
    /\ client[c].state = "away"
    /\ client' = [client EXCEPT ![c].state = "queued"]
    /\ UNCHANGED <<engine, wire>>

SetsUnderway == {f \in Fd : wire[f].req # NULL /\ wire[f].req.op = "SET"}

Send(c, r) ==
    /\ client[c].state = "idle"
    /\ DupRet = 0 /\ r.op = "SET" => surplus + Cardinality(SetsUnderway) < MaxSurplus
    /\ client' = [client EXCEPT ![c].state = "waiting", ![c].asked = r]
    /\ wire' = [wire EXCEPT ![client[c].fd].req = r]
    /\ UNCHANGED engine

Receive(c) ==
    /\ client[c].state = "waiting" /\ wire[client[c].fd].rep # NULL
    /\ client' = [client EXCEPT ![c].state = "idle", ![c].asked = NULL]
    /\ wire' = [wire EXCEPT ![client[c].fd].rep = NULL]
    /\ UNCHANGED engine

(***************************************************************************)
(* A client that leaves a reply unread resets the connection; otherwise    *)
(* the server finds the end of the stream behind what was sent.            *)
(***************************************************************************)
Leave(c) ==
    /\ client[c].state \in {"idle", "waiting"}
    /\ client' = [client EXCEPT ![c] = Away]
    /\ wire' = [wire EXCEPT ![client[c].fd].rep = NULL,
                            ![client[c].fd].end = IF wire[client[c].fd].rep # NULL
                                                  THEN "reset" ELSE "closed"]
    /\ UNCHANGED engine

ClientStep ==
    \E c \in Client :
        Connect(c) \/ (\E r \in Sent : Send(c, r)) \/ Receive(c) \/ Leave(c)

(* The kernel hands the descriptor f to a connection of client c. *)
Accepted(c, f) ==
    /\ client[c].state = "queued"
    /\ client' = [client EXCEPT ![c].state = "idle", ![c].fd = f]
    /\ wire' = [wire EXCEPT ![f] = Quiet]

Using(f) == {c \in Client : client[c].fd = f}

ClientsTypeOK ==
    /\ \A c \in Client : /\ client[c].state \in {"away", "queued", "idle", "waiting"}
                         /\ client[c].fd \in Fd \cup {NULL}
                         /\ client[c].asked \in Request \cup {NULL}
    /\ \A f \in Fd : /\ wire[f].req \in Request \cup {NULL}
                     /\ wire[f].rep \in Reply \cup {NULL}
                     /\ wire[f].end \in {"open", "closed", "reset"}
=============================================================================
