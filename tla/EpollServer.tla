---------------------------- MODULE EpollServer ----------------------------
(***************************************************************************)
(* The epoll server (kv_engine/epoll_entry.c): one thread, one callback    *)
(* per event.  A connection waits for input or for room for output, never  *)
(* for both.                                                               *)
(*                                                                         *)
(* The read buffer of a connection is cleared when it is accepted and      *)
(* never again: recv writes over the front of what earlier requests left,  *)
(* and adds no terminator.  The buffer is modelled by the positions that   *)
(* hold a zero byte.  A request of n bytes is read as it was sent when     *)
(* position n holds one; otherwise its last word goes on with bytes of an  *)
(* earlier request up to the next zero.                                    *)
(***************************************************************************)
EXTENDS KVProtocol

CONSTANTS
    BUFFER_LENGTH,  \* bytes of a read buffer
    OpLength, KeyLength, ValueLength  \* bytes of each word

ASSUME BufferAssumption ==
    /\ BUFFER_LENGTH \in Nat
    /\ OpLength \in [Command -> Nat]
    /\ KeyLength \in [Key -> Nat] /\ ValueLength \in [Value -> Nat]

VARIABLES
    conn,   \* connlist: descriptor -> buffers and the event waited for
    ready   \* the events epoll_wait returned that were not handled yet

vars == <<engine, client, wire, conn, ready>>

Listener == 0
Position == 0 .. BUFFER_LENGTH - 1

(* Where the spaces of a request are, and how long it is. *)
Spaces(r) ==
    CASE r.op = "COUNT" -> {}
      [] r.op \in {"GET", "DEL"} -> {OpLength[r.op]}
      [] OTHER -> {OpLength[r.op], OpLength[r.op] + 1 + KeyLength[r.key]}
Bytes(r) ==
    CASE r.op = "COUNT" -> OpLength[r.op]
      [] r.op \in {"GET", "DEL"} -> OpLength[r.op] + 1 + KeyLength[r.key]
      [] OTHER -> OpLength[r.op] + 2 + KeyLength[r.key] + ValueLength[r.val]

(* A request fits into the read buffer, as those of testcase.c do. *)
ASSUME ShortAssumption == \A r \in Sent : Bytes(r) <= BUFFER_LENGTH

(* What kvstore_split_token makes of a request whose last word runs on     *)
(* into old bytes: another word in its place.                              *)
RunOn(r) ==
    CASE r.op = "COUNT" -> {}
      [] r.op \in {"GET", "DEL"} -> {[r EXCEPT !.key = k] : k \in Key \ {r.key}}
      [] OTHER -> {[r EXCEPT !.val = v] : v \in Value \ {r.val}}

NoCommand == [op |-> NULL, key |-> NULL, val |-> NULL]

Closed == [open |-> FALSE, zeros |-> {}, cmd |-> NULL, read |-> NULL,
           wbuffer |-> NULL, event |-> NULL]

Init ==
    /\ InitClients
    /\ conn = [f \in Fd |-> Closed]
    /\ ready = {}

(***************************************************************************)
(* epoll_wait reports, for every descriptor, the event it is registered    *)
(* for, if there is one.                                                   *)
(***************************************************************************)
Readable(f) == wire[f].req # NULL \/ wire[f].end # "open"

epoll_wait ==
    /\ ~halted /\ ready = {}
    /\ ready' = {<<Listener, "in">> : c \in {c \in Client : client[c].state = "queued"}}
                \cup {<<f, "in">> : f \in {f \in Fd : conn[f].open /\ conn[f].event = "in"
                                                      /\ Readable(f)}}
                \cup {<<f, "out">> : f \in {f \in Fd : conn[f].open /\ conn[f].event = "out"}}
    /\ ready' # {}
    /\ UNCHANGED <<engine, client, wire, conn>>

Handle(e) == ~halted /\ e \in ready /\ ready' = ready \ {e}

(***************************************************************************)
(* accept_cb.  The kernel takes the lowest descriptor that is not open.    *)
(* When there is none accept fails and the client stays in the queue.      *)
(***************************************************************************)
accept_cb_NotRegistered ==
    /\ Handle(<<Listener, "in">>)
    /\ \E c \in Client, f \in Fd :
          /\ ~conn[f].open /\ \A g \in Fd : g < f => conn[g].open
          /\ Accepted(c, f)
          /\ conn' = [conn EXCEPT ![f] = [Closed EXCEPT !.open = TRUE, !.zeros = Position]]
    /\ UNCHANGED engine

accept_cb ==
    /\ Handle(<<Listener, "in">>)
    /\ \/ \E c \in Client, f \in Fd :
             /\ ~conn[f].open /\ \A g \in Fd : g < f => conn[g].open
             /\ Accepted(c, f)
             /\ conn' = [conn EXCEPT ![f] = [Closed EXCEPT !.open = TRUE, !.zeros = Position,
                                                           !.event = "in"]]
       \/ /\ \A f \in Fd : conn[f].open
          /\ UNCHANGED <<client, wire, conn>>
    /\ UNCHANGED engine

(***************************************************************************)
(* recv_cb.  Executes(f, r) is kvstore_request on a buffer that reads r,   *)
(* when the zeros of the buffer are z; the reply is left in wbuffer and    *)
(* the connection waits for output.                                        *)
(***************************************************************************)
Executes_StaysIn(f, r, z) ==
    /\ Call(r.op, r.key, r.val)
    /\ conn' = [conn EXCEPT ![f].zeros = z, ![f].cmd = r.op, ![f].read = r,
                            ![f].wbuffer = ReplyTo(r.op, last'.val)]

Executes(f, r, z) ==
    /\ Call(r.op, r.key, r.val)
    /\ conn' = [conn EXCEPT ![f].zeros = z, ![f].cmd = r.op, ![f].read = r,
                            ![f].wbuffer = ReplyTo(r.op, last'.val), ![f].event = "out"]

recv_data(f) ==
    LET r == wire[f].req
        left == conn[f].zeros \ 0 .. Bytes(r) - 1
        z == left \cup Spaces(r)
    IN  /\ Handle(<<f, "in">>) /\ r # NULL
        /\ wire' = [wire EXCEPT ![f].req = NULL]
        /\ \/ Bytes(r) \in left /\ Executes(f, r, z)
           \/ Bytes(r) \notin left /\ \E x \in RunOn(r) : Executes(f, x, z)
           \/ /\ Bytes(r) \notin left /\ r.op = "COUNT"  \* no such command: assert(0)
              /\ Die /\ conn' = [conn EXCEPT ![f].read = NoCommand]
           \/ MallocFails(r.op) /\ UNCHANGED conn
        /\ UNCHANGED client

(* recv returns 0: the descriptor is closed. *)
recv_end(f) ==
    /\ Handle(<<f, "in">>) /\ wire[f].req = NULL /\ wire[f].end = "closed"
    /\ conn' = [conn EXCEPT ![f] = Closed]
    /\ wire' = [wire EXCEPT ![f] = Quiet]
    /\ UNCHANGED <<engine, client>>

(***************************************************************************)
(* recv returns -1, which the code takes for data: the old buffer is       *)
(* parsed once more.  It now ends behind the command, and the key and the  *)
(* value are whatever the uninitialized tokens point at, if anything.      *)
(***************************************************************************)
recv_error(f) ==
    /\ Handle(<<f, "in">>) /\ wire[f].req = NULL /\ wire[f].end = "reset"
    /\ \/ \E k \in Key, v \in Value :
             Executes(f, [op |-> conn[f].cmd, key |-> k, val |-> v], conn[f].zeros)
       \/ Die /\ UNCHANGED conn
    /\ UNCHANGED <<client, wire>>

recv_cb(f) == recv_data(f) \/ recv_end(f) \/ recv_error(f)

(***************************************************************************)
(* send_cb.  Writing to a connection that was reset raises SIGPIPE.  What  *)
(* is left in wbuffer is written over before it is read again.             *)
(***************************************************************************)
Sends(f) ==
    /\ wire' = [wire EXCEPT ![f].rep = IF wire[f].end = "open" THEN conn[f].wbuffer ELSE NULL]
    /\ conn' = [conn EXCEPT ![f].read = NULL, ![f].wbuffer = NULL, ![f].event = "in"]

send_cb(f) ==
    /\ Handle(<<f, "out">>)
    /\ \/ wire[f].end # "reset" /\ Sends(f) /\ UNCHANGED engine
       \/ wire[f].end = "reset" /\ Die /\ UNCHANGED <<wire, conn>>
    /\ UNCHANGED client

ServerStep == epoll_wait \/ accept_cb \/ \E f \in Fd : recv_cb(f) \/ send_cb(f)

Next ==
    \/ ServerStep
    \/ ClientStep /\ UNCHANGED <<conn, ready>>

(* The thread of the server goes on as long as there is an event.          *)
Spec == Init /\ [][Next]_vars /\ WF_vars(ServerStep)
-----------------------------------------------------------------------------

(* Types of the connections, the events and the clients. *)
TypeOK ==
    /\ ClientsTypeOK
    /\ \A f \in Fd : /\ conn[f].open \in BOOLEAN
                     /\ conn[f].zeros \subseteq Position
                     /\ conn[f].cmd \in Command \cup {NULL}
                     /\ conn[f].wbuffer \in Reply \cup {NULL}
                     /\ conn[f].event \in {"in", "out", NULL}
    /\ ready \subseteq ((Fd \cup {Listener}) \X {"in", "out"})

(* No request is lost, answered twice or answered to someone else: a       *)
(* client that waits has its descriptor to itself, and its request is in   *)
(* exactly one place: on its way in, in wbuffer as a reply that send_cb    *)
(* has to send, or on its way back.  A client that does not wait has none. *)
(* recv_cb and send_cb keep this by taking turns through set_event, and    *)
(* recv_cb by closing a descriptor only after its client has left.         *)
RequestConserved ==
    ~halted => \A c \in Client :
        client[c].state \in {"idle", "waiting"} =>
            LET f == client[c].fd
                Places == {p \in {"in", "buffer", "out"} :
                             \/ p = "in" /\ wire[f].req # NULL
                             \/ p = "buffer" /\ conn[f].event = "out"
                             \/ p = "out" /\ wire[f].rep # NULL}
            IN  /\ conn[f].open /\ Using(f) = {c}
                /\ Cardinality(Places) = IF client[c].state = "waiting" THEN 1 ELSE 0

(* Every request is answered, unless the process dies or the client leaves *)
(* first: no event gets lost between epoll_wait and the callbacks.         *)
Answered ==
    \A c \in Client :
        client[c].state = "waiting" ~>
            \/ client[c].state # "waiting"
            \/ wire[client[c].fd].rep # NULL
            \/ halted

(* What recv_cb hands to the parser is the request the client sent, as     *)
(* testcase.c expects of RCOUNT after RSET on one connection.              *)
ReadAsSent ==
    \A c \in Client :
        client[c].state = "waiting" /\ conn[client[c].fd].read # NULL =>
            conn[client[c].fd].read = client[c].asked

=============================================================================
