---------------------------- MODULE NtycoServer ----------------------------
(***************************************************************************)
(* The coroutine server (kv_engine/ntyco_entry.c), the one the build       *)
(* selects: a coroutine that accepts connections and one reader per        *)
(* connection, all on one thread.  A coroutine runs from one accept or     *)
(* recv that has to wait to the next; that is one step here.               *)
(*                                                                         *)
(* The accept loop hands a new reader the address of its variable cli_fd,  *)
(* which it writes again with the next connection.  The reader looks there *)
(* when it runs for the first time.                                        *)
(*                                                                         *)
(* The NtyCo scheduler is not part of the repository.  It polls the        *)
(* descriptors that coroutines wait for and resumes every one that is      *)
(* ready; then it runs its ready queue, where the readers that were        *)
(* created stand, and polls again.                                         *)
(*                                                                         *)
(* Bound: a client is not accepted before one of the few descriptors in Fd *)
(* is free; accept does not fail.                                          *)
(***************************************************************************)
EXTENDS KVProtocol, Sequences

VARIABLES
    cli_fd,  \* the variable of the accept loop
    queue,   \* the readers that were created and did not run yet
    woken,   \* the coroutines the last poll found ready and not resumed yet
    reader   \* reader -> the descriptor it reads, NULL when there is no such reader

vars == <<engine, client, wire, cli_fd, queue, woken, reader>>

(* A reader is named after the descriptor of the connection it was created for. *)
Reader == Fd

Open(f) == f \in {reader[r] : r \in Reader} \/ \E i \in DOMAIN queue : queue[i] = f

(* The accept loop among the coroutines that can be resumed. *)
Listener == 0

Init ==
    /\ InitClients
    /\ cli_fd = NULL
    /\ queue = <<>>
    /\ woken = {}
    /\ reader = [r \in Reader |-> NULL]

Readable(f) == wire[f].req # NULL \/ wire[f].end # "open"

poll ==
    /\ ~halted /\ queue = <<>> /\ woken = {}
    /\ woken' = {i \in Reader : reader[i] # NULL /\ Readable(reader[i])}
                \cup {Listener : c \in {c \in Client : client[c].state = "queued"
                                                          /\ \E f \in Fd : ~Open(f)}}
    /\ woken' # {}
    /\ UNCHANGED <<engine, client, wire, cli_fd, queue, reader>>

resume(i) == ~halted /\ i \in woken /\ woken' = woken \ {i}

(***************************************************************************)
(* server: accept, then nty_coroutine_create, then wait in accept again.   *)
(***************************************************************************)
server_PassesListener ==
    /\ resume(Listener)
    /\ \E c \in Client, f \in Fd :
          /\ ~Open(f) /\ \A g \in Fd : g < f => Open(g)
          /\ Accepted(c, f)
          /\ cli_fd' = Listener
          /\ queue' = Append(queue, f)
    /\ UNCHANGED <<engine, reader>>

server_DrainsBacklog ==
    /\ ~halted /\ Listener \in woken
    /\ \E c \in Client, f \in Fd :
          /\ ~Open(f) /\ \A g \in Fd : g < f => Open(g)
          /\ Accepted(c, f)
          /\ cli_fd' = f
          /\ queue' = Append(queue, f)
          /\ woken' = IF \E d \in Client \ {c} : client[d].state = "queued"
                      THEN woken ELSE woken \ {Listener}
    /\ UNCHANGED <<engine, reader>>

server ==
    /\ resume(Listener)
    /\ \E c \in Client, f \in Fd :
          /\ ~Open(f) /\ \A g \in Fd : g < f => Open(g)
          /\ Accepted(c, f)
          /\ cli_fd' = f
          /\ queue' = Append(queue, f)
    /\ UNCHANGED <<engine, reader>>

(***************************************************************************)
(* server_reader: the first run fetches the descriptor and waits in recv.  *)
(***************************************************************************)
reader_starts ==
    /\ ~halted /\ woken = {} /\ queue # <<>>
    /\ reader' = [reader EXCEPT ![Head(queue)] = cli_fd]
    /\ queue' = Tail(queue)
    /\ UNCHANGED <<engine, client, wire, cli_fd, woken>>

(***************************************************************************)
(* A request: read into a cleared buffer, executed and answered before the *)
(* next recv.  A client that has left gets no reply.                       *)
(***************************************************************************)
Replies_ToNobody(f, r) == wire' = [wire EXCEPT ![f].req = NULL]

Replies_KeepsRequest(f, r) == wire' = [wire EXCEPT ![f].rep = ReplyTo(r.op, last'.val)]

Replies(f, r) ==
    wire' = [wire EXCEPT ![f].req = NULL,
                         ![f].rep = IF wire[f].end = "open" THEN ReplyTo(r.op, last'.val)
                                    ELSE NULL]

reader_request(i) ==
    LET f == reader[i]
        r == wire[f].req
    IN  /\ resume(i) /\ wire[f].req # NULL
        /\ \/ Call(r.op, r.key, r.val) /\ Replies(f, r)
           \/ MallocFails(r.op) /\ UNCHANGED wire
        /\ UNCHANGED <<client, cli_fd, queue, reader>>

(* recv returns 0: the descriptor is closed and the coroutine ends.        *)
reader_ends(i) ==
    LET f == reader[i]
    IN  /\ resume(i) /\ wire[f].req = NULL /\ wire[f].end = "closed"
        /\ reader' = [reader EXCEPT ![i] = NULL]
        /\ wire' = [wire EXCEPT ![f] = Quiet]
        /\ UNCHANGED <<engine, client, cli_fd, queue>>

(* recv returns -1 and the loop goes on; the next recv finds the end.      *)
reader_error_Spins(i) ==
    /\ ~halted /\ i \in woken
    /\ wire[reader[i]].req = NULL /\ wire[reader[i]].end = "reset"
    /\ UNCHANGED vars

reader_error(i) ==
    LET f == reader[i]
    IN  /\ resume(i) /\ wire[f].req = NULL /\ wire[f].end = "reset"
        /\ wire' = [wire EXCEPT ![f].end = "closed"]
        /\ UNCHANGED <<engine, client, cli_fd, queue, reader>>

SchedulerStep ==
    \/ poll \/ server \/ reader_starts
    \/ \E i \in Reader : reader_request(i) \/ reader_ends(i) \/ reader_error(i)

Next ==
    \/ SchedulerStep
    \/ ClientStep /\ UNCHANGED <<cli_fd, queue, woken, reader>>

(* The one thread goes on as long as a coroutine can run.                  *)
Spec == Init /\ [][Next]_vars /\ WF_vars(SchedulerStep)

-----------------------------------------------------------------------------

(* Types of the coroutines and the clients. *)
TypeOK ==
    /\ ClientsTypeOK
    /\ cli_fd \in Fd \cup {NULL}
    /\ queue \in Seq(Fd)
    /\ woken \subseteq Reader \cup {Listener}
    /\ reader \in [Reader -> Fd \cup {NULL}]

(* Every connection has one reader of its own, although all readers get    *)
(* the address of the same cli_fd: none reads a descriptor another one     *)
(* reads or none at all, and the one not started yet will find its own.    *)
OwnReader ==
    ~halted => \A c \in Client :
        client[c].state \in {"idle", "waiting"} =>
            \/ queue = <<client[c].fd>> /\ cli_fd = client[c].fd
               /\ \A i \in Reader : reader[i] # client[c].fd
            \/ Cardinality({i \in Reader : reader[i] = client[c].fd}) = 1

(* A client that waits has its descriptor to itself and its request is     *)
(* either on its way in or answered; one that does not wait has neither.   *)
RequestConserved ==
    ~halted => \A c \in Client :
        client[c].state \in {"idle", "waiting"} =>
            LET w == wire[client[c].fd]
            IN  /\ Using(client[c].fd) = {c}
                /\ (client[c].state = "waiting") = (w.req # NULL \/ w.rep # NULL)
                /\ NULL \in {w.req, w.rep}

(* The store changes only by a set, delete or modify that a client sent,   *)
(* at its key, in the step that takes the request off the wire: no path of *)
(* server_reader runs a request again or runs one that nobody sent.        *)
StoreFollowsRequests ==
    [][~halted' => \A k \in Key :
         (k \in DOMAIN store /\ k \in DOMAIN store' /\ store[k] = store'[k])
         \/ (k \notin DOMAIN store /\ k \notin DOMAIN store')
         \/ \E f \in Fd : /\ wire[f].req # NULL /\ wire'[f].req = NULL
                          /\ wire[f].req.key = k
                          /\ k \in DOMAIN store <=> wire[f].req.op \in {"DEL", "MOD"}
                          /\ k \in DOMAIN store' <=> wire[f].req.op \in {"SET", "MOD"}]_vars

(* Every request is answered, unless the process dies or the client leaves *)
(* first.                                                                  *)
Answered ==
    \A c \in Client :
        client[c].state = "waiting" ~>
            \/ client[c].state # "waiting"
            \/ wire[client[c].fd].rep # NULL
            \/ halted
=============================================================================
