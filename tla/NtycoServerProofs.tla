------------------------- MODULE NtycoServerProofs -------------------------
(***************************************************************************)
(* Proofs about the coroutine server, for every set of clients,            *)
(* descriptors, keys and values.                                           *)
(*                                                                         *)
(* Three things make the safety of the server inductive.  The scheduler    *)
(* resumes the accept loop only while no reader waits for its first run,   *)
(* so that there is never more than one such reader and cli_fd still holds *)
(* its descriptor.  A descriptor a client uses is open, so that accept     *)
(* cannot hand it out again.  And a client leaves before its reader ends,  *)
(* so that the descriptor of a connected client is never closed.           *)
(***************************************************************************)
EXTENDS NtycoServer, KVProtocolProofs, SequenceTheorems

CoroutinesTyped ==
    /\ cli_fd \in Fd \cup {NULL}
    /\ queue \in Seq(Fd)
    /\ woken \subseteq Reader \cup {Listener}
    /\ reader \in [Reader -> Fd \cup {NULL}]

(* A reader reads its own descriptor; the one that did not run yet, if     *)
(* any, finds it in cli_fd, and the accept loop is not resumed before.     *)
ReadersInv ==
    /\ \A i \in Reader : reader[i] \in {i, NULL}
    /\ \A i \in Reader : i \in woken => reader[i] = i
    /\ \/ queue = <<>>
       \/ /\ cli_fd \in Fd /\ queue = <<cli_fd>>
          /\ reader[cli_fd] = NULL /\ Listener \notin woken
    /\ \A c \in Client : Connected(c) => Open(client[c].fd)

(* A waiting client has its request or its reply on the wire, never both.  *)
Pending(c) ==
    LET w == wire[client[c].fd]
    IN  /\ client[c].state = "waiting" <=> (w.req # NULL \/ w.rep # NULL)
        /\ w.req = NULL \/ w.rep = NULL

ServerInv ==
    /\ EngineInv /\ ClientsInv /\ CoroutinesTyped /\ ReadersInv
    /\ \A c \in Client : Connected(c) => Pending(c)

(* The invariant holds in every reachable state, after a crash included. *)
LEMMA ServerAlways == Spec => []ServerInv
<1>ServerStep.
    (* Every step of the scheduler, of a coroutine and of a client keeps the   *)
    (* invariant.                                                              *)
    ASSUME ServerInv, [Next]_vars
    PROVE  ServerInv'
  <2> USE <1>ServerStep
  <2>1. /\ EngineInv /\ ClientsInv /\ CoroutinesTyped /\ ReadersInv
        /\ \A c \in Client : Connected(c) => Pending(c)
    BY DEF ServerInv
  <2>2. \A c \in Client : Connected(c) => client[c].fd \in Fd
    BY <2>1 DEF ClientsInv, SocketsTyped, DescriptorsApart, ClientRecord
  <2>3. /\ \A c \in Client : Connected(c) <=> client[c].fd # NULL
        /\ \A c \in Client : Connected(c) => wire[client[c].fd].end = "open"
        /\ \A c, d \in Client : Connected(c) /\ client[c].fd = client[d].fd => c = d
    BY <2>1 DEF ClientsInv, DescriptorsApart
  <2>4. client \in [Client -> ClientRecord] /\ wire \in [Fd -> WireRecord]
    BY <2>1 DEF ClientsInv, SocketsTyped
  <2>5. \A f \in Fd : Open(f) <=> reader[f] = f \/ queue = <<f>>
    BY <2>1, ProtocolAssumption DEF Open, Reader, ReadersInv, CoroutinesTyped
  <2>6. 0 \notin Fd /\ NULL \notin Fd
    BY ProtocolAssumption
  <2>7. CASE poll
    <3>1. UNCHANGED <<engine, client, wire, cli_fd, queue, reader>>
      BY <2>7 DEF poll
    <3>2. EngineInv' /\ ClientsInv' /\ \A c \in Client : Connected(c)' => Pending(c)'
      BY <2>1, <3>1 DEF engine, EngineInv, ClientsInv, SocketsTyped, DescriptorsApart, Connected, Pending
    <3>3. CoroutinesTyped' /\ ReadersInv'
      BY <2>1, <2>6, <2>7, <3>1 DEF poll, CoroutinesTyped, ReadersInv, Connected, Open, Reader, Listener
    <3>4. QED
      BY <3>2, <3>3 DEF ServerInv
  <2>8. CASE server
    <3>1. PICK c \in Client, f \in Fd :
              /\ ~Open(f) /\ Accepted(c, f) /\ cli_fd' = f /\ queue' = Append(queue, f)
      BY <2>8 DEF server
    <3>2. /\ UNCHANGED <<engine, reader>> /\ Listener \in woken /\ woken' = woken \ {Listener}
      BY <2>8 DEF server, resume
    <3>3. queue = <<>> /\ reader[f] = NULL
      BY <2>1, <2>5, <3>1, <3>2 DEF ReadersInv, Reader
    <3>4. queue' = <<f>>
      BY <3>1, <3>3
    <3>5. \A d \in Client : client[d].fd # f
      BY <2>1, <2>3, <2>6, <3>1 DEF ReadersInv
    <3>6. EngineInv' /\ ClientsInv'
      BY <2>1, <3>1, <3>2, <3>5, ServerKeeps DEF engine, EngineInv
    <3>7. CoroutinesTyped'
      BY <2>1, <3>1, <3>2, <3>4 DEF CoroutinesTyped
    <3>8. /\ client'[c].state = "idle" /\ client'[c].fd = f /\ wire'[f] = Quiet
          /\ \A d \in Client \ {c} : client'[d] = client[d]
          /\ \A g \in Fd \ {f} : wire'[g] = wire[g]
      BY <2>4, <3>1 DEF Accepted, ClientRecord
    <3>9. \A d \in Client : Connected(d)' => Open(client[d].fd)' /\ Pending(d)'
      <4>1. SUFFICES ASSUME NEW d \in Client, Connected(d)'
                     PROVE  Open(client[d].fd)' /\ Pending(d)'
        OBVIOUS
      <4>2. CASE d = c
        BY <3>4, <3>8, <4>2 DEF Open, Pending, Quiet
      <4>3. CASE d # c
        <5>1. Connected(d) /\ client'[d] = client[d]
          BY <3>8, <4>1, <4>3 DEF Connected
        <5>2. Pending(d)'
          BY <2>1, <2>2, <3>5, <3>8, <5>1 DEF Pending
        <5>3. Open(client[d].fd)'
          BY <2>1, <3>2, <3>3, <5>1 DEF ReadersInv, Open
        <5>4. QED
          BY <5>2, <5>3
      <4>4. QED
        BY <4>2, <4>3
    <3>10. ReadersInv'
      BY <2>1, <2>6, <3>1, <3>2, <3>3, <3>4, <3>9 DEF ReadersInv, Reader, Listener
    <3>11. QED
      BY <3>6, <3>7, <3>9, <3>10 DEF ServerInv
  <2>9. CASE reader_starts
    <3>1. /\ woken = {} /\ queue # <<>> /\ reader' = [reader EXCEPT ![Head(queue)] = cli_fd]
          /\ queue' = Tail(queue) /\ UNCHANGED <<engine, client, wire, cli_fd, woken>>
      BY <2>9 DEF reader_starts
    <3>2. cli_fd \in Fd /\ queue = <<cli_fd>> /\ reader[cli_fd] = NULL
      BY <2>1, <3>1 DEF ReadersInv
    <3>3. reader' = [reader EXCEPT ![cli_fd] = cli_fd] /\ queue' = <<>>
      BY <3>1, <3>2
    <3>4. EngineInv' /\ ClientsInv' /\ \A c \in Client : Connected(c)' => Pending(c)'
      BY <2>1, <3>1 DEF engine, EngineInv, ClientsInv, SocketsTyped, DescriptorsApart, Connected, Pending
    <3>5. CoroutinesTyped'
      BY <2>1, <3>1, <3>2, <3>3 DEF CoroutinesTyped, Reader
    <3>6. \A c \in Client : Connected(c)' => Open(client[c].fd)'
      <4>1. SUFFICES ASSUME NEW c \in Client, Connected(c)
                     PROVE  Open(client[c].fd)'
        BY <3>1 DEF Connected
      <4>2. reader'[client[c].fd] = client[c].fd
        BY <2>1, <2>2, <2>5, <3>2, <3>3, <4>1 DEF ReadersInv, CoroutinesTyped, Reader
      <4>3. QED
        BY <2>2, <3>1, <4>1, <4>2 DEF Open, Reader
    <3>7. ReadersInv'
      BY <2>1, <3>1, <3>2, <3>3, <3>6 DEF ReadersInv, CoroutinesTyped, Reader
    <3>8. QED
      BY <3>4, <3>5, <3>7 DEF ServerInv
  <2>10. ASSUME NEW i \in Reader, reader_request(i) \/ reader_ends(i) \/ reader_error(i)
         PROVE  i \in Fd /\ i \in woken /\ reader[i] = i /\ woken' = woken \ {i}
    BY <2>1, <2>10 DEF reader_request, reader_ends, reader_error, resume, ReadersInv, Reader
  <2>11. ASSUME NEW i \in Reader, reader_request(i)
         PROVE  ServerInv'
    <3> DEFINE r == wire[i].req
    <3>1. i \in Fd /\ i \in woken /\ reader[i] = i /\ woken' = woken \ {i}
      BY <2>10, <2>11
    <3>2. /\ r # NULL /\ UNCHANGED <<client, cli_fd, queue, reader>>
          /\ \/ Call(r.op, r.key, r.val) /\ Replies(i, r)
             \/ MallocFails(r.op) /\ UNCHANGED wire
      BY <2>11, <3>1 DEF reader_request
    <3>3. CoroutinesTyped' /\ ReadersInv'
      BY <2>1, <3>1, <3>2 DEF CoroutinesTyped, ReadersInv, Connected, Open
    <3>4. CASE Call(r.op, r.key, r.val) /\ Replies(i, r)
      <4> DEFINE reply == ReplyTo(r.op, last'.val)
      <4>1. r.op \in {"SET", "MOD"} => r.val \in Value
        BY <2>4, <3>1, <3>2, RequestAssumption DEF WireRecord, Request
      <4>2. EngineInv' /\ reply \in Reply
        BY <2>1, <3>4, <4>1, EngineKeeps
      <4> HIDE DEF reply
      <4>3. wire' = [wire EXCEPT ![i].req = NULL,
                                 ![i].rep = IF wire[i].end = "open" THEN reply ELSE NULL]
        BY <3>4 DEF Replies, reply
      <4>4. wire' \in [Fd -> WireRecord]
        BY <2>4, <3>1, <4>2, <4>3, Zenon DEF WireRecord
      <4>5. /\ wire'[i].req = NULL /\ (wire[i].end = "open" => wire'[i].rep = reply)
            /\ wire'[i].end = wire[i].end
        BY <2>4, <3>1, <4>3 DEF WireRecord
      <4>6. \A g \in Fd \ {i} : wire'[g] = wire[g]
        BY <2>4, <4>3
      <4>7. ClientsInv'
        BY <2>1, <2>2, <2>3, <3>2, <4>4, <4>5, <4>6, ServerKeeps
      <4>8. ASSUME NEW c \in Client, Connected(c)'
            PROVE  Pending(c)'
        <5>1. Connected(c) /\ client'[c] = client[c] /\ Pending(c)
          BY <2>1, <3>2, <4>8 DEF Connected
        <5>2. CASE client[c].fd = i
          BY <2>3, <3>2, <4>2, <4>5, <5>1, <5>2, ReplyAssumption DEF Pending
        <5>3. CASE client[c].fd # i
          BY <2>2, <4>6, <5>1, <5>3 DEF Pending
        <5>4. QED
          BY <5>2, <5>3
      <4>9. QED
        BY <3>3, <4>2, <4>7, <4>8 DEF ServerInv
    <3>5. CASE MallocFails(r.op) /\ UNCHANGED wire
      <4>1. EngineInv'
        BY <3>5, EngineKeeps DEF MallocFails
      <4>2. ClientsInv' /\ \A c \in Client : Connected(c)' => Pending(c)'
        BY <2>1, <3>2, <3>5 DEF ClientsInv, SocketsTyped, DescriptorsApart, Connected, Pending
      <4>3. QED
        BY <3>3, <4>1, <4>2 DEF ServerInv
    <3>6. QED
      BY <3>2, <3>4, <3>5
  <2>12. ASSUME NEW i \in Fd, wire[i].end # "open", UNCHANGED <<engine, client>>,
                wire' \in [Fd -> WireRecord], \A g \in Fd \ {i} : wire'[g] = wire[g]
         PROVE  /\ \A c \in Client : Connected(c)' => Connected(c) /\ client[c].fd # i
                /\ EngineInv' /\ ClientsInv' /\ \A c \in Client : Connected(c)' => Pending(c)'
    <3>1. \A c \in Client : Connected(c) => client[c].fd # i /\ wire'[client[c].fd] = wire[client[c].fd]
      BY <2>2, <2>3, <2>12
    <3>2. ClientsInv'
      BY <2>1, <2>3, <2>12, <3>1, ServerKeeps
    <3>3. QED
      BY <2>1, <2>12, <3>1, <3>2 DEF engine, EngineInv, Connected, Pending
  <2>13. ASSUME NEW i \in Reader, reader_ends(i)
         PROVE  ServerInv'
    <3>1. i \in Fd /\ i \in woken /\ reader[i] = i /\ woken' = woken \ {i}
      BY <2>10, <2>13
    <3>2. /\ wire[i].end = "closed" /\ reader' = [reader EXCEPT ![i] = NULL]
          /\ wire' = [wire EXCEPT ![i] = Quiet] /\ UNCHANGED <<engine, client, cli_fd, queue>>
      BY <2>13, <3>1 DEF reader_ends
    <3>3. wire' \in [Fd -> WireRecord] /\ \A g \in Fd \ {i} : wire'[g] = wire[g]
      BY <2>4, <3>2, Zenon DEF WireRecord, Quiet
    <3>4. /\ \A c \in Client : Connected(c)' => Connected(c) /\ client[c].fd # i
          /\ EngineInv' /\ ClientsInv' /\ \A c \in Client : Connected(c)' => Pending(c)'
      BY <2>12, <3>1, <3>2, <3>3
    <3>5. CoroutinesTyped'
      BY <2>1, <3>1, <3>2 DEF CoroutinesTyped, Reader
    <3>6. \A c \in Client : Connected(c)' => Open(client[c].fd)'
      <4>1. SUFFICES ASSUME NEW c \in Client, Connected(c)'
                     PROVE  Open(client[c].fd)'
        OBVIOUS
      <4>2. Connected(c) /\ client[c].fd # i /\ client[c].fd \in Fd /\ Open(client[c].fd)
        BY <2>1, <2>2, <3>4, <4>1 DEF ReadersInv
      <4>3. reader'[client[c].fd] = reader[client[c].fd]
        BY <2>1, <3>2, <4>2 DEF CoroutinesTyped, Reader
      <4>4. QED
        BY <2>5, <3>2, <4>2, <4>3 DEF Open, Reader
    <3>7. ReadersInv'
      BY <2>1, <3>1, <3>2, <3>6 DEF ReadersInv, CoroutinesTyped, Reader
    <3>8. QED
      BY <3>4, <3>5, <3>7 DEF ServerInv
  <2>14. ASSUME NEW i \in Reader, reader_error(i)
         PROVE  ServerInv'
    <3>1. i \in Fd /\ i \in woken /\ reader[i] = i /\ woken' = woken \ {i}
      BY <2>10, <2>14
    <3>2. /\ wire[i].end = "reset" /\ wire' = [wire EXCEPT ![i].end = "closed"]
          /\ UNCHANGED <<engine, client, cli_fd, queue, reader>>
      BY <2>14, <3>1 DEF reader_error
    <3>3. wire' \in [Fd -> WireRecord] /\ \A g \in Fd \ {i} : wire'[g] = wire[g]
      BY <2>4, <3>2, Zenon DEF WireRecord
    <3>4. EngineInv' /\ ClientsInv' /\ \A c \in Client : Connected(c)' => Pending(c)'
      BY <2>12, <3>1, <3>2, <3>3
    <3>5. CoroutinesTyped' /\ ReadersInv'
      BY <2>1, <3>1, <3>2 DEF CoroutinesTyped, ReadersInv, Connected, Open
    <3>6. QED
      BY <3>4, <3>5 DEF ServerInv
  <2>15. CASE ClientStep /\ UNCHANGED <<cli_fd, queue, woken, reader>>
    <3>1. /\ ClientsInv' /\ UNCHANGED engine
          /\ \A c \in Client : Connected(c)' => Moves(c)
      BY <2>1, <2>15, ClientKeeps
    <3>2. \A c \in Client : Connected(c)' => Pending(c)'
      BY <2>1, <3>1 DEF Moves, Pending
    <3>3. \A c \in Client : Connected(c)' => Open(client[c].fd)'
      BY <2>1, <2>15, <3>1 DEF Moves, ReadersInv, Open
    <3>4. EngineInv' /\ CoroutinesTyped' /\ ReadersInv'
      BY <2>1, <2>15, <3>1, <3>3 DEF engine, EngineInv, CoroutinesTyped, ReadersInv
    <3>5. QED
      BY <3>1, <3>2, <3>4 DEF ServerInv
  <2>16. CASE UNCHANGED vars
    <3>1. UNCHANGED <<engine, client, wire, cli_fd, queue, woken, reader>>
      BY <2>16 DEF vars
    <3>2. EngineInv' /\ ClientsInv'
      BY <2>1, <3>1 DEF engine, EngineInv, ClientsInv, SocketsTyped, DescriptorsApart, Connected
    <3>3. CoroutinesTyped' /\ ReadersInv'
      <4>1. CoroutinesTyped'
        BY <2>1, <3>1 DEF CoroutinesTyped
      <4>2. ReadersInv'
        BY <2>1, <3>1, Zenon DEF ReadersInv, Open, Connected
      <4>3. QED
        BY <4>1, <4>2
    <3>4. \A c \in Client : Connected(c)' => Pending(c)'
      BY <2>1, <3>1 DEF Connected, Pending
    <3>5. QED
      BY <3>2, <3>3, <3>4 DEF ServerInv
  <2>17. QED
    BY <2>7, <2>8, <2>9, <2>11, <2>13, <2>14, <2>15, <2>16 DEF Next, SchedulerStep
<1>1. Init => ServerInv
  <2> SUFFICES ASSUME Init
               PROVE  ServerInv
    OBVIOUS
  <2>1. EngineInv
    BY FS_EmptySet, Zenon DEF Init, InitClients, Engine!Init, Engine!NoStore, Engine!NoKeys, EngineInv
  <2>2. \A c \in Client : client[c].fd = NULL /\ ~Connected(c)
    BY DEF Init, InitClients, Connected, Away
  <2>3. SocketsTyped
    BY DEF Init, InitClients, SocketsTyped, ClientRecord, WireRecord, Away, Quiet
  <2>4. ClientsInv /\ CoroutinesTyped /\ ReadersInv
    BY <2>2, <2>3 DEF Init, ClientsInv, DescriptorsApart, CoroutinesTyped, ReadersInv
  <2>5. QED
    BY <2>1, <2>2, <2>4 DEF ServerInv
<1>2. QED
  BY <1>1, <1>ServerStep, PTL DEF Spec

(* The coroutines, the clients and what is on the wire keep their types:   *)
(* every reply the server writes is one the protocol knows, and no reader  *)
(* is ever handed anything but a descriptor.                               *)
THEOREM TypeCorrect == Spec => []TypeOK
<1>1. ServerInv => TypeOK
  BY ServerKeeps DEF ServerInv, CoroutinesTyped, TypeOK
<1>2. QED
  BY <1>1, ServerAlways, PTL

(* Every connection is read by exactly one coroutine, its own, although    *)
(* all of them get the address of the same variable of the accept loop.    *)
THEOREM OwnReaderHolds == Spec => []OwnReader
<1>1. ServerInv => OwnReader
  <2> SUFFICES ASSUME ServerInv, NEW c \in Client, Connected(c)
               PROVE  \/ /\ queue = <<client[c].fd>> /\ cli_fd = client[c].fd
                         /\ \A i \in Reader : reader[i] # client[c].fd
                      \/ Cardinality({i \in Reader : reader[i] = client[c].fd}) = 1
    BY DEF OwnReader, Connected
  <2> DEFINE f == client[c].fd
  <2>1. /\ f \in Fd /\ Open(f) /\ ReadersInv /\ CoroutinesTyped
        /\ \A i \in Reader : reader[i] \in {i, NULL}
    BY DEF ServerInv, ClientsInv, SocketsTyped, DescriptorsApart, ClientRecord, ReadersInv
  <2>2. \A i \in Reader : reader[i] = f => i = f
    BY <2>1, ProtocolAssumption
  <2>3. CASE reader[f] = f
    <3>1. {i \in Reader : reader[i] = f} = {f}
      BY <2>1, <2>2, <2>3 DEF Reader
    <3>2. QED
      BY <3>1, FS_Singleton, Zenon
  <2>4. CASE reader[f] # f
    <3>1. queue = <<f>>
      BY <2>1, <2>2, <2>4 DEF Open, ReadersInv, Reader
    <3>2. QED
      BY <2>1, <2>2, <2>4, <3>1 DEF ReadersInv
  <2>5. QED
    BY <2>3, <2>4
<1>2. QED
  BY <1>1, ServerAlways, PTL

(* No request is lost, answered twice or answered to somebody else.        *)
THEOREM RequestsConserved == Spec => []RequestConserved
<1>1. ServerInv => RequestConserved
  <2> SUFFICES ASSUME ServerInv, NEW c \in Client, Connected(c)
               PROVE  LET w == wire[client[c].fd]
                      IN  /\ Using(client[c].fd) = {c}
                          /\ (client[c].state = "waiting") = (w.req # NULL \/ w.rep # NULL)
                          /\ NULL \in {w.req, w.rep}
    BY DEF RequestConserved, Connected
  <2>1. Pending(c) /\ DescriptorsApart
    BY DEF ServerInv, ClientsInv
  <2>2. Using(client[c].fd) = {c}
    BY <2>1 DEF DescriptorsApart, Using
  <2>3. QED
    BY <2>1, <2>2 DEF Pending
<1>2. QED
  BY <1>1, ServerAlways, PTL

(* The store changes only at the key of a request that is taken off the    *)
(* wire in the same step, and as its command says.                         *)
THEOREM StoreFollowsRequestsHolds == Spec => StoreFollowsRequests
<1>CallChangesItsKey.
    (* What a call of the engine does to the keys of the store. *)
    ASSUME EngineInv, NEW op \in Command, NEW k, NEW v, Call(op, k, v), NEW x \in Key
    PROVE  \/ x \in DOMAIN store /\ x \in DOMAIN store' /\ store[x] = store'[x]
           \/ x \notin DOMAIN store /\ x \notin DOMAIN store'
           \/ /\ x = k
              /\ x \in DOMAIN store <=> op \in {"DEL", "MOD"}
              /\ x \in DOMAIN store' <=> op \in {"SET", "MOD"}
  BY <1>CallChangesItsKey DEF EngineInv, Command, Call, Engine!Insert, Engine!InsertAgain, Engine!Refuse, Engine!Get,
  Engine!Delete, Engine!Miss, Engine!Modify, Engine!Count, Engine!Stored, Engine!Same
<1> DEFINE Follows(k) ==
      (k \in DOMAIN store /\ k \in DOMAIN store' /\ store[k] = store'[k])
      \/ (k \notin DOMAIN store /\ k \notin DOMAIN store')
      \/ \E f \in Fd : /\ wire[f].req # NULL /\ wire'[f].req = NULL
                       /\ wire[f].req.key = k
                       /\ k \in DOMAIN store <=> wire[f].req.op \in {"DEL", "MOD"}
                       /\ k \in DOMAIN store' <=> wire[f].req.op \in {"SET", "MOD"}
<1>1. ASSUME ServerInv, [Next]_vars, ~halted', NEW k \in Key
      PROVE  Follows(k)
  <2>1. ASSUME NEW i \in Reader, reader_request(i)
        PROVE  Follows(k)
    <3> DEFINE r == wire[i].req
    <3>1. i \in Fd /\ reader[i] = i
      BY <1>1, <2>1 DEF ServerInv, ReadersInv, reader_request, resume, Reader
    <3>2. r # NULL /\ Call(r.op, r.key, r.val) /\ Replies(i, r)
      BY <1>1, <2>1, <3>1, EngineKeeps DEF reader_request, MallocFails
    <3>3. wire \in [Fd -> WireRecord] /\ r \in Request
      BY <1>1, <3>1, <3>2, RequestAssumption DEF ServerInv, ClientsInv, SocketsTyped, WireRecord
    <3>4. r.op \in Command
      BY <3>3 DEF Request, Command
    <3>5. wire'[i].req = NULL
      BY <3>1, <3>2, <3>3 DEF Replies, WireRecord
    <3>6. \/ k \in DOMAIN store /\ k \in DOMAIN store' /\ store[k] = store'[k]
          \/ k \notin DOMAIN store /\ k \notin DOMAIN store'
          \/ /\ k = r.key
             /\ k \in DOMAIN store <=> r.op \in {"DEL", "MOD"}
             /\ k \in DOMAIN store' <=> r.op \in {"SET", "MOD"}
      BY <1>1, <3>2, <3>4, <1>CallChangesItsKey DEF ServerInv
    <3>7. QED
      BY <3>1, <3>2, <3>5, <3>6
  <2>2. CASE UNCHANGED store
    BY <2>2
  <2>3. UNCHANGED store \/ \E i \in Reader : reader_request(i)
    <3>1. ASSUME ClientStep
          PROVE  UNCHANGED store
      BY <1>1, <3>1, ClientKeeps DEF ServerInv, engine
    <3>2. QED
      BY <1>1, <3>1, Zenon DEF Next, SchedulerStep, poll, server, reader_starts, reader_ends,
         reader_error, engine, vars
  <2>4. QED
    BY <2>1, <2>2, <2>3
<1>2. ServerInv /\ [Next]_vars => [~halted' => \A k \in Key : Follows(k)]_vars
  BY <1>1
<1>3. QED
  BY <1>2, ServerAlways, PTL DEF Spec, StoreFollowsRequests
=============================================================================
