------------------------- MODULE EpollServerProofs -------------------------
(***************************************************************************)
(* Proofs about the epoll server, for every set of clients, descriptors,   *)
(* keys and values, and every length of the words and of the buffer.       *)
(*                                                                         *)
(* What makes its safety inductive: an event that epoll_wait returned      *)
(* stays true until its callback runs.  The connection is still open and   *)
(* still registered for that event, because only its own callback changes  *)
(* either; so a reply is in wbuffer when send_cb runs, and no request is   *)
(* read while one is there.                                                *)
(***************************************************************************)
EXTENDS EpollServer, KVProtocolProofs

Zeros == SUBSET Position
Word == Command \cup {NULL}
Tokens == [op : Word, key : Key \cup {NULL}, val : Value \cup {NULL}]
Parsed == Tokens \cup {NULL}
Output == Reply \cup {NULL}
Event == {"in", "out", NULL}

ConnRecord ==
    [open : BOOLEAN, zeros : Zeros, cmd : Word, read : Parsed, wbuffer : Output, event : Event]

ConnsTyped ==
    /\ conn \in [Fd -> ConnRecord]
    /\ ready \subseteq ((Fd \cup {Listener}) \X {"in", "out"})

(* An event that was not handled yet is one its connection waits for; a    *)
(* connection that waits for output has a reply to send.                   *)
EventsInv ==
    /\ \A f \in Fd : <<f, "in">> \in ready => conn[f].open /\ conn[f].event = "in"
    /\ \A f \in Fd : <<f, "out">> \in ready => conn[f].open /\ conn[f].event = "out"
    /\ \A f \in Fd : conn[f].open /\ conn[f].event = "out" => conn[f].wbuffer \in Reply

(* The request of a waiting client is in one place: on its way in, in      *)
(* wbuffer as a reply, or on its way back.                                 *)
Pending(c) ==
    LET f == client[c].fd
        in == wire[f].req # NULL
        held == conn[f].event = "out"
        out == wire[f].rep # NULL
    IN  /\ client[c].state = "waiting" <=> in \/ held \/ out
        /\ ~(in /\ held) /\ ~(in /\ out) /\ ~(held /\ out)

ServerInv ==
    /\ EngineInv /\ ClientsInv /\ ConnsTyped /\ EventsInv
    /\ \A c \in Client : Connected(c) => conn[client[c].fd].open
    /\ ~halted => \A c \in Client : Connected(c) => Pending(c)

(* The invariant holds in every reachable state. *)
LEMMA ServerAlways == Spec => []ServerInv
<1>ExecutesHolds.
    (* A callback that executes a command leaves the reply in wbuffer and the  *)
    (* connection waiting for output, and touches no other connection.         *)
    ASSUME EngineInv, ConnsTyped, NEW f \in Fd, NEW z \in Zeros, NEW r \in Tokens,
           r.op \in {"SET", "MOD"} => r.val \in Value, Executes(f, r, z)
    PROVE  /\ EngineInv' /\ halted' = halted
           /\ conn' \in [Fd -> ConnRecord]
           /\ conn'[f].open = conn[f].open /\ conn'[f].event = "out"
           /\ conn'[f].wbuffer \in Reply
           /\ \A g \in Fd \ {f} : conn'[g] = conn[g]
  <2> USE <1>ExecutesHolds
  <2> DEFINE reply == ReplyTo(r.op, last'.val)
  <2>1. EngineInv' /\ halted' = halted /\ reply \in Reply
    <3>1. Call(r.op, r.key, r.val)
      BY DEF Executes
    <3>2. QED
      BY <3>1, EngineKeeps
  <2>2. conn' = [conn EXCEPT ![f].zeros = z, ![f].cmd = r.op, ![f].read = r,
                             ![f].wbuffer = reply, ![f].event = "out"]
    BY DEF Executes
  <2> HIDE DEF reply
  <2>3. conn \in [Fd -> ConnRecord]
    BY DEF ConnsTyped
  <2>4. conn' \in [Fd -> ConnRecord]
    <3>1. r \in Parsed /\ r.op \in Word /\ reply \in Output /\ "out" \in Event
      BY <2>1 DEF Tokens, Parsed, Output, Event
    <3> DEFINE new == [conn[f] EXCEPT !.zeros = z, !.cmd = r.op, !.read = r,
                                      !.wbuffer = reply, !.event = "out"]
    <3>2. new \in ConnRecord
      BY <2>3, <3>1, Zenon DEF ConnRecord
    <3>3. conn' = [conn EXCEPT ![f] = new]
      BY <2>2, <2>3, Zenon DEF ConnRecord
    <3> HIDE DEF new
    <3>4. QED
      BY <2>3, <3>2, <3>3
  <2>5. conn'[f].open = conn[f].open /\ conn'[f].event = "out" /\ conn'[f].wbuffer = reply
    BY <2>2, <2>3 DEF ConnRecord
  <2>6. \A g \in Fd \ {f} : conn'[g] = conn[g]
    BY <2>2, <2>3
  <2>7. QED
    BY <2>1, <2>4, <2>5, <2>6
<1>ServerStepKeeps.
    (* Every step of the server and of a client keeps the invariant. *)
    ASSUME ServerInv, [Next]_vars
    PROVE  ServerInv'
  <2> USE <1>ServerStepKeeps
  <2>SpacesInBuffer.
      (* The spaces that kvstore_split_token turns into zeros lie in the buffer. *)
      ASSUME NEW r \in Sent
      PROVE  Spaces(r) \subseteq Position
    <3> USE <2>SpacesInBuffer
    <3>1. r \in Request /\ Bytes(r) <= BUFFER_LENGTH
      BY RequestAssumption, ShortAssumption
    <3>2. OpLength[r.op] \in Nat /\ BUFFER_LENGTH \in Nat
      <4>1. r.op \in Command
        BY <3>1 DEF Request, Command
      <4>2. QED
        BY <4>1, BufferAssumption
    <3>3. CASE r \in [op : {"COUNT"}, key : {NULL}, val : {NULL}]
      BY <3>3 DEF Spaces
    <3>4. CASE r \in [op : {"GET", "DEL"}, key : Key, val : {NULL}]
      <4>1. KeyLength[r.key] \in Nat /\ r.op \in {"GET", "DEL"}
        BY <3>4, BufferAssumption
      <4>2. Spaces(r) = {OpLength[r.op]} /\ Bytes(r) = OpLength[r.op] + 1 + KeyLength[r.key]
        BY <4>1 DEF Spaces, Bytes
      <4>3. QED
        BY <3>1, <3>2, <4>1, <4>2 DEF Position
    <3>5. CASE r \in [op : {"SET", "MOD"}, key : Key, val : Value]
      <4>1. /\ KeyLength[r.key] \in Nat /\ ValueLength[r.val] \in Nat
            /\ r.op \in {"SET", "MOD"}
        BY <3>5, BufferAssumption
      <4>2. /\ Spaces(r) = {OpLength[r.op], OpLength[r.op] + 1 + KeyLength[r.key]}
            /\ Bytes(r) = OpLength[r.op] + 2 + KeyLength[r.key] + ValueLength[r.val]
        BY <4>1 DEF Spaces, Bytes
      <4>3. QED
        BY <3>1, <3>2, <4>1, <4>2 DEF Position
    <3>6. QED
      BY <3>1, <3>3, <3>4, <3>5 DEF Request
  <2>RunOnIsRequest.
      (* A request whose last word runs on is still a request. *)
      ASSUME NEW r \in Request, NEW x \in RunOn(r)
      PROVE  x \in Request
    <3> USE <2>RunOnIsRequest
    <3>1. CASE r \in [op : {"COUNT"}, key : {NULL}, val : {NULL}]
      <4>1. RunOn(r) = {}
        BY <3>1 DEF RunOn
      <4>2. QED
        BY <4>1
    <3>2. CASE r \in [op : {"GET", "DEL"}, key : Key, val : {NULL}]
      <4>1. PICK k \in Key : x = [r EXCEPT !.key = k]
        BY <3>2 DEF RunOn
      <4>2. QED
        BY <3>2, <4>1 DEF Request
    <3>3. CASE r \in [op : {"SET", "MOD"}, key : Key, val : Value]
      <4>1. PICK v \in Value : x = [r EXCEPT !.val = v]
        BY <3>3 DEF RunOn
      <4>2. QED
        BY <3>3, <4>1 DEF Request
    <3>4. QED
      BY <3>1, <3>2, <3>3 DEF Request
  <2>1. /\ EngineInv /\ ClientsInv /\ ConnsTyped /\ EventsInv
        /\ \A c \in Client : Connected(c) => conn[client[c].fd].open
        /\ ~halted => \A c \in Client : Connected(c) => Pending(c)
    BY DEF ServerInv
  <2>2. \A c \in Client : Connected(c) => client[c].fd \in Fd
    BY <2>1 DEF ClientsInv, SocketsTyped, DescriptorsApart, ClientRecord
  <2>3. /\ \A c \in Client : Connected(c) <=> client[c].fd # NULL
        /\ \A c \in Client : Connected(c) => wire[client[c].fd].end = "open"
        /\ \A c, d \in Client : Connected(c) /\ client[c].fd = client[d].fd => c = d
    BY <2>1 DEF ClientsInv, DescriptorsApart
  <2>4. /\ client \in [Client -> ClientRecord] /\ wire \in [Fd -> WireRecord]
        /\ conn \in [Fd -> ConnRecord]
    BY <2>1 DEF ClientsInv, SocketsTyped, ConnsTyped
  <2>5. 0 \notin Fd /\ NULL \notin Fd
    BY ProtocolAssumption
  <2>6. CASE epoll_wait
    <3>1. UNCHANGED <<engine, client, wire, conn>>
      BY <2>6 DEF epoll_wait
    <3>2. ConnsTyped' /\ EventsInv'
      BY <2>1, <2>5, <2>6, <3>1 DEF epoll_wait, ConnsTyped, EventsInv, Listener
    <3>3. QED
      BY <2>1, <3>1, <3>2 DEF engine, ServerInv, EngineInv, ClientsInv, SocketsTyped,
         DescriptorsApart, Connected, Pending
  <2>7. CASE accept_cb
    <3>1. /\ ready' = ready \ {<<Listener, "in">>} /\ UNCHANGED engine
      BY <2>7 DEF accept_cb, Handle
    <3>2. CASE UNCHANGED <<client, wire, conn>>
      <4>1. ConnsTyped' /\ EventsInv'
        BY <2>1, <3>1, <3>2 DEF ConnsTyped, EventsInv
      <4>2. QED
        BY <2>1, <3>1, <3>2, <4>1, Zenon DEF engine, ServerInv, EngineInv, ClientsInv, SocketsTyped,
           DescriptorsApart, Connected, Pending
    <3>3. ASSUME NEW c \in Client, NEW f \in Fd, ~conn[f].open, Accepted(c, f),
                 conn' = [conn EXCEPT ![f] = [Closed EXCEPT !.open = TRUE, !.zeros = Position,
                                                            !.event = "in"]]
          PROVE  ServerInv'
      <4>1. \A d \in Client : client[d].fd # f
        BY <2>1, <2>3, <2>5, <3>3
      <4>2. EngineInv' /\ ClientsInv'
        BY <2>1, <3>1, <3>3, <4>1, ServerKeeps DEF engine, EngineInv
      <4>3. /\ conn' \in [Fd -> ConnRecord]
            /\ conn'[f].open /\ conn'[f].event = "in"
            /\ \A g \in Fd \ {f} : conn'[g] = conn[g]
        BY <2>4, <3>3, Zenon DEF ConnRecord, Closed, Zeros, Word, Parsed, Output, Event
      <4>4. ConnsTyped' /\ EventsInv'
        BY <2>1, <3>1, <3>3, <4>3 DEF ConnsTyped, EventsInv
      <4>5. /\ client'[c].state = "idle" /\ client'[c].fd = f /\ wire'[f] = Quiet
            /\ \A d \in Client \ {c} : client'[d] = client[d]
            /\ \A g \in Fd \ {f} : wire'[g] = wire[g]
        BY <2>4, <3>3 DEF Accepted, ClientRecord
      <4>6. ASSUME NEW d \in Client, Connected(d)'
            PROVE  conn'[client'[d].fd].open /\ (~halted' => Pending(d)')
        <5>1. CASE d = c
          BY <4>3, <4>5, <5>1 DEF Pending, Quiet
        <5>2. CASE d # c
          <6>1. Connected(d) /\ client'[d] = client[d]
            BY <4>5, <4>6, <5>2 DEF Connected
          <6>2. wire'[client[d].fd] = wire[client[d].fd] /\ conn'[client[d].fd] = conn[client[d].fd]
            BY <2>2, <4>1, <4>3, <4>5, <6>1
          <6>3. QED
            BY <2>1, <3>1, <6>1, <6>2 DEF Pending, engine
        <5>3. QED
          BY <5>1, <5>2
      <4>7. QED
        BY <4>2, <4>4, <4>6 DEF ServerInv
    <3>4. QED
      BY <2>7, <3>2, <3>3 DEF accept_cb
  <2>8. ASSUME NEW f \in Fd, recv_data(f)
        PROVE  ServerInv'
    <3> DEFINE r == wire[f].req
               left == conn[f].zeros \ 0 .. Bytes(r) - 1
               z == left \cup Spaces(r)
    <3>1. /\ ~halted /\ <<f, "in">> \in ready /\ ready' = ready \ {<<f, "in">>} /\ r # NULL
          /\ wire' = [wire EXCEPT ![f].req = NULL] /\ UNCHANGED client
      BY <2>8 DEF recv_data, Handle
    <3>2. conn[f].open /\ conn[f].event = "in" /\ <<f, "out">> \notin ready
      BY <2>1, <3>1 DEF EventsInv
    <3>3. r \in Sent /\ r \in Request
      BY <2>4, <3>1, RequestAssumption DEF WireRecord
    <3>4. z \in Zeros
      BY <2>4, <3>3, <2>SpacesInBuffer DEF ConnRecord, Zeros
    <3>5. /\ wire' \in [Fd -> WireRecord]
          /\ wire'[f].req = NULL /\ wire'[f].rep = wire[f].rep /\ wire'[f].end = wire[f].end
          /\ \A g \in Fd \ {f} : wire'[g] = wire[g]
      BY <2>4, <3>1 DEF WireRecord
    <3>6. ClientsInv'
      BY <2>1, <2>2, <2>3, <3>1, <3>5, ServerKeeps
    <3>7. ASSUME NEW x \in Request, Executes(f, x, z)
          PROVE  ServerInv'
      <4>1. x \in Tokens /\ (x.op \in {"SET", "MOD"} => x.val \in Value)
        BY <3>7 DEF Request, Tokens, Word, Command
      <4>2. /\ EngineInv' /\ halted' = halted /\ conn' \in [Fd -> ConnRecord]
            /\ conn'[f].open = conn[f].open /\ conn'[f].event = "out" /\ conn'[f].wbuffer \in Reply
            /\ \A g \in Fd \ {f} : conn'[g] = conn[g]
        BY <2>1, <3>4, <3>7, <4>1, <1>ExecutesHolds
      <4>3. ConnsTyped' /\ EventsInv'
        BY <2>1, <3>1, <3>2, <4>2 DEF ConnsTyped, EventsInv
      <4>4. ASSUME NEW c \in Client, Connected(c)'
            PROVE  conn'[client'[c].fd].open /\ Pending(c)'
        <5>1. Connected(c) /\ client'[c] = client[c] /\ Pending(c)
          BY <2>1, <3>1, <4>4 DEF Connected
        <5>2. CASE client[c].fd = f
          <6>1. client[c].state = "waiting" /\ wire[f].rep = NULL
            BY <3>1, <5>1, <5>2 DEF Pending
          <6>2. QED
            BY <3>2, <3>5, <4>2, <5>1, <5>2, <6>1, Zenon DEF Pending
        <5>3. CASE client[c].fd # f
          <6>1. /\ wire'[client[c].fd] = wire[client[c].fd]
                /\ conn'[client[c].fd] = conn[client[c].fd]
            BY <2>2, <3>5, <4>2, <5>1, <5>3
          <6>2. QED
            BY <2>1, <5>1, <6>1, Zenon DEF Pending
        <5>4. QED
          BY <5>2, <5>3
      <4>5. QED
        BY <3>6, <4>2, <4>3, <4>4 DEF ServerInv
    <3>8. ASSUME Die, conn' = [conn EXCEPT ![f].read = NoCommand] \/ UNCHANGED conn
          PROVE  ServerInv'
      <4>1. EngineInv' /\ halted'
        BY <3>8, EngineKeeps
      <4>2. conn' \in [Fd -> ConnRecord]
        <5>1. NoCommand \in Parsed
          BY DEF NoCommand, Parsed, Tokens, Word
        <5>2. QED
          BY <2>4, <3>8, <5>1 DEF ConnRecord
      <4>3. \A g \in Fd : /\ conn'[g].open = conn[g].open /\ conn'[g].event = conn[g].event
                          /\ conn'[g].wbuffer = conn[g].wbuffer
        BY <2>4, <3>8 DEF ConnRecord
      <4>4. ConnsTyped' /\ EventsInv'
        BY <2>1, <3>1, <4>2, <4>3 DEF ConnsTyped, EventsInv
      <4>5. \A c \in Client : Connected(c)' => conn'[client'[c].fd].open
        BY <2>1, <2>2, <3>1, <4>3 DEF Connected
      <4>6. QED
        BY <3>6, <4>1, <4>4, <4>5 DEF ServerInv
    <3>9. QED
      BY <2>8, <3>3, <3>7, <3>8, <2>RunOnIsRequest, Zenon DEF recv_data, MallocFails
  <2>9. ASSUME NEW f \in Fd, recv_end(f)
        PROVE  ServerInv'
    <3>1. /\ <<f, "in">> \in ready /\ ready' = ready \ {<<f, "in">>} /\ wire[f].end = "closed"
          /\ conn' = [conn EXCEPT ![f] = Closed] /\ wire' = [wire EXCEPT ![f] = Quiet]
          /\ UNCHANGED <<engine, client>>
      BY <2>9 DEF recv_end, Handle
    <3>2. /\ wire' \in [Fd -> WireRecord] /\ conn' \in [Fd -> ConnRecord] /\ ~conn'[f].open
          /\ \A g \in Fd \ {f} : wire'[g] = wire[g] /\ conn'[g] = conn[g]
      BY <2>4, <3>1 DEF WireRecord, ConnRecord, Quiet, Closed, Zeros, Word, Parsed, Output, Event
    <3>3. \A c \in Client : Connected(c) => client[c].fd # f
      BY <2>3, <3>1
    <3>4. EngineInv' /\ ClientsInv'
      BY <2>1, <2>2, <2>3, <3>1, <3>2, <3>3, ServerKeeps DEF engine, EngineInv
    <3>5. ConnsTyped' /\ EventsInv'
      <4>1. <<f, "out">> \notin ready
        BY <2>1, <3>1 DEF EventsInv
      <4>2. QED
        BY <2>1, <3>1, <3>2, <4>1 DEF ConnsTyped, EventsInv
    <3>6. ASSUME NEW c \in Client, Connected(c)'
          PROVE  conn'[client'[c].fd].open /\ (~halted' => Pending(c)')
      <4>1. Connected(c) /\ client'[c] = client[c]
        BY <3>1, <3>6 DEF Connected
      <4>2. wire'[client[c].fd] = wire[client[c].fd] /\ conn'[client[c].fd] = conn[client[c].fd]
        BY <2>2, <3>2, <3>3, <4>1
      <4>3. QED
        BY <2>1, <3>1, <4>1, <4>2, Zenon DEF Pending, engine
    <3>7. QED
      BY <3>4, <3>5, <3>6 DEF ServerInv
  <2>10. ASSUME NEW f \in Fd, recv_error(f)
         PROVE  ServerInv'
    <3>1. /\ <<f, "in">> \in ready /\ ready' = ready \ {<<f, "in">>} /\ wire[f].end = "reset"
          /\ UNCHANGED <<client, wire>>
      BY <2>10 DEF recv_error, Handle
    <3>2. conn[f].open /\ <<f, "out">> \notin ready
      BY <2>1, <3>1 DEF EventsInv
    <3>3. \A c \in Client : Connected(c) => client[c].fd # f
      BY <2>3, <3>1
    <3>4. ClientsInv'
      BY <2>1, <3>1 DEF ClientsInv, SocketsTyped, DescriptorsApart, Connected
    <3>5. ASSUME NEW k \in Key, NEW v \in Value,
                 Executes(f, [op |-> conn[f].cmd, key |-> k, val |-> v], conn[f].zeros)
          PROVE  ServerInv'
      <4> DEFINE x == [op |-> conn[f].cmd, key |-> k, val |-> v]
      <4>1. conn[f].zeros \in Zeros /\ x \in Tokens /\ x.val \in Value
        BY <2>4 DEF ConnRecord, Tokens
      <4> HIDE DEF x
      <4>2. Executes(f, x, conn[f].zeros)
        BY <3>5 DEF x
      <4>3. /\ EngineInv' /\ halted' = halted /\ conn' \in [Fd -> ConnRecord]
            /\ conn'[f].open = conn[f].open /\ conn'[f].event = "out" /\ conn'[f].wbuffer \in Reply
            /\ \A g \in Fd \ {f} : conn'[g] = conn[g]
        BY <2>1, <4>1, <4>2, <1>ExecutesHolds
      <4>4. ConnsTyped' /\ EventsInv'
        BY <2>1, <3>1, <3>2, <4>3 DEF ConnsTyped, EventsInv
      <4>5. ASSUME NEW c \in Client, Connected(c)'
            PROVE  conn'[client'[c].fd].open /\ (~halted' => Pending(c)')
        <5>1. Connected(c) /\ client'[c] = client[c] /\ conn'[client[c].fd] = conn[client[c].fd]
          BY <2>2, <3>1, <3>3, <4>3, <4>5 DEF Connected
        <5>2. wire'[client[c].fd] = wire[client[c].fd]
          BY <3>1
        <5>3. conn[client[c].fd].open /\ (~halted' => Pending(c))
          BY <2>1, <4>3, <5>1
        <5>4. QED
          BY <5>1, <5>2, <5>3, Zenon DEF Pending
      <4>6. QED
        BY <3>4, <4>3, <4>4, <4>5 DEF ServerInv
    <3>6. CASE Die /\ UNCHANGED conn
      <4>1. EngineInv' /\ halted'
        BY <3>6, EngineKeeps
      <4>2. ConnsTyped' /\ EventsInv'
        BY <2>1, <3>1, <3>6 DEF ConnsTyped, EventsInv
      <4>3. QED
        BY <2>1, <3>1, <3>4, <3>6, <4>1, <4>2 DEF ServerInv, Connected
    <3>7. QED
      BY <2>10, <3>5, <3>6, Zenon DEF recv_error
  <2>11. ASSUME NEW f \in Fd, send_cb(f)
         PROVE  ServerInv'
    <3>1. /\ ~halted /\ <<f, "out">> \in ready /\ ready' = ready \ {<<f, "out">>}
          /\ UNCHANGED client
      BY <2>11 DEF send_cb, Handle
    <3>2. /\ conn[f].open /\ conn[f].event = "out" /\ conn[f].wbuffer \in Reply
          /\ <<f, "in">> \notin ready
      BY <2>1, <3>1 DEF EventsInv
    <3>3. CASE Sends(f) /\ UNCHANGED engine
      <4>1. /\ wire' = [wire EXCEPT ![f].rep = IF wire[f].end = "open" THEN conn[f].wbuffer ELSE NULL]
            /\ conn' = [conn EXCEPT ![f].read = NULL, ![f].wbuffer = NULL, ![f].event = "in"]
        BY <3>3 DEF Sends
      <4>2. wire' \in [Fd -> WireRecord]
        BY <2>4, <3>2, <4>1 DEF WireRecord
      <4>3. /\ wire'[f].end = wire[f].end /\ wire'[f].req = wire[f].req
            /\ (wire[f].end = "open" => wire'[f].rep \in Reply)
            /\ \A g \in Fd \ {f} : wire'[g] = wire[g]
        BY <2>4, <3>2, <4>1 DEF WireRecord
      <4>4. conn' \in [Fd -> ConnRecord]
        <5>1. NULL \in Parsed /\ NULL \in Output /\ "in" \in Event
          BY DEF Parsed, Output, Event
        <5> DEFINE r == [conn[f] EXCEPT !.read = NULL, !.wbuffer = NULL, !.event = "in"]
        <5>2. r \in ConnRecord
          BY <2>4, <5>1 DEF ConnRecord
        <5>3. conn' = [conn EXCEPT ![f] = r]
          BY <2>4, <4>1
        <5> HIDE DEF r
        <5>4. QED
          BY <2>4, <5>2, <5>3
      <4>5. /\ conn'[f].open /\ conn'[f].event = "in"
            /\ \A g \in Fd \ {f} : conn'[g] = conn[g]
        BY <2>4, <3>2, <4>1 DEF ConnRecord
      <4>6. EngineInv' /\ ClientsInv'
        BY <2>1, <2>2, <2>3, <3>1, <3>3, <4>2, <4>3, ServerKeeps DEF engine, EngineInv
      <4>7. ConnsTyped' /\ EventsInv'
        BY <2>1, <3>1, <3>2, <4>4, <4>5 DEF ConnsTyped, EventsInv
      <4>8. ASSUME NEW c \in Client, Connected(c)'
            PROVE  conn'[client'[c].fd].open /\ Pending(c)'
        <5>1. Connected(c) /\ client'[c] = client[c] /\ Pending(c)
          BY <2>1, <3>1, <4>8 DEF Connected
        <5>2. CASE client[c].fd = f
          BY <2>3, <3>2, <4>3, <4>5, <5>1, <5>2, ReplyAssumption DEF Pending
        <5>3. CASE client[c].fd # f
          <6>1. /\ wire'[client[c].fd] = wire[client[c].fd]
                /\ conn'[client[c].fd] = conn[client[c].fd]
            BY <2>2, <4>3, <4>5, <5>1, <5>3
          <6>2. QED
            BY <2>1, <5>1, <6>1, Zenon DEF Pending
        <5>4. QED
          BY <5>2, <5>3
      <4>9. QED
        BY <4>6, <4>7, <4>8 DEF ServerInv
    <3>4. CASE Die /\ UNCHANGED <<wire, conn>>
      <4>1. EngineInv' /\ halted'
        BY <3>4, EngineKeeps
      <4>2. ConnsTyped' /\ EventsInv'
        BY <2>1, <3>1, <3>4 DEF ConnsTyped, EventsInv
      <4>3. ClientsInv'
        BY <2>1, <3>1, <3>4 DEF ClientsInv, SocketsTyped, DescriptorsApart, Connected
      <4>4. QED
        BY <2>1, <3>1, <3>4, <4>1, <4>2, <4>3 DEF ServerInv, Connected
    <3>5. QED
      BY <2>11, <3>3, <3>4 DEF send_cb
  <2>12. CASE ClientStep /\ UNCHANGED <<conn, ready>>
    <3>1. /\ ClientsInv' /\ UNCHANGED engine
          /\ \A c \in Client : Connected(c)' => Moves(c)
      BY <2>1, <2>12, ClientKeeps
    <3>2. EngineInv' /\ ConnsTyped' /\ EventsInv'
      BY <2>1, <2>12, <3>1 DEF engine, EngineInv, ConnsTyped, EventsInv
    <3>3. \A c \in Client : Connected(c)' => conn'[client'[c].fd].open
      BY <2>1, <2>12, <3>1 DEF Moves
    <3>4. ASSUME ~halted', NEW c \in Client, Connected(c)'
          PROVE  Pending(c)'
      <4>1. Pending(c) /\ Moves(c)
        BY <2>1, <3>1, <3>4 DEF Moves, engine
      <4>2. QED
        BY <2>12, <4>1 DEF Moves, Pending
    <3>5. QED
      BY <3>1, <3>2, <3>3, <3>4 DEF ServerInv
  <2>13. CASE UNCHANGED vars
    BY <2>1, <2>13 DEF vars, engine, ServerInv, EngineInv, ClientsInv, SocketsTyped, DescriptorsApart,
       Connected, ConnsTyped, EventsInv, Pending
  <2>14. QED
    BY <2>6, <2>7, <2>8, <2>9, <2>10, <2>11, <2>12, <2>13 DEF Next, ServerStep, recv_cb
<1>1. Init => ServerInv
  <2> SUFFICES ASSUME Init
               PROVE  ServerInv
    OBVIOUS
  <2>1. EngineInv
    BY FS_EmptySet, Zenon DEF Init, InitClients, Engine!Init, Engine!NoStore, Engine!NoKeys, EngineInv
  <2>2. \A c \in Client : client[c].fd = NULL /\ ~Connected(c)
    BY DEF Init, InitClients, Connected, Away
  <2>3. SocketsTyped
    BY DEF Init, InitClients, SocketsTyped, ClientRecord, WireRecord, Away, Quiet
  <2>4. ClientsInv
    BY <2>2, <2>3 DEF ClientsInv, DescriptorsApart
  <2>5. ConnsTyped /\ EventsInv
    BY DEF Init, ConnsTyped, EventsInv, ConnRecord, Closed, Zeros, Word, Parsed, Output, Event
  <2>6. QED
    BY <2>1, <2>2, <2>4, <2>5 DEF ServerInv
<1>2. QED
  BY <1>1, <1>ServerStepKeeps, PTL DEF Spec

(* The connections, the events and the clients keep their types: the zeros *)
(* of a read buffer lie inside it, wbuffer holds a reply or nothing.       *)
THEOREM TypeCorrect == Spec => []TypeOK
<1>1. ServerInv => TypeOK
  <2> SUFFICES ASSUME ServerInv
               PROVE  TypeOK
    OBVIOUS
  <2>1. ClientsTypeOK /\ ConnsTyped
    BY ServerKeeps DEF ServerInv
  <2>2. QED
    BY <2>1 DEF ConnsTyped, ConnRecord, Zeros, Word, Output, Event, TypeOK
<1>2. QED
  BY <1>1, ServerAlways, PTL

(* No request is lost, answered twice or answered to somebody else, as     *)
(* long as the process lives.                                              *)
THEOREM RequestsConserved == Spec => []RequestConserved
<1>1. ServerInv => RequestConserved
  <2> SUFFICES ASSUME ServerInv, ~halted, NEW c \in Client, Connected(c)
               PROVE  LET f == client[c].fd
                          Places == {p \in {"in", "buffer", "out"} :
                                       \/ p = "in" /\ wire[f].req # NULL
                                       \/ p = "buffer" /\ conn[f].event = "out"
                                       \/ p = "out" /\ wire[f].rep # NULL}
                      IN  /\ conn[f].open /\ Using(f) = {c}
                          /\ Cardinality(Places) = IF client[c].state = "waiting" THEN 1 ELSE 0
    BY DEF RequestConserved, Connected
  <2> DEFINE f == client[c].fd
             Places == {p \in {"in", "buffer", "out"} :
                          \/ p = "in" /\ wire[f].req # NULL
                          \/ p = "buffer" /\ conn[f].event = "out"
                          \/ p = "out" /\ wire[f].rep # NULL}
  <2>1. Pending(c) /\ DescriptorsApart /\ conn[f].open
    BY DEF ServerInv, ClientsInv
  <2>2. Using(f) = {c}
    BY <2>1 DEF DescriptorsApart, Using
  <2>3. CASE client[c].state = "waiting"
    <3>1. PICK p \in {"in", "buffer", "out"} : Places = {p}
      BY <2>1, <2>3, Zenon DEF Pending
    <3>2. QED
      BY <2>1, <2>2, <2>3, <3>1, FS_Singleton
  <2>4. CASE client[c].state # "waiting"
    <3>1. Places = {}
      BY <2>1, <2>4 DEF Pending
    <3>2. QED
      BY <2>1, <2>2, <2>4, <3>1, FS_EmptySet
  <2>5. QED
    BY <2>3, <2>4
<1>2. QED
  BY <1>1, ServerAlways, PTL
=============================================================================
