-------------------------- MODULE KVProtocolProofs --------------------------
(***************************************************************************)
(* What the proofs about the two servers share: the part of their          *)
(* inductive invariants that speaks of the engine, the clients and the     *)
(* sockets between them, and what a call of the engine, a step of a client *)
(* and an accept do to it.                                                 *)
(***************************************************************************)
EXTENDS KVProtocol, FiniteSetTheorems, TLAPS

(* The engine holds finitely many keys and a counter that is not negative. *)
EngineInv ==
    /\ IsFiniteSet(DOMAIN store)
    /\ store \in [DOMAIN store -> Value \cup {NULL}]
    /\ surplus \in Nat
    /\ halted \in BOOLEAN

Connected(c) == client[c].state \in {"idle", "waiting"}

ClientRecord ==
    [state : {"away", "queued", "idle", "waiting"},
     fd : Fd \cup {NULL}, asked : Sent \cup {NULL}]

WireRecord ==
    [req : Sent \cup {NULL}, rep : Reply \cup {NULL}, end : {"open", "closed", "reset"}]

SocketsTyped == client \in [Client -> ClientRecord] /\ wire \in [Fd -> WireRecord]

(* A client has a descriptor exactly while it is connected, no two have    *)
(* the same, and its end of the connection is open.                        *)
DescriptorsApart ==
    /\ \A c \in Client : Connected(c) <=> client[c].fd # NULL
    /\ \A c \in Client : Connected(c) => wire[client[c].fd].end = "open"
    /\ \A c, d \in Client : Connected(c) /\ client[c].fd = client[d].fd => c = d

ClientsInv == SocketsTyped /\ DescriptorsApart

(* A call of the engine keeps the engine in order, and what it returns is  *)
(* turned into a reply; the engine of a process that has died is empty.    *)
LEMMA EngineKeeps ==
    /\ \A op, k, v : EngineInv /\ (op \in {"SET", "MOD"} => v \in Value) /\ Call(op, k, v) =>
          /\ EngineInv' /\ halted' = halted
          /\ ReplyTo(op, last'.val) \in Reply
    /\ Die => EngineInv' /\ halted'
<1>1. ASSUME EngineInv, NEW op, NEW k, NEW v,
             op \in {"SET", "MOD"} => v \in Value, Call(op, k, v)
      PROVE  /\ EngineInv' /\ halted' = halted
             /\ ReplyTo(op, last'.val) \in Reply
  <2> USE <1>1
  <2> USE DEF EngineInv, ReplyTo, Reply, Says
  <2> USE DEF Engine!Stored, Engine!Returns, Engine!Same
  <2>1. CASE op = "SET" /\ Engine!Insert(k, v)
    <3>1. IsFiniteSet(DOMAIN store \cup {k})
      BY FS_AddElement
    <3>2. QED
      BY <2>1, <3>1 DEF Engine!Insert
  <2>2. CASE op = "SET" /\ Engine!InsertAgain(k)
    BY <2>2 DEF Engine!InsertAgain
  <2>3. CASE op = "SET" /\ Engine!Refuse("set", k, -1)
    BY <2>3 DEF Engine!Refuse
  <2>4. CASE op = "GET" /\ Engine!Get(k)
    BY <2>4 DEF Engine!Get
  <2>5. CASE op = "DEL" /\ Engine!Delete(k)
    <3>1. IsFiniteSet(DOMAIN store \ {k})
      BY FS_RemoveElement
    <3>2. QED
      BY <2>5, <3>1 DEF Engine!Delete
  <2>6. CASE \/ op = "DEL" /\ Engine!Miss("delete", k)
             \/ op = "MOD" /\ Engine!Miss("modify", k)
    BY <2>6 DEF Engine!Miss
  <2>7. CASE op = "MOD" /\ (Engine!Modify(k, v) \/ Engine!Modify(k, NULL))
    BY <2>7 DEF Engine!Modify
  <2>8. CASE op = "COUNT" /\ Engine!Count
    <3>1. Cardinality(DOMAIN store) + surplus \in Nat
      BY FS_CardinalityType
    <3>2. Engine!Cardinality(DOMAIN store) = Cardinality(DOMAIN store)
      BY Zenon DEF Engine!Cardinality, Cardinality
    <3>3. QED
      BY <2>8, <3>1, <3>2 DEF Engine!Count
  <2>9. QED
    BY <2>1, <2>2, <2>3, <2>4, <2>5, <2>6, <2>7, <2>8 DEF Call
<1>2. ASSUME Die
      PROVE  EngineInv' /\ halted'
  BY <1>2, FS_EmptySet DEF Die, EngineInv, Engine!Halt, Engine!NoStore, Engine!NoKeys
<1>3. QED
  BY <1>1, <1>2

(* What a connected client may find after a step of a client: everything   *)
(* as it was, its own request sent, or its own reply received.             *)
Moves(c) ==
    LET f == client[c].fd
    IN  /\ Connected(c) /\ client'[c].fd = f
        /\ \/ client'[c].state = client[c].state /\ wire'[f] = wire[f]
           \/ /\ client[c].state = "idle" /\ client'[c].state = "waiting"
              /\ wire'[f].req # NULL /\ wire'[f].rep = wire[f].rep
           \/ /\ client[c].state = "waiting" /\ client'[c].state = "idle"
              /\ wire[f].rep # NULL /\ wire'[f].rep = NULL
              /\ wire'[f].req = wire[f].req

(* A step of a client keeps descriptors apart, leaves the engine alone and *)
(* touches no connection but its own.                                      *)
LEMMA ClientKeeps ==
    ASSUME ClientsInv, ClientStep
    PROVE  /\ ClientsInv' /\ UNCHANGED engine
           /\ \A d \in Client : Connected(d)' => Moves(d)
<1> DEFINE Kept == /\ ClientsInv' /\ UNCHANGED engine
                   /\ \A d \in Client : Connected(d)' => Moves(d)
<1>0. SocketsTyped /\ DescriptorsApart
  BY DEF ClientsInv
<1> USE DEF SocketsTyped
<1>a. \A d \in Client : Connected(d) => client[d].fd \in Fd
  BY <1>0 DEF DescriptorsApart, ClientRecord
<1>1. PICK c \in Client :
          Connect(c) \/ (\E r \in Sent : Send(c, r)) \/ Receive(c) \/ Leave(c)
  BY DEF ClientStep
<1> DEFINE f == client[c].fd
<1>2. CASE Connect(c)
  <2>1. client[c].state = "away" /\ f = NULL
    BY <1>0, <1>2 DEF Connect, DescriptorsApart, Connected
  <2>2. client' \in [Client -> ClientRecord]
    BY <1>0, <1>2 DEF Connect, ClientRecord
  <2>3. client'[c].state = "queued" /\ client'[c].fd = NULL
    BY <1>0, <1>2, <2>1 DEF Connect, ClientRecord
  <2>4. \A d \in Client \ {c} : client'[d] = client[d]
    BY <1>0, <1>2 DEF Connect
  <2>5. UNCHANGED <<engine, wire>>
    BY <1>2 DEF Connect
  <2>6. \A d \in Client : Connected(d)' => d # c
    BY <2>3 DEF Connected
  <2>7. \A d \in Client : Connected(d)' => Moves(d)
    BY <2>4, <2>5, <2>6 DEF Connected, Moves
  <2>8. QED
    BY <2>1, <2>2, <2>3, <2>4, <2>5, <2>7, <1>0, <1>a, ProtocolAssumption
    DEF ClientsInv, DescriptorsApart, Connected
<1>3. ASSUME NEW r \in Sent, Send(c, r)
      PROVE  Kept
  <2>1. f \in Fd /\ client[c].state = "idle"
    BY <1>0, <1>3, ProtocolAssumption DEF Send, DescriptorsApart, Connected, ClientRecord
  <2>2. client' \in [Client -> ClientRecord]
    BY <1>0, <1>3, Zenon DEF Send, ClientRecord
  <2>3. client'[c].state = "waiting" /\ client'[c].fd = f
    BY <1>0, <1>3 DEF Send, ClientRecord
  <2>4. \A d \in Client \ {c} : client'[d] = client[d]
    BY <1>0, <1>3 DEF Send
  <2>5. wire' \in [Fd -> WireRecord]
    BY <1>0, <1>3, <2>1 DEF Send, WireRecord
  <2>6. \A g \in Fd : wire'[g].end = wire[g].end
    BY <1>0, <1>3, <2>1 DEF Send, WireRecord
  <2>7. UNCHANGED engine
    BY <1>3 DEF Send
  <2>8. \A d \in Client : Connected(d)' => Connected(d) /\ client'[d].fd = client[d].fd
    BY <2>1, <2>3, <2>4 DEF Connected
  <2>9. \A d \in Client : Connected(d)' <=> client'[d].fd # NULL
    BY <1>0, <2>1, <2>3, <2>4, ProtocolAssumption DEF Connected, DescriptorsApart
  <2>10. \A d \in Client : Connected(d)' => wire'[client'[d].fd].end = "open"
    BY <1>0, <1>a, <2>1, <2>3, <2>6, <2>8 DEF DescriptorsApart
  <2>11. \A d, e \in Client : Connected(d)' /\ client'[d].fd = client'[e].fd => d = e
    BY <1>0, <1>a, <2>8, <2>9, ProtocolAssumption DEF DescriptorsApart
  <2>12. \A d \in Client \ {c} : Connected(d) => wire'[client[d].fd] = wire[client[d].fd]
    <3>1. \A g \in Fd \ {f} : wire'[g] = wire[g]
      BY <1>0, <1>3 DEF Send
    <3>2. QED
      BY <1>0, <1>a, <2>1, <3>1 DEF DescriptorsApart
  <2>13. wire'[f].req # NULL /\ wire'[f].rep = wire[f].rep
    BY <1>0, <1>3, <2>1, RequestAssumption DEF Send, WireRecord
  <2>14. \A d \in Client : Connected(d)' => Moves(d)
    BY <2>1, <2>3, <2>4, <2>8, <2>12, <2>13 DEF Connected, Moves
  <2>15. QED
    BY <2>2, <2>5, <2>7, <2>9, <2>10, <2>11, <2>14 DEF ClientsInv, DescriptorsApart
<1>4. CASE Receive(c)
  <2>1. f \in Fd /\ client[c].state = "waiting"
    BY <1>0, <1>4, ProtocolAssumption DEF Receive, DescriptorsApart, Connected, ClientRecord
  <2>2. client' \in [Client -> ClientRecord]
    BY <1>0, <1>4, Zenon DEF Receive, ClientRecord
  <2>3. client'[c].state = "idle" /\ client'[c].fd = f
    BY <1>0, <1>4 DEF Receive, ClientRecord
  <2>4. \A d \in Client \ {c} : client'[d] = client[d]
    BY <1>0, <1>4 DEF Receive
  <2>5. wire' \in [Fd -> WireRecord]
    BY <1>0, <1>4, <2>1 DEF Receive, WireRecord
  <2>6. \A g \in Fd : wire'[g].end = wire[g].end
    BY <1>0, <1>4, <2>1 DEF Receive, WireRecord
  <2>7. UNCHANGED engine
    BY <1>4 DEF Receive
  <2>8. \A d \in Client : Connected(d)' => Connected(d) /\ client'[d].fd = client[d].fd
    BY <2>1, <2>3, <2>4 DEF Connected
  <2>9. \A d \in Client : Connected(d)' <=> client'[d].fd # NULL
    BY <1>0, <2>1, <2>3, <2>4, ProtocolAssumption DEF Connected, DescriptorsApart
  <2>10. \A d \in Client : Connected(d)' => wire'[client'[d].fd].end = "open"
    BY <1>0, <1>a, <2>1, <2>3, <2>6, <2>8 DEF DescriptorsApart
  <2>11. \A d, e \in Client : Connected(d)' /\ client'[d].fd = client'[e].fd => d = e
    BY <1>0, <1>a, <2>8, <2>9, ProtocolAssumption DEF DescriptorsApart
  <2>12. \A d \in Client \ {c} : Connected(d) => wire'[client[d].fd] = wire[client[d].fd]
    <3>1. \A g \in Fd \ {f} : wire'[g] = wire[g]
      BY <1>0, <1>4 DEF Receive
    <3>2. QED
      BY <1>0, <1>a, <2>1, <3>1 DEF DescriptorsApart
  <2>13. wire[f].rep # NULL /\ wire'[f].rep = NULL /\ wire'[f].req = wire[f].req
    BY <1>0, <1>4, <2>1 DEF Receive, WireRecord
  <2>14. \A d \in Client : Connected(d)' => Moves(d)
    BY <2>1, <2>3, <2>4, <2>8, <2>12, <2>13 DEF Connected, Moves
  <2>15. QED
    BY <2>2, <2>5, <2>7, <2>9, <2>10, <2>11, <2>14 DEF ClientsInv, DescriptorsApart
<1>5. CASE Leave(c)
  <2>1. f \in Fd /\ client[c].state \in {"idle", "waiting"}
    BY <1>0, <1>5, ProtocolAssumption DEF Leave, DescriptorsApart, Connected, ClientRecord
  <2>2. client' \in [Client -> ClientRecord]
    BY <1>0, <1>5 DEF Leave, ClientRecord, Away
  <2>3. client'[c].state = "away" /\ client'[c].fd = NULL
    BY <1>0, <1>5 DEF Leave, ClientRecord, Away
  <2>4. \A d \in Client \ {c} : client'[d] = client[d]
    BY <1>0, <1>5 DEF Leave
  <2>5. wire' \in [Fd -> WireRecord]
    BY <1>0, <1>5, <2>1 DEF Leave, WireRecord
  <2>6. \A g \in Fd \ {f} : wire'[g].end = wire[g].end
    BY <1>0, <1>5, <2>1 DEF Leave, WireRecord
  <2>7. UNCHANGED engine
    BY <1>5 DEF Leave
  <2>8. \A d \in Client : Connected(d)' => Connected(d) /\ client'[d].fd = client[d].fd
    BY <2>1, <2>3, <2>4 DEF Connected
  <2>9. \A d \in Client : Connected(d)' <=> client'[d].fd # NULL
    BY <1>0, <2>1, <2>3, <2>4, ProtocolAssumption DEF Connected, DescriptorsApart
  <2>10. \A d \in Client : Connected(d)' => wire'[client'[d].fd].end = "open"
    BY <1>0, <1>a, <2>1, <2>3, <2>6, <2>8 DEF DescriptorsApart
  <2>11. \A d, e \in Client : Connected(d)' /\ client'[d].fd = client'[e].fd => d = e
    BY <1>0, <1>a, <2>8, <2>9, ProtocolAssumption DEF DescriptorsApart
  <2>12. \A d \in Client \ {c} : Connected(d) => wire'[client[d].fd] = wire[client[d].fd]
    <3>1. \A g \in Fd \ {f} : wire'[g] = wire[g]
      BY <1>0, <1>5 DEF Leave
    <3>2. QED
      BY <1>0, <1>a, <2>1, <3>1 DEF DescriptorsApart
  <2>14. \A d \in Client : Connected(d)' => Moves(d)
    BY <2>1, <2>3, <2>4, <2>8, <2>12 DEF Connected, Moves
  <2>15. QED
    BY <2>2, <2>5, <2>7, <2>9, <2>10, <2>11, <2>14 DEF ClientsInv, DescriptorsApart
<1>6. QED
  BY <1>1, <1>2, <1>3, <1>4, <1>5

(* The kernel hands out a descriptor that no client has; the server writes *)
(* to its end of a connection, so that a client may find its request gone  *)
(* or a reply there and none finds its end closed; and the types of the    *)
(* clients and the sockets are part of the invariant.                      *)
LEMMA ServerKeeps ==
    ClientsInv =>
        /\ ClientsTypeOK
        /\ \A c \in Client, f \in Fd :
              Accepted(c, f) /\ (\A d \in Client : client[d].fd # f) => ClientsInv'
        /\ (/\ UNCHANGED client /\ wire' \in [Fd -> WireRecord]
            /\ \A c \in Client : Connected(c) => wire'[client[c].fd].end = "open")
           => ClientsInv'
<1> SUFFICES ASSUME ClientsInv
             PROVE  /\ ClientsTypeOK
                    /\ \A c \in Client, f \in Fd :
                          Accepted(c, f) /\ (\A d \in Client : client[d].fd # f) => ClientsInv'
                    /\ (/\ UNCHANGED client /\ wire' \in [Fd -> WireRecord]
                        /\ \A c \in Client : Connected(c) => wire'[client[c].fd].end = "open")
                       => ClientsInv'
  OBVIOUS
<1>1. ClientsTypeOK
  BY RequestAssumption DEF ClientsInv, SocketsTyped, ClientsTypeOK, ClientRecord, WireRecord
<1>2. ASSUME NEW c \in Client, NEW f \in Fd, Accepted(c, f), \A d \in Client : client[d].fd # f
      PROVE  ClientsInv'
  BY <1>2, ProtocolAssumption, RequestAssumption, ReplyAssumption
  DEF ClientsInv, SocketsTyped, DescriptorsApart, Connected, ClientRecord, WireRecord, Accepted, Quiet
<1>3. ASSUME UNCHANGED client, wire' \in [Fd -> WireRecord],
             \A c \in Client : Connected(c) => wire'[client[c].fd].end = "open"
      PROVE  ClientsInv'
  BY <1>3 DEF ClientsInv, SocketsTyped, DescriptorsApart, Connected
<1>4. QED
  BY <1>1, <1>2, <1>3
=============================================================================
