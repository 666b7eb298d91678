-------------------------- MODULE ThreadPoolProofs --------------------------
(***************************************************************************)
(* Proofs about the C thread pool, for every number of threads, slots,     *)
(* tasks and users.                                                        *)
(***************************************************************************)
EXTENDS ThreadPool, FiniteSetTheorems, SequenceTheorems, TLAPS

(* The workers that were created and did not leave. *)
Live == {w \in Worker : worker[w] \notin {"none", "exited"}}

(* started counts them, which keeps it within its type. *)
Started == started = Cardinality(Live)

(* The workers are created in turn. *)
InTurn == \E k \in 0..thread_count : Created = 1..k

TypeInv == TypeOK /\ Started /\ InTurn

(* The indices of the ring wrap at most once, and stay within it. *)
LEMMA RingIndex ==
    ASSUME NEW h \in 0..(queue_size - 1)
    PROVE  /\ (h + 1) % queue_size \in 0..(queue_size - 1)
           /\ (h + 1) % queue_size = IF h + 1 = queue_size THEN 0 ELSE h + 1
           /\ \A i \in 0..queue_size :
                 (h + i) % queue_size = IF h + i < queue_size THEN h + i ELSE h + i - queue_size
           /\ \A i \in 1..queue_size :
                 (h + i - 1) % queue_size = IF h + i - 1 < queue_size THEN h + i - 1
                                            ELSE h + i - 1 - queue_size
<1> USE QueueAssumption
<1>1. ASSUME NEW x \in 0..(2 * queue_size - 1)
      PROVE  x % queue_size = IF x < queue_size THEN x ELSE x - queue_size
  OBVIOUS
<1>2. ASSUME NEW i \in 0..queue_size
      PROVE  (h + i) % queue_size = IF h + i < queue_size THEN h + i ELSE h + i - queue_size
  <2>1. h + i \in 0..(2 * queue_size - 1)
    OBVIOUS
  <2>2. QED
    BY <1>1, <2>1
<1>3. ASSUME NEW i \in 1..queue_size
      PROVE  (h + i - 1) % queue_size = IF h + i - 1 < queue_size THEN h + i - 1
                                        ELSE h + i - 1 - queue_size
  <2>1. h + i - 1 \in 0..(2 * queue_size - 1)
    OBVIOUS
  <2>2. QED
    BY <1>1, <2>1
<1>4. (h + 1) % queue_size = IF h + 1 = queue_size THEN 0 ELSE h + 1
  OBVIOUS
<1>5. QED
  BY <1>2, <1>3, <1>4

------------------------------------------------------------------------------
(***************************************************************************)
(* The ring: tail is count slots after head, so that the slot at tail is   *)
(* free unless the ring is full, and adding and taking are what Append and *)
(* Tail do to the waiting tasks.                                           *)
(***************************************************************************)
RingInv == tail = (head + count) % queue_size

(* The waiting tasks are a sequence of length count, the slots from head on. *)
LEMMA WaitingSeq ==
    ASSUME TypeOK
    PROVE  /\ \A i \in 1..count :
                 Waiting[i] = queue[IF head + i - 1 < queue_size THEN head + i - 1
                                    ELSE head + i - 1 - queue_size]
           /\ Waiting \in Seq(Task \cup {NULL}) /\ Len(Waiting) = count
<1>1. count \in Nat /\ \A i \in 1..count : i \in 1..queue_size
  BY QueueAssumption DEF TypeOK
<1>2. \A i \in 1..count :
         Waiting[i] = queue[IF head + i - 1 < queue_size THEN head + i - 1
                            ELSE head + i - 1 - queue_size]
  BY <1>1, RingIndex, Zenon DEF Waiting, TypeOK
<1>3. ASSUME NEW i \in 1..count
      PROVE  (IF head + i - 1 < queue_size THEN head + i - 1 ELSE head + i - 1 - queue_size)
                \in 0..(queue_size - 1)
  BY QueueAssumption DEF TypeOK
<1>4. \A i \in 1..count : Waiting[i] \in Task \cup {NULL}
  BY <1>2, <1>3, Zenon DEF TypeOK
<1>5. Waiting \in [1..count -> Task \cup {NULL}]
  BY <1>4 DEF Waiting
<1>6. QED
  BY <1>1, <1>2, <1>5

(* A task stored at tail is the last of the waiting ones. *)
LEMMA AddRing ==
    ASSUME TypeInv, TypeOK', RingInv, ~Full, NEW t \in Task,
           queue' = [queue EXCEPT ![tail] = t], head' = head,
           tail' = (tail + 1) % queue_size, count' = count + 1
    PROVE  /\ RingInv'
           /\ Waiting'[count + 1] = t
           /\ \A i \in 1..count : Waiting'[i] = Waiting[i]
<1> USE QueueAssumption
<1>1. count < queue_size /\ count \in Nat /\ head \in 0..(queue_size - 1)
  BY DEF TypeInv, TypeOK, Full
<1>2. tail = IF head + count < queue_size THEN head + count ELSE head + count - queue_size
  <2>1. count \in 0..queue_size
    BY <1>1
  <2>2. (head + count) % queue_size
           = IF head + count < queue_size THEN head + count ELSE head + count - queue_size
    BY <1>1, <2>1, RingIndex
  <2>3. QED
    BY <2>2 DEF RingInv
<1>3. count' \in 0..queue_size
  BY <1>1
<1>4. (head + count') % queue_size
         = IF head + count' < queue_size THEN head + count' ELSE head + count' - queue_size
  BY <1>1, <1>3, RingIndex, Zenon
<1>5. tail \in 0..(queue_size - 1)
  BY DEF TypeInv, TypeOK
<1>6. tail' = IF tail + 1 = queue_size THEN 0 ELSE tail + 1
  BY <1>5, RingIndex
<1>7. RingInv'
  BY <1>1, <1>2, <1>4, <1>6 DEF RingInv
<1>8. \A i \in 1..(count + 1) :
         Waiting'[i] = queue'[IF head + i - 1 < queue_size THEN head + i - 1
                              ELSE head + i - 1 - queue_size]
  <2>1. \A i \in 1..(count + 1) : i \in 1..queue_size
    BY <1>1
  <2>2. QED
    BY <1>1, <2>1, RingIndex DEF Waiting
<1>9. Waiting'[count + 1] = t
  BY <1>1, <1>2, <1>5, <1>8 DEF TypeInv, TypeOK
<1>10. ASSUME NEW i \in 1..count PROVE Waiting'[i] = Waiting[i]
  <2> DEFINE k == IF head + i - 1 < queue_size THEN head + i - 1 ELSE head + i - 1 - queue_size
  <2>1. k # tail /\ k \in 0..(queue_size - 1)
    BY <1>1, <1>2
  <2>2. Waiting[i] = queue[k]
    BY WaitingSeq DEF TypeInv
  <2>3. Waiting'[i] = queue'[k]
    BY <1>1, <1>8
  <2>4. QED
    BY <2>1, <2>2, <2>3 DEF TypeInv, TypeOK
<1>11. QED
  BY <1>7, <1>9, <1>10

(* The task at head is the first of the waiting ones, and the others move up. *)
LEMMA TakeRing ==
    ASSUME TypeInv, RingInv, count > 0,
           queue' = queue, tail' = tail,
           head' = (head + 1) % queue_size, count' = count - 1
    PROVE  /\ RingInv'
           /\ queue[head] = Waiting[1]
           /\ \A i \in 1..(count - 1) : Waiting'[i] = Waiting[i + 1]
<1> USE QueueAssumption
<1>1. count <= queue_size /\ count \in Nat /\ head \in 0..(queue_size - 1)
  BY DEF TypeInv, TypeOK
<1>2. head' = IF head + 1 = queue_size THEN 0 ELSE head + 1
  BY <1>1, RingIndex
<1>3. tail = IF head + count < queue_size THEN head + count ELSE head + count - queue_size
  <2>1. count \in 0..queue_size
    BY <1>1
  <2>2. (head + count) % queue_size
           = IF head + count < queue_size THEN head + count ELSE head + count - queue_size
    BY <1>1, <2>1, RingIndex, Zenon
  <2>3. QED
    BY <2>2 DEF RingInv
<1>4. head' \in 0..(queue_size - 1) /\ count' \in 0..queue_size
  BY <1>1, <1>2
<1>5. (head' + count') % queue_size
         = IF head' + count' < queue_size THEN head' + count' ELSE head' + count' - queue_size
  BY <1>4, RingIndex
<1>6. RingInv'
  BY <1>1, <1>2, <1>3, <1>5 DEF RingInv
<1>7. queue[head] = Waiting[1]
  BY <1>1, WaitingSeq DEF TypeInv
<1>8. ASSUME NEW i \in 1..(count - 1) PROVE Waiting'[i] = Waiting[i + 1]
  <2>1. head' \in 0..(queue_size - 1) /\ i \in 1..queue_size
    BY <1>1, <1>2
  <2>2. Waiting'[i] = queue[IF head' + i - 1 < queue_size THEN head' + i - 1
                            ELSE head' + i - 1 - queue_size]
    BY <1>1, <2>1, RingIndex, Zenon DEF Waiting
  <2>3. Waiting[i + 1] = queue[IF head + i < queue_size THEN head + i ELSE head + i - queue_size]
    BY <1>1, WaitingSeq DEF TypeInv
  <2>4. QED
    BY <1>1, <1>2, <2>2, <2>3
<1>9. QED
  BY <1>6, <1>7, <1>8
------------------------------------------------------------------------------
(***************************************************************************)
(* Where the tasks are: an accepted task waits in one slot, or is with one *)
(* worker, or was run, and these exclude each other.                       *)
(***************************************************************************)
Slots == 1..count

Places ==
    /\ \A i \in Slots : Waiting[i] \in accepted /\ ran[Waiting[i]] = 0
    /\ \A i, j \in Slots : Waiting[i] = Waiting[j] => i = j
    /\ \A w \in Worker : worker[w] # "work" => task[w] = NULL
    /\ \A w \in Worker : worker[w] = "work" => task[w] \in accepted /\ ran[task[w]] = 0
    /\ \A v, w \in Worker : task[v] # NULL /\ task[v] = task[w] => v = w
    /\ \A w \in Worker, i \in Slots : task[w] # Waiting[i]
    /\ \A t \in accepted : \/ ran[t] = 1
                           \/ \E i \in Slots : Waiting[i] = t
                           \/ \E w \in Worker : task[w] = t
    /\ \A t \in Task \ accepted : ran[t] = 0

TaskInv == TypeInv /\ RingInv /\ Places

------------------------------------------------------------------------------
(***************************************************************************)
(* The life of the pool: users have it, and close it gracefully, only when *)
(* all its threads exist; no thread leaves before the shutdown, none       *)
(* leaves a graceful one before the ring is empty, and a freed pool has no *)
(* thread left.                                                            *)
(***************************************************************************)
Life ==
    /\ caller[Main] = "creating" =>
          /\ ~freed
          /\ \A u \in User : caller[u] \in {"creating", "idle"}
    /\ caller[Main] = "created" \/ shutdown = graceful_shutdown => Created = Worker
    /\ shutdown = 0 => \A w \in Worker : worker[w] # "exited"
    /\ shutdown = graceful_shutdown /\ (\E w \in Worker : worker[w] = "exited") => count = 0
    /\ freed => \A w \in Created : worker[w] = "exited"

PoolInv == TaskInv /\ Life

(* The invariant all the theorems rest on. *)
LEMMA PoolAlways == Spec => []PoolInv
<1>Woken.
    (* Broadcast and Signal move workers from the wait to the mutex. *)
    ASSUME TypeOK, worker' = Broadcast \/ Signal
    PROVE  /\ worker' \in [Worker -> {"none", "lock", "wait", "work", "exited"}]
           /\ \A w \in Worker : \/ worker'[w] = worker[w]
                                \/ worker[w] = "wait" /\ worker'[w] = "lock"
  BY <1>Woken DEF TypeOK, Broadcast, Signal
<1>NextThread.
    (* The thread that is created next was not created before. *)
    ASSUME TypeOK, InTurn, NEW w \in Worker, threadpool_create_Thread(w)
    PROVE  worker[w] = "none" /\ Created' = 1..w
  <2> USE <1>NextThread
  <2>1. PICK k \in 0..thread_count : Created = 1..k
    BY DEF InTurn
  <2>2. Cardinality(1..k) = IF 1 > k THEN 0 ELSE k - 1 + 1
    BY FS_Interval
  <2>3. w = k + 1
    BY <2>1, <2>2, ThreadsAssumption DEF threadpool_create_Thread
  <2>4. worker[w] = "none"
    BY <2>1, <2>3 DEF Created
  <2>5. Created' = Created \cup {w}
    BY Zenon DEF threadpool_create_Thread, Created, TypeOK
  <2>6. QED
    BY <2>1, <2>3, <2>4, <2>5
<1>TypeStep.
    (* Every step of the pool keeps the types, the count of the live threads    *)
    (* and the order in which threads are created.                              *)
    TypeInv /\ [Next]_vars => TypeInv'
  <2>SomeWorkers.
      (***************************************************************************)
      (* Type correctness, with started.                                         *)
      (***************************************************************************)
      (* A set of workers is finite and has at most thread_count elements. *)
      ASSUME NEW S \in SUBSET Worker
      PROVE  IsFiniteSet(S) /\ Cardinality(S) \in 0..thread_count
    <3> USE <2>SomeWorkers
    <3>1. IsFiniteSet(Worker) /\ Cardinality(Worker) = thread_count
      BY ThreadsAssumption, FS_Interval DEF Worker
    <3>2. IsFiniteSet(S) /\ Cardinality(S) <= thread_count
      BY <3>1, FS_Subset
    <3>3. Cardinality(S) \in Nat
      BY <3>2, FS_CardinalityType
    <3>4. QED
      BY <3>2, <3>3, ThreadsAssumption
  <2> SUFFICES ASSUME TypeInv, [Next]_vars PROVE TypeInv'
    OBVIOUS
  <2> USE DEF TypeInv
  <2>0. ASSUME \A w \in Worker : /\ worker'[w] = "none" <=> worker[w] = "none"
                                 /\ worker'[w] = "exited" <=> worker[w] = "exited",
               started' = started
        PROVE  Started' /\ InTurn'
    <3>1. Live' = Live /\ Created' = Created
      BY <2>0 DEF Live, Created
    <3>2. QED
      BY <2>0, <3>1 DEF Started, InTurn
  <2>1. CASE threadpool_create_NoMemory
    <3>1. TypeOK'
      BY <2>1 DEF threadpool_create_NoMemory, TypeOK, ring, User
    <3>2. Started' /\ InTurn'
      BY <2>1, <2>0 DEF threadpool_create_NoMemory
    <3>3. QED  BY <3>1, <3>2
  <2>2. CASE threadpool_create_Fails
    <3>1. TypeOK'
      BY <2>2, <1>Woken DEF threadpool_create_Fails, TypeOK, ring, User
    <3>2. Started' /\ InTurn'
      BY <2>2, <1>Woken, <2>0 DEF threadpool_create_Fails
    <3>3. QED  BY <3>1, <3>2
  <2>3. CASE threadpool_add_Refused \/ UNCHANGED vars
    BY <2>3, Zenon DEF threadpool_add_Refused, vars, TypeOK, Started, Live, InTurn, Created
  <2>4. ASSUME NEW t \in Task, threadpool_add(t) PROVE TypeInv'
    <3>1. count + 1 \in 0..queue_size
      BY <2>4, QueueAssumption DEF threadpool_add, TypeOK, Full
    <3>2. TypeOK'
      BY <2>4, <3>1, <1>Woken, RingIndex, Zenon DEF threadpool_add, TypeOK
    <3>3. Started' /\ InTurn'
      BY <2>4, <1>Woken, <2>0 DEF threadpool_add
    <3>4. QED  BY <3>2, <3>3
  <2>5. ASSUME NEW w \in Worker, threadpool_create_Thread(w) PROVE TypeInv'
    <3>1. worker[w] = "none"
      BY <2>5, <1>NextThread
    <3>2. Started' /\ started' \in 0..thread_count
      <4>1. Live' = Live \cup {w} /\ w \notin Live
        BY <2>5, <3>1 DEF Live, TypeOK, threadpool_create_Thread
      <4>2. Cardinality(Live') = Cardinality(Live) + 1
        BY <4>1, <2>SomeWorkers, FS_AddElement, Zenon DEF Live
      <4>3. Cardinality(Live') \in 0..thread_count
        BY <2>SomeWorkers DEF Live
      <4>4. QED
        BY <2>5, <4>2, <4>3 DEF Started, threadpool_create_Thread
    <3>3. TypeOK'
      BY <2>5, <3>2 DEF threadpool_create_Thread, TypeOK, ring, User
    <3>4. Created' = 1..w /\ w \in 0..thread_count
      BY <2>5, <1>NextThread, ThreadsAssumption DEF Worker
    <3>5. QED
      BY <3>2, <3>3, <3>4 DEF InTurn
  <2>6. ASSUME NEW w \in Worker, threadpool_thread_Wait(w) \/ threadpool_thread_Spurious(w)
        PROVE  TypeInv'
    <3>1. TypeOK'
      BY <2>6 DEF threadpool_thread_Wait, threadpool_thread_Spurious, TypeOK, ring
    <3>2. Started' /\ InTurn'
      BY <2>6, <2>0 DEF threadpool_thread_Wait, threadpool_thread_Spurious, TypeOK
    <3>3. QED  BY <3>1, <3>2
  <2>7. ASSUME NEW w \in Worker, threadpool_thread_Exit(w) PROVE TypeInv'
    <3>1. Started' /\ started' \in 0..thread_count
      <4>1. Live' = Live \ {w} /\ w \in Live
        BY <2>7 DEF Live, TypeOK, threadpool_thread_Exit
      <4>2. Cardinality(Live') = Cardinality(Live) - 1
        BY <4>1, <2>SomeWorkers, FS_RemoveElement DEF Live
      <4>3. Cardinality(Live') \in 0..thread_count
        BY <2>SomeWorkers DEF Live
      <4>4. QED
        BY <2>7, <4>2, <4>3 DEF Started, threadpool_thread_Exit
    <3>2. TypeOK'
      BY <2>7, <3>1 DEF threadpool_thread_Exit, TypeOK, ring
    <3>3. Created' = Created
      BY <2>7 DEF threadpool_thread_Exit, TypeOK, Created
    <3>4. QED  BY <3>1, <3>2, <3>3 DEF InTurn
  <2>8. ASSUME NEW w \in Worker, threadpool_thread_Take(w) PROVE TypeInv'
    <3>1. count - 1 \in 0..queue_size
      BY <2>8, QueueAssumption DEF threadpool_thread_Take, TypeOK
    <3>2. TypeOK'
      BY <2>8, <3>1, RingIndex, Zenon DEF threadpool_thread_Take, TypeOK
    <3>3. Started' /\ InTurn'
      BY <2>8, <2>0 DEF threadpool_thread_Take, TypeOK
    <3>4. QED  BY <3>2, <3>3
  <2>9. ASSUME NEW w \in Worker, threadpool_thread_Run(w) PROVE TypeInv'
    <3>1. TypeOK'
      <4>1. CASE task[w] \in Task
        BY <2>9, <4>1 DEF threadpool_thread_Run, TypeOK, ring
      <4>2. CASE task[w] \notin Task
        <5>1. ran' = ran
          BY <2>9, <4>2 DEF threadpool_thread_Run, TypeOK
        <5>2. QED
          BY <2>9, <5>1, Zenon DEF threadpool_thread_Run, TypeOK, ring
      <4>3. QED  BY <4>1, <4>2
    <3>2. Started' /\ InTurn'
      BY <2>9, <2>0 DEF threadpool_thread_Run, TypeOK
    <3>3. QED  BY <3>1, <3>2
  <2>10. ASSUME NEW d \in Destroyer, NEW graceful \in BOOLEAN, threadpool_destroy(d, graceful)
         PROVE  TypeInv'
    <3>1. TypeOK'
      BY <2>10, <1>Woken DEF threadpool_destroy, TypeOK, ring, User
    <3>2. Started' /\ InTurn'
      BY <2>10, <1>Woken, <2>0 DEF threadpool_destroy
    <3>3. QED  BY <3>1, <3>2
  <2>11. ASSUME NEW d \in Destroyer, threadpool_destroy_Already(d) PROVE TypeInv'
    <3>1. TypeOK'
      BY <2>11 DEF threadpool_destroy_Already, TypeOK, ring, User
    <3>2. Started' /\ InTurn'
      BY <2>11, <2>0 DEF threadpool_destroy_Already
    <3>3. QED  BY <3>1, <3>2
  <2>12. ASSUME NEW u \in User, threadpool_free(u) PROVE TypeInv'
    <3>1. TypeOK'
      BY <2>12 DEF threadpool_free, TypeOK, ring
    <3>2. Started' /\ InTurn'
      BY <2>12, <2>0 DEF threadpool_free
    <3>3. QED  BY <3>1, <3>2
  <2>13. QED
    BY <2>1, <2>2, <2>3, <2>4, <2>5, <2>6, <2>7, <2>8, <2>9, <2>10, <2>11, <2>12
       DEF Next, threadpool_thread
<1>TaskStep.
    (* Every step keeps each task in its one place. *)
    TaskInv /\ [Next]_vars => TaskInv'
  <2>AddPlaces.
      (* threadpool_add puts a task nobody has into a slot nobody uses. *)
      ASSUME TaskInv, TypeOK', NEW t \in Task, threadpool_add(t)
      PROVE  RingInv' /\ Places'
    <3> USE <2>AddPlaces
    <3> USE DEF TaskInv
    <3>1. /\ RingInv'
          /\ Waiting'[count + 1] = t
          /\ \A i \in 1..count : Waiting'[i] = Waiting[i]
      BY AddRing, Zenon DEF threadpool_add
    <3>2. Slots' = Slots \cup {count + 1} /\ count + 1 \notin Slots
      BY DEF Slots, threadpool_add, TypeInv, TypeOK
    <3>3. \A i \in Slots : Waiting'[i] = Waiting[i]
      BY <3>1 DEF Slots
    <3>4. /\ task' = task /\ ran' = ran /\ accepted' = accepted \cup {t} /\ t \notin accepted
          /\ accepted \subseteq Task /\ t # NULL
      BY NullAssumption DEF threadpool_add, TypeInv, TypeOK
    <3>5. \A w \in Worker : worker'[w] = "work" <=> worker[w] = "work"
      BY <1>Woken DEF threadpool_add, TypeInv
    <3>6. \A w \in Worker : task[w] # t
      BY <3>4 DEF Places
    <3>7. ran[t] = 0
      BY <3>4 DEF Places
    <3>8. \A i \in Slots' : Waiting'[i] \in accepted' /\ ran'[Waiting'[i]] = 0
      BY <3>1, <3>2, <3>3, <3>4, <3>7 DEF Places
    <3>9. \A i, j \in Slots' : Waiting'[i] = Waiting'[j] => i = j
      BY <3>1, <3>2, <3>3, <3>4 DEF Places
    <3>10. \A w \in Worker, i \in Slots' : task'[w] # Waiting'[i]
      BY <3>1, <3>2, <3>3, <3>4, <3>6 DEF Places
    <3>11. \A a \in accepted' : \/ ran'[a] = 1
                                \/ \E i \in Slots' : Waiting'[i] = a
                                \/ \E w \in Worker : task'[w] = a
      BY <3>1, <3>2, <3>3, <3>4 DEF Places
    <3>12. QED
      BY <3>1, <3>4, <3>5, <3>8, <3>9, <3>10, <3>11 DEF Places
  <2>TakePlaces.
      (* threadpool_thread moves the task at head from the ring to the worker. *)
      ASSUME TaskInv, NEW w \in Worker, threadpool_thread_Take(w)
      PROVE  RingInv' /\ Places'
    <3> USE <2>TakePlaces
    <3> USE DEF TaskInv
    <3>1. /\ RingInv'
          /\ queue[head] = Waiting[1]
          /\ \A i \in 1..(count - 1) : Waiting'[i] = Waiting[i + 1]
      BY TakeRing DEF threadpool_thread_Take
    <3>2. count \in Nat /\ count > 0 /\ count' = count - 1
      BY DEF threadpool_thread_Take, TypeInv, TypeOK
    <3>3. /\ 1 \in Slots
          /\ \A i \in Slots' : i + 1 \in Slots /\ i + 1 # 1 /\ Waiting'[i] = Waiting[i + 1]
          /\ \A i, j \in Slots' : i + 1 = j + 1 => i = j
          /\ \A i \in Slots : i = 1 \/ (i - 1 \in Slots' /\ Waiting'[i - 1] = Waiting[i])
      BY <3>1, <3>2 DEF Slots
    <3>4. /\ ran' = ran /\ accepted' = accepted /\ accepted \subseteq Task
          /\ worker' = [worker EXCEPT ![w] = "work"]
          /\ worker \in [Worker -> {"none", "lock", "wait", "work", "exited"}]
          /\ task' = [task EXCEPT ![w] = Waiting[1]]
          /\ task \in [Worker -> Task \cup {NULL}]
          /\ worker[w] # "work"
      BY <3>1 DEF threadpool_thread_Take, TypeInv, TypeOK
    <3>5. task[w] = NULL /\ Waiting[1] \in accepted /\ Waiting[1] # NULL /\ ran[Waiting[1]] = 0
      BY <3>3, <3>4, NullAssumption DEF Places
    <3>6. \A i \in Slots' : Waiting'[i] \in accepted' /\ ran'[Waiting'[i]] = 0
      BY <3>3, <3>4 DEF Places
    <3>7. \A i, j \in Slots' : Waiting'[i] = Waiting'[j] => i = j
      BY <3>3 DEF Places
    <3>8. \A v \in Worker : worker'[v] # "work" => task'[v] = NULL
      BY <3>4 DEF Places
    <3>9. \A v \in Worker : worker'[v] = "work" => task'[v] \in accepted' /\ ran'[task'[v]] = 0
      BY <3>4, <3>5 DEF Places
    <3>10. \A u, v \in Worker : task'[u] # NULL /\ task'[u] = task'[v] => u = v
      BY <3>3, <3>4, <3>5 DEF Places
    <3>11. \A v \in Worker, i \in Slots' : task'[v] # Waiting'[i]
      BY <3>3, <3>4 DEF Places
    <3>12. ASSUME NEW a \in accepted'
           PROVE  \/ ran'[a] = 1
                  \/ \E i \in Slots' : Waiting'[i] = a
                  \/ \E v \in Worker : task'[v] = a
      <4>1. CASE ran[a] = 1
        BY <3>4, <4>1
      <4>2. CASE \E i \in Slots : Waiting[i] = a
        BY <3>3, <3>4, <4>2
      <4>3. CASE \E v \in Worker : task[v] = a
        <5>1. a # NULL
          BY <3>4, NullAssumption
        <5>2. QED
          BY <3>4, <3>5, <4>3, <5>1
      <4>4. QED
        BY <3>4, <4>1, <4>2, <4>3 DEF Places
    <3>13. \A a \in Task \ accepted' : ran'[a] = 0
      BY <3>4 DEF Places
    <3>14. QED
      BY <3>1, <3>6, <3>7, <3>8, <3>9, <3>10, <3>11, <3>12, <3>13 DEF Places
  <2>RunPlaces.
      (* The task of a worker that ran it was run by nobody before. *)
      ASSUME TaskInv, NEW w \in Worker, threadpool_thread_Run(w)
      PROVE  RingInv' /\ Places'
    <3> USE <2>RunPlaces
    <3> USE DEF TaskInv
    <3>1. Waiting' = Waiting /\ Slots' = Slots /\ RingInv'
      BY DEF threadpool_thread_Run, ring, Waiting, Slots, RingInv
    <3>2. /\ accepted' = accepted /\ accepted \subseteq Task
          /\ worker' = [worker EXCEPT ![w] = "lock"]
          /\ worker \in [Worker -> {"none", "lock", "wait", "work", "exited"}]
          /\ task' = [task EXCEPT ![w] = NULL]
          /\ task \in [Worker -> Task \cup {NULL}]
          /\ worker[w] = "work"
          /\ ran \in [Task -> Nat]
      BY DEF threadpool_thread_Run, TypeInv, TypeOK
    <3>3. task[w] \in accepted /\ ran[task[w]] = 0 /\ task[w] # NULL
      BY <3>2, NullAssumption DEF Places
    <3>4. ran'[task[w]] = 1 /\ \A t \in Task : t # task[w] => ran'[t] = ran[t]
      BY <3>2, <3>3 DEF threadpool_thread_Run
    <3>5. \A i \in Slots : Waiting[i] # task[w]
      BY DEF Places
    <3>6. \A i \in Slots' : Waiting'[i] \in accepted' /\ ran'[Waiting'[i]] = 0
      BY <3>1, <3>2, <3>4, <3>5 DEF Places
    <3>7. \A v \in Worker : worker'[v] # "work" => task'[v] = NULL
      BY <3>2 DEF Places
    <3>8. \A v \in Worker : worker'[v] = "work" => task'[v] \in accepted' /\ ran'[task'[v]] = 0
      BY <3>2, <3>3, <3>4 DEF Places
    <3>9. \A u, v \in Worker : task'[u] # NULL /\ task'[u] = task'[v] => u = v
      BY <3>2 DEF Places
    <3>10. \A v \in Worker, i \in Slots' : task'[v] # Waiting'[i]
      BY <3>1, <3>2, NullAssumption DEF Places
    <3>11. \A a \in accepted' : \/ ran'[a] = 1
                                \/ \E i \in Slots' : Waiting'[i] = a
                                \/ \E v \in Worker : task'[v] = a
      BY <3>1, <3>2, <3>4 DEF Places
    <3>12. \A a \in Task \ accepted' : ran'[a] = 0
      BY <3>2, <3>3, <3>4 DEF Places
    <3>13. QED
      BY <3>1, <3>6, <3>7, <3>8, <3>9, <3>10, <3>11, <3>12 DEF Places
  <2> SUFFICES ASSUME TaskInv, [Next]_vars PROVE TaskInv'
    OBVIOUS
  <2>0. TypeInv' /\ TypeOK' /\ TypeOK
    BY <1>TypeStep DEF TaskInv, TypeInv
  <2> SUFFICES RingInv' /\ Places'
    BY <2>0 DEF TaskInv
  <2> USE DEF TaskInv
  <2>K. ASSUME UNCHANGED <<ring, task, accepted, ran>>,
               \A w \in Worker : worker'[w] = "work" <=> worker[w] = "work"
        PROVE  RingInv' /\ Places'
    <3>1. Waiting' = Waiting /\ Slots' = Slots
      BY <2>K DEF ring, Waiting, Slots
    <3>2. RingInv'
      BY <2>K DEF RingInv, ring
    <3>3. QED
      BY <2>K, <3>1, <3>2 DEF Places
  <2>1. CASE threadpool_create_NoMemory
    BY <2>1, <2>K DEF threadpool_create_NoMemory
  <2>2. CASE threadpool_create_Fails
    BY <2>0, <2>2, <2>K, <1>Woken DEF threadpool_create_Fails
  <2>3. CASE threadpool_add_Refused \/ UNCHANGED vars
    BY <2>3, <2>K DEF threadpool_add_Refused, vars, ring
  <2>4. ASSUME NEW t \in Task, threadpool_add(t) PROVE RingInv' /\ Places'
    BY <2>0, <2>4, <2>AddPlaces
  <2>5. ASSUME NEW w \in Worker, threadpool_create_Thread(w) PROVE RingInv' /\ Places'
    <3>1. worker[w] = "none"
      BY <2>5, <1>NextThread DEF TypeInv
    <3>2. \A v \in Worker : worker'[v] = "work" <=> worker[v] = "work"
      BY <2>0, <2>5, <3>1 DEF threadpool_create_Thread, TypeOK
    <3>3. QED
      BY <2>5, <3>2, <2>K DEF threadpool_create_Thread
  <2>6. ASSUME NEW w \in Worker,
               \/ threadpool_thread_Wait(w) \/ threadpool_thread_Spurious(w)
               \/ threadpool_thread_Exit(w)
        PROVE  RingInv' /\ Places'
    <3>1. \A v \in Worker : worker'[v] = "work" <=> worker[v] = "work"
      BY <2>0, <2>6 DEF threadpool_thread_Wait, threadpool_thread_Spurious,
                        threadpool_thread_Exit, TypeOK
    <3>2. QED
      BY <2>6, <3>1, <2>K
         DEF threadpool_thread_Wait, threadpool_thread_Spurious, threadpool_thread_Exit
  <2>7. ASSUME NEW w \in Worker, threadpool_thread_Take(w) PROVE RingInv' /\ Places'
    BY <2>7, <2>TakePlaces
  <2>8. ASSUME NEW w \in Worker, threadpool_thread_Run(w) PROVE RingInv' /\ Places'
    BY <2>8, <2>RunPlaces
  <2>9. ASSUME NEW d \in Destroyer, NEW graceful \in BOOLEAN, threadpool_destroy(d, graceful)
        PROVE  RingInv' /\ Places'
    BY <2>0, <2>9, <2>K, <1>Woken DEF threadpool_destroy
  <2>10. ASSUME NEW d \in Destroyer, threadpool_destroy_Already(d) PROVE RingInv' /\ Places'
    BY <2>10, <2>K DEF threadpool_destroy_Already
  <2>11. ASSUME NEW u \in User, threadpool_free(u) PROVE RingInv' /\ Places'
    BY <2>11, <2>K DEF threadpool_free
  <2>12. QED
    BY <2>1, <2>2, <2>3, <2>4, <2>5, <2>6, <2>7, <2>8, <2>9, <2>10, <2>11
       DEF Next, threadpool_thread
<1>LifeStep.
    (* Every step of the pool keeps its life in order. *)
    PoolInv /\ [Next]_vars => Life'
  <2> SUFFICES ASSUME PoolInv, [Next]_vars PROVE Life'
    OBVIOUS
  <2>0. Life /\ TypeInv /\ TypeOK /\ InTurn /\ count \in Nat /\ count' \in Nat
    <3>1. TypeOK' /\ TypeOK
      BY <1>TypeStep DEF PoolInv, TaskInv, TypeInv
    <3>2. count \in Nat /\ count' \in Nat
      BY <3>1, QueueAssumption DEF TypeOK
    <3>3. QED
      BY <3>1, <3>2 DEF PoolInv, TaskInv, TypeInv
  <2>M. Main \in User
    BY DEF User
  <2>K. ASSUME Created' = Created, UNCHANGED <<freed, shutdown, caller>>, count' <= count,
               \A w \in Worker : worker'[w] = "exited" <=> worker[w] = "exited"
        PROVE  Life'
    <3>1. count = 0 => count' = 0
      BY <2>0, <2>K
    <3>2. \A w \in Created : w \in Worker
      BY DEF Created
    <3>3. QED
      BY <2>0, <2>K, <3>1, <3>2 DEF Life
  <2>1. CASE threadpool_create_NoMemory
    BY <2>0, <2>M, <2>1 DEF threadpool_create_NoMemory, Life, Created, ring, TypeOK
  <2>2. CASE threadpool_create_Fails
    BY <2>0, <2>M, <2>2, <1>Woken
       DEF threadpool_create_Fails, Life, ring, TypeOK, immediate_shutdown, graceful_shutdown
  <2>3. CASE threadpool_add_Refused \/ UNCHANGED vars
    BY <2>0, <2>3, <2>K DEF threadpool_add_Refused, vars, Created
  <2>4. ASSUME NEW t \in Task, threadpool_add(t) PROVE Life'
    <3>1. \A w \in Worker : /\ worker'[w] = "exited" <=> worker[w] = "exited"
                            /\ worker'[w] = "none" <=> worker[w] = "none"
      BY <2>0, <2>4, <1>Woken DEF threadpool_add
    <3>2. Created' = Created
      BY <3>1 DEF Created
    <3>3. QED
      BY <2>0, <2>4, <3>1, <3>2 DEF threadpool_add, Life, Usable, graceful_shutdown
  <2>5. ASSUME NEW w \in Worker, threadpool_create_Thread(w) PROVE Life'
    <3>1. worker[w] = "none" /\ Created' = 1..w
      BY <2>0, <2>5, <1>NextThread
    <3>2. \A v \in Worker : worker'[v] = "exited" <=> worker[v] = "exited"
      BY <2>0, <2>5, <3>1 DEF threadpool_create_Thread, TypeOK
    <3>3. ~freed' /\ \A u \in User : u # Main => caller'[u] = caller[u]
      BY <2>0, <2>M, <2>5 DEF threadpool_create_Thread, Life, TypeOK
    <3>4. caller'[Main] = IF w = thread_count THEN "created" ELSE "creating"
      BY <2>0, <2>M, <2>5 DEF threadpool_create_Thread, TypeOK
    <3>5. w = thread_count => Created' = Worker
      BY <3>1 DEF Worker
    <3>6. shutdown # graceful_shutdown
      BY <2>0, <2>5, <3>1 DEF Life, Created, threadpool_create_Thread
    <3>7. QED
      BY <2>0, <2>5, <3>2, <3>3, <3>4, <3>5, <3>6 DEF threadpool_create_Thread, Life, ring
  <2>6. ASSUME NEW w \in Worker,
               \/ threadpool_thread_Wait(w) \/ threadpool_thread_Spurious(w)
               \/ threadpool_thread_Take(w) \/ threadpool_thread_Run(w)
        PROVE  Life'
    <3> USE DEF threadpool_thread_Wait, threadpool_thread_Spurious,
                threadpool_thread_Take, threadpool_thread_Run
    <3>1. \A v \in Worker : /\ worker'[v] = "exited" <=> worker[v] = "exited"
                            /\ worker'[v] = "none" <=> worker[v] = "none"
      BY <2>0, <2>6 DEF TypeOK
    <3>2. Created' = Created
      BY <3>1 DEF Created
    <3>3. count' <= count /\ UNCHANGED <<freed, shutdown, caller>>
      BY <2>0, <2>6 DEF ring
    <3>4. QED
      BY <2>0, <3>1, <3>2, <3>3, <2>K
  <2>7. ASSUME NEW w \in Worker, threadpool_thread_Exit(w) PROVE Life'
    <3>1. \A v \in Worker : /\ worker'[v] = "exited" <=> (v = w \/ worker[v] = "exited")
                            /\ worker'[v] = "none" <=> worker[v] = "none"
      BY <2>0, <2>7 DEF threadpool_thread_Exit, TypeOK
    <3>2. Created' = Created /\ \A v \in Created : v \in Worker
      BY <3>1 DEF Created
    <3>3. shutdown # 0 /\ (shutdown = graceful_shutdown => count = 0)
      BY <2>7 DEF threadpool_thread_Exit, Leaves, immediate_shutdown, graceful_shutdown
    <3>4. QED
      BY <2>0, <2>7, <3>1, <3>2, <3>3 DEF threadpool_thread_Exit, Life, ring
  <2>8. ASSUME NEW d \in Destroyer, NEW graceful \in BOOLEAN, threadpool_destroy(d, graceful)
        PROVE  Life'
    <3>1. \A w \in Worker : /\ worker'[w] = "exited" <=> worker[w] = "exited"
                            /\ worker'[w] = "none" <=> worker[w] = "none"
      BY <2>0, <2>8, <1>Woken DEF threadpool_destroy
    <3>2. Created' = Created /\ \A v \in Created : v \in Worker
      BY <3>1 DEF Created
    <3>3. caller'[Main] = "created" /\ Created = Worker /\ ~freed'
      BY <2>0, <2>M, <2>8 DEF threadpool_destroy, Usable, Life, TypeOK, User
    <3>4. \A w \in Worker : worker'[w] # "exited"
      BY <2>0, <2>8, <3>1 DEF threadpool_destroy, Life
    <3>5. QED
      BY <3>2, <3>3, <3>4 DEF Life
  <2>9. ASSUME NEW d \in Destroyer, threadpool_destroy_Already(d) PROVE Life'
    <3>1. caller'[Main] = "created" /\ ~freed'
      BY <2>0, <2>M, <2>9 DEF threadpool_destroy_Already, Usable, TypeOK, User
    <3>2. Created' = Created
      BY <2>9 DEF threadpool_destroy_Already, Created
    <3>3. QED
      BY <2>0, <2>9, <3>1, <3>2 DEF threadpool_destroy_Already, Life, Usable, ring
  <2>10. ASSUME NEW u \in User, threadpool_free(u) PROVE Life'
    <3>1. caller[Main] # "creating"
      BY <2>0, <2>10 DEF threadpool_free, Life
    <3>2. caller'[Main] \in {caller[Main], "returned"}
      BY <2>0, <2>M, <2>10 DEF threadpool_free, TypeOK
    <3>3. Created' = Created
      BY <2>10 DEF threadpool_free, Created
    <3>4. QED
      BY <2>0, <2>10, <3>1, <3>2, <3>3 DEF threadpool_free, Life, Joined, ring
  <2>11. QED
    BY <2>1, <2>2, <2>3, <2>4, <2>5, <2>6, <2>7, <2>8, <2>9, <2>10 DEF Next, threadpool_thread
<1>1. Init => TypeInv
  <2> SUFFICES ASSUME Init PROVE TypeInv
    OBVIOUS
  <2>1. /\ queue \in [0..(queue_size - 1) -> Task \cup {NULL}]
        /\ head \in 0..(queue_size - 1) /\ tail \in 0..(queue_size - 1)
        /\ count \in 0..queue_size
    BY QueueAssumption DEF Init
  <2>2. /\ started \in 0..thread_count
        /\ worker \in [Worker -> {"none", "lock", "wait", "work", "exited"}]
        /\ task \in [Worker -> Task \cup {NULL}]
    BY ThreadsAssumption DEF Init
  <2>3. caller \in [User -> {"creating", "created", "failed", "idle", "joining",
                             "refused", "returned"}]
    BY DEF Init
  <2>4. TypeOK
    BY <2>1, <2>2, <2>3, Zenon DEF Init, TypeOK
  <2>5. Live = {} /\ Created = {}
    BY DEF Init, Live, Created
  <2>6. Created = 1..0 /\ 0 \in 0..thread_count
    BY <2>5, ThreadsAssumption
  <2>7. QED
    BY <2>4, <2>5, <2>6, FS_EmptySet DEF TypeInv, Started, InTurn, Init
<1>2. Init => RingInv /\ Places
  <2> SUFFICES ASSUME Init PROVE RingInv /\ Places
    OBVIOUS
  <2>1. RingInv
    BY QueueAssumption DEF Init, RingInv
  <2>2. Slots = {}
    BY DEF Init, Slots
  <2>3. QED
    BY <2>1, <2>2 DEF Init, Places
<1>3. Init => Life
  BY DEF Init, Life, Main, User, graceful_shutdown
<1>4. Init => PoolInv
  BY <1>1, <1>2, <1>3 DEF TaskInv, PoolInv
<1>5. PoolInv /\ [Next]_vars => PoolInv'
  BY <1>TaskStep, <1>LifeStep DEF PoolInv
<1>6. QED
  BY <1>4, <1>5, PTL DEF Spec
------------------------------------------------------------------------------
(* TypeOK of ThreadPool: the ring's indices and the number of started threads *)
(* stay in range, whatever threads are created, leave or fail to start.       *)
THEOREM TypeCorrect == Spec => []TypeOK
<1>1. PoolInv => TypeOK
  BY DEF PoolInv, TaskInv, TypeInv
<1>2. QED
  BY <1>1, PoolAlways, PTL

(* No task is lost and none is run twice, for any number of threads, slots, *)
(* tasks and destroyers: threadpool_add, threadpool_thread and the two      *)
(* kinds of shutdown keep every accepted task in exactly one place.         *)
THEOREM TasksConserved == Spec => []TaskConserved
<1>0. ASSUME NEW S, \A x, y \in S : x = y
      PROVE  /\ S = {} => Cardinality(S) = 0
             /\ S # {} => Cardinality(S) = 1
  <2>1. S = {} => Cardinality(S) = 0
    BY FS_EmptySet
  <2>2. ASSUME NEW x \in S PROVE Cardinality(S) = 1
    <3>1. S = {x}
      BY <1>0
    <3>2. QED
      BY <3>1, FS_Singleton
  <2>3. QED
    BY <2>1, <2>2
<1>1. ASSUME PoolInv PROVE TaskConserved
  <2> SUFFICES ASSUME NEW t \in Task
               PROVE  Cardinality({i \in 1..count : Waiting[i] = t})
                        + Cardinality({w \in Worker : task[w] = t}) + ran[t]
                        = IF t \in accepted THEN 1 ELSE 0
    BY DEF TaskConserved
  <2> DEFINE slots == {i \in 1..count : Waiting[i] = t}
             workers == {w \in Worker : task[w] = t}
  <2>0. Places /\ TypeOK /\ t # NULL
    BY <1>1, NullAssumption DEF PoolInv, TaskInv, TypeInv
  <2>1. \A i, j \in slots : i = j
    BY <2>0 DEF Places, Slots
  <2>2. \A v, w \in workers : v = w
    BY <2>0 DEF Places
  <2>3. /\ slots = {} => Cardinality(slots) = 0
        /\ slots # {} => Cardinality(slots) = 1
    BY <2>1, <1>0
  <2>4. /\ workers = {} => Cardinality(workers) = 0
        /\ workers # {} => Cardinality(workers) = 1
    BY <2>2, <1>0
  <2>5. slots # {} => t \in accepted /\ ran[t] = 0 /\ workers = {}
    BY <2>0 DEF Places, Slots
  <2>6. workers # {} => t \in accepted /\ ran[t] = 0 /\ slots = {}
    BY <2>0 DEF Places, Slots
  <2>7. slots = {} /\ workers = {} => ran[t] = IF t \in accepted THEN 1 ELSE 0
    BY <2>0 DEF Places, Slots
  <2> HIDE DEF slots, workers
  <2>8. Cardinality(slots) + Cardinality(workers) + ran[t] = IF t \in accepted THEN 1 ELSE 0
    BY <2>3, <2>4, <2>5, <2>6, <2>7
  <2>9. QED
    BY <2>8 DEF slots, workers
<1>2. QED
  BY <1>1, PoolAlways, PTL

(* threadpool_free releases the pool only after every thread that was       *)
(* created has left, and after a graceful shutdown only when each accepted  *)
(* task was run, whatever the number of threads, slots and callers.         *)
THEOREM FreedOnlyWhenDone == Spec => []FreedWhenDone
<1>1. ASSUME PoolInv PROVE FreedWhenDone
  <2> SUFFICES ASSUME freed PROVE /\ \A w \in Created : worker[w] = "exited"
                                  /\ shutdown = graceful_shutdown => \A t \in accepted : ran[t] = 1
    BY DEF FreedWhenDone
  <2>1. Life /\ Places
    BY <1>1 DEF PoolInv, TaskInv
  <2>2. \A w \in Created : worker[w] = "exited"
    BY <2>1 DEF Life
  <2>3. ASSUME shutdown = graceful_shutdown, NEW t \in accepted PROVE ran[t] = 1
    <3>1. 1 \in Worker
      BY ThreadsAssumption DEF Worker
    <3>2. \A w \in Worker : worker[w] = "exited"
      BY <2>1, <2>2, <2>3 DEF Life
    <3>3. count = 0
      BY <2>1, <2>3, <3>1, <3>2 DEF Life
    <3>4. Slots = {}
      BY <3>3 DEF Slots
    <3>5. t # NULL
      BY <1>1, NullAssumption DEF PoolInv, TaskInv, TypeInv, TypeOK
    <3>6. \A w \in Worker : task[w] # t
      BY <2>1, <3>2, <3>5 DEF Places
    <3>7. QED
      BY <2>1, <3>4, <3>6 DEF Places
  <2>4. QED
    BY <2>2, <2>3
<1>2. QED
  BY <1>1, PoolAlways, PTL
------------------------------------------------------------------------------
(* The ring of threadpool_add and threadpool_thread is a bounded queue that *)
(* hands tasks out in the order of acceptance and accepts none once the     *)
(* shutdown began, for every size of the ring: the wrapping indices head    *)
(* and tail never lose, repeat or reorder a waiting task.                   *)
THEOREM RingImplementsQueue == Spec => ImplementsTaskQueue
<1>QueueStep.
    (* A step of the pool accepts, hands out or closes, or the queue does not see it. *)
    ASSUME TaskInv, TypeOK', [Next]_vars
    PROVE  [Queue!Next]_(Queue!vars)
  <2> USE <1>QueueStep
  <2>IsAppend.
      (***************************************************************************)
      (* The ring implements the queue of tasks.                                 *)
      (***************************************************************************)
      (* What makes a function the sequence Append returns, element by element. *)
      ASSUME NEW S, NEW s \in Seq(S), NEW e \in S, NEW u,
             u = [i \in 1..(Len(s) + 1) |-> u[i]],
             \A i \in 1..Len(s) : u[i] = s[i], u[Len(s) + 1] = e
      PROVE  u = Append(s, e)
    <3> USE <2>IsAppend
    <3>1. Len(s) \in Nat /\ \A i \in 1..Len(s) : s[i] \in S
      BY LenProperties, ElementOfSeq
    <3>2. \A i \in 1..(Len(s) + 1) : u[i] \in S
      <4>1. \A i \in 1..(Len(s) + 1) : i \in 1..Len(s) \/ i = Len(s) + 1
        BY <3>1
      <4>2. QED
        BY <4>1, <3>1, Zenon
    <3>3. u \in [1..(Len(s) + 1) -> S]
      BY <3>2
    <3>4. u \in Seq(S) /\ Len(u) = Len(s) + 1
      BY <3>1, <3>3
    <3>5. /\ Append(s, e) \in Seq(S) /\ Len(Append(s, e)) = Len(s) + 1
          /\ \A i \in 1..Len(s) : Append(s, e)[i] = s[i]
          /\ Append(s, e)[Len(s) + 1] = e
      BY AppendProperties
    <3>6. \A i \in 1..(Len(s) + 1) : u[i] = Append(s, e)[i]
      <4>1. \A i \in 1..(Len(s) + 1) : i \in 1..Len(s) \/ i = Len(s) + 1
        BY <3>1
      <4>2. QED
        BY <4>1, <3>5, Zenon
    <3>7. QED
      BY <3>4, <3>5, <3>6, SeqEqual, Zenon
  <2>IsTail.
      (* What makes a function the sequence Tail returns, element by element. *)
      ASSUME NEW S, NEW s \in Seq(S), s # <<>>, NEW u,
             u = [i \in 1..(Len(s) - 1) |-> u[i]],
             \A i \in 1..(Len(s) - 1) : u[i] = s[i + 1]
      PROVE  u = Tail(s)
    <3> USE <2>IsTail
    <3>1. Len(s) \in Nat \ {0} /\ \A i \in 1..Len(s) : s[i] \in S
      BY LenProperties, ElementOfSeq, EmptySeq
    <3>2. \A i \in 1..(Len(s) - 1) : u[i] \in S
      BY <3>1
    <3>3. u \in [1..(Len(s) - 1) -> S]
      BY <3>2
    <3>4. u \in Seq(S) /\ Len(u) = Len(s) - 1
      BY <3>1, <3>3
    <3>5. /\ Tail(s) \in Seq(S) /\ Len(Tail(s)) = Len(s) - 1
          /\ \A i \in 1..(Len(s) - 1) : Tail(s)[i] = s[i + 1]
      <4>1. /\ Tail(s) \in Seq(S) /\ Len(Tail(s)) = Len(s) - 1
            /\ \A i \in 1..Len(Tail(s)) : Tail(s)[i] = s[i + 1]
        BY HeadTailProperties
      <4>2. QED
        BY <4>1
    <3>6. \A i \in 1..(Len(s) - 1) : u[i] = Tail(s)[i]
      BY <3>5
    <3>7. QED
      BY <3>4, <3>5, <3>6, SeqEqual, Zenon
  <2> USE DEF TaskInv
  <2>0. TypeOK /\ TypeInv /\ RingInv
    BY DEF TypeInv
  <2>K. ASSUME UNCHANGED <<ring, shutdown>> PROVE UNCHANGED Queue!vars
    BY <2>K DEF ring, Waiting, Queue!vars
  <2>1. CASE threadpool_create_NoMemory
    BY <2>1, <2>K DEF threadpool_create_NoMemory
  <2>2. CASE threadpool_create_Fails
    <3>1. Waiting' = Waiting /\ shutdown' # 0
      BY <2>2 DEF threadpool_create_Fails, ring, Waiting, immediate_shutdown
    <3>2. QED
      BY <3>1 DEF Queue!Next, Queue!Close
  <2>3. CASE threadpool_add_Refused \/ UNCHANGED vars
    BY <2>3, <2>K DEF threadpool_add_Refused, vars, ring
  <2>4. ASSUME NEW t \in Task, threadpool_add(t) PROVE Queue!Next
    <3>1. /\ Waiting'[count + 1] = t
          /\ \A i \in 1..count : Waiting'[i] = Waiting[i]
      BY <2>0, <2>4, AddRing, Zenon DEF threadpool_add
    <3>2. count' = count + 1 /\ shutdown = 0 /\ shutdown' = 0 /\ count \in Nat /\ count < queue_size
      BY <2>0, <2>4, QueueAssumption DEF threadpool_add, TypeOK, Full
    <3>3. Waiting \in Seq(Task \cup {NULL}) /\ Len(Waiting) = count
      BY <2>0, WaitingSeq
    <3>4. Waiting' = [i \in 1..(count + 1) |-> Waiting'[i]]
      BY <3>2 DEF Waiting
    <3>7. Waiting' = Append(Waiting, t)
      BY <3>1, <3>3, <3>4, <2>IsAppend
    <3>8. QED
      BY <3>2, <3>3, <3>7 DEF Queue!Next, Queue!Accept
  <2>5. ASSUME NEW w \in Worker, threadpool_thread_Take(w) PROVE Queue!Next
    <3>1. \A i \in 1..(count - 1) : Waiting'[i] = Waiting[i + 1]
      BY <2>0, <2>5, TakeRing DEF threadpool_thread_Take
    <3>2. count' = count - 1 /\ shutdown' = shutdown /\ count \in Nat /\ count > 0
      BY <2>0, <2>5, QueueAssumption DEF threadpool_thread_Take, TypeOK
    <3>3. Waiting \in Seq(Task \cup {NULL}) /\ Len(Waiting) = count
      BY <2>0, WaitingSeq
    <3>4. Waiting' = [i \in 1..(count - 1) |-> Waiting'[i]]
      BY <3>2 DEF Waiting
    <3>5. Waiting # <<>>
      BY <3>2, <3>3
    <3>6. Waiting' = Tail(Waiting)
      BY <3>1, <3>3, <3>4, <3>5, <2>IsTail
    <3>7. QED
      BY <3>2, <3>5, <3>6 DEF Queue!Next, Queue!Hand
  <2>6. ASSUME NEW w \in Worker,
               \/ threadpool_create_Thread(w) \/ threadpool_thread_Wait(w)
               \/ threadpool_thread_Spurious(w) \/ threadpool_thread_Exit(w)
               \/ threadpool_thread_Run(w)
        PROVE  UNCHANGED Queue!vars
    BY <2>6, <2>K
       DEF threadpool_create_Thread, threadpool_thread_Wait, threadpool_thread_Spurious,
           threadpool_thread_Exit, threadpool_thread_Run
  <2>7. ASSUME NEW d \in Destroyer, NEW graceful \in BOOLEAN, threadpool_destroy(d, graceful)
        PROVE  Queue!Next
    <3>1. Waiting' = Waiting /\ shutdown' # 0
      BY <2>7 DEF threadpool_destroy, ring, Waiting, immediate_shutdown, graceful_shutdown
    <3>2. QED
      BY <3>1 DEF Queue!Next, Queue!Close
  <2>8. ASSUME NEW d \in Destroyer, threadpool_destroy_Already(d) PROVE UNCHANGED Queue!vars
    BY <2>8, <2>K DEF threadpool_destroy_Already
  <2>9. ASSUME NEW u \in User, threadpool_free(u) PROVE UNCHANGED Queue!vars
    BY <2>9, <2>K DEF threadpool_free
  <2>10. QED
    BY <2>1, <2>2, <2>3, <2>4, <2>5, <2>6, <2>7, <2>8, <2>9 DEF Next, threadpool_thread
<1>1. Init => Queue!Init
  <2> SUFFICES ASSUME Init PROVE Queue!Init
    OBVIOUS
  <2>1. 1..count = {} /\ shutdown = 0
    BY DEF Init
  <2>2. Waiting = <<>>
    BY <2>1 DEF Waiting
  <2>3. QED
    BY <2>1, <2>2 DEF Queue!Init
<1>2. PoolInv /\ PoolInv' /\ [Next]_vars => [Queue!Next]_(Queue!vars)
  BY <1>QueueStep DEF PoolInv, TaskInv, TypeInv
<1>3. QED
  BY <1>1, <1>2, PoolAlways, PTL DEF Spec, ImplementsTaskQueue, Queue!Spec
==============================================================================
