----------------------------- MODULE ThreadPool -----------------------------
(***************************************************************************)
(* The C thread pool (pool/thread_pool/thrd_pool_c.c): workers that take   *)
(* tasks from a ring of queue_size slots, users that add tasks, and users  *)
(* that destroy the pool, gracefully or at once.                           *)
(*                                                                         *)
(* What the threads share they touch with the mutex held, so that what a   *)
(* thread does from pthread_mutex_lock to pthread_mutex_unlock, or to      *)
(* pthread_cond_wait, is one step here.  Two places do without it, when no *)
(* other thread writes what they use: threadpool_create counts the threads *)
(* it starts (a worker counts itself out only after a shutdown, which      *)
(* create's caller cannot ask for yet), and threadpool_free runs when all  *)
(* workers were joined.  The one path that keeps the mutex is              *)
(* threadpool_destroy on a pool that is shutting down already: it returns  *)
(* without unlocking, and "lock" names the caller that did.                *)
(*                                                                         *)
(* Assumed of the users: they have the pool only after threadpool_create   *)
(* returned it, and they do not call a function of a pool that was freed.  *)
(* Mutex and condition variable calls do not fail.                         *)
(***************************************************************************)
EXTENDS Naturals, Sequences, FiniteSets

CONSTANTS
    Task,          \* the tasks users want done, each added successfully at most once
    Destroyer,     \* the users that may call threadpool_destroy, each once
    thread_count,  \* the number of threads asked of threadpool_create
    queue_size,    \* the number of slots of the ring
    NULL           \* no task, or nobody

ASSUME ThreadsAssumption == thread_count \in Nat \ {0}
ASSUME QueueAssumption == queue_size \in Nat \ {0}
ASSUME NullAssumption == NULL \notin Task /\ NULL \notin Destroyer

VARIABLES
    queue, head, tail, count,  \* the ring of tasks
    shutdown,                  \* 0, immediate_shutdown or graceful_shutdown
    started,                   \* the number of workers that did not leave
    lock,                      \* who keeps the mutex for good, NULL when it is free
    freed,                     \* whether threadpool_free released the pool
    worker,                    \* worker -> where it stands
    task,                      \* worker -> the task it runs, NULL when none
    caller,                    \* user -> where its call stands
    accepted,                  \* history: the tasks threadpool_add returned 0 for
    ran                        \* history: task -> how often a worker ran it

ring == <<queue, head, tail, count>>
vars == <<queue, head, tail, count, shutdown, started, lock, freed,
          worker, task, caller, accepted, ran>>

immediate_shutdown == 1
graceful_shutdown == 2

Worker == 1..thread_count

(* The thread that calls threadpool_create, among the users. *)
Main == "main"
User == Destroyer \cup {Main}

Created == {w \in Worker : worker[w] # "none"}

(* The pool can be used: threadpool_create returned it and it was not freed. *)
Usable == caller[Main] = "created" /\ ~freed

(* The tasks in the ring, oldest first. *)
Waiting == [i \in 1..count |-> queue[(head + i - 1) % queue_size]]

Init ==
    /\ queue = [i \in 0..(queue_size - 1) |-> NULL]
    /\ head = 0 /\ tail = 0 /\ count = 0
    /\ shutdown = 0
    /\ started = 0
    /\ lock = NULL
    /\ freed = FALSE
    /\ worker = [w \in Worker |-> "none"]
    /\ task = [w \in Worker |-> NULL]
    /\ caller = [u \in User |-> IF u = Main THEN "creating" ELSE "idle"]
    /\ accepted = {}
    /\ ran = [t \in Task |-> 0]

Broadcast_WakesOne ==
    IF \E w \in Worker : worker[w] = "wait"
    THEN [worker EXCEPT ![CHOOSE w \in Worker : worker[w] = "wait"] = "lock"]
    ELSE worker

(* pthread_cond_broadcast: every worker that waits tries for the mutex again. *)
Broadcast == [w \in Worker |-> IF worker[w] = "wait" THEN "lock" ELSE worker[w]]

(* pthread_cond_signal: one of the workers that wait, if there is one. *)
Signal ==
    \/ /\ \A w \in Worker : worker[w] # "wait"
       /\ UNCHANGED worker
    \/ \E w \in Worker : worker[w] = "wait" /\ worker' = [worker EXCEPT ![w] = "lock"]
------------------------------------------------------------------------------
(***************************************************************************)
(* threadpool_create: memory for the pool or its arrays may be missing,    *)
(* then the threads are created one by one; when one cannot be created the *)
(* pool is destroyed at once.                                              *)
(***************************************************************************)
threadpool_create_NoMemory ==
    /\ caller[Main] = "creating" /\ Created = {}
    /\ freed' = TRUE
    /\ caller' = [caller EXCEPT ![Main] = "failed"]
    /\ UNCHANGED <<ring, shutdown, started, lock, worker, task, accepted, ran>>

threadpool_create_Thread(w) ==
    /\ caller[Main] = "creating"
    /\ w = Cardinality(Created) + 1
    /\ worker' = [worker EXCEPT ![w] = "lock"]
    /\ started' = started + 1
    /\ caller' = [caller EXCEPT ![Main] = IF w = thread_count THEN "created" ELSE "creating"]
    /\ UNCHANGED <<ring, shutdown, lock, freed, task, accepted, ran>>

threadpool_create_Fails ==
    /\ caller[Main] = "creating" /\ Cardinality(Created) < thread_count
    /\ lock = NULL
    /\ shutdown' = immediate_shutdown
    /\ worker' = Broadcast
    /\ caller' = [caller EXCEPT ![Main] = "joining"]
    /\ UNCHANGED <<ring, started, lock, freed, task, accepted, ran>>
------------------------------------------------------------------------------
(***************************************************************************)
(* threadpool_add: refused when the ring is full, then when the pool is    *)
(* shutting down; otherwise the task goes to the tail and one worker is    *)
(* signalled.                                                              *)
(***************************************************************************)
Full_OffByOne == count > queue_size

Full == count = queue_size

(* The signal is left out. *)
threadpool_add_NoSignal(t) ==
    /\ Usable /\ lock = NULL
    /\ t \notin accepted
    /\ ~Full
    /\ shutdown = 0
    /\ queue' = [queue EXCEPT ![tail] = t]
    /\ tail' = (tail + 1) % queue_size
    /\ count' = count + 1
    /\ accepted' = accepted \cup {t}
    /\ UNCHANGED <<head, shutdown, started, lock, freed, worker, task, caller, ran>>

(* The test of shutdown is left out. *)
threadpool_add_WhileClosing(t) ==
    /\ Usable /\ lock = NULL
    /\ t \notin accepted
    /\ ~Full
    /\ queue' = [queue EXCEPT ![tail] = t]
    /\ tail' = (tail + 1) % queue_size
    /\ count' = count + 1
    /\ Signal
    /\ accepted' = accepted \cup {t}
    /\ UNCHANGED <<head, shutdown, started, lock, freed, task, caller, ran>>

threadpool_add(t) ==
    /\ Usable /\ lock = NULL
    /\ t \notin accepted
    /\ ~Full
    /\ shutdown = 0
    /\ queue' = [queue EXCEPT ![tail] = t]
    /\ tail' = (tail + 1) % queue_size
    /\ count' = count + 1
    /\ Signal
    /\ accepted' = accepted \cup {t}
    /\ UNCHANGED <<head, shutdown, started, lock, freed, task, caller, ran>>

(* A refused call leaves the pool as it is; the user may try again. *)
threadpool_add_Refused ==
    /\ Usable /\ lock = NULL
    /\ Full \/ shutdown # 0
    /\ UNCHANGED vars
------------------------------------------------------------------------------
(***************************************************************************)
(* threadpool_thread: wait while there is neither a task nor a shutdown,   *)
(* leave when the shutdown says so, else take the task at the head, run it *)
(* without the mutex, and start over.                                      *)
(***************************************************************************)
threadpool_thread_Wait(w) ==
    /\ worker[w] = "lock" /\ lock = NULL
    /\ count = 0 /\ shutdown = 0
    /\ worker' = [worker EXCEPT ![w] = "wait"]
    /\ UNCHANGED <<ring, shutdown, started, lock, freed, task, caller, accepted, ran>>

(* pthread_cond_wait may return although nobody signalled. *)
threadpool_thread_Spurious(w) ==
    /\ worker[w] = "wait"
    /\ worker' = [worker EXCEPT ![w] = "lock"]
    /\ UNCHANGED <<ring, shutdown, started, lock, freed, task, caller, accepted, ran>>

Leaves_AnyShutdown == shutdown # 0

Leaves ==
    \/ shutdown = immediate_shutdown
    \/ shutdown = graceful_shutdown /\ count = 0

threadpool_thread_Exit(w) ==
    /\ worker[w] = "lock" /\ lock = NULL
    /\ Leaves
    /\ started' = started - 1
    /\ worker' = [worker EXCEPT ![w] = "exited"]
    /\ UNCHANGED <<ring, shutdown, lock, freed, task, caller, accepted, ran>>

threadpool_thread_Take(w) ==
    /\ worker[w] = "lock" /\ lock = NULL
    /\ count > 0 /\ ~Leaves
    /\ task' = [task EXCEPT ![w] = queue[head]]
    /\ head' = (head + 1) % queue_size
    /\ count' = count - 1
    /\ worker' = [worker EXCEPT ![w] = "work"]
    /\ UNCHANGED <<queue, tail, shutdown, started, lock, freed, caller, accepted, ran>>

threadpool_thread_Run(w) ==
    /\ worker[w] = "work"
    /\ ran' = [ran EXCEPT ![task[w]] = @ + 1]
    /\ task' = [task EXCEPT ![w] = NULL]
    /\ worker' = [worker EXCEPT ![w] = "lock"]
    /\ UNCHANGED <<ring, shutdown, started, lock, freed, caller, accepted>>
------------------------------------------------------------------------------
(***************************************************************************)
(* threadpool_destroy: the first call records the kind of shutdown, wakes  *)
(* the workers, joins them and frees the pool.  A call that finds the      *)
(* shutdown under way returns an error, and leaves the mutex locked.       *)
(***************************************************************************)
threadpool_destroy(d, graceful) ==
    /\ Usable /\ lock = NULL
    /\ caller[d] = "idle"
    /\ shutdown = 0
    /\ shutdown' = IF graceful THEN graceful_shutdown ELSE immediate_shutdown
    /\ worker' = Broadcast
    /\ caller' = [caller EXCEPT ![d] = "joining"]
    /\ UNCHANGED <<ring, started, lock, freed, task, accepted, ran>>

threadpool_destroy_Already(d) ==
    /\ Usable /\ lock = NULL
    /\ caller[d] = "idle"
    /\ shutdown # 0
    /\ lock' = d
    /\ caller' = [caller EXCEPT ![d] = "refused"]
    /\ UNCHANGED <<ring, shutdown, started, freed, worker, task, accepted, ran>>

Joined == \A w \in Created : worker[w] = "exited"

(* pthread_join on every thread, then threadpool_free, which locks the mutex. *)
threadpool_free(u) ==
    /\ caller[u] = "joining"
    /\ Joined
    /\ lock = NULL
    /\ freed' = (started = 0)
    /\ caller' = [caller EXCEPT ![u] = "returned"]
    /\ UNCHANGED <<ring, shutdown, started, lock, worker, task, accepted, ran>>
------------------------------------------------------------------------------
threadpool_thread(w) ==
    \/ threadpool_thread_Wait(w)
    \/ threadpool_thread_Exit(w)
    \/ threadpool_thread_Take(w)
    \/ threadpool_thread_Run(w)

Next ==
    \/ threadpool_create_NoMemory
    \/ threadpool_create_Fails
    \/ threadpool_add_Refused
    \/ \E t \in Task : threadpool_add(t)
    \/ \E w \in Worker :
        \/ threadpool_create_Thread(w)
        \/ threadpool_thread(w)
        \/ threadpool_thread_Spurious(w)
    \/ \E d \in Destroyer :
        \/ \E graceful \in BOOLEAN : threadpool_destroy(d, graceful)
        \/ threadpool_destroy_Already(d)
    \/ \E u \in User : threadpool_free(u)

(* Threads are scheduled and tasks end; users need not call anything. *)
Fairness ==
    /\ \A w \in Worker : WF_vars(threadpool_thread(w))
    /\ \A u \in User : WF_vars(threadpool_free(u))

Spec == Init /\ [][Next]_vars /\ Fairness
------------------------------------------------------------------------------
(* The variables range over what the structures of the pool can hold. *)
TypeOK ==
    /\ queue \in [0..(queue_size - 1) -> Task \cup {NULL}]
    /\ head \in 0..(queue_size - 1) /\ tail \in 0..(queue_size - 1)
    /\ count \in 0..queue_size
    /\ shutdown \in {0, immediate_shutdown, graceful_shutdown}
    /\ started \in 0..thread_count
    /\ lock \in Destroyer \cup {NULL}
    /\ freed \in BOOLEAN
    /\ worker \in [Worker -> {"none", "lock", "wait", "work", "exited"}]
    /\ task \in [Worker -> Task \cup {NULL}]
    /\ caller \in [User -> {"creating", "created", "failed", "idle", "joining",
                            "refused", "returned"}]
    /\ accepted \in SUBSET Task
    /\ ran \in [Task -> Nat]

(* No task is lost or run twice: one that threadpool_add accepted is in one *)
(* slot between head and tail, or with one worker, or was run once; one     *)
(* that was not accepted is nowhere.                                        *)
TaskConserved ==
    \A t \in Task :
        LET slots == {i \in 1..count : Waiting[i] = t}
            workers == {w \in Worker : task[w] = t}
        IN Cardinality(slots) + Cardinality(workers) + ran[t] = IF t \in accepted THEN 1 ELSE 0

(* The pool is freed only when no worker can touch it again, and after a    *)
(* graceful shutdown only when every task that was accepted has been run.   *)
FreedWhenDone ==
    freed =>
        /\ \A w \in Created : worker[w] = "exited"
        /\ shutdown = graceful_shutdown => \A t \in accepted : ran[t] = 1

(* The ring hands tasks out in the order in which they were accepted, and   *)
(* takes none beyond queue_size or after the shutdown.                      *)
Queue == INSTANCE TaskQueue WITH Size <- queue_size, waiting <- Waiting, closed <- shutdown # 0
ImplementsTaskQueue == Queue!Spec

(* An accepted task is run, unless the pool is shut down at once or a second *)
(* call of threadpool_destroy keeps the mutex.  In particular the signal of  *)
(* threadpool_add is never lost on a pool with an idle worker.               *)
AcceptedRuns ==
    \A t \in Task :
        t \in accepted ~> (ran[t] = 1 \/ shutdown = immediate_shutdown \/ lock # NULL)

(* A shutdown ends with the pool freed, unless a second call of             *)
(* threadpool_destroy keeps the mutex: no worker sleeps through it.         *)
ShutdownEnds == shutdown # 0 ~> (freed \/ lock # NULL)
==============================================================================
