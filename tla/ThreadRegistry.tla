--------------------------- MODULE ThreadRegistry ---------------------------
(***************************************************************************)
(* The thread registry of thread/thread.c: the heap records (thread_type)  *)
(* of the program's threads, the tree _threadtree that holds them, the     *)
(* mutex _threadtree_mutex that guards the tree, and the life of a thread  *)
(* from thread_create to its removal from the tree.                        *)
(*                                                                         *)
(* A thread and its record share one name: thread t runs, record t is the  *)
(* thread_type that thread_create_c allocated for it.  Every function is   *)
(* cut where another thread can run in between: before _mutex_lock, while  *)
(* the mutex is held, and after _mutex_unlock.  A step that would read a   *)
(* freed record or a NULL pointer sets "fault", after which the behaviour  *)
(* of the program is undefined and the model stops.                        *)
(***************************************************************************)
EXTENDS Naturals, FiniteSets

CONSTANTS
    Threads,      \* every thread (and record) of the program
    Main,         \* the thread that calls thread_initialize
    Handles,      \* the values of pthread_t
    NoThread,     \* the NULL pointer to a record; also "mutex is free"
    NoHandle,     \* the sys_thread of a record that was never started
    HandleReuse,  \* TRUE: the C library may give the pthread_t of a thread
                  \* that is gone to a new one
    MaxInits,     \* bound: calls of thread_initialize
    MaxCalls      \* bound: calls of thread_self and thread_rename

ASSUME ThreadsAssumption == Main \in Threads /\ NoThread \notin Threads
ASSUME HandlesAssumption == Handles # {} /\ NoHandle \notin Handles
ASSUME BoundsAssumption == /\ HandleReuse \in BOOLEAN
                           /\ MaxInits \in Nat \ {0}
                           /\ MaxCalls \in Nat

VARIABLES
    mem,             \* mem[r]: is record r allocated?
    thread_id,       \* fields of the records
    sys_thread,
    detached,
    name,            \* name[r]: the thread whose name is written in r
    threadtree,      \* the records in _threadtree
    up,              \* _threadtree # NULL
    next_thread_id,  \* _next_thread_id
    mutex,           \* the owner of _threadtree_mutex
    pc,              \* where each thread is
    op,              \* the call that thread is in
    cur,             \* its local variable th / thread
    handle,          \* its pthread_self()
    owner,           \* owner[t]: the thread that holds t's pointer, to join it
    inits, calls,    \* bounded counters
    fault            \* the undefined behaviour met, if any

records == <<mem, thread_id, sys_thread, detached, name>>
library == <<threadtree, up, next_thread_id>>
locals  == <<pc, op, cur, handle>>
client  == <<owner, inits, calls>>
vars    == <<records, library, mutex, locals, client, fault>>

PCs == {"none", "start_lock", "start_insert", "run",
        "create_lock", "create_id", "create_spawn",
        "self_lock", "self_scan", "self_done",
        "join_wait", "reap_lock", "reap_delete",
        "exit", "exited", "gone"}

Ops == {"none", "create", "create_detached", "self", "rename", "exit",
        "return", "join"}

\* The places where a thread holds _threadtree_mutex.
Critical == {"start_insert", "create_id", "self_scan", "reap_delete"}

TypeOK ==
    /\ mem \in [Threads -> {"unallocated", "live", "freed"}]
    /\ thread_id \in [Threads -> Nat]
    /\ sys_thread \in [Threads -> Handles \cup {NoHandle}]
    /\ detached \in [Threads -> BOOLEAN]
    /\ name \in [Threads -> Threads]
    /\ threadtree \subseteq Threads
    /\ up \in BOOLEAN
    /\ next_thread_id \in Nat
    /\ mutex \in Threads \cup {NoThread}
    /\ pc \in [Threads -> PCs]
    /\ op \in [Threads -> Ops]
    /\ cur \in [Threads -> Threads \cup {NoThread}]
    /\ handle \in [Threads -> Handles \cup {NoHandle}]
    /\ owner \in [Threads -> Threads \cup {NoThread}]
    /\ inits \in Nat
    /\ calls \in Nat
    /\ fault \in {"none", "freed", "null"}

-----------------------------------------------------------------------------
(* pthreads: external, modelled from its use in thread.c.                  *)

\* pthread_mutex_lock returns: thread t owns the mutex and goes on at "to".
Acquire(t, from, to) ==
    /\ pc[t] = from
    /\ mutex = NoThread
    /\ mutex' = t
    /\ pc' = [pc EXCEPT ![t] = to]
    /\ UNCHANGED <<records, library, op, cur, handle, client, fault>>

\* The pthread_t values that pthread_create may give to a new thread.  The
\* value of a thread that was detached and has ended, or was joined, is free
\* again; a library that does not reuse values never gives it twice.
FreshHandles ==
    LET idle == IF HandleReuse THEN {"none", "gone"} ELSE {"none"}
    IN  Handles \ {handle[t] : t \in {u \in Threads : pc[u] \notin idle}}

\* Created with PTHREAD_CREATE_DETACHED.  The main thread never is, whatever
\* its record says.
PthreadDetached(t) == t # Main /\ detached[t]

\* A step that reads record r: the fault it meets, if any.
Deref(r) == IF r = NoThread THEN "null"
            ELSE IF mem[r] # "live" THEN "freed" ELSE "none"

-----------------------------------------------------------------------------
(* thread_initialize and thread_shutdown                                   *)

Init ==
    /\ mem = [t \in Threads |-> IF t = Main THEN "live" ELSE "unallocated"]
    /\ thread_id = [t \in Threads |-> 0]
    /\ \E h \in Handles :
          /\ sys_thread = [t \in Threads |-> IF t = Main THEN h ELSE NoHandle]
          /\ handle = sys_thread
    \* malloc leaves the main thread's "detached" uninitialised
    /\ \E d \in BOOLEAN : detached = [t \in Threads |-> (t = Main) /\ d]
    /\ name = [t \in Threads |-> t]
    /\ threadtree = {Main}
    /\ up = TRUE
    /\ next_thread_id = 1
    /\ mutex = NoThread
    /\ pc = [t \in Threads |-> IF t = Main THEN "run" ELSE "none"]
    /\ op = [t \in Threads |-> "none"]
    /\ cur = [t \in Threads |-> NoThread]
    /\ owner = [t \in Threads |-> NoThread]
    /\ inits = 1
    /\ calls = 0
    /\ fault = "none"

\* Mutant of thread_initialize: the id counter starts again.
InitializeResetsIds ==
    /\ ~up /\ pc[Main] = "run"
    /\ inits < MaxInits
    /\ inits' = inits + 1
    /\ up' = TRUE
    /\ threadtree' = {Main}
    /\ mem' = [mem EXCEPT ![Main] = "live"]
    /\ thread_id' = [thread_id EXCEPT ![Main] = 0]
    /\ next_thread_id' = 1
    /\ UNCHANGED <<sys_thread, detached, name, mutex, locals, owner, calls, fault>>

\* thread_initialize again, after thread_shutdown: a new record for the main
\* thread.  The id counter is static and goes on from where it was.
thread_initialize ==
    /\ ~up /\ pc[Main] = "run"
    /\ inits < MaxInits
    /\ inits' = inits + 1
    /\ up' = TRUE
    /\ threadtree' = {Main}
    /\ mem' = [mem EXCEPT ![Main] = "live"]
    /\ thread_id' = [thread_id EXCEPT ![Main] = next_thread_id]
    /\ next_thread_id' = next_thread_id + 1
    /\ sys_thread' = [sys_thread EXCEPT ![Main] = handle[Main]]
    /\ \E d \in BOOLEAN : detached' = [detached EXCEPT ![Main] = d]
    /\ name' = [name EXCEPT ![Main] = Main]
    /\ UNCHANGED <<mutex, locals, owner, calls, fault>>

\* What the code asks of its client: the main thread shuts the library down
\* once, when every other thread has ended.
MayShutdown ==
    /\ up /\ pc[Main] = "run"
    /\ \A t \in Threads \ {Main} : pc[t] \in {"none", "exited", "gone"}

\* thread_shutdown frees every record that is still in the tree; the pointers
\* the client holds die with them.
thread_shutdown ==
    /\ MayShutdown
    /\ mem' = [t \in Threads |-> IF t \in threadtree THEN "freed" ELSE mem[t]]
    /\ threadtree' = {}
    /\ up' = FALSE
    /\ owner' = [t \in Threads |-> NoThread]
    /\ UNCHANGED <<thread_id, sys_thread, detached, name, next_thread_id, mutex,
                   locals, inits, calls, fault>>

-----------------------------------------------------------------------------
(* thread_create_c                                                         *)

\* A thread that may call into the library.
Running(t) == up /\ pc[t] = "run"

\* The record of the new thread t is allocated (calloc: id 0, not detached).
thread_create_c(p, t, d) ==
    /\ Running(p)
    /\ mem[t] = "unallocated"
    /\ mem' = [mem EXCEPT ![t] = "live"]
    /\ cur' = [cur EXCEPT ![p] = t]
    /\ op' = [op EXCEPT ![p] = IF d THEN "create_detached" ELSE "create"]
    /\ pc' = [pc EXCEPT ![p] = "create_lock"]
    /\ UNCHANGED <<thread_id, sys_thread, detached, name, library, mutex,
                   handle, client, fault>>

CreateLock(p) == Acquire(p, "create_lock", "create_id")

\* Mutants of CreateId: the counter stands still, or goes down.
CreateIdStands(p) ==
    /\ pc[p] = "create_id"
    /\ thread_id' = [thread_id EXCEPT ![cur[p]] = next_thread_id]
    /\ mutex' = NoThread
    /\ pc' = [pc EXCEPT ![p] = "create_spawn"]
    /\ UNCHANGED <<mem, sys_thread, detached, name, library, op, cur, handle, client,
                   fault>>
CreateIdDown(p) ==
    /\ pc[p] = "create_id"
    /\ thread_id' = [thread_id EXCEPT ![cur[p]] = next_thread_id - 1]
    /\ next_thread_id' = next_thread_id - 1
    /\ mutex' = NoThread
    /\ pc' = [pc EXCEPT ![p] = "create_spawn"]
    /\ UNCHANGED <<mem, sys_thread, detached, name, threadtree, up, op, cur, handle,
                   client, fault>>

\* thread->thread_id = _next_thread_id++ under the mutex.
CreateId(p) ==
    /\ pc[p] = "create_id"
    /\ thread_id' = [thread_id EXCEPT ![cur[p]] = next_thread_id]
    /\ next_thread_id' = next_thread_id + 1
    /\ mutex' = NoThread
    /\ pc' = [pc EXCEPT ![p] = "create_spawn"]
    /\ UNCHANGED <<mem, sys_thread, detached, name, threadtree, up, op, cur,
                   handle, client, fault>>

\* pthread_create succeeds: thread t exists from here on, and the caller gets
\* the pointer.
CreateSpawn(p) ==
    /\ pc[p] = "create_spawn"
    /\ \E h \in FreshHandles :
        LET t == cur[p] IN
        /\ detached' = [detached EXCEPT ![t] = op[p] = "create_detached"]
        /\ handle' = [handle EXCEPT ![t] = h]
        /\ sys_thread' = [sys_thread EXCEPT ![t] = h]
        /\ owner' = IF op[p] = "create" THEN [owner EXCEPT ![t] = p] ELSE owner
        /\ pc' = [pc EXCEPT ![t] = "start_lock", ![p] = "run"]
        /\ op' = [op EXCEPT ![p] = "none"]
        /\ cur' = [cur EXCEPT ![p] = NoThread]
        /\ UNCHANGED <<mem, thread_id, name, library, mutex, inits, calls, fault>>

\* pthread_create fails: the record is freed and the caller gets NULL.
CreateFail(p) ==
    /\ pc[p] = "create_spawn"
    /\ mem' = [mem EXCEPT ![cur[p]] = "freed"]
    /\ pc' = [pc EXCEPT ![p] = "run"]
    /\ op' = [op EXCEPT ![p] = "none"]
    /\ cur' = [cur EXCEPT ![p] = NoThread]
    /\ UNCHANGED <<thread_id, sys_thread, detached, name, library, mutex,
                   handle, client, fault>>

-----------------------------------------------------------------------------
(* _start_routine                                                          *)

StartLock(t) == Acquire(t, "start_lock", "start_insert")

\* The new thread puts its own record into the tree.
StartInsert(t) ==
    /\ pc[t] = "start_insert"
    /\ sys_thread' = [sys_thread EXCEPT ![t] = handle[t]]
    /\ threadtree' = threadtree \cup {t}
    /\ mutex' = NoThread
    /\ pc' = [pc EXCEPT ![t] = "run"]
    /\ fault' = Deref(t)
    /\ UNCHANGED <<mem, thread_id, detached, name, up, next_thread_id, op, cur,
                   handle, client>>

\* Mutant of StartReturn: an attached thread removes its record too.
StartReturnReapsAll(t) ==
    /\ Running(t) /\ t # Main
    /\ fault' = Deref(t)
    /\ pc' = [pc EXCEPT ![t] = "reap_lock"]
    /\ op' = [op EXCEPT ![t] = "return"]
    /\ cur' = [cur EXCEPT ![t] = t]
    /\ UNCHANGED <<records, library, mutex, handle, client>>

\* The client's start routine returns: a detached thread removes its record.
StartReturn(t) ==
    /\ Running(t) /\ t # Main
    /\ fault' = Deref(t)
    /\ IF detached[t]
       THEN /\ pc' = [pc EXCEPT ![t] = "reap_lock"]
            /\ op' = [op EXCEPT ![t] = "return"]
            /\ cur' = [cur EXCEPT ![t] = t]
       ELSE /\ pc' = [pc EXCEPT ![t] = "exit"]
            /\ UNCHANGED <<op, cur>>
    /\ UNCHANGED <<records, library, mutex, handle, client>>

-----------------------------------------------------------------------------
(* thread_self and the functions built on it                               *)

SelfCall(t, o) ==
    /\ Running(t)
    /\ op' = [op EXCEPT ![t] = o]
    /\ pc' = [pc EXCEPT ![t] = "self_lock"]
    /\ UNCHANGED <<records, library, mutex, cur, handle, owner, inits, fault>>

thread_self(t)   == calls < MaxCalls /\ calls' = calls + 1 /\ SelfCall(t, "self")
thread_rename(t) == calls < MaxCalls /\ calls' = calls + 1 /\ SelfCall(t, "rename")
thread_exit_c(t) == calls' = calls /\ SelfCall(t, "exit")

SelfLock(t) == Acquire(t, "self_lock", "self_scan")

\* The records of the tree that carry a given pthread_t.
Carrying(h) == {r \in threadtree : sys_thread[r] = h}

\* Mutant of SelfScan: the comparison is lost and the walk stops at the first
\* record.
SelfScanFirst(t) ==
    /\ pc[t] = "self_scan"
    /\ \E r \in threadtree :
          /\ \A q \in threadtree : thread_id[r] <= thread_id[q]
          /\ cur' = [cur EXCEPT ![t] = r]
    /\ mutex' = NoThread
    /\ pc' = [pc EXCEPT ![t] = "self_done"]
    /\ UNCHANGED <<records, library, op, handle, client, fault>>

\* The walk from avl_get_first meets the records by increasing id, so it stops
\* at the lowest one that carries the caller's pthread_t.
SelfScan(t) ==
    /\ pc[t] = "self_scan"
    /\ IF Carrying(handle[t]) = {}
       THEN cur' = [cur EXCEPT ![t] = NoThread]
       ELSE \E r \in Carrying(handle[t]) :
              /\ \A q \in Carrying(handle[t]) : thread_id[r] <= thread_id[q]
              /\ cur' = [cur EXCEPT ![t] = r]
    /\ mutex' = NoThread
    /\ pc' = [pc EXCEPT ![t] = "self_done"]
    /\ fault' = IF \E r \in threadtree : mem[r] # "live" THEN "freed" ELSE "none"
    /\ UNCHANGED <<records, library, op, handle, client>>

\* thread_self was all that was called.
SelfReturn(t) ==
    /\ pc[t] = "self_done" /\ op[t] = "self"
    /\ pc' = [pc EXCEPT ![t] = "run"]
    /\ op' = [op EXCEPT ![t] = "none"]
    /\ cur' = [cur EXCEPT ![t] = NoThread]
    /\ UNCHANGED <<records, library, mutex, handle, client, fault>>

\* thread_rename frees and replaces th->name, with no lock and no NULL check.
Rename(t) ==
    /\ pc[t] = "self_done" /\ op[t] = "rename"
    /\ fault' = Deref(cur[t])
    /\ name' = IF cur[t] = NoThread THEN name ELSE [name EXCEPT ![cur[t]] = t]
    /\ pc' = [pc EXCEPT ![t] = "run"]
    /\ op' = [op EXCEPT ![t] = "none"]
    /\ cur' = [cur EXCEPT ![t] = NoThread]
    /\ UNCHANGED <<mem, thread_id, sys_thread, detached, library, mutex, handle,
                   client>>

\* thread_exit reads th->detached without the mutex.
ExitCheck(t) ==
    /\ pc[t] = "self_done" /\ op[t] = "exit"
    /\ fault' = IF cur[t] = NoThread THEN "none" ELSE Deref(cur[t])
    /\ pc' = [pc EXCEPT ![t] = IF cur[t] # NoThread /\ detached[cur[t]]
                               THEN "reap_lock" ELSE "exit"]
    /\ UNCHANGED <<records, library, mutex, op, cur, handle, client>>

-----------------------------------------------------------------------------
(* thread_join, and the removal it shares with the end of a detached thread *)

thread_join(p, t) ==
    /\ Running(p)
    /\ owner[t] = p
    /\ fault' = Deref(t)
    /\ owner' = [owner EXCEPT ![t] = NoThread]
    /\ cur' = [cur EXCEPT ![p] = t]
    /\ op' = [op EXCEPT ![p] = "join"]
    /\ pc' = [pc EXCEPT ![p] = "join_wait"]
    /\ UNCHANGED <<records, library, mutex, handle, inits, calls>>

\* pthread_join returns once the thread that has the handle ended.  From here
\* on the handle may be reused, but the record is still in the tree.
JoinWait(p) ==
    /\ pc[p] = "join_wait"
    /\ \E t \in Threads :
        /\ pc[t] = "exited" /\ handle[t] = sys_thread[cur[p]]
        /\ pc' = [pc EXCEPT ![t] = "gone", ![p] = "reap_lock"]
    /\ UNCHANGED <<records, library, mutex, op, cur, handle, client, fault>>

ReapLock(t) == Acquire(t, "reap_lock", "reap_delete")

\* Mutant of ReapDelete: avl_delete is called without _free_thread.
ReapDeleteKeeps(t) ==
    /\ pc[t] = "reap_delete"
    /\ threadtree' = {r \in threadtree : thread_id[r] # thread_id[cur[t]]}
    /\ mutex' = NoThread
    /\ pc' = [pc EXCEPT ![t] = IF op[t] = "join" THEN "run" ELSE "exit"]
    /\ op' = [op EXCEPT ![t] = "none"]
    /\ cur' = [cur EXCEPT ![t] = NoThread]
    /\ UNCHANGED <<records, up, next_thread_id, handle, client, fault>>

\* avl_delete compares ids: it takes out and frees the record of the tree whose
\* id is that of the record pointed to (none: nothing happens).
ReapDelete(t) ==
    /\ pc[t] = "reap_delete"
    /\ LET found == {r \in threadtree : thread_id[r] = thread_id[cur[t]]} IN
        /\ threadtree' = threadtree \ found
        /\ mem' = [r \in Threads |-> IF r \in found THEN "freed" ELSE mem[r]]
    /\ fault' = Deref(cur[t])
    /\ mutex' = NoThread
    /\ pc' = [pc EXCEPT ![t] = IF op[t] = "join" THEN "run" ELSE "exit"]
    /\ op' = [op EXCEPT ![t] = "none"]
    /\ cur' = [cur EXCEPT ![t] = NoThread]
    /\ UNCHANGED <<thread_id, sys_thread, detached, name, up, next_thread_id,
                   handle, client>>

\* The thread ends, by pthread_exit or by returning from _start_routine.
ThreadEnd(t) ==
    /\ pc[t] = "exit"
    /\ pc' = [pc EXCEPT ![t] = IF PthreadDetached(t) THEN "gone" ELSE "exited"]
    /\ UNCHANGED <<records, library, mutex, op, cur, handle, client, fault>>

-----------------------------------------------------------------------------
\* The program may stop here: no thread is in the middle of a call.
Idle ==
    /\ \A t \in Threads : pc[t] \in {"none", "run", "exited", "gone"}
    /\ UNCHANGED vars

\* What a thread does once it is in the library.
Step(t) == \/ CreateLock(t) \/ CreateId(t) \/ CreateSpawn(t) \/ CreateFail(t)
           \/ StartLock(t) \/ StartInsert(t)
           \/ SelfLock(t) \/ SelfScan(t) \/ SelfReturn(t) \/ Rename(t)
           \/ ExitCheck(t) \/ JoinWait(t) \/ ReapLock(t) \/ ReapDelete(t)
           \/ ThreadEnd(t)

\* What the client chooses to call.
Call(t) == \/ \E u \in Threads, d \in BOOLEAN : thread_create_c(t, u, d)
           \/ \E u \in Threads : thread_join(t, u)
           \/ StartReturn(t)
           \/ thread_self(t) \/ thread_rename(t) \/ thread_exit_c(t)

Next == /\ fault = "none"
        /\ \/ \E t \in Threads : Step(t) \/ Call(t)
           \/ thread_initialize
           \/ thread_shutdown
           \/ Idle

\* A thread inside the library keeps running; the client's calls are its own
\* choice.  pthread mutexes are not fair, so no strong fairness of the locks.
Fairness == \A t \in Threads : WF_vars(fault = "none" /\ Step(t))

Spec == Init /\ [][Next]_vars
FairSpec == Spec /\ Fairness

-----------------------------------------------------------------------------
(* Properties                                                              *)

\* No step reads a record after _free_thread freed it, nor through a NULL
\* pointer: avl_delete, thread_rename, thread_exit and the walk of thread_self
\* only meet records that are allocated.
NoFault == fault = "none"

\* thread_self returns the caller's own record.  It finds it by pthread_t, and
\* thread_exit and thread_rename trust the answer.
SelfIsOwn == \A t \in Threads : pc[t] = "self_done" => cur[t] = t

\* "renames current thread" (thread.h): the name in a record is the one its own
\* thread was created with or gave itself.
RenamesCurrentThread == \A t \in Threads : mem[t] = "live" => name[t] = t

\* Two records of the tree never have the same id: _compare_threads orders the
\* tree by it, and avl_delete would otherwise free the wrong record.
UniqueIds == \A r, q \in threadtree : thread_id[r] = thread_id[q] => r = q

\* No record is lost: an allocated record is in the tree, or still in the hands
\* of the thread that is about to put it there.  thread_shutdown then leaves
\* none behind.
NoLeak == \A r \in Threads : mem[r] = "live" =>
    \/ r \in threadtree
    \/ pc[r] \in {"start_lock", "start_insert"}
    \/ \E p \in Threads : /\ pc[p] \in {"create_lock", "create_id", "create_spawn"}
                          /\ cur[p] = r

\* The pointer that thread_create returned for an attached thread stays valid
\* until thread_join was called with it.
OwnedIsLive == \A t \in Threads : owner[t] # NoThread => mem[t] = "live"

\* _next_thread_id only grows, and the id of a record never changes while the
\* record is in the tree: reordering keys in place would break the tree.
StableIds == [][/\ next_thread_id' >= next_thread_id
                /\ \A r \in threadtree \cap threadtree' :
                      thread_id'[r] = thread_id[r]]_vars

\* A thread that ended does not stay in the registry: once a detached thread
\* returned or called thread_exit, and once an attached one ended while another
\* thread is in thread_join for it, its record is eventually freed.
EventuallyReaped == \A t, r \in Threads :
    (/\ cur[t] = r
     /\ pc[t] = "reap_lock" \/ (pc[t] = "join_wait" /\ pc[r] = "exited"))
        ~> (mem[r] = "freed")
=============================================================================
