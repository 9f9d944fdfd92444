------------------------ MODULE ThreadRegistryProofs ------------------------
(***************************************************************************)
(* Proofs about ThreadRegistry, for any number of threads and handles and  *)
(* any bounds.                                                             *)
(***************************************************************************)
EXTENDS ThreadRegistry, TLAPS

-----------------------------------------------------------------------------
(* The inductive invariant                                                 *)

Creating == {"create_lock", "create_id", "create_spawn"}
Starting == {"start_lock", "start_insert"}
Reaping  == {"reap_lock", "reap_delete"}
\* Between the insertion of its record and the end of the thread.
Active   == Creating \cup Reaping \cup
            {"run", "self_lock", "self_scan", "self_done", "join_wait"}

\* A thread holds the mutex exactly where the code is between lock and unlock.
MutexInv == \A t \in Threads : pc[t] \in Critical <=> mutex = t

\* A record in thread_create_c belongs to one creator and to no thread yet.
CreateInv ==
    /\ \A p \in Threads : pc[p] \in Creating =>
          /\ cur[p] \in Threads
          /\ pc[cur[p]] = "none"
          /\ mem[cur[p]] = "live"
    /\ \A p, q \in Threads : pc[p] \in Creating /\ pc[q] \in Creating
                               /\ cur[p] = cur[q] => p = q

\* The records in the tree are allocated and belong to threads; a thread that
\* was never started has no record in the tree, and one that has not inserted
\* its record yet still has it.
TreeInv ==
    /\ \A r \in threadtree : mem[r] = "live" /\ pc[r] \notin {"none"} \cup Starting
    /\ \A t \in Threads : pc[t] \in Starting => mem[t] = "live"
    /\ \A t \in Threads : mem[t] = "unallocated" => pc[t] = "none"

\* While the library is up, an active thread is registered; after
\* thread_shutdown only the main thread is left.
UpInv ==
    /\ pc[Main] \notin {"none", "gone"} \cup Starting
    /\ up => \A t \in Threads : pc[t] \in Active => t \in threadtree
    /\ ~up => /\ threadtree = {}
              /\ pc[Main] = "run"
              /\ \A t \in Threads :
                    /\ t # Main => pc[t] \in {"none", "exited", "gone"}
                    /\ owner[t] = NoThread

\* What thread_self found carries the caller's handle.  It is the caller's own
\* record, or, if the handle was used before, that of a thread that is gone; a
\* detached record is still in the tree, for its thread is not there to remove it.
SelfInv ==
    \A t \in Threads : pc[t] = "self_done" =>
        /\ cur[t] \in Threads
        /\ pc[cur[t]] # "none"
        /\ sys_thread[cur[t]] = handle[t]
        /\ detached[cur[t]] => cur[t] \in threadtree

\* The record a thread is about to take out of the tree is there: one that
\* thread_self found for it, or that of an attached thread that it joined.
ReapInv ==
    \A t \in Threads : pc[t] \in Reaping =>
        /\ cur[t] \in threadtree
        /\ op[t] = "join" => pc[cur[t]] = "gone" /\ ~detached[cur[t]]
        /\ op[t] # "join" => sys_thread[cur[t]] = handle[t] /\ detached[cur[t]]

\* The thread in thread_join waits for an attached thread that nobody else can
\* join.
JoinInv ==
    /\ \A p \in Threads : pc[p] = "join_wait" =>
          /\ op[p] = "join"
          /\ cur[p] \in Threads \ {Main}
          /\ ~detached[cur[p]]
          /\ pc[cur[p]] \notin {"none", "gone"}
          /\ mem[cur[p]] = "live"
          /\ owner[cur[p]] = NoThread
    /\ \A p, q \in Threads : pc[p] \in Reaping \cup {"join_wait"}
                               /\ pc[q] \in Reaping \cup {"join_wait"}
                               /\ cur[p] = cur[q] => p = q

\* Likewise for the threads whose pointer the client still holds.
OwnerInv ==
    \A t \in Threads : owner[t] # NoThread =>
        /\ t # Main
        /\ ~detached[t]
        /\ pc[t] \notin {"none", "gone"}
        /\ mem[t] = "live"

\* The records that have their id.
Numbered(r) == \/ r \in threadtree
               \/ pc[r] \in Starting
               \/ \E p \in Threads : pc[p] = "create_spawn" /\ cur[p] = r

IdInv ==
    /\ \A r \in Threads : Numbered(r) => thread_id[r] < next_thread_id
    /\ \A r, q \in Threads : Numbered(r) /\ Numbered(q)
                               /\ thread_id[r] = thread_id[q] => r = q

\* A record carries its thread's handle, and no two threads have the same one
\* unless one of them is gone.
Present(t) == pc[t] \notin {"none", "gone"}
HandleInv ==
    /\ \A t \in Threads : pc[t] # "none" => sys_thread[t] = handle[t]
    /\ \A t, u \in Threads : Present(t) /\ Present(u) /\ handle[t] = handle[u]
                                 => t = u

\* The invariant of the registry, whether or not handles are reused.
RegistryInv ==
    /\ TypeOK /\ MutexInv /\ CreateInv /\ TreeInv /\ UpInv /\ NoLeak
    /\ SelfInv /\ ReapInv /\ JoinInv /\ OwnerInv /\ IdInv /\ HandleInv

\* What holds besides if they are not: a handle belongs to one thread for good, so
\* thread_self finds the caller's record.
DistinctHandles ==
    \A t, u \in Threads : pc[t] # "none" /\ pc[u] # "none" /\ handle[t] = handle[u]
                             => t = u
NameInv == \A r \in Threads : name[r] = r
LookupInv == NoFault /\ DistinctHandles /\ NameInv

-----------------------------------------------------------------------------
(* Every step keeps RegistryInv                                            *)

\* thread_initialize: only the main thread is left, and its new record is the
\* only one in the tree.
LEMMA InitializeStep ==
    ASSUME RegistryInv, thread_initialize
    PROVE  RegistryInv'
<1>1. TypeOK'
  BY ThreadsAssumption DEF RegistryInv, TypeOK, PCs, Ops, thread_initialize,
         records, library, locals, client
<1>2. MutexInv' /\ IdInv'
  BY ThreadsAssumption DEF RegistryInv, TypeOK, MutexInv, IdInv, Critical,
         Numbered, Starting, thread_initialize, records, library, locals,
         client
<1>3. CreateInv' /\ TreeInv'
  BY ThreadsAssumption DEF RegistryInv, TypeOK, CreateInv, TreeInv, Creating,
         Starting, thread_initialize, records, library, locals, client
<1>4. UpInv'
  BY ThreadsAssumption DEF RegistryInv, TypeOK, UpInv, Active, Creating,
         Starting, Reaping, thread_initialize, records, library, locals,
         client
<1>5. NoLeak' /\ SelfInv' /\ HandleInv'
  BY ThreadsAssumption DEF RegistryInv, TypeOK, NoLeak, SelfInv, HandleInv,
         UpInv, Present, Active, Creating, Starting, Reaping,
         thread_initialize, records, library, locals, client
<1>6. ReapInv' /\ JoinInv'
  BY ThreadsAssumption DEF RegistryInv, TypeOK, ReapInv, JoinInv, UpInv,
         Reaping, Active, Creating, Starting, thread_initialize, records,
         library, locals, client
<1>7. OwnerInv'
  BY ThreadsAssumption DEF RegistryInv, TypeOK, OwnerInv, UpInv, Active,
         Creating, Starting, Reaping, thread_initialize, records, library,
         locals, client
<1> QED
  BY <1>1, <1>2, <1>3, <1>4, <1>5, <1>6, <1>7 DEF RegistryInv

\* thread_shutdown: every record still allocated is in the tree and is freed
\* with it.
LEMMA ShutdownStep ==
    ASSUME RegistryInv, thread_shutdown
    PROVE  RegistryInv'
<1>1. TypeOK'
  BY ThreadsAssumption DEF RegistryInv, TypeOK, PCs, Ops, thread_shutdown,
         MayShutdown, records, library, locals, client
<1>2. MutexInv' /\ CreateInv' /\ IdInv' /\ HandleInv'
  BY ThreadsAssumption DEF RegistryInv, TypeOK, MutexInv, CreateInv, IdInv,
         HandleInv, Critical, Creating, Numbered, Starting, Present,
         thread_shutdown, MayShutdown, records, library, locals, client
<1>3. TreeInv' /\ UpInv' /\ NoLeak'
  BY ThreadsAssumption DEF RegistryInv, TypeOK, TreeInv, UpInv, NoLeak,
         CreateInv, Starting, Active, Creating, Reaping, thread_shutdown,
         MayShutdown, records, library, locals, client
<1>4. SelfInv' /\ ReapInv'
  BY ThreadsAssumption DEF RegistryInv, TypeOK, SelfInv, ReapInv, UpInv,
         Reaping, Active, Creating, Starting, thread_shutdown, MayShutdown,
         records, library, locals, client
<1>5. JoinInv' /\ OwnerInv'
  BY ThreadsAssumption DEF RegistryInv, TypeOK, JoinInv, OwnerInv, UpInv,
         Reaping, Active, Creating, Starting, thread_shutdown, MayShutdown,
         records, library, locals, client
<1> QED
  BY <1>1, <1>2, <1>3, <1>4, <1>5 DEF RegistryInv

\* thread_create_c allocates a record that no thread and no creator has.
LEMMA CreateCallStep ==
    ASSUME RegistryInv, NEW t \in Threads, NEW u \in Threads, NEW d \in BOOLEAN,
           thread_create_c(t, u, d)
    PROVE  RegistryInv'
<1>1. TypeOK'
  BY ThreadsAssumption DEF RegistryInv, TypeOK, PCs, Ops, thread_create_c,
         Running, records, library, locals, client
<1>2. MutexInv' /\ UpInv' /\ SelfInv' /\ ReapInv' /\ IdInv' /\ HandleInv'
  BY ThreadsAssumption DEF RegistryInv, TypeOK, MutexInv, UpInv, SelfInv,
         ReapInv, IdInv, HandleInv, Critical, Active, Creating, Starting,
         Reaping, Numbered, Present, thread_create_c, Running, records,
         library, locals, client
<1>3. CreateInv'
  BY ThreadsAssumption DEF RegistryInv, TypeOK, CreateInv, TreeInv, Creating,
         Starting, thread_create_c, Running, records, library, locals, client
<1>4. NoLeak' /\ TreeInv'
  BY ThreadsAssumption DEF RegistryInv, TypeOK, NoLeak, TreeInv, CreateInv,
         Starting, Creating, thread_create_c, Running, records, library,
         locals, client
<1>5. JoinInv' /\ OwnerInv'
  BY ThreadsAssumption DEF RegistryInv, TypeOK, JoinInv, OwnerInv, Reaping,
         thread_create_c, Running, records, library, locals, client
<1> QED
  BY <1>1, <1>2, <1>3, <1>4, <1>5 DEF RegistryInv

\* Taking the mutex in thread_create_c.
LEMMA CreateLockStep ==
    ASSUME RegistryInv, NEW t \in Threads, CreateLock(t)
    PROVE  RegistryInv'
<1>1. TypeOK'
  BY ThreadsAssumption DEF RegistryInv, TypeOK, PCs, Ops, CreateLock, Acquire,
         records, library, locals, client
<1>2. MutexInv' /\ CreateInv' /\ TreeInv' /\ UpInv' /\ NoLeak' /\ SelfInv' /\
      ReapInv' /\ JoinInv' /\ OwnerInv' /\ IdInv' /\ HandleInv'
  BY ThreadsAssumption DEF RegistryInv, TypeOK, MutexInv, CreateInv, TreeInv,
         UpInv, NoLeak, SelfInv, ReapInv, JoinInv, OwnerInv, IdInv, HandleInv,
         Critical, Creating, Starting, Active, Reaping, Numbered, Present,
         CreateLock, Acquire, records, library, locals, client
<1> QED
  BY <1>1, <1>2 DEF RegistryInv

\* The new id is above all ids in use.
LEMMA CreateIdStep ==
    ASSUME RegistryInv, NEW t \in Threads, CreateId(t)
    PROVE  RegistryInv'
<1>1. MutexInv' /\ CreateInv' /\ TreeInv' /\ UpInv' /\ NoLeak' /\ SelfInv' /\
      ReapInv' /\ JoinInv' /\ OwnerInv' /\ HandleInv'
  BY ThreadsAssumption DEF RegistryInv, TypeOK, MutexInv, CreateInv, TreeInv,
         UpInv, NoLeak, SelfInv, ReapInv, JoinInv, OwnerInv, HandleInv,
         Critical, Creating, Starting, Active, Reaping, Present, CreateId,
         records, library, locals, client
<1>2. TypeOK'
  BY ThreadsAssumption DEF RegistryInv, TypeOK, CreateInv, PCs, Ops, Creating,
         CreateId, records, library, locals, client
<1>3. IdInv'
  BY ThreadsAssumption DEF RegistryInv, TypeOK, IdInv, CreateInv, Numbered,
         Starting, Creating, CreateId, records, library, locals, client
<1> QED
  BY <1>1, <1>2, <1>3 DEF RegistryInv

\* pthread_create starts the thread of the record: it gets a handle
\* that no thread has unless that is gone.
LEMMA CreateSpawnStep ==
    ASSUME RegistryInv, NEW t \in Threads, CreateSpawn(t)
    PROVE  RegistryInv'
<1> DEFINE u == cur[t]
<1>1. PICK h \in FreshHandles :
        /\ detached' = [detached EXCEPT ![u] = op[t] = "create_detached"]
        /\ handle' = [handle EXCEPT ![u] = h]
        /\ sys_thread' = [sys_thread EXCEPT ![u] = h]
        /\ owner' = IF op[t] = "create" THEN [owner EXCEPT ![u] = t] ELSE owner
        /\ pc' = [pc EXCEPT ![u] = "start_lock", ![t] = "run"]
        /\ op' = [op EXCEPT ![t] = "none"]
        /\ cur' = [cur EXCEPT ![t] = NoThread]
        /\ UNCHANGED <<mem, thread_id, name, library, mutex, inits, calls, fault>>
  BY DEF CreateSpawn
<1>2. /\ pc[t] = "create_spawn" /\ u \in Threads /\ u # t
      /\ pc[u] = "none" /\ mem[u] = "live"
  BY DEF RegistryInv, CreateInv, Creating, CreateSpawn
<1>3. h \in Handles /\ \A v \in Threads : Present(v) => handle[v] # h
  BY <1>1 DEF FreshHandles, Present
<1>4. TypeOK'
  BY <1>1, <1>2, <1>3 DEF RegistryInv, TypeOK, PCs, Ops, library
<1>5. MutexInv' /\ CreateInv' /\ TreeInv' /\ SelfInv'
  <2>1. MutexInv' /\ SelfInv'
    BY <1>1, <1>2 DEF RegistryInv, TypeOK, MutexInv, SelfInv, Critical, library
  <2>2. CreateInv'
    BY <1>1, <1>2 DEF RegistryInv, TypeOK, CreateInv, Creating
  <2>3. TreeInv'
    BY <1>1, <1>2 DEF RegistryInv, TypeOK, TreeInv, Starting, library
  <2> QED
    BY <2>1, <2>2, <2>3
<1>6. UpInv'
  BY <1>1, <1>2, ThreadsAssumption
     DEF RegistryInv, TypeOK, UpInv, Active, Creating, Starting, Reaping, library
<1>7. NoLeak'
  <2>1. SUFFICES ASSUME NEW r \in Threads, mem[r] = "live", r \notin threadtree,
                        r # u
                 PROVE  \/ pc'[r] \in {"start_lock", "start_insert"}
                        \/ \E p \in Threads :
                              /\ pc'[p] \in {"create_lock", "create_id", "create_spawn"}
                              /\ cur'[p] = r
    <3>1. pc'[u] = "start_lock" /\ UNCHANGED <<mem, threadtree>>
      BY <1>1, <1>2 DEF RegistryInv, TypeOK, library
    <3> QED
      BY <3>1 DEF NoLeak
  <2>2. CASE pc[r] \in {"start_lock", "start_insert"}
    <3>1. pc'[r] = pc[r]
      BY <1>1, <1>2, <2>1, <2>2 DEF RegistryInv, TypeOK
    <3> QED
      BY <2>2, <3>1
  <2>3. CASE \E p \in Threads :
                /\ pc[p] \in {"create_lock", "create_id", "create_spawn"}
                /\ cur[p] = r
    <3>1. PICK p \in Threads : /\ pc[p] \in {"create_lock", "create_id", "create_spawn"}
                               /\ cur[p] = r
      BY <2>3
    <3>2. p # t /\ p # u
      BY <1>2, <2>1, <3>1
    <3> QED
      BY <1>1, <1>2, <3>1, <3>2 DEF RegistryInv, TypeOK
  <2> QED
    BY <2>1, <2>2, <2>3 DEF RegistryInv, NoLeak
<1>8. ReapInv' /\ JoinInv' /\ OwnerInv'
  <2>1. \A v \in Threads : v # u => detached'[v] = detached[v] /\ owner'[v] = owner[v]
    BY <1>1, <1>2 DEF RegistryInv, TypeOK
  <2>2. \A v \in Threads : v # u /\ v # t =>
            pc'[v] = pc[v] /\ op'[v] = op[v] /\ cur'[v] = cur[v]
    BY <1>1, <1>2 DEF RegistryInv, TypeOK
  <2>3. pc'[u] = "start_lock" /\ pc'[t] = "run"
    BY <1>1, <1>2 DEF RegistryInv, TypeOK
  <2>4. owner'[u] # NoThread => ~detached'[u]
    BY <1>1, <1>2 DEF RegistryInv, TypeOK, OwnerInv
  <2>5. ReapInv'
    BY <1>1, <1>2, <2>1, <2>2, <2>3 DEF RegistryInv, TypeOK, ReapInv, TreeInv, Reaping, library
  <2>6. JoinInv'
    BY <1>1, <1>2, <2>1, <2>2, <2>3 DEF RegistryInv, TypeOK, JoinInv, Reaping
  <2>7. OwnerInv'
    BY <1>1, <1>2, <2>1, <2>2, <2>3, <2>4 DEF RegistryInv, TypeOK, OwnerInv, UpInv
  <2> QED
    BY <2>5, <2>6, <2>7
<1>9. IdInv'
  <2>1. \A r \in Threads : Numbered(r)' => Numbered(r)
    BY <1>1, <1>2 DEF RegistryInv, TypeOK, Numbered, Starting, library
  <2> QED
    BY <1>1, <2>1 DEF RegistryInv, IdInv, library
<1>10. HandleInv'
  BY <1>1, <1>2, <1>3 DEF RegistryInv, TypeOK, HandleInv, Present
<1> QED
  BY <1>4, <1>5, <1>6, <1>7, <1>8, <1>9, <1>10 DEF RegistryInv

\* A failed pthread_create frees a record that nobody else knows.
LEMMA CreateFailStep ==
    ASSUME RegistryInv, NEW t \in Threads, CreateFail(t)
    PROVE  RegistryInv'
<1>1. TypeOK'
  BY ThreadsAssumption DEF RegistryInv, TypeOK, PCs, Ops, CreateFail, records,
         library, locals, client
<1>2. MutexInv' /\ CreateInv' /\ UpInv' /\ NoLeak' /\ SelfInv' /\ ReapInv' /\
      IdInv' /\ HandleInv'
  BY ThreadsAssumption DEF RegistryInv, TypeOK, MutexInv, CreateInv, UpInv,
         NoLeak, SelfInv, ReapInv, IdInv, HandleInv, Critical, Creating,
         Active, Starting, Reaping, Numbered, Present, CreateFail, records,
         library, locals, client
<1>3. TreeInv'
  BY ThreadsAssumption DEF RegistryInv, TypeOK, TreeInv, CreateInv, Starting,
         Creating, CreateFail, records, library, locals, client
<1>4. JoinInv'
  BY ThreadsAssumption DEF RegistryInv, TypeOK, JoinInv, CreateInv, Reaping,
         Creating, CreateFail, records, library, locals, client
<1>5. OwnerInv'
  BY ThreadsAssumption DEF RegistryInv, TypeOK, OwnerInv, CreateInv, Creating,
         CreateFail, records, library, locals, client
<1> QED
  BY <1>1, <1>2, <1>3, <1>4, <1>5 DEF RegistryInv

\* Taking the mutex in _start_routine.
LEMMA StartLockStep ==
    ASSUME RegistryInv, NEW t \in Threads, StartLock(t)
    PROVE  RegistryInv'
<1>1. TypeOK'
  BY ThreadsAssumption DEF RegistryInv, TypeOK, PCs, Ops, StartLock, Acquire,
         records, library, locals, client
<1>2. MutexInv' /\ CreateInv' /\ TreeInv' /\ UpInv' /\ NoLeak' /\ SelfInv' /\
      ReapInv' /\ JoinInv' /\ OwnerInv' /\ IdInv' /\ HandleInv'
  BY ThreadsAssumption DEF RegistryInv, TypeOK, MutexInv, CreateInv, TreeInv,
         UpInv, NoLeak, SelfInv, ReapInv, JoinInv, OwnerInv, IdInv, HandleInv,
         Critical, Creating, Starting, Active, Reaping, Numbered, Present,
         StartLock, Acquire, records, library, locals, client
<1> QED
  BY <1>1, <1>2 DEF RegistryInv

\* The insertion of the thread's own record.
LEMMA StartInsertStep ==
    ASSUME RegistryInv, NEW t \in Threads, StartInsert(t)
    PROVE  RegistryInv'
<1>1. TypeOK'
  BY ThreadsAssumption DEF RegistryInv, TypeOK, PCs, Ops, StartInsert, Deref,
         records, library, locals, client
<1>2. MutexInv' /\ CreateInv' /\ TreeInv' /\ UpInv' /\ NoLeak' /\ SelfInv' /\
      ReapInv' /\ JoinInv' /\ OwnerInv' /\ IdInv' /\ HandleInv'
  BY ThreadsAssumption DEF RegistryInv, TypeOK, MutexInv, CreateInv, TreeInv,
         UpInv, NoLeak, SelfInv, ReapInv, JoinInv, OwnerInv, IdInv, HandleInv,
         Critical, Creating, Starting, Active, Reaping, Numbered, Present,
         StartInsert, Deref, records, library, locals, client
<1> QED
  BY <1>1, <1>2 DEF RegistryInv

\* The start routine returns.
LEMMA StartReturnStep ==
    ASSUME RegistryInv, NEW t \in Threads, StartReturn(t)
    PROVE  RegistryInv'
<1>1. /\ pc[t] = "run" /\ up /\ t # Main /\ t \in threadtree
      /\ UNCHANGED <<records, library, mutex, handle, client>>
  BY DEF RegistryInv, UpInv, Active, StartReturn, Running
<1>2. /\ pc'[t] \in {"reap_lock", "exit"}
      /\ pc'[t] = "reap_lock" => detached[t] /\ op'[t] = "return" /\ cur'[t] = t
      /\ \A u \in Threads \ {t} : pc'[u] = pc[u] /\ op'[u] = op[u] /\ cur'[u] = cur[u]
  <2>1. CASE detached[t]
    BY <2>1 DEF RegistryInv, TypeOK, StartReturn
  <2>2. CASE ~detached[t]
    BY <2>2 DEF RegistryInv, TypeOK, StartReturn
  <2> QED
    BY <2>1, <2>2
<1>3. TypeOK'
  <2>1. fault' \in {"none", "freed", "null"}
    BY DEF StartReturn, Deref
  <2>2. /\ pc' \in [Threads -> PCs] /\ op' \in [Threads -> Ops]
        /\ cur' \in [Threads -> Threads \cup {NoThread}]
    BY DEF RegistryInv, TypeOK, PCs, Ops, StartReturn
  <2> QED
    BY <1>1, <2>1, <2>2 DEF RegistryInv, TypeOK, records, library, client
<1>4. MutexInv' /\ TreeInv' /\ UpInv'
  <2>1. MutexInv' /\ TreeInv'
    BY <1>1, <1>2 DEF RegistryInv, TypeOK, MutexInv, TreeInv, Critical, Starting,
                      records, library
  <2>2. UpInv /\ pc \in [Threads -> PCs]
    BY DEF RegistryInv, TypeOK
  <2>3. pc'[Main] = pc[Main] /\ up' /\ threadtree' = threadtree
    BY <1>1, <1>2, ThreadsAssumption DEF library
  <2>4. \A u \in Threads : pc'[u] \in Active => u = t \/ pc[u] \in Active
    BY <1>2
  <2> QED
    BY <1>1, <2>1, <2>2, <2>3, <2>4 DEF UpInv
<1>5. CreateInv' /\ NoLeak'
  <2>1. CreateInv'
    <3>1. CreateInv /\ \A p \in Threads : pc'[p] \in Creating => p # t
      BY <1>2 DEF RegistryInv, Creating
    <3>2. \A p \in Threads : pc[p] = "none" => p # t
      BY <1>1
    <3> QED
      BY <1>1, <1>2, <3>1, <3>2 DEF CreateInv, Creating, records
  <2>2. NoLeak'
    BY <1>1, <1>2 DEF RegistryInv, TypeOK, NoLeak, records, library
  <2> QED
    BY <2>1, <2>2
<1>6. SelfInv' /\ OwnerInv' /\ HandleInv'
  <2>1. SelfInv'
    BY <1>1, <1>2 DEF RegistryInv, TypeOK, SelfInv, records, library
  <2>2. OwnerInv'
    BY <1>1, <1>2 DEF RegistryInv, TypeOK, OwnerInv, records, client
  <2>3. HandleInv'
    BY <1>1, <1>2 DEF RegistryInv, TypeOK, HandleInv, Present, records
  <2> QED
    BY <2>1, <2>2, <2>3
<1>7. ReapInv'
  BY <1>1, <1>2
     DEF RegistryInv, TypeOK, ReapInv, HandleInv, Reaping, records, library
<1>8. JoinInv'
  <2>1. ASSUME NEW p \in Threads \ {t}, pc[p] \in Reaping \cup {"join_wait"}
        PROVE  cur[p] # t \/ pc'[t] # "reap_lock"
    BY <1>1, <1>2, <2>1
       DEF RegistryInv, TypeOK, JoinInv, ReapInv, HandleInv, Present, Reaping
  <2> QED
    BY <1>1, <1>2, <2>1 DEF RegistryInv, TypeOK, JoinInv, Reaping, records, client
<1>9. IdInv'
  <2>1. \A r \in Threads : Numbered(r)' => Numbered(r)
    BY <1>1, <1>2 DEF RegistryInv, TypeOK, Numbered, Starting, library
  <2> QED
    BY <1>1, <2>1 DEF RegistryInv, IdInv, records, library
<1> QED
  BY <1>3, <1>4, <1>5, <1>6, <1>7, <1>8, <1>9 DEF RegistryInv

\* Taking the mutex in thread_self.
LEMMA SelfLockStep ==
    ASSUME RegistryInv, NEW t \in Threads, SelfLock(t)
    PROVE  RegistryInv'
<1>1. TypeOK'
  BY ThreadsAssumption DEF RegistryInv, TypeOK, PCs, Ops, SelfLock, Acquire,
         records, library, locals, client
<1>2. MutexInv' /\ NoLeak' /\ SelfInv' /\ IdInv' /\ HandleInv'
  BY ThreadsAssumption DEF RegistryInv, TypeOK, MutexInv, NoLeak, SelfInv,
         IdInv, HandleInv, Critical, Numbered, Starting, Present, SelfLock,
         Acquire, records, library, locals, client
<1>3. CreateInv' /\ TreeInv' /\ UpInv'
  BY ThreadsAssumption DEF RegistryInv, TypeOK, CreateInv, TreeInv, UpInv,
         Creating, Starting, Active, Reaping, SelfLock, Acquire, records,
         library, locals, client
<1>4. ReapInv' /\ JoinInv' /\ OwnerInv'
  BY ThreadsAssumption DEF RegistryInv, TypeOK, ReapInv, JoinInv, OwnerInv,
         Reaping, SelfLock, Acquire, records, library, locals, client
<1> QED
  BY <1>1, <1>2, <1>3, <1>4 DEF RegistryInv

\* The walk finds the caller's record, or one with its handle before it.
LEMMA SelfScanStep ==
    ASSUME RegistryInv, NEW t \in Threads, SelfScan(t)
    PROVE  RegistryInv'
<1>1. TypeOK'
  BY ThreadsAssumption DEF RegistryInv, TypeOK, PCs, Ops, SelfScan, Carrying,
         Deref, records, library, locals, client
<1>2. MutexInv' /\ TreeInv' /\ UpInv' /\ HandleInv'
  BY ThreadsAssumption DEF RegistryInv, TypeOK, MutexInv, TreeInv, UpInv,
         HandleInv, Critical, Starting, Active, Creating, Reaping, Present,
         SelfScan, Carrying, Deref, records, library, locals, client
<1>3. CreateInv'
  BY ThreadsAssumption DEF RegistryInv, TypeOK, CreateInv, Creating, SelfScan,
         Carrying, Deref, records, library, locals, client
<1>4. NoLeak'
  BY ThreadsAssumption DEF RegistryInv, TypeOK, NoLeak, SelfScan, Carrying,
         Deref, records, library, locals, client
<1>5. IdInv'
  BY ThreadsAssumption DEF RegistryInv, TypeOK, IdInv, Numbered, Starting,
         SelfScan, Carrying, Deref, records, library, locals, client
<1>6. ReapInv' /\ JoinInv' /\ OwnerInv'
  BY ThreadsAssumption DEF RegistryInv, TypeOK, ReapInv, JoinInv, OwnerInv,
         Reaping, SelfScan, Carrying, Deref, records, library, locals, client
<1>7. SelfInv'
  BY ThreadsAssumption DEF RegistryInv, TypeOK, SelfInv, TreeInv, UpInv,
         HandleInv, Starting, Active, Creating, Reaping, Present, SelfScan,
         Carrying, Deref, records, library, locals, client
<1> QED
  BY <1>1, <1>2, <1>3, <1>4, <1>5, <1>6, <1>7 DEF RegistryInv

\* thread_self returns.
LEMMA SelfReturnStep ==
    ASSUME RegistryInv, NEW t \in Threads, SelfReturn(t)
    PROVE  RegistryInv'
<1>1. TypeOK'
  BY ThreadsAssumption DEF RegistryInv, TypeOK, PCs, Ops, SelfReturn, records,
         library, locals, client
<1>2. MutexInv' /\ CreateInv' /\ TreeInv' /\ UpInv' /\ NoLeak' /\ SelfInv' /\
      ReapInv' /\ JoinInv' /\ OwnerInv' /\ IdInv' /\ HandleInv'
  BY ThreadsAssumption DEF RegistryInv, TypeOK, MutexInv, CreateInv, TreeInv,
         UpInv, NoLeak, SelfInv, ReapInv, JoinInv, OwnerInv, IdInv, HandleInv,
         Critical, Creating, Starting, Active, Reaping, Numbered, Present,
         SelfReturn, records, library, locals, client
<1> QED
  BY <1>1, <1>2 DEF RegistryInv

\* thread_rename writes a name.
LEMMA RenameStep ==
    ASSUME RegistryInv, NEW t \in Threads, Rename(t)
    PROVE  RegistryInv'
<1>1. TypeOK'
  BY ThreadsAssumption DEF RegistryInv, TypeOK, PCs, Ops, Rename, Deref,
         records, library, locals, client
<1>2. MutexInv' /\ CreateInv' /\ TreeInv' /\ UpInv' /\ NoLeak' /\ SelfInv' /\
      ReapInv' /\ JoinInv' /\ OwnerInv' /\ IdInv' /\ HandleInv'
  BY ThreadsAssumption DEF RegistryInv, TypeOK, MutexInv, CreateInv, TreeInv,
         UpInv, NoLeak, SelfInv, ReapInv, JoinInv, OwnerInv, IdInv, HandleInv,
         Critical, Creating, Starting, Active, Reaping, Numbered, Present,
         Rename, Deref, records, library, locals, client
<1> QED
  BY <1>1, <1>2 DEF RegistryInv

\* thread_exit goes on to remove the record that it found, if it is detached.
LEMMA ExitCheckStep ==
    ASSUME RegistryInv, NEW t \in Threads, ExitCheck(t)
    PROVE  RegistryInv'
<1>1. TypeOK'
  BY ThreadsAssumption DEF RegistryInv, TypeOK, PCs, Ops, ExitCheck, Deref,
         records, library, locals, client
<1>2. MutexInv' /\ CreateInv' /\ TreeInv' /\ UpInv' /\ NoLeak' /\ SelfInv' /\
      OwnerInv' /\ IdInv' /\ HandleInv'
  BY ThreadsAssumption DEF RegistryInv, TypeOK, MutexInv, CreateInv, TreeInv,
         UpInv, NoLeak, SelfInv, OwnerInv, IdInv, HandleInv, Critical,
         Creating, Starting, Active, Reaping, Numbered, Present, ExitCheck,
         Deref, records, library, locals, client
<1>3. ReapInv'
  BY ThreadsAssumption DEF RegistryInv, TypeOK, ReapInv, SelfInv, Reaping,
         ExitCheck, Deref, records, library, locals, client
<1>4. JoinInv'
  BY ThreadsAssumption, SMTT(30) DEF RegistryInv, TypeOK, JoinInv, SelfInv,
         ReapInv, HandleInv, TreeInv, Reaping, Present, Starting, ExitCheck,
         Deref, records, library, locals, client
<1> QED
  BY <1>1, <1>2, <1>3, <1>4 DEF RegistryInv

\* pthread_join returns for the thread waited for, which is not gone.
LEMMA JoinWaitStep ==
    ASSUME RegistryInv, NEW t \in Threads, JoinWait(t)
    PROVE  RegistryInv'
<1> DEFINE u == cur[t]
<1>1. /\ pc[t] = "join_wait" /\ u \in Threads /\ pc[u] = "exited" /\ u # t
      /\ pc' = [pc EXCEPT ![u] = "gone", ![t] = "reap_lock"]
      /\ UNCHANGED <<records, library, mutex, op, cur, handle, client, fault>>
  <2>1. u \in Threads /\ pc[u] \notin {"none", "gone"} /\ pc[t] = "join_wait"
    BY DEF RegistryInv, JoinInv, JoinWait
  <2>2. PICK v \in Threads :
          /\ pc[v] = "exited" /\ handle[v] = sys_thread[u]
          /\ pc' = [pc EXCEPT ![v] = "gone", ![t] = "reap_lock"]
    BY DEF JoinWait
  <2>3. v = u
    BY <2>1, <2>2 DEF RegistryInv, HandleInv, Present
  <2> QED
    BY <2>1, <2>2, <2>3 DEF JoinWait
<1>2. mem[u] = "live" /\ ~detached[u] /\ owner[u] = NoThread /\ op[t] = "join"
  BY <1>1 DEF RegistryInv, JoinInv
<1>3. u \in threadtree /\ u # Main /\ up
  <2>1. u \in threadtree
    BY <1>1, <1>2 DEF RegistryInv, NoLeak, CreateInv, Creating
  <2> QED
    BY <1>1, <2>1 DEF RegistryInv, UpInv, JoinInv
<1>4. TypeOK' /\ MutexInv' /\ TreeInv' /\ SelfInv'
  BY <1>1 DEF RegistryInv, TypeOK, MutexInv, TreeInv, SelfInv, PCs, Critical,
              Starting, records, library, client
<1>5. CreateInv' /\ OwnerInv' /\ HandleInv'
  <2>1. CreateInv'
    BY <1>1, <1>2 DEF RegistryInv, TypeOK, CreateInv, Creating, records
  <2>2. OwnerInv'
    BY <1>1, <1>2 DEF RegistryInv, TypeOK, OwnerInv, records, client
  <2>3. HandleInv'
    BY <1>1, <1>2 DEF RegistryInv, TypeOK, HandleInv, Present, records
  <2> QED
    BY <2>1, <2>2, <2>3
<1>6. UpInv'
  BY <1>1, <1>3, ThreadsAssumption
     DEF RegistryInv, TypeOK, UpInv, Active, Creating, Starting, Reaping, library, client
<1>7. NoLeak' /\ IdInv'
  <2>1. NoLeak'
    BY <1>1 DEF RegistryInv, TypeOK, NoLeak, records, library
  <2>2. \A r \in Threads : Numbered(r)' => Numbered(r)
    BY <1>1 DEF RegistryInv, TypeOK, Numbered, Starting, library
  <2>3. IdInv'
    BY <1>1, <2>2 DEF RegistryInv, IdInv, records, library
  <2> QED
    BY <2>1, <2>3
<1>8. ReapInv'
  BY <1>1, <1>2, <1>3 DEF RegistryInv, TypeOK, ReapInv, Reaping, records, library
<1>9. JoinInv'
  BY <1>1 DEF RegistryInv, TypeOK, JoinInv, Reaping, records, client
<1> QED
  BY <1>4, <1>5, <1>6, <1>7, <1>8, <1>9 DEF RegistryInv

\* Taking the mutex before avl_delete.
LEMMA ReapLockStep ==
    ASSUME RegistryInv, NEW t \in Threads, ReapLock(t)
    PROVE  RegistryInv'
<1>1. TypeOK'
  BY ThreadsAssumption DEF RegistryInv, TypeOK, PCs, Ops, ReapLock, Acquire,
         records, library, locals, client
<1>2. MutexInv' /\ CreateInv' /\ TreeInv' /\ UpInv' /\ NoLeak' /\ SelfInv' /\
      ReapInv' /\ JoinInv' /\ OwnerInv' /\ IdInv' /\ HandleInv'
  BY ThreadsAssumption DEF RegistryInv, TypeOK, MutexInv, CreateInv, TreeInv,
         UpInv, NoLeak, SelfInv, ReapInv, JoinInv, OwnerInv, IdInv, HandleInv,
         Critical, Creating, Starting, Active, Reaping, Numbered, Present,
         ReapLock, Acquire, records, library, locals, client
<1> QED
  BY <1>1, <1>2 DEF RegistryInv

\* Ids are unique, so avl_delete frees the record pointed to and no other.
LEMMA ReapDeleteStep ==
    ASSUME RegistryInv, NEW t \in Threads, ReapDelete(t)
    PROVE  RegistryInv'
<1>1. TypeOK'
  BY ThreadsAssumption DEF RegistryInv, TypeOK, PCs, Ops, ReapDelete, Deref,
         records, library, locals, client
<1>2. MutexInv' /\ TreeInv' /\ HandleInv'
  BY ThreadsAssumption DEF RegistryInv, TypeOK, MutexInv, TreeInv, HandleInv,
         Critical, Starting, Present, ReapDelete, Deref, records, library,
         locals, client
<1>3. CreateInv'
  BY ThreadsAssumption DEF RegistryInv, TypeOK, CreateInv, ReapInv, IdInv,
         TreeInv, Creating, Reaping, Numbered, Starting, ReapDelete, Deref,
         records, library, locals, client
<1>4. IdInv'
  BY ThreadsAssumption DEF RegistryInv, TypeOK, IdInv, Numbered, Starting,
         ReapDelete, Deref, records, library, locals, client
<1>5. NoLeak'
  BY ThreadsAssumption DEF RegistryInv, TypeOK, NoLeak, TreeInv, Starting,
         ReapDelete, Deref, records, library, locals, client
<1>6. UpInv'
  BY ThreadsAssumption DEF RegistryInv, TypeOK, UpInv, ReapInv, IdInv,
         HandleInv, TreeInv, Active, Creating, Starting, Reaping, Numbered,
         Present, ReapDelete, Deref, records, library, locals, client
<1>7. SelfInv'
  BY ThreadsAssumption DEF RegistryInv, TypeOK, SelfInv, ReapInv, IdInv,
         HandleInv, Reaping, Numbered, Starting, Present, ReapDelete, Deref,
         records, library, locals, client
<1>8. ReapInv'
  BY ThreadsAssumption DEF RegistryInv, TypeOK, ReapInv, JoinInv, IdInv,
         Reaping, Numbered, Starting, ReapDelete, Deref, records, library,
         locals, client
<1>9. JoinInv'
  BY ThreadsAssumption DEF RegistryInv, TypeOK, JoinInv, ReapInv, IdInv,
         Reaping, Numbered, Starting, ReapDelete, Deref, records, library,
         locals, client
<1>10. OwnerInv'
  BY ThreadsAssumption DEF RegistryInv, TypeOK, OwnerInv, ReapInv, IdInv,
         HandleInv, Reaping, Numbered, Starting, Present, ReapDelete, Deref,
         records, library, locals, client
<1> QED
  BY <1>1, <1>2, <1>3, <1>4, <1>5, <1>6, <1>7, <1>8, <1>9, <1>10 DEF RegistryInv

\* The thread ends.
LEMMA ThreadEndStep ==
    ASSUME RegistryInv, NEW t \in Threads, ThreadEnd(t)
    PROVE  RegistryInv'
<1>1. TypeOK'
  BY ThreadsAssumption DEF RegistryInv, TypeOK, PCs, Ops, ThreadEnd,
         PthreadDetached, records, library, locals, client
<1>2. MutexInv' /\ CreateInv' /\ TreeInv' /\ UpInv' /\ NoLeak' /\ SelfInv' /\
      ReapInv' /\ JoinInv' /\ OwnerInv' /\ IdInv' /\ HandleInv'
  BY ThreadsAssumption DEF RegistryInv, TypeOK, MutexInv, CreateInv, TreeInv,
         UpInv, NoLeak, SelfInv, ReapInv, JoinInv, OwnerInv, IdInv, HandleInv,
         Critical, Creating, Starting, Active, Reaping, Numbered, Present,
         ThreadEnd, PthreadDetached, records, library, locals, client
<1> QED
  BY <1>1, <1>2 DEF RegistryInv

\* A call of thread_self, thread_rename or thread_exit.
LEMMA SelfCallStep ==
    ASSUME RegistryInv, NEW t \in Threads, NEW o \in Ops, SelfCall(t, o), calls' \in Nat
    PROVE  RegistryInv'
<1>1. TypeOK'
  BY ThreadsAssumption DEF RegistryInv, TypeOK, PCs, Ops, SelfCall, Running,
         records, library, locals, client
<1>2. MutexInv' /\ NoLeak' /\ SelfInv' /\ IdInv' /\ HandleInv'
  BY ThreadsAssumption DEF RegistryInv, TypeOK, MutexInv, NoLeak, SelfInv,
         IdInv, HandleInv, Critical, Numbered, Starting, Present, SelfCall,
         Running, records, library, locals, client
<1>3. CreateInv' /\ TreeInv' /\ UpInv'
  BY ThreadsAssumption DEF RegistryInv, TypeOK, CreateInv, TreeInv, UpInv,
         Creating, Starting, Active, Reaping, SelfCall, Running, records,
         library, locals, client
<1>4. ReapInv' /\ JoinInv' /\ OwnerInv'
  BY ThreadsAssumption DEF RegistryInv, TypeOK, ReapInv, JoinInv, OwnerInv,
         Reaping, SelfCall, Running, records, library, locals, client
<1> QED
  BY <1>1, <1>2, <1>3, <1>4 DEF RegistryInv

\* A call of thread_join.
LEMMA JoinCallStep ==
    ASSUME RegistryInv, NEW t \in Threads, NEW u \in Threads, thread_join(t, u)
    PROVE  RegistryInv'
<1>1. TypeOK'
  BY ThreadsAssumption DEF RegistryInv, TypeOK, PCs, Ops, thread_join,
         Running, Deref, records, library, locals, client
<1>2. MutexInv' /\ CreateInv' /\ TreeInv' /\ UpInv' /\ NoLeak' /\ SelfInv' /\
      ReapInv' /\ OwnerInv' /\ IdInv' /\ HandleInv'
  BY ThreadsAssumption DEF RegistryInv, TypeOK, MutexInv, CreateInv, TreeInv,
         UpInv, NoLeak, SelfInv, ReapInv, OwnerInv, IdInv, HandleInv,
         Critical, Creating, Starting, Active, Reaping, Numbered, Present,
         thread_join, Running, Deref, records, library, locals, client
<1>3. JoinInv'
  BY ThreadsAssumption DEF RegistryInv, TypeOK, JoinInv, ReapInv, OwnerInv,
         Reaping, thread_join, Running, Deref, records, library, locals,
         client
<1> QED
  BY <1>1, <1>2, <1>3 DEF RegistryInv

-----------------------------------------------------------------------------
(* With or without reuse of handles                                        *)

\* The state thread_initialize leaves satisfies the invariant.
LEMMA InitInv == Init => RegistryInv /\ LookupInv
<1> SUFFICES ASSUME Init PROVE RegistryInv /\ LookupInv
  OBVIOUS
<1>1. PICK h \in Handles, d \in BOOLEAN :
        /\ sys_thread = [t \in Threads |-> IF t = Main THEN h ELSE NoHandle]
        /\ handle = sys_thread
        /\ detached = [t \in Threads |-> (t = Main) /\ d]
  BY DEF Init
<1>2. TypeOK
  BY <1>1, ThreadsAssumption DEF Init, TypeOK, PCs, Ops
<1>3. MutexInv /\ CreateInv /\ TreeInv /\ UpInv /\ NoLeak
  BY ThreadsAssumption DEF Init, MutexInv, CreateInv, TreeInv, UpInv, NoLeak,
         Critical, Creating, Starting, Reaping, Active
<1>4. SelfInv /\ ReapInv /\ JoinInv /\ OwnerInv
  BY ThreadsAssumption DEF Init, SelfInv, ReapInv, JoinInv, OwnerInv, Reaping
<1>5. IdInv /\ HandleInv
  BY <1>1, ThreadsAssumption DEF Init, IdInv, HandleInv, Numbered, Starting, Present
<1>6. LookupInv
  BY <1>1 DEF Init, LookupInv, NoFault, DistinctHandles, NameInv
<1> QED
  BY <1>2, <1>3, <1>4, <1>5, <1>6 DEF RegistryInv

\* Every step keeps the invariant.
LEMMA NextInv ==
    ASSUME RegistryInv, [Next]_vars
    PROVE  RegistryInv'
<1>1. CASE UNCHANGED vars
  BY <1>1 DEF vars, records, library, locals, client, RegistryInv, TypeOK, MutexInv,
         CreateInv, TreeInv, UpInv, NoLeak, SelfInv, ReapInv, JoinInv, OwnerInv,
         IdInv, HandleInv, Numbered, Present
<1>2. ASSUME NEW t \in Threads, Step(t) PROVE RegistryInv'
  BY <1>2, CreateLockStep, CreateIdStep, CreateSpawnStep, CreateFailStep,
     StartLockStep, StartInsertStep, SelfLockStep, SelfScanStep, SelfReturnStep,
     RenameStep, ExitCheckStep, JoinWaitStep, ReapLockStep, ReapDeleteStep,
     ThreadEndStep DEF Step
<1>3. ASSUME NEW t \in Threads, Call(t) PROVE RegistryInv'
  <2>1. calls \in Nat /\ {"self", "rename", "exit"} \subseteq Ops
    BY DEF RegistryInv, TypeOK, Ops
  <2>2. CASE thread_self(t) \/ thread_rename(t) \/ thread_exit_c(t)
    BY <2>1, <2>2, SelfCallStep DEF thread_self, thread_rename, thread_exit_c
  <2> QED
    BY <1>3, <2>2, CreateCallStep, JoinCallStep, StartReturnStep DEF Call
<1> QED
  BY <1>1, <1>2, <1>3, InitializeStep, ShutdownStep DEF Next, Idle

\* The invariant of the registry holds in every state the program reaches, with or
\* without reuse of handles.
THEOREM Invariance == Spec => []RegistryInv
<1>1. Init => RegistryInv
  BY InitInv
<1>2. RegistryInv /\ [Next]_vars => RegistryInv'
  BY NextInv
<1> QED
  BY <1>1, <1>2, PTL DEF Spec

\* Every variable keeps its type.
THEOREM TypeCorrect == Spec => []TypeOK
<1>1. RegistryInv => TypeOK
  BY DEF RegistryInv
<1> QED
  BY <1>1, Invariance, PTL

\* No record is lost: what is allocated is in the tree or on its way into it.
THEOREM LeakFreedom == Spec => []NoLeak
<1>1. RegistryInv => NoLeak
  BY DEF RegistryInv
<1> QED
  BY <1>1, Invariance, PTL

\* The ids in the tree are pairwise different.
THEOREM IdsUnique == Spec => []UniqueIds
<1>1. RegistryInv => UniqueIds
  BY DEF RegistryInv, TypeOK, IdInv, Numbered, UniqueIds
<1> QED
  BY <1>1, Invariance, PTL

\* The pointer of an attached thread is valid until it is joined, also while others
\* are given the handles of threads that are gone.
THEOREM OwnedPointersValid == Spec => []OwnedIsLive
<1>1. RegistryInv => OwnedIsLive
  BY DEF RegistryInv, OwnerInv, OwnedIsLive
<1> QED
  BY <1>1, Invariance, PTL

\* The keys of the tree do not change while they are in it.
THEOREM IdsStable == Spec => StableIds
<1> DEFINE Stable == /\ next_thread_id' >= next_thread_id
                     /\ \A r \in threadtree \cap threadtree' :
                           thread_id'[r] = thread_id[r]
<1>1. RegistryInv /\ [Next]_vars => [Stable]_vars
  <2> SUFFICES ASSUME RegistryInv, Next PROVE Stable
    OBVIOUS
  <2>1. next_thread_id \in Nat /\ threadtree \subseteq Threads
    BY DEF RegistryInv, TypeOK
  <2>2. CASE \E t \in Threads : CreateId(t)
    BY <2>1, <2>2 DEF RegistryInv, TypeOK, CreateInv, TreeInv, Creating, CreateId
  <2>3. CASE thread_initialize
    BY <2>1, <2>3 DEF RegistryInv, UpInv, thread_initialize
  <2>4. CASE UNCHANGED <<next_thread_id, thread_id>>
    BY <2>1, <2>4
  <2>5. ASSUME NEW t \in Threads, Step(t), ~CreateId(t)
        PROVE  UNCHANGED <<next_thread_id, thread_id>>
    BY <2>5 DEF Step, CreateLock, CreateSpawn, CreateFail, StartLock, StartInsert,
           SelfLock, SelfScan, SelfReturn, Rename, ExitCheck, JoinWait, ReapLock,
           ReapDelete, ThreadEnd, Acquire, records, library
  <2>6. ASSUME NEW t \in Threads, Call(t)
        PROVE  UNCHANGED <<next_thread_id, thread_id>>
    BY <2>6 DEF Call, thread_create_c, thread_join, StartReturn, thread_self,
           thread_rename, thread_exit_c, SelfCall, records, library
  <2> QED
    BY <2>2, <2>3, <2>4, <2>5, <2>6
       DEF Next, thread_shutdown, Idle, vars, records, library
<1> QED
  BY <1>1, Invariance, PTL DEF Spec, StableIds

-----------------------------------------------------------------------------
(* Without reuse of handles                                                *)

\* What thread_self found carries the caller's handle, so it is the caller's.
LEMMA FoundIsOwn == ASSUME RegistryInv, LookupInv PROVE SelfIsOwn
  BY DEF RegistryInv, LookupInv, SelfInv, HandleInv, DistinctHandles, SelfIsOwn

\* An active thread's record is allocated, and so is the one it is to remove, the one
\* it is to insert and the one it owns.
LEMMA LiveRecords ==
    ASSUME RegistryInv, NEW t \in Threads
    PROVE  /\ pc[t] \in {"run", "self_done"} /\ up => mem[t] = "live"
           /\ pc[t] = "start_insert" => mem[t] = "live"
           /\ pc[t] = "reap_delete" => cur[t] \in Threads /\ mem[cur[t]] = "live"
           /\ owner[t] # NoThread => mem[t] = "live"
           /\ \A r \in threadtree : mem[r] = "live"
  BY DEF RegistryInv, TypeOK, TreeInv, UpInv, ReapInv, OwnerInv, Active, Starting,
         Reaping

\* No step sets "fault".
LEMMA NoFaultStep ==
    ASSUME RegistryInv, LookupInv, Next
    PROVE  NoFault'
<1> USE LiveRecords, ThreadsAssumption DEF NoFault, LookupInv
<1>1. ASSUME NEW t \in Threads, StartInsert(t) PROVE fault' = "none"
  BY <1>1 DEF StartInsert, Deref
<1>2. ASSUME NEW t \in Threads, SelfScan(t) PROVE fault' = "none"
  BY <1>2 DEF SelfScan
<1>3. ASSUME NEW t \in Threads, Rename(t) \/ ExitCheck(t) PROVE fault' = "none"
  <2>1. cur[t] = t /\ up
    BY <1>3, FoundIsOwn
       DEF SelfIsOwn, Rename, ExitCheck, RegistryInv, UpInv
  <2> QED
    BY <1>3, <2>1 DEF Rename, ExitCheck, Deref
<1>4. ASSUME NEW t \in Threads, ReapDelete(t) PROVE fault' = "none"
  BY <1>4 DEF ReapDelete, Deref
<1>5. ASSUME NEW t \in Threads, Step(t),
             ~(\/ StartInsert(t) \/ SelfScan(t) \/ Rename(t) \/ ExitCheck(t)
               \/ ReapDelete(t))
      PROVE  fault' = fault
  BY <1>5 DEF Step, CreateLock, CreateId, CreateSpawn, CreateFail, StartLock,
         SelfLock, SelfReturn, JoinWait, ReapLock, ThreadEnd, Acquire
<1>6. ASSUME NEW t \in Threads, Call(t) PROVE fault' = "none"
  <2>1. CASE StartReturn(t)
    BY <2>1 DEF StartReturn, Running, Deref
  <2>2. ASSUME NEW u \in Threads, thread_join(t, u) PROVE fault' = "none"
    BY <2>2 DEF thread_join, Deref
  <2> QED
    BY <1>6, <2>1, <2>2 DEF Call, thread_create_c, thread_self, thread_rename,
           thread_exit_c, SelfCall
<1> QED
  BY <1>1, <1>2, <1>3, <1>4, <1>5, <1>6
     DEF Next, thread_initialize, thread_shutdown, Idle, vars

\* Only thread_rename changes a name, and thread_initialize that of the main thread.
LEMMA NameStep ==
    ASSUME RegistryInv, LookupInv, Next
    PROVE  NameInv'
<1>0. name \in [Threads -> Threads] /\ NameInv
  BY DEF RegistryInv, TypeOK, LookupInv
<1>1. ASSUME NEW t \in Threads, Rename(t) PROVE NameInv'
  <2>1. cur[t] = t
    BY <1>1, FoundIsOwn DEF SelfIsOwn, Rename
  <2> QED
    BY <1>0, <1>1, <2>1 DEF Rename, NameInv
<1>2. CASE thread_initialize
  BY <1>0, <1>2 DEF thread_initialize, NameInv
<1>3. ASSUME NEW t \in Threads, Step(t), ~Rename(t) PROVE name' = name
  BY <1>3 DEF Step, CreateLock, CreateId, CreateSpawn, CreateFail, StartLock,
         StartInsert, SelfLock, SelfScan, SelfReturn, ExitCheck, JoinWait, ReapLock,
         ReapDelete, ThreadEnd, Acquire, records
<1>4. ASSUME NEW t \in Threads, Call(t) PROVE name' = name
  BY <1>4 DEF Call, thread_create_c, thread_join, StartReturn, thread_self,
         thread_rename, thread_exit_c, SelfCall, records
<1> QED
  BY <1>0, <1>1, <1>2, <1>3, <1>4
     DEF Next, thread_shutdown, Idle, vars, records, NameInv

\* A new thread gets a handle that no thread has or had: the one step that needs the
\* C library not to reuse them.
LEMMA DistinctStep ==
    ASSUME HandleReuse = FALSE, RegistryInv, LookupInv, Next
    PROVE  DistinctHandles'
<1>0. /\ pc \in [Threads -> PCs] /\ handle \in [Threads -> Handles \cup {NoHandle}]
      /\ DistinctHandles
  BY DEF RegistryInv, TypeOK, LookupInv
<1>1. ASSUME NEW t \in Threads, CreateSpawn(t) PROVE DistinctHandles'
  <2>1. PICK h \in FreshHandles :
          /\ handle' = [handle EXCEPT ![cur[t]] = h]
          /\ pc' = [pc EXCEPT ![cur[t]] = "start_lock", ![t] = "run"]
    BY <1>1 DEF CreateSpawn
  <2>2. \A v \in Threads : pc[v] # "none" => handle[v] # h
    BY <2>1 DEF FreshHandles
  <2>3. cur[t] \in Threads /\ pc[cur[t]] = "none" /\ pc[t] # "none"
    BY <1>1 DEF RegistryInv, CreateInv, Creating, CreateSpawn
  <2> QED
    BY <1>0, <2>1, <2>2, <2>3 DEF DistinctHandles
<1>2. ASSUME handle' = handle, \A v \in Threads : pc[v] = "none" => pc'[v] = "none"
      PROVE  DistinctHandles'
  BY <1>0, <1>2 DEF DistinctHandles
<1>3. ASSUME NEW t \in Threads, Step(t), ~CreateSpawn(t) PROVE DistinctHandles'
  <2>1. handle' = handle
    BY <1>3 DEF Step, CreateLock, CreateId, CreateFail, StartLock, StartInsert,
           SelfLock, SelfScan, SelfReturn, Rename, ExitCheck, JoinWait, ReapLock,
           ReapDelete, ThreadEnd, Acquire, locals
  <2>2. \A v \in Threads : pc[v] = "none" => pc'[v] = "none"
    BY <1>0, <1>3 DEF Step, CreateLock, CreateId, CreateFail, StartLock, StartInsert,
           SelfLock, SelfScan, SelfReturn, Rename, ExitCheck, JoinWait, ReapLock,
           ReapDelete, ThreadEnd, Acquire
  <2> QED
    BY <1>2, <2>1, <2>2
<1>4. ASSUME NEW t \in Threads, Call(t) PROVE DistinctHandles'
  <2>1. handle' = handle
    BY <1>4 DEF Call, thread_create_c, thread_join, StartReturn, thread_self,
           thread_rename, thread_exit_c, SelfCall
  <2>2. \A v \in Threads : pc[v] = "none" => pc'[v] = "none"
    BY <1>0, <1>4 DEF Call, thread_create_c, thread_join, StartReturn, thread_self,
           thread_rename, thread_exit_c, SelfCall, Running
  <2> QED
    BY <1>2, <2>1, <2>2
<1> QED
  BY <1>0, <1>1, <1>2, <1>3, <1>4
     DEF Next, thread_initialize, thread_shutdown, Idle, vars, locals

\* If the C library does not give the pthread_t of a thread that is gone to another
\* thread, every lookup finds the caller's own record.
THEOREM LookupInvariance == ASSUME HandleReuse = FALSE PROVE Spec => []LookupInv
<1>1. Init => LookupInv
  BY InitInv
<1>2. RegistryInv /\ LookupInv /\ [Next]_vars => LookupInv'
  <2>1. ASSUME LookupInv, UNCHANGED vars PROVE LookupInv'
    BY <2>1 DEF LookupInv, NoFault, DistinctHandles, NameInv, vars, records, locals
  <2> QED
    BY <2>1, NoFaultStep, NameStep, DistinctStep DEF LookupInv
<1> QED
  BY <1>1, <1>2, Invariance, PTL DEF Spec

\* Memory safety of the registry: no function of thread.c touches a record that
\* was freed, or a NULL pointer.
THEOREM MemorySafety == ASSUME HandleReuse = FALSE PROVE Spec => []NoFault
<1>1. LookupInv => NoFault
  BY DEF LookupInv
<1> QED
  BY <1>1, LookupInvariance, PTL

\* thread_self returns the record of its caller.
THEOREM SelfCorrect == ASSUME HandleReuse = FALSE PROVE Spec => []SelfIsOwn
<1>1. RegistryInv /\ LookupInv => SelfIsOwn
  BY FoundIsOwn
<1> QED
  BY <1>1, Invariance, LookupInvariance, PTL

\* thread_rename renames the current thread and no other.
THEOREM RenameCorrect ==
    ASSUME HandleReuse = FALSE PROVE Spec => []RenamesCurrentThread
<1>1. LookupInv => RenamesCurrentThread
  BY DEF LookupInv, NameInv, RenamesCurrentThread
<1> QED
  BY <1>1, LookupInvariance, PTL
=============================================================================
