# A TLA+ development of the Icecast common library

The repository is the library that Icecast programs share: a thread registry over
pthreads, a logger, an AVL tree, HTTP parsing with transfer encodings, sockets, a
resolver and clock functions. This directory models the parts of it that keep state
and make decisions, model-checks them with TLC, and proves with TLAPS the central facts
about the thread registry, the log, the chunked encoding and its extensions, the sockets and the
parser: its lifetime, its names and the tables that it implements.

1. [Inventory](#1-inventory)
2. [Modules and code](#2-modules-and-code)
3. [Runs](#3-runs)
4. [Fairness](#4-fairness)
5. [Proofs](#5-proofs)
6. [Findings and observations](#6-findings-and-observations)
7. [What is not modelled](#7-what-is-not-modelled)
8. [What could come next](#8-what-could-come-next)

## 1. Inventory

### Thread registry (`src/thread/thread.c`)

*State.* `_threadtree`, an AVL tree of `thread_type` records ordered by `thread_id`;
`_threadtree_mutex`; the counters `_next_thread_id` and `_next_mutex_id`;
`_initialized`. The records are heap memory.
*Operations.* `thread_initialize`, `thread_shutdown`, `thread_create_c`,
`_start_routine`, `thread_self`, `thread_rename`, `thread_exit_c`, `thread_join`.
*Interaction.* The creator allocates the record; the new thread inserts it into the
tree; the new thread itself (if detached) or the thread that joins it takes it out and
frees it. `thread_self` walks the tree looking for `pthread_self()`.
*Hard.* Every function is a sequence of short critical sections, with pointers to
records kept in between. A `pthread_t` becomes reusable at `pthread_join`, before the
record leaves the tree.
*Correct means:* no freed record is touched, none leaks, `thread_self` answers with the
caller's record, ids in the tree are unique and stable, and ended threads are removed.

### Synchronisation wrappers (`src/thread/thread.c`)

Mutexes, condition variables, read-write locks, spin locks, `thread_library_lock`. Thin
wrappers over pthreads without state of their own (`DEBUG_MUTEXES`, which would add
some, is off). The condition variables are used without a predicate.

### Log (`src/log/log.c`)

*State.* `loglist`, a fixed table of `LOG_MAXLOGS` slots: level, file name, `FILE *`,
size, trigger, and a linked list of the last lines with its counters `entries`,
`keep_entries`, `total`; `_logger_mutex`. Outside of it: files, open `FILE`s.
*Operations.* `log_open`, `log_open_file`, `log_close`, `log_set_*`, `log_reopen`,
`log_flush`, `log_write`, `log_write_direct`, `log_contents`.
*Hard.* Some functions look at the slot before they take the mutex, some do without it;
`log_close` leaves parts of a slot as they are for its next owner; rotation closes,
renames and opens, and each may fail; the size of the file is tracked, not asked for.
*Correct means:* a slot has one owner; no `FILE`, name or list entry is used after it
is gone; the kept lines are the last ones written and the counters agree with them; a
file is rotated when it is over the trigger.

### AVL tree (`src/avl/avl.c`)

*State.* Nodes with key, three pointers, and rank and balance packed in one integer;
`length`. *Operations.* Insert, delete, lookups by key and by position, walks, spans of
equal keys, verification. No concurrency (the caller locks).
*Hard.* The three copies of the rotation code, ranks and parent pointers through
rotations at several levels, key swaps in deletion, equal keys, calls that fail half-way.
*Correct means:* the tree is at all times a sorted bag, balanced, with right ranks, and
every lookup answers as the bag would.

### httpp chunked encoding (`src/httpp/encoding.c`)

*State.* Writer: meta data waiting, an encoded buffer partly sent. Reader: raw bytes,
decoded bytes, bytes till the next header, bytes till the end, meta data read. The
transport is a callback that takes or gives any number of bytes.
*Operations.* `httpp_encoding_write`, `_read`, `_append_meta`, `_get_meta`, `_eof`.
*Hard.* All cuts of the stream; "\r\n" in two pieces; what was read ahead; refused
writes; failing allocations; quoting in extensions.
*Correct means:* the two ends form a pipe: bytes in order, each once, the end seen
after all of them and not before, meta data not after what was written later.

### httpp parser and variables (`src/httpp/httpp.c`)

*State.* Per parser: a reference count, the request type and URI, and three AVL trees
of variables (`vars`, with header lines and, under names that begin with "__", what the
first line said; `queryvars`; `postvars`). A variable has a name and a list of values.
*Operations.* `httpp_create_parser`, `_addref`, `_release`, `_initialize`, `_parse`,
`_parse_response`, `_parse_postdata`, `_setvar`, `_deletevar`, `_set_query_param`,
`_set_post_param`, and readers, among them `httpp_get_any_key`.
*Interaction.* Clients share a parser by counting references; the trees are those of
`avl.c`, which take equal keys. No lock: one client at a time.
*Hard.* Line ends, the limit of 32 lines, escapes at the end of a text, the many places at
which parsing gives up, names set several times, an array that grows under a NULL.
*Correct means:* the parser answers as three tables would that were filled from the
messages as their senders meant them; a refused message leaves no header behind; the
parser is there as long as somebody has a reference.

### Sockets (`src/net/sock.c`)

*State.* None of its own: descriptors, which the threads of a process share, sockets in
the kernel, and the local variables of a call (`sock`, `ai`, the lists `head` and `b_head`).
*Operations.* `sock_connect_wto_bind` (and `sock_connect_wto`), `sock_connect_non_blocking`,
`sock_connected`, `sock_get_server_socket`, `sock_listen`, `sock_accept`, `sock_close`;
reads, writes and options are single system calls.
*Hard.* A name has several addresses, and any system call may fail at each; connects
are answered late, time out, are interrupted; a closed descriptor is soon another thread's.
*Correct means:* no descriptor or list is lost or given back twice, what is returned is
connected, bound and blocking as asked, and calls return.

### Other parts

| part | state | hard behaviour |
|---|---|---|
| resolver (`net/resolver.c`) | a mutex, an initialised flag | none: one call of the C library under a mutex |
| timing (`timing/timing.c`) | none | none |
| test programs | none | they show the intended use |

## 2. Modules and code

| module | models | how |
|---|---|---|
| `ThreadRegistry` | thread registry | one action per piece of a function between two places where other threads can run |
| `MCThreadRegistry` | | symmetry for TLC |
| `ThreadRegistryProofs` | | the theorems |
| `Log`, `MCLog` | log | one action per critical section, and one per piece of code outside of it |
| `LogProofs` | | the theorems: who owns slots and names, sizes, kept lines, FILEs |
| `AvlRotations` | `avl.c` | the rotations and the two places that choose one, on a heap (a record of functions from addresses to fields) |
| `AvlOps` | `avl.c` | the algorithms on such a heap: pure operators, recursive where the code has a loop over the tree |
| `AvlRotationProofs` | | the theorems about `AvlRotations`, and about the climb of `avl_delete` |
| `Avl` | a client of the tree | inserts and deletes; the properties compare with a bag |
| `BytePipe` | | what a pair of encoding objects promises (abstract) |
| `Encoding` | writer, transport, reader | one action per call; refines `BytePipe` |
| `EncodingProofs` | | the stream as the path of an automaton; the theorems, the refinement among them |
| `SequenceFacts` | | induction over numbers, parts and joins of sequences, least elements, for the proofs |
| `ChunkExtensions`, `MCChunkExtensions` | the text of chunk extensions | the writer and the two scanners of the reader |
| `ChunkExtensionsProofs` | | the theorems about it |
| `HttpText` | the scanners of `httpp.c` | pure operators on sequences of symbols |
| `HttpVars` | | what a parser promises (abstract): three tables |
| `Httpp`, `MCHttpp` | a parser under its clients | one action per call; refines `HttpVars`; the texts for TLC |
| `HttppProofs` | | the theorems about its lifetime, its names and the lists of them, and the refinement |
| `Sock`, `MCSock` | making sockets in `sock.c` | one action per system call with the code up to the next |
| `SockProofs` | | the theorems about it |

**ThreadRegistry.** Thread *t* and its record have one name. `mem`, `thread_id`,
`sys_thread`, `detached`, `name` are the record; `threadtree`, `up`, `next_thread_id`,
`mutex` the library; `pc`, `op`, `cur` where each thread is in which call with which
local pointer; `handle` its `pthread_self()`; `owner` which thread may join it. A step
that would read freed memory or a NULL pointer sets `fault`, and the model stops there.
Deletion goes by id, as `avl_delete` with `_compare_threads` does, not by pointer. The
`detached` of the main thread's record is uninitialised memory in the code and an
arbitrary Boolean here. Assumed of the client (`MayShutdown`): the main thread shuts
the library down once per initialisation, when every other thread has ended; a thread is
joined once, by the one that got the pointer.

**Log.** A line is a number and a length. `disk` is what each named file really
holds, to be compared with the slot's `size`; `hist` is what was written while lines are
kept; `asked` the trigger the client wanted. `ids` are the ids the client owns.
Assumed of the client: it gives up an id when no other caller is inside a call on it,
and two logs never have one file (`NameFree`). `fopen` may fail during a write, and
`_get_log_id` when the table is full. `tail = "freed"` says that `log_tail` points into a
freed entry.

**AvlRotations / AvlOps / Avl.** Operators carry the names of the functions they translate. The
mirror-image cases of the C code are one operator with a side (`Kid`, `SetKid`), except
where they differ. After each call, `Avl` renames the nodes by position, so that trees
that differ in addresses only are one state; `bag` is the reference.
`avl_verify`'s checks are the operators behind `Verified`. Calls that return -1
(`DeleteMissing`, `InsertNoMemory`) are checked in trees of up to `FailNodes` nodes; they
leave wrong ranks behind, so that properties which count in ranks ask for `failed = 0`.

**Encoding.** The stream is a sequence of symbols: a chunk length (with the extensions
of its header), CR, LF, and data byte number *i*. A read is one action: the callback gives any
prefix of what is under way, up to what the code asks for. `MaxChunk` and `RawBuf` stand
for 1048576 and 1024. `rd.bad` is set when `sscanf` would not find a number where a
header should be.

**ChunkExtensions.** The state is the list of meta data; `RoundTrip` compares it with
what the reader makes of the text, `HeaderEndFound` compares where the reader sees the
end of the header with where the writer put it. The loops over characters are functions of the
position at which they stand (`InQuote`, `Decode`, `__enc_chunked_read_extentions`), and where
a loop stops is the least position at which it may (`Scan`, `KeyEnd`, `ValueEnd`). The model assumes that a chunk body has no ";"
in the byte at which the token scanner may look beyond the header.

**HttpText / HttpVars / Httpp.** A text is a sequence of symbols; the characters that the
code looks for are symbols of their own, any other symbol is a piece of text in which
they do not occur. A tree is a bag of variables, since `avl.c` keeps equal keys: that a
name is there once is a property (`OneVarPerName`), not the shape of the model.
`HttpVars` knows nothing of texts. Its messages say what they mean (`line`, `pairs`,
`headers`), and `MCHttpp` puts each text together from the same parts, without a scanner;
`ImplementsTables` therefore compares the scanners with what was put in. The abstract
tables are computed from the trees (`Firsts`, `Values`). `ScansAsMeant` is the part of this that is
about the scanners alone: of each message, cutting up the text gives `line`, `headers` and
`pairs`. `MCHttpp` has TLC evaluate it (`TextsAssumption`), and the proof of `ImplementsTables` for
all messages starts from it. Where the code is peculiar, the
messages of `MCHttpp` state what it does, and the list is under *Observations*. Assumed of
the client: `httpp_parse_postdata` is called when there is a `content-type`, as
`strcasecmp` of NULL is undefined.

**Sock.** `pc` is the system call a caller makes next; `call`, `ai`, `sock`, `head`, `b_lists`
are its local variables (a list of addresses is its length `n`; `b_lists` counts the lists
that were stored in `b_head`). `conn`, `blocking`, `bound` are the kernel's view of a
descriptor; `handed` is the call that returned it. `socket()` gives out any closed
descriptor, so one that is closed twice may be another caller's. `Connect`: done, failed,
under way (`EINPROGRESS`), interrupted when it blocks, after which the connect goes
on by itself, or refused for the moment (`EAGAIN`). The last counts as recoverable in
`sock_connect_wto_bind` (146), which polls the socket; on a socket without a connect, `poll`
reports readiness at once and `SO_ERROR` no error, as on Linux (`conn` is "again").
`Answer` is the network. Time is not counted: with a timeout of 0 or more
`poll` may give up whenever the connect is pending, below 0 never. An entry of the list
that the getaddrinfo of `bnd` gives is not followed: the code uses the first.

**Mutants.** Definitions marked *Mutant of* in a comment are plausible slips in the
definition that follows them (a guard dropped, a field not reset, an off-by-one). None
is used by a specification. Each property is violated when the mutant `PROJECT.json`
names for it takes the place of its original, which shows that the property looks at what
the code does.

## 3. Runs

| run | instance | shows |
|---|---|---|
| `thread_safety` | 3 threads, 2 initialisations, 2 calls of `thread_self`/`thread_rename` | no use after free, no leak, `thread_self` right, ids |
| `thread_liveness` | 3 threads | records of ended threads are removed |
| `thread_reuse` | 4 threads, 3 handles that may be reused | *violated:* `thread_rename` renames another thread |
| `log_concurrent` | 2 callers, 2 slots, 3 writes, 3 opens, 2 settings | slots have one owner, kept lines and counters right, nothing used after it is gone |
| `log_rotate` | 1 caller, 1 slot, 4 writes, 4 opens | rotation, `log_reopen`, renaming, failing `fopen`, client streams; `size` covers the file |
| `log_null_name` | 1 caller | *violated:* a NULL name after `log_reopen` leads to a NULL `FILE` |
| `avl_tree` | 8 keys, 2 of them up to 3 times, 12 nodes; in trees of up to 7 nodes, one call that returns -1 | contents, balance, parents, ranks; walks, lookups by key and position; saved next node |
| `chunk_stream` | 4 bytes, 2 pieces of meta data, 2 terminating chunks | the pipe, including refinement of `BytePipe` |
| `chunk_stall` | 2 bytes, a raw buffer that holds the whole stream | *violated:* buffered chunks are never decoded |
| `ext_round_trip` | 2 extensions, values of 1 or 2 characters out of 6 | extensions come out as they went in |
| `httpp` | 14 requests, 3 responses, 2 bodies, 3 calls, 2 clients | the tables, one variable per name, lists of names, lifetime |
| `sock` | 2 callers, 2 descriptors, names with 1 or 2 addresses, 3 timeouts, 2 calls, 2 signals | descriptors and lists accounted for, sockets as asked, calls return |

*Why the bounds are enough to be interesting.* Three threads are a creator, a joined
and a detached thread, with two of them in the library at once besides the main thread;
the fourth in `thread_reuse` is the one that gets the recycled handle. Two callers on
two slots race for a free slot and for one log; three writes with a trigger of 2 bytes
rotate a file. In `log_rotate` the trigger is 4 bytes (or 2, or off), so four writes
rotate once and go on. Twelve nodes are the smallest number at which one
deletion rotates at two levels. `chunk_stream` has bodies shorter than, equal to and
longer than the longest chunk (so that writes are cut), a raw buffer that ends in the middle of a header and of the
"\r\n", and reads shorter and longer than a body. Values of two characters are enough for
a quote or separator in front of, and behind, each other character. The messages of
`httpp` have both line ends, as many lines as are looked at and one more, a last
line cut off, one name in two spellings, bodies that look like headers, escapes at the end
and beyond it, and a first line broken at each place where the parser checks it; three calls
are a request, a second one over it, and a change or posted data in between. An
array that grows by 2 grows twice with the names of one request. In `sock` two callers
on two descriptors compete for what the other closes; two addresses are a failure that
goes on and a last one; two signals interrupt a connect and the wait for it.

`log_concurrent` and `log_rotate` share the operations of the log between them:
`log_reopen`, `log_write_direct` and `log_open_file` run with one caller only, for the
reasons under *Observations*; neither run keeps lines in a stream that the client opened.
Symmetry is used in the thread safety run and the log runs, never with liveness. No run
switches the deadlock check off: where a client may stop (`Idle`), that is a step.

Bounds in guards: `MaxInits`, `MaxCalls` (thread); `MaxWrites`, `MaxOpens`, `MaxSets`
(log); `MaxNodes`, `MaxCopies`, `MaxFailed` (tree); `MaxBytes`, `MaxMetas`, `MaxEnds`
(encoding); `MaxMetas`, `ValueLens` (extensions); `MaxCalls` (parser); `MaxCalls`, `MaxSignals`
(sockets). The type invariants `TypeOK` of `Encoding` and `Httpp` say what the variables are;
the runs spend their time on the properties that say more.

## 4. Fairness

`ThreadRegistry!FairSpec` has weak fairness of `Step(t)` for each thread: a thread that
is inside the library and can move keeps moving. Waiting for a mutex gets no strong fairness,
because pthread mutexes give none; `EventuallyReaped` therefore depends on every
thread taking the mutex finitely often, which the bounds on calls and threads ensure; a
client with a thread that calls `thread_self` without end could keep a remover waiting
as far as pthreads promise. The client's own calls have no fairness: it need not create, join or return.

`Encoding!FairSpec` has weak fairness of: the client ending the stream, flushing while the
writer refuses, and the reader's client reading, both when the transport has something
and when it has nothing. This is the loop every user of the two functions runs.
`chunk_stall` fails in spite of it.

`Sock!FairSpec` has weak fairness of `Step(c)`, a thread inside of one of the functions runs
on, and of `Answer(fd)`, a connect is answered, if only by the operating system that gives
up on it. Without the second, a wait with a negative timeout would not end. There is none for
`Begin`, for clients, or for signals. `Returns` also needs that signals end
(`MaxSignals`): each one starts the whole wait again (sock.c:690), so a periodic one could
keep a call for as long as the connect is pending.

## 5. Proofs

`ThreadRegistryProofs` proves, for every set of threads, every set of handles and every
bound:

| theorem | statement | needs |
|---|---|---|
| `Invariance` | `Spec => []RegistryInv` | |
| `TypeCorrect` | `Spec => []TypeOK` | |
| `LeakFreedom` | `Spec => []NoLeak` | |
| `IdsUnique` | `Spec => []UniqueIds` | |
| `OwnedPointersValid` | `Spec => []OwnedIsLive` | |
| `IdsStable` | `Spec => StableIds` | |
| `LookupInvariance` | `Spec => []LookupInv` | `HandleReuse = FALSE` |
| `MemorySafety` | `Spec => []NoFault` | `HandleReuse = FALSE` |
| `SelfCorrect` | `Spec => []SelfIsOwn` | `HandleReuse = FALSE` |
| `RenameCorrect` | `Spec => []RenamesCurrentThread` | `HandleReuse = FALSE` |

What the code does with records by id and by pointer does not depend on handles, so the first
six hold for pthreads that reuse them. Finding a record by `pthread_self()` does, and
the last three are false with reuse: `thread_reuse` shows it for `RenamesCurrentThread`, and
with `MaxCalls = 2` its instance violates `NoFault` and `SelfIsOwn` too. `thread_safety` checks
the properties of both kinds on an instance without reuse. As the model stops at a `fault`, the
first six speak of a behaviour with reuse up to its first use of a freed record.

*Argument.* No single property is inductive: that `avl_delete` frees the right record
needs unique ids, that needs to know which records already have one, and so on. The
invariant `RegistryInv` is the conjunction of `TypeOK` and:

- `MutexInv`: a thread holds the mutex exactly between lock and unlock;
- `CreateInv`: a record in `thread_create_c` has one creator and no thread yet;
- `TreeInv`: records in the tree are allocated and belong to threads that inserted them;
- `UpInv`: while the library is up, every active thread is in the tree; after
  `thread_shutdown` only the main thread is left, and no pointer is held;
- `NoLeak`, as in the runs;
- `SelfInv`: what `thread_self` found carries the caller's handle, and is still in the tree if
  it is the record of a detached thread;
- `ReapInv`, `JoinInv`, `OwnerInv`: the record about to be removed is in the tree and has one
  remover: its own thread, or the one joining thread if it is attached;
- `IdInv`: records that have their id have different ones, below the counter;
- `HandleInv`: each record carries its thread's handle, and two threads have the same handle only
  if one of them is gone.

There is one lemma per action (*action preserves `RegistryInv`*), `InitInv`, `NextInv`, and
`Invariance`, from which the theorems follow. `IdsStable` is an action property and uses
`RegistryInv` in the state before the step. That handles may come back costs a thought at one
place: a detached record that carries the handle of a thread in the library is that
thread's own, for a detached thread takes its record out before it is gone; a record that
outlives its thread waits for a join.

Without reuse, `LookupInv` holds as well: `NoFault`, `DistinctHandles` (a handle belongs to
one thread for good) and `NameInv` (a record's name is its own thread's). `FoundIsOwn` says that
`thread_self` then finds the caller's record, `LiveRecords` that the records a step reads are
allocated; `NoFaultStep`, `NameStep` and `DistinctStep`, the only one to use the assumption, make
up `LookupInvariance`.

`SockProofs` proves, for any number of threads, descriptors, addresses and timeouts, and
without any fairness:

| theorem | statement |
|---|---|
| `NoDescriptorLost` | `Spec => []Descriptors` |
| `HandedAsAsked` | `Spec => []Handed`: bound and blocking as asked; connected, but for `EAGAIN` |
| `AllTriedAllFreed` | `Spec => []NothingLeft`: all addresses tried, but for calls with `bnd`; `head` freed, and the last list of `b_head` |
| `WaitsForTheOS` | `Spec => Patient` |

*Argument.* That a call closes its own socket and no other's needs to know that no other
call has that descriptor, which holds because `socket()` gave out one that nobody used: the
inductive invariant `IInv` has `Descriptors` and, for each caller, what is known at the
system call it is about to make - at `bind` the socket is new, at `poll` it is answered,
on its way or "again", and bound if it had to be, within the list of addresses, `head` allocated,
and so on. There is a lemma on what a step of one caller leaves alone of the others, and one lemma
per action; `Handed` and `NothingLeft` follow at the return. `WaitsForTheOS` is an action
property: only the owner of a descriptor closes it, and one that waits without
timeout does not.

`HttppProofs` proves, for any number of clients, any messages, bodies and lists of variables
(`ListsAssumption`: they are finite sequences) and any step by which the array of names grows:

| theorem | statement |
|---|---|
| `FreedByTheLast` | `Spec => []Lifetime` |
| `NamesUnique` | `Spec => []OneVarPerName` |
| `KeysListed` | `Spec => []AnyKeyListed` |
| `TablesKept` | `ScansAsMeant` implies `Spec => ImplementsTables` |

*Argument.* `FreedByTheLast` follows from the invariant that the count is the number of clients
that hold a reference (`Counted`). The others follow from `TablesInv`: each tree is a
`Table`, that is a finite set of variables, each there once, in which a name leads to one.
`InsertOne`, `DeleteOne`, `SetOne`, `AddOne`, `SetParamOne` say what one call of `avl_insert`,
`avl_delete` and of the functions above them does to a table; `SetAllKeeps` and `AddAllKeeps` carry
this over a list, by induction. That the scanners make finite lists at all takes a lemma for each
of them (`WordsOfLine`, `LinesOfText`, `HeaderList`, `QueryList`), as the number of words, lines and
elements is that of the positions found in the text (`AscendingList`). `RoomForNull` is the induction
over the growing array of `httpp_get_any_key`: after n names it has more than n entries.
`SetAll`, `AddAll`, `ArrayUpto` and `Ascending` are written with recursive functions and `CHOOSE`
and not with the folds and sorts of the community modules, whose operator arguments
the provers do not follow.

*The refinement.* `TablesKept` has one hypothesis, `ScansAsMeant`: of each request, that it is
well-formed exactly when its first line has three words and passes the checks, that the last
values of the variables set for its first line and for its headers are `line` and those of
`headers`, that its query has `pairs`, and, of a refused one, that what is set for the first line is
part of `line`; of each response the same. It says nothing of the trees, the variables and
the order of calls: those are what is proved. `ValuesAre` and `ValuesHas` relate a tree to its
table; `InsertValues`, `LessValues`, `SetValues`, `AddValues` and `ParamTables` say what one call does to it
(`With`, `Without`); `SetAllFirsts` and `AddAllValues` carry this over a list by induction:
the last value of each name counts (`LastIs`), or all of them in order (`AddedIs`).
`LastOfJoined` puts the header lines after the first line. `ParseTables` and `ResponseTables` then
follow the early returns of the two parsers: nothing touched (`RefusedAtOnce`), the first line
in part, or all of the message. The invariant `TablesIInv` is `Counted` and `TablesInv`, with
two more facts: the values of a parameter are a list, and a parser that was released has empty trees,
which is what `httpp_create_parser` needs to look like `Create`. `TablesStep` has one step per action:
addref, a release that is not the last one, the deletion of a name that is not there and a
parameter that cannot be decoded show nothing in the tables; every other call is a step of `HttpVars`.

`LogProofs` proves, for any number of callers, logs, names, lines, settings and failing
`fopen`s:

| theorem | statement | needs |
|---|---|---|
| `Inductive` | `Spec => []IInv` | |
| `SlotsExclusive` | `Spec => []SlotExclusive` | |
| `SizesCovered` | `Spec => []SizeCovers` | no NULL name |
| `RotationInTime` | `Spec => RotatesInTime` | no NULL name, triggers below 4 GiB |

The two assumptions are what the finding `log_null_name` and the wrapping product of log.c:239
make necessary: without them the statements are false.

*Argument.* Names matter, not only slots: `size` covers a file because no other log
writes to that file. `IInv` is the conjunction of `Types` (what the proofs need of the types),
`Roles` (what a caller's arguments are at each place), `Owners` (a slot belongs to one
open, to the client, or to one close), `Freed` (a slot out of use has neither name nor FILE)
and `Naming` (a file name belongs to one slot, or to one call that is about to store
it there). There is one lemma per action that changes a slot's owner or name; `CallerMoves` and
`SlotChanges` stand for all the others. On top of it, `SizeInv` adds to
`SizeCovers` that a log with a file of its own keeps a name; `OtherSteps` says that only `Write`
touches a file, `OpenSizes` that `_log_open` leaves a FILE over the trigger behind, `WriteSteps`
that the write is then the first one in its file. `RotationInTime` is an action property
and also uses `Triggered`: the trigger is what was asked for.

The theorems about what the slots hold go on from there:

| theorem | statement | needs |
|---|---|---|
| `TypesCorrect` | `Spec => []TypeOK` | |
| `CountersAgree` | `Spec => []Bookkeeping` | |
| `LatestLinesKept` | `Spec => []KeptAreLatest` | |
| `NoUndefinedBehaviour` | `Spec => []NoFault` | `Careful` |

`Careful` is what the observations in section 6 ask of a client: no limit of 0 lines (log.c:287);
not both kept lines and streams of the client's own (287 again, through a slot that is used a
second time); no NULL name (248); and `log_reopen` and `log_write_direct`, which look at the slot
outside of the mutex (323, 710), from one thread only. Each observation names an instance in
which `NoFault` fails without its part of `Careful`; `log_concurrent` and `log_rotate` satisfy
it in its two forms, many callers without these two functions and one caller with them.

*Argument.* `total` is a sum over a list that grows at one end and is cut at the other.
`UptoIsPartial` shows that the recursive function `Upto` has the prefix sums of a list as its
values (the definition alone does not say so to a prover), from which follow the sums of a list
with one more line (`SumOfAppend`), without its first lines (`SumOfRest`) and of these
(`SumOfFirst`). `TrimLines` and `EntryLines` say what `Trim` and
`create_log_entry` make of a slot whose counters agree and whose list ends its history.
The invariant `LinesInv` adds that a slot out of use, or one that is being opened, has an empty
list (`Fresh`): this is why `log_open` may set the counter `entries` to 0 and leave `total`
as it is. `Args` ties an argument to the call that has it. For `NoFault`, `FilesInv` says that
a FILE is in one slot or with one caller that is about to store it, is open there, and that `fopen`
never gives out one of these; `SlotsSafe` that a log that lost its FILE has a name to open it
again and that `log_tail` is good wherever lines may be kept; `CallsSafe` that what a caller
saw before it took the mutex still holds.

`EncodingProofs` proves, for any number of bytes, calls and pieces of meta data, any longest
chunk and raw buffer, any lengths that clients ask for, and any cutting up of the stream by the
transport:

| theorem | statement | needs, besides `ReadFails = FALSE` and no writes of length 0 |
|---|---|---|
| `Inductive` | `Spec => []IInv` | |
| `InOrder` | `Spec => []DeliveredInOrder` | |
| `Framed` | `Spec => []NeverLost` | |
| `EofIsTheEnd` | `Spec => []EofMeansAll` | |
| `EofIsNoticed` | `Spec => []EofNoticed` | `LoneEnd = FALSE` |
| `MetaComesFirst` | `Spec => []MetaBeforeData` | `MetaFails = FALSE` |
| `Piped` | `Spec => ImplementsPipe` | |

The assumptions are those of the observations about encoding.c:680, 808, 548 and 783, each of
which has an instance that violates the property without it.

*Argument.* No statement about bytes alone is inductive: that the reader is right depends on
where in a chunk it stands. A *position* `At(k, left, last, d, m)` is a point between two symbols
of the stream: what comes next, what is left of the body, whether the last chunk has begun, and
how much data and meta data came before. Symbols lead from position to position (`Step`);
`Run` says that a piece of stream leads from one to another over good positions, those that
the stream can have. The invariant is: the reader stands at a good position, and what is under
way and in the writer's buffer leads from there to the position of the writer (`InStep`); the
local counters of the reader say at which position it is (`Kept`). `ChunkRun` shows that
a chunk of the writer leads over the positions of that chunk; `CallReads`, by induction over
the symbols (`NatSetInduction`), that a call of `__enc_chunked_read` takes the reader along the
path by as much as it consumes. `DataSoFar`, `MetasSoFar`
and `MetasWaiting` tie the data and meta data delivered to the position. `Piped` maps each
action to a step of `BytePipe`: a write to a send of what was accepted, a read to a receipt of
what was decoded, the rest to stutters.

`ChunkExtensionsProofs` proves, for any keys, any lengths of values, any characters and any number of
pieces of meta data in a header:

| theorem | statement | needs |
|---|---|---|
| `ExtensionsType` | `Spec => []ExtensionsTypeOK` | |
| `HeaderEnds` | `Spec => []HeaderEndFound` | no backslash in values |
| `ReaderGetsMetas` | `Spec => []RoundTrip` | the same; no empty values, no values as tokens |

The observations about encoding.c:771, 420 and 475 name the instances that violate the properties
without these assumptions. `HeaderEnds` has none on empty values and tokens.

*Argument.* `InQuoteValues` gives the equations of `InQuote`, a recursive function, to the provers;
`DecodeValues` and `ReadValues` do the same for the two loops of the reader. `EscapedText` says
where each character of a value is in its escaped text, and `Pieces` (in `SequenceFacts`) where
each extension is in the header. `QuotedScan`, by induction over a value, says that `in_quote` is
positive from its first quote to its last and 0 behind it; it does not depend on where the scan
began, so that it holds for the scan of the header, which comes from afar, and for the scans of the value,
which begin there. Therefore (`ExtensionScan`) an extension leads the scan from outside of quotes to outside of
quotes, and shows it no line end and no ";" but its own on the way; `HeaderScan` carries this over
the list of extensions, and `ScanFindsEnd` concludes. Downward over the same list, `ReadAll` shows that the
reader's loop, at the beginning of an extension, yields its key and value and those of all that follow.

`AvlRotationProofs` proves, for trees of any shape and size and any nodes and keys:

| theorem | statement |
|---|---|
| `BalancingActRebalances` | the balancing act of `avl_insert`, in all its cases, restores a subtree that an insertion has made taller on one side |
| `ShrinkRebalances` | so does a turn of the loop in `avl_delete` for a subtree that got shorter on one side, and it says rightly whether it is now shorter as a whole |
| `ClimbTurn` | in the whole tree, such a turn keeps the loop's invariant or ends with a whole tree |
| `DetachedIsDeficient` | detaching a node with at most one child establishes that invariant at its parent |
| `DeletionRestores` | from the detached node to the end of the loop: a whole tree without that node |

Restored means that the nodes stand in the same order, that each knows its parent and is where its
parent says, that its rank is its position in its own subtree, that its balance factor is the
difference of the heights below it and at most 1, that no key has changed and that no field
outside of the subtree has but the link to its top. What `avl_verify` computes by recursion is given as two
functions on the nodes: `I[n]`, the nodes below n in order, and `H[n]`, the height of n, each
determined by an equation at every node (`Ordered`, `Tall`).

*Argument.* `HangWrites`, `SingleWrites` and `DoubleWrites` say which fields the nested
updates of a rotation leave with which values; this is where the order of the assignments in the
C code matters. `SideOK` is what holds at a node seen from the heavy side, so that mirror
images are one case. `TurnKeeps` and `TwistKeeps` give the new order, heights and ranks after a single and a double
rotation, `SingleFits` and `DoubleFits` the balance factors, `BalanceFits` the cases without
a rotation; `RotationFinds` shows that the nodes that a rotation takes hold of are there.
For the climb, the invariant `Deficient` says that heights and balance factors agree
everywhere but at one side of one node p, which counts as one taller than it is (`Seen`). `ClimbFinds` cuts
the tree at p's parent: the nodes with a smaller height are a set that `ShrinkRebalances` can be
applied to (`OrderWithin`, by induction over heights), and `ClimbTurn` puts what comes out of it together with the
rest of the tree. `DetachedIsDeficient` takes a node out of every sequence at once (`Without`, which by
`WithoutParts` commutes with joining sequences). `DeletionRestores` is an induction over the turns.

Its hypotheses are what `avl_delete` has at line 426: a tree that was whole, a node with at most one
child, and ranks from which the walk down has counted that node out. That the walk does this, that the
key found is the one that goes, that the loop ends (it moves up), and the walk down of `avl_insert` are left to `avl_tree`.

`SequenceFacts!NatSetInduction` is induction over the numbers, stated about a set instead of an
operator, and proved from the well-foundedness of `<`. It is what these proofs use where an induction
over data is needed.

*Model-checked only:* liveness (`EventuallyReaped`, `Returns`), which is out of the prover's reach;
the seven properties of `avl_tree`, which speak of recursive operators (walks, lookups, `avl_verify`): what
is proved about the tree are the steps with pointers, ranks and balance factors that these rest
on; `ScansAsMeant`, which relates the scanners to the parts from which `MCHttpp` puts the texts together.

## 6. Findings and observations

Three runs end in a counterexample; `PROJECT.json` has them as findings with the lines
they contradict.

1. `thread_reuse`: `thread_join` gives the handle back (`pthread_join`, thread.c:755)
   before it removes the record (757). A new thread with the same handle finds the old
   record in `thread_self` and renames it.
2. `log_null_name`: "NULL filename is ok" (log.c:248), but after `log_reopen` the name is
   needed to open the file again; the next write goes through a NULL `FILE`. A failed
   `fopen` during rotation does the same as `log_reopen`.
3. `chunk_stall`: `__enc_chunked_read` returns when its callback has nothing
   (encoding.c:534) without looking at complete chunks it already has, and a NULL
   callback, which according to a comment reads from the buffer, is refused (498).

Observations: the models show the following as well when an instance allows it; the
runs that pass leave it out by the constants named here.

| where | what | instance |
|---|---|---|
| log.c:710 | `log_write_direct` flushes the `FILE` after unlocking; another write may have rotated it | `log_concurrent` with `"write_direct"`: `NoFault` |
| log.c:323 | two callers of `log_reopen` close one `FILE` twice | two callers with `"reopen"`: `NoFault` |
| log.c:287 | keeping 0 lines after some were kept, or reusing a slot that kept lines for `log_open_file`, leaves `log_tail` in a freed entry | 0 in `KeepCounts`, or `"open_file"` with `"keep"`: `NoFault` |
| log.c:239 | `trigger*1024` wraps in `unsigned` | `UIntRange = 4` with a trigger of 2: `RotatesInTime` |
| avl.c:151 | a failed allocation leaves the ranks counted up | `Verified` without `failed = 0` |
| avl.c:389 | deleting an absent key adds to a rank from which nothing was subtracted; `avl_verify` then prints "invalid rank at node" | `Verified` without `failed = 0` |
| avl.c:902 | `avl_get_span_by_two_keys` has an inclusive high end for a key that is there, an exclusive one otherwise; `avl_get_span_by_key` is always exclusive | stated as it is in `TwoKeysSpan` |
| encoding.c:548 | the end of a stream that closes with one "\r\n", as the grammar says, goes unnoticed when these two bytes come alone; this library's writer sends two | `LoneEnd = TRUE`: `EofNoticed` |
| encoding.c:808 | writing an empty buffer writes the last chunk | 0 in `Lens`: `EofMeansAll` |
| encoding.c:680 | after a failed allocation the reader has passed the header and takes the body for one | `ReadFails = TRUE`: `NeverLost` |
| encoding.c:783 | meta data is freed before the chunk is allocated | `WriteFails = MetaFails = TRUE`: `MetaBeforeData` |
| encoding.c:771 | backslashes are not escaped, and hide the end of the header | `"BS"` in `Chars`: `HeaderEndFound` |
| encoding.c:420 | an extension without a value swallows the next one | 0 in `ValueLens`: `RoundTrip` |
| encoding.c:475 | a value written as a token is cut off when a ";" stands at `p[value_len]` | `"token"` in `Forms`: `RoundTrip` |
| httpp.c:366 | the key of a query element is not decoded, and the last "=" ends it, not the first | stated in `OddPairs` of `MCHttpp` |
| httpp.c:622 | a value that cannot be decoded is dropped, and its key is leaked | allocation of names is not modelled |
| httpp.c:477 | a second `httpp_parse` leaks the `uri` of the first | the same |
| httpp.c:488 | a refused request leaves `req_type`, query parameters, "__protocol" and other variables behind, but no header | stated in `Refuse` of `HttpVars` |
| httpp.c:212 | a header whose name begins with "__" takes the place of the variable of that name | names of headers in `MCHttpp` do not |
| httpp.c:283 | `httpp_parse_postdata` passes NULL to `strcasecmp` without a "content-type" | guard of `httpp_parse_postdata` |
| sock.c:672 | with `bnd` and several addresses each turn stores a new list in `b_head`; the last one is freed, the others leak | stated in `NothingLeft` |
| sock.c:687 | `EAGAIN` from `connect` is taken for a connect under way (146); the socket is polled, has no error, and is returned although it never was connected | `Handed` with "connected" only for `wto_bind` |
| sock.c:682 | a connect that succeeds at once leaves the socket non-blocking if a timeout was given; one that takes time returns a blocking one | `Handed` with `blocking[fd]` for all timeouts |
| sock.c:639 | "If timeout is 0 or less then we will wait until the OS gives up on the connect": after an interrupted connect, a timeout of 0 gives up at once (534: `poll` with 0) | `Patient` with `timeout <= 0` |
| sock.c:690 | an interrupted wait starts the whole timeout again, and each address gets a whole one | time is not counted |
| sock.c:502 | `sock_read_line` drops the character for which there is no room, and writes the NUL at `buff[len]` | not modelled |

## 7. What is not modelled

- *Thread:* condition variables, read-write locks, spin locks, `DEBUG_MUTEXES` (does not
  compile), failing `malloc`, attributes of threads, a client that calls `thread_shutdown` while
  threads run (the code destroys a mutex in use).
- *Log:* text formatting and time stamps, `log_set_archive_timestamp` (only changes the
  name of the rotated file), `log_shutdown`, a failing `rename` or `malloc`. `fopen` is taken to
  succeed in `log_open` (its failure changes nothing).
- *Tree:* `avl_print_tree`, `avl_tree_free`, the read-write lock around the tree, `tree->height`
  (nothing reads it).
- *Encoding:* the identity encoding (no state), reference counts, hex formatting of lengths.
  `malloc(0)` is taken to return a pointer.
- *httpp parser:* failing `malloc` and `strdup`, `httpp_request_info`, readers that are one
  lookup (`httpp_getvar` is modelled, as other operations use it). The text of a
  request is a sequence of pieces, not of characters.
- *Sockets:* reading, writing, `sock_writev`, options and address checks, which are one system
  call each and keep no state; `sock_set_blocking` and other calls that cannot fail on an open
  descriptor are taken to succeed; the build without getaddrinfo (in which a failed
  `sock_try_connection` closes a socket that its caller closes too) and without `poll`.
- *Resolver:* one call of the C library under a mutex; start and stop by one thread.
- *Condition variables and other wrappers:* they pass their arguments on to pthreads. A
  model would be one of pthreads and of a client that is not in the repository.
- *Timing, test programs:* no state.

## 8. What could come next

1. A lemma on each scanner of `HttpText`, from which `ScansAsMeant` would follow for
   every message that is put together from parts, as `MCHttpp` does it.
2. Abstract specifications: a set of threads that `ThreadRegistry` implements; a slot
   allocator that `Log` implements.
3. The walks of `avl_insert` and `avl_delete` as relations on paths, as the climb is in
   `AvlRotationProofs`.
4. The build of `sock.c` without getaddrinfo.
