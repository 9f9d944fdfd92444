-------------------------------- MODULE Log --------------------------------
(***************************************************************************)
(* log/log.c: a fixed table of logs (loglist), each with a FILE, the name  *)
(* under which the file is rotated, the size the logger believes the file  *)
(* to have, and a bounded list of the last lines kept in memory.           *)
(*                                                                         *)
(* Every function is cut where it gives up or takes _logger_mutex.  What a *)
(* function does while it holds the mutex is one step; what it reads or    *)
(* writes without the mutex is a step of its own.  A step whose behaviour  *)
(* is undefined (a NULL or closed FILE, a freed string or list entry) sets *)
(* "fault", after which the model stops.                                   *)
(*                                                                         *)
(* A line is its number and its length; the text and the time stamps are   *)
(* left out.                                                               *)
(***************************************************************************)
EXTENDS Integers, Sequences, FiniteSets, SequencesExt

CONSTANTS
    Threads,         \* the callers
    MaxLogs,         \* LOG_MAXLOGS
    Names,           \* file names
    NULL,            \* the NULL pointer (names and FILEs)
    Lens,            \* lengths of the lines written
    KeepCounts,      \* arguments of log_set_lines_kept
    Triggers,        \* arguments of log_set_trigger, in kilobytes
    Levels,          \* arguments of log_set_level
    Priorities,      \* priorities of the lines written
    Ops,             \* the operations the client uses
    Kilo, UIntRange, \* 1024 and 2^32: bytes per kilobyte, range of "unsigned"
    DefaultTrigger,  \* the trigger_level of log_initialize
    MaxWrites,       \* bound: lines written
    MaxOpens,        \* bound: successful fopens
    MaxSets          \* bound: log_set_* calls

AllOps == {"open", "open_file", "close", "write", "write_direct", "keep",
           "trigger", "level", "set_filename", "null_filename", "reopen",
           "flush", "contents"}

ASSUME LogAssumption ==
    /\ MaxLogs \in Nat \ {0}
    /\ {NULL, "freed"} \cap Names = {} /\ NULL # "freed"
    /\ Lens \subseteq Nat \ {0}
    /\ KeepCounts \subseteq Nat /\ Triggers \subseteq Nat
    /\ Levels \subseteq Nat /\ Priorities \subseteq Nat
    /\ Ops \subseteq AllOps
    /\ Kilo \in Nat \ {0} /\ UIntRange \in Nat \ {0} /\ DefaultTrigger \in Nat
    /\ MaxWrites \in Nat /\ MaxOpens \in Nat /\ MaxSets \in Nat

Slots == 0 .. (MaxLogs - 1)

VARIABLES
    loglist,  \* the table
    open,     \* the FILEs that are open
    opens,    \* fopens so far
    disk,     \* disk[n]: bytes in the file named n
    pc,       \* where each caller is
    loc,      \* its arguments and local variables
    ids,      \* the ids that the client got from log_open* and has not closed
    writes,   \* lines written so far
    sets,     \* log_set_* calls so far
    asked,    \* asked[i]: the bytes that log_set_trigger was asked for
    hist,     \* hist[i]: the lines written to log i since it keeps lines
    fault

vars == <<loglist, open, opens, disk, pc, loc, ids, writes, sets, asked, hist, fault>>

\* A FILE: the name it was opened under (NULL: a stream the client opened) and
\* a number that tells it from the other FILEs.
Files == [path : Names \cup {NULL}, nr : 1 .. MaxOpens]
ASSUME NullAssumption == NULL \notin Files
Lines == [nr : 1 .. MaxWrites, len : Nat]

LogType ==
    [in_use : BOOLEAN, level : Nat,
     filename : Names \cup {NULL, "freed"}, logfile : Files \cup {NULL},
     size : Nat, trigger_level : Nat,
     total : Int, entries : Nat, keep_entries : Nat,
     list : Seq(Lines),           \* log_head and what follows it
     tail : {"ok", "freed"}]      \* does log_tail point into the list?

LocType ==
    [op : Ops \cup {"none"}, id : Slots \cup {-1}, arg : Nat \cup Names \cup {NULL},
     file : Files \cup {NULL}]

NoLoc == [op |-> "none", id |-> -1, arg |-> 0, file |-> NULL]

TypeOK ==
    /\ loglist \in [Slots -> LogType]
    /\ open \subseteq Files
    /\ opens \in 0 .. MaxOpens
    /\ disk \in [Names -> Nat]
    /\ pc \in [Threads -> {"idle", "get_id", "set_file", "set_name", "locked",
                           "read_file", "flush"}]
    /\ loc \in [Threads -> LocType]
    /\ ids \subseteq Slots
    /\ writes \in 0 .. MaxWrites
    /\ sets \in 0 .. MaxSets
    /\ asked \in [Slots -> Nat]
    /\ hist \in [Slots -> Seq(Lines)]
    /\ fault \in {"none", "null", "closed", "freed", "short"}

\* log_initialize
Init ==
    /\ loglist = [i \in Slots |->
          [in_use |-> FALSE, level |-> 2, filename |-> NULL, logfile |-> NULL,
           size |-> 0, trigger_level |-> DefaultTrigger, total |-> 0,
           entries |-> 0, keep_entries |-> 0, list |-> <<>>, tail |-> "ok"]]
    /\ open = {} /\ opens = 0
    /\ disk = [n \in Names |-> 0]
    /\ pc = [t \in Threads |-> "idle"]
    /\ loc = [t \in Threads |-> NoLoc]
    /\ ids = {} /\ writes = 0 /\ sets = 0
    /\ asked = [i \in Slots |-> DefaultTrigger]
    /\ hist = [i \in Slots |-> <<>>]
    /\ fault = "none"

-----------------------------------------------------------------------------
(* Helpers                                                                 *)

\* The next step of caller t is at p, with locals l.
Goto(t, p, l) == /\ pc' = [pc EXCEPT ![t] = p]
                 /\ loc' = [loc EXCEPT ![t] = l]

Return(t) == Goto(t, "idle", NoLoc)

Set(i, s) == loglist' = [loglist EXCEPT ![i] = s]

NewFile(n) == [path |-> n, nr |-> opens + 1]

\* The bytes of the first n lines, and of all of them.
Upto(list) ==
    LET sum[n \in 0 .. Len(list)] == IF n = 0 THEN 0 ELSE sum[n - 1] + list[n].len
    IN  sum
Sum(list) == Upto(list)[Len(list)]

\* The client gives up an id only when no other caller is inside a call on it.
Busy(i) == \E t \in Threads : loc[t].id = i

\* Two logs are never given the same file name.
NameFree(n) ==
    /\ \A i \in Slots : loglist[i].in_use => loglist[i].filename # n
    /\ \A i \in Slots : loglist[i].logfile # NULL => loglist[i].logfile.path # n
    /\ \A t \in Threads : loc[t].arg # n

-----------------------------------------------------------------------------
(* log_open and log_open_file                                              *)

\* log_open: fopen comes first.  When it fails, log_open_file refuses the NULL
\* FILE (LOG_EINSANE) and nothing changes.
log_open(t, n) ==
    /\ "open" \in Ops /\ pc[t] = "idle" /\ NameFree(n)
    /\ opens < MaxOpens
    /\ opens' = opens + 1
    /\ open' = open \cup {NewFile(n)}
    /\ Goto(t, "get_id", [op |-> "open", id |-> -1, arg |-> n, file |-> NewFile(n)])
    /\ UNCHANGED <<loglist, disk, ids, writes, sets, asked, hist, fault>>

\* log_open_file, with a stream that the client has opened.
log_open_file(t) ==
    /\ "open_file" \in Ops /\ pc[t] = "idle"
    /\ opens < MaxOpens
    /\ opens' = opens + 1
    /\ open' = open \cup {NewFile(NULL)}
    /\ Goto(t, "get_id",
            [op |-> "open_file", id |-> -1, arg |-> NULL, file |-> NewFile(NULL)])
    /\ UNCHANGED <<loglist, disk, ids, writes, sets, asked, hist, fault>>

FreeSlots == {i \in Slots : ~loglist[i].in_use}

\* Mutant of GetLogId: the slot is found but not marked.
GetLogIdUnmarked(t) ==
    /\ pc[t] = "get_id" /\ FreeSlots # {}
    /\ \E i \in FreeSlots :
        /\ \A j \in FreeSlots : i <= j
        /\ Goto(t, "set_file", [loc[t] EXCEPT !.id = i])
    /\ UNCHANGED <<loglist, open, opens, disk, ids, writes, sets, asked, hist, fault>>

\* _get_log_id takes the first slot that is not in use, under the mutex.
GetLogId(t) ==
    /\ pc[t] = "get_id" /\ FreeSlots # {}
    /\ \E i \in FreeSlots :
        /\ \A j \in FreeSlots : i <= j
        /\ Set(i, [loglist[i] EXCEPT !.in_use = TRUE])
        /\ Goto(t, "set_file", [loc[t] EXCEPT !.id = i])
    /\ UNCHANGED <<open, opens, disk, ids, writes, sets, asked, hist, fault>>

\* All slots are in use: LOG_ENOMORELOGS.  The FILE stays open.
NoMoreLogs(t) ==
    /\ pc[t] = "get_id" /\ FreeSlots = {}
    /\ Return(t)
    /\ UNCHANGED <<loglist, open, opens, disk, ids, writes, sets, asked, hist, fault>>

\* log_open_file fills in the slot without the mutex; the name left there by
\* the log that had the slot before is overwritten, not freed again.
SetFile(t) ==
    /\ pc[t] = "set_file"
    /\ LET i == loc[t].id IN
        /\ Set(i, [loglist[i] EXCEPT !.logfile = loc[t].file,
                                     !.filename = NULL, !.size = 0])
        /\ hist' = [hist EXCEPT ![i] = <<>>]
        /\ IF loc[t].op = "open"
           THEN Goto(t, "set_name", loc[t]) /\ ids' = ids
           ELSE Return(t) /\ ids' = ids \cup {i}
    /\ UNCHANGED <<open, opens, disk, writes, sets, asked, fault>>

\* Mutant of SetName: the tail pointer left by the last log is not set again.
SetNameOldTail(t) ==
    /\ pc[t] = "set_name"
    /\ LET i == loc[t].id IN
        /\ Set(i, [loglist[i] EXCEPT !.filename = loc[t].arg, !.size = disk[loc[t].arg],
                                     !.entries = 0, !.list = <<>>])
        /\ ids' = ids \cup {i}
    /\ Return(t)
    /\ UNCHANGED <<open, opens, disk, writes, sets, asked, hist, fault>>

\* log_open goes on: the name, the size the file has, an empty list of lines.
SetName(t) ==
    /\ pc[t] = "set_name"
    /\ LET i == loc[t].id IN
        /\ Set(i, [loglist[i] EXCEPT !.filename = loc[t].arg,
                                     !.size = disk[loc[t].arg],
                                     !.entries = 0, !.list = <<>>, !.tail = "ok"])
        /\ ids' = ids \cup {i}
    /\ Return(t)
    /\ UNCHANGED <<open, opens, disk, writes, sets, asked, hist, fault>>

-----------------------------------------------------------------------------
(* The settings                                                            *)

\* log_set_trigger: no mutex, one assignment.  The product is computed in
\* "unsigned" before it is stored in an off_t.
log_set_trigger(t, i, k) ==
    /\ "trigger" \in Ops /\ pc[t] = "idle" /\ loglist[i].in_use
    /\ sets < MaxSets /\ sets' = sets + 1
    /\ Set(i, [loglist[i] EXCEPT !.trigger_level = (k * Kilo) % UIntRange])
    /\ asked' = [asked EXCEPT ![i] = k * Kilo]
    /\ UNCHANGED <<open, opens, disk, pc, loc, ids, writes, hist, fault>>

\* log_set_level: no mutex.
log_set_level(t, i, l) ==
    /\ "level" \in Ops /\ pc[t] = "idle" /\ loglist[i].in_use
    /\ sets < MaxSets /\ sets' = sets + 1
    /\ Set(i, [loglist[i] EXCEPT !.level = l])
    /\ UNCHANGED <<open, opens, disk, pc, loc, ids, writes, asked, hist, fault>>

\* The operations that check "in_use" before they take the mutex.
Checked(t, i, o, a) ==
    /\ o \in Ops /\ pc[t] = "idle" /\ i \in ids
    /\ loglist[i].in_use
    /\ Goto(t, "locked", [op |-> o, id |-> i, arg |-> a, file |-> NULL])
    /\ UNCHANGED <<loglist, open, opens, disk, ids, writes, asked, hist, fault>>

log_set_lines_kept(t, i, n) == /\ sets < MaxSets /\ sets' = sets + 1
                               /\ Checked(t, i, "keep", n)
log_set_filename(t, i, n)   == /\ sets < MaxSets /\ sets' = sets + 1
                               /\ IF n = NULL THEN Checked(t, i, "null_filename", n)
                                  ELSE NameFree(n) /\ Checked(t, i, "set_filename", n)
log_flush(t, i)             == sets' = sets /\ Checked(t, i, "flush", 0)

\* Mutants of Trim: the newest lines go, or one line too many.
TrimNewest(s, k) ==
    IF s.entries <= k THEN s
    ELSE [s EXCEPT !.list = SubSeq(s.list, 1, k),
                   !.total = s.total - Sum(SubSeq(s.list, k + 1, s.entries)),
                   !.entries = k,
                   !.tail = IF k = 0 THEN "freed" ELSE s.tail]
TrimOneMore(s, k) ==
    IF s.entries < k THEN s
    ELSE [s EXCEPT !.list = SubSeq(s.list, s.entries - k + 2, s.entries), !.entries = k - 1]

\* The list without its first lines, k left.  The entry log_tail points into is
\* freed when none is left, and log_tail is not moved back to log_head.
Trim(s, k) ==
    IF s.entries <= k THEN s
    ELSE [s EXCEPT !.list = SubSeq(s.list, s.entries - k + 1, s.entries),
                   !.total = s.total - Sum(SubSeq(s.list, 1, s.entries - k)),
                   !.entries = k,
                   !.tail = IF k = 0 THEN "freed" ELSE s.tail]

SetLinesKept(t) ==
    /\ pc[t] = "locked" /\ loc[t].op = "keep"
    /\ LET i == loc[t].id
           s == [loglist[i] EXCEPT !.keep_entries = loc[t].arg]
       IN  Set(i, Trim(s, loc[t].arg))
    /\ Return(t)
    /\ UNCHANGED <<open, opens, disk, ids, writes, sets, asked, hist, fault>>

\* The old name is freed, the FILE is left alone.
SetFilename(t) ==
    /\ pc[t] = "locked" /\ loc[t].op \in {"set_filename", "null_filename"}
    /\ Set(loc[t].id, [loglist[loc[t].id] EXCEPT !.filename = loc[t].arg])
    /\ fault' = IF loglist[loc[t].id].filename = "freed" THEN "freed" ELSE "none"
    /\ Return(t)
    /\ UNCHANGED <<open, opens, disk, ids, writes, sets, asked, hist>>

\* Flushing a FILE is defined when it is open; fflush(NULL) flushes all of them.
UseFile(f) == IF f = NULL THEN "null" ELSE IF f \notin open THEN "closed" ELSE "none"

Flush(t) ==
    /\ pc[t] = "locked" /\ loc[t].op = "flush"
    /\ fault' = IF loglist[loc[t].id].logfile = NULL THEN "none"
                ELSE UseFile(loglist[loc[t].id].logfile)
    /\ Return(t)
    /\ UNCHANGED <<loglist, open, opens, disk, ids, writes, sets, asked, hist>>

-----------------------------------------------------------------------------
(* log_reopen and log_close                                                *)

\* log_reopen looks at the slot before it takes the mutex ...
log_reopen(t, i) ==
    /\ "reopen" \in Ops /\ pc[t] = "idle" /\ i \in ids
    /\ loglist[i].filename # NULL /\ loglist[i].logfile # NULL
    /\ Goto(t, "locked", [op |-> "reopen", id |-> i, arg |-> 0, file |-> NULL])
    /\ UNCHANGED <<loglist, open, opens, disk, ids, writes, sets, asked, hist, fault>>

\* Mutant of Reopen: the pointer to the closed FILE stays.
ReopenKeepsFile(t) ==
    /\ pc[t] = "locked" /\ loc[t].op = "reopen"
    /\ fault' = UseFile(loglist[loc[t].id].logfile)
    /\ open' = open \ {loglist[loc[t].id].logfile}
    /\ Return(t)
    /\ UNCHANGED <<loglist, opens, disk, ids, writes, sets, asked, hist>>

\* ... and closes whatever FILE is there when it has it.  The next write opens
\* the file again.
Reopen(t) ==
    /\ pc[t] = "locked" /\ loc[t].op = "reopen"
    /\ LET i == loc[t].id IN
        /\ fault' = UseFile(loglist[i].logfile)
        /\ open' = open \ {loglist[i].logfile}
        /\ Set(i, [loglist[i] EXCEPT !.logfile = NULL])
    /\ Return(t)
    /\ UNCHANGED <<opens, disk, ids, writes, sets, asked, hist>>

\* log_close: everything under the mutex.
log_close(t, i) ==
    /\ "close" \in Ops /\ pc[t] = "idle" /\ i \in ids /\ ~Busy(i)
    /\ ids' = ids \ {i}
    /\ Goto(t, "locked", [op |-> "close", id |-> i, arg |-> 0, file |-> NULL])
    /\ UNCHANGED <<loglist, open, opens, disk, writes, sets, asked, hist, fault>>

\* The name is freed but stays in the slot, as do the settings except "level".
Close(t) ==
    /\ pc[t] = "locked" /\ loc[t].op = "close"
    /\ LET i == loc[t].id
           s == loglist[i]
           freed == [Trim(s, 0) EXCEPT
                        !.in_use = FALSE, !.level = 2, !.logfile = NULL,
                        !.filename = IF s.filename = NULL THEN NULL ELSE "freed"]
       IN  IF ~s.in_use THEN UNCHANGED <<loglist, open, fault>>
           ELSE /\ Set(i, freed)
                /\ open' = open \ {s.logfile}
                /\ fault' = IF s.filename = "freed" THEN "freed"
                            ELSE IF s.logfile = NULL THEN "none"
                            ELSE UseFile(s.logfile)
    /\ Return(t)
    /\ UNCHANGED <<opens, disk, ids, writes, sets, asked, hist>>

-----------------------------------------------------------------------------
(* log_write, log_write_direct, log_contents                               *)

\* A call that writes the next line to log i.
StartWrite(t, i, o) ==
    /\ writes < MaxWrites /\ writes' = writes + 1
    /\ Goto(t, "locked", [op |-> o, id |-> i, arg |-> writes + 1, file |-> NULL])
    /\ UNCHANGED <<loglist, open, opens, disk, ids, sets, asked, hist, fault>>

\* log_write filters by level before it takes the mutex.
log_write(t, i, p) ==
    /\ "write" \in Ops /\ pc[t] = "idle" /\ i \in ids
    /\ loglist[i].level >= p /\ p \in 1 .. 4
    /\ StartWrite(t, i, "write")

log_write_direct(t, i) ==
    /\ "write_direct" \in Ops /\ pc[t] = "idle" /\ i \in ids
    /\ StartWrite(t, i, "write_direct")

\* Mutant of WantsOpen: rotation only at twice the trigger.
WantsOpenLate(s) ==
    \/ s.logfile = NULL
    \/ s.trigger_level # 0 /\ s.size > 2 * s.trigger_level

\* Is an open of the file wanted?
WantsOpen(s) ==
    \/ s.logfile = NULL
    \/ s.trigger_level # 0 /\ s.size > s.trigger_level

\* Mutant of _log_open: a file that is opened again counts as empty.
OpenSizeZero(s, can) ==
    IF ~WantsOpen(s)
    THEN [ret |-> TRUE, s |-> s, open |-> open, opens |-> opens, disk |-> disk]
    ELSE IF ~can
    THEN [ret |-> FALSE, s |-> [s EXCEPT !.logfile = NULL], open |-> open \ {s.logfile},
          opens |-> opens, disk |-> disk]
    ELSE [ret |-> TRUE, s |-> [s EXCEPT !.logfile = NewFile(s.filename), !.size = 0],
          open |-> (open \ {s.logfile}) \cup {NewFile(s.filename)},
          opens |-> opens + 1, disk |-> disk]

\* _log_open: what it returns and what it makes of slot s, the open FILEs and
\* the disk.  "can" says whether fopen succeeds.  A FILE that is over the
\* trigger is closed and the file of the current name is moved away.
_log_open(s, can) ==
    LET moved  == IF s.logfile = NULL THEN disk ELSE [disk EXCEPT ![s.filename] = 0]
        closed == open \ {s.logfile}
    IN  IF ~s.in_use
        THEN [ret |-> FALSE, s |-> s, open |-> open, opens |-> opens, disk |-> disk]
        ELSE IF ~WantsOpen(s)
        THEN [ret |-> TRUE, s |-> s, open |-> open, opens |-> opens, disk |-> disk]
        ELSE IF s.filename = NULL
        THEN [ret |-> TRUE, s |-> [s EXCEPT !.size = 0],
              open |-> open, opens |-> opens, disk |-> disk]
        ELSE IF ~can
        THEN [ret |-> FALSE, s |-> [s EXCEPT !.logfile = NULL],
              open |-> closed, opens |-> opens, disk |-> moved]
        ELSE [ret |-> TRUE,
              s |-> [s EXCEPT !.logfile = NewFile(s.filename),
                              !.size = moved[s.filename]],
              open |-> closed \cup {NewFile(s.filename)},
              opens |-> opens + 1, disk |-> moved]

\* Mutant of create_log_entry: the length of the evicted line stays in "total".
EvictKeepsTotal(s, e) ==
    LET kept == [e EXCEPT !.len = e.len + 1]
        full == s.entries >= s.keep_entries
        all  == Append(s.list, kept)
    IN  IF s.keep_entries = 0
        THEN [s EXCEPT !.size = s.size + e.len]
        ELSE [s EXCEPT !.size = s.size + kept.len,
                       !.list = IF full THEN Tail(all) ELSE all,
                       !.total = s.total + kept.len,
                       !.entries = IF full THEN s.entries ELSE s.entries + 1]

\* create_log_entry: the slot after line e was written to its FILE.  A kept line
\* counts its terminating NUL; the oldest line makes room for the new one.
create_log_entry(s, e) ==
    LET kept == [e EXCEPT !.len = e.len + 1]
        full == s.entries >= s.keep_entries
        all  == Append(s.list, kept)
    IN  IF s.keep_entries = 0
        THEN [s EXCEPT !.size = s.size + e.len]
        ELSE [s EXCEPT !.size = s.size + kept.len,
                       !.list = IF full THEN Tail(all) ELSE all,
                       !.total = s.total + kept.len - (IF full THEN all[1].len ELSE 0),
                       !.entries = IF full THEN s.entries ELSE s.entries + 1]

\* What the write of line e does, in one critical section.
WriteLocked(i, e, can) ==
    LET o == _log_open(loglist[i], can)
        named == o.s.logfile # NULL /\ o.s.logfile.path # NULL
    IN  /\ opens' = o.opens
        /\ open' = o.open
        /\ IF ~o.ret
           THEN /\ Set(i, o.s)
                /\ disk' = o.disk
                /\ UNCHANGED <<hist, fault>>
           ELSE /\ Set(i, create_log_entry(o.s, e))
                /\ disk' = IF ~named THEN o.disk
                           ELSE [o.disk EXCEPT ![o.s.logfile.path] = @ + e.len]
                /\ hist' = [hist EXCEPT ![i] =
                               IF o.s.keep_entries = 0 THEN @
                               ELSE Append(@, [e EXCEPT !.len = e.len + 1])]
                /\ fault' = IF loglist[i].filename = "freed" /\ WantsOpen(loglist[i])
                            THEN "freed"
                            ELSE IF o.s.logfile = NULL THEN "null"
                            ELSE IF o.s.logfile \notin o.open THEN "closed"
                            ELSE IF o.s.keep_entries # 0 /\ o.s.tail = "freed"
                            THEN "freed" ELSE "none"

Write(t) ==
    /\ pc[t] = "locked" /\ loc[t].op \in {"write", "write_direct"}
    /\ \E n \in Lens, can \in BOOLEAN :
        /\ can => opens < MaxOpens \/ ~WantsOpen(loglist[loc[t].id])
        /\ WriteLocked(loc[t].id, [nr |-> loc[t].arg, len |-> n], can)
    /\ IF loc[t].op = "write" THEN Return(t) ELSE Goto(t, "read_file", loc[t])
    /\ UNCHANGED <<ids, writes, sets, asked>>

\* log_write_direct then reads the FILE pointer without the mutex ...
ReadFile(t) ==
    /\ pc[t] = "read_file"
    /\ Goto(t, "flush", [loc[t] EXCEPT !.file = loglist[loc[t].id].logfile])
    /\ UNCHANGED <<loglist, open, opens, disk, ids, writes, sets, asked, hist, fault>>

\* ... and flushes it.
DirectFlush(t) ==
    /\ pc[t] = "flush"
    /\ fault' = IF loc[t].file = NULL THEN "none" ELSE UseFile(loc[t].file)
    /\ Return(t)
    /\ UNCHANGED <<loglist, open, opens, disk, ids, writes, sets, asked, hist>>

\* log_contents copies the kept lines, each without its NUL, into a buffer of
\* "total" bytes; what does not fit is cut off ("short").
log_contents(t, i) ==
    /\ "contents" \in Ops /\ pc[t] = "idle"
    /\ fault' = IF Sum(loglist[i].list) - Len(loglist[i].list) > loglist[i].total
                THEN "short" ELSE "none"
    /\ UNCHANGED <<loglist, open, opens, disk, pc, loc, ids, writes, sets, asked, hist>>

-----------------------------------------------------------------------------
\* The client may stop when no call is under way.
Idle == (\A t \in Threads : pc[t] = "idle") /\ UNCHANGED vars

Opening(t) == \/ \E n \in Names : log_open(t, n)
              \/ log_open_file(t)
              \/ GetLogId(t) \/ NoMoreLogs(t) \/ SetFile(t) \/ SetName(t)

Setting(t) == \/ \E i \in ids, k \in Triggers : log_set_trigger(t, i, k)
              \/ \E i \in ids, l \in Levels : log_set_level(t, i, l)
              \/ \E i \in ids, n \in KeepCounts : log_set_lines_kept(t, i, n)
              \/ \E i \in ids, n \in Names \cup {NULL} : log_set_filename(t, i, n)
              \/ SetLinesKept(t) \/ SetFilename(t)

Closing(t) == \/ \E i \in ids : log_flush(t, i) \/ log_reopen(t, i) \/ log_close(t, i)
              \/ Flush(t) \/ Reopen(t) \/ Close(t)

Writing(t) == \/ \E i \in ids, p \in Priorities : log_write(t, i, p)
              \/ \E i \in ids : log_write_direct(t, i)
              \/ Write(t) \/ ReadFile(t) \/ DirectFlush(t)
              \/ \E i \in ids : log_contents(t, i)

Next == /\ fault = "none"
        /\ \/ \E t \in Threads : Opening(t) \/ Setting(t) \/ Closing(t) \/ Writing(t)
           \/ Idle

Spec == Init /\ [][Next]_vars
-----------------------------------------------------------------------------
(* Properties                                                              *)

\* No call uses a NULL or closed FILE, a freed name or a freed list entry, and
\* log_contents returns every kept line whole.
NoFault == fault = "none"

\* A log has one owner: the ids that log_open and log_open_file returned, or
\* are about to return, are different and their slots are in use.
SlotExclusive ==
    LET opening == {t \in Threads : pc[t] \in {"set_file", "set_name"}} IN
    /\ \A t, u \in opening : loc[t].id = loc[u].id => t = u
    /\ \A t \in opening : loc[t].id \notin ids /\ loglist[loc[t].id].in_use
    /\ \A i \in ids : loglist[i].in_use

\* The counters agree with the list of kept lines, and the list keeps to the
\* limit: log_contents sizes its buffer by "total", eviction goes by "entries".
Bookkeeping == \A i \in Slots :
    LET s == loglist[i] IN
    /\ s.entries = Len(s.list)
    /\ s.total = Sum(s.list)
    /\ s.entries <= s.keep_entries

\* The lines kept in memory are the last ones written, in order, whatever
\* mixture of writes and changes of the limit came before.
KeptAreLatest == \A i \in ids : IsSuffix(loglist[i].list, hist[i])

\* The size that rotation goes by is never less than what is in the file.
SizeCovers == \A i \in ids :
    LET s == loglist[i] IN
    s.logfile # NULL /\ s.logfile.path # NULL => s.size >= disk[s.logfile.path]

\* Rotation comes in time: a write through a FILE that is open never makes a
\* file longer that is already over the trigger that log_set_trigger was asked
\* for; it starts a new one.  (The first write after a log_reopen may.)
RotatesInTime == [][\A i \in ids :
    LET f == loglist[i].logfile IN
    f # NULL /\ f.path # NULL /\ disk'[f.path] > disk[f.path] =>
        \/ asked[i] = 0
        \/ disk[f.path] <= asked[i]
        \/ disk'[f.path] \in Lens]_vars
=============================================================================
