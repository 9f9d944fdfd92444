----------------------------- MODULE LogProofs -----------------------------
(***************************************************************************)
(* Proofs about Log, for any number of callers, logs, names and lines.     *)
(* First who has a slot, who has a file name, and what "size" is worth.    *)
(* Then what the slots hold.  The kept lines: the counters agree with the  *)
(* list, and the list holds the last lines that were written.  The FILEs   *)
(* and the names: under the conditions named Careful, no call meets one    *)
(* that is closed or freed.                                                *)
(***************************************************************************)
EXTENDS Log, SequenceFacts, TLAPS

-----------------------------------------------------------------------------
(* The inductive invariant                                                 *)

Fields == {"in_use", "level", "filename", "logfile", "size", "trigger_level", "total",
           "entries", "keep_entries", "list", "tail"}

\* What the proofs need to know of the type of a slot.
SlotOK(s) ==
    /\ DOMAIN s = Fields
    /\ s.in_use \in BOOLEAN
    /\ s.filename \in Names \cup {NULL, "freed"}
    /\ s.logfile \in Files \cup {NULL}
    /\ s.size \in Nat /\ s.trigger_level \in Nat

PCs == {"idle", "get_id", "set_file", "set_name", "locked", "read_file", "flush"}

Types ==
    /\ DOMAIN loglist = Slots /\ \A i \in Slots : SlotOK(loglist[i])
    /\ disk \in [Names -> Nat] /\ asked \in [Slots -> Nat]
    /\ pc \in [Threads -> PCs] /\ loc \in [Threads -> LocType]
    /\ ids \subseteq Slots
    /\ opens \in 0 .. MaxOpens /\ writes \in 0 .. MaxWrites

\* Where a caller is, and what its arguments and local variables then are.
OpeningAt(t) == pc[t] \in {"set_file", "set_name"}
ClosingAt(t) == pc[t] = "locked" /\ loc[t].op = "close"
Claims(t) == OpeningAt(t) \/ ClosingAt(t)

Role(t) ==
    /\ pc[t] = "idle" => loc[t] = NoLoc
    /\ pc[t] \in {"read_file", "flush"} => loc[t].op = "write_direct"
    /\ pc[t] \in {"get_id", "set_file", "set_name"} =>
          /\ \/ loc[t].op = "open" /\ loc[t].arg \in Names
             \/ loc[t].op = "open_file" /\ loc[t].arg = NULL
          /\ loc[t].file.path = loc[t].arg
    /\ pc[t] = "get_id" => loc[t].id = -1
    /\ OpeningAt(t) => loc[t].id \in Slots
    /\ pc[t] = "set_name" =>
          /\ loc[t].op = "open"
          /\ loglist[loc[t].id].logfile # NULL => loglist[loc[t].id].logfile.path = loc[t].arg
    /\ pc[t] \in {"locked", "read_file", "flush"} =>
          /\ loc[t].id \in Slots /\ loc[t].op \notin {"open", "open_file", "none"}
          /\ loc[t].op = "set_filename" => loc[t].arg \in Names
          /\ loc[t].op = "null_filename" => loc[t].arg = NULL
          /\ ~ClosingAt(t) => loc[t].id \in ids

Roles == \A t \in Threads : Role(t)

\* A slot belongs to one open, to the client, or to one close.
Owners ==
    /\ \A t, u \in Threads : Claims(t) /\ Claims(u) /\ loc[t].id = loc[u].id => t = u
    /\ \A t \in Threads : Claims(t) => loc[t].id \notin ids /\ loglist[loc[t].id].in_use
    /\ \A i \in ids : loglist[i].in_use

\* A slot that is not in use has neither name nor FILE; one of the client's has no
\* freed name.
Freed ==
    /\ \A i \in Slots : ~loglist[i].in_use =>
          loglist[i].logfile = NULL /\ loglist[i].filename \notin Names
    /\ \A i \in ids : loglist[i].filename # "freed"

\* A file name belongs to one slot, or to one call that is about to store it.
SlotHas(i, n) == \/ loglist[i].filename = n
                 \/ loglist[i].logfile # NULL /\ loglist[i].logfile.path = n
CallHas(t, n) == loc[t].op \in {"open", "set_filename"} /\ loc[t].arg = n

OneSlot(n) == \A i, j \in Slots : SlotHas(i, n) /\ SlotHas(j, n) => i = j
OneCall(n) == \A t, u \in Threads : CallHas(t, n) /\ CallHas(u, n) => t = u
NotBoth(n) == \A t \in Threads, i \in Slots :
                 CallHas(t, n) /\ SlotHas(i, n) => pc[t] = "set_name" /\ loc[t].id = i
Naming == \A n \in Names : OneSlot(n) /\ OneCall(n) /\ NotBoth(n)

IInv == Types /\ Roles /\ Owners /\ Freed /\ Naming

\* The size of a log with a file of its own covers the file, and nobody takes
\* the name away from it.
Covered(i) == LET s == loglist[i] IN
    s.logfile # NULL /\ s.logfile.path # NULL =>
        s.filename # NULL /\ s.size >= disk[s.logfile.path]
SizeInv == \A i \in ids : Covered(i)

Triggered == \A i \in Slots : loglist[i].trigger_level = asked[i]

-----------------------------------------------------------------------------
(* What the operators on slots leave alone                                 *)

\* Two slots that differ in the kept lines, the level, the trigger or the size.
Alike(s, r) == s.in_use = r.in_use /\ s.filename = r.filename

\* log_set_lines_kept and log_close trim the lines, nothing else.
LEMMA TrimKeeps ==
    ASSUME NEW s, SlotOK(s), NEW k
    PROVE  /\ SlotOK(Trim(s, k)) /\ Alike(Trim(s, k), s)
           /\ Trim(s, k).logfile = s.logfile /\ Trim(s, k).size = s.size
           /\ Trim(s, k).trigger_level = s.trigger_level
BY DEF Trim, SlotOK, Alike, Fields

\* create_log_entry adds the line to the size and leaves FILE, name and trigger.
LEMMA EntryKeeps ==
    ASSUME NEW s, SlotOK(s), NEW nr, NEW len \in Nat
    PROVE  LET r == create_log_entry(s, [nr |-> nr, len |-> len]) IN
           /\ SlotOK(r) /\ Alike(r, s) /\ r.logfile = s.logfile
           /\ r.size >= s.size + len
           /\ r.trigger_level = s.trigger_level
           /\ r.keep_entries = s.keep_entries
BY DEF create_log_entry, SlotOK, Alike, Fields

\* _log_open: a slot without a name keeps its FILE, one with a name may get
\* another FILE of that name, and no file but that one changes.
LEMMA OpenKeeps ==
    ASSUME NEW s, SlotOK(s), s.filename # "freed", NEW can \in BOOLEAN,
           disk \in [Names -> Nat], opens \in 0 .. MaxOpens, MaxOpens \in Nat,
           can => opens < MaxOpens \/ ~WantsOpen(s)
    PROVE  LET o == _log_open(s, can) IN
           /\ SlotOK(o.s) /\ Alike(o.s, s)
           /\ o.s.trigger_level = s.trigger_level
           /\ o.opens \in 0 .. MaxOpens /\ o.disk \in [Names -> Nat]
           /\ \A n \in Names : n # s.filename => o.disk[n] = disk[n]
           /\ \/ o.s.logfile \in {NULL, s.logfile}
              \/ s.filename \in Names /\ o.s.logfile.path = s.filename
<1> DEFINE o == _log_open(s, can)
           moved == IF s.logfile = NULL THEN disk ELSE [disk EXCEPT ![s.filename] = 0]
<1>1. CASE ~s.in_use \/ ~WantsOpen(s)
  BY <1>1 DEF _log_open, Alike
<1>2. CASE s.in_use /\ WantsOpen(s) /\ s.filename = NULL
  <2>1. o.s = [s EXCEPT !.size = 0] /\ o.opens = opens /\ o.disk = disk
    BY <1>2 DEF _log_open
  <2> QED
    BY <2>1 DEF SlotOK, Fields, Alike
<1>3. CASE s.in_use /\ WantsOpen(s) /\ s.filename # NULL /\ ~can
  <2>1. o.s = [s EXCEPT !.logfile = NULL] /\ o.opens = opens /\ o.disk = moved
    BY <1>3 DEF _log_open
  <2>2. SlotOK(o.s) /\ Alike(o.s, s)
    BY <2>1 DEF SlotOK, Fields, Alike
  <2>3. o.s.trigger_level = s.trigger_level /\ o.s.logfile = NULL
    BY <2>1 DEF SlotOK, Fields
  <2>4. moved \in [Names -> Nat] /\ \A n \in Names : n # s.filename => moved[n] = disk[n]
    OBVIOUS
  <2> QED
    BY <2>1, <2>2, <2>3, <2>4
<1>4. CASE s.in_use /\ WantsOpen(s) /\ s.filename # NULL /\ can
  <2>1. /\ o.s = [s EXCEPT !.logfile = NewFile(s.filename), !.size = moved[s.filename]]
        /\ o.opens = opens + 1 /\ o.disk = moved
    BY <1>4 DEF _log_open
  <2>2. s.filename \in Names /\ moved \in [Names -> Nat]
    BY <1>4 DEF SlotOK
  <2>3. NewFile(s.filename) \in Files /\ NewFile(s.filename).path = s.filename
    BY <1>4, <2>2 DEF NewFile, Files
  <2>4. SlotOK(o.s) /\ Alike(o.s, s)
    BY <2>1, <2>2, <2>3 DEF SlotOK, Fields, Alike
  <2>5. o.s.trigger_level = s.trigger_level /\ o.s.logfile = NewFile(s.filename)
    BY <2>1 DEF SlotOK, Fields
  <2>8. opens < MaxOpens
    BY <1>4, Zenon
  <2>6. o.opens \in 0 .. MaxOpens
    BY <2>1, <2>8
  <2>7. \A n \in Names : n # s.filename => moved[n] = disk[n]
    OBVIOUS
  <2> QED
    BY <2>1, <2>2, <2>3, <2>4, <2>5, <2>6, <2>7
<1> QED
  BY <1>1, <1>2, <1>3, <1>4

-----------------------------------------------------------------------------
(* The steps                                                               *)

\* The locals of a caller outside any call are well typed.
LEMMA NoLocType == NoLoc \in LocType
BY DEF NoLoc, LocType

\* log_initialize establishes the invariants: no slot in use, no call under way.
LEMMA InitIInv == Init => IInv /\ SizeInv
<1> SUFFICES ASSUME Init PROVE IInv /\ SizeInv
  OBVIOUS
<1>1. Types
  <2>1. \A i \in Slots : SlotOK(loglist[i])
    BY LogAssumption DEF Init, SlotOK, Fields
  <2>2. DOMAIN loglist = Slots /\ disk \in [Names -> Nat] /\ asked \in [Slots -> Nat]
    BY LogAssumption DEF Init
  <2>3. pc \in [Threads -> PCs] /\ loc \in [Threads -> LocType]
    BY NoLocType DEF Init, PCs
  <2>4. ids \subseteq Slots /\ opens \in 0 .. MaxOpens /\ writes \in 0 .. MaxWrites
    BY LogAssumption DEF Init
  <2> QED
    BY <2>1, <2>2, <2>3, <2>4 DEF Types
<1>2. Roles /\ Owners /\ Freed
  BY LogAssumption
  DEF Init, Roles, Role, OpeningAt, ClosingAt, Claims, Owners, Freed, NoLoc
<1>3. Naming
  BY LogAssumption DEF Init, Naming, OneSlot, OneCall, NotBoth, SlotHas, CallHas, NoLoc
<1>4. SizeInv
  BY DEF Init, SizeInv
<1> QED
  BY <1>1, <1>2, <1>3, <1>4 DEF IInv

\* A caller starts to open a log, goes on with a call on one of the client's
\* logs, or returns; the table is as it was.
LEMMA CallerMoves ==
    ASSUME IInv, NEW t \in Threads, NEW p \in PCs, NEW l \in LocType, Goto(t, p, l),
           UNCHANGED <<loglist, disk, asked, ids>>,
           opens' \in 0 .. MaxOpens, writes' \in 0 .. MaxWrites,
           \/ p = "idle" /\ l = NoLoc
           \/ /\ p = "get_id" /\ l.id = -1 /\ l.file.path = l.arg
              /\ \/ l.op = "open" /\ l.arg \in Names /\ NameFree(l.arg)
                 \/ l.op = "open_file" /\ l.arg = NULL
           \/ /\ \/ p = "locked"
                 \/ p \in {"read_file", "flush"} /\ l.op = "write_direct"
              /\ l.id \in ids
              /\ l.op \notin {"open", "open_file", "none", "close"}
              /\ l.op = "set_filename" => l.arg \in Names /\ NameFree(l.arg)
              /\ l.op = "null_filename" => l.arg = NULL
    PROVE  IInv'
<1>1. Types'
  BY DEF IInv, Types, Goto
<1>2. ~Claims(t)' /\ Role(t)'
  BY DEF IInv, Types, Goto, Role, OpeningAt, ClosingAt, Claims, NoLoc
<1>3. \A u \in Threads \ {t} : pc'[u] = pc[u] /\ loc'[u] = loc[u]
  BY DEF IInv, Types, Goto
<1>4. Roles'
  BY <1>2, <1>3 DEF IInv, Roles, Role, OpeningAt, ClosingAt
<1>5. Owners'
  BY <1>2, <1>3 DEF IInv, Owners, Claims, OpeningAt, ClosingAt
<1>6. Freed'
  BY DEF IInv, Freed
<1>7. \A n \in Names : CallHas(t, n)' =>
        /\ \A u \in Threads : ~CallHas(u, n)
        /\ \A i \in Slots : ~SlotHas(i, n)
  BY DEF IInv, Types, Goto, CallHas, SlotHas, NameFree, Freed, NoLoc
<1>8. Naming'
  <2> SUFFICES ASSUME NEW n \in Names PROVE OneSlot(n)' /\ OneCall(n)' /\ NotBoth(n)'
    BY DEF Naming
  <2>1. \A i \in Slots : SlotHas(i, n)' <=> SlotHas(i, n)
    BY DEF SlotHas
  <2>2. \A u \in Threads \ {t} : CallHas(u, n)' <=> CallHas(u, n)
    BY <1>3 DEF CallHas
  <2> QED
    BY <1>3, <1>7, <2>1, <2>2 DEF IInv, Naming, OneSlot, OneCall, NotBoth
<1> QED
  BY <1>1, <1>4, <1>5, <1>6, <1>8 DEF IInv

\* A call on one of the client's logs changes its slot, but not its name; a new
\* FILE is one of that name.  The call goes on or returns.
LEMMA SlotChanges ==
    ASSUME IInv, NEW t \in Threads, NEW i \in ids, NEW s, SlotOK(s), Set(i, s),
           Alike(s, loglist[i]),
           \/ s.logfile \in {NULL, loglist[i].logfile}
           \/ s.filename \in Names /\ s.logfile.path = s.filename,
           \/ Return(t)
           \/ pc[t] = "idle" /\ UNCHANGED <<pc, loc>>
           \/ /\ pc[t] = "locked" /\ loc[t].op = "write_direct"
              /\ Goto(t, "read_file", loc[t]),
           ids' = ids, disk' \in [Names -> Nat], asked' \in [Slots -> Nat],
           opens' \in 0 .. MaxOpens, writes' \in 0 .. MaxWrites
    PROVE  IInv'
<1>1. i \in Slots /\ loglist'[i] = s /\ \A j \in Slots \ {i} : loglist'[j] = loglist[j]
  BY DEF IInv, Types, Set
<1>2. \A u \in Threads \ {t} : pc'[u] = pc[u] /\ loc'[u] = loc[u]
  BY DEF IInv, Types, Goto, Return
<1>3. \/ pc'[t] = "idle" /\ loc'[t] = NoLoc
      \/ /\ pc'[t] = "read_file" /\ loc'[t] = loc[t] /\ loc[t].op = "write_direct"
         /\ loc[t].id \in ids
  BY DEF IInv, Types, Goto, Return, Roles, Role, ClosingAt
<1>4. Types'
  <2>1. DOMAIN loglist' = Slots /\ \A j \in Slots : SlotOK(loglist'[j])
    BY <1>1 DEF IInv, Types, Set
  <2>2. pc' \in [Threads -> PCs] /\ loc' \in [Threads -> LocType]
    BY NoLocType DEF IInv, Types, Goto, Return, PCs
  <2> QED
    BY <2>1, <2>2 DEF IInv, Types, SlotOK
<1>5. ~Claims(t)' /\ Role(t)'
  BY <1>3 DEF IInv, Types, Role, OpeningAt, ClosingAt, Claims, NoLoc
<1>6. \A j \in Slots : Alike(loglist'[j], loglist[j])
  BY <1>1 DEF Alike
<1>7. Roles'
  <2> SUFFICES ASSUME NEW u \in Threads \ {t} PROVE Role(u)'
    BY <1>5 DEF Roles
  <2>1. pc[u] = "set_name" => loc[u].id \in Slots \ {i}
    BY DEF IInv, Roles, Role, Owners, Claims, OpeningAt
  <2> QED
    BY <1>1, <1>2, <2>1 DEF IInv, Roles, Role, OpeningAt, ClosingAt
<1>8. Owners'
  <2>1. \A u \in Threads : Claims(u) => loc[u].id \in Slots
    BY DEF IInv, Roles, Role, Claims, OpeningAt, ClosingAt
  <2> QED
    BY <1>2, <1>5, <1>6, <2>1 DEF IInv, Types, Owners, Claims, OpeningAt, ClosingAt, Alike
<1>9. Freed'
  <2>1. loglist'[i].in_use /\ loglist'[i].filename # "freed"
    BY <1>6 DEF IInv, Types, Owners, Freed, Alike
  <2> QED
    BY <1>1, <2>1 DEF IInv, Types, Freed
<1>10. Naming'
  <2> SUFFICES ASSUME NEW n \in Names PROVE OneSlot(n)' /\ OneCall(n)' /\ NotBoth(n)'
    BY DEF Naming
  <2>1. \A j \in Slots : SlotHas(j, n)' => SlotHas(j, n)
    BY <1>1 DEF SlotHas, Alike
  <2>2. \A u \in Threads : CallHas(u, n)' => CallHas(u, n) /\ u # t
    BY <1>2, <1>3 DEF CallHas, NoLoc
  <2> QED
    BY <1>2, <2>1, <2>2 DEF IInv, Naming, OneSlot, OneCall, NotBoth
<1> QED
  BY <1>4, <1>7, <1>8, <1>9, <1>10 DEF IInv

\* A step of one caller that changes its place.
LEMMA GotoMoves ==
    ASSUME IInv, NEW t \in Threads, NEW p \in PCs, NEW l \in LocType, Goto(t, p, l)
    PROVE  /\ pc' \in [Threads -> PCs] /\ loc' \in [Threads -> LocType]
           /\ pc'[t] = p /\ loc'[t] = l
           /\ \A u \in Threads \ {t} : pc'[u] = pc[u] /\ loc'[u] = loc[u]
BY DEF IInv, Types, Goto

\* A step that changes one slot.
LEMMA SetSlot ==
    ASSUME IInv, NEW i \in Slots, NEW s, SlotOK(s), Set(i, s)
    PROVE  /\ DOMAIN loglist' = Slots /\ \A j \in Slots : SlotOK(loglist'[j])
           /\ loglist'[i] = s /\ \A j \in Slots \ {i} : loglist'[j] = loglist[j]
BY DEF IInv, Types, Set

\* _get_log_id: the slot that it marks was nobody's.
LEMMA GetLogIdKeeps ==
    ASSUME IInv, NEW t \in Threads, GetLogId(t)
    PROVE  IInv'
<1>1. PICK i \in FreeSlots : /\ Set(i, [loglist[i] EXCEPT !.in_use = TRUE])
                            /\ Goto(t, "set_file", [loc[t] EXCEPT !.id = i])
  BY DEF GetLogId
<1> DEFINE s == [loglist[i] EXCEPT !.in_use = TRUE]
           l == [loc[t] EXCEPT !.id = i]
<1>2. i \in Slots /\ ~loglist[i].in_use /\ pc[t] = "get_id"
  BY DEF GetLogId, FreeSlots
<1>3. /\ SlotOK(s) /\ s.in_use /\ s.filename = loglist[i].filename
      /\ s.logfile = loglist[i].logfile
  BY <1>2 DEF IInv, Types, SlotOK, Fields
<1>4. /\ l \in LocType /\ l.id = i
      /\ l.op = loc[t].op /\ l.arg = loc[t].arg /\ l.file = loc[t].file
  BY <1>2 DEF IInv, Types, LocType
<1>5. /\ DOMAIN loglist' = Slots /\ \A j \in Slots : SlotOK(loglist'[j])
      /\ loglist'[i] = s /\ \A j \in Slots \ {i} : loglist'[j] = loglist[j]
  BY <1>1, <1>2, <1>3, SetSlot
<1>6. /\ pc' \in [Threads -> PCs] /\ loc' \in [Threads -> LocType]
      /\ pc'[t] = "set_file" /\ loc'[t] = l
      /\ \A u \in Threads \ {t} : pc'[u] = pc[u] /\ loc'[u] = loc[u]
  BY <1>1, <1>4, GotoMoves DEF PCs
<1>7. Types'
  BY <1>5, <1>6 DEF IInv, Types, GetLogId, SlotOK
<1>8. \A j \in Slots : /\ loglist'[j].filename = loglist[j].filename
                       /\ loglist'[j].logfile = loglist[j].logfile
                       /\ loglist[j].in_use => loglist'[j].in_use
  BY <1>3, <1>5
<1>9. Roles'
  <2>1. Role(t)'
    BY <1>2, <1>4, <1>6 DEF IInv, Roles, Role, OpeningAt, ClosingAt
  <2>2. ASSUME NEW u \in Threads \ {t} PROVE Role(u)'
    <3>1. pc'[u] = pc[u] /\ loc'[u] = loc[u] /\ ids' = ids /\ Role(u)
      BY <1>6 DEF GetLogId, IInv, Roles
    <3> QED
      BY <1>8, <3>1 DEF Role, OpeningAt, ClosingAt
  <2> QED
    BY <2>1, <2>2 DEF Roles
<1>10. \A u \in Threads : Claims(u) => loc[u].id \in Slots \ {i}
  BY <1>2 DEF IInv, Roles, Role, Owners, Claims, OpeningAt, ClosingAt
<1>11. Owners'
  <2>1. ~Claims(t) /\ i \notin ids /\ ids' = ids /\ ids \subseteq Slots
    BY <1>2 DEF IInv, Types, Owners, Claims, OpeningAt, ClosingAt, GetLogId
  <2>2. \A u \in Threads \ {t} : Claims(u)' <=> Claims(u)
    BY <1>6 DEF Claims, OpeningAt, ClosingAt
  <2>3. loc'[t].id = i /\ loglist'[i].in_use
    BY <1>3, <1>4, <1>5, <1>6
  <2>4. \A u \in Threads \ {t} : loc'[u].id = loc[u].id
    BY <1>6
  <2>5. \A u, v \in Threads : Claims(u)' /\ Claims(v)' /\ loc'[u].id = loc'[v].id => u = v
    BY <1>10, <2>2, <2>3, <2>4 DEF IInv, Owners
  <2>6. \A u \in Threads : Claims(u)' => loc'[u].id \notin ids' /\ loglist'[loc'[u].id].in_use
    BY <1>8, <1>10, <2>1, <2>2, <2>3, <2>4 DEF IInv, Owners
  <2>7. \A j \in ids' : loglist'[j].in_use
    BY <1>8, <2>1 DEF IInv, Owners
  <2> QED
    BY <2>5, <2>6, <2>7 DEF Owners
<1>12. Freed'
  BY <1>3, <1>5, <1>8 DEF IInv, Types, Freed, GetLogId
<1>13. Naming'
  <2> SUFFICES ASSUME NEW n \in Names PROVE OneSlot(n)' /\ OneCall(n)' /\ NotBoth(n)'
    BY DEF Naming
  <2>1. \A j \in Slots : SlotHas(j, n)' <=> SlotHas(j, n)
    BY <1>8 DEF SlotHas
  <2>2. \A u \in Threads : CallHas(u, n)' <=> CallHas(u, n)
    BY <1>4, <1>6 DEF CallHas
  <2>3. \A u \in Threads : pc[u] = "set_name" => pc'[u] = pc[u] /\ loc'[u] = loc[u]
    BY <1>2, <1>6
  <2> QED
    BY <2>1, <2>2, <2>3 DEF IInv, Naming, OneSlot, OneCall, NotBoth
<1> QED
  BY <1>7, <1>9, <1>11, <1>12, <1>13 DEF IInv

\* log_open_file: the slot is filled in by the one caller that has it.
LEMMA SetFileKeeps ==
    ASSUME IInv, NEW t \in Threads, SetFile(t)
    PROVE  IInv'
<1>0. PICK i : i = loc[t].id
  OBVIOUS
<1> DEFINE s == [loglist[i] EXCEPT !.logfile = loc[t].file, !.filename = NULL, !.size = 0]
<1>1. /\ pc[t] = "set_file" /\ i \in Slots /\ loc[t] \in LocType
      /\ i \notin ids /\ loglist[i].in_use
  BY <1>0 DEF SetFile, IInv, Types, Roles, Role, Owners, Claims, OpeningAt
<1>2. \/ loc[t].op = "open" /\ loc[t].arg \in Names /\ ids' = ids
      \/ loc[t].op = "open_file" /\ loc[t].arg = NULL /\ ids' = ids \cup {i}
  BY <1>0, <1>1 DEF SetFile, IInv, Roles, Role
<1>3. /\ SlotOK(s) /\ s.in_use /\ s.filename = NULL /\ s.logfile = loc[t].file
      /\ s.logfile.path = loc[t].arg
  <2>1. loc[t].file \in Files \cup {NULL} /\ loc[t].file.path = loc[t].arg
    BY <1>1 DEF LocType, IInv, Roles, Role
  <2> QED
    BY <1>1, <2>1 DEF IInv, Types, SlotOK, Fields
<1>4. /\ DOMAIN loglist' = Slots /\ \A j \in Slots : SlotOK(loglist'[j])
      /\ loglist'[i] = s /\ \A j \in Slots \ {i} : loglist'[j] = loglist[j]
  <2>1. Set(i, s)
    BY <1>0 DEF SetFile
  <2> QED
    BY <1>1, <1>3, <2>1, SetSlot
<1>5. /\ pc' \in [Threads -> PCs] /\ loc' \in [Threads -> LocType]
      /\ \/ loc[t].op = "open" /\ pc'[t] = "set_name" /\ loc'[t] = loc[t] /\ ids' = ids
         \/ /\ loc[t].op = "open_file" /\ pc'[t] = "idle" /\ loc'[t] = NoLoc
            /\ ids' = ids \cup {i}
      /\ \A u \in Threads \ {t} : pc'[u] = pc[u] /\ loc'[u] = loc[u]
  BY <1>0, <1>1, <1>2, NoLocType, GotoMoves DEF SetFile, Return, PCs
<1>6. Types'
  BY <1>1, <1>4, <1>5 DEF IInv, Types, SetFile, SlotOK
<1>7. \A u \in Threads \ {t} : Claims(u) => loc[u].id \in Slots \ {i}
  BY <1>0, <1>1 DEF IInv, Roles, Role, Owners, Claims, OpeningAt, ClosingAt
<1>8. Roles'
  <2>1. Role(t)'
    <3>1. CASE pc'[t] = "set_name" /\ loc'[t] = loc[t] /\ loc[t].op = "open"
      <4>1. loglist'[i].logfile.path = loc[t].arg /\ loc[t].file.path = loc[t].arg
        BY <1>0, <1>1, <1>3, <1>4 DEF IInv, Roles, Role
      <4> QED
        BY <1>0, <1>1, <1>2, <3>1, <4>1 DEF Role, OpeningAt, ClosingAt
    <3>2. CASE pc'[t] = "idle" /\ loc'[t] = NoLoc
      BY <3>2 DEF Role, OpeningAt, ClosingAt
    <3> QED
      BY <1>5, <3>1, <3>2
  <2>2. ASSUME NEW u \in Threads \ {t} PROVE Role(u)'
    <3>1. pc'[u] = pc[u] /\ loc'[u] = loc[u] /\ Role(u) /\ ids \subseteq ids'
      BY <1>5 DEF IInv, Roles
    <3>2. pc[u] = "set_name" => loglist'[loc[u].id] = loglist[loc[u].id]
      BY <1>4, <1>7 DEF Claims, OpeningAt
    <3> QED
      BY <3>1, <3>2 DEF Role, OpeningAt, ClosingAt
  <2> QED
    BY <2>1, <2>2 DEF Roles
<1>9. Owners'
  <2>1. \A u \in Threads \ {t} : Claims(u)' <=> Claims(u)
    BY <1>5 DEF Claims, OpeningAt, ClosingAt
  <2>2. \A j \in Slots : loglist'[j].in_use = loglist[j].in_use
    BY <1>1, <1>3, <1>4, ZenonT(40)
  <2>3. \/ Claims(t)' /\ loc'[t].id = i /\ ids' = ids
        \/ ~Claims(t)' /\ ids' = ids \cup {i}
    BY <1>0, <1>5 DEF Claims, OpeningAt, ClosingAt
  <2> QED
    BY <1>1, <1>5, <1>7, <2>1, <2>2, <2>3 DEF IInv, Types, Owners
<1>10. Freed'
  <2>1. loglist'[i].in_use /\ loglist'[i].filename # "freed"
    BY <1>1, <1>3, <1>4, LogAssumption
  <2>2. ids' \subseteq ids \cup {i} /\ ids \subseteq Slots
    BY <1>5 DEF IInv, Types
  <2> QED
    BY <1>4, <2>1, <2>2 DEF IInv, Freed
<1>11. Naming'
  <2> SUFFICES ASSUME NEW n \in Names PROVE OneSlot(n)' /\ OneCall(n)' /\ NotBoth(n)'
    BY DEF Naming
  <2>1. SlotHas(i, n)' => CallHas(t, n) /\ loc'[t] = loc[t] /\ pc'[t] = "set_name"
    <3>1. NULL # n
      BY LogAssumption
    <3>2. SlotHas(i, n)' => loc[t].arg = n
      BY <1>3, <1>4, <3>1, Zenon DEF SlotHas
    <3> QED
      BY <1>2, <1>5, <3>1, <3>2 DEF CallHas
  <2>2. \A j \in Slots \ {i} : SlotHas(j, n)' <=> SlotHas(j, n)
    BY <1>4 DEF SlotHas
  <2>3. \A u \in Threads : CallHas(u, n)' => CallHas(u, n)
    BY <1>5 DEF CallHas, NoLoc
  <2>4. \A j \in Slots : CallHas(t, n) => ~SlotHas(j, n)
    BY <1>1 DEF IInv, Naming, NotBoth
  <2>5. OneSlot(n)' /\ OneCall(n)'
    BY <2>1, <2>2, <2>3, <2>4 DEF IInv, Naming, OneSlot, OneCall
  <2>6. NotBoth(n)'
    <3> SUFFICES ASSUME NEW u \in Threads, NEW j \in Slots, CallHas(u, n)', SlotHas(j, n)'
                 PROVE  pc'[u] = "set_name" /\ loc'[u].id = j
      BY DEF NotBoth
    <3>1. CASE j = i
      BY <1>0, <2>1, <2>3, <3>1 DEF IInv, Naming, OneCall
    <3>2. CASE j # i
      BY <1>5, <2>2, <2>3, <2>4, <3>2 DEF IInv, Naming, NotBoth
    <3> QED
      BY <3>1, <3>2
  <2> QED
    BY <2>5, <2>6
<1> QED
  BY <1>6, <1>8, <1>9, <1>10, <1>11 DEF IInv

\* log_open: the name is stored in the slot by the call that has it.
LEMMA SetNameKeeps ==
    ASSUME IInv, NEW t \in Threads, SetName(t)
    PROVE  IInv'
<1>0. PICK i : i = loc[t].id
  OBVIOUS
<1>a. PICK a : a = loc[t].arg
  OBVIOUS
<1> DEFINE s == [loglist[i] EXCEPT !.filename = a, !.size = disk[a],
                                   !.entries = 0, !.list = <<>>, !.tail = "ok"]
<1>1. /\ pc[t] = "set_name" /\ i \in Slots /\ a \in Names /\ loc[t].op = "open"
      /\ i \notin ids /\ loglist[i].in_use /\ SlotOK(loglist[i])
      /\ loglist[i].logfile # NULL => loglist[i].logfile.path = a
  BY <1>0, <1>a DEF SetName, IInv, Types, Roles, Role, Owners, Claims, OpeningAt
<1>2. SlotOK(s) /\ s.in_use /\ s.filename = a /\ s.logfile = loglist[i].logfile
  BY <1>1 DEF IInv, Types, SlotOK, Fields
<1>3. /\ DOMAIN loglist' = Slots /\ \A j \in Slots : SlotOK(loglist'[j])
      /\ loglist'[i] = s /\ \A j \in Slots \ {i} : loglist'[j] = loglist[j]
  <2>1. Set(i, s)
    BY <1>0, <1>a DEF SetName
  <2> QED
    BY <1>1, <1>2, <2>1, SetSlot
<1>4. /\ pc' \in [Threads -> PCs] /\ loc' \in [Threads -> LocType]
      /\ pc'[t] = "idle" /\ loc'[t] = NoLoc
      /\ \A u \in Threads \ {t} : pc'[u] = pc[u] /\ loc'[u] = loc[u]
  BY NoLocType, GotoMoves DEF SetName, Return, PCs
<1>5. ids' = ids \cup {i}
  BY <1>0 DEF SetName
<1>6. Types'
  BY <1>1, <1>3, <1>4, <1>5 DEF IInv, Types, SetName, SlotOK
<1>7. \A u \in Threads \ {t} : Claims(u) => loc[u].id \in Slots \ {i}
  BY <1>0, <1>1 DEF IInv, Roles, Role, Owners, Claims, OpeningAt, ClosingAt
<1>8. Roles'
  <2>1. Role(t)'
    BY <1>4 DEF Role, OpeningAt, ClosingAt
  <2>2. ASSUME NEW u \in Threads \ {t} PROVE Role(u)'
    <3>1. pc'[u] = pc[u] /\ loc'[u] = loc[u] /\ Role(u) /\ ids \subseteq ids'
      BY <1>4, <1>5 DEF IInv, Roles
    <3>2. pc[u] = "set_name" => loglist'[loc[u].id] = loglist[loc[u].id]
      BY <1>3, <1>7 DEF Claims, OpeningAt
    <3> QED
      BY <3>1, <3>2 DEF Role, OpeningAt, ClosingAt
  <2> QED
    BY <2>1, <2>2 DEF Roles
<1>9. Owners'
  <2>1. \A u \in Threads \ {t} : Claims(u)' <=> Claims(u)
    BY <1>4 DEF Claims, OpeningAt, ClosingAt
  <2>2. \A j \in Slots : loglist[j].in_use => loglist'[j].in_use
    BY <1>2, <1>3, Zenon
  <2>3. ~Claims(t)'
    BY <1>4 DEF Claims, OpeningAt, ClosingAt
  <2> QED
    BY <1>1, <1>4, <1>5, <1>7, <2>1, <2>2, <2>3 DEF IInv, Types, Owners
<1>10. Freed'
  <2>1. loglist'[i].in_use /\ loglist'[i].filename # "freed"
    BY <1>1, <1>2, <1>3, LogAssumption
  <2> QED
    BY <1>3, <1>5, <2>1 DEF IInv, Types, Freed
<1>11. Naming'
  <2> SUFFICES ASSUME NEW n \in Names PROVE OneSlot(n)' /\ OneCall(n)' /\ NotBoth(n)'
    BY DEF Naming
  <2>1. SlotHas(i, n)' => CallHas(t, n)
    <3>1. /\ loglist'[i].filename = a
          /\ loglist'[i].logfile # NULL => loglist'[i].logfile.path = a
      BY <1>1, <1>2, <1>3, Zenon
    <3> QED
      BY <1>a, <1>1, <3>1 DEF SlotHas, CallHas
  <2>2. \A j \in Slots \ {i} : SlotHas(j, n)' <=> SlotHas(j, n)
    BY <1>3 DEF SlotHas
  <2>3. \A u \in Threads : CallHas(u, n)' => CallHas(u, n) /\ u # t
    BY <1>4 DEF CallHas, NoLoc
  <2>4. \A j \in Slots : CallHas(t, n) /\ SlotHas(j, n) => j = i
    BY <1>0 DEF IInv, Naming, NotBoth
  <2> QED
    BY <1>4, <2>1, <2>2, <2>3, <2>4 DEF IInv, Naming, OneSlot, OneCall, NotBoth
<1> QED
  BY <1>6, <1>8, <1>9, <1>10, <1>11 DEF IInv

\* log_set_filename: the slot gets the name that the call has, or none.
LEMMA SetFilenameKeeps ==
    ASSUME IInv, NEW t \in Threads, SetFilename(t)
    PROVE  IInv'
<1>0. PICK i : i = loc[t].id
  OBVIOUS
<1>a. PICK a : a = loc[t].arg
  OBVIOUS
<1> DEFINE s == [loglist[i] EXCEPT !.filename = a]
<1>1. /\ pc[t] = "locked" /\ i \in Slots /\ i \in ids /\ loglist[i].in_use
      /\ SlotOK(loglist[i])
      /\ \/ loc[t].op = "set_filename" /\ a \in Names
         \/ loc[t].op = "null_filename" /\ a = NULL
  <2>1. pc[t] = "locked" /\ loc[t].op \in {"set_filename", "null_filename"} /\ Role(t)
    BY DEF SetFilename, IInv, Roles
  <2>2. ~ClosingAt(t)
    BY <2>1 DEF ClosingAt
  <2>3. i \in Slots /\ i \in ids
    BY <1>0, <2>1, <2>2 DEF Role
  <2>4. \/ loc[t].op = "set_filename" /\ a \in Names
        \/ loc[t].op = "null_filename" /\ a = NULL
    BY <1>a, <2>1 DEF Role
  <2>5. loglist[i].in_use /\ SlotOK(loglist[i])
    BY <2>3 DEF IInv, Types, Owners
  <2> QED
    BY <2>1, <2>3, <2>4, <2>5
<1>2. SlotOK(s) /\ s.in_use /\ s.filename = a /\ s.logfile = loglist[i].logfile
  BY <1>1 DEF IInv, Types, SlotOK, Fields
<1>3. /\ DOMAIN loglist' = Slots /\ \A j \in Slots : SlotOK(loglist'[j])
      /\ loglist'[i] = s /\ \A j \in Slots \ {i} : loglist'[j] = loglist[j]
  <2>1. Set(i, s)
    BY <1>0, <1>a DEF SetFilename
  <2> QED
    BY <1>1, <1>2, <2>1, SetSlot
<1>4. /\ pc' \in [Threads -> PCs] /\ loc' \in [Threads -> LocType]
      /\ pc'[t] = "idle" /\ loc'[t] = NoLoc
      /\ \A u \in Threads \ {t} : pc'[u] = pc[u] /\ loc'[u] = loc[u]
  BY NoLocType, GotoMoves DEF SetFilename, Return, PCs
<1>5. ids' = ids
  BY DEF SetFilename
<1>6. Types'
  BY <1>1, <1>3, <1>4, <1>5 DEF IInv, Types, SetFilename, SlotOK
<1>7. \A u \in Threads : Claims(u) => u # t /\ loc[u].id \in Slots \ {i}
  BY <1>0, <1>1 DEF IInv, Roles, Role, Owners, Claims, OpeningAt, ClosingAt
<1>8. Roles'
  <2>1. Role(t)'
    BY <1>4 DEF Role, OpeningAt, ClosingAt
  <2>2. ASSUME NEW u \in Threads \ {t} PROVE Role(u)'
    <3>1. pc'[u] = pc[u] /\ loc'[u] = loc[u] /\ Role(u) /\ ids \subseteq ids'
      BY <1>4, <1>5 DEF IInv, Roles
    <3>2. pc[u] = "set_name" => loglist'[loc[u].id] = loglist[loc[u].id]
      BY <1>3, <1>7 DEF Claims, OpeningAt
    <3> QED
      BY <3>1, <3>2 DEF Role, OpeningAt, ClosingAt
  <2> QED
    BY <2>1, <2>2 DEF Roles
<1>9. Owners'
  <2>1. \A u \in Threads : Claims(u)' => Claims(u) /\ u # t
    BY <1>4 DEF Claims, OpeningAt, ClosingAt
  <2>2. \A j \in Slots : loglist[j].in_use => loglist'[j].in_use
    BY <1>2, <1>3, Zenon
  <2> QED
    BY <1>1, <1>4, <1>5, <1>7, <2>1, <2>2 DEF IInv, Types, Owners
<1>10. Freed'
  <2>1. loglist'[i].in_use /\ loglist'[i].filename # "freed"
    BY <1>1, <1>2, <1>3, LogAssumption
  <2> QED
    BY <1>3, <1>5, <2>1 DEF IInv, Types, Freed
<1>11. Naming'
  <2> SUFFICES ASSUME NEW n \in Names PROVE OneSlot(n)' /\ OneCall(n)' /\ NotBoth(n)'
    BY DEF Naming
  <2>1. SlotHas(i, n)' => CallHas(t, n) \/ SlotHas(i, n)
    <3>1. NULL # n
      BY LogAssumption
    <3>2. loglist'[i].filename = a /\ loglist'[i].logfile = loglist[i].logfile
      BY <1>2, <1>3, Zenon
    <3> QED
      BY <1>a, <1>1, <3>1, <3>2 DEF SlotHas, CallHas
  <2>2. \A j \in Slots \ {i} : SlotHas(j, n)' <=> SlotHas(j, n)
    BY <1>3 DEF SlotHas
  <2>3. \A u \in Threads : CallHas(u, n)' => CallHas(u, n) /\ u # t
    BY <1>4 DEF CallHas, NoLoc
  <2>4. \A j \in Slots : CallHas(t, n) => ~SlotHas(j, n)
    BY <1>1 DEF IInv, Naming, NotBoth
  <2> QED
    BY <1>4, <2>1, <2>2, <2>3, <2>4 DEF IInv, Naming, OneSlot, OneCall, NotBoth
<1> QED
  BY <1>6, <1>8, <1>9, <1>10, <1>11 DEF IInv

\* log_close: from now on the slot belongs to this call.
LEMMA log_closeKeeps ==
    ASSUME IInv, NEW t \in Threads, NEW i \in ids, log_close(t, i)
    PROVE  IInv'
<1> DEFINE l == [op |-> "close", id |-> i, arg |-> 0, file |-> NULL]
<1>1. i \in Slots /\ l \in LocType
  BY DEF IInv, Types, LocType, log_close
<1>2. /\ pc' \in [Threads -> PCs] /\ loc' \in [Threads -> LocType]
      /\ pc'[t] = "locked" /\ loc'[t] = l
      /\ \A u \in Threads \ {t} : pc'[u] = pc[u] /\ loc'[u] = loc[u]
  BY <1>1, GotoMoves DEF log_close, PCs
<1>3. /\ pc[t] = "idle" /\ ids' = ids \ {i} /\ loglist' = loglist
      /\ \A u \in Threads : loc[u].id # i
  BY DEF log_close, Busy
<1>4. Types'
  BY <1>2, <1>3 DEF IInv, Types, log_close, SlotOK
<1>5. Roles'
  <2>1. Role(t)'
    BY <1>1, <1>2 DEF Role, OpeningAt, ClosingAt
  <2>2. ASSUME NEW u \in Threads \ {t} PROVE Role(u)'
    BY <1>2, <1>3 DEF IInv, Roles, Role, OpeningAt, ClosingAt
  <2> QED
    BY <2>1, <2>2 DEF Roles
<1>6. Owners'
  <2>1. \A u \in Threads \ {t} : Claims(u)' => Claims(u)
    BY <1>2 DEF Claims, OpeningAt, ClosingAt
  <2>2. loc'[t].id = i /\ i \notin ids' /\ loglist'[i].in_use
    BY <1>2, <1>3 DEF IInv, Owners
  <2>3. \A u \in Threads \ {t} : loc'[u].id = loc[u].id /\ loc[u].id # i
    BY <1>2, <1>3
  <2> QED
    BY <1>3, <2>1, <2>2, <2>3 DEF IInv, Owners
<1>7. Freed'
  BY <1>3 DEF IInv, Freed
<1>8. Naming'
  <2> SUFFICES ASSUME NEW n \in Names PROVE OneSlot(n)' /\ OneCall(n)' /\ NotBoth(n)'
    BY DEF Naming
  <2>1. \A j \in Slots : SlotHas(j, n)' <=> SlotHas(j, n)
    BY <1>3 DEF SlotHas
  <2>2. \A u \in Threads : CallHas(u, n)' => CallHas(u, n) /\ u # t
    BY <1>2 DEF CallHas
  <2> QED
    BY <1>2, <2>1, <2>2 DEF IInv, Naming, OneSlot, OneCall, NotBoth
<1> QED
  BY <1>4, <1>5, <1>6, <1>7, <1>8 DEF IInv

\* log_close: the slot goes back to the table without FILE and name.
LEMMA CloseKeeps ==
    ASSUME IInv, NEW t \in Threads, Close(t)
    PROVE  IInv'
<1>0. PICK i : i = loc[t].id
  OBVIOUS
<1> DEFINE s == [Trim(loglist[i], 0) EXCEPT
                    !.in_use = FALSE, !.level = 2, !.logfile = NULL,
                    !.filename = IF loglist[i].filename = NULL THEN NULL ELSE "freed"]
<1>1. pc[t] = "locked" /\ i \in Slots /\ i \notin ids /\ loglist[i].in_use /\ Claims(t)
  BY <1>0 DEF Close, IInv, Roles, Role, Owners, Claims, ClosingAt
<1>2. SlotOK(s) /\ ~s.in_use /\ s.filename \in {NULL, "freed"} /\ s.logfile = NULL
  <2>1. SlotOK(Trim(loglist[i], 0))
    BY <1>1, TrimKeeps DEF IInv, Types
  <2> QED
    BY <2>1 DEF SlotOK, Fields
<1>3. /\ DOMAIN loglist' = Slots /\ \A j \in Slots : SlotOK(loglist'[j])
      /\ loglist'[i] = s /\ \A j \in Slots \ {i} : loglist'[j] = loglist[j]
  <2>1. Set(i, s)
    BY <1>0, <1>1 DEF Close
  <2> HIDE DEF s
  <2> QED
    BY <1>1, <1>2, <2>1, SetSlot
<1>4. /\ pc' \in [Threads -> PCs] /\ loc' \in [Threads -> LocType]
      /\ pc'[t] = "idle" /\ loc'[t] = NoLoc
      /\ \A u \in Threads \ {t} : pc'[u] = pc[u] /\ loc'[u] = loc[u]
  BY NoLocType, GotoMoves DEF Close, Return, PCs
<1>5. ids' = ids
  BY DEF Close
<1> HIDE DEF s
<1>6. Types'
  BY <1>3, <1>4, <1>5 DEF IInv, Types, Close, SlotOK
<1>7. \A u \in Threads \ {t} : Claims(u) => loc[u].id \in Slots \ {i}
  BY <1>0, <1>1 DEF IInv, Roles, Role, Owners, Claims, OpeningAt, ClosingAt
<1>8. Roles'
  <2>1. Role(t)'
    BY <1>4 DEF Role, OpeningAt, ClosingAt
  <2>2. ASSUME NEW u \in Threads \ {t} PROVE Role(u)'
    <3>1. pc'[u] = pc[u] /\ loc'[u] = loc[u] /\ Role(u) /\ ids \subseteq ids'
      BY <1>4, <1>5 DEF IInv, Roles
    <3>2. pc[u] = "set_name" => loglist'[loc[u].id] = loglist[loc[u].id]
      BY <1>3, <1>7 DEF Claims, OpeningAt
    <3> QED
      BY <3>1, <3>2 DEF Role, OpeningAt, ClosingAt
  <2> QED
    BY <2>1, <2>2 DEF Roles
<1>9. Owners'
  <2>1. \A u \in Threads : Claims(u)' => Claims(u) /\ u # t
    BY <1>4 DEF Claims, OpeningAt, ClosingAt
  <2>2. \A j \in Slots \ {i} : loglist'[j].in_use = loglist[j].in_use
    BY <1>3
  <2> QED
    BY <1>1, <1>4, <1>5, <1>7, <2>1, <2>2 DEF IInv, Types, Owners
<1>10. Freed'
  <2>1. loglist'[i].filename \notin Names /\ loglist'[i].logfile = NULL
    BY <1>2, <1>3, LogAssumption
  <2> QED
    BY <1>1, <1>3, <1>5, <2>1 DEF IInv, Types, Freed
<1>11. Naming'
  <2> SUFFICES ASSUME NEW n \in Names PROVE OneSlot(n)' /\ OneCall(n)' /\ NotBoth(n)'
    BY DEF Naming
  <2>1. ~SlotHas(i, n)'
    BY <1>2, <1>3, LogAssumption DEF SlotHas
  <2>2. \A j \in Slots \ {i} : SlotHas(j, n)' <=> SlotHas(j, n)
    BY <1>3 DEF SlotHas
  <2>3. \A u \in Threads : CallHas(u, n)' => CallHas(u, n) /\ u # t
    BY <1>4 DEF CallHas, NoLoc
  <2> QED
    BY <1>4, <2>1, <2>2, <2>3 DEF IInv, Naming, OneSlot, OneCall, NotBoth
<1> QED
  BY <1>6, <1>8, <1>9, <1>10, <1>11 DEF IInv

\* The line goes into the slot of the log and into the file of its FILE.
LEMMA WriteKeeps ==
    ASSUME IInv, NEW t \in Threads, Write(t)
    PROVE  IInv'
<1>0. PICK i : i = loc[t].id
  OBVIOUS
<1>1. /\ pc[t] = "locked" /\ loc[t].op \in {"write", "write_direct"}
      /\ i \in ids /\ i \in Slots /\ SlotOK(loglist[i]) /\ loglist[i].filename # "freed"
      /\ loc[t] \in LocType
  <2>1. pc[t] = "locked" /\ loc[t].op \in {"write", "write_direct"} /\ Role(t)
    BY DEF Write, IInv, Roles
  <2>2. i \in ids
    BY <1>0, <2>1 DEF Role, ClosingAt
  <2> QED
    BY <2>1, <2>2 DEF IInv, Types, Freed
<1>2. PICK len \in Lens, can \in BOOLEAN :
        /\ can => opens < MaxOpens \/ ~WantsOpen(loglist[i])
        /\ WriteLocked(i, [nr |-> loc[t].arg, len |-> len], can)
  BY <1>0 DEF Write
<1> DEFINE o == _log_open(loglist[i], can)
           e == [nr |-> loc[t].arg, len |-> len]
<1>3. /\ SlotOK(o.s) /\ Alike(o.s, loglist[i])
      /\ o.opens \in 0 .. MaxOpens /\ o.disk \in [Names -> Nat]
      /\ \/ o.s.logfile \in {NULL, loglist[i].logfile}
         \/ loglist[i].filename \in Names /\ o.s.logfile.path = loglist[i].filename
  <2>1. disk \in [Names -> Nat] /\ opens \in 0 .. MaxOpens /\ MaxOpens \in Nat
    BY LogAssumption DEF IInv, Types
  <2> QED
    BY <1>1, <1>2, <2>1, OpenKeeps
<1>4. opens' = o.opens /\ opens' \in 0 .. MaxOpens
  BY <1>2, <1>3 DEF WriteLocked
<1> HIDE DEF o
<1>5. disk' \in [Names -> Nat]
  <2>0. len \in Nat
    BY <1>2, LogAssumption
  <2>1. ASSUME NEW d \in [Names -> Nat], NEW n
        PROVE  [d EXCEPT ![n] = d[n] + len] \in [Names -> Nat]
    <3>1. n \in Names => d[n] + len \in Nat
      BY <2>0
    <3> QED
      BY <3>1
  <2>2. \/ disk' = o.disk
        \/ disk' = [o.disk EXCEPT ![o.s.logfile.path] = @ + len]
    BY <1>2 DEF WriteLocked, o
  <2> QED
    BY <1>3, <2>1, <2>2
<1>6. PICK s : /\ SlotOK(s) /\ Alike(s, loglist[i]) /\ Set(i, s)
               /\ s.logfile = o.s.logfile
  <2>1. CASE ~o.ret
    BY <1>2, <1>3, <2>1 DEF WriteLocked, o
  <2>2. CASE o.ret
    <3>1. Set(i, create_log_entry(o.s, [nr |-> loc[t].arg, len |-> len]))
      BY <1>2, <2>2 DEF WriteLocked, o
    <3>2. len \in Nat
      BY <1>2, LogAssumption
    <3> QED
      BY <1>3, <3>1, <3>2, EntryKeeps DEF Alike
  <2> QED
    BY <2>1, <2>2
<1>7. \/ s.logfile \in {NULL, loglist[i].logfile}
      \/ s.filename \in Names /\ s.logfile.path = s.filename
  BY <1>3, <1>6 DEF Alike
<1>8. \/ Return(t)
      \/ /\ pc[t] = "locked" /\ loc[t].op = "write_direct"
         /\ Goto(t, "read_file", loc[t])
  BY <1>1 DEF Write
<1>9. ids' = ids /\ asked' \in [Slots -> Nat] /\ writes' \in 0 .. MaxWrites
  BY DEF Write, IInv, Types
<1> QED
  BY <1>1, <1>4, <1>5, <1>6, <1>7, <1>8, <1>9, SlotChanges

\* A call begins; the slots stay as they are.
LEMMA OpeningKeeps ==
    ASSUME IInv, NEW t \in Threads, Opening(t)
    PROVE  IInv'
<1>1. ASSUME NEW n \in Names, log_open(t, n) PROVE IInv'
  <2> DEFINE l == [op |-> "open", id |-> -1, arg |-> n, file |-> NewFile(n)]
  <2>1. opens \in 0 .. MaxOpens /\ opens < MaxOpens /\ MaxOpens \in Nat
    BY <1>1, LogAssumption DEF log_open, IInv, Types
  <2>2. l \in LocType /\ l.file.path = l.arg
    BY <1>1, <2>1 DEF log_open, LocType, NewFile, Files
  <2>3. opens' \in 0 .. MaxOpens /\ writes' \in 0 .. MaxWrites
    BY <1>1, <2>1 DEF log_open, IInv, Types
  <2> QED
    BY <1>1, <2>2, <2>3, CallerMoves DEF log_open, PCs
<1>2. ASSUME log_open_file(t) PROVE IInv'
  <2> DEFINE l == [op |-> "open_file", id |-> -1, arg |-> NULL, file |-> NewFile(NULL)]
  <2>1. opens \in 0 .. MaxOpens /\ opens < MaxOpens /\ MaxOpens \in Nat
    BY <1>2, LogAssumption DEF log_open_file, IInv, Types
  <2>2. l \in LocType /\ l.file.path = l.arg
    BY <1>2, <2>1 DEF log_open_file, LocType, NewFile, Files
  <2>3. opens' \in 0 .. MaxOpens /\ writes' \in 0 .. MaxWrites
    BY <1>2, <2>1 DEF log_open_file, IInv, Types
  <2> QED
    BY <1>2, <2>2, <2>3, CallerMoves DEF log_open_file, PCs
<1>3. ASSUME NoMoreLogs(t) PROVE IInv'
  BY <1>3, NoLocType, CallerMoves DEF NoMoreLogs, Return, PCs, IInv, Types
<1> QED
  BY <1>1, <1>2, <1>3, GetLogIdKeeps, SetFileKeeps, SetNameKeeps DEF Opening

\* An operation that checks the slot before it takes the mutex.
LEMMA CheckedKeeps ==
    ASSUME IInv, NEW t \in Threads, NEW i \in ids, NEW o, NEW a, Checked(t, i, o, a),
           o \in {"keep", "flush", "set_filename", "null_filename"},
           a \in Nat \cup Names \cup {NULL},
           o = "set_filename" => a \in Names /\ NameFree(a),
           o = "null_filename" => a = NULL
    PROVE  IInv'
<1> DEFINE l == [op |-> o, id |-> i, arg |-> a, file |-> NULL]
<1>1. l \in LocType
  BY DEF Checked, LocType, IInv, Types
<1>2. opens' \in 0 .. MaxOpens /\ writes' \in 0 .. MaxWrites
  BY DEF Checked, IInv, Types
<1> QED
  BY <1>1, <1>2, CallerMoves DEF Checked, PCs

\* log_set_trigger and log_set_level: one field each, without the mutex.
LEMMA AssignKeeps ==
    ASSUME IInv, NEW t \in Threads, NEW i \in ids,
           \/ \E k \in Triggers : log_set_trigger(t, i, k)
           \/ \E l \in Levels : log_set_level(t, i, l)
    PROVE  IInv'
<1>0. i \in Slots /\ SlotOK(loglist[i])
  BY DEF IInv, Types
<1>1. ASSUME NEW k \in Triggers, log_set_trigger(t, i, k) PROVE IInv'
  <2>1. (k * Kilo) % UIntRange \in Nat /\ k * Kilo \in Nat
    BY LogAssumption
  <2> DEFINE s == [loglist[i] EXCEPT !.trigger_level = (k * Kilo) % UIntRange]
  <2>2. SlotOK(s) /\ Alike(s, loglist[i]) /\ s.logfile = loglist[i].logfile
    BY <1>0, <2>1 DEF SlotOK, Fields, Alike
  <2>3. Set(i, s) /\ pc[t] = "idle" /\ UNCHANGED <<pc, loc>>
    BY <1>1 DEF log_set_trigger
  <2>4. /\ ids' = ids /\ disk' \in [Names -> Nat] /\ asked' \in [Slots -> Nat]
        /\ opens' \in 0 .. MaxOpens /\ writes' \in 0 .. MaxWrites
    BY <1>1, <2>1 DEF log_set_trigger, IInv, Types
  <2> HIDE DEF s
  <2> QED
    BY <2>2, <2>3, <2>4, SlotChanges
<1>2. ASSUME NEW l \in Levels, log_set_level(t, i, l) PROVE IInv'
  <2> DEFINE s == [loglist[i] EXCEPT !.level = l]
  <2>2. SlotOK(s) /\ Alike(s, loglist[i]) /\ s.logfile = loglist[i].logfile
    BY <1>0 DEF SlotOK, Fields, Alike
  <2>3. Set(i, s) /\ pc[t] = "idle" /\ UNCHANGED <<pc, loc>>
    BY <1>2 DEF log_set_level
  <2>4. /\ ids' = ids /\ disk' \in [Names -> Nat] /\ asked' \in [Slots -> Nat]
        /\ opens' \in 0 .. MaxOpens /\ writes' \in 0 .. MaxWrites
    BY <1>2 DEF log_set_level, IInv, Types
  <2> HIDE DEF s
  <2> QED
    BY <2>2, <2>3, <2>4, SlotChanges
<1> QED
  BY <1>1, <1>2

\* The settings of a log.
LEMMA SettingKeeps ==
    ASSUME IInv, NEW t \in Threads, Setting(t)
    PROVE  IInv'
<1>1. ASSUME NEW i \in ids, NEW n \in KeepCounts, log_set_lines_kept(t, i, n) PROVE IInv'
  BY <1>1, CheckedKeeps, LogAssumption DEF log_set_lines_kept
<1>2. ASSUME NEW i \in ids, NEW n \in Names \cup {NULL}, log_set_filename(t, i, n) PROVE IInv'
  <2>1. CASE n = NULL
    BY <1>2, <2>1, CheckedKeeps DEF log_set_filename
  <2>2. CASE n # NULL
    BY <1>2, <2>2, CheckedKeeps DEF log_set_filename
  <2> QED
    BY <2>1, <2>2
<1>3. ASSUME SetLinesKept(t) PROVE IInv'
  <2>0. PICK i : i = loc[t].id
    OBVIOUS
  <2>1. i \in ids /\ i \in Slots /\ SlotOK(loglist[i])
    <3>1. pc[t] = "locked" /\ loc[t].op = "keep" /\ Role(t)
      BY <1>3 DEF SetLinesKept, IInv, Roles
    <3> QED
      BY <2>0, <3>1 DEF Role, ClosingAt, IInv, Types
  <2> DEFINE k == [loglist[i] EXCEPT !.keep_entries = loc[t].arg]
             s == Trim(k, loc[t].arg)
  <2>2. SlotOK(k) /\ Alike(k, loglist[i]) /\ k.logfile = loglist[i].logfile
    BY <2>1 DEF SlotOK, Fields, Alike
  <2>3. Set(i, s) /\ Return(t)
    BY <1>3, <2>0 DEF SetLinesKept
  <2> HIDE DEF k
  <2>4. SlotOK(s) /\ Alike(s, loglist[i]) /\ s.logfile = loglist[i].logfile
    BY <2>2, TrimKeeps DEF Alike
  <2>5. /\ ids' = ids /\ disk' \in [Names -> Nat] /\ asked' \in [Slots -> Nat]
        /\ opens' \in 0 .. MaxOpens /\ writes' \in 0 .. MaxWrites
    BY <1>3 DEF SetLinesKept, IInv, Types
  <2> HIDE DEF s
  <2> QED
    BY <2>1, <2>3, <2>4, <2>5, SlotChanges
<1> QED
  BY <1>1, <1>2, <1>3, AssignKeeps, SetFilenameKeeps DEF Setting

\* Flushing, opening again, closing.
LEMMA ClosingKeeps ==
    ASSUME IInv, NEW t \in Threads, Closing(t)
    PROVE  IInv'
<1>1. ASSUME NEW i \in ids, log_flush(t, i) PROVE IInv'
  BY <1>1, CheckedKeeps DEF log_flush
<1>2. ASSUME NEW i \in ids, log_reopen(t, i) PROVE IInv'
  <2> DEFINE l == [op |-> "reopen", id |-> i, arg |-> 0, file |-> NULL]
  <2>1. l \in LocType
    BY <1>2 DEF log_reopen, LocType, IInv, Types
  <2>2. opens' \in 0 .. MaxOpens /\ writes' \in 0 .. MaxWrites
    BY <1>2 DEF log_reopen, IInv, Types
  <2> QED
    BY <1>2, <2>1, <2>2, CallerMoves DEF log_reopen, PCs
<1>3. ASSUME Flush(t) PROVE IInv'
  BY <1>3, NoLocType, CallerMoves DEF Flush, Return, PCs, IInv, Types
<1>4. ASSUME Reopen(t) PROVE IInv'
  <2>0. PICK i : i = loc[t].id
    OBVIOUS
  <2>1. i \in ids /\ i \in Slots /\ SlotOK(loglist[i])
    <3>1. pc[t] = "locked" /\ loc[t].op = "reopen" /\ Role(t)
      BY <1>4 DEF Reopen, IInv, Roles
    <3> QED
      BY <2>0, <3>1 DEF Role, ClosingAt, IInv, Types
  <2> DEFINE s == [loglist[i] EXCEPT !.logfile = NULL]
  <2>2. SlotOK(s) /\ Alike(s, loglist[i]) /\ s.logfile = NULL
    BY <2>1 DEF SlotOK, Fields, Alike
  <2>3. Set(i, s) /\ Return(t)
    BY <1>4, <2>0 DEF Reopen
  <2>4. /\ ids' = ids /\ disk' \in [Names -> Nat] /\ asked' \in [Slots -> Nat]
        /\ opens' \in 0 .. MaxOpens /\ writes' \in 0 .. MaxWrites
    BY <1>4 DEF Reopen, IInv, Types
  <2> HIDE DEF s
  <2> QED
    BY <2>1, <2>2, <2>3, <2>4, SlotChanges
<1> QED
  BY <1>1, <1>2, <1>3, <1>4, log_closeKeeps, CloseKeeps DEF Closing

\* Writing a line and reading the kept ones.
LEMMA WritingKeeps ==
    ASSUME IInv, NEW t \in Threads, Writing(t)
    PROVE  IInv'
<1>1. ASSUME NEW i \in ids, NEW o \in {"write", "write_direct"}, o \in Ops, StartWrite(t, i, o)
      PROVE  IInv'
  <2> DEFINE l == [op |-> o, id |-> i, arg |-> writes + 1, file |-> NULL]
  <2>1. l \in LocType
    BY <1>1 DEF LocType, IInv, Types
  <2>2. opens' \in 0 .. MaxOpens /\ writes' \in 0 .. MaxWrites
    BY <1>1, LogAssumption DEF StartWrite, IInv, Types
  <2> QED
    BY <1>1, <2>1, <2>2, CallerMoves DEF StartWrite, PCs
<1>2. ASSUME ReadFile(t) PROVE IInv'
  <2>1. pc[t] = "read_file" /\ loc[t] \in LocType /\ Role(t)
    BY <1>2 DEF ReadFile, IInv, Types, Roles
  <2>2. loc[t].id \in ids /\ loglist[loc[t].id].logfile \in Files \cup {NULL}
    BY <2>1 DEF Role, ClosingAt, IInv, Types, SlotOK
  <2> DEFINE l == [loc[t] EXCEPT !.file = loglist[loc[t].id].logfile]
  <2>3. /\ l \in LocType /\ l.id = loc[t].id /\ l.op = loc[t].op /\ l.arg = loc[t].arg
    BY <2>1, <2>2 DEF LocType
  <2>4. Goto(t, "flush", l) /\ UNCHANGED <<loglist, disk, asked, ids, opens, writes>>
    BY <1>2 DEF ReadFile
  <2>5. opens' \in 0 .. MaxOpens /\ writes' \in 0 .. MaxWrites
    BY <2>4 DEF IInv, Types
  <2> HIDE DEF l
  <2>6. l.op = "write_direct"
    BY <2>1, <2>3 DEF Role
  <2> QED
    BY <2>2, <2>3, <2>4, <2>5, <2>6, CallerMoves DEF PCs
<1>3. ASSUME DirectFlush(t) PROVE IInv'
  BY <1>3, NoLocType, CallerMoves DEF DirectFlush, Return, PCs, IInv, Types
<1>4. ASSUME NEW i \in ids, log_contents(t, i) PROVE IInv'
  BY <1>4 DEF log_contents, IInv, Types, SlotOK, Roles, Role, OpeningAt, ClosingAt, Claims,
              Owners, Freed, Naming, OneSlot, OneCall, NotBoth, SlotHas, CallHas
<1> QED
  BY <1>1, <1>2, <1>3, <1>4, WriteKeeps DEF Writing, log_write, log_write_direct

\* Every step of the logger, whatever call makes it, keeps the invariant.
LEMMA NextIInv == IInv /\ [Next]_vars => IInv'
<1>1. ASSUME IInv, UNCHANGED vars PROVE IInv'
  BY <1>1 DEF vars, IInv, Types, SlotOK, Roles, Role, OpeningAt, ClosingAt, Claims,
              Owners, Freed, Naming, OneSlot, OneCall, NotBoth, SlotHas, CallHas
<1> QED
  BY <1>1, OpeningKeeps, SettingKeeps, ClosingKeeps, WritingKeeps DEF Next, Idle

-----------------------------------------------------------------------------
(* The sizes and the triggers                                              *)

\* What a step that writes no line does to slot j: the trigger changes together
\* with what was asked for; a log of the client has no file of its own, or has
\* just got it with its size, or is as large as before and keeps a name.
SlotStep(j) == LET s == loglist[j]  r == loglist'[j] IN
    /\ \/ r.trigger_level = s.trigger_level /\ asked'[j] = asked[j]
       \/ \E k \in Triggers : /\ r.trigger_level = (k * Kilo) % UIntRange
                               /\ asked'[j] = k * Kilo
    /\ j \in ids' =>
          \/ r.logfile = NULL
          \/ r.logfile.path = NULL
          \/ r.filename = r.logfile.path /\ r.size = disk[r.logfile.path]
          \/ /\ j \in ids /\ r.logfile = s.logfile /\ r.size = s.size
             /\ r.filename = s.filename \/ r.filename # NULL

\* A step that leaves the table alone does nothing to any slot.
LEMMA QuietStep ==
    ASSUME UNCHANGED <<loglist, asked>>, ids' \subseteq ids
    PROVE  \A j \in Slots : SlotStep(j)
BY DEF SlotStep

\* A step that changes one slot does nothing to the others.
LEMMA OneSlotStep ==
    ASSUME IInv, NEW i \in Slots, NEW s, SlotOK(s), Set(i, s), ids' \subseteq ids \cup {i},
           SlotStep(i), \A j \in Slots \ {i} : asked'[j] = asked[j]
    PROVE  \A j \in Slots : SlotStep(j)
<1>1. \A j \in Slots \ {i} : loglist'[j] = loglist[j]
  BY SetSlot
<1> QED
  BY <1>1 DEF SlotStep

\* log_open and log_open_file write to no file; a log gets the size of its file.
LEMMA OpeningSteps ==
    ASSUME IInv, NEW t \in Threads, Opening(t)
    PROVE  disk' = disk /\ \A j \in Slots : SlotStep(j)
<1>1. ASSUME (\E n \in Names : log_open(t, n)) \/ log_open_file(t) \/ NoMoreLogs(t)
      PROVE  disk' = disk /\ \A j \in Slots : SlotStep(j)
  BY <1>1, QuietStep DEF log_open, log_open_file, NoMoreLogs
<1>2. ASSUME GetLogId(t) PROVE disk' = disk /\ \A j \in Slots : SlotStep(j)
  <2>1. PICK i \in FreeSlots : Set(i, [loglist[i] EXCEPT !.in_use = TRUE])
    BY <1>2 DEF GetLogId
  <2> DEFINE s == [loglist[i] EXCEPT !.in_use = TRUE]
  <2>2. i \in Slots /\ SlotOK(loglist[i])
    BY DEF FreeSlots, IInv, Types
  <2>3. /\ SlotOK(s) /\ s.trigger_level = loglist[i].trigger_level
        /\ s.logfile = loglist[i].logfile /\ s.filename = loglist[i].filename
        /\ s.size = loglist[i].size
    BY <2>2 DEF SlotOK, Fields
  <2> HIDE DEF s
  <2>4. disk' = disk /\ asked' = asked /\ ids' = ids /\ i \notin ids
    BY <1>2 DEF GetLogId, FreeSlots, IInv, Owners
  <2>5. Set(i, s)
    BY <2>1 DEF s
  <2>6. SlotStep(i)
    BY <2>2, <2>3, <2>4, <2>5, SetSlot DEF SlotStep
  <2> QED
    BY <2>2, <2>3, <2>4, <2>5, <2>6, OneSlotStep
<1>3. ASSUME SetFile(t) PROVE disk' = disk /\ \A j \in Slots : SlotStep(j)
  <2>0. PICK i : i = loc[t].id
    OBVIOUS
  <2> DEFINE s == [loglist[i] EXCEPT !.logfile = loc[t].file, !.filename = NULL, !.size = 0]
  <2>1. Role(t) /\ pc[t] = "set_file" /\ loc[t] \in LocType
    BY <1>3 DEF SetFile, IInv, Roles, Types
  <2>2. /\ i \in Slots /\ SlotOK(loglist[i]) /\ i \notin ids
        /\ loc[t].file \in Files \cup {NULL}
        /\ loc[t].op = "open_file" => loc[t].file.path = NULL
    BY <2>0, <2>1 DEF Role, OpeningAt, Claims, LocType, IInv, Types, Owners
  <2>3. /\ SlotOK(s) /\ s.trigger_level = loglist[i].trigger_level
        /\ s.logfile = loc[t].file
    BY <2>2 DEF SlotOK, Fields
  <2>4. /\ disk' = disk /\ asked' = asked /\ Set(i, s)
        /\ \/ loc[t].op = "open" /\ ids' = ids
           \/ loc[t].op = "open_file" /\ ids' = ids \cup {i}
    BY <1>3, <2>0, <2>1 DEF SetFile, Role
  <2> HIDE DEF s
  <2>6. SlotStep(i)
    BY <2>2, <2>3, <2>4, SetSlot DEF SlotStep
  <2> QED
    BY <2>2, <2>3, <2>4, <2>6, OneSlotStep
<1>4. ASSUME SetName(t) PROVE disk' = disk /\ \A j \in Slots : SlotStep(j)
  <2>0. PICK i : i = loc[t].id
    OBVIOUS
  <2>a. PICK a : a = loc[t].arg
    OBVIOUS
  <2> DEFINE s == [loglist[i] EXCEPT !.filename = a, !.size = disk[a],
                                     !.entries = 0, !.list = <<>>, !.tail = "ok"]
  <2>1. Role(t) /\ pc[t] = "set_name"
    BY <1>4 DEF SetName, IInv, Roles
  <2>2. /\ i \in Slots /\ SlotOK(loglist[i]) /\ a \in Names /\ disk[a] \in Nat
        /\ loglist[i].logfile # NULL => loglist[i].logfile.path = a
    BY <2>0, <2>a, <2>1 DEF Role, OpeningAt, IInv, Types
  <2>3. /\ SlotOK(s) /\ s.trigger_level = loglist[i].trigger_level
        /\ s.logfile = loglist[i].logfile /\ s.filename = a /\ s.size = disk[a]
    BY <2>2 DEF SlotOK, Fields
  <2>4. disk' = disk /\ asked' = asked /\ Set(i, s) /\ ids' = ids \cup {i}
    BY <1>4, <2>0, <2>a DEF SetName
  <2> HIDE DEF s
  <2>6. SlotStep(i)
    BY <2>2, <2>3, <2>4, SetSlot DEF SlotStep
  <2> QED
    BY <2>2, <2>3, <2>4, <2>6, OneSlotStep
<1> QED
  BY <1>1, <1>2, <1>3, <1>4 DEF Opening

\* The log_set_* functions write to no file; only log_set_trigger sets a trigger.
LEMMA SettingSteps ==
    ASSUME IInv, "null_filename" \notin Ops, NEW t \in Threads, Setting(t)
    PROVE  disk' = disk /\ \A j \in Slots : SlotStep(j)
<1>1. ASSUME \/ \E i \in ids, n \in KeepCounts : log_set_lines_kept(t, i, n)
             \/ \E i \in ids, n \in Names \cup {NULL} : log_set_filename(t, i, n)
      PROVE  disk' = disk /\ \A j \in Slots : SlotStep(j)
  BY <1>1, QuietStep DEF log_set_lines_kept, log_set_filename, Checked
<1>2. ASSUME NEW i \in ids, NEW k \in Triggers, log_set_trigger(t, i, k)
      PROVE  disk' = disk /\ \A j \in Slots : SlotStep(j)
  <2>1. PICK q : q = (k * Kilo) % UIntRange
    OBVIOUS
  <2> DEFINE s == [loglist[i] EXCEPT !.trigger_level = q]
  <2>2. i \in Slots /\ SlotOK(loglist[i]) /\ asked \in [Slots -> Nat]
    BY DEF IInv, Types
  <2>3. q \in Nat
    BY <2>1, LogAssumption
  <2>4. /\ SlotOK(s) /\ s.trigger_level = q
        /\ s.logfile = loglist[i].logfile /\ s.filename = loglist[i].filename
        /\ s.size = loglist[i].size
    BY <2>2, <2>3 DEF SlotOK, Fields
  <2>5. disk' = disk /\ ids' = ids /\ Set(i, s) /\ asked' = [asked EXCEPT ![i] = k * Kilo]
    BY <1>2, <2>1 DEF log_set_trigger
  <2> HIDE DEF s
  <2>6. asked'[i] = k * Kilo /\ \A j \in Slots \ {i} : asked'[j] = asked[j]
    BY <2>2, <2>5
  <2>7. SlotStep(i)
    BY <2>1, <2>2, <2>4, <2>5, <2>6, SetSlot DEF SlotStep
  <2> QED
    BY <2>2, <2>4, <2>5, <2>6, <2>7, OneSlotStep
<1>3. ASSUME NEW i \in ids, NEW l \in Levels, log_set_level(t, i, l)
      PROVE  disk' = disk /\ \A j \in Slots : SlotStep(j)
  <2> DEFINE s == [loglist[i] EXCEPT !.level = l]
  <2>2. i \in Slots /\ SlotOK(loglist[i])
    BY DEF IInv, Types
  <2>3. /\ SlotOK(s) /\ s.trigger_level = loglist[i].trigger_level
        /\ s.logfile = loglist[i].logfile /\ s.filename = loglist[i].filename
        /\ s.size = loglist[i].size
    BY <2>2 DEF SlotOK, Fields
  <2>4. disk' = disk /\ asked' = asked /\ ids' = ids /\ Set(i, s)
    BY <1>3 DEF log_set_level
  <2> HIDE DEF s
  <2>5. SlotStep(i)
    BY <2>2, <2>3, <2>4, SetSlot DEF SlotStep
  <2> QED
    BY <2>2, <2>3, <2>4, <2>5, OneSlotStep
<1>4. ASSUME SetLinesKept(t) PROVE disk' = disk /\ \A j \in Slots : SlotStep(j)
  <2>0. PICK i : i = loc[t].id
    OBVIOUS
  <2>1. i \in ids /\ i \in Slots /\ SlotOK(loglist[i])
    <3>1. pc[t] = "locked" /\ loc[t].op = "keep" /\ Role(t)
      BY <1>4 DEF SetLinesKept, IInv, Roles
    <3> QED
      BY <2>0, <3>1 DEF Role, ClosingAt, IInv, Types
  <2> DEFINE k == [loglist[i] EXCEPT !.keep_entries = loc[t].arg]
             s == Trim(k, loc[t].arg)
  <2>2. /\ SlotOK(k) /\ k.trigger_level = loglist[i].trigger_level
        /\ k.logfile = loglist[i].logfile /\ k.filename = loglist[i].filename
        /\ k.size = loglist[i].size
    BY <2>1 DEF SlotOK, Fields
  <2>3. disk' = disk /\ asked' = asked /\ ids' = ids /\ Set(i, s)
    BY <1>4, <2>0 DEF SetLinesKept
  <2> HIDE DEF k
  <2>4. /\ SlotOK(s) /\ s.trigger_level = loglist[i].trigger_level
        /\ s.logfile = loglist[i].logfile /\ s.filename = loglist[i].filename
        /\ s.size = loglist[i].size
    BY <2>2, TrimKeeps DEF Alike
  <2> HIDE DEF s
  <2>5. SlotStep(i)
    BY <2>1, <2>3, <2>4, SetSlot DEF SlotStep
  <2> QED
    BY <2>1, <2>3, <2>4, <2>5, OneSlotStep
<1>5. ASSUME SetFilename(t) PROVE disk' = disk /\ \A j \in Slots : SlotStep(j)
  <2>0. PICK i : i = loc[t].id
    OBVIOUS
  <2>a. PICK a : a = loc[t].arg
    OBVIOUS
  <2>1. loc[t].op = "set_filename" /\ pc[t] = "locked" /\ Role(t)
    <3>1. loc[t].op \in {"set_filename", "null_filename"} /\ pc[t] = "locked"
          /\ loc[t] \in LocType /\ Role(t)
      BY <1>5 DEF SetFilename, IInv, Roles, Types
    <3> QED
      BY <3>1 DEF LocType
  <2>2. i \in ids /\ a \in Names
    BY <2>0, <2>a, <2>1 DEF Role, ClosingAt
  <2>3. i \in Slots /\ SlotOK(loglist[i]) /\ a # NULL
    BY <2>2, LogAssumption DEF IInv, Types
  <2> DEFINE s == [loglist[i] EXCEPT !.filename = a]
  <2>4. /\ SlotOK(s) /\ s.trigger_level = loglist[i].trigger_level
        /\ s.logfile = loglist[i].logfile /\ s.filename = a
        /\ s.size = loglist[i].size
    BY <2>2, <2>3 DEF SlotOK, Fields
  <2>5. disk' = disk /\ asked' = asked /\ ids' = ids /\ Set(i, s)
    BY <1>5, <2>0, <2>a DEF SetFilename
  <2> HIDE DEF s
  <2>6. SlotStep(i)
    BY <2>2, <2>3, <2>4, <2>5, SetSlot DEF SlotStep
  <2> QED
    BY <2>3, <2>4, <2>5, <2>6, OneSlotStep
<1> QED
  BY <1>1, <1>2, <1>3, <1>4, <1>5 DEF Setting

\* log_flush, log_reopen and log_close write to no file and set no trigger.
LEMMA ClosingSteps ==
    ASSUME IInv, NEW t \in Threads, Closing(t)
    PROVE  disk' = disk /\ \A j \in Slots : SlotStep(j)
<1>1. ASSUME \/ \E i \in ids : log_flush(t, i) \/ log_reopen(t, i) \/ log_close(t, i)
             \/ Flush(t)
      PROVE  disk' = disk /\ \A j \in Slots : SlotStep(j)
  BY <1>1, QuietStep DEF log_flush, Checked, log_reopen, log_close, Flush
<1>2. ASSUME Reopen(t) PROVE disk' = disk /\ \A j \in Slots : SlotStep(j)
  <2>0. PICK i : i = loc[t].id
    OBVIOUS
  <2>1. i \in Slots /\ SlotOK(loglist[i])
    BY <1>2, <2>0 DEF Reopen, IInv, Types, Roles, Role
  <2> DEFINE s == [loglist[i] EXCEPT !.logfile = NULL]
  <2>2. SlotOK(s) /\ s.trigger_level = loglist[i].trigger_level /\ s.logfile = NULL
    BY <2>1 DEF SlotOK, Fields
  <2>3. disk' = disk /\ asked' = asked /\ ids' = ids /\ Set(i, s)
    BY <1>2, <2>0 DEF Reopen
  <2> HIDE DEF s
  <2>4. SlotStep(i)
    BY <2>1, <2>2, <2>3, SetSlot DEF SlotStep
  <2> QED
    BY <2>1, <2>2, <2>3, <2>4, OneSlotStep
<1>3. ASSUME Close(t) PROVE disk' = disk /\ \A j \in Slots : SlotStep(j)
  <2>0. PICK i : i = loc[t].id
    OBVIOUS
  <2>1. i \in Slots /\ SlotOK(loglist[i]) /\ loglist[i].in_use
    BY <1>3, <2>0 DEF Close, IInv, Types, Roles, Role, Owners, Claims, ClosingAt
  <2> DEFINE s == [Trim(loglist[i], 0) EXCEPT
                      !.in_use = FALSE, !.level = 2, !.logfile = NULL,
                      !.filename = IF loglist[i].filename = NULL THEN NULL ELSE "freed"]
  <2>2. SlotOK(Trim(loglist[i], 0))
        /\ Trim(loglist[i], 0).trigger_level = loglist[i].trigger_level
    BY <2>1, TrimKeeps
  <2>3. SlotOK(s) /\ s.trigger_level = loglist[i].trigger_level /\ s.logfile = NULL
    BY <2>2 DEF SlotOK, Fields
  <2>4. disk' = disk /\ asked' = asked /\ ids' = ids /\ Set(i, s)
    BY <1>3, <2>0, <2>1 DEF Close
  <2> HIDE DEF s
  <2>5. SlotStep(i)
    BY <2>1, <2>3, <2>4, SetSlot DEF SlotStep
  <2> QED
    BY <2>1, <2>3, <2>4, <2>5, OneSlotStep
<1> QED
  BY <1>1, <1>2, <1>3 DEF Closing

\* Every step but Write.
LEMMA OtherSteps ==
    ASSUME IInv, "null_filename" \notin Ops, [Next]_vars, \A t \in Threads : ~Write(t)
    PROVE  disk' = disk /\ \A j \in Slots : SlotStep(j)
<1>1. ASSUME UNCHANGED vars PROVE disk' = disk /\ \A j \in Slots : SlotStep(j)
  BY <1>1, QuietStep DEF vars
<1>2. ASSUME NEW t \in Threads, Writing(t), ~Write(t)
      PROVE  disk' = disk /\ \A j \in Slots : SlotStep(j)
  BY <1>2, QuietStep
  DEF Writing, log_write, log_write_direct, StartWrite, ReadFile, DirectFlush, log_contents
<1> QED
  BY <1>1, <1>2, OpeningSteps, SettingSteps, ClosingSteps DEF Next, Idle

\* _log_open keeps the size right, and a FILE over the trigger ends up empty.
LEMMA OpenSizes ==
    ASSUME NEW s, SlotOK(s), s.filename # "freed", s.in_use, NEW can \in BOOLEAN,
           disk \in [Names -> Nat],
           s.logfile # NULL /\ s.logfile.path # NULL =>
               s.filename # NULL /\ s.size >= disk[s.logfile.path]
    PROVE  LET o == _log_open(s, can) IN
           /\ o.disk \in [Names -> Nat] /\ \A n \in Names : o.disk[n] <= disk[n]
           /\ o.s.logfile # NULL /\ o.s.logfile.path # NULL =>
                 o.s.filename # NULL /\ o.s.size >= o.disk[o.s.logfile.path]
           /\ o.ret /\ WantsOpen(s) /\ s.logfile # NULL /\ s.logfile.path # NULL =>
                 o.disk[o.s.logfile.path] = 0
<1> DEFINE o == _log_open(s, can)
           moved == IF s.logfile = NULL THEN disk ELSE [disk EXCEPT ![s.filename] = 0]
<1>0. /\ moved \in [Names -> Nat] /\ \A n \in Names : moved[n] <= disk[n]
      /\ s.logfile # NULL /\ s.filename \in Names => moved[s.filename] = 0
  <2>1. CASE s.logfile = NULL
    BY <2>1
  <2>2. CASE s.logfile # NULL
    <3> DEFINE d == [disk EXCEPT ![s.filename] = 0]
    <3>1. d \in [Names -> Nat] /\ (s.filename \in Names => d[s.filename] = 0)
      OBVIOUS
    <3>2. \A n \in Names : d[n] <= disk[n]
      OBVIOUS
    <3>3. moved = d
      BY <2>2
    <3> HIDE DEF d, moved
    <3> QED
      BY <3>1, <3>2, <3>3
  <2> QED
    BY <2>1, <2>2
<1>1. CASE ~WantsOpen(s)
  <2>1. o.s = s /\ o.disk = disk
    BY <1>1 DEF _log_open
  <2> QED
    BY <1>1, <2>1
<1>2. CASE WantsOpen(s) /\ s.filename = NULL
  <2>1. o.s = [s EXCEPT !.size = 0] /\ o.disk = disk
    BY <1>2 DEF _log_open
  <2>2. o.s.logfile = s.logfile
    BY <2>1 DEF SlotOK, Fields
  <2> QED
    BY <1>2, <2>1, <2>2
<1>3. CASE WantsOpen(s) /\ s.filename # NULL /\ ~can
  <2>1. ~o.ret /\ o.s = [s EXCEPT !.logfile = NULL] /\ o.disk = moved
    BY <1>3 DEF _log_open
  <2>2. o.s.logfile = NULL
    BY <2>1 DEF SlotOK, Fields
  <2> HIDE DEF moved
  <2> QED
    BY <1>0, <2>1, <2>2
<1>4. CASE WantsOpen(s) /\ s.filename # NULL /\ can
  <2>1. /\ o.s = [s EXCEPT !.logfile = NewFile(s.filename), !.size = moved[s.filename]]
        /\ o.disk = moved
    BY <1>4 DEF _log_open
  <2> HIDE DEF moved
  <2>2. s.filename \in Names /\ NewFile(s.filename).path = s.filename
    BY <1>4 DEF SlotOK, NewFile
  <2>3. /\ o.s.logfile = NewFile(s.filename) /\ o.s.size = moved[s.filename]
        /\ o.s.filename = s.filename
    BY <2>1 DEF SlotOK, Fields
  <2>4. o.s.logfile.path = s.filename /\ s.filename # NULL
    BY <1>4, <2>2, <2>3
  <2>5. o.s.filename # NULL /\ o.s.size >= o.disk[o.s.logfile.path]
    <3>1. moved[s.filename] \in Nat
      BY <1>0, <2>2
    <3> QED
      BY <2>1, <2>3, <2>4, <3>1
  <2>6. s.logfile # NULL => o.disk[o.s.logfile.path] = 0
    BY <1>0, <2>1, <2>2, <2>4
  <2>7. o.disk \in [Names -> Nat] /\ \A n \in Names : o.disk[n] <= disk[n]
    BY <1>0, <2>1
  <2> HIDE DEF o
  <2>8. /\ o.disk \in [Names -> Nat] /\ \A n \in Names : o.disk[n] <= disk[n]
        /\ o.s.logfile # NULL /\ o.s.logfile.path # NULL =>
              o.s.filename # NULL /\ o.s.size >= o.disk[o.s.logfile.path]
        /\ o.ret /\ WantsOpen(s) /\ s.logfile # NULL /\ s.logfile.path # NULL =>
              o.disk[o.s.logfile.path] = 0
    BY <2>5, <2>6, <2>7
  <2> QED
    BY <2>8 DEF o
<1> QED
  BY <1>1, <1>2, <1>3, <1>4

\* What a write does to the log it is for, and to the files of the others.
WriteStep(i) == LET s == loglist[i]  f == s.logfile IN
    /\ loglist'[i].trigger_level = s.trigger_level
    /\ Covered(i)'
    /\ f # NULL /\ f.path # NULL /\ disk'[f.path] > disk[f.path] =>
           s.trigger_level = 0 \/ s.size <= s.trigger_level \/ disk'[f.path] \in Lens
    /\ \A j \in Slots \ {i} : /\ loglist'[j] = loglist[j]
                             /\ \A n \in Names : SlotHas(j, n) => disk'[n] <= disk[n]

\* log_write and log_write_direct write to the file of one log, and either that log
\* is not over its trigger or its file starts anew.
LEMMA WriteSteps ==
    ASSUME IInv, SizeInv, NEW t \in Threads, Write(t)
    PROVE  ids' = ids /\ asked' = asked /\ \E i \in ids : WriteStep(i)
<1>0. PICK i : i = loc[t].id
  OBVIOUS
<1> DEFINE s == loglist[i]
<1>1. /\ i \in ids /\ i \in Slots /\ SlotOK(s) /\ s.filename # "freed" /\ s.in_use
  <2>1. pc[t] = "locked" /\ loc[t].op \in {"write", "write_direct"} /\ Role(t)
    BY DEF Write, IInv, Roles
  <2>2. i \in ids
    BY <1>0, <2>1 DEF Role, ClosingAt
  <2> QED
    BY <2>2 DEF IInv, Types, Freed, Owners
<1>2. PICK len \in Lens, can \in BOOLEAN :
        /\ can => opens < MaxOpens \/ ~WantsOpen(s)
        /\ WriteLocked(i, [nr |-> loc[t].arg, len |-> len], can)
  BY <1>0 DEF Write
<1> DEFINE o == _log_open(s, can)
<1>3. /\ SlotOK(o.s) /\ Alike(o.s, s) /\ o.s.trigger_level = s.trigger_level
      /\ \/ o.s.logfile \in {NULL, s.logfile}
         \/ s.filename \in Names /\ o.s.logfile.path = s.filename
  <2>1. disk \in [Names -> Nat] /\ opens \in 0 .. MaxOpens /\ MaxOpens \in Nat
    BY LogAssumption DEF IInv, Types
  <2> QED
    BY <1>1, <1>2, <2>1, OpenKeeps
<1>4. /\ o.disk \in [Names -> Nat] /\ \A n \in Names : o.disk[n] <= disk[n]
      /\ o.s.logfile # NULL /\ o.s.logfile.path # NULL =>
            o.s.filename # NULL /\ o.s.size >= o.disk[o.s.logfile.path]
      /\ o.ret /\ WantsOpen(s) /\ s.logfile # NULL /\ s.logfile.path # NULL =>
            o.disk[o.s.logfile.path] = 0
  <2>1. disk \in [Names -> Nat]
    BY DEF IInv, Types
  <2>2. s.logfile # NULL /\ s.logfile.path # NULL =>
            s.filename # NULL /\ s.size >= disk[s.logfile.path]
    BY <1>1 DEF SizeInv, Covered
  <2> QED
    BY <1>1, <1>2, <2>1, <2>2, OpenSizes
<1>5. len \in Nat /\ disk \in [Names -> Nat]
  BY <1>2, LogAssumption DEF IInv, Types
<1>6. PICK r : /\ SlotOK(r) /\ Set(i, r) /\ Alike(r, s)
               /\ r.logfile = o.s.logfile /\ r.trigger_level = s.trigger_level
               /\ IF o.ret THEN r.size >= o.s.size + len ELSE r = o.s
  <2>1. CASE ~o.ret
    <3>1. Set(i, o.s)
      BY <1>2, <2>1 DEF WriteLocked
    <3> HIDE DEF o
    <3> QED
      BY <1>3, <2>1, <3>1
  <2>2. CASE o.ret
    <3>1. Set(i, create_log_entry(o.s, [nr |-> loc[t].arg, len |-> len]))
      BY <1>2, <2>2 DEF WriteLocked
    <3> HIDE DEF o
    <3> QED
      BY <1>3, <1>5, <2>2, <3>1, EntryKeeps DEF Alike
  <2> QED
    BY <2>1, <2>2
<1>7. disk' = IF o.ret /\ o.s.logfile # NULL /\ o.s.logfile.path # NULL
              THEN [o.disk EXCEPT ![o.s.logfile.path] = o.disk[o.s.logfile.path] + len]
              ELSE o.disk
  BY <1>2 DEF WriteLocked
<1>8. ~WantsOpen(s) => o.s = s /\ s.logfile # NULL
  BY <1>1 DEF _log_open, WantsOpen
<1> HIDE DEF o
<1>9. loglist'[i] = r /\ \A j \in Slots \ {i} : loglist'[j] = loglist[j]
  BY <1>1, <1>6, SetSlot
<1>10. o.s.logfile # NULL /\ o.s.logfile.path # NULL => o.s.logfile.path \in Names
  BY <1>3 DEF SlotOK, Files
<1>11. Covered(i)'
  BY <1>3, <1>4, <1>5, <1>6, <1>7, <1>9, <1>10 DEF Covered, Alike, SlotOK
<1>12. \A j \in Slots \ {i}, n \in Names : SlotHas(j, n) => disk'[n] <= disk[n]
  <2> SUFFICES ASSUME NEW j \in Slots \ {i}, NEW n \in Names, SlotHas(j, n)
               PROVE  disk'[n] <= disk[n]
    OBVIOUS
  <2>1. ~SlotHas(i, n)
    BY <1>1 DEF IInv, Naming, OneSlot
  <2>2. o.s.logfile # NULL => o.s.logfile.path # n
    BY <1>3, <2>1 DEF SlotHas
  <2> QED
    BY <1>4, <1>7, <2>2
<1>13. ASSUME s.logfile # NULL, s.logfile.path # NULL,
              disk'[s.logfile.path] > disk[s.logfile.path]
       PROVE  \/ s.trigger_level = 0 \/ s.size <= s.trigger_level
              \/ disk'[s.logfile.path] \in Lens
  <2>1. s.logfile.path \in Names
    BY <1>1, <1>13 DEF SlotOK, Files
  <2>2. /\ o.ret /\ o.s.logfile # NULL /\ o.s.logfile.path = s.logfile.path
        /\ disk'[s.logfile.path] = o.disk[s.logfile.path] + len
    BY <1>4, <1>5, <1>7, <1>13, <2>1
  <2>3. CASE WantsOpen(s)
    BY <1>2, <1>4, <1>5, <1>13, <2>2, <2>3
  <2>4. CASE ~WantsOpen(s)
    BY <1>1, <2>4 DEF WantsOpen, SlotOK
  <2> QED
    BY <2>3, <2>4
<1>14. WriteStep(i)
  BY <1>6, <1>9, <1>11, <1>12, <1>13 DEF WriteStep
<1>15. ids' = ids /\ asked' = asked
  BY DEF Write
<1> QED
  BY <1>1, <1>14, <1>15

\* Every step keeps the sizes ahead of the files (_log_open, create_log_entry).
LEMMA SizeKeeps ==
    ASSUME IInv, SizeInv, "null_filename" \notin Ops, [Next]_vars
    PROVE  SizeInv'
<1>0. IInv'
  BY NextIInv
<1>1. CASE \A t \in Threads : ~Write(t)
  <2>1. disk' = disk /\ \A j \in Slots : SlotStep(j)
    BY <1>1, OtherSteps
  <2> SUFFICES ASSUME NEW j \in ids' PROVE Covered(j)'
    BY DEF SizeInv
  <2>2. j \in Slots /\ SlotOK(loglist'[j]) /\ disk \in [Names -> Nat] /\ NULL \notin Names
    BY <1>0, LogAssumption DEF IInv, Types, SlotOK
  <2>3. j \in ids => Covered(j)
    BY DEF SizeInv
  <2>4. loglist'[j].logfile # NULL => loglist'[j].logfile.path \in Names \cup {NULL}
    BY <2>2 DEF SlotOK, Files
  <2>5. /\ loglist'[j].logfile # NULL /\ loglist'[j].logfile.path # NULL =>
              disk[loglist'[j].logfile.path] \in Nat
    BY <2>2, <2>4
  <2> QED
    BY <2>1, <2>2, <2>3, <2>5 DEF SlotStep, Covered
<1>2. CASE \E t \in Threads : Write(t)
  <2>1. PICK i \in ids : WriteStep(i) /\ ids' = ids
    BY <1>2, WriteSteps
  <2> SUFFICES ASSUME NEW j \in ids' PROVE Covered(j)'
    BY DEF SizeInv
  <2>2. CASE j = i
    BY <2>1, <2>2 DEF WriteStep
  <2>3. CASE j # i
    <3>1. /\ j \in Slots /\ SlotOK(loglist[j]) /\ disk \in [Names -> Nat]
          /\ disk' \in [Names -> Nat]
      BY <1>0, <2>1 DEF IInv, Types
    <3>2. Covered(j) /\ loglist'[j] = loglist[j]
      BY <2>1, <2>3, <3>1 DEF SizeInv, WriteStep
    <3>3. ASSUME loglist[j].logfile # NULL, loglist[j].logfile.path # NULL
          PROVE  /\ loglist[j].logfile.path \in Names
                 /\ disk'[loglist[j].logfile.path] <= disk[loglist[j].logfile.path]
      <4>1. loglist[j].logfile.path \in Names
        BY <3>1, <3>3 DEF SlotOK, Files
      <4> QED
        BY <2>1, <2>3, <3>1, <3>3, <4>1 DEF WriteStep, SlotHas
    <3>4. loglist[j].size \in Nat
      BY <3>1 DEF SlotOK
    <3> QED
      BY <3>1, <3>2, <3>3, <3>4 DEF Covered
  <2> QED
    BY <2>2, <2>3
<1> QED
  BY <1>1, <1>2

\* Below 4 GiB the product that log_set_trigger stores is what it was asked for.
LEMMA TriggeredKeeps ==
    ASSUME IInv, SizeInv, Triggered, "null_filename" \notin Ops, [Next]_vars,
           \A k \in Triggers : k * Kilo < UIntRange
    PROVE  Triggered'
<1>1. CASE \A t \in Threads : ~Write(t)
  <2>1. \A j \in Slots : SlotStep(j)
    BY <1>1, OtherSteps
  <2>2. ASSUME NEW k \in Triggers PROVE (k * Kilo) % UIntRange = k * Kilo
    <3>1. PICK q : q = k * Kilo
      OBVIOUS
    <3>2. q \in Nat /\ UIntRange \in Nat /\ q < UIntRange
      BY <3>1, LogAssumption
    <3>3. q % UIntRange = q
      BY <3>2
    <3> QED
      BY <3>1, <3>3
  <2> QED
    BY <2>1, <2>2 DEF Triggered, SlotStep
<1>2. CASE \E t \in Threads : Write(t)
  <2>1. PICK i \in ids : WriteStep(i) /\ asked' = asked
    BY <1>2, WriteSteps
  <2> QED
    BY <2>1 DEF WriteStep, Triggered
<1> QED
  BY <1>1, <1>2

-----------------------------------------------------------------------------
(* The theorems                                                            *)

\* Every step keeps the invariant: each log has one owner, each file name one
\* log (_get_log_id, log_open, log_set_filename, log_close).
THEOREM Inductive == Spec => []IInv
<1>1. Init => IInv
  BY InitIInv
<1> QED
  BY <1>1, NextIInv, PTL DEF Spec

\* log_open and log_open_file never give one slot to two callers, and a slot
\* stays in use as long as somebody has its id.
THEOREM SlotsExclusive == Spec => []SlotExclusive
<1>1. IInv => SlotExclusive
  BY DEF IInv, Owners, Claims, OpeningAt, SlotExclusive
<1> QED
  BY <1>1, Inductive, PTL

\* If nobody calls log_set_filename with NULL, the size that _log_open compares
\* with the trigger never falls behind the file.
THEOREM SizesCovered ==
    ASSUME "null_filename" \notin Ops
    PROVE  Spec => []SizeCovers
<1>1. Init => IInv /\ SizeInv
  BY InitIInv
<1>2. IInv /\ SizeInv /\ [Next]_vars => (IInv /\ SizeInv)'
  BY NextIInv, SizeKeeps
<1>3. SizeInv => SizeCovers
  BY DEF SizeInv, Covered, SizeCovers
<1> QED
  BY <1>1, <1>2, <1>3, PTL DEF Spec

\* And if every trigger fits into an unsigned int, log_write never adds to a FILE
\* that is over the trigger that log_set_trigger was asked for.
THEOREM RotationInTime ==
    ASSUME "null_filename" \notin Ops, \A k \in Triggers : k * Kilo < UIntRange
    PROVE  Spec => RotatesInTime
<1> DEFINE Inv == IInv /\ SizeInv /\ Triggered
           InTime == \A i \in ids :
               LET f == loglist[i].logfile IN
               f # NULL /\ f.path # NULL /\ disk'[f.path] > disk[f.path] =>
                   \/ asked[i] = 0
                   \/ disk[f.path] <= asked[i]
                   \/ disk'[f.path] \in Lens
<1>1. Init => Inv
  BY InitIInv DEF Init, Triggered
<1>2. Inv /\ [Next]_vars => Inv'
  BY NextIInv, SizeKeeps, TriggeredKeeps
<1>3. Inv /\ [Next]_vars => [InTime]_vars
  <2> SUFFICES ASSUME Inv, [Next]_vars, NEW i \in ids,
                      loglist[i].logfile # NULL, loglist[i].logfile.path # NULL,
                      disk'[loglist[i].logfile.path] > disk[loglist[i].logfile.path]
               PROVE  \/ asked[i] = 0
                      \/ disk[loglist[i].logfile.path] <= asked[i]
                      \/ disk'[loglist[i].logfile.path] \in Lens
    OBVIOUS
  <2>1. /\ i \in Slots /\ SlotOK(loglist[i]) /\ disk \in [Names -> Nat]
        /\ loglist[i].trigger_level = asked[i]
    BY DEF IInv, Types, Triggered
  <2>2. loglist[i].logfile.path \in Names
    BY <2>1 DEF SlotOK, Files
  <2>3. PICK t \in Threads : Write(t)
    BY <2>1, <2>2, OtherSteps
  <2>4. PICK j \in ids : WriteStep(j)
    BY <2>3, WriteSteps
  <2>5. i = j
    <3> SUFFICES ASSUME i # j PROVE FALSE
      OBVIOUS
    <3>1. PICK n \in Names : n = loglist[i].logfile.path
      BY <2>2
    <3>2. disk'[n] <= disk[n] /\ disk'[n] > disk[n]
      BY <2>1, <2>4, <3>1 DEF WriteStep, SlotHas
    <3>3. disk'[n] \in Nat /\ disk[n] \in Nat
      BY NextIInv DEF IInv, Types
    <3> QED
      BY <3>2, <3>3
  <2>6. disk[loglist[i].logfile.path] <= loglist[i].size
    BY DEF SizeInv, Covered
  <2>7. disk[loglist[i].logfile.path] \in Nat /\ loglist[i].size \in Nat /\ asked[i] \in Nat
    BY <2>1, <2>2 DEF SlotOK
  <2> QED
    BY <2>1, <2>4, <2>5, <2>6, <2>7 DEF WriteStep
<1> QED
  BY <1>1, <1>2, <1>3, PTL DEF Spec, RotatesInTime

-----------------------------------------------------------------------------
(* The length of a list of lines                                           *)

\* What a list of lines is made of.
LEMMA LineLens ==
    ASSUME NEW list \in Seq(Lines)
    PROVE  /\ Len(list) \in Nat
           /\ \A n \in 1 .. Len(list) : list[n] \in Lines /\ list[n].len \in Nat
<1>1. Len(list) \in Nat /\ \A n \in 1 .. Len(list) : list[n] \in Lines
  BY LenProperties
<1> QED
  BY <1>1 DEF Lines

\* g[n] is the length of the first n lines.
Partial(list, g) == /\ g \in [0 .. Len(list) -> Nat] /\ g[0] = 0
                    /\ \A n \in 1 .. Len(list) : g[n] = g[n - 1] + list[n].len

\* Every list has partial sums.
LEMMA PartialExists ==
    ASSUME NEW list \in Seq(Lines)
    PROVE  \E g : Partial(list, g)
<1> DEFINE P(n, g) == /\ g \in [0 .. n -> Nat] /\ g[0] = 0
                      /\ \A k \in 1 .. n : g[k] = g[k - 1] + list[k].len
           S == {n \in Nat : n <= Len(list) => \E g : P(n, g)}
<1>1. 0 \in S
  <2>1. P(0, [k \in 0 .. 0 |-> 0])
    OBVIOUS
  <2> HIDE DEF P
  <2> QED
    BY <2>1
<1>2. ASSUME NEW n \in S \cap Nat PROVE n + 1 \in S
  <2> SUFFICES ASSUME n + 1 <= Len(list) PROVE \E g : P(n + 1, g)
    <3> HIDE DEF P
    <3> QED  OBVIOUS
  <2>1. PICK g : P(n, g)
    <3>1. n <= Len(list)
      BY LineLens
    <3> HIDE DEF P
    <3> QED  BY <3>1
  <2>2. PICK l \in Nat : l = list[n + 1].len
    BY LineLens
  <2> DEFINE h == [k \in 0 .. n + 1 |-> IF k = n + 1 THEN g[n] + l ELSE g[k]]
  <2>3. h \in [0 .. n + 1 -> Nat] /\ h[0] = 0
    BY <2>1
  <2>4. ASSUME NEW k \in 1 .. n + 1 PROVE h[k] = h[k - 1] + list[k].len
    BY <2>1, <2>2, SMTT(20)
  <2> HIDE DEF h
  <2> QED
    BY <2>3, <2>4
<1>3. Nat \subseteq S
  <2> HIDE DEF S
  <2> QED
    BY <1>1, <1>2, NatSetInduction
<1>4. PICK g : P(Len(list), g)
  <2> HIDE DEF P
  <2> QED
    BY <1>3, LineLens
<1> QED
  BY <1>4 DEF Partial

\* Upto computes them.
LEMMA UptoIsPartial ==
    ASSUME NEW list \in Seq(Lines)
    PROVE  Partial(list, Upto(list))
<1> DEFINE F(g) == [n \in 0 .. Len(list) |-> IF n = 0 THEN 0 ELSE g[n - 1] + list[n].len]
           u == Upto(list)
<1>1. PICK g : Partial(list, g)
  BY PartialExists
<1>2. g = F(g)
  BY <1>1 DEF Partial
<1>3. u = CHOOSE h : h = F(h)
  BY DEF Upto
<1>4. u = F(u)
  BY <1>2, <1>3, Zenon
<1>5. /\ u[0] = 0
      /\ \A n \in 1 .. Len(list) : u[n] = u[n - 1] + list[n].len
  <2> HIDE DEF u
  <2>1. DOMAIN u = 0 .. Len(list)
    BY <1>4, Zenon
  <2> QED
    BY <1>4
<1> DEFINE S == {n \in Nat : n <= Len(list) => u[n] \in Nat}
<1>6. Len(list) \in Nat /\ \A n \in 1 .. Len(list) : list[n].len \in Nat
  BY LineLens
<1>7. Nat \subseteq S
  <2>1. 0 \in S
    BY <1>5
  <2>2. ASSUME NEW n \in S \cap Nat PROVE n + 1 \in S
    <3> HIDE DEF u
    <3>1. n + 1 <= Len(list) => u[n + 1] = u[n] + list[n + 1].len
      BY <1>5
    <3> QED
      BY <1>6, <3>1
  <2> HIDE DEF S
  <2> QED
    BY <2>1, <2>2, NatSetInduction
<1> HIDE DEF u
<1>8. u \in [0 .. Len(list) -> Nat]
  <2>1. \A n \in 0 .. Len(list) : u[n] \in Nat
    BY <1>7
  <2> QED
    BY <1>4, <2>1
<1>9. Partial(list, u)
  BY <1>5, <1>8 DEF Partial
<1> QED
  BY <1>9 DEF u

\* There is one way to add up.
LEMMA SumOf ==
    ASSUME NEW list \in Seq(Lines), NEW g, Partial(list, g)
    PROVE  Sum(list) = g[Len(list)] /\ Sum(list) \in Nat
<1> DEFINE u == Upto(list)
           S == {n \in Nat : n <= Len(list) => u[n] = g[n]}
<1>1. Partial(list, u)
  BY UptoIsPartial
<1> HIDE DEF u
<1>2. 0 \in S
  BY <1>1 DEF Partial
<1>3. ASSUME NEW n \in S \cap Nat PROVE n + 1 \in S
  <2>1. n + 1 <= Len(list) =>
          u[n + 1] = u[n] + list[n + 1].len /\ g[n + 1] = g[n] + list[n + 1].len
    BY <1>1 DEF Partial
  <2> QED
    BY <2>1
<1>4. Nat \subseteq S
  <2> HIDE DEF S
  <2> QED
    BY <1>2, <1>3, NatSetInduction
<1>5. u[Len(list)] = g[Len(list)] /\ g[Len(list)] \in Nat
  BY <1>4 DEF Partial
<1> QED
  BY <1>5 DEF Sum, u

\* No lines, no bytes.
LEMMA SumOfNone == Sum(<<>>) = 0
<1>1. <<>> \in Seq(Lines) /\ Len(<<>>) = 0
  OBVIOUS
<1>2. Partial(<<>>, [n \in {0} |-> 0])
  BY <1>1 DEF Partial
<1> QED
  BY <1>1, <1>2, SumOf

\* A line at the end (create_log_entry).
LEMMA SumOfAppend ==
    ASSUME NEW list \in Seq(Lines), NEW e \in Lines
    PROVE  Sum(Append(list, e)) = Sum(list) + e.len
<1>1. PICK g : Partial(list, g)
  BY PartialExists
<1>2. PICK n \in Nat : n = Len(list)
  BY LineLens
<1>3. PICK l \in Nat : l = e.len
  BY DEF Lines
<1>4. PICK a \in Seq(Lines) : /\ a = Append(list, e) /\ Len(a) = n + 1
                              /\ \A k \in 1 .. n : a[k] = list[k]
                              /\ a[n + 1] = e
  BY <1>2, AppendProperties
<1> DEFINE h == [k \in 0 .. n + 1 |-> IF k = n + 1 THEN g[n] + l ELSE g[k]]
<1>7. Partial(a, h)
  <2>1. h \in [0 .. n + 1 -> Nat] /\ h[0] = 0
    BY <1>1, <1>2, SMTT(60) DEF Partial
  <2>2. ASSUME NEW k \in 1 .. n + 1 PROVE h[k] = h[k - 1] + a[k].len
    BY <1>1, <1>2, <1>3, <1>4 DEF Partial
  <2> HIDE DEF h
  <2> QED
    BY <1>4, <2>1, <2>2 DEF Partial
<1>8. Sum(a) = g[n] + l
  <2>1. Sum(a) = h[n + 1]
    <3> HIDE DEF h
    <3> QED
      BY <1>4, <1>7, SumOf
  <2> QED
    BY <2>1
<1>9. Sum(list) = g[n]
  BY <1>1, <1>2, SumOf
<1> QED
  BY <1>3, <1>4, <1>8, <1>9

\* The first lines go (log_set_lines_kept, log_close, create_log_entry).
LEMMA SumOfRest ==
    ASSUME NEW list \in Seq(Lines), NEW k \in 0 .. Len(list)
    PROVE  Sum(SubSeq(list, k + 1, Len(list))) = Sum(list) - Sum(SubSeq(list, 1, k))
<1>1. PICK g : Partial(list, g)
  BY PartialExists
<1>2. PICK n \in Nat : n = Len(list)
  BY LineLens
<1>3. PICK a \in Seq(Lines) : /\ a = SubSeq(list, 1, k) /\ Len(a) = k
                              /\ \A i \in 1 .. k : a[i] = list[i]
  BY FirstPart, ZenonT(40)
<1>4. PICK b \in Seq(Lines) : /\ b = SubSeq(list, k + 1, n) /\ Len(b) = n - k
                              /\ \A i \in 1 .. n - k : b[i] = list[k + i]
  <2>1. /\ SubSeq(list, k + 1, Len(list)) \in Seq(Lines)
        /\ Len(SubSeq(list, k + 1, Len(list))) = Len(list) - k
        /\ \A i \in 1 .. Len(list) - k : SubSeq(list, k + 1, Len(list))[i] = list[k + i]
    BY LastPart
  <2> QED
    BY <1>2, <2>1
<1>a. k \in Nat /\ k <= n /\ n - k \in Nat
  BY <1>2
<1>5. \A i \in 0 .. n : g[i] \in Nat
  BY <1>1, <1>2 DEF Partial
<1>b. /\ g[0] = 0
      /\ \A i \in 1 .. n : g[i] = g[i - 1] + list[i].len /\ list[i].len \in Nat
  BY <1>1, <1>2, LineLens DEF Partial
<1> DEFINE ga == [i \in 0 .. k |-> g[i]]
           gb == [i \in 0 .. n - k |-> g[k + i] - g[k]]
<1>6. Partial(a, ga)
  <2>1. ga \in [0 .. k -> Nat] /\ ga[0] = 0
    BY <1>a, <1>5, <1>b
  <2>2. ASSUME NEW i \in 1 .. k PROVE ga[i] = ga[i - 1] + a[i].len
    <3>1. i \in 1 .. n /\ a[i] = list[i]
      BY <1>a, <1>3
    <3> QED
      BY <1>a, <1>b, <3>1
  <2> HIDE DEF ga
  <2> QED
    BY <1>3, <2>1, <2>2 DEF Partial
<1>7. Partial(b, gb)
  <2> DEFINE S == {i \in Nat : i <= n - k => g[k + i] >= g[k]}
  <2>1. 0 \in S
    BY <1>a, <1>5
  <2>2. ASSUME NEW i \in S \cap Nat PROVE i + 1 \in S
    <3> SUFFICES ASSUME i + 1 <= n - k PROVE g[k + (i + 1)] >= g[k]
      OBVIOUS
    <3>1. PICK j \in 1 .. n : j = k + (i + 1) /\ j - 1 = k + i
      BY <1>2
    <3>2. g[j] = g[j - 1] + list[j].len /\ list[j].len \in Nat
      BY <1>b
    <3>3. g[j] \in Nat /\ g[j - 1] \in Nat /\ g[k] \in Nat
      BY <1>a, <1>5
    <3> QED
      BY <3>1, <3>2, <3>3
  <2>3. Nat \subseteq S
    <3> HIDE DEF S
    <3> QED
      BY <2>1, <2>2, NatSetInduction
  <2>4. \A i \in 0 .. n - k : g[k + i] \in Nat /\ g[k] \in Nat /\ g[k + i] >= g[k]
    BY <1>a, <1>5, <2>3
  <2>5. gb \in [0 .. n - k -> Nat] /\ gb[0] = 0
    <3>1. ASSUME NEW i \in 0 .. n - k PROVE gb[i] \in Nat
      <4>1. PICK x \in Nat, y \in Nat : x = g[k + i] /\ y = g[k] /\ x >= y
        BY <2>4
      <4>2. x - y \in Nat
        BY <4>1
      <4> QED
        BY <4>1, <4>2
    <3>2. gb[0] = 0
      <4>1. PICK x \in Nat : x = g[k]
        BY <1>a, <1>5
      <4>2. k + 0 = k /\ x - x = 0
        BY <1>a
      <4> QED
        BY <1>a, <4>1, <4>2
    <3> QED
      BY <3>1, <3>2
  <2>6. ASSUME NEW i \in 1 .. n - k PROVE gb[i] = gb[i - 1] + b[i].len
    <3>1. PICK j \in 1 .. n : j = k + i /\ j - 1 = k + (i - 1)
      BY <1>2
    <3>2. g[j] = g[j - 1] + list[j].len /\ list[j].len \in Nat /\ b[i] = list[j]
      BY <1>4, <1>b, <3>1
    <3>3. g[j] \in Nat /\ g[j - 1] \in Nat /\ g[k] \in Nat
      BY <1>a, <1>5
    <3>4. gb[i] = g[j] - g[k] /\ gb[i - 1] = g[j - 1] - g[k]
      BY <1>a, <3>1
    <3>5. PICK x \in Nat, y \in Nat, z \in Nat, l \in Nat :
            x = g[j] /\ y = g[j - 1] /\ z = g[k] /\ l = list[j].len
      BY <3>2, <3>3
    <3>6. x - z = (y - z) + l
      <4>1. x = y + l
        BY <3>2, <3>5, Zenon
      <4> QED
        BY <4>1
    <3> HIDE DEF gb
    <3> QED
      BY <3>2, <3>4, <3>5, <3>6
  <2> HIDE DEF gb
  <2> QED
    BY <1>4, <2>5, <2>6 DEF Partial
<1>8. Sum(a) = ga[k] /\ Sum(b) = gb[n - k] /\ Sum(list) = g[n]
  <2> HIDE DEF ga, gb
  <2> QED
    BY <1>1, <1>2, <1>3, <1>4, <1>6, <1>7, SumOf
<1>9. ga[k] = g[k] /\ gb[n - k] = g[n] - g[k] /\ g[n] \in Nat /\ g[k] \in Nat
  <2>1. k + (n - k) = n
    BY <1>2
  <2> QED
    BY <1>a, <1>5, <2>1
<1> QED
  BY <1>2, <1>3, <1>4, <1>8, <1>9

\* A sum of lengths is a natural number.
LEMMA SumIsNat ==
    ASSUME NEW list \in Seq(Lines)
    PROVE  Sum(list) \in Nat
BY PartialExists, SumOf

\* The oldest line alone.
LEMMA SumOfFirst ==
    ASSUME NEW list \in Seq(Lines), Len(list) >= 1
    PROVE  Sum(SubSeq(list, 1, 1)) = list[1].len
<1>1. PICK a \in Seq(Lines) : a = SubSeq(list, 1, 1) /\ Len(a) = 1 /\ a[1] = list[1]
  <2>1. 1 \in 0 .. Len(list)
    BY LineLens
  <2>2. /\ SubSeq(list, 1, 1) \in Seq(Lines) /\ Len(SubSeq(list, 1, 1)) = 1
        /\ \A i \in 1 .. 1 : SubSeq(list, 1, 1)[i] = list[i]
    BY <2>1, FirstPart
  <2>3. 1 \in 1 .. 1
    OBVIOUS
  <2>4. SubSeq(list, 1, 1)[1] = list[1]
    BY <2>2, <2>3, Zenon
  <2> QED
    BY <2>2, <2>4, Zenon
<1>2. PICK g : Partial(a, g)
  BY PartialExists
<1>3. g[1] = g[0] + a[1].len /\ g[0] = 0 /\ a[1].len \in Nat /\ 1 - 1 = 0
  <2>1. 1 \in 1 .. Len(a)
    BY <1>1
  <2> QED
    BY <1>2, <2>1, LineLens DEF Partial
<1>4. Sum(a) = g[1]
  BY <1>1, <1>2, SumOf
<1> QED
  BY <1>1, <1>3, <1>4

-----------------------------------------------------------------------------
(* The kept lines as the end of the history                                *)

\* list holds the last lines of h.
Latest(list, h) ==
    /\ Len(list) <= Len(h)
    /\ \A n \in 1 .. Len(list) : list[n] = h[Len(h) - Len(list) + n]

\* This is what the library calls a suffix.
LEMMA LatestIsSuffix ==
    ASSUME NEW list \in Seq(Lines), NEW h \in Seq(Lines), Latest(list, h)
    PROVE  IsSuffix(list, h)
<1>1. PICK n \in Nat, m \in Nat : n = Len(list) /\ m = Len(h) /\ n <= m
  BY LineLens DEF Latest
<1>2. PICK a : a = Reverse(list) /\ a = [i \in 1 .. n |-> list[(n - i) + 1]]
  BY <1>1 DEF Reverse
<1>3. PICK b : b = Reverse(h) /\ b = [i \in 1 .. m |-> h[(m - i) + 1]]
  BY <1>1 DEF Reverse
<1>4. \A i \in 1 .. n : a[i] \in Lines
  <2> SUFFICES ASSUME NEW i \in 1 .. n PROVE a[i] \in Lines
    OBVIOUS
  <2>1. (n - i) + 1 \in 1 .. n
    BY <1>1
  <2> QED
    BY <1>1, <1>2, <2>1, LineLens
<1>5. \A i \in 1 .. m : b[i] \in Lines
  <2> SUFFICES ASSUME NEW i \in 1 .. m PROVE b[i] \in Lines
    OBVIOUS
  <2>1. (m - i) + 1 \in 1 .. m
    BY <1>1
  <2> QED
    BY <1>1, <1>3, <2>1, LineLens
<1>6. a \in Seq(Lines) /\ Len(a) = n /\ b \in Seq(Lines) /\ Len(b) = m
  BY <1>1, <1>2, <1>3, <1>4, <1>5
<1>7. \A i \in 1 .. n : a[i] = b[i]
  <2> SUFFICES ASSUME NEW i \in 1 .. n PROVE a[i] = b[i]
    OBVIOUS
  <2>0. (n - i) + 1 \in 1 .. n
    BY <1>1
  <2>1. PICK j \in 1 .. n : j = (n - i) + 1
    BY <2>0
  <2>2. (m - n) + j = (m - i) + 1
    BY <1>1, <2>1
  <2>3. list[j] = h[(m - n) + j]
    BY <1>1 DEF Latest
  <2> QED
    BY <1>1, <1>2, <1>3, <2>1, <2>2, <2>3
<1>8. /\ SubSeq(a, 1, n) \in Seq(Lines) /\ Len(SubSeq(a, 1, n)) = n
      /\ \A i \in 1 .. n : SubSeq(a, 1, n)[i] = a[i]
  BY <1>1, <1>6, FirstPart
<1>9. /\ SubSeq(b, 1, n) \in Seq(Lines) /\ Len(SubSeq(b, 1, n)) = n
      /\ \A i \in 1 .. n : SubSeq(b, 1, n)[i] = b[i]
  <2>1. n \in 0 .. Len(b)
    BY <1>1, <1>6
  <2> QED
    BY <1>6, <2>1, FirstPart
<1>10. SubSeq(a, 1, n) = SubSeq(b, 1, n)
  <2>1. \A i \in 1 .. n : SubSeq(a, 1, n)[i] = SubSeq(b, 1, n)[i]
    BY <1>7, <1>8, <1>9
  <2> QED
    BY <1>8, <1>9, <2>1, SeqEqual
<1> QED
  BY <1>1, <1>2, <1>3, <1>6, <1>10 DEF IsSuffix, IsPrefix

\* A log that keeps no lines keeps the last ones.
LEMMA LatestOfNone ==
    ASSUME NEW h \in Seq(Lines)
    PROVE  <<>> \in Seq(Lines) /\ Len(<<>>) = 0 /\ Latest(<<>>, h)
BY LineLens DEF Latest

\* Without its first lines the list is still the end of the history.
LEMMA LatestRest ==
    ASSUME NEW list \in Seq(Lines), NEW h \in Seq(Lines), Latest(list, h),
           NEW k \in 0 .. Len(list)
    PROVE  Latest(SubSeq(list, k + 1, Len(list)), h)
<1>1. PICK n \in Nat, m \in Nat : n = Len(list) /\ m = Len(h) /\ n <= m /\ k <= n /\ k \in Nat
  BY LineLens DEF Latest
<1>2. PICK r : r = SubSeq(list, k + 1, Len(list))
  OBVIOUS
<1>3. Len(r) = Len(list) - k /\ \A i \in 1 .. Len(list) - k : r[i] = list[k + i]
  BY <1>2, LastPart
<1>4. ASSUME NEW i \in 1 .. n - k PROVE r[i] = h[m - (n - k) + i]
  <2>1. PICK j \in 1 .. n : j = k + i
    BY <1>1
  <2>2. list[j] = h[m - n + j] /\ m - n + j = m - (n - k) + i
    BY <1>1, <2>1 DEF Latest
  <2> QED
    BY <1>1, <1>3, <2>1, <2>2
<1>5. Len(r) <= m
  BY <1>1, <1>3
<1> QED
  BY <1>1, <1>2, <1>3, <1>4, <1>5 DEF Latest

\* A line at the end of both.
LEMMA LatestAppend ==
    ASSUME NEW list \in Seq(Lines), NEW h \in Seq(Lines), Latest(list, h), NEW e \in Lines
    PROVE  Latest(Append(list, e), Append(h, e))
<1>1. PICK n \in Nat, m \in Nat : n = Len(list) /\ m = Len(h) /\ n <= m
  BY LineLens DEF Latest
<1>2. PICK a : /\ a = Append(list, e) /\ Len(a) = n + 1 /\ a[n + 1] = e
               /\ \A i \in 1 .. n : a[i] = list[i]
  <2>1. /\ Len(Append(list, e)) = Len(list) + 1 /\ Append(list, e)[Len(list) + 1] = e
        /\ \A i \in 1 .. Len(list) : Append(list, e)[i] = list[i]
    BY AppendProperties
  <2> QED
    BY <1>1, <2>1
<1>3. PICK b : /\ b = Append(h, e) /\ Len(b) = m + 1 /\ b[m + 1] = e
               /\ \A i \in 1 .. m : b[i] = h[i]
  <2>1. /\ Len(Append(h, e)) = Len(h) + 1 /\ Append(h, e)[Len(h) + 1] = e
        /\ \A i \in 1 .. Len(h) : Append(h, e)[i] = h[i]
    BY AppendProperties
  <2> QED
    BY <1>1, <2>1
<1>4. ASSUME NEW i \in 1 .. n + 1 PROVE a[i] = b[(m + 1) - (n + 1) + i]
  <2>1. CASE i = n + 1
    BY <1>1, <1>2, <1>3, <2>1
  <2>2. CASE i # n + 1
    <3>0. m - n + i \in 1 .. m /\ m - n + i = (m + 1) - (n + 1) + i /\ i \in 1 .. n
      BY <1>1, <2>2
    <3>1. PICK j \in 1 .. m : j = m - n + i /\ j = (m + 1) - (n + 1) + i /\ i \in 1 .. n
      BY <3>0
    <3>2. list[i] = h[j]
      BY <1>1, <3>1 DEF Latest
    <3> QED
      BY <1>2, <1>3, <3>1, <3>2
  <2> QED
    BY <2>1, <2>2
<1>5. n + 1 <= m + 1
  BY <1>1
<1> QED
  BY <1>2, <1>3, <1>4, <1>5 DEF Latest

-----------------------------------------------------------------------------
(* What the operators on slots do to the kept lines                        *)

\* The counters of a slot agree with its list.
Counted(s) == s.entries = Len(s.list) /\ s.total = Sum(s.list)
Book(s) == Counted(s) /\ s.entries <= s.keep_entries

\* A slot with another list, other counters and another size.
LEMMA ListType ==
    ASSUME NEW s \in LogType, NEW list \in Seq(Lines), NEW total \in Int, NEW entries \in Nat,
           NEW tail \in {"ok", "freed"}
    PROVE  [s EXCEPT !.list = list, !.total = total, !.entries = entries, !.tail = tail]
                 \in LogType
BY DEF LogType
LEMMA EntryType ==
    ASSUME NEW s \in LogType, NEW list \in Seq(Lines), NEW total \in Int, NEW entries \in Nat,
           NEW size \in Nat
    PROVE  [s EXCEPT !.size = size, !.list = list, !.total = total, !.entries = entries]
                 \in LogType
BY DEF LogType
LEMMA SizeType ==
    ASSUME NEW s \in LogType, NEW size \in Nat
    PROVE  [s EXCEPT !.size = size] \in LogType
BY DEF LogType

\* log_set_lines_kept and log_close free lines from the front.
LEMMA TrimLines ==
    ASSUME NEW s \in LogType, Counted(s), NEW k \in Nat
    PROVE  LET r == Trim(s, k) IN
           /\ r \in LogType /\ Counted(r) /\ r.entries <= k
           /\ r.keep_entries = s.keep_entries
           /\ k # 0 => r.tail = s.tail
           /\ \A h \in Seq(Lines) : Latest(s.list, h) => Latest(r.list, h)
<1> DEFINE r == Trim(s, k)
<1>0. s.list \in Seq(Lines) /\ s.entries \in Nat /\ s.total \in Int /\ s.tail \in {"ok", "freed"}
  BY DEF LogType
<1>1. CASE s.entries <= k
  <2>1. r = s
    BY <1>1 DEF Trim
  <2> HIDE DEF r
  <2>2. /\ r \in LogType /\ Counted(r) /\ r.entries <= k
        /\ r.keep_entries = s.keep_entries
        /\ k # 0 => r.tail = s.tail
        /\ \A h \in Seq(Lines) : Latest(s.list, h) => Latest(r.list, h)
    BY <1>1, <2>1
  <2> QED
    BY <2>2 DEF r
<1>2. CASE ~(s.entries <= k)
  <2>1. PICK n \in Nat : n = s.entries /\ n = Len(s.list) /\ k < n
    BY <1>0, <1>2 DEF Counted
  <2>a. n - k \in 0 .. n
    BY <2>1
  <2>2. PICK d \in 0 .. n : d = n - k
    BY <2>a
  <2>3. PICK list : list = SubSeq(s.list, d + 1, n)
    OBVIOUS
  <2>4. PICK tail \in {"ok", "freed"} : /\ tail = IF k = 0 THEN "freed" ELSE s.tail
    BY <1>0
  <2>5. PICK total : total = s.total - Sum(SubSeq(s.list, 1, d))
    OBVIOUS
  <2>6. list \in Seq(Lines) /\ Len(list) = k
    <3>1. /\ SubSeq(s.list, d + 1, Len(s.list)) \in Seq(Lines)
          /\ Len(SubSeq(s.list, d + 1, Len(s.list))) = Len(s.list) - d
      BY <1>0, <2>1, <2>2, LastPart
    <3> QED
      BY <2>1, <2>2, <2>3, <3>1
  <2>7. total = Sum(list)
    <3>1. Sum(SubSeq(s.list, d + 1, Len(s.list))) = Sum(s.list) - Sum(SubSeq(s.list, 1, d))
      BY <1>0, <2>1, <2>2, SumOfRest
    <3> QED
      BY <2>1, <2>3, <2>5, <3>1 DEF Counted
  <2>8. total \in Nat
    BY <2>6, <2>7, SumIsNat
  <2>9. r = [s EXCEPT !.list = list, !.total = total, !.entries = k, !.tail = tail]
    BY <1>2, <2>1, <2>2, <2>3, <2>4, <2>5 DEF Trim
  <2>10. /\ r \in LogType /\ r.list = list /\ r.total = total /\ r.entries = k
         /\ r.keep_entries = s.keep_entries /\ r.tail = tail
    <3>1. total \in Int
      BY <2>8
    <3> HIDE DEF r
    <3>2. r \in LogType
      BY <2>6, <2>9, <3>1, ListType
    <3>3. /\ r.list = list /\ r.total = total /\ r.entries = k
          /\ r.keep_entries = s.keep_entries /\ r.tail = tail
      BY <2>9 DEF LogType
    <3> QED
      BY <3>2, <3>3
  <2>11. ASSUME NEW h \in Seq(Lines), Latest(s.list, h) PROVE Latest(list, h)
    BY <1>0, <2>1, <2>2, <2>3, <2>11, LatestRest
  <2> HIDE DEF r
  <2>12. /\ r \in LogType /\ Counted(r) /\ r.entries <= k
         /\ r.keep_entries = s.keep_entries
         /\ k # 0 => r.tail = s.tail
         /\ \A h \in Seq(Lines) : Latest(s.list, h) => Latest(r.list, h)
    BY <2>4, <2>6, <2>7, <2>10, <2>11 DEF Counted
  <2> QED
    BY <2>12 DEF r
<1> QED
  BY <1>1, <1>2

\* create_log_entry appends the line, and the oldest one goes when the log is full.
LEMMA EntryLines ==
    ASSUME NEW s \in LogType, Book(s), NEW nr \in 1 .. MaxWrites, NEW len \in Nat,
           NEW h \in Seq(Lines), Latest(s.list, h)
    PROVE  LET r == create_log_entry(s, [nr |-> nr, len |-> len])
               g == IF s.keep_entries = 0 THEN h ELSE Append(h, [nr |-> nr, len |-> len + 1])
           IN  /\ r \in LogType /\ Book(r) /\ g \in Seq(Lines) /\ Latest(r.list, g)
               /\ r.keep_entries = s.keep_entries /\ r.tail = s.tail
<1> DEFINE e == [nr |-> nr, len |-> len]
           r == create_log_entry(s, e)
<1>0. /\ s.list \in Seq(Lines) /\ s.entries \in Nat /\ s.total \in Int /\ s.size \in Nat
      /\ s.keep_entries \in Nat
  BY DEF LogType
<1>1. CASE s.keep_entries = 0
  <2>1. r = [s EXCEPT !.size = s.size + len]
    BY <1>1 DEF create_log_entry
  <2>2. /\ r \in LogType /\ r.list = s.list /\ r.total = s.total /\ r.entries = s.entries
        /\ r.keep_entries = s.keep_entries /\ r.tail = s.tail
    <3> HIDE DEF r
    <3>1. s.size + len \in Nat
      BY <1>0
    <3>2. r \in LogType
      BY <2>1, <3>1, SizeType
    <3>3. /\ r.list = s.list /\ r.total = s.total /\ r.entries = s.entries
          /\ r.keep_entries = s.keep_entries /\ r.tail = s.tail
      BY <2>1 DEF LogType
    <3> QED
      BY <3>2, <3>3
  <2> HIDE DEF r
  <2>3. r \in LogType /\ Book(r) /\ Latest(r.list, h) /\ r.keep_entries = s.keep_entries /\ r.tail = s.tail
    BY <2>2 DEF Book, Counted
  <2> QED
    BY <1>1, <2>3 DEF r
<1>2. CASE s.keep_entries # 0
  <2>0. len + 1 \in Nat
    OBVIOUS
  <2>1. PICK kept \in Lines : kept = [nr |-> nr, len |-> len + 1]
    BY <2>0 DEF Lines
  <2>2. kept = [e EXCEPT !.len = e.len + 1] /\ kept.len = len + 1
    BY <2>1
  <2>3. PICK all \in Seq(Lines) : /\ all = Append(s.list, kept)
                                  /\ Len(all) = s.entries + 1
                                  /\ Sum(all) = s.total + kept.len
                                  /\ Latest(all, Append(h, kept))
    <3>1. Append(s.list, kept) \in Seq(Lines) /\ Len(Append(s.list, kept)) = Len(s.list) + 1
      BY <1>0, AppendProperties
    <3>2. Sum(Append(s.list, kept)) = Sum(s.list) + kept.len
      BY <1>0, SumOfAppend
    <3>3. Latest(Append(s.list, kept), Append(h, kept))
      BY <1>0, LatestAppend
    <3> QED
      BY <3>1, <3>2, <3>3 DEF Book, Counted
  <2>4. PICK g \in Seq(Lines) : g = Append(h, kept)
    BY AppendProperties
  <2>5. PICK list \in Seq(Lines), total \in Nat, entries \in Nat :
          /\ r = [s EXCEPT !.size = s.size + kept.len, !.list = list, !.total = total,
                           !.entries = entries]
          /\ entries = Len(list) /\ total = Sum(list) /\ entries <= s.keep_entries
          /\ Latest(list, g)
    <3>1. CASE s.entries >= s.keep_entries
      <4>1. PICK n \in Nat : n = Len(all) /\ n >= 1 /\ n = s.entries + 1
        BY <1>0, <2>3
      <4>a. 1 \in 0 .. Len(all)
        BY <4>1
      <4>2. PICK list \in Seq(Lines) : /\ list = SubSeq(all, 2, n) /\ Len(list) = n - 1
        <5>1. /\ SubSeq(all, 1 + 1, Len(all)) \in Seq(Lines)
              /\ Len(SubSeq(all, 1 + 1, Len(all))) = Len(all) - 1
          BY <4>a, LastPart
        <5>2. 1 + 1 = 2
          OBVIOUS
        <5> QED
          BY <4>1, <5>1, <5>2
      <4>3. list = Tail(all)
        <5>1. all # <<>>
          <6> SUFFICES ASSUME all = <<>> PROVE FALSE
            OBVIOUS
          <6>1. n = 0
            BY <4>1, EmptySeq, Zenon
          <6> QED
            BY <4>1, <6>1
        <5> QED
          BY <4>1, <4>2, <5>1, TailIsSubSeq, Zenon
      <4>4. Latest(list, g)
        <5>1. Latest(SubSeq(all, 1 + 1, Len(all)), g)
          BY <2>3, <2>4, <4>a, LatestRest
        <5> QED
          BY <4>1, <4>2, <5>1
      <4>5. Sum(list) = Sum(all) - all[1].len
        <5>1. Sum(SubSeq(all, 1 + 1, Len(all))) = Sum(all) - Sum(SubSeq(all, 1, 1))
          BY <4>a, SumOfRest
        <5>2. Sum(SubSeq(all, 1, 1)) = all[1].len
          BY <4>1, SumOfFirst
        <5> QED
          BY <4>1, <4>2, <5>1, <5>2
      <4>6. r = [s EXCEPT !.size = s.size + kept.len, !.list = Tail(all),
                          !.total = s.total + kept.len - all[1].len, !.entries = s.entries]
        BY <1>2, <2>2, <2>3, <3>1 DEF create_log_entry
      <4>7. Sum(list) \in Nat
        BY <4>2, SumIsNat
      <4>8. s.total + kept.len - all[1].len = Sum(list)
        <5>a. 1 \in 1 .. Len(all)
          BY <4>1
        <5>b. all[1].len \in Nat
          BY <5>a, LineLens
        <5>c. kept.len \in Nat
          BY <2>0, <2>2
        <5>1. PICK x \in Int, y \in Nat, z \in Nat :
                x = s.total /\ y = kept.len /\ z = all[1].len
          BY <1>0, <5>b, <5>c
        <5>2. x + (y - z) = (x + y) - z
          OBVIOUS
        <5>3. Sum(all) = x + y
          BY <2>3, <5>1
        <5> QED
          BY <4>5, <5>1, <5>2, <5>3, Zenon
      <4>9. s.entries = Len(list) /\ s.entries <= s.keep_entries
        BY <1>0, <4>1, <4>2 DEF Book
      <4> HIDE DEF r
      <4> QED
        BY <1>0, <4>3, <4>4, <4>6, <4>7, <4>8, <4>9
    <3>2. CASE ~(s.entries >= s.keep_entries)
      <4>1. r = [s EXCEPT !.size = s.size + kept.len, !.list = all,
                          !.total = s.total + kept.len - 0, !.entries = s.entries + 1]
        BY <1>2, <2>2, <2>3, <3>2 DEF create_log_entry
      <4>2. Sum(all) \in Nat
        BY SumIsNat
      <4>3. s.total + kept.len - 0 = Sum(all)
        <5>1. PICK x \in Int, y \in Nat : x = s.total /\ y = kept.len
          BY <1>0, <2>2
        <5>2. x + (y - 0) = x + y
          OBVIOUS
        <5>3. Sum(all) = x + y
          BY <2>3, <5>1
        <5> QED
          BY <5>1, <5>2, <5>3, Zenon
      <4>4. s.entries + 1 = Len(all) /\ s.entries + 1 <= s.keep_entries /\ s.entries + 1 \in Nat
        BY <1>0, <2>3, <3>2
      <4> HIDE DEF r
      <4> QED
        BY <2>3, <2>4, <4>1, <4>2, <4>3, <4>4
    <3> QED
      BY <3>1, <3>2
  <2>6. s.size + kept.len \in Nat
    BY <1>0, <2>2, SMTT(20)
  <2>7. /\ r \in LogType /\ r.list = list /\ r.total = total /\ r.entries = entries
        /\ r.keep_entries = s.keep_entries /\ r.tail = s.tail
    <3>1. total \in Int
      OBVIOUS
    <3> HIDE DEF r
    <3>2. r \in LogType
      BY <2>5, <2>6, <3>1, EntryType
    <3>3. /\ r.list = list /\ r.total = total /\ r.entries = entries
          /\ r.keep_entries = s.keep_entries /\ r.tail = s.tail
      BY <2>5 DEF LogType
    <3> QED
      BY <3>2, <3>3
  <2> HIDE DEF r
  <2>8. r \in LogType /\ Book(r) /\ Latest(r.list, g) /\ r.keep_entries = s.keep_entries /\ r.tail = s.tail
    BY <2>5, <2>7 DEF Book, Counted
  <2> QED
    BY <1>2, <2>1, <2>4, <2>8 DEF r
<1> QED
  BY <1>1, <1>2

\* A well-typed slot has what the proofs about owners and names need.
LEMMA TypeIsSlotOK == \A s \in LogType : SlotOK(s)
BY DEF LogType, SlotOK, Fields

\* _log_open leaves the lines alone.
SameLines(s, r) == /\ s.list = r.list /\ s.total = r.total /\ s.entries = r.entries
                   /\ s.keep_entries = r.keep_entries /\ s.tail = r.tail

LEMMA OpenLines ==
    ASSUME NEW s \in LogType, s.filename # "freed", NEW can \in BOOLEAN,
           disk \in [Names -> Nat], opens \in 0 .. MaxOpens,
           can => opens < MaxOpens \/ ~WantsOpen(s)
    PROVE  LET o == _log_open(s, can) IN
           /\ o.s \in LogType /\ SameLines(o.s, s) /\ o.s.in_use = s.in_use
           /\ o.open \subseteq open \cup Files
<1> DEFINE o == _log_open(s, can)
           moved == IF s.logfile = NULL THEN disk ELSE [disk EXCEPT ![s.filename] = 0]
<1>1. CASE ~s.in_use \/ ~WantsOpen(s)
  <2>1. o.s = s /\ o.open = open
    BY <1>1 DEF _log_open
  <2> HIDE DEF o
  <2>2. o.s \in LogType /\ SameLines(o.s, s) /\ o.s.in_use = s.in_use /\ o.open \subseteq open \cup Files
    BY <2>1 DEF SameLines
  <2> QED
    BY <2>2 DEF o
<1>2. CASE s.in_use /\ WantsOpen(s) /\ s.filename = NULL
  <2>1. o.s = [s EXCEPT !.size = 0] /\ o.open = open
    BY <1>2 DEF _log_open
  <2> HIDE DEF o
  <2>2. o.s \in LogType
    BY <2>1, SizeType
  <2>3. SameLines(o.s, s) /\ o.s.in_use = s.in_use
    BY <2>1 DEF SameLines, LogType
  <2>4. o.s \in LogType /\ SameLines(o.s, s) /\ o.s.in_use = s.in_use /\ o.open \subseteq open \cup Files
    BY <2>1, <2>2, <2>3
  <2> QED
    BY <2>4 DEF o
<1>3. CASE s.in_use /\ WantsOpen(s) /\ s.filename # NULL /\ ~can
  <2>1. o.s = [s EXCEPT !.logfile = NULL] /\ o.open = open \ {s.logfile}
    BY <1>3 DEF _log_open
  <2> HIDE DEF o
  <2>2. o.s \in LogType /\ SameLines(o.s, s) /\ o.s.in_use = s.in_use
    BY <2>1 DEF SameLines, LogType
  <2>3. o.s \in LogType /\ SameLines(o.s, s) /\ o.s.in_use = s.in_use /\ o.open \subseteq open \cup Files
    BY <2>1, <2>2
  <2> QED
    BY <2>3 DEF o
<1>4. CASE s.in_use /\ WantsOpen(s) /\ s.filename # NULL /\ can
  <2>0. PICK size : size = moved[s.filename]
    OBVIOUS
  <2>1. /\ o.s = [s EXCEPT !.logfile = NewFile(s.filename), !.size = size]
        /\ o.open = (open \ {s.logfile}) \cup {NewFile(s.filename)}
    BY <1>4, <2>0 DEF _log_open
  <2>2. s.filename \in Names
    BY <1>4 DEF LogType
  <2>3. size \in Nat
    BY <2>0, <2>2
  <2>4. opens < MaxOpens
    BY <1>4, Zenon
  <2>5. NewFile(s.filename) \in Files
    BY <2>2, <2>4, LogAssumption DEF NewFile, Files
  <2> HIDE DEF o
  <2>6. PICK f \in Files : f = NewFile(s.filename)
    BY <2>5
  <2>7. o.s = [s EXCEPT !.logfile = f, !.size = size]
    BY <2>1, <2>6
  <2>8. o.s \in LogType /\ SameLines(o.s, s) /\ o.s.in_use = s.in_use
    BY <2>3, <2>7 DEF SameLines, LogType
  <2>9. o.s \in LogType /\ SameLines(o.s, s) /\ o.s.in_use = s.in_use /\ o.open \subseteq open \cup Files
    BY <2>1, <2>5, <2>8
  <2> QED
    BY <2>9 DEF o
<1> QED
  BY <1>1, <1>2, <1>3, <1>4

-----------------------------------------------------------------------------
(* The invariant about the kept lines                                      *)

\* Every slot keeps the last lines of its history.
Kept(i) == Book(loglist[i]) /\ Latest(loglist[i].list, hist[i])

\* A log begins without lines: a slot that nobody uses, or that a call is about
\* to give to the client, has none.
Fresh == /\ \A i \in Slots : ~loglist[i].in_use => loglist[i].list = <<>>
         /\ \A t \in Threads : OpeningAt(t) => loglist[loc[t].id].list = <<>>

\* The arguments of the two calls that change the lines.
Args == \A t \in Threads : pc[t] = "locked" =>
            /\ loc[t].op = "keep" => loc[t].arg \in KeepCounts
            /\ loc[t].op \in {"write", "write_direct"} => loc[t].arg \in 1 .. MaxWrites

LinesInv == /\ loglist \in [Slots -> LogType] /\ hist \in [Slots -> Seq(Lines)]
            /\ \A i \in Slots : Kept(i)
            /\ Fresh

\* log_initialize.
LEMMA InitLines == Init => LinesInv /\ Args
<1> SUFFICES ASSUME Init PROVE LinesInv /\ Args
  OBVIOUS
<1>1. ASSUME NEW i \in Slots
      PROVE  loglist[i] \in LogType /\ loglist[i].list = <<>> /\ Kept(i)
  <2>1. /\ loglist[i].list = <<>> /\ loglist[i].total = 0 /\ loglist[i].entries = 0
        /\ loglist[i].keep_entries = 0 /\ hist[i] = <<>>
    BY DEF Init
  <2>2. Len(<<>>) = 0 /\ <<>> \in Seq(Lines) /\ 0 <= 0
    BY EmptySeq
  <2>3. loglist[i] \in LogType
    BY <2>2, LogAssumption DEF Init, LogType
  <2>4. Kept(i)
    BY <2>1, <2>2, SumOfNone, LatestOfNone DEF Kept, Book, Counted
  <2> QED
    BY <2>1, <2>3, <2>4
<1>2. loglist \in [Slots -> LogType] /\ hist \in [Slots -> Seq(Lines)]
  <2>1. loglist = [i \in Slots |-> loglist[i]] /\ hist = [i \in Slots |-> <<>>]
    BY DEF Init
  <2> QED
    BY <1>1, <2>1, EmptySeq
<1>3. Fresh /\ Args
  BY <1>1 DEF Init, Fresh, Args, OpeningAt
<1> QED
  BY <1>1, <1>2, <1>3 DEF LinesInv

\* No slot changes.
LEMMA QuietLines ==
    ASSUME LinesInv, UNCHANGED <<loglist, hist>>,
           \A u \in Threads : OpeningAt(u)' => OpeningAt(u) /\ loc'[u].id = loc[u].id
    PROVE  LinesInv'
BY DEF LinesInv, Kept, Fresh

\* One slot changes.
LEMMA SlotLines ==
    ASSUME LinesInv, NEW i \in Slots, NEW s \in LogType, NEW h \in Seq(Lines),
           Set(i, s), hist' = [hist EXCEPT ![i] = h],
           Book(s), Latest(s.list, h), ~s.in_use => s.list = <<>>,
           \A u \in Threads : OpeningAt(u)' =>
               \/ loc'[u].id = i /\ s.list = <<>>
               \/ OpeningAt(u) /\ loc'[u].id = loc[u].id /\ loc[u].id \in Slots \ {i}
    PROVE  LinesInv'
<1>1. loglist' \in [Slots -> LogType] /\ hist' \in [Slots -> Seq(Lines)]
  BY DEF LinesInv, Set
<1>2. /\ loglist'[i] = s /\ hist'[i] = h
      /\ \A j \in Slots \ {i} : loglist'[j] = loglist[j] /\ hist'[j] = hist[j]
  BY DEF LinesInv, Set
<1>3. \A j \in Slots : Kept(j)'
  BY <1>2 DEF LinesInv, Kept
<1>4. Fresh'
  <2>1. ASSUME NEW j \in Slots, ~loglist'[j].in_use PROVE loglist'[j].list = <<>>
    BY <1>2, <2>1 DEF LinesInv, Fresh
  <2>2. ASSUME NEW u \in Threads, OpeningAt(u)' PROVE loglist'[loc'[u].id].list = <<>>
    <3>1. CASE loc'[u].id = i /\ s.list = <<>>
      BY <1>2, <3>1
    <3>2. CASE OpeningAt(u) /\ loc'[u].id = loc[u].id /\ loc[u].id \in Slots \ {i}
      <4>1. loglist[loc[u].id].list = <<>>
        BY <3>2 DEF LinesInv, Fresh
      <4>2. loglist'[loc'[u].id] = loglist[loc[u].id]
        BY <1>2, <3>2
      <4> QED
        BY <4>1, <4>2
    <3> QED
      BY <2>2, <3>1, <3>2
  <2> QED
    BY <2>1, <2>2 DEF Fresh
<1> QED
  BY <1>1, <1>3, <1>4 DEF LinesInv

\* One of the client's slots changes.
LEMMA ClientLines ==
    ASSUME IInv, LinesInv, NEW t \in Threads, NEW i \in ids, NEW s \in LogType,
           NEW h \in Seq(Lines),
           Set(i, s), hist' = [hist EXCEPT ![i] = h],
           Book(s), Latest(s.list, h), s.in_use = loglist[i].in_use,
           \/ UNCHANGED <<pc, loc>>
           \/ \E p \in PCs \ {"set_file", "set_name"}, l \in LocType : Goto(t, p, l)
    PROVE  LinesInv'
<1>1. i \in Slots /\ s.in_use
  BY DEF IInv, Types, Owners
<1>2. ASSUME NEW u \in Threads, OpeningAt(u)'
      PROVE  OpeningAt(u) /\ loc'[u].id = loc[u].id /\ loc[u].id \in Slots \ {i}
  <2>1. OpeningAt(u) /\ loc'[u].id = loc[u].id
    BY <1>2 DEF Goto, OpeningAt, IInv, Types
  <2>2. loc[u].id \in Slots /\ loc[u].id \notin ids
    BY <2>1 DEF IInv, Roles, Role, Owners, Claims
  <2> QED
    BY <2>1, <2>2
<1> QED
  BY <1>1, <1>2, SlotLines

-----------------------------------------------------------------------------
(* The steps                                                               *)

\* log_open and log_open_file: the lines of the log before are gone.
LEMMA OpeningLines ==
    ASSUME IInv, LinesInv, NEW t \in Threads, Opening(t)
    PROVE  LinesInv'
<1>0. pc \in [Threads -> PCs] /\ loc \in [Threads -> LocType]
  BY DEF IInv, Types
<1>1. ASSUME \/ \E n \in Names : log_open(t, n)
             \/ log_open_file(t)
             \/ NoMoreLogs(t)
      PROVE  LinesInv'
  BY <1>0, <1>1, QuietLines
  DEF log_open, log_open_file, NoMoreLogs, Return, Goto, OpeningAt
<1>2. ASSUME GetLogId(t) PROVE LinesInv'
  <2>1. PICK i \in FreeSlots :
          /\ Set(i, [loglist[i] EXCEPT !.in_use = TRUE])
          /\ Goto(t, "set_file", [loc[t] EXCEPT !.id = i])
    BY <1>2 DEF GetLogId
  <2> DEFINE s == [loglist[i] EXCEPT !.in_use = TRUE]
  <2>2. i \in Slots /\ ~loglist[i].in_use /\ loglist[i] \in LogType
    BY DEF FreeSlots, LinesInv
  <2>3. /\ s \in LogType /\ s.list = loglist[i].list /\ s.total = loglist[i].total
        /\ s.entries = loglist[i].entries /\ s.keep_entries = loglist[i].keep_entries
        /\ s.in_use
    BY <2>2 DEF LogType
  <2>4. hist' = [hist EXCEPT ![i] = hist[i]] /\ hist[i] \in Seq(Lines)
    BY <1>2, <2>2 DEF GetLogId, LinesInv
  <2>5. Kept(i) /\ loglist[i].list = <<>>
    BY <2>2 DEF LinesInv, Fresh
  <2>6. Set(i, s)
    BY <2>1
  <2> HIDE DEF s
  <2>7. Book(s) /\ Latest(s.list, hist[i]) /\ s.list = <<>>
    BY <2>3, <2>5 DEF Kept, Book, Counted
  <2>8. ASSUME NEW u \in Threads, OpeningAt(u)'
        PROVE  \/ loc'[u].id = i /\ s.list = <<>>
               \/ OpeningAt(u) /\ loc'[u].id = loc[u].id /\ loc[u].id \in Slots \ {i}
    <3>1. CASE u = t
      <4>1. loc'[t] = [loc[t] EXCEPT !.id = i] /\ loc[t] \in LocType
        BY <1>0, <2>1 DEF Goto
      <4>2. loc'[t].id = i
        BY <4>1 DEF LocType
      <4> QED
        BY <2>7, <3>1, <4>2
    <3>2. CASE u # t
      <4>1. OpeningAt(u) /\ loc'[u] = loc[u]
        BY <1>0, <2>1, <2>8, <3>2 DEF Goto, OpeningAt
      <4>2. loc[u].id \in Slots /\ loglist[loc[u].id].in_use
        BY <4>1 DEF IInv, Roles, Role, Owners, Claims
      <4> QED
        BY <2>2, <4>1, <4>2
    <3> QED
      BY <3>1, <3>2
  <2> QED
    BY <2>2, <2>3, <2>4, <2>6, <2>7, <2>8, SlotLines
<1>3. ASSUME SetFile(t) PROVE LinesInv'
  <2>0. PICK i : i = loc[t].id
    OBVIOUS
  <2>1. OpeningAt(t) /\ i \in Slots /\ loglist[i].in_use /\ loc[t] \in LocType
    BY <1>3, <2>0 DEF SetFile, OpeningAt, IInv, Types, Roles, Role, Owners, Claims
  <2>2. PICK f : f = loc[t].file
    OBVIOUS
  <2>3. f \in Files \cup {NULL}
    BY <2>1, <2>2 DEF LocType
  <2> DEFINE s == [loglist[i] EXCEPT !.logfile = f, !.filename = NULL, !.size = 0]
  <2>4. loglist[i] \in LogType /\ loglist[i].list = <<>> /\ Kept(i)
    BY <2>0, <2>1 DEF LinesInv, Fresh
  <2>5. s \in LogType
    BY <2>3, <2>4 DEF LogType
  <2>6. /\ s.list = loglist[i].list /\ s.total = loglist[i].total
        /\ s.entries = loglist[i].entries /\ s.keep_entries = loglist[i].keep_entries
    BY <2>4 DEF LogType
  <2>7. Set(i, s) /\ hist' = [hist EXCEPT ![i] = <<>>]
    BY <1>3, <2>0, <2>2 DEF SetFile
  <2> HIDE DEF s
  <2>8. s.list = <<>> /\ Book(s)
    BY <2>4, <2>6 DEF Kept, Book, Counted
  <2>9. <<>> \in Seq(Lines) /\ Latest(s.list, <<>>)
    <3>1. <<>> \in Seq(Lines)
      BY EmptySeq
    <3> QED
      BY <2>8, <3>1, LatestOfNone
  <2>10. ASSUME NEW u \in Threads, OpeningAt(u)'
         PROVE  \/ loc'[u].id = i /\ s.list = <<>>
                \/ OpeningAt(u) /\ loc'[u].id = loc[u].id /\ loc[u].id \in Slots \ {i}
    <3>1. OpeningAt(u) /\ loc'[u] = loc[u]
      BY <1>0, <1>3, <2>1, <2>10 DEF SetFile, Goto, Return, OpeningAt
    <3>2. loc[u].id \in Slots
      BY <3>1 DEF IInv, Roles, Role
    <3> QED
      BY <2>8, <3>1, <3>2
  <2> QED
    BY <2>1, <2>5, <2>7, <2>8, <2>9, <2>10, SlotLines
<1>4. ASSUME SetName(t) PROVE LinesInv'
  <2>0. PICK i : i = loc[t].id
    OBVIOUS
  <2>1. /\ OpeningAt(t) /\ i \in Slots /\ loglist[i].in_use /\ loc[t].arg \in Names
        /\ disk \in [Names -> Nat]
    BY <1>4, <2>0 DEF SetName, OpeningAt, IInv, Types, Roles, Role, Owners, Claims
  <2>2. PICK a \in Names, size \in Nat : a = loc[t].arg /\ size = disk[loc[t].arg]
    BY <2>1
  <2> DEFINE s == [loglist[i] EXCEPT !.filename = a, !.size = size,
                                     !.entries = 0, !.list = <<>>, !.tail = "ok"]
  <2>4. loglist[i] \in LogType /\ loglist[i].list = <<>> /\ Kept(i)
    BY <2>0, <2>1 DEF LinesInv, Fresh
  <2>5. s \in LogType
    BY <2>2, <2>4, EmptySeq DEF LogType
  <2>6. /\ s.list = <<>> /\ s.total = loglist[i].total /\ s.entries = 0
        /\ s.keep_entries = loglist[i].keep_entries
    BY <2>4 DEF LogType
  <2>7. Set(i, s) /\ hist' = [hist EXCEPT ![i] = hist[i]] /\ hist[i] \in Seq(Lines)
    BY <1>4, <2>0, <2>1, <2>2 DEF SetName, LinesInv
  <2> HIDE DEF s
  <2>8. s.list = <<>> /\ Book(s) /\ Latest(s.list, hist[i])
    BY <2>4, <2>6, EmptySeq DEF Kept, Book, Counted
  <2>10. ASSUME NEW u \in Threads, OpeningAt(u)'
         PROVE  \/ loc'[u].id = i /\ s.list = <<>>
                \/ OpeningAt(u) /\ loc'[u].id = loc[u].id /\ loc[u].id \in Slots \ {i}
    <3>1. OpeningAt(u) /\ loc'[u] = loc[u]
      BY <1>0, <1>4, <2>1, <2>10 DEF SetName, Goto, Return, OpeningAt
    <3>2. loc[u].id \in Slots
      BY <3>1 DEF IInv, Roles, Role
    <3> QED
      BY <2>8, <3>1, <3>2
  <2> QED
    BY <2>1, <2>5, <2>7, <2>8, <2>10, SlotLines
<1> QED
  BY <1>1, <1>2, <1>3, <1>4 DEF Opening

\* A call on one of the client's logs that leaves its lines alone.
LEMMA OtherFields ==
    ASSUME IInv, LinesInv, NEW t \in Threads, NEW i \in ids, NEW s \in LogType,
           Set(i, s), hist' = hist, SameLines(s, loglist[i]), s.in_use = loglist[i].in_use,
           \/ UNCHANGED <<pc, loc>>
           \/ Return(t)
    PROVE  LinesInv'
<1>1. i \in Slots /\ Kept(i) /\ hist[i] \in Seq(Lines)
  BY DEF IInv, Types, LinesInv
<1>2. Book(s) /\ Latest(s.list, hist[i])
  BY <1>1 DEF Kept, Book, Counted, SameLines
<1>3. hist' = [hist EXCEPT ![i] = hist[i]]
  BY <1>1 DEF LinesInv
<1>4. \/ UNCHANGED <<pc, loc>>
      \/ \E p \in PCs \ {"set_file", "set_name"}, l \in LocType : Goto(t, p, l)
  <2>1. "idle" \in PCs \ {"set_file", "set_name"}
    BY DEF PCs
  <2> QED
    BY <2>1, NoLocType DEF Return
<1> QED
  BY <1>1, <1>2, <1>3, <1>4, ClientLines

\* The slot of a caller that has the mutex.
LEMMA LockedSlot ==
    ASSUME IInv, NEW t \in Threads, pc[t] = "locked", loc[t].op # "close"
    PROVE  loc[t].id \in ids /\ loc[t].id \in Slots /\ loglist[loc[t].id].filename # "freed"
BY DEF IInv, Roles, Role, ClosingAt, Freed

\* The settings: log_set_lines_kept trims the lines, the others leave them alone.
LEMMA SettingLines ==
    ASSUME IInv, LinesInv, Args, NEW t \in Threads, Setting(t)
    PROVE  LinesInv'
<1>0. pc \in [Threads -> PCs] /\ loc \in [Threads -> LocType] /\ ids \subseteq Slots
  BY DEF IInv, Types
<1>1. ASSUME NEW i \in ids,
             \/ \E n \in KeepCounts : log_set_lines_kept(t, i, n)
             \/ \E n \in Names \cup {NULL} : log_set_filename(t, i, n)
      PROVE  LinesInv'
  BY <1>0, <1>1, QuietLines
  DEF log_set_lines_kept, log_set_filename, Checked, Goto, OpeningAt
<1>2. ASSUME NEW i \in ids, NEW k \in Triggers, log_set_trigger(t, i, k) PROVE LinesInv'
  <2>1. PICK q \in Nat : q = (k * Kilo) % UIntRange
    BY LogAssumption
  <2> DEFINE s == [loglist[i] EXCEPT !.trigger_level = q]
  <2>2. loglist[i] \in LogType
    BY <1>0 DEF LinesInv
  <2>3. s \in LogType /\ SameLines(s, loglist[i]) /\ s.in_use = loglist[i].in_use
    BY <2>2 DEF LogType, SameLines
  <2>4. Set(i, s) /\ hist' = hist /\ UNCHANGED <<pc, loc>>
    BY <1>2, <2>1 DEF log_set_trigger
  <2> HIDE DEF s
  <2> QED
    BY <2>3, <2>4, OtherFields
<1>3. ASSUME NEW i \in ids, NEW l \in Levels, log_set_level(t, i, l) PROVE LinesInv'
  <2> DEFINE s == [loglist[i] EXCEPT !.level = l]
  <2>1. loglist[i] \in LogType /\ l \in Nat
    BY <1>0, LogAssumption DEF LinesInv
  <2>3. s \in LogType /\ SameLines(s, loglist[i]) /\ s.in_use = loglist[i].in_use
    BY <2>1 DEF LogType, SameLines
  <2>4. Set(i, s) /\ hist' = hist /\ UNCHANGED <<pc, loc>>
    BY <1>3 DEF log_set_level
  <2> HIDE DEF s
  <2> QED
    BY <2>3, <2>4, OtherFields
<1>4. ASSUME SetFilename(t) PROVE LinesInv'
  <2>0. PICK i \in ids : i = loc[t].id
    BY <1>4, LockedSlot DEF SetFilename
  <2>1. PICK a \in Names \cup {NULL} : a = loc[t].arg
    BY <1>4 DEF SetFilename, IInv, Roles, Role
  <2> DEFINE s == [loglist[i] EXCEPT !.filename = a]
  <2>2. loglist[i] \in LogType
    BY <1>0 DEF LinesInv
  <2>3. s \in LogType /\ SameLines(s, loglist[i]) /\ s.in_use = loglist[i].in_use
    BY <2>2 DEF LogType, SameLines
  <2>4. Set(i, s) /\ hist' = hist /\ Return(t)
    BY <1>4, <2>0, <2>1 DEF SetFilename
  <2> HIDE DEF s
  <2> QED
    BY <2>3, <2>4, OtherFields
<1>5. ASSUME SetLinesKept(t) PROVE LinesInv'
  <2>0. PICK i \in ids : i = loc[t].id
    BY <1>5, LockedSlot DEF SetLinesKept
  <2>1. PICK n \in Nat : n = loc[t].arg
    BY <1>5, LogAssumption DEF SetLinesKept, Args
  <2> DEFINE k == [loglist[i] EXCEPT !.keep_entries = n]
             s == Trim(k, n)
  <2>2. loglist[i] \in LogType /\ Kept(i) /\ hist[i] \in Seq(Lines) /\ i \in Slots
    BY <1>0 DEF LinesInv
  <2>3. /\ k \in LogType /\ k.keep_entries = n /\ k.list = loglist[i].list
        /\ k.total = loglist[i].total /\ k.entries = loglist[i].entries
        /\ k.in_use = loglist[i].in_use
    BY <2>2 DEF LogType
  <2>4. Set(i, s) /\ hist' = [hist EXCEPT ![i] = hist[i]] /\ Return(t)
    BY <1>5, <2>0, <2>1, <2>2 DEF SetLinesKept, LinesInv
  <2> HIDE DEF k
  <2>5. Counted(k) /\ Latest(k.list, hist[i])
    BY <2>2, <2>3 DEF Kept, Book, Counted
  <2>6. /\ s \in LogType /\ Counted(s) /\ s.entries <= n /\ s.keep_entries = n
        /\ Latest(s.list, hist[i])
    BY <2>2, <2>3, <2>5, TrimLines
  <2>7. s.in_use = loglist[i].in_use
    BY <2>3, TrimKeeps, TypeIsSlotOK DEF Alike
  <2> HIDE DEF s
  <2>8. Book(s)
    BY <2>6 DEF Book
  <2>9. \E p \in PCs \ {"set_file", "set_name"}, l \in LocType : Goto(t, p, l)
    <3>1. "idle" \in PCs \ {"set_file", "set_name"}
      BY DEF PCs
    <3> QED
      BY <2>4, <3>1, NoLocType DEF Return
  <2> QED
    BY <2>2, <2>4, <2>6, <2>7, <2>8, <2>9, ClientLines
<1> QED
  BY <1>1, <1>2, <1>3, <1>4, <1>5 DEF Setting

\* Flushing, opening again, closing: log_close frees all lines.
LEMMA ClosingLines ==
    ASSUME IInv, LinesInv, NEW t \in Threads, Closing(t)
    PROVE  LinesInv'
<1>0. pc \in [Threads -> PCs] /\ loc \in [Threads -> LocType] /\ ids \subseteq Slots
  BY DEF IInv, Types
<1>1. ASSUME \/ \E i \in ids : log_flush(t, i) \/ log_reopen(t, i) \/ log_close(t, i)
             \/ Flush(t)
      PROVE  LinesInv'
  BY <1>0, <1>1, QuietLines
  DEF log_flush, log_reopen, log_close, Checked, Flush, Return, Goto, OpeningAt
<1>2. ASSUME Reopen(t) PROVE LinesInv'
  <2>0. PICK i \in ids : i = loc[t].id
    BY <1>2, LockedSlot DEF Reopen
  <2> DEFINE s == [loglist[i] EXCEPT !.logfile = NULL]
  <2>1. loglist[i] \in LogType
    BY <1>0 DEF LinesInv
  <2>2. s \in LogType /\ SameLines(s, loglist[i]) /\ s.in_use = loglist[i].in_use
    BY <2>1 DEF LogType, SameLines
  <2>3. Set(i, s) /\ hist' = hist /\ Return(t)
    BY <1>2, <2>0 DEF Reopen
  <2> HIDE DEF s
  <2> QED
    BY <2>2, <2>3, OtherFields
<1>3. ASSUME Close(t) PROVE LinesInv'
  <2>0. PICK i \in Slots : i = loc[t].id /\ loglist[i].in_use
    BY <1>3 DEF Close, IInv, Roles, Role, Owners, Claims, ClosingAt
  <2>1. PICK r : r = Trim(loglist[i], 0)
    OBVIOUS
  <2>2. loglist[i] \in LogType /\ Kept(i) /\ hist[i] \in Seq(Lines)
    BY DEF LinesInv
  <2>3. /\ r \in LogType /\ Counted(r) /\ r.entries <= 0
        /\ r.keep_entries = loglist[i].keep_entries
    BY <2>1, <2>2, TrimLines DEF Kept, Book
  <2>4. PICK f \in Names \cup {NULL, "freed"} :
          f = IF loglist[i].filename = NULL THEN NULL ELSE "freed"
    BY <2>2 DEF LogType
  <2> DEFINE s == [r EXCEPT !.in_use = FALSE, !.level = 2, !.logfile = NULL, !.filename = f]
  <2>5. s \in LogType
    BY <2>3 DEF LogType
  <2>6. SameLines(s, r)
    BY <2>3 DEF SameLines, LogType
  <2>7. Set(i, s) /\ hist' = [hist EXCEPT ![i] = hist[i]] /\ Return(t)
    <3>1. Set(i, s) /\ hist' = hist /\ Return(t)
      BY <1>3, <2>0, <2>1, <2>4 DEF Close
    <3> QED
      BY <3>1 DEF LinesInv
  <2> HIDE DEF s
  <2>8. s.list = <<>> /\ Book(s)
    <3>1. s.entries \in Nat /\ s.entries <= 0 /\ s.keep_entries \in Nat /\ s.list \in Seq(Lines)
      BY <2>3, <2>5, <2>6 DEF SameLines, LogType
    <3>2. Counted(s)
      BY <2>3, <2>6 DEF SameLines, Counted
    <3>3. Len(s.list) = 0 /\ s.entries <= s.keep_entries
      BY <3>1, <3>2 DEF Counted
    <3>4. s.list = <<>>
      BY <3>1, <3>3
    <3> QED
      BY <3>2, <3>3, <3>4 DEF Book
  <2>9. Latest(s.list, hist[i])
    BY <2>2, <2>8, LatestOfNone
  <2>10. ASSUME NEW u \in Threads, OpeningAt(u)'
         PROVE  OpeningAt(u) /\ loc'[u].id = loc[u].id /\ loc[u].id \in Slots \ {i}
    <3>1. OpeningAt(u) /\ loc'[u] = loc[u] /\ u # t
      BY <1>0, <2>7, <2>10 DEF Goto, Return, OpeningAt
    <3>2. Claims(u) /\ Claims(t) /\ loc[u].id \in Slots
      BY <1>3, <3>1 DEF Close, Claims, ClosingAt, IInv, Roles, Role
    <3>3. loc[u].id # loc[t].id
      BY <3>1, <3>2 DEF IInv, Owners
    <3> QED
      BY <2>0, <3>1, <3>2, <3>3
  <2> QED
    BY <2>2, <2>5, <2>7, <2>8, <2>9, <2>10, SlotLines
<1> QED
  BY <1>1, <1>2, <1>3 DEF Closing

\* The line that was written is the last one in the list and in the history.
LEMMA WriteLines ==
    ASSUME IInv, LinesInv, Args, NEW t \in Threads, Write(t)
    PROVE  LinesInv'
<1>0. PICK i \in ids : i = loc[t].id /\ loglist[i].filename # "freed"
  BY LockedSlot DEF Write
<1>1. PICK nr \in 1 .. MaxWrites : nr = loc[t].arg
  BY DEF Write, Args
<1>2. PICK len \in Lens, can \in BOOLEAN :
        /\ can => opens < MaxOpens \/ ~WantsOpen(loglist[i])
        /\ WriteLocked(i, [nr |-> nr, len |-> len], can)
  BY <1>0, <1>1 DEF Write
<1>3. len \in Nat /\ i \in Slots
  BY LogAssumption DEF IInv, Types
<1>4. loglist[i] \in LogType /\ Kept(i) /\ hist[i] \in Seq(Lines)
  BY <1>3 DEF LinesInv
<1> DEFINE o == _log_open(loglist[i], can)
<1>5. o.s \in LogType /\ SameLines(o.s, loglist[i]) /\ o.s.in_use = loglist[i].in_use
  <2>1. disk \in [Names -> Nat] /\ opens \in 0 .. MaxOpens
    BY DEF IInv, Types
  <2> QED
    BY <1>0, <1>2, <1>4, <2>1, OpenLines
<1>6. Book(o.s) /\ Latest(o.s.list, hist[i])
  BY <1>4, <1>5 DEF Kept, Book, Counted, SameLines
<1>7. \E p \in PCs \ {"set_file", "set_name"}, l \in LocType : Goto(t, p, l)
  <2>1. {"idle", "read_file"} \subseteq PCs \ {"set_file", "set_name"} /\ loc[t] \in LocType
    BY DEF PCs, IInv, Types
  <2>2. Return(t) \/ Goto(t, "read_file", loc[t])
    BY DEF Write
  <2> QED
    BY <2>1, <2>2, NoLocType DEF Return
<1>8. CASE ~o.ret
  <2>1. Set(i, o.s) /\ hist' = hist
    BY <1>2, <1>8 DEF WriteLocked
  <2>2. hist' = [hist EXCEPT ![i] = hist[i]]
    BY <2>1 DEF LinesInv
  <2> HIDE DEF o
  <2> QED
    BY <1>4, <1>5, <1>6, <1>7, <2>1, <2>2, ClientLines
<1>9. CASE o.ret
  <2> DEFINE r == create_log_entry(o.s, [nr |-> nr, len |-> len])
             h == IF o.s.keep_entries = 0 THEN hist[i]
                  ELSE Append(hist[i], [nr |-> nr, len |-> len + 1])
  <2>1. Set(i, r)
    BY <1>2, <1>9 DEF WriteLocked
  <2>2. hist' = [hist EXCEPT ![i] = h]
    <3>1. [[nr |-> nr, len |-> len] EXCEPT !.len = len + 1] = [nr |-> nr, len |-> len + 1]
      OBVIOUS
    <3>2. hist' = [hist EXCEPT ![i] =
             IF o.s.keep_entries = 0 THEN hist[i]
             ELSE Append(hist[i], [[nr |-> nr, len |-> len] EXCEPT !.len = len + 1])]
      BY <1>2, <1>9 DEF WriteLocked
    <3> HIDE DEF o
    <3> QED
      BY <3>1, <3>2
  <2> HIDE DEF o
  <2>3. /\ r \in LogType /\ Book(r) /\ h \in Seq(Lines) /\ Latest(r.list, h)
    BY <1>3, <1>4, <1>5, <1>6, EntryLines
  <2>4. r.in_use = loglist[i].in_use
    BY <1>3, <1>5, EntryKeeps, TypeIsSlotOK DEF Alike
  <2> HIDE DEF r, h
  <2> QED
    BY <1>7, <2>1, <2>2, <2>3, <2>4, ClientLines
<1> QED
  BY <1>8, <1>9

\* Every step keeps the lines in order.
LEMMA NextLines == IInv /\ LinesInv /\ Args /\ [Next]_vars => LinesInv'
<1> SUFFICES ASSUME IInv, LinesInv, Args, [Next]_vars PROVE LinesInv'
  OBVIOUS
<1>0. pc \in [Threads -> PCs] /\ loc \in [Threads -> LocType]
  BY DEF IInv, Types
<1>1. ASSUME UNCHANGED vars PROVE LinesInv'
  BY <1>1, QuietLines DEF vars, OpeningAt
<1>2. ASSUME NEW t \in Threads, Writing(t) PROVE LinesInv'
  <2>1. ASSUME ~Write(t) PROVE LinesInv'
    BY <1>0, <1>2, <2>1, QuietLines
    DEF Writing, log_write, log_write_direct, StartWrite, ReadFile, DirectFlush, log_contents,
        Return, Goto, OpeningAt
  <2> QED
    BY <2>1, WriteLines
<1> QED
  BY <1>1, <1>2, OpeningLines, SettingLines, ClosingLines DEF Next, Idle

\* The arguments are those of the call.
LEMMA NextArgs == IInv /\ Args /\ [Next]_vars => Args'
<1> SUFFICES ASSUME IInv, Args, [Next]_vars PROVE Args'
  OBVIOUS
<1>0. /\ pc \in [Threads -> PCs] /\ loc \in [Threads -> LocType]
      /\ writes \in 0 .. MaxWrites /\ MaxWrites \in Nat
  BY LogAssumption DEF IInv, Types
<1>1. CASE UNCHANGED vars
  BY <1>1 DEF vars, Args
<1>2. ASSUME NEW t \in Threads, NEW p, NEW l, Goto(t, p, l),
             p = "locked" =>
                 /\ l.op = "keep" => l.arg \in KeepCounts
                 /\ l.op \in {"write", "write_direct"} => l.arg \in 1 .. MaxWrites
      PROVE  Args'
  BY <1>0, <1>2 DEF Goto, Args
<1>3. ASSUME UNCHANGED <<pc, loc>> PROVE Args'
  BY <1>3 DEF Args
<1>4. ASSUME NEW t \in Threads, Opening(t) PROVE Args'
  <2>1. \E p \in PCs \ {"locked"} : \E l : Goto(t, p, l)
    BY <1>4 DEF Opening, log_open, log_open_file, GetLogId, NoMoreLogs, SetFile, SetName,
                Return, PCs
  <2> QED
    BY <1>2, <2>1
<1>5. ASSUME NEW t \in Threads, Setting(t) PROVE Args'
  <2>1. ASSUME NEW i \in ids, NEW n \in KeepCounts, log_set_lines_kept(t, i, n) PROVE Args'
    BY <1>2, <2>1 DEF log_set_lines_kept, Checked
  <2>2. ASSUME NEW i \in ids, NEW n \in Names \cup {NULL}, log_set_filename(t, i, n) PROVE Args'
    BY <1>2, <2>2 DEF log_set_filename, Checked
  <2>3. ASSUME SetLinesKept(t) \/ SetFilename(t) PROVE Args'
    BY <1>2, <2>3 DEF SetLinesKept, SetFilename, Return
  <2>4. ASSUME NEW i \in ids, \/ \E k \in Triggers : log_set_trigger(t, i, k)
                              \/ \E l \in Levels : log_set_level(t, i, l)
        PROVE  Args'
    BY <1>3, <2>4 DEF log_set_trigger, log_set_level
  <2> QED
    BY <1>5, <2>1, <2>2, <2>3, <2>4 DEF Setting
<1>6. ASSUME NEW t \in Threads, Closing(t) PROVE Args'
  <2>1. ASSUME NEW i \in ids, log_flush(t, i) \/ log_reopen(t, i) \/ log_close(t, i) PROVE Args'
    BY <1>2, <2>1 DEF log_flush, log_reopen, log_close, Checked
  <2>2. ASSUME Flush(t) \/ Reopen(t) \/ Close(t) PROVE Args'
    BY <1>2, <2>2 DEF Flush, Reopen, Close, Return
  <2> QED
    BY <1>6, <2>1, <2>2 DEF Closing
<1>7. ASSUME NEW t \in Threads, Writing(t) PROVE Args'
  <2>1. ASSUME NEW i \in ids, NEW o \in {"write", "write_direct"}, StartWrite(t, i, o)
        PROVE  Args'
    <3>1. writes + 1 \in 1 .. MaxWrites
      BY <1>0, <2>1 DEF StartWrite
    <3> QED
      BY <1>2, <2>1, <3>1 DEF StartWrite
  <2>2. ASSUME Write(t) \/ ReadFile(t) \/ DirectFlush(t) PROVE Args'
    BY <1>2, <2>2 DEF Write, ReadFile, DirectFlush, Return
  <2>3. ASSUME NEW i \in ids, log_contents(t, i) PROVE Args'
    BY <1>3, <2>3 DEF log_contents
  <2> QED
    BY <1>7, <2>1, <2>2, <2>3 DEF Writing, log_write, log_write_direct
<1> QED
  BY <1>1, <1>4, <1>5, <1>6, <1>7 DEF Next, Idle, vars

-----------------------------------------------------------------------------
(* Types                                                                   *)

\* What TypeOK says of the FILEs, the settings and the faults.
Rest == /\ open \subseteq Files /\ sets \in 0 .. MaxSets
        /\ fault \in {"none", "null", "closed", "freed", "short"}

\* log_initialize.
LEMMA InitRest == Init => Rest
BY LogAssumption DEF Init, Rest

\* _log_open opens FILEs of names that slots have.
LEMMA NextRest == IInv /\ LinesInv /\ Rest /\ [Next]_vars => Rest'
<1> SUFFICES ASSUME IInv, LinesInv, Rest, [Next]_vars PROVE Rest'
  OBVIOUS
<1>0. opens \in 0 .. MaxOpens /\ MaxOpens \in Nat /\ MaxSets \in Nat
  BY LogAssumption DEF IInv, Types
<1>1. CASE UNCHANGED vars
  BY <1>1 DEF vars, Rest
<1>2. \A n \in Names \cup {NULL} : opens < MaxOpens => NewFile(n) \in Files
  BY <1>0 DEF NewFile, Files
<1>3. \A f : UseFile(f) \in {"none", "null", "closed"}
  BY DEF UseFile
<1>4. ASSUME NEW t \in Threads, Opening(t) PROVE Rest'
  BY <1>2, <1>4 DEF Opening, log_open, log_open_file, GetLogId, NoMoreLogs, SetFile, SetName, Rest
<1>5. ASSUME NEW t \in Threads, Setting(t) PROVE Rest'
  <2>1. ASSUME sets < MaxSets, sets' = sets + 1 PROVE sets' \in 0 .. MaxSets
    BY <1>0, <2>1 DEF Rest
  <2>2. ASSUME NEW i \in ids,
               \/ \E k \in Triggers : log_set_trigger(t, i, k)
               \/ \E l \in Levels : log_set_level(t, i, l)
               \/ \E n \in KeepCounts : log_set_lines_kept(t, i, n)
               \/ \E n \in Names \cup {NULL} : log_set_filename(t, i, n)
        PROVE  Rest'
    BY <2>1, <2>2
    DEF log_set_trigger, log_set_level, log_set_lines_kept, log_set_filename, Checked, Rest
  <2>3. ASSUME SetLinesKept(t) \/ SetFilename(t) PROVE Rest'
    BY <2>3 DEF SetLinesKept, SetFilename, Rest
  <2> QED
    BY <1>5, <2>2, <2>3 DEF Setting
<1>6. ASSUME NEW t \in Threads, Closing(t) PROVE Rest'
  BY <1>3, <1>6
  DEF Closing, log_flush, log_reopen, log_close, Checked, Flush, Reopen, Close, Rest
<1>7. ASSUME NEW t \in Threads, Writing(t) PROVE Rest'
  <2>1. ASSUME Write(t) PROVE Rest'
    <3>0. PICK i \in ids : i = loc[t].id /\ loglist[i].filename # "freed"
      BY <2>1, LockedSlot DEF Write
    <3>1. PICK len \in Lens, can \in BOOLEAN :
            /\ can => opens < MaxOpens \/ ~WantsOpen(loglist[i])
            /\ WriteLocked(i, [nr |-> loc[t].arg, len |-> len], can)
            /\ sets' = sets
      BY <2>1, <3>0 DEF Write
    <3> DEFINE o == _log_open(loglist[i], can)
    <3>2. o.open \subseteq open \cup Files
      BY <1>0, <3>0, <3>1, OpenLines DEF IInv, Types, LinesInv
    <3>3. open' = o.open
      BY <3>1 DEF WriteLocked
    <3>4. fault' \in {"none", "null", "closed", "freed", "short"}
      <4> HIDE DEF o
      <4> QED
        BY <3>1 DEF WriteLocked, Rest
    <3> HIDE DEF o
    <3> QED
      BY <3>1, <3>2, <3>3, <3>4 DEF Rest
  <2>2. ASSUME ~Write(t) PROVE Rest'
    BY <1>3, <1>7, <2>2
    DEF Writing, log_write, log_write_direct, StartWrite, ReadFile, DirectFlush, log_contents, Rest
  <2> QED
    BY <2>1, <2>2
<1> QED
  BY <1>1, <1>4, <1>5, <1>6, <1>7 DEF Next, Idle, vars

-----------------------------------------------------------------------------
(* The theorems about the kept lines                                       *)

AllInv == IInv /\ LinesInv /\ Args /\ Rest

\* Every step keeps all of it.
THEOREM LinesInductive == Spec => []AllInv
<1>1. Init => AllInv
  BY InitIInv, InitLines, InitRest DEF AllInv
<1>2. AllInv /\ [Next]_vars => AllInv'
  BY NextIInv, NextLines, NextArgs, NextRest DEF AllInv
<1> QED
  BY <1>1, <1>2, PTL DEF Spec

\* The variables are what the declarations in log.c say (log_tag, LOG_MAXLOGS).
THEOREM TypesCorrect == Spec => []TypeOK
<1>1. AllInv => TypeOK
  BY DEF AllInv, IInv, Types, LinesInv, Rest, TypeOK, PCs
<1> QED
  BY <1>1, LinesInductive, PTL

\* "total" and "entries" agree with the list, whatever log_set_lines_kept and
\* create_log_entry freed, and log_contents finds its buffer large enough.
THEOREM CountersAgree == Spec => []Bookkeeping
<1>1. AllInv => Bookkeeping
  BY DEF AllInv, LinesInv, Kept, Book, Counted, Bookkeeping
<1> QED
  BY <1>1, LinesInductive, PTL

\* What log_contents returns are the last lines written, in order.
THEOREM LatestLinesKept == Spec => []KeptAreLatest
<1>1. AllInv => KeptAreLatest
  <2> SUFFICES ASSUME AllInv, NEW i \in ids PROVE IsSuffix(loglist[i].list, hist[i])
    BY DEF KeptAreLatest
  <2>1. i \in Slots
    BY DEF AllInv, IInv, Types
  <2>2. /\ loglist[i].list \in Seq(Lines) /\ hist[i] \in Seq(Lines)
        /\ Latest(loglist[i].list, hist[i])
    BY <2>1 DEF AllInv, LinesInv, Kept, LogType
  <2> QED
    BY <2>2, LatestIsSuffix
<1> QED
  BY <1>1, LinesInductive, PTL

-----------------------------------------------------------------------------
(* No undefined behaviour                                                  *)

\* What the observations about log.c ask of a client: it keeps at least one line
\* (log.c:287), does not keep lines in a stream of its own (log.c:287 again: nothing
\* sets log_tail), never takes a name away (log.c:248), and calls log_reopen and
\* log_write_direct, which look at the slot without the mutex (log.c:323, 710), from
\* one thread only.
Careful ==
    /\ 0 \notin KeepCounts
    /\ "keep" \notin Ops \/ "open_file" \notin Ops
    /\ "null_filename" \notin Ops
    /\ \/ "reopen" \notin Ops /\ "write_direct" \notin Ops
       \/ \A t, u \in Threads : t = u

\* A FILE is in one slot, or with one call that is about to put it there, and open;
\* numbers are given out in order.
Opener(t) == pc[t] \in {"get_id", "set_file"}
FilesInv ==
    /\ \A i \in Slots : loglist[i].logfile # NULL => loglist[i].logfile \in open
    /\ \A t \in Threads : Opener(t) => loc[t].file \in open
    /\ \A f \in open : f.nr <= opens
    /\ \A i, j \in Slots : loglist[i].logfile = loglist[j].logfile =>
                              i = j \/ loglist[i].logfile = NULL
    /\ \A t, u \in Threads : Opener(t) /\ Opener(u) /\ loc[t].file = loc[u].file => t = u
    /\ \A t \in Threads, i \in Slots : Opener(t) => loc[t].file # loglist[i].logfile

\* A log that lost its FILE has a name to open it again; log_tail is good wherever
\* lines may be kept; the name of a log that is being closed is not freed.
GoodSlot(s) == /\ s.logfile = NULL => s.filename # NULL
               /\ "open_file" \notin Ops => s.tail = "ok"
SlotsSafe ==
    /\ \A i \in ids : GoodSlot(loglist[i])
    /\ "keep" \notin Ops => \A i \in Slots : loglist[i].keep_entries = 0
    /\ \A t \in Threads : ClosingAt(t) => loglist[loc[t].id].filename # "freed"

\* What log_reopen and log_write_direct saw before they went on still holds.
CallsSafe == \A t \in Threads :
    /\ pc[t] = "locked" /\ loc[t].op = "reopen" =>
           loglist[loc[t].id].logfile # NULL /\ loglist[loc[t].id].filename # NULL
    /\ pc[t] = "flush" /\ loc[t].file # NULL => loc[t].file \in open

SafeInv == FilesInv /\ SlotsSafe /\ CallsSafe

\* log_initialize.
LEMMA InitSafe == Init => SafeInv /\ NoFault
BY LogAssumption
DEF Init, SafeInv, FilesInv, SlotsSafe, CallsSafe, NoFault, Opener, ClosingAt, NoLoc, GoodSlot

\* The FILEs stay where they are.
LEMMA FilesStay ==
    ASSUME FilesInv, open' = open, opens' = opens,
           \A i \in Slots : loglist'[i].logfile = loglist[i].logfile,
           \A u \in Threads : Opener(u)' => Opener(u) /\ loc'[u].file = loc[u].file
    PROVE  FilesInv'
BY DEF FilesInv

\* A FILE that was just opened is not one of the others.
LEMMA NewIsNew ==
    ASSUME AllInv, FilesInv, opens < MaxOpens, NEW n \in Names \cup {NULL}
    PROVE  /\ NewFile(n) \in Files \ open /\ NewFile(n).nr = opens + 1
           /\ NewFile(n) # NULL /\ opens + 1 \in Nat
           /\ \A f \in open : f.nr <= opens + 1
<1>1. opens \in 0 .. MaxOpens /\ MaxOpens \in Nat /\ open \subseteq Files
  BY LogAssumption DEF AllInv, IInv, Types, Rest
<1>2. NewFile(n) \in Files /\ NewFile(n).nr = opens + 1 /\ opens + 1 \in Nat
  BY <1>1 DEF NewFile, Files
<1>3. \A f \in open : f.nr <= opens /\ f.nr \in Nat
  BY <1>1 DEF FilesInv, Files
<1>4. \A f \in open : f.nr <= opens + 1 /\ f.nr # opens + 1
  BY <1>1, <1>3
<1> QED
  BY <1>2, <1>4, NullAssumption

\* log_open and log_open_file: the caller has a new FILE.
LEMMA FilesOpened ==
    ASSUME AllInv, FilesInv, NEW t \in Threads, opens < MaxOpens, NEW n \in Names \cup {NULL},
           NEW l, l.file = NewFile(n), Goto(t, "get_id", l),
           open' = open \cup {NewFile(n)}, opens' = opens + 1, loglist' = loglist
    PROVE  FilesInv'
<1>1. PICK f : f = NewFile(n)
  OBVIOUS
<1>2. /\ f \notin open /\ f.nr = opens + 1 /\ f # NULL /\ opens + 1 \in Nat
      /\ \A g \in open : g.nr <= opens + 1
  BY <1>1, NewIsNew
<1>3. \A g \in open' : g.nr <= opens'
  BY <1>1, <1>2
<1>4. /\ loc'[t].file = f
      /\ \A u \in Threads \ {t} : Opener(u)' => Opener(u) /\ loc'[u] = loc[u]
  BY <1>1 DEF Goto, Opener, AllInv, IInv, Types
<1> QED
  BY <1>1, <1>2, <1>3, <1>4 DEF FilesInv

\* A slot gives up its FILE, and may get a new one.
LEMMA FilesChange ==
    ASSUME AllInv, FilesInv, NEW i \in Slots, NEW s \in LogType, Set(i, s),
           \/ s.logfile = NULL /\ open' = open \ {loglist[i].logfile} /\ opens' = opens
           \/ /\ opens < MaxOpens /\ opens' = opens + 1
              /\ \E n \in Names \cup {NULL} :
                    /\ s.logfile = NewFile(n)
                    /\ open' = (open \ {loglist[i].logfile}) \cup {NewFile(n)},
           \A u \in Threads : Opener(u)' => Opener(u) /\ loc'[u].file = loc[u].file
    PROVE  FilesInv'
<1>1. loglist'[i] = s /\ \A j \in Slots \ {i} : loglist'[j] = loglist[j]
  BY DEF Set, AllInv, LinesInv
<1>2. CASE s.logfile = NULL /\ open' = open \ {loglist[i].logfile} /\ opens' = opens
  <2>1. \A j \in Slots : loglist'[j].logfile # NULL => loglist'[j].logfile \in open'
    BY <1>1, <1>2 DEF FilesInv
  <2>2. \A u \in Threads : Opener(u)' => loc'[u].file \in open'
    BY <1>1, <1>2 DEF FilesInv
  <2>3. \A f \in open' : f.nr <= opens'
    BY <1>2 DEF FilesInv
  <2>4. \A j, k \in Slots : loglist'[j].logfile = loglist'[k].logfile =>
                              j = k \/ loglist'[j].logfile = NULL
    BY <1>1, <1>2 DEF FilesInv
  <2>5. \A u, v \in Threads : Opener(u)' /\ Opener(v)' /\ loc'[u].file = loc'[v].file => u = v
    BY DEF FilesInv
  <2>6. \A u \in Threads, j \in Slots : Opener(u)' => loc'[u].file # loglist'[j].logfile
    <3> SUFFICES ASSUME NEW u \in Threads, NEW j \in Slots, Opener(u)'
                 PROVE  loc'[u].file # loglist'[j].logfile
      OBVIOUS
    <3>1. loc'[u].file \in open /\ loc'[u].file # loglist[j].logfile
      BY DEF FilesInv
    <3>2. NULL \notin open
      BY NullAssumption DEF AllInv, Rest
    <3> QED
      BY <1>1, <1>2, <3>1, <3>2
  <2> QED
    BY <2>1, <2>2, <2>3, <2>4, <2>5, <2>6 DEF FilesInv
<1>3. ASSUME opens < MaxOpens, opens' = opens + 1, NEW n \in Names \cup {NULL},
             s.logfile = NewFile(n),
             open' = (open \ {loglist[i].logfile}) \cup {NewFile(n)}
      PROVE  FilesInv'
  <2>1. PICK f : f = NewFile(n)
    OBVIOUS
  <2>2. /\ f \notin open /\ f.nr = opens + 1 /\ f # NULL /\ opens + 1 \in Nat
        /\ \A g \in open : g.nr <= opens + 1
    BY <1>3, <2>1, NewIsNew
  <2>3. \A g \in open' : g.nr <= opens'
    BY <1>3, <2>1, <2>2
  <2> QED
    BY <1>1, <1>3, <2>1, <2>2, <2>3 DEF FilesInv
<1> QED
  BY <1>2, <1>3

\* The call's FILE becomes the slot's.
LEMMA FilesPassed ==
    ASSUME AllInv, FilesInv, NEW t \in Threads, SetFile(t)
    PROVE  FilesInv'
<1>0. PICK i : i = loc[t].id
  OBVIOUS
<1>1. /\ i \in Slots /\ loglist[i] \in LogType /\ Opener(t)
      /\ pc \in [Threads -> PCs] /\ loc \in [Threads -> LocType]
  BY <1>0 DEF SetFile, AllInv, IInv, Types, Roles, Role, OpeningAt, LinesInv, Opener
<1>2. PICK f : f = loc[t].file
  OBVIOUS
<1> DEFINE s == [loglist[i] EXCEPT !.logfile = f, !.filename = NULL, !.size = 0]
<1>3. s.logfile = f
  BY <1>1 DEF LogType
<1>4. Set(i, s)
  BY <1>0, <1>2 DEF SetFile
<1> HIDE DEF s
<1>5. loglist'[i].logfile = f /\ \A j \in Slots \ {i} : loglist'[j] = loglist[j]
  BY <1>1, <1>3, <1>4 DEF Set, AllInv, LinesInv
<1>6. /\ ~Opener(t)'
      /\ \A u \in Threads \ {t} : Opener(u)' => Opener(u) /\ loc'[u] = loc[u]
  BY <1>1 DEF SetFile, Goto, Return, Opener
<1>7. open' = open /\ opens' = opens
  BY DEF SetFile
<1> QED
  BY <1>1, <1>2, <1>5, <1>6, <1>7 DEF FilesInv

\* One slot changes, but not its FILE.
LEMMA FilesKept ==
    ASSUME AllInv, FilesInv, NEW i \in Slots, NEW s, Set(i, s),
           s.logfile = loglist[i].logfile, open' = open, opens' = opens,
           \A u \in Threads : Opener(u)' => Opener(u) /\ loc'[u].file = loc[u].file
    PROVE  FilesInv'
<1>1. loglist'[i] = s /\ \A j \in Slots \ {i} : loglist'[j] = loglist[j]
  BY DEF Set, AllInv, LinesInv
<1>2. \A j \in Slots : loglist'[j].logfile = loglist[j].logfile
  BY <1>1
<1> QED
  BY <1>2, FilesStay

\* _log_open keeps the FILE, closes it, or puts a new one in its place; it reports
\* success without a FILE only for a slot without a name.
LEMMA OpenFiles ==
    ASSUME NEW s \in LogType, s.filename # "freed", NEW can \in BOOLEAN,
           can => opens < MaxOpens \/ ~WantsOpen(s)
    PROVE  LET o == _log_open(s, can) IN
           \/ /\ o.s.logfile = s.logfile /\ o.open = open /\ o.opens = opens
              /\ o.ret => s.logfile # NULL \/ s.filename = NULL
           \/ /\ o.s.logfile = NULL /\ o.open = open \ {s.logfile} /\ o.opens = opens
              /\ ~o.ret /\ s.filename # NULL
           \/ /\ opens < MaxOpens /\ o.opens = opens + 1
              /\ \E n \in Names \cup {NULL} :
                    /\ o.s.logfile = NewFile(n)
                    /\ o.open = (open \ {s.logfile}) \cup {NewFile(n)}
<1> DEFINE o == _log_open(s, can)
           moved == IF s.logfile = NULL THEN disk ELSE [disk EXCEPT ![s.filename] = 0]
<1>1. CASE ~s.in_use
  BY <1>1 DEF _log_open
<1>2. CASE s.in_use /\ ~WantsOpen(s)
  BY <1>2 DEF _log_open, WantsOpen
<1>3. CASE s.in_use /\ WantsOpen(s) /\ s.filename = NULL
  <2>1. o.s = [s EXCEPT !.size = 0] /\ o.opens = opens /\ o.open = open
    BY <1>3 DEF _log_open
  <2>2. o.s.logfile = s.logfile
    BY <2>1 DEF LogType
  <2> QED
    BY <1>3, <2>1, <2>2
<1>4. CASE s.in_use /\ WantsOpen(s) /\ s.filename # NULL /\ ~can
  <2>1. /\ o.s = [s EXCEPT !.logfile = NULL] /\ o.opens = opens
        /\ o.open = open \ {s.logfile} /\ ~o.ret
    BY <1>4 DEF _log_open
  <2>2. o.s.logfile = NULL
    BY <2>1 DEF LogType
  <2> QED
    BY <1>4, <2>1, <2>2
<1>5. CASE s.in_use /\ WantsOpen(s) /\ s.filename # NULL /\ can
  <2>1. /\ o.s = [s EXCEPT !.logfile = NewFile(s.filename), !.size = moved[s.filename]]
        /\ o.opens = opens + 1
        /\ o.open = (open \ {s.logfile}) \cup {NewFile(s.filename)}
    BY <1>5 DEF _log_open
  <2>2. o.s.logfile = NewFile(s.filename) /\ s.filename \in Names \cup {NULL}
    BY <2>1 DEF LogType
  <2>3. opens < MaxOpens
    BY <1>5, Zenon
  <2> QED
    BY <2>1, <2>2, <2>3
<1> QED
  BY <1>1, <1>2, <1>3, <1>4, <1>5

\* log_write: the FILE is the same, gone, or a new one.
LEMMA FilesWritten ==
    ASSUME AllInv, FilesInv, NEW t \in Threads, Write(t)
    PROVE  FilesInv'
<1>0. PICK i \in ids : i = loc[t].id /\ loglist[i].filename # "freed" /\ i \in Slots
  BY LockedSlot DEF Write, AllInv
<1> DEFINE nr == loc[t].arg
<1>1. PICK len \in Lens, can \in BOOLEAN :
        /\ can => opens < MaxOpens \/ ~WantsOpen(loglist[i])
        /\ WriteLocked(i, [nr |-> nr, len |-> len], can)
  BY <1>0 DEF Write
<1> HIDE DEF nr
<1>2. /\ loglist[i] \in LogType /\ len \in Nat /\ disk \in [Names -> Nat]
      /\ opens \in 0 .. MaxOpens /\ MaxOpens \in Nat
      /\ pc \in [Threads -> PCs] /\ loc \in [Threads -> LocType]
  BY LogAssumption DEF AllInv, LinesInv, IInv, Types
<1> DEFINE o == _log_open(loglist[i], can)
<1>3. /\ SlotOK(o.s) /\ o.s \in LogType
  BY <1>0, <1>1, <1>2, OpenKeeps, OpenLines, TypeIsSlotOK
<1>4. PICK s \in LogType : Set(i, s) /\ s.logfile = o.s.logfile
  <2> DEFINE r == create_log_entry(o.s, [nr |-> nr, len |-> len])
  <2>1. CASE ~o.ret
    BY <1>1, <1>3, <2>1 DEF WriteLocked
  <2>2. CASE o.ret
    <3>1. Set(i, r)
      BY <1>1, <2>2 DEF WriteLocked
    <3>2. loglist' \in [Slots -> LogType] /\ loglist'[i] = r
      <4>1. LinesInv'
        BY WriteLines DEF AllInv
      <4> QED
        BY <1>0, <3>1, <4>1 DEF LinesInv, Set, AllInv
    <3> HIDE DEF o
    <3>3. r.logfile = o.s.logfile
      BY <1>2, <1>3, EntryKeeps
    <3> QED
      BY <1>0, <3>1, <3>2, <3>3
  <2> QED
    BY <2>1, <2>2
<1>5. open' = o.open /\ opens' = o.opens
  BY <1>1 DEF WriteLocked
<1>6. \A u \in Threads : Opener(u)' => Opener(u) /\ loc'[u].file = loc[u].file
  BY <1>2 DEF Write, Return, Goto, Opener
<1>7. \/ /\ o.s.logfile = loglist[i].logfile /\ o.open = open /\ o.opens = opens
      \/ /\ o.s.logfile = NULL /\ o.open = open \ {loglist[i].logfile} /\ o.opens = opens
      \/ /\ opens < MaxOpens /\ o.opens = opens + 1
         /\ \E n \in Names \cup {NULL} :
               /\ o.s.logfile = NewFile(n)
               /\ o.open = (open \ {loglist[i].logfile}) \cup {NewFile(n)}
  BY <1>0, <1>1, <1>2, OpenFiles
<1> HIDE DEF o
<1>8. CASE o.s.logfile = loglist[i].logfile /\ o.open = open /\ o.opens = opens
  BY <1>0, <1>4, <1>5, <1>6, <1>8, FilesKept
<1>9. CASE \/ /\ o.s.logfile = NULL /\ o.open = open \ {loglist[i].logfile} /\ o.opens = opens
           \/ /\ opens < MaxOpens /\ o.opens = opens + 1
              /\ \E n \in Names \cup {NULL} :
                    /\ o.s.logfile = NewFile(n)
                    /\ o.open = (open \ {loglist[i].logfile}) \cup {NewFile(n)}
  BY <1>0, <1>4, <1>5, <1>6, <1>9, FilesChange
<1> QED
  BY <1>7, <1>8, <1>9

\* Every step leaves each FILE with one owner.
LEMMA NextFiles == AllInv /\ FilesInv /\ [Next]_vars => FilesInv'
<1> SUFFICES ASSUME AllInv, FilesInv, [Next]_vars PROVE FilesInv'
  OBVIOUS
<1>0. /\ pc \in [Threads -> PCs] /\ loc \in [Threads -> LocType]
      /\ loglist \in [Slots -> LogType] /\ ids \subseteq Slots
  BY DEF AllInv, IInv, Types, LinesInv
<1>1. CASE UNCHANGED vars
  BY <1>1, FilesStay DEF vars, Opener
\* A step that leaves the FILEs and the callers' FILEs alone.
<1>2. ASSUME NEW t \in Threads, UNCHANGED <<loglist, open, opens>>,
             \/ UNCHANGED <<pc, loc>>
             \/ \E p \in PCs \ {"get_id", "set_file"} : \E l : Goto(t, p, l)
      PROVE  FilesInv'
  <2>1. \A u \in Threads : Opener(u)' => Opener(u) /\ loc'[u].file = loc[u].file
    BY <1>0, <1>2 DEF Goto, Opener
  <2> QED
    BY <1>2, <2>1, FilesStay
<1>3. ASSUME NEW t \in Threads, NEW i \in Slots, NEW s, Set(i, s),
             s.logfile = loglist[i].logfile, UNCHANGED <<open, opens>>,
             \/ UNCHANGED <<pc, loc>>
             \/ \E p \in PCs \ {"get_id", "set_file"} : \E l : Goto(t, p, l)
      PROVE  FilesInv'
  <2>1. \A u \in Threads : Opener(u)' => Opener(u) /\ loc'[u].file = loc[u].file
    BY <1>0, <1>3 DEF Goto, Opener
  <2> QED
    BY <1>3, <2>1, FilesKept
<1>4. "idle" \in PCs \ {"get_id", "set_file"} /\ "locked" \in PCs \ {"get_id", "set_file"}
      /\ "set_name" \in PCs \ {"get_id", "set_file"} /\ "flush" \in PCs \ {"get_id", "set_file"}
  BY DEF PCs
<1>5. ASSUME NEW t \in Threads, Opening(t) PROVE FilesInv'
  <2>1. ASSUME NEW n \in Names, log_open(t, n) PROVE FilesInv'
    <3> DEFINE l == [op |-> "open", id |-> -1, arg |-> n, file |-> NewFile(n)]
    <3>1. l.file = NewFile(n) /\ Goto(t, "get_id", l) /\ n \in Names \cup {NULL}
      BY <2>1 DEF log_open
    <3> HIDE DEF l
    <3> QED
      BY <2>1, <3>1, FilesOpened DEF log_open
  <2>2. ASSUME log_open_file(t) PROVE FilesInv'
    <3> DEFINE l == [op |-> "open_file", id |-> -1, arg |-> NULL, file |-> NewFile(NULL)]
    <3>1. l.file = NewFile(NULL) /\ Goto(t, "get_id", l) /\ NULL \in Names \cup {NULL}
      BY <2>2 DEF log_open_file
    <3> HIDE DEF l
    <3> QED
      BY <2>2, <3>1, FilesOpened DEF log_open_file
  <2>3. ASSUME GetLogId(t) PROVE FilesInv'
    <3>1. PICK i \in Slots : /\ Set(i, [loglist[i] EXCEPT !.in_use = TRUE])
                             /\ Goto(t, "set_file", [loc[t] EXCEPT !.id = i])
      BY <2>3 DEF GetLogId, FreeSlots
    <3>2. [loglist[i] EXCEPT !.in_use = TRUE].logfile = loglist[i].logfile
      BY <1>0 DEF LogType
    <3>3. \A u \in Threads : Opener(u)' => Opener(u) /\ loc'[u].file = loc[u].file
      BY <1>0, <2>3, <3>1 DEF GetLogId, Goto, Opener, LocType
    <3> QED
      BY <2>3, <3>1, <3>2, <3>3, FilesKept DEF GetLogId
  <2>4. ASSUME NoMoreLogs(t) PROVE FilesInv'
    BY <1>2, <1>4, <2>4 DEF NoMoreLogs, Return
  <2>5. ASSUME SetName(t) PROVE FilesInv'
    <3>0. PICK i \in Slots : i = loc[t].id
      BY <2>5 DEF SetName, AllInv, IInv, Roles, Role, OpeningAt
    <3>1. PICK n : n = disk[loc[t].arg]
      OBVIOUS
    <3> DEFINE s == [loglist[i] EXCEPT !.filename = loc[t].arg, !.size = n,
                                       !.entries = 0, !.list = <<>>, !.tail = "ok"]
    <3>2. Set(i, s) /\ Return(t) /\ UNCHANGED <<open, opens>>
      BY <2>5, <3>0, <3>1 DEF SetName
    <3>3. s.logfile = loglist[i].logfile
      BY <1>0 DEF LogType
    <3> HIDE DEF s
    <3> QED
      BY <1>3, <1>4, <3>2, <3>3 DEF Return
  <2> QED
    BY <1>5, <2>1, <2>2, <2>3, <2>4, <2>5, FilesPassed DEF Opening
<1>6. ASSUME NEW t \in Threads, Setting(t) PROVE FilesInv'
  <2>1. ASSUME NEW i \in ids, NEW k \in Triggers, log_set_trigger(t, i, k) PROVE FilesInv'
    <3>1. PICK q : q = (k * Kilo) % UIntRange
      OBVIOUS
    <3>2. [loglist[i] EXCEPT !.trigger_level = q].logfile = loglist[i].logfile
      BY <1>0 DEF LogType
    <3> QED
      BY <1>0, <1>3, <2>1, <3>1, <3>2 DEF log_set_trigger
  <2>2. ASSUME NEW i \in ids, NEW l \in Levels, log_set_level(t, i, l) PROVE FilesInv'
    <3>1. [loglist[i] EXCEPT !.level = l].logfile = loglist[i].logfile
      BY <1>0 DEF LogType
    <3> QED
      BY <1>0, <1>3, <2>2, <3>1 DEF log_set_level
  <2>3. ASSUME NEW i \in ids, \/ \E n \in KeepCounts : log_set_lines_kept(t, i, n)
                              \/ \E n \in Names \cup {NULL} : log_set_filename(t, i, n)
        PROVE  FilesInv'
    BY <1>2, <1>4, <2>3 DEF log_set_lines_kept, log_set_filename, Checked
  <2>4. ASSUME SetFilename(t) PROVE FilesInv'
    <3>0. PICK i \in ids : i = loc[t].id
      BY <2>4, LockedSlot DEF SetFilename, AllInv
    <3>1. [loglist[i] EXCEPT !.filename = loc[t].arg].logfile = loglist[i].logfile
      BY <1>0 DEF LogType
    <3> QED
      BY <1>0, <1>3, <1>4, <2>4, <3>0, <3>1 DEF SetFilename, Return
  <2>5. ASSUME SetLinesKept(t) PROVE FilesInv'
    <3>0. PICK i \in ids : i = loc[t].id
      BY <2>5, LockedSlot DEF SetLinesKept, AllInv
    <3>1. PICK n : n = loc[t].arg
      OBVIOUS
    <3>2. PICK k : k = [loglist[i] EXCEPT !.keep_entries = n]
      OBVIOUS
    <3>3. k.logfile = loglist[i].logfile /\ SlotOK(k)
      BY <1>0, <3>2 DEF LogType, SlotOK, Fields
    <3>4. Trim(k, n).logfile = loglist[i].logfile
      BY <3>3, TrimKeeps
    <3>5. Set(i, Trim(k, n)) /\ Return(t) /\ UNCHANGED <<open, opens>>
      BY <2>5, <3>0, <3>1, <3>2 DEF SetLinesKept
    <3> QED
      BY <1>0, <1>3, <1>4, <3>4, <3>5 DEF Return
  <2> QED
    BY <1>6, <2>1, <2>2, <2>3, <2>4, <2>5 DEF Setting
<1>7. ASSUME NEW t \in Threads, Closing(t) PROVE FilesInv'
  <2>1. ASSUME \/ \E i \in ids : log_flush(t, i) \/ log_reopen(t, i) \/ log_close(t, i)
               \/ Flush(t)
        PROVE  FilesInv'
    BY <1>2, <1>4, <2>1 DEF log_flush, log_reopen, log_close, Checked, Flush, Return
  <2>2. ASSUME Reopen(t) PROVE FilesInv'
    <3>0. PICK i \in ids : i = loc[t].id
      BY <2>2, LockedSlot DEF Reopen, AllInv
    <3> DEFINE s == [loglist[i] EXCEPT !.logfile = NULL]
    <3>1. s \in LogType /\ s.logfile = NULL
      BY <1>0, ZenonT(40) DEF LogType
    <3>2. /\ Set(i, s) /\ open' = open \ {loglist[i].logfile} /\ opens' = opens
          /\ Return(t)
      BY <2>2, <3>0 DEF Reopen
    <3>3. \A u \in Threads : Opener(u)' => Opener(u) /\ loc'[u].file = loc[u].file
      BY <1>0, <3>2 DEF Return, Goto, Opener
    <3> HIDE DEF s
    <3> QED
      BY <1>0, <3>1, <3>2, <3>3, FilesChange
  <2>3. ASSUME Close(t) PROVE FilesInv'
    <3>0. PICK i \in Slots : i = loc[t].id /\ loglist[i].in_use
      BY <2>3 DEF Close, AllInv, IInv, Roles, Role, Owners, Claims, ClosingAt
    <3>1. PICK r : r = Trim(loglist[i], 0)
      OBVIOUS
    <3>2. r \in LogType
      BY <1>0, <3>0, <3>1, TrimLines DEF AllInv, LinesInv, Kept, Book
    <3>3. PICK f \in Names \cup {NULL, "freed"} :
            f = IF loglist[i].filename = NULL THEN NULL ELSE "freed"
      BY <1>0 DEF LogType
    <3> DEFINE s == [r EXCEPT !.in_use = FALSE, !.level = 2, !.logfile = NULL, !.filename = f]
    <3>4. s \in LogType /\ s.logfile = NULL
      BY <3>2 DEF LogType
    <3>5. /\ Set(i, s) /\ open' = open \ {loglist[i].logfile} /\ opens' = opens
          /\ Return(t)
      BY <2>3, <3>0, <3>1, <3>3 DEF Close
    <3>6. \A u \in Threads : Opener(u)' => Opener(u) /\ loc'[u].file = loc[u].file
      BY <1>0, <3>5 DEF Return, Goto, Opener
    <3> HIDE DEF s
    <3> QED
      BY <3>4, <3>5, <3>6, FilesChange
  <2> QED
    BY <1>7, <2>1, <2>2, <2>3 DEF Closing
<1>8. ASSUME NEW t \in Threads, Writing(t) PROVE FilesInv'
  <2>1. ASSUME ~Write(t) PROVE FilesInv'
    BY <1>2, <1>4, <1>8, <2>1
    DEF Writing, log_write, log_write_direct, StartWrite, ReadFile, DirectFlush, log_contents,
        Return
  <2> QED
    BY <1>8, <2>1, FilesWritten
<1> QED
  BY <1>1, <1>5, <1>6, <1>7, <1>8 DEF Next, Idle, vars

\* No slot changes.
LEMMA SlotsStay ==
    ASSUME AllInv, SlotsSafe, loglist' = loglist, ids' \subseteq ids,
           \A u \in Threads : ClosingAt(u)' => \/ ClosingAt(u) /\ loc'[u].id = loc[u].id
                                               \/ loc'[u].id \in ids
    PROVE  SlotsSafe'
BY DEF SlotsSafe, AllInv, IInv, Freed

\* Caller t changes one slot: a free one, one of the client's or its own.
LEMMA SlotsChange ==
    ASSUME AllInv, SlotsSafe, NEW t \in Threads, NEW i \in Slots, NEW s, Set(i, s),
           \/ ~loglist[i].in_use \/ i \in ids
           \/ Claims(t) /\ loc[t].id = i,
           ids' \subseteq ids \cup {i}, i \in ids' => GoodSlot(s),
           "keep" \notin Ops => s.keep_entries = 0,
           \/ UNCHANGED <<pc, loc>> /\ ~ClosingAt(t)
           \/ \E p \in PCs \ {"locked"} : \E l : Goto(t, p, l)
    PROVE  SlotsSafe'
<1>0. /\ pc \in [Threads -> PCs] /\ loc \in [Threads -> LocType] /\ ids \subseteq Slots
  BY DEF AllInv, IInv, Types
<1>1. loglist'[i] = s /\ \A j \in Slots \ {i} : loglist'[j] = loglist[j]
  BY DEF Set, AllInv, LinesInv
<1>2. ASSUME NEW u \in Threads, ClosingAt(u)'
      PROVE  ClosingAt(u) /\ loc'[u] = loc[u] /\ loc[u].id \in Slots \ {i}
  <2>1. u # t /\ ClosingAt(u) /\ loc'[u] = loc[u]
    BY <1>0, <1>2 DEF Goto, ClosingAt
  <2>2. Claims(u) /\ loc[u].id \in Slots
    BY <2>1 DEF Claims, ClosingAt, AllInv, IInv, Roles, Role
  <2> QED
    BY <2>1, <2>2 DEF AllInv, IInv, Owners
<1>3. \A j \in ids' : GoodSlot(loglist'[j])
  BY <1>0, <1>1 DEF SlotsSafe
<1>4. "keep" \notin Ops => \A j \in Slots : loglist'[j].keep_entries = 0
  BY <1>1 DEF SlotsSafe
<1>5. \A u \in Threads : ClosingAt(u)' => loglist'[loc'[u].id].filename # "freed"
  BY <1>1, <1>2 DEF SlotsSafe
<1> QED
  BY <1>3, <1>4, <1>5 DEF SlotsSafe

\* log_open and log_open_file: what the client gets has a name or a FILE.
LEMMA OpeningSlots ==
    ASSUME AllInv, SafeInv, NEW t \in Threads, Opening(t)
    PROVE  SlotsSafe'
<1>0. /\ pc \in [Threads -> PCs] /\ loc \in [Threads -> LocType]
      /\ loglist \in [Slots -> LogType] /\ ids \subseteq Slots
  BY DEF AllInv, IInv, Types, LinesInv
<1>1. {"idle", "set_file", "set_name"} \subseteq PCs \ {"locked"}
  BY DEF PCs
<1>2. ASSUME \/ \E n \in Names : log_open(t, n)
             \/ log_open_file(t) \/ NoMoreLogs(t)
      PROVE  SlotsSafe'
  BY <1>0, <1>2, SlotsStay
  DEF log_open, log_open_file, NoMoreLogs, Return, Goto, ClosingAt, SafeInv
<1>3. ASSUME GetLogId(t) PROVE SlotsSafe'
  <2>1. PICK i \in Slots : /\ ~loglist[i].in_use
                          /\ Set(i, [loglist[i] EXCEPT !.in_use = TRUE])
                          /\ Goto(t, "set_file", [loc[t] EXCEPT !.id = i])
    BY <1>3 DEF GetLogId, FreeSlots
  <2>2. [loglist[i] EXCEPT !.in_use = TRUE].keep_entries = loglist[i].keep_entries
    BY <1>0 DEF LogType
  <2>3. i \notin ids /\ ids' = ids
    BY <1>3, <2>1 DEF AllInv, IInv, Owners, GetLogId
  <2>4. \E p \in PCs \ {"locked"} : \E l : Goto(t, p, l)
    BY <1>1, <2>1
  <2>5. "keep" \notin Ops => loglist[i].keep_entries = 0
    BY DEF SafeInv, SlotsSafe
  <2> QED
    BY <2>1, <2>2, <2>3, <2>4, <2>5, SlotsChange DEF SafeInv
<1>4. ASSUME SetFile(t) PROVE SlotsSafe'
  <2>0. PICK i : i = loc[t].id
    OBVIOUS
  <2>1. /\ i \in Slots /\ Claims(t) /\ Opener(t) /\ i \notin ids
    BY <1>4, <2>0
    DEF SetFile, AllInv, IInv, Roles, Role, Owners, OpeningAt, Claims, Opener
  <2>2. PICK f : f = loc[t].file
    OBVIOUS
  <2> DEFINE s == [loglist[i] EXCEPT !.logfile = f, !.filename = NULL, !.size = 0]
  <2>3. s.logfile = f /\ s.keep_entries = loglist[i].keep_entries
    BY <1>0, <2>1 DEF LogType
  <2>4. Set(i, s)
    BY <1>4, <2>0, <2>2 DEF SetFile
  <2>5. \E p \in PCs \ {"locked"} : \E l : Goto(t, p, l)
    BY <1>1, <1>4 DEF SetFile, Return
  <2>6. ASSUME i \in ids' PROVE GoodSlot(s)
    <3>1. loc[t].op = "open_file" /\ loc[t].op \in Ops
      BY <1>0, <1>4, <2>0, <2>1, <2>6
      DEF SetFile, AllInv, IInv, Roles, Role, LocType
    <3>2. f # NULL
      BY <2>1, <2>2, NullAssumption DEF SafeInv, FilesInv, AllInv, Rest
    <3> HIDE DEF s
    <3> QED
      BY <2>3, <3>1, <3>2 DEF GoodSlot
  <2>7. ids' \subseteq ids \cup {i}
    BY <1>4, <2>0 DEF SetFile
  <2>8. "keep" \notin Ops => loglist[i].keep_entries = 0
    BY <2>1 DEF SafeInv, SlotsSafe
  <2> HIDE DEF s
  <2> QED
    BY <2>0, <2>1, <2>3, <2>4, <2>5, <2>6, <2>7, <2>8, SlotsChange DEF SafeInv
<1>5. ASSUME SetName(t) PROVE SlotsSafe'
  <2>0. PICK i : i = loc[t].id
    OBVIOUS
  <2>1. i \in Slots /\ Claims(t) /\ loc[t].arg \in Names /\ disk \in [Names -> Nat]
    BY <1>5, <2>0
    DEF SetName, AllInv, IInv, Types, Roles, Role, OpeningAt, Claims
  <2>2. PICK a \in Names, n \in Nat : a = loc[t].arg /\ n = disk[loc[t].arg]
    BY <2>1
  <2> DEFINE s == [loglist[i] EXCEPT !.filename = a, !.size = n,
                                     !.entries = 0, !.list = <<>>, !.tail = "ok"]
  <2>3. s.filename = a /\ s.tail = "ok" /\ s.keep_entries = loglist[i].keep_entries
    BY <1>0, <2>1 DEF LogType
  <2>4. Set(i, s) /\ ids' \subseteq ids \cup {i}
    BY <1>5, <2>0, <2>2 DEF SetName
  <2>5. \E p \in PCs \ {"locked"} : \E l : Goto(t, p, l)
    BY <1>1, <1>5 DEF SetName, Return
  <2> HIDE DEF s
  <2>6. GoodSlot(s)
    BY <2>2, <2>3, LogAssumption DEF GoodSlot
  <2>8. "keep" \notin Ops => loglist[i].keep_entries = 0
    BY <2>1 DEF SafeInv, SlotsSafe
  <2> QED
    BY <2>0, <2>1, <2>3, <2>4, <2>5, <2>6, <2>8, SlotsChange DEF SafeInv
<1> QED
  BY <1>2, <1>3, <1>4, <1>5 DEF Opening

\* A call on one of the client's slots.
LEMMA ClientSlots ==
    ASSUME AllInv, SafeInv, NEW t \in Threads, NEW i \in ids, NEW s, Set(i, s),
           ids' = ids, GoodSlot(s), "keep" \notin Ops => s.keep_entries = 0,
           \/ UNCHANGED <<pc, loc>> /\ pc[t] = "idle"
           \/ \E l : Goto(t, "idle", l) \/ Goto(t, "read_file", l)
    PROVE  SlotsSafe'
<1>1. i \in Slots /\ {"idle", "read_file"} \subseteq PCs \ {"locked"}
  BY DEF AllInv, IInv, Types, PCs
<1>2. \/ UNCHANGED <<pc, loc>> /\ ~ClosingAt(t)
      \/ \E p \in PCs \ {"locked"} : \E l : Goto(t, p, l)
  BY <1>1 DEF ClosingAt
<1> QED
  BY <1>1, <1>2, SlotsChange DEF SafeInv

\* The settings.
LEMMA SettingSlots ==
    ASSUME Careful, AllInv, SafeInv, NEW t \in Threads, Setting(t)
    PROVE  SlotsSafe'
<1>0. /\ pc \in [Threads -> PCs] /\ loc \in [Threads -> LocType]
      /\ loglist \in [Slots -> LogType] /\ ids \subseteq Slots
  BY DEF AllInv, IInv, Types, LinesInv
<1>1. \A i \in ids : /\ loglist[i] \in LogType /\ GoodSlot(loglist[i])
                     /\ "keep" \notin Ops => loglist[i].keep_entries = 0
  BY <1>0 DEF SafeInv, SlotsSafe
<1>2. ASSUME NEW i \in ids,
             \/ \E n \in KeepCounts : log_set_lines_kept(t, i, n)
             \/ \E n \in Names \cup {NULL} : log_set_filename(t, i, n)
      PROVE  SlotsSafe'
  BY <1>0, <1>2, SlotsStay
  DEF log_set_lines_kept, log_set_filename, Checked, Goto, ClosingAt, SafeInv
<1>3. ASSUME NEW i \in ids, NEW k \in Triggers, log_set_trigger(t, i, k) PROVE SlotsSafe'
  <2>1. PICK q : q = (k * Kilo) % UIntRange
    OBVIOUS
  <2> DEFINE s == [loglist[i] EXCEPT !.trigger_level = q]
  <2>2. GoodSlot(s) /\ s.keep_entries = loglist[i].keep_entries
    BY <1>1 DEF LogType, GoodSlot
  <2>3. Set(i, s) /\ ids' = ids /\ UNCHANGED <<pc, loc>> /\ pc[t] = "idle"
    BY <1>3, <2>1 DEF log_set_trigger
  <2> HIDE DEF s
  <2> QED
    BY <1>1, <2>2, <2>3, ClientSlots
<1>4. ASSUME NEW i \in ids, NEW l \in Levels, log_set_level(t, i, l) PROVE SlotsSafe'
  <2> DEFINE s == [loglist[i] EXCEPT !.level = l]
  <2>2. GoodSlot(s) /\ s.keep_entries = loglist[i].keep_entries
    BY <1>1 DEF LogType, GoodSlot
  <2>3. Set(i, s) /\ ids' = ids /\ UNCHANGED <<pc, loc>> /\ pc[t] = "idle"
    BY <1>4 DEF log_set_level
  <2> HIDE DEF s
  <2> QED
    BY <1>1, <2>2, <2>3, ClientSlots
<1>5. ASSUME SetFilename(t) PROVE SlotsSafe'
  <2>0. PICK i \in ids : i = loc[t].id
    BY <1>5, LockedSlot DEF SetFilename, AllInv
  <2>1. PICK a \in Names : a = loc[t].arg
    <3>1. loc[t].op = "set_filename"
      BY <1>0, <1>5 DEF SetFilename, LocType, Careful
    <3> QED
      BY <1>5, <3>1 DEF SetFilename, AllInv, IInv, Roles, Role
  <2> DEFINE s == [loglist[i] EXCEPT !.filename = a]
  <2>2. s.filename = a /\ s.tail = loglist[i].tail /\ s.keep_entries = loglist[i].keep_entries
    BY <1>1 DEF LogType
  <2>3. Set(i, s) /\ ids' = ids /\ Goto(t, "idle", NoLoc)
    BY <1>5, <2>0, <2>1 DEF SetFilename, Return
  <2> HIDE DEF s
  <2>4. GoodSlot(s)
    BY <1>1, <2>2, LogAssumption DEF GoodSlot
  <2> QED
    BY <1>1, <2>2, <2>3, <2>4, ClientSlots
<1>6. ASSUME SetLinesKept(t) PROVE SlotsSafe'
  <2>0. PICK i \in ids : i = loc[t].id
    BY <1>6, LockedSlot DEF SetLinesKept, AllInv
  <2>1. PICK n \in KeepCounts : n = loc[t].arg
    BY <1>6 DEF SetLinesKept, AllInv, Args
  <2>2. n \in Nat /\ n # 0
    BY LogAssumption DEF Careful
  <2>3. PICK k : k = [loglist[i] EXCEPT !.keep_entries = n]
    OBVIOUS
  <2>4. /\ k \in LogType /\ k.list = loglist[i].list /\ k.total = loglist[i].total
        /\ k.entries = loglist[i].entries /\ k.tail = loglist[i].tail
        /\ k.filename = loglist[i].filename /\ k.logfile = loglist[i].logfile
    BY <1>1, <2>2, <2>3 DEF LogType
  <2>5. Counted(k)
    BY <1>0, <2>4 DEF AllInv, LinesInv, Kept, Book, Counted
  <2> DEFINE s == Trim(k, n)
  <2>6. s.tail = k.tail /\ s.filename = k.filename /\ s.logfile = k.logfile
    BY <2>2, <2>4, <2>5, TrimLines, TrimKeeps, TypeIsSlotOK DEF Alike
  <2>7. Set(i, s) /\ ids' = ids /\ Goto(t, "idle", NoLoc)
    BY <1>6, <2>0, <2>1, <2>3 DEF SetLinesKept, Return
  <2>8. "keep" \in Ops
    BY <1>0, <1>6 DEF SetLinesKept, LocType
  <2> HIDE DEF s
  <2>9. GoodSlot(s)
    BY <1>1, <2>4, <2>6 DEF GoodSlot
  <2> QED
    BY <2>7, <2>8, <2>9, ClientSlots
<1> QED
  BY <1>2, <1>3, <1>4, <1>5, <1>6 DEF Setting

\* log_reopen takes the FILE of a log that has a name; log_close frees a name that is there.
LEMMA ClosingSlots ==
    ASSUME AllInv, SafeInv, NEW t \in Threads, Closing(t)
    PROVE  SlotsSafe'
<1>0. /\ pc \in [Threads -> PCs] /\ loc \in [Threads -> LocType]
      /\ loglist \in [Slots -> LogType] /\ ids \subseteq Slots
  BY DEF AllInv, IInv, Types, LinesInv
<1>1. \A i \in Slots : "keep" \notin Ops => loglist[i].keep_entries = 0
  BY DEF SafeInv, SlotsSafe
<1>2. ASSUME \/ \E i \in ids : log_flush(t, i) \/ log_reopen(t, i) \/ log_close(t, i)
             \/ Flush(t)
      PROVE  SlotsSafe'
  <2>1. loglist' = loglist /\ ids' \subseteq ids
    BY <1>2 DEF log_flush, log_reopen, log_close, Checked, Flush
  <2>2. \A u \in Threads \ {t} : pc'[u] = pc[u] /\ loc'[u] = loc[u]
    BY <1>0, <1>2 DEF log_flush, log_reopen, log_close, Checked, Flush, Return, Goto
  <2>3. ClosingAt(t)' => loc'[t].id \in ids
    BY <1>0, <1>2 DEF log_flush, log_reopen, log_close, Checked, Flush, Return, Goto, ClosingAt
  <2> QED
    BY <2>1, <2>2, <2>3, SlotsStay DEF ClosingAt, SafeInv
<1>3. ASSUME Reopen(t) PROVE SlotsSafe'
  <2>0. PICK i \in ids : i = loc[t].id
    BY <1>3, LockedSlot DEF Reopen, AllInv
  <2>1. loglist[i].filename # NULL /\ GoodSlot(loglist[i])
    BY <1>3, <2>0 DEF Reopen, SafeInv, CallsSafe, SlotsSafe
  <2> DEFINE s == [loglist[i] EXCEPT !.logfile = NULL]
  <2>2. /\ s.filename = loglist[i].filename /\ s.tail = loglist[i].tail
        /\ s.keep_entries = loglist[i].keep_entries
    BY <1>0 DEF LogType
  <2>3. Set(i, s) /\ ids' = ids /\ Goto(t, "idle", NoLoc)
    BY <1>3, <2>0 DEF Reopen, Return
  <2> HIDE DEF s
  <2>4. GoodSlot(s)
    BY <2>1, <2>2 DEF GoodSlot
  <2> QED
    BY <1>0, <1>1, <2>2, <2>3, <2>4, ClientSlots
<1>4. ASSUME Close(t) PROVE SlotsSafe'
  <2>0. PICK i \in Slots : i = loc[t].id /\ loglist[i].in_use /\ Claims(t) /\ i \notin ids
    BY <1>4 DEF Close, AllInv, IInv, Roles, Role, Owners, Claims, ClosingAt
  <2>1. PICK r : r = Trim(loglist[i], 0)
    OBVIOUS
  <2>2. r \in LogType /\ r.keep_entries = loglist[i].keep_entries
    BY <1>0, <2>0, <2>1, TrimLines DEF AllInv, LinesInv, Kept, Book
  <2>3. PICK f : f = IF loglist[i].filename = NULL THEN NULL ELSE "freed"
    OBVIOUS
  <2> DEFINE s == [r EXCEPT !.in_use = FALSE, !.level = 2, !.logfile = NULL, !.filename = f]
  <2>4. s.keep_entries = loglist[i].keep_entries
    BY <2>2 DEF LogType
  <2>5. Set(i, s) /\ ids' = ids /\ Goto(t, "idle", NoLoc)
    BY <1>4, <2>0, <2>1, <2>3 DEF Close, Return
  <2>6. \E p \in PCs \ {"locked"} : \E l : Goto(t, p, l)
    BY <2>5 DEF PCs
  <2> HIDE DEF s
  <2> QED
    BY <1>1, <2>0, <2>4, <2>5, <2>6, SlotsChange DEF SafeInv
<1> QED
  BY <1>2, <1>3, <1>4 DEF Closing

\* log_write: a log with a name may lose its FILE.
LEMMA WriteSlots ==
    ASSUME AllInv, SafeInv, NEW t \in Threads, Write(t)
    PROVE  SlotsSafe'
<1>0. PICK i \in ids : i = loc[t].id /\ loglist[i].filename # "freed" /\ i \in Slots
  BY LockedSlot DEF Write, AllInv
<1>1. PICK nr \in 1 .. MaxWrites : nr = loc[t].arg
  BY DEF Write, AllInv, Args
<1>2. PICK len \in Lens, can \in BOOLEAN :
        /\ can => opens < MaxOpens \/ ~WantsOpen(loglist[i])
        /\ WriteLocked(i, [nr |-> nr, len |-> len], can)
  BY <1>0, <1>1 DEF Write
<1>3. /\ loglist[i] \in LogType /\ len \in Nat /\ disk \in [Names -> Nat]
      /\ opens \in 0 .. MaxOpens /\ MaxOpens \in Nat /\ hist[i] \in Seq(Lines) /\ Kept(i)
      /\ GoodSlot(loglist[i])
      /\ "keep" \notin Ops => loglist[i].keep_entries = 0
  BY LogAssumption DEF AllInv, LinesInv, IInv, Types, SafeInv, SlotsSafe
<1> DEFINE o == _log_open(loglist[i], can)
           r == create_log_entry(o.s, [nr |-> nr, len |-> len])
<1>4. o.s \in LogType /\ SameLines(o.s, loglist[i]) /\ SlotOK(o.s)
  BY <1>0, <1>2, <1>3, OpenLines, TypeIsSlotOK
<1>5. o.s.filename = loglist[i].filename
  BY <1>0, <1>2, <1>3, OpenKeeps, TypeIsSlotOK DEF Alike
<1>6. o.s.logfile = NULL => o.s.filename # NULL
  <2>1. \/ o.s.logfile = loglist[i].logfile
        \/ loglist[i].filename # NULL
        \/ opens < MaxOpens /\ \E n \in Names \cup {NULL} : o.s.logfile = NewFile(n)
    BY <1>0, <1>2, <1>3, OpenFiles
  <2> HIDE DEF o
  <2> QED
    BY <1>3, <1>5, <2>1, NewIsNew DEF GoodSlot, SafeInv
<1>7. ids' = ids /\ \E l : Goto(t, "idle", l) \/ Goto(t, "read_file", l)
  BY DEF Write, Return
<1>8. CASE ~o.ret
  <2>1. Set(i, o.s)
    BY <1>2, <1>8 DEF WriteLocked
  <2> HIDE DEF o
  <2>2. GoodSlot(o.s) /\ o.s.keep_entries = loglist[i].keep_entries
    BY <1>3, <1>4, <1>6 DEF GoodSlot, SameLines
  <2> QED
    BY <1>3, <1>7, <2>1, <2>2, ClientSlots
<1>9. CASE o.ret
  <2>1. Set(i, r)
    BY <1>2, <1>9 DEF WriteLocked
  <2>2. Book(o.s) /\ Latest(o.s.list, hist[i])
    <3> HIDE DEF o
    <3> QED
      BY <1>3, <1>4 DEF Kept, Book, Counted, SameLines
  <2> HIDE DEF o
  <2>3. r.keep_entries = o.s.keep_entries /\ r.tail = o.s.tail
    BY <1>3, <1>4, <2>2, EntryLines
  <2>4. r.logfile = o.s.logfile /\ r.filename = o.s.filename
    BY <1>3, <1>4, EntryKeeps DEF Alike
  <2> HIDE DEF r
  <2>5. GoodSlot(r) /\ r.keep_entries = loglist[i].keep_entries
    BY <1>3, <1>4, <1>6, <2>3, <2>4 DEF GoodSlot, SameLines
  <2> QED
    BY <1>3, <1>7, <2>1, <2>5, ClientSlots
<1> QED
  BY <1>8, <1>9

\* Every step.
LEMMA NextSlots == Careful /\ AllInv /\ SafeInv /\ [Next]_vars => SlotsSafe'
<1> SUFFICES ASSUME Careful, AllInv, SafeInv, [Next]_vars PROVE SlotsSafe'
  OBVIOUS
<1>0. /\ pc \in [Threads -> PCs] /\ loc \in [Threads -> LocType]
  BY DEF AllInv, IInv, Types
<1>1. ASSUME UNCHANGED vars PROVE SlotsSafe'
  BY <1>1, SlotsStay DEF vars, ClosingAt, SafeInv
<1>2. ASSUME NEW t \in Threads, Writing(t) PROVE SlotsSafe'
  <2>1. ASSUME ~Write(t) PROVE SlotsSafe'
    BY <1>0, <1>2, <2>1, SlotsStay
    DEF Writing, log_write, log_write_direct, StartWrite, ReadFile, DirectFlush, log_contents,
        Return, Goto, ClosingAt, SafeInv
  <2> QED
    BY <1>2, <2>1, WriteSlots
<1> QED
  BY <1>1, <1>2, OpeningSlots, SettingSlots, ClosingSlots DEF Next, Idle

\* What a call of log_reopen or log_write_direct saw still holds when it goes on:
\* no other caller came in between.
LEMMA NextCalls == Careful /\ AllInv /\ SafeInv /\ [Next]_vars => CallsSafe'
<1> SUFFICES ASSUME Careful, AllInv, SafeInv, [Next]_vars PROVE CallsSafe'
  OBVIOUS
<1>0. /\ pc \in [Threads -> PCs] /\ loc \in [Threads -> LocType]
      /\ pc' \in [Threads -> PCs] /\ loc' \in [Threads -> LocType] /\ Roles'
  BY NextIInv DEF AllInv, IInv, Types
<1>1. CASE "reopen" \notin Ops /\ "write_direct" \notin Ops
  <2>1. \A t \in Threads : loc'[t].op \notin {"reopen", "write_direct"}
    BY <1>0, <1>1 DEF LocType
  <2> QED
    BY <1>0, <2>1 DEF CallsSafe, Roles, Role
<1>2. ASSUME \A t, u \in Threads : t = u PROVE CallsSafe'
  <2>1. CASE UNCHANGED vars
    BY <2>1 DEF vars, SafeInv, CallsSafe
  <2>2. ASSUME NEW t \in Threads, pc'[t] \notin {"locked", "flush"} PROVE CallsSafe'
    BY <1>2, <2>2 DEF CallsSafe
  <2>3. ASSUME NEW t \in Threads, pc'[t] = "locked", loc'[t].op # "reopen" PROVE CallsSafe'
    BY <1>2, <2>3 DEF CallsSafe
  <2>4. ASSUME NEW t \in Threads, Opening(t) PROVE CallsSafe'
    <3>1. pc'[t] \notin {"locked", "flush"}
      BY <1>0, <2>4
      DEF Opening, log_open, log_open_file, GetLogId, NoMoreLogs, SetFile, SetName, Return, Goto
    <3> QED
      BY <2>2, <3>1
  <2>5. ASSUME NEW t \in Threads, Setting(t) PROVE CallsSafe'
    <3>1. ASSUME \/ \E i \in ids, k \in Triggers : log_set_trigger(t, i, k)
                 \/ \E i \in ids, l \in Levels : log_set_level(t, i, l)
                 \/ SetLinesKept(t) \/ SetFilename(t)
          PROVE  pc'[t] \notin {"locked", "flush"}
      BY <1>0, <3>1
      DEF log_set_trigger, log_set_level, SetLinesKept, SetFilename, Return, Goto
    <3>2. ASSUME \/ \E i \in ids, n \in KeepCounts : log_set_lines_kept(t, i, n)
                 \/ \E i \in ids, n \in Names \cup {NULL} : log_set_filename(t, i, n)
          PROVE  pc'[t] = "locked" /\ loc'[t].op # "reopen"
      BY <1>0, <3>2 DEF log_set_lines_kept, log_set_filename, Checked, Goto
    <3> QED
      BY <2>2, <2>3, <2>5, <3>1, <3>2 DEF Setting
  <2>6. ASSUME NEW t \in Threads, Closing(t) PROVE CallsSafe'
    <3>1. ASSUME NEW i \in ids, log_reopen(t, i) PROVE CallsSafe'
      <4>1. pc'[t] = "locked" /\ loc'[t].id = i /\ loglist' = loglist
        BY <1>0, <3>1 DEF log_reopen, Goto
      <4>2. loglist[i].filename # NULL /\ loglist[i].logfile # NULL
        BY <3>1 DEF log_reopen
      <4> QED
        BY <1>2, <4>1, <4>2 DEF CallsSafe
    <3>2. ASSUME NEW i \in ids, log_flush(t, i) \/ log_close(t, i)
          PROVE  pc'[t] = "locked" /\ loc'[t].op # "reopen"
      BY <1>0, <3>2 DEF log_flush, log_close, Checked, Goto
    <3>3. ASSUME Flush(t) \/ Reopen(t) \/ Close(t) PROVE pc'[t] \notin {"locked", "flush"}
      BY <1>0, <3>3 DEF Flush, Reopen, Close, Return, Goto
    <3> QED
      BY <2>2, <2>3, <2>6, <3>1, <3>2, <3>3 DEF Closing
  <2>7. ASSUME NEW t \in Threads, Writing(t) PROVE CallsSafe'
    <3>1. ASSUME ReadFile(t) PROVE CallsSafe'
      <4>1. PICK f : f = loglist[loc[t].id].logfile
        OBVIOUS
      <4>2. pc'[t] = "flush" /\ loc'[t].file = f /\ open' = open
        BY <1>0, <3>1, <4>1 DEF ReadFile, Goto, LocType
      <4>3. loc[t].id \in Slots
        BY <3>1 DEF ReadFile, AllInv, IInv, Roles, Role
      <4>4. f # NULL => f \in open
        BY <4>1, <4>3 DEF SafeInv, FilesInv
      <4> QED
        BY <1>2, <4>2, <4>4 DEF CallsSafe
    <3>2. ASSUME NEW i \in ids, NEW o \in {"write", "write_direct"}, StartWrite(t, i, o)
          PROVE  pc'[t] = "locked" /\ loc'[t].op # "reopen"
      BY <1>0, <3>2 DEF StartWrite, Goto
    <3>3. ASSUME \/ Write(t) \/ DirectFlush(t)
                 \/ \E i \in ids : log_contents(t, i)
          PROVE  pc'[t] \notin {"locked", "flush"}
      BY <1>0, <3>3 DEF Write, DirectFlush, log_contents, Return, Goto
    <3> QED
      BY <2>2, <2>3, <2>7, <3>1, <3>2, <3>3 DEF Writing, log_write, log_write_direct
  <2> QED
    BY <2>1, <2>4, <2>5, <2>6, <2>7 DEF Next, Idle, vars
<1> QED
  BY <1>1, <1>2 DEF Careful

\* What log_write finds when it has the mutex is sound.
LEMMA WriteIsDefined ==
    ASSUME AllInv, SafeInv, Careful, NoFault, NEW t \in Threads, Write(t)
    PROVE  NoFault'
<1>0. PICK i \in ids : i = loc[t].id /\ loglist[i].filename # "freed" /\ i \in Slots
  BY LockedSlot DEF Write, AllInv
<1>1. PICK nr : nr = loc[t].arg
  OBVIOUS
<1>2. PICK len \in Lens, can \in BOOLEAN :
        /\ can => opens < MaxOpens \/ ~WantsOpen(loglist[i])
        /\ WriteLocked(i, [nr |-> nr, len |-> len], can)
  BY <1>0, <1>1 DEF Write
<1>3. /\ loglist[i] \in LogType /\ disk \in [Names -> Nat] /\ opens \in 0 .. MaxOpens
      /\ GoodSlot(loglist[i])
      /\ "keep" \notin Ops => loglist[i].keep_entries = 0
      /\ loglist[i].logfile # NULL => loglist[i].logfile \in open
  BY <1>0 DEF AllInv, LinesInv, IInv, Types, SafeInv, SlotsSafe, FilesInv
<1> DEFINE o == _log_open(loglist[i], can)
<1>4. SameLines(o.s, loglist[i])
  BY <1>0, <1>2, <1>3, OpenLines
<1>5. o.ret => o.s.logfile # NULL /\ o.s.logfile \in o.open
  <2>1. \/ /\ o.s.logfile = loglist[i].logfile /\ o.open = open
           /\ o.ret => loglist[i].logfile # NULL \/ loglist[i].filename = NULL
        \/ ~o.ret
        \/ /\ opens < MaxOpens
           /\ \E n \in Names \cup {NULL} :
                 /\ o.s.logfile = NewFile(n)
                 /\ o.open = (open \ {loglist[i].logfile}) \cup {NewFile(n)}
    BY <1>0, <1>2, <1>3, OpenFiles
  <2> HIDE DEF o
  <2>2. ASSUME opens < MaxOpens, NEW n \in Names \cup {NULL} PROVE NewFile(n) # NULL
    BY <2>2, NewIsNew DEF SafeInv
  <2> QED
    BY <1>3, <2>1, <2>2 DEF GoodSlot
<1>6. o.s.keep_entries # 0 => o.s.tail # "freed"
  <2> HIDE DEF o
  <2> QED
    BY <1>3, <1>4 DEF Careful, SameLines, GoodSlot
<1>7. CASE ~o.ret
  <2>1. fault' = fault
    BY <1>2, <1>7 DEF WriteLocked
  <2> QED
    BY <2>1 DEF NoFault
<1>8. CASE o.ret
  <2>1. fault' = IF loglist[i].filename = "freed" /\ WantsOpen(loglist[i])
                 THEN "freed"
                 ELSE IF o.s.logfile = NULL THEN "null"
                 ELSE IF o.s.logfile \notin o.open THEN "closed"
                 ELSE IF o.s.keep_entries # 0 /\ o.s.tail = "freed"
                 THEN "freed" ELSE "none"
    BY <1>2, <1>8 DEF WriteLocked
  <2> HIDE DEF o
  <2> QED
    BY <1>0, <1>5, <1>6, <1>8, <2>1 DEF NoFault
<1> QED
  BY <1>7, <1>8

\* Every step is defined.
LEMMA NextIsDefined == Careful /\ AllInv /\ SafeInv /\ NoFault /\ [Next]_vars => NoFault'
<1> SUFFICES ASSUME Careful, AllInv, SafeInv, NoFault, [Next]_vars PROVE NoFault'
  OBVIOUS
<1>0. \A f \in open : f # NULL /\ UseFile(f) = "none"
  BY NullAssumption DEF UseFile, AllInv, Rest
<1>1. ASSUME fault' = fault PROVE NoFault'
  BY <1>1 DEF NoFault
<1>2. \A i \in Slots : loglist[i].logfile # NULL => loglist[i].logfile \in open
  BY DEF SafeInv, FilesInv
<1>3. ASSUME NEW t \in Threads, Opening(t) PROVE fault' = fault
  BY <1>3 DEF Opening, log_open, log_open_file, GetLogId, NoMoreLogs, SetFile, SetName
<1>4. ASSUME NEW t \in Threads, Setting(t) PROVE NoFault'
  <2>1. ASSUME SetFilename(t) PROVE NoFault'
    BY <2>1, LockedSlot DEF SetFilename, NoFault, AllInv
  <2>2. ASSUME ~SetFilename(t) PROVE fault' = fault
    BY <1>4, <2>2
    DEF Setting, log_set_trigger, log_set_level, log_set_lines_kept, log_set_filename, Checked,
        SetLinesKept
  <2> QED
    BY <1>1, <2>1, <2>2
<1>5. ASSUME NEW t \in Threads, Closing(t) PROVE NoFault'
  <2>1. ASSUME Flush(t) PROVE NoFault'
    BY <1>0, <1>2, <2>1, LockedSlot DEF Flush, NoFault, AllInv
  <2>2. ASSUME Reopen(t) PROVE NoFault'
    <3>1. loc[t].id \in Slots /\ loglist[loc[t].id].logfile # NULL
      BY <2>2, LockedSlot DEF Reopen, AllInv, SafeInv, CallsSafe
    <3> QED
      BY <1>0, <1>2, <2>2, <3>1 DEF Reopen, NoFault
  <2>3. ASSUME Close(t) PROVE NoFault'
    <3>1. loc[t].id \in Slots /\ loglist[loc[t].id].filename # "freed"
      BY <2>3 DEF Close, ClosingAt, AllInv, IInv, Roles, Role, SafeInv, SlotsSafe
    <3> QED
      BY <1>0, <1>1, <1>2, <2>3, <3>1 DEF Close, NoFault
  <2>4. ASSUME \E i \in ids : log_flush(t, i) \/ log_reopen(t, i) \/ log_close(t, i)
        PROVE  fault' = fault
    BY <2>4 DEF log_flush, log_reopen, log_close, Checked
  <2> QED
    BY <1>1, <1>5, <2>1, <2>2, <2>3, <2>4 DEF Closing
<1>6. ASSUME NEW t \in Threads, Writing(t) PROVE NoFault'
  <2>1. ASSUME DirectFlush(t) PROVE NoFault'
    BY <1>0, <2>1 DEF DirectFlush, SafeInv, CallsSafe, NoFault
  <2>2. ASSUME NEW i \in ids, log_contents(t, i) PROVE NoFault'
    <3>1. i \in Slots /\ loglist[i].list \in Seq(Lines)
      BY DEF AllInv, IInv, Types, LinesInv, LogType
    <3>2. loglist[i].total = Sum(loglist[i].list) /\ Sum(loglist[i].list) \in Nat
      BY <3>1, SumIsNat DEF AllInv, LinesInv, Kept, Book, Counted
    <3>3. Len(loglist[i].list) \in Nat
      BY <3>1, LenProperties
    <3>4. ~(Sum(loglist[i].list) - Len(loglist[i].list) > loglist[i].total)
      BY <3>2, <3>3
    <3> QED
      BY <2>2, <3>4 DEF log_contents, NoFault
  <2>3. ASSUME \/ \E i \in ids, p \in Priorities : log_write(t, i, p)
               \/ \E i \in ids : log_write_direct(t, i)
               \/ ReadFile(t)
        PROVE  fault' = fault
    BY <2>3 DEF log_write, log_write_direct, StartWrite, ReadFile
  <2> QED
    BY <1>1, <1>6, <2>1, <2>2, <2>3, WriteIsDefined DEF Writing
<1>7. ASSUME UNCHANGED vars PROVE fault' = fault
  BY <1>7 DEF vars
<1> QED
  BY <1>1, <1>3, <1>4, <1>5, <1>6, <1>7 DEF Next, Idle

\* No caller uses a FILE that is NULL or closed, a freed name or a freed list
\* entry, and log_contents finds its buffer large enough.
THEOREM NoUndefinedBehaviour ==
    ASSUME Careful
    PROVE  Spec => []NoFault
<1>1. Init => SafeInv /\ NoFault
  BY InitSafe
<1>2. AllInv /\ SafeInv /\ NoFault /\ [Next]_vars => (SafeInv /\ NoFault)'
  BY NextFiles, NextSlots, NextCalls, NextIsDefined DEF SafeInv
<1> QED
  BY <1>1, <1>2, LinesInductive, PTL DEF Spec
=============================================================================
