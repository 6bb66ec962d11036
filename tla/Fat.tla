--------------------------------- MODULE Fat ---------------------------------
(***************************************************************************)
(* Files and directories of fat_io_lib: fat_access.c, fat_write.c and      *)
(* fat_filelib.c, on the table of FatTable.  A call is one step: it runs   *)
(* under the recursive lock, and the library has a single caller here.     *)
(* Any read or write of the device may fail.                               *)
(*                                                                         *)
(* A sector has SectorUnits units of data or Slots directory entries.  The *)
(* data that a call writes is the number of that call.                     *)
(***************************************************************************)
EXTENDS FatTable

CONSTANTS Names, NoName,
          NameEntries,         \* entries of a long name
          Base,                \* what a name becomes as a short name, without a tail
          FilePaths, DirPaths, \* the paths that callers use for files and for directories
          Modes,               \* the modes that callers open files with
          Handles,             \* FATFS_MAX_OPEN_FILES, as a set
          ClusterSectors, SectorUnits, Slots,
          RootSectors,         \* sectors of the root directory of a FAT16 volume
          Types,               \* 16, 32
          ReadLengths, WriteLengths,  \* units that callers read and write
          Seeks,               \* origins and offsets of seeks
          MaxFaults,           \* bound on failing reads and writes
          MaxCalls,            \* bound on the calls of a history
          MaxCallsAfterFault   \* bound on the calls behind one that a fault was met in

Paths == FilePaths \cup DirPaths

ASSUME FatAssumption ==
    /\ NoName \notin Names
    /\ NameEntries \in [Names -> 1 .. 21]
    /\ \A p \in Paths : p \in Seq(Names) /\ Len(p) \in {1, 2}
    /\ Modes \subseteq {"r", "r+", "w", "w+", "a", "a+"}
    /\ Types \subseteq {16, 32} /\ IsFiniteSet(Handles) /\ Handles # {}
    /\ ClusterSectors \in Nat \ {0} /\ SectorUnits \in Nat \ {0} /\ Slots \in Nat \ {0}
    /\ RootSectors \in Nat /\ RootSectors >= ClusterSectors
    /\ ReadLengths \subseteq Nat /\ WriteLengths \subseteq Nat
    /\ MaxFaults \in Nat /\ MaxCalls \in Nat /\ MaxCallsAfterFault \in Nat

VARIABLES
    disk,   \* table: its sectors and FSINFO; dir and data: what is in each cluster
    fs,     \* struct fatfs: buf, hint, type, and cur, the current sector
    fl,     \* the lists free and open, and file, the handles
    faults, \* reads and writes that may still fail
    calls,  \* calls that may still come
    held,   \* handles that callers have
    kind,   \* history: what callers know to be at each path
    text,   \* history: what they have written there, as they were told
    seen,   \* history: what the last call returned, and what it should have
    rough   \* history: files with data dropped by a seek; volume full; a write beyond it

vars == <<disk, fs, fl, faults, calls, held, kind, text, seen, rough>>

-----------------------------------------------------------------------------
\* Directory entries.
Slot(k, name, n, first, size, short) ==
    [k |-> k, name |-> name, n |-> n, first |-> first, size |-> size, short |-> short]
Blank == Slot("free", NoName, 0, FREE, 0, <<NoName, 0>>)
Lfn(name, n) == [Blank EXCEPT !.k = "lfn", !.name = name, !.n = n]
BlankSector == [k \in 1 .. Slots |-> Blank]

Flags(mode) ==
    CASE mode = "r"  -> {"read"}
      [] mode = "r+" -> {"read", "write"}
      [] mode = "w"  -> {"write", "erase", "create"}
      [] mode = "w+" -> {"read", "write", "erase", "create"}
      [] mode = "a"  -> {"write", "append", "create"}
      [] mode = "a+" -> {"read", "write", "append", "create"}

NoLook == [idx |-> -1, c |-> END]
Erased == [j \in 1 .. SectorUnits |-> 0]
NoFile == [path |-> <<>>, parent |-> 0, first |-> 0, short |-> <<NoName, 0>>, flags |-> {},
           pos |-> 0, len |-> 0, changed |-> FALSE, look |-> NoLook,
           at |-> INVALID, row |-> Erased, dirty |-> FALSE]

\* The world: disk and library, and the results of calls within the library.
World == [disk |-> disk, buf |-> fs.buf, hint |-> fs.hint, type |-> fs.type, cur |-> fs.cur,
          free |-> fl.free, open |-> fl.open, file |-> fl.file, faults |-> faults,
          full |-> rough.full, overrun |-> rough.overrun,
          rc |-> "ok", val |-> END, ptr |-> 0, prev |-> END, first |-> END, dir |-> 0,
          read |-> <<>>, out |-> <<>>, hit |-> 0, x |-> 0, left |-> 0, got |-> Blank, h |-> <<>>]

ClusterUnits == ClusterSectors * SectorUnits
Least(i, j) == IF i < j THEN i ELSE j

\* The code goes on with F on failure, and returns a failure.
Undo(ws, F(_)) == UNION {IF w.rc = "ok" THEN {w} ELSE Result(F([w EXCEPT !.rc = "ok"]), "none") :
                            w \in ws}
-----------------------------------------------------------------------------
(***************************************************************************)
(* Sectors of directories: fatfs_sector_reader, and scans that go from     *)
(* sector to sector until there is a hit or no more sector.                *)
(***************************************************************************)
NoCur == [c |-> END, k |-> 0, row |-> BlankSector]

\* The current sector keeps its address if reading it fails.
ReadCur(w, c, k) ==
    LET v == [w EXCEPT !.cur.c = c, !.cur.k = k] IN
    IF v.cur = w.cur THEN {w}
    ELSE Io([v EXCEPT !.cur.row = SubSeq(w.disk.dir[c], k * Slots + 1, (k + 1) * Slots)], v)

WriteCur(w) ==
    Io([w EXCEPT !.disk.dir[w.cur.c] = [j \in DOMAIN @ |->
           IF j - w.cur.k * Slots \in 1 .. Slots THEN w.cur.row[j - w.cur.k * Slots] ELSE @[j]]], w)

\* A chain that leads to cluster 0, which only a failed write of the table leaves.
Strays(w) == [w EXCEPT !.overrun = @ \/ w.val = FREE]

SectorReader(w, start, off) ==
    IF w.type = 16 /\ start = 0
    THEN IF off < RootSectors THEN ReadCur(w, 0, off) ELSE Result({w}, "none")
    ELSE UNION {IF v.val = END THEN Result({v}, "none")
                ELSE ReadCur(Strays(v), v.val, off % ClusterSectors) :
                v \in Times(off \div ClusterSectors, LAMBDA u : NextCluster(u, u.val),
                            {[w EXCEPT !.val = start]})}

MaxSectors == RootSectors + Entries * ClusterSectors

Live(s) == {i \in DOMAIN s : s[i].k \in {"file", "dir"}}

\* The parts of a long name that lie before entry i.
Before(s, i) ==
    CHOOSE r \in 0 .. i - 1 :
        /\ \A j \in i - r .. i - 1 : s[j].k = "lfn"
        /\ i - r = 1 \/ s[i - r - 1].k # "lfn"

\* The entry at i has this long name, as fatfs_lfn_cache_entry collects it: the first
\* part gives its length, and of several parts with a number the last one counts.
Named(s, i, name) ==
    LET run == SubSeq(s, i - Before(s, i), i - 1) IN
    /\ run # <<>>
    /\ run[1].n >= NameEntries[name]
    /\ \A n \in 1 .. NameEntries[name] :
          \E j \in DOMAIN run : /\ run[j].n = n /\ run[j].name = name
                                /\ \A k \in j + 1 .. Len(run) : run[k].n # n

\* Entries up to j that are not in use, in a row; parts of long names count with them,
\* since the file that they belong to may turn out to be deleted.
Spaces(s, j) == j - Min({i \in 0 .. j : \A k \in i + 1 .. j : k \notin Live(s)})

\* Faulty variant of Hits: parts of a long name are taken for space.
HitsAtLfn(s, want) ==
    {i \in DOMAIN s :
        \/ want.by = "name" /\ i \in Live(s) /\ Named(s, i, want.it)
        \/ want.by = "short" /\ i \in Live(s) /\ s[i].short = want.it
        \/ want.by = "room" /\ i \notin Live(s) /\ Spaces(s, i) >= want.it}

\* The entries that a scan looks for: a file or directory of a long or a short name, or
\* the last of so many free ones in a row; or none, to read them all.
Hits(s, want) ==
    {i \in DOMAIN s :
        \/ want.by = "name" /\ i \in Live(s) /\ Named(s, i, want.it)
        \/ want.by = "short" /\ i \in Live(s) /\ s[i].short = want.it
        \/ want.by = "room" /\ s[i].k \in {"free", "deleted"} /\ Spaces(s, i) >= want.it}

\* The next sector of a directory; w.read is what has been read, w.hit where the first hit
\* is, or 0.
Look(w, start, want) ==
    IF w.rc # "ok" \/ w.hit # 0 THEN {w}
    ELSE Then(SectorReader(w, start, w.x), LAMBDA v :
           LET s == v.read \o v.cur.row IN
           {[v EXCEPT !.x = @ + 1, !.read = s,
                      !.hit = IF Hits(s, want) = {} THEN 0 ELSE Min(Hits(s, want))]})

Scan(w, start, want) ==
    {[v EXCEPT !.rc = IF v.hit = 0 THEN "none" ELSE "ok"] :
        v \in Times(MaxSectors, LAMBDA u : Look(u, start, want),
                    {[w EXCEPT !.x = 0, !.read = <<>>, !.hit = 0]})}

\* fatfs_get_file_entry
GetFileEntry(w, c, name) ==
    Then(Scan(w, c, [by |-> "name", it |-> name]), LAMBDA v : {[v EXCEPT !.got = v.read[v.hit]]})

SfnExists(w, c, short) == Scan(w, c, [by |-> "short", it |-> short])

\* Change of the one entry with this short name: its length, or its deletion.
ChangeEntry(w, c, short, F(_)) ==
    Then(Scan(w, c, [by |-> "short", it |-> short]), LAMBDA v :
         WriteCur([v EXCEPT !.cur.row[1 + ((v.hit - 1) % Slots)] = F(@)]))

UpdateFileLength(w, c, short, len) ==
    ChangeEntry(w, c, short, LAMBDA e : [e EXCEPT !.size = len])

\* The parts of the long name stay.
MarkFileDeleted(w, c, short) == ChangeEntry(w, c, short, LAMBDA e : [e EXCEPT !.k = "deleted"])

\* _open_directory, from the root; w.dir is the cluster of the directory.
OpenDirectory(w, path) ==
    Each(Len(path), LAMBDA v, k : Then(GetFileEntry(v, v.dir, path[k]), LAMBDA u :
           IF u.got.k = "dir" THEN {[u EXCEPT !.dir = u.got.first]} ELSE Result({u}, "none")),
         {[w EXCEPT !.dir = RootCluster(w)]})
-----------------------------------------------------------------------------
(***************************************************************************)
(* New entries: fatfs_find_free_dir_offset and fatfs_add_file_entry.       *)
(***************************************************************************)
\* A directory gets a cluster of blank entries; the root of FAT16 is taken for a chain.
Extend(w, c) ==
    Then(FindBlank([w EXCEPT !.overrun = @ \/ (w.type = 16 /\ c = 0)]), LAMBDA v :
      LET new == v.val IN
      Then(AddToChain(v, c, new), LAMBDA u :
        Each(ClusterSectors, LAMBDA t, k :
               WriteCur([t EXCEPT !.cur = [c |-> new, k |-> k - 1, row |-> BlankSector]]), {u})))

\* w.hit is the number of entries before the first of n free ones.
FindFreeDirOffset(w, c, n) ==
    UNION {IF v.rc = "ok" THEN {[v EXCEPT !.hit = @ - Spaces(v.read, @)]}
           ELSE LET at == Len(v.read) - Spaces(v.read, Len(v.read)) IN
                {[u EXCEPT !.hit = at] : u \in Extend([v EXCEPT !.rc = "ok"], c)}
           : v \in Scan(w, c, [by |-> "room", it |-> n])}

\* The next sector that a new row of entries reaches into.
Put(w, c, row) ==
    IF w.rc # "ok" \/ w.hit + Len(row) <= w.x * Slots THEN {w}
    ELSE Then(SectorReader(w, c, w.x), LAMBDA v :
           WriteCur([v EXCEPT !.x = @ + 1, !.cur.row = [j \in 1 .. Slots |->
               LET i == v.x * Slots + j - v.hit IN
               IF i \in DOMAIN row THEN row[i] ELSE @[j]]]))

\* The parts of the long name from the last to the first, then the entry; one write for
\* each sector.
AddFileEntry(w, c, e) ==
    LET n   == NameEntries[e.name]
        row == [k \in 1 .. n |-> Lfn(e.name, n + 1 - k)] \o <<e>>
    IN  Then(FindFreeDirOffset(w, c, n + 1), LAMBDA v :
             Times(n + 1, LAMBDA u : Put(u, c, row), {[v EXCEPT !.x = v.hit \div Slots]}))
-----------------------------------------------------------------------------
(***************************************************************************)
(* Handles, and opening and creating: _allocate_file .. _create_file.      *)
(***************************************************************************)
File(w) == w.file[Head(w.h)]

AllocateFile(w) ==
    IF w.free = <<>> THEN Result({w}, "none")
    ELSE {[w EXCEPT !.h = <<Head(w.free)>>, !.open = Append(@, Head(w.free)), !.free = Tail(@)]}

\* fat_list_remove, from a list that has the node
ListRemove(s, h) == RemoveAt(s, CHOOSE i \in DOMAIN s : s[i] = h)

FreeFile(w) ==
    LET h == Head(w.h) IN
    [w EXCEPT !.open = ListRemove(@, h), !.free = Append(@, h), !.file[h] = NoFile]

CheckFileOpen(w) == \E h \in ToSet(w.open) \ {Head(w.h)} : w.file[h].path = File(w).path

\* What _open_file, _create_file and _create_directory begin with: a handle, the path
\* that is not open yet, and the directory it is in.
Begin(w, path, F(_)) ==
    Then(AllocateFile(w), LAMBDA v :
      LET u == [v EXCEPT !.file[Head(v.h)].path = path] IN
      Undo(IF CheckFileOpen(u) THEN Result({u}, "none")
           ELSE Then(OpenDirectory(u, Front(path)), LAMBDA t :
                  F([t EXCEPT !.file[Head(t.h)].parent = t.dir])),
           LAMBDA t : {FreeFile(t)}))

\* The handle of an entry; a purge that fails is ignored.
Opened(w, e) ==
    Result(Purge([w EXCEPT !.file[Head(w.h)].first = e.first, !.file[Head(w.h)].short = e.short,
                           !.file[Head(w.h)].len = e.size]), "ok")

OpenFile(w, path) ==
    Begin(w, path, LAMBDA v :
      Then(GetFileEntry(v, v.dir, Last(path)), LAMBDA u :
        IF u.got.k = "file" THEN Opened(u, u.got) ELSE Result({u}, "none")))

\* The next tail for the short name, unless the last one makes it unique.
TryTail(w, c, name) ==
    IF w.rc = "none" THEN {w}
    ELSE {IF v.rc = "none" THEN v ELSE [v EXCEPT !.left = @ + 1] :
             v \in SfnExists(w, c, <<Base[name], w.left>>)}

\* The first tail that makes the short name unique.
FreeTail(w, c, name) ==
    Result(Times(Cardinality(Names) + 1, LAMBDA v : TryTail(v, c, name), {[w EXCEPT !.left = 0]}),
           "ok")

\* A new directory is erased through its handle, not through the current sector.
EraseCluster(w, c) ==
    Each(ClusterSectors, LAMBDA v, k :
           Io([v EXCEPT !.disk.dir[c] = [j \in DOMAIN @ |->
                  IF j - (k - 1) * Slots \in 1 .. Slots THEN Blank ELSE @[j]]], v),
         {w})

\* _create_file, and _create_directory if k is "dir".
Create(w, path, k) ==
    Begin(w, path, LAMBDA v :
      LET name == Last(path) IN
      UNION {IF u.rc = "ok" THEN Result({u}, "none")
             ELSE Then(AllocateFirst([u EXCEPT !.rc = "ok"]), LAMBDA t :
               LET c == t.first IN
               Then(IF k = "dir" THEN EraseCluster(t, c) ELSE {t}, LAMBDA s :
               Then(FreeTail(s, s.dir, name), LAMBDA r :
               LET e == Slot(k, name, 0, c, 0, <<Base[name], r.left>>) IN
               Then(Undo(AddFileEntry(r, r.dir, e), LAMBDA q : FreeChain(q, c)), LAMBDA q :
                    Opened(q, e)))))
             : u \in GetFileEntry(v, v.dir, name)})

\* Faulty variant of CreateDirectory: the handle is not given back.
CreateDirectoryLeaky(w, path) == Create(w, path, "dir")

\* _create_directory gives its handle back.
CreateDirectory(w, path) == {IF v.rc = "ok" THEN FreeFile(v) ELSE v : v \in Create(w, path, "dir")}
-----------------------------------------------------------------------------
(***************************************************************************)
(* Reading and writing: _read_sectors, _write_sectors, fl_fflush, fl_fread *)
(* and fl_fwrite.  w.val counts the sectors that the former two have read  *)
(* or written, w.left the units that are left to the latter two.           *)
(***************************************************************************)
\* Where the walk to cluster idx of the file begins.
WalkFrom(f, idx) == IF idx > 0 /\ idx = f.look.idx + 1 THEN f.look ELSE [idx |-> 0, c |-> f.first]

\* Up to n sectors of one cluster, appended to w.read.
ReadSectors(w, sec, n) ==
    LET f    == File(w)
        idx  == sec \div ClusterSectors
        k    == sec % ClusterSectors
        cnt  == Least(n, ClusterSectors - k)
        from == WalkFrom(f, idx)
        walk == IF idx = f.look.idx THEN {[w EXCEPT !.val = f.look.c]}
                ELSE Times(idx - from.idx, LAMBDA v : NextCluster(v, v.val), {[w EXCEPT !.val = from.c]})
        Transfer(v) ==
          IF v.val = END THEN {[v EXCEPT !.val = 0]}
          ELSE LET u == [Strays(v) EXCEPT !.file[Head(w.h)].look = [idx |-> idx, c |-> v.val], !.val = 0] IN
               Result(Io([u EXCEPT !.val = cnt, !.read = @ \o
                              SubSeq(u.disk.data[v.val], k * SectorUnits + 1, (k + cnt) * SectorUnits)],
                         u), "ok")
    IN  UNION {Transfer(v) : v \in walk}

\* The next cluster, and the one before it.
Walk(w) ==
    IF w.val = END THEN {w} ELSE {[v EXCEPT !.prev = w.val] : v \in NextCluster(w, w.val)}

\* As many of the units as fit into one cluster; the chain grows for all of them.
WriteSectors(w, sec, units) ==
    LET f     == File(w)
        total == Len(units) \div SectorUnits
        idx   == sec \div ClusterSectors
        k     == sec % ClusterSectors
        cnt   == Least(total, ClusterSectors - k)
        from  == WalkFrom(f, idx)
        walk  == IF idx = f.look.idx THEN {[w EXCEPT !.val = f.look.c]}
                 ELSE Times(idx - from.idx, Walk, {[w EXCEPT !.val = from.c, !.prev = END]})
        Reach(v) == IF v.val # END THEN {v}
                    ELSE Then(AddFreeSpace(v, v.prev, (total + ClusterSectors - 1) \div ClusterSectors),
                              LAMBDA u : {[u EXCEPT !.val = u.first]})
        Transfer(v) ==
          LET c == v.val
              u == [Strays(v) EXCEPT !.file[Head(w.h)].look = [idx |-> idx, c |-> c], !.val = 0]
          IN  Io([u EXCEPT !.val = cnt, !.disk.data[c] = [j \in DOMAIN @ |->
                     IF j - k * SectorUnits \in 1 .. cnt * SectorUnits
                     THEN units[j - k * SectorUnits] ELSE @[j]]], u)
    IN  {IF v.rc = "ok" THEN v ELSE [v EXCEPT !.rc = "ok", !.val = 0] :
            v \in UNION {Then(Reach(v), Transfer) : v \in walk}}

\* fl_fflush: what cannot be written stays in the buffer.
FFlush(w) ==
    IF ~File(w).dirty THEN {w}
    ELSE {[v EXCEPT !.file[Head(w.h)].dirty = (v.val = 0)] :
             v \in WriteSectors(w, File(w).at, File(w).row)}

\* The buffer of the file goes over to another sector.
Buffered(w, sec, row) ==
    [w EXCEPT !.file[Head(w.h)].at = sec, !.file[Head(w.h)].dirty = FALSE,
              !.file[Head(w.h)].row = row]

\* The next n units have been copied; 0 ends the loop.
Moved(w, n) ==
    [w EXCEPT !.file[Head(w.h)].pos = @ + n, !.left = IF n = 0 THEN 0 ELSE @ - n]

\* Faulty variant of Fetch: what the buffer holds is not written first.
FetchUnflushed(w, sec) == ReadSectors([w EXCEPT !.read = <<>>], sec, 1)

\* The buffer is flushed before the sector is read.
Fetch(w, sec) == UNION {ReadSectors([v EXCEPT !.read = <<>>], sec, 1) : v \in FFlush(w)}

\* A turn of fl_fread: whole sectors into w.out, parts of sectors through the buffer.
ReadTurn(w) ==
    LET f   == File(w)
        sec == f.pos \div SectorUnits
        off == f.pos % SectorUnits
        m   == Least(SectorUnits - off, w.left)
        Copy(v) == Moved([v EXCEPT !.out = @ \o SubSeq(File(v).row, off + 1, off + m)], m)
    IN  IF w.left = 0 THEN {w}
        ELSE IF off = 0 /\ w.left >= SectorUnits
        THEN {Moved([v EXCEPT !.out = @ \o v.read], v.val * SectorUnits) :
                v \in ReadSectors([w EXCEPT !.read = <<>>], sec, w.left \div SectorUnits)}
        ELSE IF f.at = sec THEN {Copy(w)}
        ELSE {IF v.val = 0 THEN Moved(v, 0) ELSE Copy(Buffered(v, sec, v.read)) :
                v \in Fetch(w, sec)}

FReadLoop(w, n) == Times(n, ReadTurn, {[w EXCEPT !.left = n]})

\* A turn of fl_fwrite of units of the given value.
WriteTurn(w, value) ==
    LET f   == File(w)
        sec == f.pos \div SectorUnits
        off == f.pos % SectorUnits
        m   == Least(SectorUnits - off, w.left)
        Copy(v) == Moved([v EXCEPT !.file[Head(v.h)].dirty = TRUE,
                            !.file[Head(v.h)].row = [j \in DOMAIN @ |->
                                IF j \in off + 1 .. off + m THEN value ELSE @[j]]], m)
    IN  IF w.left = 0 THEN {w}
        ELSE IF off = 0 /\ w.left >= SectorUnits
        THEN {Moved(v, v.val * SectorUnits) :
                v \in UNION {WriteSectors(Buffered(u, INVALID, Erased), sec,
                                 [j \in 1 .. w.left - (w.left % SectorUnits) |-> value]) :
                                u \in FFlush(w)}}
        ELSE IF f.at = sec THEN {Copy(w)}
        ELSE {Copy(Buffered(v, sec, IF v.val = 0 THEN Erased ELSE v.read)) : v \in Fetch(w, sec)}

FWriteLoop(w, n, value) ==
    Times(n, LAMBDA v : WriteTurn(v, value), {[w EXCEPT !.left = n]})
-----------------------------------------------------------------------------
(***************************************************************************)
(* The calls.                                                              *)
(***************************************************************************)
EmptyDisk(type) ==
    [table |-> [s \in 0 .. FsInfo |-> [j \in 1 .. SectorEntries |->
                   LET c == s * SectorEntries + j - 1 IN
                   IF c < 2 \/ (c = 2 /\ type = 32) THEN END ELSE FREE]],
     dir |-> [c \in 0 .. Entries - 1 |->
                 [j \in 1 .. (IF c = 0 THEN RootSectors ELSE ClusterSectors) * Slots |-> Blank]],
     data |-> [c \in 0 .. Entries - 1 |-> [j \in 1 .. ClusterUnits |-> 0]]]

Call(op) == [op |-> op, got |-> <<>>, due |-> <<>>]

\* fl_init and fl_attach_media (fatfs_init) on a volume that is empty.
Init ==
    /\ \E type \in Types :
          /\ disk = EmptyDisk(type)
          /\ fs = [buf |-> FatInit, hint |-> 0, type |-> type, cur |-> NoCur]
    /\ fl = [free |-> SetToSeq(Handles), open |-> <<>>, file |-> [h \in Handles |-> NoFile]]
    /\ faults = MaxFaults /\ calls = MaxCalls
    /\ held = {}
    /\ kind = [p \in Paths |-> "none"] /\ text = [p \in Paths |-> <<>>]
    /\ seen = Call("init")
    /\ rough = [dropped |-> {}, full |-> FALSE, overrun |-> FALSE]

\* What a call leaves; the history variables are up to the action.
Returns(w) ==
    /\ calls' = IF w.faults < faults THEN Least(calls - 1, MaxCallsAfterFault) ELSE calls - 1
    /\ disk' = w.disk
    /\ fs' = [buf |-> w.buf, hint |-> w.hint, type |-> w.type, cur |-> w.cur]
    /\ fl' = [free |-> w.free, open |-> w.open, file |-> w.file]
    /\ faults' = w.faults

Marks(w, dropped) == rough' = [dropped |-> dropped, full |-> w.full, overrun |-> w.overrun]

OrElse(ws, try, F(_)) ==
    UNION {IF w.rc = "ok" \/ ~try THEN {w} ELSE F([w EXCEPT !.rc = "ok"]) : w \in ws}

\* fl_fopen: the file that is there, or a new one.  Callers are told that "w" and "w+"
\* erase the file, but nothing looks at that flag.
FOpen(p, mode) ==
    LET flags == Flags(mode)
        found == IF "read" \in flags THEN OpenFile(World, p) ELSE Result({World}, "none")
        made  == OrElse(found, "create" \in flags, LAMBDA w : Create(w, p, "file"))
        all   == OrElse(made, "read" \notin flags /\ "create" \in flags, LAMBDA w : OpenFile(w, p))
    IN  \E w \in all :
          /\ Returns(IF w.rc = "ok" THEN [w EXCEPT !.file[Head(w.h)].flags = flags] ELSE w)
          /\ held' = IF w.rc = "ok" THEN held \cup {Head(w.h)} ELSE held
          /\ kind' = IF w.rc = "ok" THEN [kind EXCEPT ![p] = "file"] ELSE kind
          /\ text' = IF w.rc = "ok" /\ "erase" \in flags THEN [text EXCEPT ![p] = <<>>] ELSE text
          /\ seen' = Call("open") /\ Marks(w, rough.dropped)

On(h) == [World EXCEPT !.h = <<h>>]

FFlushCall(h) ==
    \E w \in FFlush(On(h)) :
        /\ Returns(w) /\ Marks(w, rough.dropped) /\ seen' = Call("flush")
        /\ UNCHANGED <<held, kind, text>>

\* fl_fclose: failures are ignored.
Close(w) ==
    UNION {LET f == File(v) IN
           UNION {Result(Purge(FreeFile(u)), "ok") :
                     u \in IF ~f.changed THEN {v}
                           ELSE Result(UpdateFileLength(v, f.parent, f.short, f.len), "ok")}
           : v \in FFlush(w)}

FClose(h) ==
    \E w \in Close(On(h)) :
        /\ Returns(w) /\ Marks(w, rough.dropped) /\ seen' = Call("close")
        /\ held' = held \ {h}
        /\ UNCHANGED <<kind, text>>

FRead(h, n) ==
    LET f     == fl.file[h]
        count == IF "read" \in f.flags /\ f.pos < f.len THEN Least(n, f.len - f.pos) ELSE 0
    IN  \E w \in FReadLoop(On(h), count) :
          /\ Returns(w) /\ Marks(w, rough.dropped)
          /\ seen' = IF f.path \in rough.dropped THEN Call("read")
                     ELSE [op |-> "read", got |-> w.out,
                           due |-> SubSeq(text[f.path], f.pos + 1, f.pos + count)]
          /\ UNCHANGED <<held, kind, text>>

\* fl_fwrite says that all was written, whatever came of it.
FWrite(h, n) ==
    LET f   == fl.file[h]
        pos == IF "append" \in f.flags THEN f.len ELSE f.pos
        p   == f.path
    IN  /\ "write" \in f.flags
        /\ \E w \in FWriteLoop([On(h) EXCEPT !.file[h].pos = pos], n, calls) :
              /\ Returns([w EXCEPT !.file[h].len = IF @ < w.file[h].pos THEN w.file[h].pos ELSE @,
                                   !.file[h].changed = @ \/ w.file[h].pos > f.len])
              /\ Marks(w, rough.dropped)
        /\ text' = [text EXCEPT ![p] = [j \in 1 .. (IF pos + n > Len(@) THEN pos + n ELSE Len(@)) |->
                        IF j \in pos + 1 .. pos + n THEN calls ELSE @[j]]]
        /\ seen' = Call("write")
        /\ UNCHANGED <<held, kind>>

\* fl_fseek drops the buffer, also if it is dirty.
FSeek(h, origin, off) ==
    LET f   == fl.file[h]
        pos == CASE origin = "set" -> Least(off, f.len)
                 [] origin = "cur" -> IF f.pos + off < 0 THEN 0
                                      ELSE IF off < 0 THEN f.pos + off ELSE Least(f.pos + off, f.len)
                 [] origin = "end" -> f.len
    IN  /\ Returns([On(h) EXCEPT !.file[h].at = INVALID, !.file[h].dirty = FALSE,
                                 !.file[h].row = Erased, !.file[h].pos = pos])
        /\ Marks(World, IF f.dirty THEN rough.dropped \cup {f.path} ELSE rough.dropped)
        /\ seen' = Call("seek")
        /\ UNCHANGED <<held, kind, text>>

\* fl_remove: where the deletion fails the chain is free and the handle is not.
RemoveFile(p) ==
    \E w \in Then(OpenFile(World, p), LAMBDA v :
               UNION {Then(MarkFileDeleted(u, File(u).parent, File(u).short), Close) :
                         u \in FreeChain(v, File(v).first)}) :
        /\ Returns(w)
        /\ IF w.rc = "ok"
           THEN /\ kind' = [kind EXCEPT ![p] = "none"] /\ text' = [text EXCEPT ![p] = <<>>]
                /\ Marks(w, rough.dropped \ {p})
           ELSE UNCHANGED <<kind, text>> /\ Marks(w, rough.dropped)
        /\ seen' = Call("remove")
        /\ UNCHANGED held

MakeDirectory(p) ==
    \E w \in CreateDirectory(World, p) :
        /\ Returns(w) /\ Marks(w, rough.dropped) /\ seen' = Call("mkdir")
        /\ kind' = IF w.rc = "ok" THEN [kind EXCEPT ![p] = "dir"] ELSE kind
        /\ UNCHANGED <<held, text>>

NameOf(s, i) ==
    IF \E n \in Names : Named(s, i, n) THEN CHOOSE n \in Names : Named(s, i, n) ELSE NoName

\* fl_listdirectory, with fl_opendir and fl_readdir.
ListDirectory(p) ==
    \E w \in Then(OpenDirectory(World, p), LAMBDA v :
               Result(Scan(v, v.dir, [by |-> "none", it |-> 0]), "ok")) :
        /\ Returns(w) /\ Marks(w, rough.dropped)
        /\ seen' = [op |-> "list",
                    got |-> {NameOf(w.read, i) : i \in IF w.rc = "ok" THEN Live(w.read) ELSE {}},
                    due |-> {Last(q) : q \in {q \in Paths : Front(q) = p /\ kind[q] # "none"}}]
        /\ UNCHANGED <<held, kind, text>>

\* fl_shutdown
Shutdown ==
    \E w \in Purge(World) :
        /\ Returns(w) /\ Marks(w, rough.dropped) /\ seen' = Call("shutdown")
        /\ UNCHANGED <<held, kind, text>>

Next ==
    /\ calls > 0
    /\ \/ \E p \in FilePaths, mode \in Modes : FOpen(p, mode)
       \/ \E h \in held : FFlushCall(h)
       \/ \E h \in held : FClose(h)
       \/ \E h \in held, n \in ReadLengths : FRead(h, n)
       \/ \E h \in held, n \in WriteLengths : FWrite(h, n)
       \/ \E h \in held, s \in Seeks : FSeek(h, s[1], s[2])
       \/ \E p \in FilePaths : RemoveFile(p)
       \/ \E p \in DirPaths : MakeDirectory(p)
       \/ \E p \in {<<>>} \cup {q \in DirPaths : kind[q] = "dir"} : ListDirectory(p)
       \/ Shutdown

Spec == Init /\ [][Next]_vars
-----------------------------------------------------------------------------
(***************************************************************************)
(* What is on the volume, seen through the buffers.                        *)
(***************************************************************************)
TheTable == Table(disk, fs.buf)
Root == RootCluster([type |-> fs.type])

\* The entries of the directory at cluster c.
Rows(c) == IF c = 0 THEN disk.dir[0]
           ELSE FlattenSeq([k \in DOMAIN Chain(TheTable, c) |-> disk.dir[Chain(TheTable, c)[k]]])

IsNamed(s, n, k) == {i \in Live(s) : s[i].k = k /\ Named(s, i, n)}
EntryOf(c, n, k) == LET s == Rows(c) IN s[CHOOSE i \in IsNamed(s, n, k) : TRUE]

Made(k) == {p \in Paths : kind[p] = k}
DirOf(p) == IF Len(p) = 1 THEN Root ELSE EntryOf(Root, p[1], "dir").first
Dirs == {Root} \cup {EntryOf(Root, p[1], "dir").first : p \in Made("dir")}

\* The units that path p has on the volume and in the buffer of handle h, if it is open;
\* -1 where there is no cluster.
Stored(p) ==
    LET e     == EntryOf(DirOf(p), Last(p), "file")
        chain == Chain(TheTable, e.first)
        units == FlattenSeq([k \in DOMAIN chain |-> disk.data[chain[k]]])
        Unit(j) == IF j \in DOMAIN units THEN units[j] ELSE -1
        opens == {h \in held : fl.file[h].path = p}
    IN  IF opens = {} THEN [j \in 1 .. e.size |-> Unit(j)]
        ELSE LET f == fl.file[CHOOSE h \in opens : TRUE] IN
             [j \in 1 .. f.len |-> IF f.dirty /\ (j - 1) \div SectorUnits = f.at
                                   THEN f.row[1 + ((j - 1) % SectorUnits)] ELSE Unit(j)]

Reliable == faults = MaxFaults /\ ~rough.overrun

\* Handles that are open and that no caller has.
Lost == ToSet(fl.open) \ held

HandlesInOrder ==
    /\ ToSet(fl.open \o fl.free) = Handles /\ IsInjective(fl.open \o fl.free)
    /\ held \subseteq ToSet(fl.open)
    /\ \A h, g \in ToSet(fl.open) : h = g \/ fl.file[h].path # fl.file[g].path
-----------------------------------------------------------------------------
(***************************************************************************)
(* Properties.                                                             *)
(***************************************************************************)
\* A buffer that is not dirty holds what the device holds, and no sector of the table is
\* in two buffers: also after reads and writes that failed at any point, so that what
\* fatfs_fat_read_sector finds in its list is never out of date.
BuffersAreCoherent ==
    \A i \in 1 .. Buffers : fs.buf[i].at # INVALID =>
        /\ fs.buf[i].dirty \/ fs.buf[i].row = disk.table[fs.buf[i].at]
        /\ \A j \in 1 .. Buffers \ {i} : fs.buf[j].at # fs.buf[i].at

\* Looking does not change the table: where a call allocates nothing, the sectors that it
\* evicts from the buffers and those that it reads leave every entry as it was, also if
\* reading or writing them fails.
TableIsKept ==
    [][/\ seen'.op \in {"read", "seek", "list", "close", "flush", "shutdown"}
       /\ \A h \in held : ~fl.file[h].dirty
       => Table(disk', fs'.buf) = TheTable]_vars

\* Each cluster in use belongs to one chain of one file or directory, and each chain ends:
\* after any sequence of calls, those that fail for want of space or of a handle included.
ChainsAreWhole ==
    Reliable =>
        LET firsts == (Dirs \ {0}) \cup UNION {{Rows(c)[i].first : i \in Live(Rows(c))} : c \in Dirs}
            chains == {Chain(TheTable, c) : c \in firsts}
        IN  /\ \A s \in chains : s # <<>> /\ TheTable[Last(s)] = END
            /\ \A s, t \in chains : s = t \/ ToSet(s) \cap ToSet(t) = {}
            /\ {c \in 2 .. Entries - 1 : TheTable[c] # FREE} = UNION {ToSet(s) : s \in chains}

\* A directory shows the names that callers created in it and did not remove, each once,
\* as the kind it was created as, with short names of their own; and this is what a
\* listing returns.  A name whose entries were laid over another's would be missing.  What is
\* found by its name is found again to be deleted, so that no removal leaves its handle open.
NamesAreFound ==
    Reliable =>
        /\ \A d \in {<<>>} \cup Made("dir") :
              LET s     == Rows(IF d = <<>> THEN Root ELSE EntryOf(Root, d[1], "dir").first)
                  there == {p \in Paths : Front(p) = d /\ kind[p] # "none"}
              IN  /\ {<<NameOf(s, i), s[i].k>> : i \in Live(s)} = {<<Last(p), kind[p]>> : p \in there}
                  /\ Cardinality({s[i].short : i \in Live(s)}) = Cardinality(there)
                  /\ Cardinality(Live(s)) = Cardinality(there)
        /\ seen.op = "list" => seen.got = seen.due
        /\ Lost = {}

\* A file keeps what was written to it, through buffers, growing chains, closing and opening
\* again in modes that do not erase, and reading returns it; unless the volume was full, or a
\* seek dropped the buffer.
FilesKeepTheirText ==
    Reliable /\ ~rough.full =>
        /\ \A p \in Made("file") \ rough.dropped : Stored(p) = text[p]
        /\ seen.op = "read" => seen.got = seen.due

\* The comment in fl_fopen: for "w" and "w+", "if a file with the same name already exists
\* its content is erased and the file is treated as a new empty file".
EraseEmpties ==
    [][\A h \in held' \ held : "erase" \in fl'.file[h].flags => fl'.file[h].len = 0]_vars

\* Each handle is in one of the two lists, once; those that callers hold are open, and no
\* path is open twice.  No call but a removal loses a handle, however it ends; and closing a
\* file leaves no change of the table in the buffers unless writing one failed.
HandlesAreKept ==
    /\ []HandlesInOrder
    /\ [][/\ seen'.op # "remove" => Lost' = Lost
          /\ seen'.op = "close" /\ faults' = faults => \A i \in 1 .. Buffers : ~fs'.buf[i].dirty]_vars
=============================================================================
