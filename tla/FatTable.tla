------------------------------ MODULE FatTable ------------------------------
(***************************************************************************)
(* The file allocation table of fat_io_lib: fat_table.c and the allocation *)
(* of fat_write.c.  Sectors of the table are changed in a list of buffers  *)
(* and written back when a buffer is needed for another sector, or when    *)
(* the table is purged.                                                    *)
(*                                                                         *)
(* An operation maps a world w to the set of worlds that it can end in:    *)
(* any read or write of the device may fail.  Its result is w.rc, and      *)
(* w.val where the code returns a cluster.                                 *)
(***************************************************************************)
EXTENDS Integers, FiniteSets, SequencesExt, Worlds

CONSTANTS Entries,        \* entries in the sectors of the table
          Clusters,       \* Clusters[type]: the entries from 2 to here have a cluster; those
                          \* behind only fill the last sector
          SectorEntries,  \* entries in a sector of the table
          Buffers         \* FAT_BUFFERS, each of one sector

ASSUME FatTableAssumption ==
    /\ SectorEntries \in Nat \ {0} /\ Buffers \in Nat \ {0}
    /\ Entries \in Nat /\ Entries > 2 /\ Entries % SectorEntries = 0
    /\ Clusters \in [{16, 32} -> 3 .. Entries]

FREE == 0
END == -1       \* FAT32_LAST_CLUSTER, and any value of the table that ends a chain
INVALID == -1   \* FAT32_INVALID_CLUSTER, the address of a buffer that holds nothing

FatSectors == Entries \div SectorEntries
FsInfo == FatSectors        \* the FSINFO sector, read through the same buffers
Beyond == FatSectors + 1    \* where the entry of cluster END would be: not on the device
SectorOf(c) == IF c = END THEN Beyond ELSE c \div SectorEntries
At(c) == 1 + (c % SectorEntries)

NoBuffer == [at |-> INVALID, dirty |-> FALSE, row |-> [j \in 1 .. SectorEntries |-> FREE]]

\* fatfs_fat_init
FatInit == [k \in 1 .. Buffers |-> NoBuffer]

Result(ws, r) == {[w EXCEPT !.rc = r] : w \in ws}

\* A read or a write of the device that is done, or fails.
Io(done, not) ==
    {done} \cup (IF not.faults = 0 THEN {}
                 ELSE {[not EXCEPT !.rc = "fail", !.faults = @ - 1]})
-----------------------------------------------------------------------------
\* fatfs_fat_writeback
WriteBack(w, i) ==
    IF ~w.buf[i].dirty THEN {w}
    ELSE Io([w EXCEPT !.disk.table[w.buf[i].at] = w.buf[i].row, !.buf[i].dirty = FALSE], w)

\* Faulty variant of Load: a buffer whose reading failed keeps its address.
LoadKeepsAddress(w, s) ==
    IF \E i \in 1 .. Buffers : w.buf[i].at = s
    THEN {[w EXCEPT !.ptr = CHOOSE i \in 1 .. Buffers : w.buf[i].at = s]}
    ELSE Then(WriteBack([w EXCEPT !.buf = <<Last(@)>> \o Front(@), !.ptr = 1], 1), LAMBDA v :
           LET u == [v EXCEPT !.buf[1].at = s] IN
           IF s \notin 0 .. FsInfo THEN Result({u}, "fail")
           ELSE Io([u EXCEPT !.buf[1].row = u.disk.table[s]], u))

\* Faulty variant of Load: the buffer is taken without being written back.
LoadForgets(w, s) ==
    IF \E i \in 1 .. Buffers : w.buf[i].at = s
    THEN {[w EXCEPT !.ptr = CHOOSE i \in 1 .. Buffers : w.buf[i].at = s]}
    ELSE LET v == [w EXCEPT !.buf = <<NoBuffer>> \o Front(@), !.ptr = 1] IN
         IF s \notin 0 .. FsInfo THEN Result({v}, "fail")
         ELSE Io([v EXCEPT !.buf[1] = [NoBuffer EXCEPT !.at = s, !.row = v.disk.table[s]]], v)

\* fatfs_fat_read_sector: w.ptr is the buffer of sector s.  The last buffer of the list
\* is taken and becomes the first, also if it cannot be written back or filled.
Load(w, s) ==
    IF \E i \in 1 .. Buffers : w.buf[i].at = s
    THEN {[w EXCEPT !.ptr = CHOOSE i \in 1 .. Buffers : w.buf[i].at = s]}
    ELSE Then(WriteBack([w EXCEPT !.buf = <<Last(@)>> \o Front(@), !.ptr = 1], 1), LAMBDA v :
           LET u == [v EXCEPT !.buf[1].at = INVALID] IN
           IF s \notin 0 .. FsInfo THEN Result({u}, "fail")
           ELSE Io([u EXCEPT !.buf[1].at = s, !.buf[1].row = u.disk.table[s]], u))

\* fatfs_fat_purge stops at the first buffer that cannot be written.
Purge(w) == Each(Buffers, WriteBack, {w})

\* fatfs_find_next_cluster: a table that cannot be read ends the chain.
NextCluster(w, c) ==
    LET d == IF c = 0 THEN 2 ELSE c IN
    {IF v.rc = "ok" THEN [v EXCEPT !.val = v.buf[v.ptr].row[At(d)]]
     ELSE [v EXCEPT !.rc = "ok", !.val = END] : v \in Load(w, SectorOf(d))}

\* fatfs_fat_set_cluster; no caller looks at its result.
SetCluster(w, c, next) ==
    {IF v.rc = "ok" THEN [v EXCEPT !.buf[v.ptr].row[At(c)] = next, !.buf[v.ptr].dirty = TRUE]
     ELSE [v EXCEPT !.rc = "ok"] : v \in Load(w, SectorOf(c))}

\* fatfs_set_fs_info_next_free_cluster(LAST), where callers call it.
ForgetHint(w) ==
    IF w.hint = END \/ w.type = 16 THEN {w}
    ELSE UNION {IF v.rc # "ok" THEN Result({v}, "ok")
                ELSE LET u == [v EXCEPT !.hint = END, !.buf[v.ptr].at = INVALID,
                                        !.buf[v.ptr].dirty = FALSE,
                                        !.buf[v.ptr].row[1] = END] IN
                     Result(Io([u EXCEPT !.disk.table[FsInfo] = u.buf[u.ptr].row], u), "ok")
                : v \in Load(w, FsInfo)}

\* rootdir_first_cluster
RootCluster(w) == IF w.type = 16 THEN 0 ELSE 2

\* The first free cluster in sector s, unless one was found before.
SearchSector(w, s) ==
    IF w.val # END THEN {w} ELSE Then(Load(w, s), LAMBDA v :
        LET blank == {c \in s * SectorEntries .. (s + 1) * SectorEntries - 1 :
                         c >= RootCluster(v) /\ v.buf[v.ptr].row[At(c)] = FREE}
        IN  {IF blank = {} THEN v
             ELSE [v EXCEPT !.val = CHOOSE c \in blank : \A d \in blank : c <= d]})

\* fatfs_find_blank_cluster, from the cluster of the root to the end of the table: it also
\* finds entries that have no cluster.
FindBlank(w) ==
    LET from == RootCluster(w) \div SectorEntries IN
    {IF v.rc = "ok" /\ v.val = END THEN [v EXCEPT !.rc = "full", !.full = TRUE]
     ELSE [v EXCEPT !.overrun = @ \/ v.val >= Clusters[v.type]] :
        v \in Each(FatSectors - from, LAMBDA v, k : SearchSector(v, from + k - 1),
                   {[w EXCEPT !.val = END]})}

\* fatfs_free_cluster_chain
FreeLink(w) == IF w.val \in {END, FREE} THEN {w}
               ELSE UNION {SetCluster(v, w.val, FREE) : v \in NextCluster(w, w.val)}

FreeChain(w, start) == Times(Entries, FreeLink, {[w EXCEPT !.val = start]})

\* fatfs_fat_add_cluster_to_chain; w.prev is last_cluster.
Follow(w) ==
    IF w.rc # "ok" \/ w.val = END THEN {w}
    ELSE {[v EXCEPT !.prev = w.val, !.rc = IF v.val = FREE THEN "fail" ELSE "ok"] :
             v \in NextCluster(w, w.val)}

AddToChain(w, start, new) ==
    Then(Times(Entries, Follow, {[w EXCEPT !.val = start]}), LAMBDA v :
      UNION {SetCluster(u, new, END) : u \in SetCluster(v, v.prev, new)})

\* Faulty variant of AddFreeSpace: each new cluster is linked to the first end.
AddFreeSpaceToSame(w, start, n) ==
    LET AddOne(v) == Then(FindBlank(v), LAMBDA u :
            {[t EXCEPT !.prev = start, !.first = IF @ = END THEN u.val ELSE @] :
                t \in UNION {SetCluster(x, u.val, END) : x \in SetCluster(u, v.prev, u.val)}})
    IN  UNION {Times(n, LAMBDA u : Then({u}, AddOne), {[v EXCEPT !.prev = start, !.first = END]}) :
                  v \in ForgetHint(w)}

\* fatfs_add_free_space: n clusters behind start; w.first is the first of them.
AddOne(w) ==
    IF w.rc # "ok" THEN {w}
    ELSE Then(FindBlank(w), LAMBDA v :
           {[u EXCEPT !.prev = v.val, !.first = IF @ = END THEN v.val ELSE @] :
               u \in UNION {SetCluster(t, v.val, END) : t \in SetCluster(v, w.prev, v.val)}})

AddFreeSpace(w, start, n) ==
    UNION {Times(n, AddOne, {[v EXCEPT !.prev = start, !.first = END]}) : v \in ForgetHint(w)}

\* fatfs_allocate_free_space for a new file of one cluster, which all its callers ask for.
AllocateFirst(w) ==
    UNION {Then(FindBlank(v), LAMBDA u :
             {[t EXCEPT !.first = u.val] : t \in SetCluster(u, u.val, END)}) : v \in ForgetHint(w)}
-----------------------------------------------------------------------------
\* The table as the library sees it: what is buffered, over what is on the device.
Table(disk, buf) ==
    [c \in 0 .. Entries - 1 |->
        IF \E i \in 1 .. Buffers : buf[i].at = SectorOf(c)
        THEN buf[CHOOSE i \in 1 .. Buffers : buf[i].at = SectorOf(c)].row[At(c)]
        ELSE disk.table[SectorOf(c)][At(c)]]

\* The clusters of the chain from c on, cut where a cycle would begin.
Chain(table, c) ==
    FoldLeft(LAMBDA s, k :
               LET next == IF s = <<>> THEN c ELSE table[Last(s)] IN
               IF next \in {END, FREE} \/ next \in ToSet(s) THEN s ELSE Append(s, next),
             <<>>, [k \in 1 .. Entries |-> k])
=============================================================================
