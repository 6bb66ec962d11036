------------------------------ MODULE ExfatDir ------------------------------
(***************************************************************************)
(* Directories of libexfat: node.c, lookup.c, mount.c and repair.c, with   *)
(* the reads and writes of io.c below them.  The volume holds, for each    *)
(* directory, a row of entries; the memory holds a tree of nodes with      *)
(* references and dirty flags.  Any write may fail, or be the last one     *)
(* before a crash; a write that crosses clusters may be done in part.      *)
(*                                                                         *)
(* An operation maps a world (the volume, the memory, a result) to the set *)
(* of worlds it can end in: one for each place where it can fail or crash. *)
(*                                                                         *)
(* A node is named by the clusters it owns.  exfat_truncate is whole here, *)
(* it fails for lack of space, or with nothing done; ExfatCluster is about *)
(* its insides.  Sizes are in clusters, offsets in entries.                *)
(***************************************************************************)
EXTENDS Integers, FiniteSets, SequencesExt, Worlds

CONSTANTS Root, Directories, RegularFiles,  \* nodes; Root is no member of the sets
          Names, Forbidden,    \* names; those with characters not allowed
          NameEntries,         \* entries that a name takes
          Dot,                 \* the path component "."
          Paths,               \* the paths that callers use
          NoName, NIL,         \* no name, no node
          ClusterSlots,        \* entries in a cluster
          Space,               \* clusters of the volume
          MaxFaults,           \* bound on failing writes and crashes
          MaxCalls             \* bound on the calls of a history

Nodes == {Root} \cup Directories \cup RegularFiles
IsDir(n) == n \notin RegularFiles

ASSUME ExfatDirAssumption ==
    /\ Root \notin Directories \cup RegularFiles
    /\ Directories \cap RegularFiles = {}
    /\ NIL \notin Nodes
    /\ Forbidden \subseteq Names /\ NoName \notin Names /\ Dot \notin Names
    /\ NameEntries \in [Names -> 1 .. 17]
    /\ Paths \subseteq Seq(Names \cup {Dot})
    /\ ClusterSlots \in Nat \ {0} /\ Space \in Nat /\ MaxFaults \in Nat
    /\ MaxCalls \in Nat

VARIABLES
    vol,    \* data: the entries in the clusters of each node; used: the bitmap, as
            \* a number of clusters for each node; mounted: EXFAT_STATE_MOUNTED
    mem,    \* struct exfat: on, ro, repair, label; used: cmap; nodes: the tree; crossed
            \* is history: two entries have been read that name the same clusters
    abort,  \* how the last call ended the program: a crash, exfat_bug, or not
    faults, \* failing writes and crashes that may still come
    calls,  \* calls that may still come
    held,   \* nodes that callers hold, apart from the root's own reference
    failed, \* history: a write has failed
    rough   \* history: a volume was mounted that was not unmounted cleanly

vars == <<vol, mem, abort, faults, calls, held, failed, rough>>

Bugs == {"bug:negative", "bug:references", "bug:file", "bug:uncached", "bug:readonly",
         "bug:dirty", "bug:impossible", "bug:unreferenced", "bug:null"}

-----------------------------------------------------------------------------
\* Directory entries.  A deleted entry and a zero one are the same to all code here.
Slot(k, o, n, name, size) == [k |-> k, o |-> o, n |-> n, name |-> name, size |-> size]
Unused == Slot("free", NIL, 0, NoName, 0)
Special(k) == Slot(k, NIL, 0, NoName, 0)

\* The entries of a node: the first holds the number of its continuations and a
\* checksum of all that follows.
EntrySet(o, name, size) ==
    <<Slot("file", o, 1 + NameEntries[name], name, size), Slot("info", o, 0, NoName, size)>>
        \o [k \in 1 .. NameEntries[name] |-> Slot("name", NIL, k, name, 0)]

CheckEntries(s) ==
    /\ Len(s) >= 3
    /\ s[1].k = "file"
    /\ s[2].k = "info"
    /\ \A k \in 3 .. Len(s) : s[k].k = "name"

ChecksumIsRight(s) ==
    s[1].o = s[2].o /\ s[1].size = s[2].size /\ s[1].name = s[3].name

NoNode == [parent |-> NIL, off |-> 0, cont |-> 0, name |-> NoName, size |-> 0, refs |-> 0,
           dirty |-> FALSE, cached |-> FALSE, unlinked |-> FALSE, live |-> FALSE]

NodeOf(d, off, s, dirty) ==
    [NoNode EXCEPT !.parent = d, !.off = off, !.cont = s[1].n, !.name = s[3].name,
                   !.size = s[2].size, !.dirty = dirty, !.live = TRUE]

Off == [on |-> FALSE, ro |-> FALSE, repair |-> FALSE, label |-> FALSE, crossed |-> FALSE,
        used |-> [n \in Nodes |-> 0], nodes |-> [n \in Nodes |-> NoNode]]

\* A world; got, dir and off are the results that calls return through pointers.
World == [vol |-> vol, mem |-> mem, rc |-> "ok", faults |-> faults,
          got |-> NIL, dir |-> NIL, off |-> 0]

Gives(w, r) == {[w EXCEPT !.rc = r]}
Stopped(w) == w.rc = "crash" \/ w.rc \in Bugs

\* The code goes on with F whatever the call returned, and returns that.
Finally(ws, F(_)) == {IF Stopped(w) THEN w ELSE F(w) : w \in ws}

\* The code goes on with F on failure, and returns the failure all the same.
OnError(ws, F(_)) ==
    UNION {IF w.rc = "ok" \/ Stopped(w) THEN {w}
           ELSE {IF Stopped(v) THEN v ELSE [v EXCEPT !.rc = w.rc] :
                    v \in F([w EXCEPT !.rc = "ok"])} : w \in ws}

Children(w, d) == {n \in Nodes : w.mem.nodes[n].live /\ w.mem.nodes[n].parent = d}

Get(w, n) == [w EXCEPT !.mem.nodes[n].refs = @ + 1]

Put(w, n) == IF w.mem.nodes[n].refs = 0 THEN [w EXCEPT !.rc = "bug:negative"]
             ELSE [w EXCEPT !.mem.nodes[n].refs = @ - 1]

\* The reference to n is given back whatever the call returned.
PutAfter(ws, n) == Finally(ws, LAMBDA v : Put(v, n))

\* A write to the device: done, failed, or never done because of a crash.
Try(w, done) ==
    IF w.mem.ro THEN Gives(w, "EIO")
    ELSE {done} \cup (IF w.faults = 0 THEN {}
                      ELSE {[w EXCEPT !.rc = r, !.faults = @ - 1] : r \in {"EIO", "crash"}})
-----------------------------------------------------------------------------
(***************************************************************************)
(* Reading and writing entries, through exfat_generic_pread and            *)
(* exfat_generic_pwrite, and the size of a node.                           *)
(***************************************************************************)
Entries(w, d, off, n) == SubSeq(w.vol.data[d], off + 1, off + n)

Prefix(s, n) == SubSeq(s, 1, IF n < Len(s) THEN n ELSE Len(s))

\* What can be read of d: the size of the node, if its chain is as long.  The root has no
\* parent whose entries could be read, and the code does not ask.
Readable(w, d, off, n) ==
    LET x == w.mem.nodes[d] IN
    IF d = NIL THEN Gives(w, "bug:null")
    ELSE IF ~IsDir(d) THEN Gives(w, "bug:file")
    ELSE IF off >= x.size * ClusterSlots THEN Gives(w, "ENOENT")
    ELSE IF off + n > x.size * ClusterSlots \/ off + n > Len(w.vol.data[d])
    THEN Gives(w, "EIO")
    ELSE {w}

Overlay(w, d, off, s) ==
    [w EXCEPT !.vol.data[d] = [j \in DOMAIN @ |->
        IF j \in off + 1 .. off + Len(s) THEN s[j - off] ELSE @[j]]]

\* One pwrite for each cluster: of entries that cross into a second one, the first
\* part may be written alone.
WriteEntries(w, d, off, s) ==
    LET first == ClusterSlots - (off % ClusterSlots) IN
    IF Len(s) <= first
    THEN Try(w, Overlay(w, d, off, s))
    ELSE Then(Try(w, Overlay(w, d, off, SubSeq(s, 1, first))),
              LAMBDA v : Try(v, Overlay(v, d, off, s)))

\* exfat_flush writes the bitmap if it has changed.
Flush(w) ==
    IF w.mem.used = w.vol.used THEN {w} ELSE Try(w, [w EXCEPT !.vol.used = w.mem.used])

InUse(w) == FoldFunction(LAMBDA a, b : a + b, 0, w.mem.used)

\* exfat_truncate: what is added is zero; what is cut off is free.
Truncate(w, n, size) ==
    LET x    == w.mem.nodes[n]
        diff == size - x.size
        kept == IF diff > 0 THEN x.size * ClusterSlots ELSE size * ClusterSlots
    IN  IF x.refs = 0 /\ x.parent # NIL THEN Gives(w, "bug:unreferenced")
        ELSE IF diff = 0 THEN {w}
        ELSE IF InUse(w) + diff > Space THEN Gives(w, "ENOSPC")
        ELSE IF kept > Len(w.vol.data[n]) THEN Gives(w, "EIO")
        ELSE Try(w, [w EXCEPT
                 !.vol.data[n] = [j \in 1 .. size * ClusterSlots |->
                                     IF j <= kept THEN @[j] ELSE Unused],
                 !.mem.used[n] = IF @ + diff < 0 THEN 0 ELSE @ + diff,
                 !.mem.nodes[n].size = size,
                 !.mem.nodes[n].dirty = TRUE])

\* exfat_flush_node: the size and the start of the node go into its entries.
FlushNode(w, n) ==
    LET x == w.mem.nodes[n] IN
    IF ~x.dirty THEN {w}
    ELSE IF w.mem.ro THEN Gives(w, "bug:readonly")
    ELSE IF x.parent = NIL THEN {w}
    ELSE Then(Readable(w, x.parent, x.off, 1 + x.cont), LAMBDA v :
           LET s == Entries(v, x.parent, x.off, 1 + x.cont) IN
           IF ~CheckEntries(s) THEN Gives(v, "EIO")
           ELSE Then(WriteEntries(v, x.parent, x.off,
                        <<[s[1] EXCEPT !.o = n, !.size = x.size, !.name = s[3].name],
                          [s[2] EXCEPT !.o = n, !.size = x.size]>>
                          \o SubSeq(s, 3, Len(s))),
                     LAMBDA u : Flush([u EXCEPT !.mem.nodes[n].dirty = FALSE])))
-----------------------------------------------------------------------------
(***************************************************************************)
(* Reading directories: readdir, exfat_cache_directory, lookups.           *)
(***************************************************************************)
\* Where an entry is read: behind a file's entries the reading goes on after them.
Heads(s) ==
    LET reached[i \in 0 .. Len(s)] ==
          i = 0 \/ \E j \in 0 .. i - 1 :
                      /\ i = j + 1 + (IF s[j + 1].k = "file" THEN s[j + 1].n ELSE 0)
                      /\ reached[j]
    IN  {i \in 0 .. Len(s) - 1 : reached[i]}

Row(s, i) == SubSeq(Prefix(s, i + 1 + s[i + 1].n), i + 1, Len(Prefix(s, i + 1 + s[i + 1].n)))

Files(s) == {i \in Heads(s) : s[i + 1].k = "file"}

\* parse_file_entries refuses the entries at i; a wrong checksum can be repaired.
Malformed(s, i, repair) ==
    LET row == Row(s, i) IN
    \/ Len(row) < 1 + s[i + 1].n
    \/ ~CheckEntries(row)
    \/ ~repair /\ ~ChecksumIsRight(row)

\* Entries that are valid but that nobody can read: parts of a file without its head.
Unknown(s) == {i \in Heads(s) : s[i + 1].k \in {"info", "name"}}

\* exfat_fix_unknown_entry deletes each of them.
Mend(w, d, at) ==
    LET order == SetToSortSeq(at, <)
    IN  Each(Len(order), LAMBDA v, k : WriteEntries(v, d, order[k], <<Unused>>), {w})

\* exfat_cache_directory: a node for each file, or no node and an error.  Repairs
\* before the error are made in any case.  The code makes a second node for clusters that
\* have one already, which cannot be told from the first here.
CacheDirectory(w, d) ==
    LET x == w.mem.nodes[d]
        n == x.size * ClusterSlots
        s == Prefix(w.vol.data[d], n)
        bad == {i \in Files(s) : Malformed(s, i, w.mem.repair)}
                  \cup (IF w.mem.repair THEN {} ELSE Unknown(s))
        mended == {i \in Unknown(s) : w.mem.repair /\ \A j \in bad : i < j}
        At(o) == CHOOSE i \in Files(s) : s[i + 2].o = o
        found == {s[i + 2].o : i \in Files(s)}
    IN  IF x.cached THEN {w}
        ELSE IF ~IsDir(d) THEN Gives(w, "bug:file")
        ELSE Then(Mend(w, d, mended), LAMBDA v :
          IF bad # {} \/ Len(s) < n THEN Gives(v, "EIO")
          ELSE {[v EXCEPT
                  !.mem.nodes = [o \in Nodes |->
                     IF o \in found
                     THEN NodeOf(d, At(o), Row(s, At(o)), ~ChecksumIsRight(Row(s, At(o))))
                     ELSE IF o = d THEN [v.mem.nodes[o] EXCEPT !.cached = TRUE]
                     ELSE v.mem.nodes[o]],
                  !.mem.crossed = @ \/ \E o \in found \cap Nodes : v.mem.nodes[o] # NoNode,
                  !.mem.label = @ \/ \E i \in Heads(s) : s[i + 1].k = "label"]})

\* lookup_name, with exfat_opendir, exfat_readdir and exfat_closedir: the node that
\* is found carries a new reference.
LookupName(w, d, name) ==
    Then(CacheDirectory(w, d), LAMBDA v :
      LET same == {n \in Children(v, d) : v.mem.nodes[n].name = name} IN
      IF same = {} THEN Gives(v, "ENOENT")
      ELSE {[Get(v, n) EXCEPT !.got = n] : n \in same})

\* One component: the reference moves from the directory to the node.
LookupComponent(w, c) ==
    IF c = Dot THEN {w}
    ELSE PutAfter(LookupName(w, w.got, c), w.got)

\* exfat_lookup
Lookup(w, path) ==
    Each(Len(path), LAMBDA v, k : LookupComponent(v, path[k]),
         {[Get(w, Root) EXCEPT !.got = Root]})

\* exfat_split: dir is the directory of the last component, got its node or NIL.
Split(w, path) ==
    IF path = <<>> THEN Gives(w, "bug:impossible")
    ELSE Then(Lookup(w, Front(path)), LAMBDA v :
      LET d == v.got IN
      IF Last(path) = Dot THEN Gives(v, "bug:impossible")
      ELSE IF Last(path) \in Forbidden THEN {[Put(v, d) EXCEPT !.rc = "ENOENT"]}
      ELSE UNION {IF u.rc = "ok" THEN {[u EXCEPT !.dir = d]}
                  ELSE IF u.rc = "ENOENT" THEN {[u EXCEPT !.rc = "ok", !.dir = d, !.got = NIL]}
                  ELSE PutAfter({u}, d)
                  : u \in LookupName(v, d, Last(path))})
-----------------------------------------------------------------------------
(***************************************************************************)
(* Deleting: erase_node, shrink_directory, delete, exfat_cleanup_node.     *)
(***************************************************************************)
EraseNode(w, n) ==
    LET x == w.mem.nodes[n]
        d == x.parent
    IN  PutAfter(
          Then(Readable(Get(w, d), d, x.off, 1 + x.cont), LAMBDA v :
            Then(WriteEntries(v, d, x.off, [k \in 1 .. 1 + x.cont |-> Unused]),
                 LAMBDA u : FlushNode(u, d))),
          d)

Clusters(entries) == (entries + ClusterSlots - 1) \div ClusterSlots

\* shrink_directory: the entry behind the last one of this node, counted by its name.
EndOfNode(x) == x.off + 2 + NameEntries[x.name]

\* The special entries of the root do not count.
ShrinkDirectory(w, d, deleted) ==
    LET at   == {w.mem.nodes[n].off : n \in Children(w, d)}
        last == CHOOSE n \in Children(w, d) : \A o \in at : o <= w.mem.nodes[n].off
        ends == IF at = {} THEN 0 ELSE EndOfNode(w.mem.nodes[last])
    IN  IF ~w.mem.nodes[d].cached THEN Gives(w, "bug:uncached")
        ELSE IF \E o \in at : deleted < o THEN {w}
        ELSE Truncate(w, d, IF ends = 0 THEN 1 ELSE Clusters(ends))

\* delete, when the entries have been erased: the node leaves the tree.
Detach(w, n) ==
    LET d == w.mem.nodes[n].parent
        u == [w EXCEPT !.mem.nodes[n].parent = NIL, !.mem.nodes[n].unlinked = TRUE]
    IN  Then(OnError(ShrinkDirectory(u, d, w.mem.nodes[n].off),
                     LAMBDA v : FlushNode(v, d)),
             LAMBDA v : FlushNode([v EXCEPT !.mem.nodes[d].dirty = TRUE], d))

\* The root has no parent, and the code does not ask.
Delete(w, n) ==
    LET d == w.mem.nodes[n].parent IN
    IF d = NIL THEN Gives(w, "bug:null")
    ELSE PutAfter(Then(EraseNode(Get(w, d), n), LAMBDA v : Detach(v, n)), d)

Unlink(w, n) == IF IsDir(n) THEN Gives(w, "EISDIR") ELSE Delete(w, n)

MayRemove(w, n) == Children(w, n) = {}

Rmdir(w, n) ==
    IF ~IsDir(n) THEN Gives(w, "ENOTDIR")
    ELSE Then(CacheDirectory(w, n), LAMBDA v :
           IF MayRemove(v, n) THEN Delete(v, n) ELSE Gives(v, "ENOTEMPTY"))

\* exfat_cleanup_node: clusters and node are freed.
Cleanup(w, n) ==
    IF w.mem.nodes[n].refs # 0 THEN Gives(w, "bug:references")
    ELSE IF ~w.mem.nodes[n].unlinked THEN {w}
    ELSE Finally(Truncate(w, n, 0), LAMBDA v : [v EXCEPT !.mem.nodes[n] = NoNode])
-----------------------------------------------------------------------------
(***************************************************************************)
(* Creating: find_slot, commit_entry, create, exfat_mkdir.                 *)
(***************************************************************************)
\* Faulty variant of Claimed: the last entry of each node is taken for free.
ClaimedShort(w, d) ==
    UNION {w.mem.nodes[p].off .. w.mem.nodes[p].off + w.mem.nodes[p].cont - 1 :
             p \in Children(w, d)}

\* The entries of the directory's nodes; special entries have no nodes.
Claimed(w, d) ==
    UNION {w.mem.nodes[p].off .. w.mem.nodes[p].off + w.mem.nodes[p].cont :
             p \in Children(w, d)}

\* check_slot
NoSpecial(w, d, i, n) ==
    d = Root => \A k \in 1 .. n : Entries(w, d, i, n)[k].k = "free"

\* find_slot: the first n entries that nobody claims, and that hold nothing special,
\* or a new end.  Then the tail of the directory is used without looking at it.
FindSlot(w, d, n) ==
    LET size == w.mem.nodes[d].size * ClusterSlots
        busy == Claimed(w, d)
        Fits == {i \in 0 .. size - n : /\ i .. i + n - 1 \cap busy = {}
                                       /\ NoSpecial(w, d, i, n)}
        tail == CHOOSE t \in 0 .. n - 1 :
                  /\ (size - t .. size - 1) \cap busy = {}
                  /\ t = n - 1 \/ t = size \/ size - t - 1 \in busy
    IN  IF ~w.mem.nodes[d].cached THEN Gives(w, "bug:uncached")
        ELSE IF Fits # {}
        THEN {[w EXCEPT !.off = CHOOSE i \in Fits : \A j \in Fits : i <= j]}
        ELSE Truncate([w EXCEPT !.off = size - tail], d, Clusters(size + n - tail))

\* Nodes without clusters that nothing on the volume or in memory is called.
Fresh(w, kind) ==
    {o \in kind : /\ w.mem.nodes[o] = NoNode
                  /\ w.vol.data[o] = <<>> /\ w.mem.used[o] = 0
                  /\ \A d \in Nodes : \A j \in DOMAIN w.vol.data[d] : w.vol.data[d][j].o # o}

\* commit_entry: a new node at the head of the list.
CommitEntry(w, d, name, kind) ==
    UNION {Then(WriteEntries(w, d, w.off, EntrySet(o, name, 0)), LAMBDA v :
                {[v EXCEPT !.mem.nodes[o] = NodeOf(d, w.off, EntrySet(o, name, 0), FALSE)]}) :
              o \in Fresh(w, kind)}

\* Faulty variant of CreateIn: the reference to the directory is lost on failure.
CreateInLeaky(w, d, name, kind) ==
    Then(FindSlot(w, d, 2 + NameEntries[name]), LAMBDA v :
      Then(CommitEntry(v, d, name, kind), LAMBDA u :
           PutAfter(FlushNode([u EXCEPT !.mem.nodes[d].dirty = TRUE], d), d)))

CreateIn(w, d, name, kind) ==
    PutAfter(Then(FindSlot(w, d, 2 + NameEntries[name]), LAMBDA v :
               Then(CommitEntry(v, d, name, kind), LAMBDA u :
                    FlushNode([u EXCEPT !.mem.nodes[d].dirty = TRUE], d))),
             d)

\* create, of a file or of a directory.
Create(w, path, kind) ==
    Then(Split(w, path), LAMBDA v :
      IF v.got # NIL THEN {[Put(Put(v, v.got), v.dir) EXCEPT !.rc = "EEXIST"]}
      ELSE CreateIn(v, v.dir, Last(path), kind))

\* exfat_mkdir: the directory gets a cluster, or is deleted again.
Mkdir(w, path) ==
    Then(Create(w, path, Directories), LAMBDA v :
      UNION {IF u.rc # "ok" THEN (IF Stopped(u) THEN {u} ELSE {[u EXCEPT !.rc = "ok"]})
             ELSE PutAfter(OnError(Then(Truncate(u, u.got, 1), LAMBDA t : FlushNode(t, u.got)),
                                   LAMBDA t : Delete(t, u.got)),
                           u.got)
             : u \in Lookup(v, path)})
-----------------------------------------------------------------------------
(***************************************************************************)
(* exfat_rename and exfat_set_label.                                       *)
(***************************************************************************)
\* The node at its new place, under its new name.
MoveNode(w, n, d, name) ==
    [w EXCEPT !.mem.nodes[n].name = name, !.mem.nodes[n].parent = d]

\* rename_entry: the old entries are erased before the new ones are written, and the
\* node is moved in between.
RenameEntry(w, n, d, name) ==
    LET x == w.mem.nodes[n] IN
    Then(Readable(w, x.parent, x.off, 2), LAMBDA v :
      LET info == Entries(v, x.parent, x.off, 2)[2] IN
      Then(EraseNode(v, n), LAMBDA u :
        LET t == [u EXCEPT !.mem.nodes[n].off = w.off,
                           !.mem.nodes[n].cont = 1 + NameEntries[name]]
        IN  Then(WriteEntries(t, d, w.off, EntrySet(info.o, name, info.size)),
                 LAMBDA r : {MoveNode(r, n, d, name)})))

\* d and the directories it is in.
Above(w, d) ==
    LET up[k \in 0 .. Cardinality(Nodes)] ==
          IF k = 0 THEN d
          ELSE IF up[k - 1] = NIL THEN NIL ELSE w.mem.nodes[up[k - 1]].parent
    IN  {d} \cup ({up[k] : k \in 1 .. Cardinality(Nodes)} \ {NIL})

\* Faulty variant of Discard: the reference of the lookup is given back too late.
DiscardHeld(ws, n) ==
    PutAfter(Then(OnError(ws, LAMBDA v : Cleanup(v, n)), LAMBDA v : Cleanup(v, n)), n)

\* The target's clusters are freed even if its removal failed half-way.
Discard(ws, n) ==
    Then(OnError(PutAfter(ws, n), LAMBDA v : Cleanup(v, n)), LAMBDA v : Cleanup(v, n))

Replace(w, n, existing) ==
    IF existing = NIL THEN {w}
    ELSE IF existing = n THEN {Put(w, existing)}
    ELSE Discard(IF IsDir(existing)
                 THEN IF IsDir(n) THEN Rmdir(w, existing) ELSE Gives(w, "ENOTDIR")
                 ELSE IF IsDir(n) THEN Gives(w, "EISDIR") ELSE Unlink(w, existing),
                 existing)

RenameTo(w, n, name) ==
    IF IsDir(n) /\ n \in Above(w, w.dir)
    THEN {[(IF w.got = NIL THEN w ELSE Put(w, w.got)) EXCEPT !.rc = "EINVAL"]}
    ELSE Then(Replace(w, n, w.got), LAMBDA v :
           Then(FindSlot(v, w.dir, 2 + NameEntries[name]), LAMBDA u :
             Then(RenameEntry(u, n, w.dir, name), LAMBDA t : FlushNode(t, w.dir))))

Rename(w, old, new) ==
    Then(Lookup(w, old), LAMBDA v :
      LET n == v.got IN
      PutAfter(Then(Split(v, new), LAMBDA u : PutAfter(RenameTo(u, n, Last(new)), u.dir)), n))

\* exfat_set_label: in its old place, or in the first that is free.
SetLabel(w, empty) ==
    LET s  == Prefix(w.vol.data[Root], w.mem.nodes[Root].size * ClusterSlots)
        at == {i \in 0 .. Len(s) - 1 : s[i + 1].k = "label"}
        slot == IF at = {} THEN FindSlot(w, Root, 1)
                ELSE {[w EXCEPT !.off = CHOOSE i \in at : \A j \in at : i <= j]}
    IN  Then(slot, LAMBDA v :
          Then(WriteEntries(v, Root, v.off, <<IF empty THEN Unused ELSE Special("label")>>),
               LAMBDA u : {[u EXCEPT !.mem.label = ~empty]}))
-----------------------------------------------------------------------------
(***************************************************************************)
(* exfat_mount and exfat_unmount.                                          *)
(***************************************************************************)
Tree(w) == {n \in Nodes : w.mem.nodes[n].live /\ w.mem.nodes[n].parent # NIL}

\* The root is put, then reset_cache and exfat_free.
Release(w) ==
    Finally({Put(w, Root)}, LAMBDA v :
        IF \E n \in Tree(v) : v.mem.nodes[n].dirty THEN [v EXCEPT !.rc = "bug:dirty"]
        ELSE [v EXCEPT !.mem = Off])

HasSpecial(w, k) == \E j \in DOMAIN w.vol.data[Root] : w.vol.data[Root][j].k = k

\* The root's size is that of its chain; bitmap and upcase table are found in it.
Mount(w, ro, repair) ==
    LET root == [NoNode EXCEPT !.size = Len(w.vol.data[Root]) \div ClusterSlots,
                               !.refs = 1, !.live = TRUE]
        v == [w EXCEPT !.mem = [Off EXCEPT !.on = TRUE, !.ro = ro, !.repair = repair,
                                           !.used = w.vol.used, !.nodes[Root] = root]]
        prepared(u) ==
          IF ~HasSpecial(u, "bitmap") \/ ~HasSpecial(u, "upcase") THEN Gives(u, "EIO")
          ELSE IF ro THEN {u}
          ELSE Try(u, [u EXCEPT !.vol.mounted = TRUE])
    IN  OnError(Then(CacheDirectory(v, Root), prepared), Release)

\* The orders in which each of the nodes comes after those that are in it.
Upwards(w, nodes) ==
    {order \in [1 .. Cardinality(nodes) -> nodes] :
        /\ IsInjective(order)
        /\ \A i, j \in DOMAIN order : w.mem.nodes[order[i]].parent = order[j] => i < j}

\* flush_nodes: children before their directory, and no more after a failure.
FlushNodes(w) ==
    LET nodes == Tree(w) \cup {Root}
    IN  UNION {Each(Cardinality(nodes), LAMBDA v, k : FlushNode(v, order[k]), {w}) :
                 order \in Upwards(w, nodes)}

Ignoring(ws) == {IF Stopped(w) THEN w ELSE [w EXCEPT !.rc = "ok"] : w \in ws}

\* Faulty variant of Unmount: the bitmap is not written.
UnmountUnflushed(w) ==
    Then(Ignoring(FlushNodes(w)), LAMBDA u :
      Then(Release(u), LAMBDA t :
        IF w.mem.ro THEN {t} ELSE Ignoring(Try(t, [t EXCEPT !.vol.mounted = FALSE]))))

\* What fails is ignored, and the volume is marked unmounted all the same.
Unmount(w) ==
    Then(Ignoring(FlushNodes(w)), LAMBDA v :
      Then(Ignoring(Flush(v)), LAMBDA u :
        Then(Release(u), LAMBDA t :
          IF w.mem.ro THEN {t} ELSE Ignoring(Try(t, [t EXCEPT !.vol.mounted = FALSE])))))
-----------------------------------------------------------------------------
(***************************************************************************)
(* The callers: any call at any time on a mounted volume.                  *)
(***************************************************************************)
InitVolume ==
    [data |-> [n \in Nodes |->
                 IF n # Root THEN <<>>
                 ELSE [j \in 1 .. ClusterSlots |->
                         CASE j = 1 -> Special("bitmap")
                           [] j = 2 -> Special("upcase")
                           [] OTHER -> Unused]],
     used |-> [n \in Nodes |-> IF n = Root THEN 1 ELSE 0],
     mounted |-> FALSE]

Init ==
    /\ vol = InitVolume
    /\ mem = Off
    /\ abort = "none"
    /\ faults = MaxFaults
    /\ calls = MaxCalls
    /\ held = {}
    /\ failed = FALSE
    /\ rough = FALSE

\* A call ends in world w.  A crash, and an abort, lose the memory, but not its history.
EndsIn(w) ==
    /\ vol' = w.vol
    /\ abort' = IF Stopped(w) THEN w.rc ELSE "none"
    /\ mem' = IF Stopped(w) THEN [Off EXCEPT !.crossed = w.mem.crossed] ELSE w.mem
    /\ faults' = w.faults
    /\ calls > 0 /\ calls' = calls - 1
    /\ failed' = (failed \/ faults - w.faults > (IF w.rc = "crash" THEN 1 ELSE 0))

Call(ws) ==
    /\ mem.on
    /\ \E w \in ws : EndsIn(w)
    /\ held' = IF mem'.on THEN held ELSE {}
    /\ UNCHANGED rough

Change(ws) == ~mem.ro /\ Call(ws)

\* A node that nobody holds any more is cleaned up after its removal, as the comment
\* at exfat_cleanup_node demands.
PutAndClean(w, n) ==
    LET v == Put(w, n) IN
    IF Stopped(v) \/ v.mem.nodes[n].refs # 0 THEN {v}
    ELSE {IF Stopped(u) THEN u ELSE [u EXCEPT !.rc = w.rc] :
            u \in Cleanup([v EXCEPT !.rc = "ok"], n)}

RemovePath(path, Operation(_, _)) ==
    Then(Lookup(World, path), LAMBDA v :
      UNION {IF Stopped(u) THEN {u} ELSE PutAndClean(u, v.got) : u \in Operation(v, v.got)})

WithNode(path, F(_, _)) ==
    Then(Lookup(World, path), LAMBDA v :
      PutAfter(F(v, v.got), v.got))

MountVolume(ro, repair) ==
    /\ ~mem.on
    /\ \E w \in Mount(World, ro, repair) : EndsIn(w)
    /\ rough' = (rough \/ (vol.mounted /\ ~ro))
    /\ UNCHANGED held

UnmountVolume == held = {} /\ Call(Unmount(World))

CreateFile(path) == Change(Create(World, path, RegularFiles))

CreateDirectory(path) == Change(Mkdir(World, path))

UnlinkPath(path) == Change(RemovePath(path, Unlink))

RmdirPath(path) == Change(RemovePath(path, Rmdir))

RenamePath(old, new) == Change(Rename(World, old, new))

Relabel(empty) == Change(SetLabel(World, empty))

\* A file grows to a cluster, or becomes empty; its node is dirty.
Resize(path, size) ==
    Change(WithNode(path, LAMBDA v, n :
             IF IsDir(n) THEN Gives(v, "EISDIR") ELSE Truncate(v, n, size)))

\* exfat_utimes
Touch(path) == Change(WithNode(path, LAMBDA v, n : {[v EXCEPT !.mem.nodes[n].dirty = TRUE]}))

\* exfat_flush_node
Sync(path) == Change(WithNode(path, FlushNode))

\* A caller looks a node up and keeps the reference, and gives it back later.
Hold(path) ==
    /\ mem.on
    /\ held = {}
    /\ \E w \in Lookup(World, path) :
        /\ EndsIn(w)
        /\ held' = IF w.rc = "ok" THEN {w.got} ELSE {}
    /\ UNCHANGED rough

GiveBack(n) ==
    /\ mem.on
    /\ n \in held
    /\ \E w \in PutAndClean(World, n) : EndsIn(w)
    /\ held' = {}
    /\ UNCHANGED rough

Crash ==
    /\ mem.on
    /\ faults > 0
    /\ faults' = faults - 1
    /\ mem' = Off
    /\ abort' = "crash"
    /\ held' = {}
    /\ UNCHANGED <<vol, calls, failed, rough>>

Next ==
    \/ \E ro, repair \in BOOLEAN : MountVolume(ro, repair)
    \/ UnmountVolume
    \/ \E path \in Paths :
          \/ CreateFile(path) \/ CreateDirectory(path)
          \/ UnlinkPath(path) \/ RmdirPath(path)
          \/ \E new \in Paths : RenamePath(path, new)
          \/ \E size \in 0 .. 1 : Resize(path, size)
          \/ Touch(path) \/ Sync(path) \/ Hold(path)
    \/ \E empty \in BOOLEAN : Relabel(empty)
    \/ \E n \in Nodes : GiveBack(n)
    \/ Crash

Spec == Init /\ [][Next]_vars
-----------------------------------------------------------------------------
\* The row of entries of each file that can be read in d, and where it starts.
OnVolume(d) ==
    LET s == Prefix(vol.data[d], mem.nodes[d].size * ClusterSlots)
    IN  {<<i, Row(s, i)>> : i \in Files(s)}

\* exfat_cache_directory, find_slot, delete, rename: whatever the order of calls, each
\* node of a cached directory has its entries where it thinks, no entry on the volume
\* is without a node or names the clusters of another, and a node that is not dirty has
\* its size there.
TreeMatchesVolume ==
    mem.on /\ ~failed =>
    /\ ~mem.crossed
    /\ \A d \in {n \in Nodes : mem.nodes[n].cached /\ n \in Tree(World) \cup {Root}} :
        /\ {<<e[1], e[2][2].o, e[2][1].n, e[2][3].name>> : e \in OnVolume(d)}
             = {<<mem.nodes[n].off, n, mem.nodes[n].cont, mem.nodes[n].name>> :
                  n \in Children(World, d)}
        /\ \A e \in OnVolume(d) :
             /\ CheckEntries(e[2])
             /\ mem.nodes[e[2][2].o].dirty
                  \/ /\ e[2][2].size = mem.nodes[e[2][2].o].size
                     /\ ChecksumIsRight(e[2])

\* exfat_get_node, exfat_put_node: each call gives back what it took, on each of its
\* ways out; what is left is the root's reference and the callers' own.  Where two entries
\* name the same clusters the model cannot tell their nodes apart.
RefsBalanced ==
    mem.on /\ ~mem.crossed => \A n \in Nodes :
        mem.nodes[n].refs = (IF n = Root THEN 1 ELSE 0) + (IF n \in held THEN 1 ELSE 0)

\* exfat_bug: the library aborts on a removal of a node that somebody holds, on writing
\* what it has repaired on a read-only volume, on dirty nodes (see CleanMeansWhole), and
\* never otherwise: no count of references is wrong, no node without one is resized, and
\* a directory that is searched for room has been read.  A path without a last component
\* or through a file, or the root's own to a removal, is the caller's mistake.
AbortsOnlyFor ==
    [][mem.on /\ ~mem'.crossed /\ abort' \in Bugs =>
         CASE abort' = "bug:references" -> held # {}
           [] abort' = "bug:readonly" -> mem.ro /\ mem.repair
           [] OTHER -> abort' \in {"bug:dirty", "bug:file", "bug:impossible", "bug:null"}]_vars

\* Files on the volume that can be reached from the root through d's entries.
Below(d) == {vol.data[d][i + 2].o : i \in Files(vol.data[d])}

Reachable ==
    LET Step(R) == R \cup UNION {Below(d) : d \in {n \in R : IsDir(n)}}
    IN  FoldLeft(LAMBDA R, n : Step(R), {Root}, SetToSeq(Nodes))

\* The bitmap has just what the files that can be reached have, each is in one place,
\* and its size is that of its chain.
VolumeIsWhole ==
    /\ \A n \in Nodes :
          vol.used[n] = IF n \in Reachable THEN Len(vol.data[n]) \div ClusterSlots ELSE 0
    /\ \A d \in {n \in Reachable : IsDir(n)} : \A i \in Files(vol.data[d]) :
          /\ ~Malformed(vol.data[d], i, FALSE)
          /\ vol.data[d][i + 2].size * ClusterSlots = Len(vol.data[vol.data[d][i + 2].o])
          /\ \A e \in {n \in Reachable : IsDir(n)} : \A j \in Files(vol.data[e]) :
                vol.data[d][i + 2].o = vol.data[e][j + 2].o => d = e /\ i = j

\* exfat_unmount, finalize_super_block: a volume that is not marked mounted is whole,
\* after a crash at any place; an unmount finds a node that it has not written, and
\* aborts, only after a failure or a repair.
CleanMeansWhole ==
    /\ [](~vol.mounted /\ ~rough /\ ~failed => VolumeIsWhole)
    /\ [][mem.on /\ abort' = "bug:dirty" => failed' \/ mem.repair]_vars

\* check_slot: "Root directory contains entries, that don't have any nodes associated
\* with them (clusters bitmap, upper case table, label). We need to be careful not to
\* overwrite them."
LabelStays == mem.on /\ mem.label => HasSpecial(World, "label")
=============================================================================
