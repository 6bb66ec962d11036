---------------------------- MODULE ExfatCluster ----------------------------
(***************************************************************************)
(* The cluster allocator of libexfat (cluster.c): exfat_truncate with      *)
(* grow_file, shrink_file and erase_range, the bitmap of used clusters and *)
(* its flush.  Every read and write of the file allocation table is a step *)
(* of its own, because each may fail and the code returns from the middle  *)
(* of what it was doing.                                                   *)
(*                                                                         *)
(* Sizes are counted in clusters: a change of size inside the last cluster *)
(* touches no cluster and is left out.                                     *)
(***************************************************************************)
EXTENDS ExfatLayout, FiniteSets, Sequences

CONSTANTS Files,          \* the nodes that are truncated
          System,         \* clusters used by the bitmap, the root and so on
          Layouts,        \* the files the volume may hold at first
          MaxSize,        \* bound on the size of a file
          Huge,           \* bound on a walk that asks for cluster 2^32 - 1
          ReadMayFail,    \* whether exfat_pread can fail
          WriteMayFail    \* whether exfat_pwrite can fail

Elements(s) == {s[k] : k \in DOMAIN s}

\* A sound volume: the files' chains visit different clusters, none of them
\* the system's, and a file marked contiguous is a row of clusters.
Sound(layout) ==
    /\ layout \in [Files -> [chain : Seq(Clusters \ System), contiguous : BOOLEAN]]
    /\ \A f \in Files :
          /\ \A j, k \in DOMAIN layout[f].chain :
                layout[f].chain[j] = layout[f].chain[k] => j = k
          /\ layout[f].contiguous =>
                /\ layout[f].chain # <<>>
                /\ \A k \in DOMAIN layout[f].chain :
                      layout[f].chain[k] = layout[f].chain[1] + k - 1
          /\ \A g \in Files \ {f} :
                Elements(layout[f].chain) \cap Elements(layout[g].chain) = {}

ASSUME ExfatClusterAssumption ==
    /\ System \subseteq Clusters
    /\ \A layout \in Layouts :
          Sound(layout) /\ \A f \in Files : Len(layout[f].chain) <= MaxSize
    /\ MaxSize \in Nat
    /\ Huge \in Nat
    /\ ReadMayFail \in BOOLEAN
    /\ WriteMayFail \in BOOLEAN

VARIABLES
    fat,        \* the file allocation table, which is written through
    bitmap,     \* cmap.chunk: the clusters marked used, in memory
    diskBitmap, \* the bitmap stored on the volume
    cmapDirty,  \* cmap.dirty
    start, size, contiguous,   \* fields of each exfat_node
    fptrIndex, fptrCluster,    \* the cached position of each exfat_node
    pc,         \* where the running call is; "idle" between calls
    me, goal, erase,           \* arguments of exfat_truncate
    difference, allocated, previous, next,  \* locals of grow and shrink
    count, i, back,            \* locals of exfat_advance_cluster, its caller
    undo,       \* shrink_file runs to undo a growth that found no space
    erased,     \* clusters this call has overwritten with zeros
    rc,         \* result of the last call
    failed,     \* history: an input or output error has occurred
    descended,  \* history: a contiguous file was extended downwards
    skewed,     \* history: a call was made after another had failed and left
                \* a file with a size and no start, or a start and no size
    strayed     \* history: a walk went on from an invalid cluster that a walk
                \* before it had met and left as the cached position

disk   == <<fat, bitmap, diskBitmap, cmapDirty>>
nodes  == <<start, size, contiguous>>
fptr   == <<fptrIndex, fptrCluster>>
args   == <<me, goal, erase>>
locals == <<difference, allocated, previous, next>>
walk   == <<count, i, back>>
hist   == <<failed, descended, skewed, strayed>>
vars == <<disk, nodes, fptr, pc, args, locals, walk, undo, erased, rc, hist>>

\* exfat_bug aborts the program.
Bug == pc' = "bug"

\* The outcomes of a write: it succeeds or, where it may, it fails.
Writes == IF WriteMayFail THEN {TRUE, FALSE} ELSE {TRUE}

\* What exfat_next_cluster can return for cluster c of file f.  A read that
\* fails gives EXFAT_CLUSTER_BAD; so far beyond the table that c is no cluster,
\* the read gives whatever is there.
NextClusters(f, c) ==
    IF contiguous[f] THEN {c + 1}
    ELSE (IF Invalid(c) THEN FatEntry ELSE {fat[c]})
            \cup (IF ReadMayFail THEN {BAD} ELSE {})

\* The first free cluster from hint on, then from the beginning of the bitmap;
\* END when none is left.
Allocate(hint) ==
    LET free  == Clusters \ bitmap
        above == {c \in free : ~Invalid(hint) /\ c >= hint}
        First(S) == CHOOSE c \in S : \A d \in S : c <= d
    IN  IF above # {} THEN First(above)
        ELSE IF free # {} THEN First(free) ELSE END

\* Faulty variant of Take: the bit is not set.
TakeUnmarked(c) ==
    /\ cmapDirty' = TRUE
    /\ UNCHANGED bitmap

\* Faulty variant of Take: the bitmap is not marked dirty.
TakeQuietly(c) ==
    /\ bitmap' = bitmap \cup {c}
    /\ UNCHANGED cmapDirty

Take(c) ==
    /\ bitmap' = bitmap \cup {c}
    /\ cmapDirty' = TRUE

SetFptr(index, c) ==
    /\ fptrIndex' = [fptrIndex EXCEPT ![me] = index]
    /\ fptrCluster' = [fptrCluster EXCEPT ![me] = c]

\* A call returns; its locals die.  exfat_truncate reports -ENOSPC whatever
\* shrink_file returned while undoing the growth.
Return(result) ==
    /\ pc' = "idle"
    /\ rc' = IF undo THEN "ENOSPC" ELSE result
    /\ undo' = FALSE
    /\ goal' = 0 /\ erase' = FALSE /\ erased' = {}
    /\ difference' = 0 /\ allocated' = 0 /\ previous' = FREE /\ next' = FREE
    /\ count' = 0 /\ i' = 0 /\ back' = "idle"
    /\ UNCHANGED me

\* A failed read or write makes the call return -EIO.
Fail ==
    /\ Return("EIO")
    /\ failed' = TRUE
    /\ UNCHANGED <<descended, skewed, strayed>>

\* The table entry of c on a volume with this layout: a link or END along the
\* chains that use the table, FREE elsewhere.
Link(layout, c) ==
    LET Here == {h \in UNION {{f} \X DOMAIN layout[f].chain : f \in Files} :
                   /\ ~layout[h[1]].contiguous
                   /\ layout[h[1]].chain[h[2]] = c}
    IN  IF Here = {} THEN FREE
        ELSE LET p == CHOOSE h \in Here : TRUE
                 chain == layout[p[1]].chain
             IN  IF p[2] = Len(chain) THEN END ELSE chain[p[2] + 1]

Init ==
    \E layout \in Layouts :
        /\ fat = [c \in Clusters |-> Link(layout, c)]
        /\ bitmap = System \cup UNION {Elements(layout[f].chain) : f \in Files}
        /\ diskBitmap = bitmap
        /\ cmapDirty = FALSE
        /\ start = [f \in Files |-> IF layout[f].chain = <<>> THEN FREE
                                     ELSE layout[f].chain[1]]
        /\ size = [f \in Files |-> Len(layout[f].chain)]
        /\ contiguous = [f \in Files |-> layout[f].contiguous]
        /\ fptrIndex = [f \in Files |-> 0]
        /\ fptrCluster = start
        /\ pc = "idle"
        /\ me \in Files
        /\ goal = 0 /\ erase = FALSE /\ erased = {}
        /\ difference = 0 /\ allocated = 0 /\ previous = FREE /\ next = FREE
        /\ count = 0 /\ i = 0 /\ back = "idle"
        /\ undo = FALSE
        /\ rc = "ok"
        /\ failed = FALSE
        /\ descended = FALSE
        /\ skewed = FALSE
        /\ strayed = FALSE

-----------------------------------------------------------------------------
(***************************************************************************)
(* exfat_advance_cluster(f, target), on behalf of the code at label to.    *)
(* The result is fptrCluster[f].  exfat_next_cluster aborts on cluster 0,  *)
(* as grow_file does on a first cluster for a file with a cached position: *)
(* GuardsHold says that it never comes to that, and Advance and GrowFirst  *)
(* have the contrary for a guard.                                          *)
(***************************************************************************)
CallAdvance(f, target, to) ==
    /\ pc' = "advance"
    /\ count' = target
    /\ back' = to
    /\ IF fptrIndex[f] > target
       THEN /\ i' = 0
            /\ fptrIndex' = [fptrIndex EXCEPT ![f] = 0]
            /\ fptrCluster' = [fptrCluster EXCEPT ![f] = start[f]]
       ELSE /\ i' = fptrIndex[f]
            /\ UNCHANGED fptr

AdvanceEnds ==
    /\ pc' = back
    /\ count' = 0 /\ i' = 0 /\ back' = "idle"

AdvanceRest == <<disk, nodes, args, locals, undo, erased, rc, descended, skewed>>

Advance ==
    /\ pc = "advance"
    /\ i < count
    /\ fptrCluster[me] # FREE
    /\ \E c \in NextClusters(me, fptrCluster[me]) :
         /\ IF Invalid(c)
            THEN SetFptr(count, c) /\ AdvanceEnds
            ELSE SetFptr(fptrIndex[me], c) /\ i' = i + 1 /\ UNCHANGED <<pc, count, back>>
         /\ failed' = (failed \/ (c = BAD /\ ~contiguous[me]))
    /\ strayed' = (strayed \/ Invalid(fptrCluster[me]))
    /\ UNCHANGED AdvanceRest

AdvanceDone ==
    /\ pc = "advance"
    /\ i >= count
    /\ SetFptr(count, fptrCluster[me])
    /\ AdvanceEnds
    /\ UNCHANGED <<AdvanceRest, failed, strayed>>

-----------------------------------------------------------------------------
(***************************************************************************)
(* exfat_truncate(f, n, e) and grow_file.                                  *)
(***************************************************************************)
Skew == \E f \in Files : (size[f] = 0) # (start[f] = FREE)

Called ==
    /\ skewed' = (skewed \/ Skew)
    /\ UNCHANGED <<failed, descended, strayed>>

Enter(f, n, e) ==
    /\ pc = "idle"
    /\ Called
    /\ me' = f
    /\ goal' = n
    /\ erase' = e

\* The file has clusters: find the last one.  For a file of size 0 the index
\* current - 1 wraps to 2^32 - 1.
GrowMore(f, n, e) ==
    /\ Enter(f, n, e)
    /\ size[f] < n
    /\ start[f] # FREE
    /\ difference' = n - size[f]
    /\ CallAdvance(f, IF size[f] = 0 THEN Huge ELSE size[f] - 1, "grow")
    /\ UNCHANGED <<disk, nodes, allocated, previous, next, undo, erased, rc>>

\* The file has none: allocate the first one.
GrowFirst(f, n, e) ==
    /\ pc = "idle"
    /\ size[f] < n
    /\ start[f] = FREE
    /\ fptrIndex[f] = 0
    /\ LET c == Allocate(FREE) IN
         IF Invalid(c)
         THEN /\ me' = f
              /\ Called
              /\ rc' = "ENOSPC"
              /\ UNCHANGED <<disk, nodes, fptr, pc, goal, erase, locals, walk, undo,
                             erased>>
         ELSE /\ Enter(f, n, e)
              /\ Take(c)
              /\ start' = [start EXCEPT ![f] = c]
              /\ fptrCluster' = [fptrCluster EXCEPT ![f] = c]
              /\ contiguous' = [contiguous EXCEPT ![f] = TRUE]
              /\ difference' = n - size[f]
              /\ allocated' = 1
              /\ previous' = c
              /\ pc' = "growloop"
              /\ UNCHANGED <<fat, diskBitmap, size, fptrIndex, next, walk, undo, erased,
                             rc>>

GrowFrom ==
    /\ pc = "grow"
    /\ IF Invalid(fptrCluster[me])
       THEN Return("EIO")
       ELSE /\ previous' = fptrCluster[me]
            /\ pc' = "growloop"
            /\ UNCHANGED <<args, difference, allocated, next, walk, undo, erased, rc>>
    /\ UNCHANGED <<disk, nodes, fptr, hist>>

\* One more cluster, after the previous one if possible.  The test that should
\* recognise it as the next in a row compares it with previous - 1.
AllocateNext ==
    /\ pc = "growloop"
    /\ allocated < difference
    /\ LET c == Allocate(previous + 1) IN
         /\ ~Invalid(c)
         /\ Take(c)
         /\ next' = c
         /\ IF contiguous[me] /\ c # previous - 1
            THEN pc' = "noncontiguous" /\ i' = start[me]
            ELSE pc' = "link" /\ UNCHANGED i
    /\ UNCHANGED <<fat, diskBitmap, nodes, fptr, args, difference, allocated, previous,
                   count, back, undo, erased, rc, hist>>

\* make_noncontiguous writes one entry of the table; i is its loop variable.
MakeNoncontiguous ==
    /\ pc = "noncontiguous"
    /\ i < previous
    /\ \E ok \in Writes :
         IF ok
         THEN /\ fat' = [fat EXCEPT ![i] = i + 1]
              /\ i' = i + 1
              /\ UNCHANGED <<pc, args, locals, count, back, undo, erased, rc, hist>>
         ELSE Fail /\ UNCHANGED fat
    /\ UNCHANGED <<bitmap, diskBitmap, cmapDirty, nodes, fptr>>

MadeNoncontiguous ==
    /\ pc = "noncontiguous"
    /\ i >= previous
    /\ contiguous' = [contiguous EXCEPT ![me] = FALSE]
    /\ pc' = "link"
    /\ i' = 0
    /\ UNCHANGED <<disk, start, size, fptr, args, locals, count, back, undo, erased, rc,
                   hist>>

\* Faulty variant of Linked: the previous cluster stays the same.
LinkedToSame ==
    /\ allocated' = allocated + 1
    /\ next' = FREE
    /\ pc' = "growloop"
    /\ UNCHANGED <<args, difference, previous, walk, undo, erased, rc, hist>>

Linked ==
    /\ previous' = next
    /\ allocated' = allocated + 1
    /\ next' = FREE
    /\ pc' = "growloop"
    /\ descended' = (descended \/ (contiguous[me] /\ next < previous))
    /\ UNCHANGED <<args, difference, walk, undo, erased, rc, failed, skewed, strayed>>

LinkNext ==
    /\ pc = "link"
    /\ \/ contiguous[me] /\ Linked /\ UNCHANGED fat
       \/ /\ ~contiguous[me]
          /\ \E ok \in Writes :
               IF ok THEN Linked /\ fat' = [fat EXCEPT ![previous] = next]
                     ELSE Fail /\ UNCHANGED fat
    /\ UNCHANGED <<bitmap, diskBitmap, cmapDirty, nodes, fptr>>

\* exfat_truncate finishes: the new size is stored.
Finish ==
    /\ size' = [size EXCEPT ![me] = goal]
    /\ Return("ok")

\* The last cluster is marked; erase_range comes next, or the end.
AfterGrowth ==
    IF erase
    THEN /\ CallAdvance(me, size[me], "erase")
         /\ UNCHANGED <<size, args, locals, undo, erased, rc>>
    ELSE Finish /\ UNCHANGED fptr

GrowEnd ==
    /\ pc = "growloop"
    /\ allocated >= difference
    /\ \/ contiguous[me] /\ AfterGrowth /\ UNCHANGED <<fat, failed>>
       \/ /\ ~contiguous[me]
          /\ \E ok \in Writes :
               IF ok THEN /\ fat' = [fat EXCEPT ![previous] = END]
                          /\ AfterGrowth
                          /\ UNCHANGED failed
               ELSE Return("EIO") /\ failed' = TRUE /\ UNCHANGED <<fat, size, fptr>>
    /\ UNCHANGED <<bitmap, diskBitmap, cmapDirty, start, contiguous, descended, skewed,
                   strayed>>
-----------------------------------------------------------------------------
(***************************************************************************)
(* shrink_file: on behalf of exfat_truncate, or of grow_file to give back  *)
(* what it allocated when the volume is full.  In the loop that frees,     *)
(* difference counts the clusters that are left to free.                   *)
(***************************************************************************)
\* Faulty variant of RewindEmpty: the cached position stays.
RewindForgotten(f) == UNCHANGED fptr

\* No position is cached for the empty file.
RewindEmpty(f) ==
    /\ fptrIndex' = [fptrIndex EXCEPT ![f] = 0]
    /\ fptrCluster' = [fptrCluster EXCEPT ![f] = FREE]

\* Faulty variant of LastKept: one cluster too few is kept.
CropsOneMore(current, amount) == current - amount - 2

\* The position of the last cluster that stays.
LastKept(current, amount) == current - amount - 1

Crop(f, current, amount) ==
    /\ start[f] # FREE
    /\ difference' = amount
    /\ next' = FREE
    /\ \/ /\ current > amount
          /\ CallAdvance(f, LastKept(current, amount), "crop")
          /\ UNCHANGED <<start, previous>>
       \/ /\ current <= amount
          /\ previous' = start[f]
          /\ start' = [start EXCEPT ![f] = FREE]
          /\ RewindEmpty(f)
          /\ pc' = "free"
          /\ UNCHANGED walk
    /\ UNCHANGED <<disk, size, contiguous, erased, rc>>

Shrink(f, n, e) ==
    /\ Enter(f, n, e)
    /\ n < size[f]
    /\ Crop(f, size[f], size[f] - n)
    /\ UNCHANGED <<allocated, undo>>

\* exfat_bug("unable to shrink empty file").
ShrinkBug(f, n) ==
    /\ pc = "idle"
    /\ n < size[f]
    /\ start[f] = FREE
    /\ me' = f
    /\ Called
    /\ Bug
    /\ UNCHANGED <<disk, nodes, fptr, goal, erase, locals, walk, undo, erased, rc>>

\* Faulty variant of Undo: what was allocated stays.
NoUndo ==
    /\ Return("ENOSPC")
    /\ UNCHANGED <<disk, nodes, fptr, hist>>

\* Give back what was allocated.
Undo ==
    /\ undo' = TRUE
    /\ Crop(me, size[me] + allocated, allocated)
    /\ UNCHANGED <<args, allocated, hist>>

NoSpace ==
    /\ pc = "growloop"
    /\ allocated < difference
    /\ Invalid(Allocate(previous + 1))
    /\ \/ /\ allocated = 0
          /\ Return("ENOSPC")
          /\ UNCHANGED <<disk, nodes, fptr, hist>>
       \/ /\ allocated # 0
          /\ Undo

\* The last cluster that stays has been found; what follows it is to be freed.
CropAt ==
    /\ pc = "crop"
    /\ \/ /\ Invalid(fptrCluster[me])
          /\ Return("EIO")
          /\ UNCHANGED <<fat, fptr, failed>>
       \/ /\ ~Invalid(fptrCluster[me])
          /\ \E c \in NextClusters(me, fptrCluster[me]),
               ok \in IF contiguous[me] THEN {TRUE} ELSE Writes :
               IF ok
               THEN /\ fat' = IF contiguous[me] THEN fat
                              ELSE [fat EXCEPT ![fptrCluster[me]] = END]
                    /\ previous' = c
                    /\ SetFptr(0, start[me])
                    /\ pc' = "free"
                    /\ failed' = (failed \/ c = BAD)
                    /\ UNCHANGED <<args, difference, allocated, next, walk, undo, erased,
                                   rc>>
               ELSE /\ Return("EIO")
                    /\ failed' = TRUE
                    /\ UNCHANGED <<fat, fptr>>
    /\ UNCHANGED <<bitmap, diskBitmap, cmapDirty, nodes, descended, skewed, strayed>>

\* Faulty variant of Freed: the loop does not move on.
FreedAgain(c) == UNCHANGED <<previous, difference>>

\* One cluster is freed; c follows.
Freed(c) ==
    /\ previous' = c
    /\ difference' = difference - 1

FreeNext ==
    /\ pc = "free"
    /\ difference > 0
    /\ ~Invalid(previous)
    /\ \E c \in NextClusters(me, previous),
         ok \in IF contiguous[me] THEN {TRUE} ELSE Writes :
         IF ok
         THEN /\ fat' = IF contiguous[me] THEN fat ELSE [fat EXCEPT ![previous] = FREE]
              /\ bitmap' = bitmap \ {previous}
              /\ cmapDirty' = TRUE
              /\ Freed(c)
              /\ failed' = (failed \/ c = BAD)
              /\ UNCHANGED <<pc, args, allocated, next, walk, undo, erased, rc>>
         ELSE /\ Return("EIO")
              /\ failed' = TRUE
              /\ UNCHANGED <<fat, bitmap, cmapDirty>>
    /\ UNCHANGED <<diskBitmap, nodes, fptr, descended, skewed, strayed>>

FreeInvalid ==
    /\ pc = "free"
    /\ difference > 0
    /\ Invalid(previous)
    /\ Return("EIO")
    /\ UNCHANGED <<disk, nodes, fptr, hist>>

FreeDone ==
    /\ pc = "free"
    /\ difference = 0
    /\ IF undo THEN Return("ENOSPC") /\ UNCHANGED size ELSE Finish
    /\ UNCHANGED <<disk, start, contiguous, fptr, hist>>

-----------------------------------------------------------------------------
(***************************************************************************)
(* erase_range over the new clusters.  next is its local cluster, allocated*)
(* its progress: the number of clusters the file has up to next.           *)
(***************************************************************************)
Zero(c) ==
    /\ erased' = erased \cup {c}
    /\ next' = c

EraseFirst ==
    /\ pc = "erase"
    /\ \/ /\ Invalid(fptrCluster[me])
          /\ Return("EIO")
          /\ UNCHANGED failed
       \/ /\ ~Invalid(fptrCluster[me])
          /\ \E ok \in Writes :
               IF ok
               THEN /\ Zero(fptrCluster[me])
                    /\ allocated' = size[me] + 1
                    /\ pc' = "eraseloop"
                    /\ UNCHANGED <<args, difference, previous, walk, undo, rc, failed>>
               ELSE Return("EIO") /\ failed' = TRUE
    /\ UNCHANGED <<disk, nodes, fptr, descended, skewed, strayed>>

\* Faulty variant of MoreToErase: the last cluster is left out.
MoreToEraseShort == allocated < goal - 1

\* Clusters that this call has added and not zeroed.
MoreToErase == allocated < goal

EraseNext ==
    /\ pc = "eraseloop"
    /\ MoreToErase
    /\ \E c \in NextClusters(me, next), ok \in Writes :
         \/ /\ Invalid(c)
            /\ Bug
            /\ failed' = (failed \/ c = BAD)
            /\ UNCHANGED <<args, locals, walk, undo, erased, rc>>
         \/ /\ ~Invalid(c)
            /\ IF ok
               THEN /\ Zero(c)
                    /\ allocated' = allocated + 1
                    /\ UNCHANGED <<pc, args, difference, previous, walk, undo, rc, failed>>
               ELSE Return("EIO") /\ failed' = TRUE
    /\ UNCHANGED <<disk, nodes, fptr, descended, skewed, strayed>>

EraseDone ==
    /\ pc = "eraseloop"
    /\ ~MoreToErase
    /\ Finish
    /\ UNCHANGED <<disk, start, contiguous, fptr, hist>>

-----------------------------------------------------------------------------
\* exfat_flush writes the bitmap if it has changed.
Flush ==
    /\ pc = "idle"
    /\ cmapDirty
    /\ \E ok \in Writes :
         IF ok
         THEN /\ diskBitmap' = bitmap
              /\ cmapDirty' = FALSE
              /\ rc' = "ok"
              /\ UNCHANGED failed
         ELSE /\ rc' = "EIO"
              /\ failed' = TRUE
              /\ UNCHANGED <<diskBitmap, cmapDirty>>
    /\ UNCHANGED <<fat, bitmap, nodes, fptr, pc, args, locals, walk, undo, erased,
                   descended, skewed, strayed>>

Call(f, n, e) ==
    \/ GrowMore(f, n, e)
    \/ GrowFirst(f, n, e)
    \/ Shrink(f, n, e)
    \/ ShrinkBug(f, n)

\* The call that is running takes its next step.
Step ==
    \/ Advance \/ AdvanceDone
    \/ GrowFrom \/ AllocateNext \/ NoSpace
    \/ MakeNoncontiguous \/ MadeNoncontiguous \/ LinkNext \/ GrowEnd
    \/ CropAt \/ FreeNext \/ FreeInvalid \/ FreeDone
    \/ EraseFirst \/ EraseNext \/ EraseDone

Next ==
    \/ \E f \in Files, n \in 0 .. MaxSize, e \in BOOLEAN : Call(f, n, e)
    \/ Step
    \/ Flush

\* A call that has begun runs on; nobody has to call.
Spec == Init /\ [][Next]_vars /\ WF_vars(Step)
-----------------------------------------------------------------------------
\* Fields, locals and history variables keep their types: a start is a cluster or
\* FREE, the cached position may be any number (a failed walk leaves BAD there).
TypeOK ==
    /\ fat \in [Clusters -> FatEntry]
    /\ bitmap \subseteq Clusters
    /\ diskBitmap \subseteq Clusters
    /\ cmapDirty \in BOOLEAN
    /\ start \in [Files -> Clusters \cup {FREE}]
    /\ size \in [Files -> 0 .. MaxSize]
    /\ contiguous \in [Files -> BOOLEAN]
    /\ fptrIndex \in [Files -> Nat] /\ fptrCluster \in [Files -> Int]
    /\ pc \in {"idle", "bug", "advance", "grow", "growloop", "noncontiguous", "link",
                "crop", "free", "erase", "eraseloop"}
    /\ me \in Files /\ goal \in 0 .. MaxSize /\ erase \in BOOLEAN
    /\ difference \in Nat /\ allocated \in Nat
    /\ previous \in Int /\ next \in Clusters \cup {FREE}
    /\ count \in Nat /\ i \in Nat /\ back \in {"idle", "grow", "crop", "erase"}
    /\ undo \in BOOLEAN
    /\ erased \subseteq Clusters
    /\ rc \in {"ok", "EIO", "ENOSPC"}
    /\ failed \in BOOLEAN /\ descended \in BOOLEAN
    /\ skewed \in BOOLEAN /\ strayed \in BOOLEAN

\* The n-th cluster of f, as exfat_advance_cluster finds it from the start.
ChainAt(f, n) == ChainFrom(fat, contiguous[f], start[f])[n]

\* The clusters a reader of f visits before its size or a bad link stops it.
Chain(f) == {ChainAt(f, k) : k \in 0 .. size[f] - 1} \cap Clusters

\* Nothing that is known to break the allocator has happened.
Unharmed == ~descended /\ ~skewed /\ ~strayed

\* exfat_truncate: whatever the calls and the failures, no two files share a
\* cluster, none uses the system's, and what a file uses is marked used, so that
\* nobody is given it.
NoCrossLink ==
    pc = "idle" /\ Unharmed =>
        /\ System \subseteq bitmap
        /\ \A f \in Files :
            /\ Chain(f) \subseteq bitmap \ System
            /\ \A g \in Files \ {f} : Chain(f) \cap Chain(g) = {}

\* exfat_truncate: as long as reads and writes succeed, each file has a chain of
\* exactly its size, a chain in the table is terminated, and what no file has is
\* free: also after shrink_file has undone a growth for lack of space.
NoLeak ==
    pc = "idle" /\ Unharmed /\ ~failed =>
        /\ \A f \in Files :
              /\ \A k \in 0 .. size[f] - 1 : ~Invalid(ChainAt(f, k))
              /\ Cardinality(Chain(f)) = size[f]
              /\ size[f] > 0 /\ ~contiguous[f] => ChainAt(f, size[f]) = END
              /\ size[f] = 0 => start[f] = FREE
        /\ bitmap = System \cup UNION {Chain(f) : f \in Files}

\* exfat_advance_cluster: the cached position of a file is right whatever was cut
\* off, appended or converted since it was taken.
FptrCoherent ==
    pc = "idle" /\ Unharmed /\ ~failed =>
        \A f \in Files :
            /\ size[f] > 0 => fptrIndex[f] < size[f]
            /\ fptrCluster[f] = ChainAt(f, fptrIndex[f])

\* exfat_bug is for states the library takes for impossible: none is reached while
\* reads and writes succeed.
NeverBug == Unharmed /\ ~failed => pc # "bug"

\* exfat_next_cluster, grow_file: even after failures nobody asks for what follows
\* cluster 0, and a file without a start has no cached position.
GuardsHold ==
    /\ Unharmed /\ pc = "advance" /\ i < count => fptrCluster[me] # FREE
    /\ \A f \in Files : pc = "idle" /\ start[f] = FREE => fptrIndex[f] = 0

\* exfat_flush: when the bitmap is not dirty the volume holds this very bitmap.
CleanBitmapIsSaved == ~cmapDirty => diskBitmap = bitmap

\* The part of f that the running call does not give up.
Kept(f) == IF f = me /\ pc # "idle" THEN MinOf(goal, size[f]) ELSE size[f]

\* exfat_truncate of one file: no step ever moves a cluster that another file, or
\* the same file under its new size, still holds; not even a step that fails.
ContentsStay ==
    [][Unharmed' =>
         \A f \in Files : \A k \in 0 .. MinOf(Kept(f), Kept(f)') - 1 :
            ~Invalid(ChainAt(f, k)) => ChainAt(f, k)' = ChainAt(f, k)]_vars

\* erase_range: a growth that asked for zeros and reports success has zeroed every
\* cluster it added.
GrownIsZero ==
    [][pc # "idle" /\ pc' = "idle" /\ erase /\ goal > size[me] /\ rc' = "ok" /\ Unharmed =>
         \A k \in size[me] .. goal - 1 : ChainAt(me, k)' \in erased]_vars

\* A call returns or aborts: no walk of a chain and no loop goes on for ever.
CallsEnd == pc # "idle" ~> pc \in {"idle", "bug"}

\* node.c, check_node: "Empty file must have zero start cluster. Non-empty file must
\* start with a valid cluster."
StartFitsSize == pc = "idle" => ~Skew

\* grow_file: "it's a pity, but we are not able to keep the file contiguous anymore"
\* is said of a new cluster that does not follow the previous one, and of no other.
ContiguousIfInARow ==
    [][pc = "growloop" /\ pc' \in {"link", "noncontiguous"} /\ contiguous[me] =>
         (pc' = "link" <=> next' = previous + 1)]_vars
=============================================================================
