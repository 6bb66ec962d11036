------------------------ MODULE ExfatCluster_proofs ------------------------
(***************************************************************************)
(* Proofs about the cluster allocator, for every volume, every number of   *)
(* files and clusters, and every sequence of calls: its types and labels,  *)
(* then its files, whatever fails, and last the bitmap while nothing does. *)
(***************************************************************************)
EXTENDS ExfatCluster, ExfatLayout_proofs, FiniteSetTheorems, TLAPS

\* grow_file's loop is running.
Growing == pc \in {"growloop", "noncontiguous", "link"}

\* What is true of the control and the locals whatever has happened.
Control ==
    /\ pc = "idle" => ~undo /\ allocated = 0
    /\ pc \notin {"idle", "bug", "free"} => start[me] \in Clusters
    /\ Growing => previous \in Clusters
    /\ pc \in {"noncontiguous", "link", "eraseloop"} => next \in Clusters
    /\ pc = "noncontiguous" => i >= start[me]
    /\ pc = "advance" => back \in {"grow", "crop", "erase"}
    /\ \A f \in Files : start[f] = FREE => fptrIndex[f] = 0
    /\ pc = "free" => fptrIndex[me] = 0 /\ fptrCluster[me] = start[me]
-----------------------------------------------------------------------------
(***************************************************************************)
(* Types.                                                                  *)
(***************************************************************************)
\* The volume has a size, and its table, its files and the bounds have their types.
LEMMA Constants ==
    /\ ClusterCount \in Nat \ {0} /\ System \subseteq Clusters
    /\ MaxSize \in Nat /\ Huge \in Nat
    /\ \A c \in Clusters : c \in Nat /\ c >= 2 /\ c \in FatEntry
    /\ FREE \notin Clusters /\ END \notin Clusters /\ BAD \notin Clusters
    /\ FREE \in FatEntry /\ END \in FatEntry /\ BAD \in FatEntry
    /\ \A c \in FatEntry : c \in Int
<1>1. ClusterCount \in Nat \ {0}
  BY ClusterCountAssumption
<1>2. System \subseteq Clusters /\ MaxSize \in Nat /\ Huge \in Nat
  BY ExfatClusterAssumption
<1>3. \A c \in Clusters : c \in Nat /\ c >= 2 /\ c \in FatEntry
  BY <1>1 DEF Clusters, FIRST_DATA_CLUSTER, LastCluster, FatEntry
<1>4. FREE \notin Clusters /\ END \notin Clusters /\ BAD \notin Clusters
  BY DEF Clusters, FIRST_DATA_CLUSTER, LastCluster, FREE, END, BAD
<1>5. FREE \in FatEntry /\ END \in FatEntry /\ BAD \in FatEntry
  BY DEF FatEntry
<1>6. \A c \in FatEntry : c \in Int
  BY <1>3 DEF FatEntry, FREE, END, BAD
<1> QED BY <1>1, <1>2, <1>3, <1>4, <1>5, <1>6

\* A set of clusters has a first one.
LEMMA FirstExists ==
    ASSUME NEW S, S \subseteq Clusters, S # {}
    PROVE  (CHOOSE c \in S : \A d \in S : c <= d) \in S
<1>1. S \subseteq Nat
  BY Constants
<1>2. \E c \in S : \A d \in S : c <= d
  BY <1>1, Nats!LeastExists
<1> QED BY <1>2, Zenon

\* Allocate gives a free cluster, or none.
LEMMA AllocateFree ==
    ASSUME NEW hint \in Int
    PROVE  \/ Allocate(hint) = END
           \/ Allocate(hint) \in Clusters /\ Allocate(hint) \notin bitmap
<1> DEFINE free  == Clusters \ bitmap
           above == {c \in free : ~Invalid(hint) /\ c >= hint}
           First(S) == CHOOSE c \in S : \A d \in S : c <= d
<1>1. Allocate(hint) = IF above # {} THEN First(above)
                       ELSE IF free # {} THEN First(free) ELSE END
  BY DEF Allocate
<1>2. above # {} => First(above) \in above
  <2>1. above \subseteq Clusters
    OBVIOUS
  <2> HIDE DEF above
  <2> QED BY <2>1, FirstExists
<1>3. free # {} => First(free) \in free
  <2>1. free \subseteq Clusters
    OBVIOUS
  <2> HIDE DEF free
  <2> QED BY <2>1, FirstExists
<1> HIDE DEF First
<1> QED BY <1>1, <1>2, <1>3

\* What follows a cluster, or what stands for it, is a number.
LEMMA NextType ==
    ASSUME TypeOK, NEW f \in Files, NEW c \in Int, NEW d \in NextClusters(f, c)
    PROVE  d \in Int
<1>1. ~contiguous[f] /\ ~Invalid(c) => fat[c] \in FatEntry
  BY DEF TypeOK, Invalid
<1>2. d = c + 1 \/ d \in FatEntry
  BY <1>1, Constants DEF NextClusters
<1>3. c + 1 \in Int
  OBVIOUS
<1> QED BY <1>2, <1>3, Constants

TypeFlags ==
    /\ cmapDirty \in BOOLEAN /\ erase \in BOOLEAN /\ undo \in BOOLEAN
    /\ failed \in BOOLEAN /\ descended \in BOOLEAN /\ skewed \in BOOLEAN
    /\ strayed \in BOOLEAN

TypeVolume ==
    /\ fat \in [Clusters -> FatEntry]
    /\ bitmap \subseteq Clusters /\ diskBitmap \subseteq Clusters
    /\ erased \subseteq Clusters

TypeNodes ==
    /\ start \in [Files -> Clusters \cup {FREE}]
    /\ size \in [Files -> 0 .. MaxSize]
    /\ contiguous \in [Files -> BOOLEAN]
    /\ fptrIndex \in [Files -> Nat] /\ fptrCluster \in [Files -> Int]

TypeCall ==
    /\ pc \in {"idle", "bug", "advance", "grow", "growloop", "noncontiguous", "link",
                "crop", "free", "erase", "eraseloop"}
    /\ me \in Files /\ goal \in 0 .. MaxSize
    /\ difference \in Nat /\ allocated \in Nat
    /\ previous \in Int /\ next \in Clusters \cup {FREE}
    /\ count \in Nat /\ i \in Nat /\ back \in {"idle", "grow", "crop", "erase"}
    /\ rc \in {"ok", "EIO", "ENOSPC"}

LEMMA TypeParts == TypeOK <=> TypeFlags /\ TypeVolume /\ TypeNodes /\ TypeCall
BY Zenon DEF TypeOK, TypeFlags, TypeVolume, TypeNodes, TypeCall

-----------------------------------------------------------------------------
(***************************************************************************)
(* What the steps that may fail come to: the call gives up and leaves the  *)
(* volume and the files as they are, or it does what it is there for.      *)
(***************************************************************************)
GaveUp ==
    /\ Return("EIO")
    /\ failed' \in {failed, TRUE}
    /\ UNCHANGED <<disk, nodes, fptr, descended, skewed, strayed>>

\* make_noncontiguous wrote an entry.
EntryWritten ==
    /\ fat' = [fat EXCEPT ![i] = i + 1]
    /\ i' = i + 1
    /\ UNCHANGED <<bitmap, diskBitmap, cmapDirty, nodes, fptr, pc, args, locals, count,
                   back, undo, erased, rc, hist>>

\* grow_file linked the cluster that was allocated last.
NextLinked ==
    /\ Linked
    /\ fat' = IF contiguous[me] THEN fat ELSE [fat EXCEPT ![previous] = next]
    /\ UNCHANGED <<bitmap, diskBitmap, cmapDirty, nodes, fptr>>

\* grow_file marked the last cluster.
EndMarked ==
    /\ fat' = IF contiguous[me] THEN fat ELSE [fat EXCEPT ![previous] = END]
    /\ UNCHANGED <<bitmap, diskBitmap, cmapDirty, start, contiguous, hist>>

\* shrink_file cut the chain before cluster c.
Cut(c) ==
    /\ fat' = IF contiguous[me] THEN fat ELSE [fat EXCEPT ![fptrCluster[me]] = END]
    /\ previous' = c
    /\ SetFptr(0, start[me])
    /\ pc' = "free"
    /\ failed' = (failed \/ c = BAD)
    /\ UNCHANGED <<bitmap, diskBitmap, cmapDirty, nodes, args, difference, allocated, next,
                   walk, undo, erased, rc, descended, skewed, strayed>>

\* shrink_file freed a cluster before cluster c.
Released(c) ==
    /\ fat' = IF contiguous[me] THEN fat ELSE [fat EXCEPT ![previous] = FREE]
    /\ bitmap' = bitmap \ {previous}
    /\ cmapDirty' = TRUE
    /\ Freed(c)
    /\ failed' = (failed \/ c = BAD)
    /\ UNCHANGED <<diskBitmap, nodes, fptr, pc, args, allocated, next, walk, undo, erased,
                   rc, descended, skewed, strayed>>

\* erase_range zeroed cluster c, with n clusters of the file done.
Zeroed(c, n) ==
    /\ Zero(c)
    /\ allocated' = n
    /\ pc' = "eraseloop"
    /\ UNCHANGED <<disk, nodes, fptr, args, difference, previous, walk, undo, rc, hist>>

\* exfat_bug.
Aborted ==
    /\ pc' = "bug"
    /\ UNCHANGED <<disk, nodes, fptr, args, locals, walk, undo, erased, rc, descended,
                   skewed, strayed>>

LEMMA MakeNoncontiguousOutcome ==
    ASSUME MakeNoncontiguous
    PROVE  pc = "noncontiguous" /\ i < previous /\ (GaveUp \/ EntryWritten)
BY Zenon DEF MakeNoncontiguous, GaveUp, EntryWritten, Fail, disk, hist

LEMMA LinkNextOutcome ==
    ASSUME LinkNext
    PROVE  pc = "link" /\ ((GaveUp /\ ~contiguous[me]) \/ NextLinked)
BY Zenon DEF LinkNext, GaveUp, NextLinked, Fail, disk, hist

LEMMA GrowEndOutcome ==
    ASSUME GrowEnd
    PROVE  /\ pc = "growloop" /\ allocated >= difference
           /\ GaveUp \/ (EndMarked /\ AfterGrowth)
BY Zenon DEF GrowEnd, GaveUp, EndMarked, disk, nodes, fptr, hist

LEMMA CropAtOutcome ==
    ASSUME CropAt
    PROVE  /\ pc = "crop"
           /\ \/ GaveUp /\ (contiguous[me] => Invalid(fptrCluster[me]))
              \/ /\ ~Invalid(fptrCluster[me])
                 /\ \E c \in NextClusters(me, fptrCluster[me]) : Cut(c)
BY Zenon DEF CropAt, GaveUp, Cut, disk

LEMMA FreeNextOutcome ==
    ASSUME FreeNext
    PROVE  /\ pc = "free" /\ difference > 0 /\ ~Invalid(previous)
           /\ \/ GaveUp /\ ~contiguous[me]
              \/ \E c \in NextClusters(me, previous) : Released(c)
BY Zenon DEF FreeNext, GaveUp, Released, disk

LEMMA EraseFirstOutcome ==
    ASSUME EraseFirst
    PROVE  /\ pc = "erase"
           /\ \/ GaveUp
              \/ ~Invalid(fptrCluster[me]) /\ Zeroed(fptrCluster[me], size[me] + 1)
BY Zenon DEF EraseFirst, GaveUp, Zeroed, hist

LEMMA EraseNextOutcome ==
    ASSUME EraseNext
    PROVE  /\ pc = "eraseloop" /\ MoreToErase
           /\ \E c \in NextClusters(me, next) :
                 \/ GaveUp
                 \/ Invalid(c) /\ Aborted /\ failed' = (failed \/ c = BAD)
                 \/ ~Invalid(c) /\ Zeroed(c, allocated + 1)
BY Zenon DEF EraseNext, GaveUp, Aborted, Zeroed, Bug, hist
-----------------------------------------------------------------------------
\* A call that gives up keeps the types and the control.
LEMMA GaveUpType ==
    ASSUME TypeOK, Control, GaveUp
    PROVE  TypeFlags' /\ TypeVolume' /\ TypeNodes' /\ TypeCall' /\ Control'
<1> USE Constants, TypeParts
<1>1. TypeFlags'
  BY DEF GaveUp, Return, disk, nodes, fptr, TypeFlags
<1>2. TypeVolume'
  BY DEF GaveUp, Return, disk, nodes, fptr, TypeVolume, TypeNodes, TypeCall
<1>3. TypeNodes'
  BY DEF GaveUp, Return, disk, nodes, fptr, TypeVolume, TypeNodes, TypeCall
<1>4. TypeCall'
  BY DEF GaveUp, Return, disk, nodes, fptr, TypeVolume, TypeNodes, TypeCall
<1>5. Control'
  BY DEF GaveUp, Return, disk, nodes, fptr, TypeVolume, TypeNodes, TypeCall, Control,
       Growing
<1> QED BY <1>1, <1>2, <1>3, <1>4, <1>5

\* Every step keeps the types and the control.
LEMMA StepType ==
    TypeOK /\ Control /\ [Next]_vars => TypeOK' /\ Control'
<1> SUFFICES ASSUME TypeOK, Control, [Next]_vars
             PROVE  TypeFlags' /\ TypeVolume' /\ TypeNodes' /\ TypeCall' /\ Control'
  BY TypeParts, PTL
<1> USE Constants, TypeParts
<1>1. ASSUME NEW f \in Files, NEW n \in 0 .. MaxSize, NEW e \in BOOLEAN,
             GrowMore(f, n, e)
      PROVE  TypeFlags' /\ TypeVolume' /\ TypeNodes' /\ TypeCall' /\ Control'
  <2>1. TypeFlags'
    BY <1>1 DEF GrowMore, Enter, CallAdvance, disk, nodes, Called, fptr, TypeFlags
  <2>2. TypeVolume'
    BY <1>1 DEF GrowMore, Enter, CallAdvance, disk, nodes, Called, fptr, TypeVolume,
         TypeNodes, TypeCall
  <2>3. TypeNodes'
    BY <1>1 DEF GrowMore, Enter, CallAdvance, disk, nodes, Called, fptr, TypeVolume,
         TypeNodes, TypeCall
  <2>4. TypeCall'
    BY <1>1 DEF GrowMore, Enter, CallAdvance, disk, nodes, Called, fptr, TypeVolume,
         TypeNodes, TypeCall
  <2>5. Control'
    BY <1>1 DEF GrowMore, Enter, CallAdvance, disk, nodes, Called, fptr, TypeVolume,
         TypeNodes, TypeCall, Control, Growing
  <2> QED BY <2>1, <2>2, <2>3, <2>4, <2>5
<1>2. ASSUME NEW f \in Files, NEW n \in 0 .. MaxSize, NEW e \in BOOLEAN,
             GrowFirst(f, n, e)
      PROVE  TypeFlags' /\ TypeVolume' /\ TypeNodes' /\ TypeCall' /\ Control'
  <2>0. \/ Invalid(Allocate(FREE)) /\ Allocate(FREE) \in Int
        \/ Allocate(FREE) \in Clusters
    <3>1. FREE \in Int
      BY DEF FREE
    <3> QED BY <3>1, AllocateFree DEF END, Invalid
  <2>1. TypeFlags'
    BY <1>2, <2>0 DEF GrowFirst, Called, disk, nodes, fptr, locals, walk, Enter, Take,
         TypeFlags
  <2>2. TypeVolume'
    BY <1>2, <2>0 DEF GrowFirst, Called, disk, nodes, fptr, locals, walk, Enter, Take,
         TypeVolume, TypeNodes, TypeCall
  <2>3. TypeNodes'
    <3>1. CASE Invalid(Allocate(FREE))
      BY <1>2, <3>1 DEF GrowFirst, nodes, fptr, TypeNodes
    <3>2. CASE ~Invalid(Allocate(FREE))
      <4>1. /\ start' = [start EXCEPT ![f] = Allocate(FREE)]
            /\ fptrCluster' = [fptrCluster EXCEPT ![f] = Allocate(FREE)]
            /\ contiguous' = [contiguous EXCEPT ![f] = TRUE]
            /\ size' = size /\ fptrIndex' = fptrIndex
        BY <1>2, <3>2 DEF GrowFirst
      <4>2. Allocate(FREE) \in Clusters /\ Allocate(FREE) \in Int
        BY <2>0, <3>2
      <4> QED BY <4>1, <4>2 DEF TypeNodes
    <3> QED BY <3>1, <3>2
  <2>4. TypeCall'
    BY <1>2, <2>0 DEF GrowFirst, Called, disk, nodes, fptr, locals, walk, Enter, Take,
         TypeVolume, TypeNodes, TypeCall
  <2>5. Control'
    BY <1>2, <2>0 DEF GrowFirst, Called, disk, nodes, fptr, locals, walk, Enter, Take,
         TypeVolume, TypeNodes, TypeCall, Control, Growing
  <2> QED BY <2>1, <2>2, <2>3, <2>4, <2>5
<1>3. ASSUME NEW f \in Files, NEW n \in 0 .. MaxSize, NEW e \in BOOLEAN,
             Shrink(f, n, e)
      PROVE  TypeFlags' /\ TypeVolume' /\ TypeNodes' /\ TypeCall' /\ Control'
  <2>1. TypeFlags'
    BY <1>3 DEF Shrink, Enter, Crop, Called, CallAdvance, LastKept, RewindEmpty, walk,
         disk, fptr, TypeFlags
  <2>2. TypeVolume'
    BY <1>3 DEF Shrink, Enter, Crop, Called, CallAdvance, LastKept, RewindEmpty, walk,
         disk, fptr, TypeVolume, TypeNodes, TypeCall
  <2>3. TypeNodes'
    BY <1>3 DEF Shrink, Enter, Crop, Called, CallAdvance, LastKept, RewindEmpty, walk,
         disk, fptr, TypeVolume, TypeNodes, TypeCall
  <2>4. TypeCall'
    BY <1>3 DEF Shrink, Enter, Crop, Called, CallAdvance, LastKept, RewindEmpty, walk,
         disk, fptr, TypeVolume, TypeNodes, TypeCall
  <2>5. Control'
    BY <1>3 DEF Shrink, Enter, Crop, Called, CallAdvance, LastKept, RewindEmpty, walk,
         disk, fptr, TypeVolume, TypeNodes, TypeCall, Control, Growing
  <2> QED BY <2>1, <2>2, <2>3, <2>4, <2>5
<1>4. ASSUME NEW f \in Files, NEW n \in 0 .. MaxSize, NEW e \in BOOLEAN,
             ShrinkBug(f, n)
      PROVE  TypeFlags' /\ TypeVolume' /\ TypeNodes' /\ TypeCall' /\ Control'
  <2>1. TypeFlags'
    BY <1>4 DEF ShrinkBug, Called, Bug, disk, nodes, fptr, locals, walk, TypeFlags
  <2>2. TypeVolume'
    BY <1>4 DEF ShrinkBug, Called, Bug, disk, nodes, fptr, locals, walk, TypeVolume,
         TypeNodes, TypeCall
  <2>3. TypeNodes'
    BY <1>4 DEF ShrinkBug, Called, Bug, disk, nodes, fptr, locals, walk, TypeVolume,
         TypeNodes, TypeCall
  <2>4. TypeCall'
    BY <1>4 DEF ShrinkBug, Called, Bug, disk, nodes, fptr, locals, walk, TypeVolume,
         TypeNodes, TypeCall
  <2>5. Control'
    BY <1>4 DEF ShrinkBug, Called, Bug, disk, nodes, fptr, locals, walk, TypeVolume,
         TypeNodes, TypeCall, Control, Growing
  <2> QED BY <2>1, <2>2, <2>3, <2>4, <2>5
<1>5. CASE Advance
  <2>1. PICK c \in NextClusters(me, fptrCluster[me]) :
           /\ IF Invalid(c)
              THEN SetFptr(count, c) /\ AdvanceEnds
              ELSE /\ SetFptr(fptrIndex[me], c)
                   /\ i' = i + 1
                   /\ UNCHANGED <<pc, count, back>>
           /\ failed' = (failed \/ (c = BAD /\ ~contiguous[me]))
    BY <1>5 DEF Advance
  <2>2. c \in Int
    <3>1. me \in Files /\ fptrCluster[me] \in Int
      BY DEF TypeNodes, TypeCall
    <3> QED BY <3>1, NextType
  <2>3. TypeFlags'
    BY <1>5, <2>1, <2>2 DEF Advance, SetFptr, AdvanceEnds, AdvanceRest, disk, nodes,
         args, locals, TypeFlags
  <2>4. TypeVolume'
    BY <1>5, <2>1, <2>2 DEF Advance, SetFptr, AdvanceEnds, AdvanceRest, disk, nodes,
         args, locals, TypeVolume, TypeNodes, TypeCall
  <2>5. TypeNodes'
    BY <1>5, <2>1, <2>2 DEF Advance, SetFptr, AdvanceEnds, AdvanceRest, disk, nodes,
         args, locals, TypeVolume, TypeNodes, TypeCall
  <2>6. TypeCall'
    BY <1>5, <2>1, <2>2 DEF Advance, SetFptr, AdvanceEnds, AdvanceRest, disk, nodes,
         args, locals, TypeVolume, TypeNodes, TypeCall
  <2>7. Control'
    BY <1>5, <2>1, <2>2 DEF Advance, SetFptr, AdvanceEnds, AdvanceRest, disk, nodes,
         args, locals, TypeVolume, TypeNodes, TypeCall, Control, Growing
  <2> QED BY <2>3, <2>4, <2>5, <2>6, <2>7
<1>6. CASE AdvanceDone
  <2>1. TypeFlags'
    BY <1>6 DEF AdvanceDone, SetFptr, AdvanceEnds, AdvanceRest, disk, nodes, args,
         locals, TypeFlags
  <2>2. TypeVolume'
    BY <1>6 DEF AdvanceDone, SetFptr, AdvanceEnds, AdvanceRest, disk, nodes, args,
         locals, TypeVolume, TypeNodes, TypeCall
  <2>3. TypeNodes'
    BY <1>6 DEF AdvanceDone, SetFptr, AdvanceEnds, AdvanceRest, disk, nodes, args,
         locals, TypeVolume, TypeNodes, TypeCall
  <2>4. TypeCall'
    BY <1>6 DEF AdvanceDone, SetFptr, AdvanceEnds, AdvanceRest, disk, nodes, args,
         locals, TypeVolume, TypeNodes, TypeCall
  <2>5. Control'
    BY <1>6 DEF AdvanceDone, SetFptr, AdvanceEnds, AdvanceRest, disk, nodes, args,
         locals, TypeVolume, TypeNodes, TypeCall, Control, Growing
  <2> QED BY <2>1, <2>2, <2>3, <2>4, <2>5
<1>7. CASE GrowFrom
  <2>1. TypeFlags'
    BY <1>7 DEF GrowFrom, Return, args, walk, disk, nodes, fptr, hist, TypeFlags,
         Invalid
  <2>2. TypeVolume'
    BY <1>7 DEF GrowFrom, Return, args, walk, disk, nodes, fptr, hist, TypeVolume,
         TypeNodes, TypeCall, Invalid
  <2>3. TypeNodes'
    BY <1>7 DEF GrowFrom, Return, args, walk, disk, nodes, fptr, hist, TypeVolume,
         TypeNodes, TypeCall, Invalid
  <2>4. TypeCall'
    BY <1>7 DEF GrowFrom, Return, args, walk, disk, nodes, fptr, hist, TypeVolume,
         TypeNodes, TypeCall, Invalid
  <2>5. Control'
    BY <1>7 DEF GrowFrom, Return, args, walk, disk, nodes, fptr, hist, TypeVolume,
         TypeNodes, TypeCall, Control, Growing, Invalid
  <2> QED BY <2>1, <2>2, <2>3, <2>4, <2>5
<1>8. CASE AllocateNext
  <2>0. \/ Invalid(Allocate(previous + 1))
        \/ Allocate(previous + 1) \in Clusters
    BY DEF Invalid
  <2>1. TypeFlags'
    BY <1>8, <2>0 DEF AllocateNext, Take, nodes, fptr, args, hist, TypeFlags, Control,
         Growing
  <2>2. TypeVolume'
    BY <1>8, <2>0 DEF AllocateNext, Take, nodes, fptr, args, hist, TypeVolume,
         TypeNodes, TypeCall, Control, Growing
  <2>3. TypeNodes'
    BY <1>8, <2>0 DEF AllocateNext, Take, nodes, fptr, args, hist, TypeVolume,
         TypeNodes, TypeCall, Control, Growing
  <2>4. TypeCall'
    BY <1>8, <2>0 DEF AllocateNext, Take, nodes, fptr, args, hist, TypeVolume,
         TypeNodes, TypeCall, Control, Growing
  <2>5. Control'
    BY <1>8, <2>0 DEF AllocateNext, Take, nodes, fptr, args, hist, TypeVolume,
         TypeNodes, TypeCall, Control, Growing
  <2> QED BY <2>1, <2>2, <2>3, <2>4, <2>5
<1>9. CASE NoSpace
  <2>1. TypeFlags'
    BY <1>9 DEF NoSpace, Return, disk, nodes, fptr, hist, Undo, Crop, args, CallAdvance,
         LastKept, RewindEmpty, walk, TypeFlags
  <2>2. TypeVolume'
    BY <1>9 DEF NoSpace, Return, disk, nodes, fptr, hist, Undo, Crop, args, CallAdvance,
         LastKept, RewindEmpty, walk, TypeVolume, TypeNodes, TypeCall
  <2>3. TypeNodes'
    BY <1>9 DEF NoSpace, Return, disk, nodes, fptr, hist, Undo, Crop, args, CallAdvance,
         LastKept, RewindEmpty, walk, TypeVolume, TypeNodes, TypeCall
  <2>4. TypeCall'
    BY <1>9 DEF NoSpace, Return, disk, nodes, fptr, hist, Undo, Crop, args, CallAdvance,
         LastKept, RewindEmpty, walk, TypeVolume, TypeNodes, TypeCall
  <2>5. Control'
    BY <1>9 DEF NoSpace, Return, disk, nodes, fptr, hist, Undo, Crop, args, CallAdvance,
         LastKept, RewindEmpty, walk, TypeVolume, TypeNodes, TypeCall, Control, Growing
  <2> QED BY <2>1, <2>2, <2>3, <2>4, <2>5
<1>10. CASE MakeNoncontiguous
  <2>1. CASE GaveUp
    BY <2>1, GaveUpType
  <2>2. CASE i < previous /\ EntryWritten
    <3>0. i \in Clusters /\ i + 1 \in FatEntry
      BY <1>10, <2>2 DEF MakeNoncontiguous, Control, Growing, Clusters, FIRST_DATA_CLUSTER,
         LastCluster, FatEntry, TypeCall, TypeNodes
    <3>1. TypeFlags'
      BY <1>10, <2>2, <3>0 DEF EntryWritten, nodes, fptr, args, locals, hist, TypeFlags,
           Control, Growing, MakeNoncontiguous
    <3>2. TypeVolume'
      BY <1>10, <2>2, <3>0 DEF EntryWritten, nodes, fptr, args, locals, hist,
           TypeVolume, TypeNodes, TypeCall, Control, Growing, MakeNoncontiguous
    <3>3. TypeNodes'
      BY <1>10, <2>2, <3>0 DEF EntryWritten, nodes, fptr, args, locals, hist,
           TypeVolume, TypeNodes, TypeCall, Control, Growing, MakeNoncontiguous
    <3>4. TypeCall'
      BY <1>10, <2>2, <3>0 DEF EntryWritten, nodes, fptr, args, locals, hist,
           TypeVolume, TypeNodes, TypeCall, Control, Growing, MakeNoncontiguous
    <3>5. Control'
      BY <1>10, <2>2, <3>0 DEF EntryWritten, nodes, fptr, args, locals, hist,
           TypeVolume, TypeNodes, TypeCall, Control, Growing, MakeNoncontiguous
    <3> QED BY <3>1, <3>2, <3>3, <3>4, <3>5
  <2> QED BY <1>10, <2>1, <2>2, MakeNoncontiguousOutcome
<1>11. CASE MadeNoncontiguous
  <2>1. TypeFlags'
    BY <1>11 DEF MadeNoncontiguous, disk, fptr, args, locals, hist, TypeFlags
  <2>2. TypeVolume'
    BY <1>11 DEF MadeNoncontiguous, disk, fptr, args, locals, hist, TypeVolume,
         TypeNodes, TypeCall
  <2>3. TypeNodes'
    BY <1>11 DEF MadeNoncontiguous, disk, fptr, args, locals, hist, TypeVolume,
         TypeNodes, TypeCall
  <2>4. TypeCall'
    BY <1>11 DEF MadeNoncontiguous, disk, fptr, args, locals, hist, TypeVolume,
         TypeNodes, TypeCall
  <2>5. Control'
    BY <1>11 DEF MadeNoncontiguous, disk, fptr, args, locals, hist, TypeVolume,
         TypeNodes, TypeCall, Control, Growing
  <2> QED BY <2>1, <2>2, <2>3, <2>4, <2>5
<1>12. CASE LinkNext
  <2>1. CASE GaveUp
    BY <2>1, GaveUpType
  <2>2. CASE pc = "link" /\ NextLinked
    <3>1. TypeFlags'
      BY <2>2 DEF NextLinked, Linked, nodes, fptr, args, walk, TypeFlags, Control,
           Growing
    <3>2. TypeVolume'
      BY <2>2 DEF NextLinked, Linked, nodes, fptr, args, walk, TypeVolume, TypeNodes,
           TypeCall, Control, Growing
    <3>3. TypeNodes'
      BY <2>2 DEF NextLinked, Linked, nodes, fptr, args, walk, TypeVolume, TypeNodes,
           TypeCall, Control, Growing
    <3>4. TypeCall'
      BY <2>2 DEF NextLinked, Linked, nodes, fptr, args, walk, TypeVolume, TypeNodes,
           TypeCall, Control, Growing
    <3>5. Control'
      BY <2>2 DEF NextLinked, Linked, nodes, fptr, args, walk, TypeVolume, TypeNodes,
           TypeCall, Control, Growing
    <3> QED BY <3>1, <3>2, <3>3, <3>4, <3>5
  <2> QED BY <1>12, <2>1, <2>2, LinkNextOutcome
<1>13. CASE GrowEnd
  <2>1. CASE GaveUp
    BY <2>1, GaveUpType
  <2>2. CASE pc = "growloop" /\ EndMarked /\ AfterGrowth /\ erase
    <3>1. TypeFlags'
      BY <2>2 DEF EndMarked, hist, TypeFlags, AfterGrowth, CallAdvance, args, locals,
           fptr
    <3>2. TypeVolume'
      BY <2>2 DEF EndMarked, hist, TypeVolume, TypeNodes, TypeCall, AfterGrowth,
           CallAdvance, args, locals, fptr
    <3>3. TypeNodes'
      BY <2>2 DEF EndMarked, hist, TypeVolume, TypeNodes, TypeCall, AfterGrowth,
           CallAdvance, args, locals, fptr
    <3>4. TypeCall'
      BY <2>2 DEF EndMarked, hist, TypeVolume, TypeNodes, TypeCall, AfterGrowth,
           CallAdvance, args, locals, fptr
    <3>5. Control'
      BY <2>2 DEF EndMarked, hist, TypeVolume, TypeNodes, TypeCall, Control, Growing,
           AfterGrowth, CallAdvance, args, locals, fptr
    <3> QED BY <3>1, <3>2, <3>3, <3>4, <3>5
  <2>3. CASE pc = "growloop" /\ EndMarked /\ AfterGrowth /\ ~erase
    <3>1. TypeFlags'
      BY <2>3 DEF EndMarked, hist, TypeFlags, AfterGrowth, Finish, Return, fptr
    <3>2. TypeVolume'
      BY <2>3 DEF EndMarked, hist, TypeVolume, TypeNodes, TypeCall, AfterGrowth, Finish,
           Return, fptr
    <3>3. TypeNodes'
      BY <2>3 DEF EndMarked, hist, TypeVolume, TypeNodes, TypeCall, AfterGrowth, Finish,
           Return, fptr
    <3>4. TypeCall'
      BY <2>3 DEF EndMarked, hist, TypeVolume, TypeNodes, TypeCall, AfterGrowth, Finish,
           Return, fptr
    <3>5. Control'
      BY <2>3 DEF EndMarked, hist, TypeVolume, TypeNodes, TypeCall, Control, Growing,
           AfterGrowth, Finish, Return, fptr
    <3> QED BY <3>1, <3>2, <3>3, <3>4, <3>5
  <2> QED BY <1>13, <2>1, <2>2, <2>3, GrowEndOutcome
<1>14. CASE CropAt
  <2>1. CASE GaveUp
    BY <2>1, GaveUpType
  <2>2. ASSUME NEW c \in NextClusters(me, fptrCluster[me]), pc = "crop",
               ~Invalid(fptrCluster[me]),
               Cut(c)
        PROVE  TypeFlags' /\ TypeVolume' /\ TypeNodes' /\ TypeCall' /\ Control'
    <3>0. c \in Int /\ fptrCluster[me] \in Clusters
      <4>1. me \in Files /\ fptrCluster[me] \in Int
        BY DEF TypeNodes, TypeCall
      <4> QED BY <2>2, <4>1, NextType DEF Invalid
    <3>1. TypeFlags'
      BY <2>2, <3>0 DEF Cut, SetFptr, nodes, args, walk, TypeFlags
    <3>2. TypeVolume'
      BY <2>2, <3>0 DEF Cut, SetFptr, nodes, args, walk, TypeVolume, TypeNodes, TypeCall
    <3>3. TypeNodes'
      BY <2>2, <3>0 DEF Cut, SetFptr, nodes, args, walk, TypeVolume, TypeNodes, TypeCall
    <3>4. TypeCall'
      BY <2>2, <3>0 DEF Cut, SetFptr, nodes, args, walk, TypeVolume, TypeNodes, TypeCall
    <3>5. Control'
      BY <2>2, <3>0 DEF Cut, SetFptr, nodes, args, walk, TypeVolume, TypeNodes,
           TypeCall, Control, Growing
    <3> QED BY <3>1, <3>2, <3>3, <3>4, <3>5
  <2> QED BY <1>14, <2>1, <2>2, CropAtOutcome
<1>15. CASE FreeNext
  <2>1. CASE GaveUp
    BY <2>1, GaveUpType
  <2>2. ASSUME NEW c \in NextClusters(me, previous), pc = "free", ~Invalid(previous),
               Released(c), difference > 0
        PROVE  TypeFlags' /\ TypeVolume' /\ TypeNodes' /\ TypeCall' /\ Control'
    <3>0. c \in Int /\ previous \in Clusters
      <4>1. me \in Files /\ previous \in Int
        BY DEF TypeNodes, TypeCall
      <4> QED BY <2>2, <4>1, NextType DEF Invalid
    <3>1. TypeFlags'
      BY <2>2, <3>0 DEF Released, Freed, nodes, fptr, args, walk, TypeFlags
    <3>2. TypeVolume'
      BY <2>2, <3>0 DEF Released, Freed, nodes, fptr, args, walk, TypeVolume, TypeNodes,
           TypeCall
    <3>3. TypeNodes'
      BY <2>2, <3>0 DEF Released, Freed, nodes, fptr, args, walk, TypeVolume, TypeNodes,
           TypeCall
    <3>4. TypeCall'
      BY <2>2, <3>0 DEF Released, Freed, nodes, fptr, args, walk, TypeVolume, TypeNodes,
           TypeCall
    <3>5. Control'
      BY <2>2, <3>0 DEF Released, Freed, nodes, fptr, args, walk, TypeVolume, TypeNodes,
           TypeCall, Control, Growing
    <3> QED BY <3>1, <3>2, <3>3, <3>4, <3>5
  <2> QED BY <1>15, <2>1, <2>2, FreeNextOutcome
<1>16. CASE FreeInvalid
  <2>1. TypeFlags'
    BY <1>16 DEF FreeInvalid, Return, disk, nodes, fptr, hist, TypeFlags
  <2>2. TypeVolume'
    BY <1>16 DEF FreeInvalid, Return, disk, nodes, fptr, hist, TypeVolume, TypeNodes,
         TypeCall
  <2>3. TypeNodes'
    BY <1>16 DEF FreeInvalid, Return, disk, nodes, fptr, hist, TypeVolume, TypeNodes,
         TypeCall
  <2>4. TypeCall'
    BY <1>16 DEF FreeInvalid, Return, disk, nodes, fptr, hist, TypeVolume, TypeNodes,
         TypeCall
  <2>5. Control'
    BY <1>16 DEF FreeInvalid, Return, disk, nodes, fptr, hist, TypeVolume, TypeNodes,
         TypeCall, Control, Growing
  <2> QED BY <2>1, <2>2, <2>3, <2>4, <2>5
<1>17. CASE FreeDone
  <2>1. TypeFlags'
    BY <1>17 DEF FreeDone, Return, Finish, disk, fptr, hist, TypeFlags
  <2>2. TypeVolume'
    BY <1>17 DEF FreeDone, Return, Finish, disk, fptr, hist, TypeVolume, TypeNodes,
         TypeCall
  <2>3. TypeNodes'
    BY <1>17 DEF FreeDone, Return, Finish, disk, fptr, hist, TypeVolume, TypeNodes,
         TypeCall
  <2>4. TypeCall'
    BY <1>17 DEF FreeDone, Return, Finish, disk, fptr, hist, TypeVolume, TypeNodes,
         TypeCall
  <2>5. Control'
    BY <1>17 DEF FreeDone, Return, Finish, disk, fptr, hist, TypeVolume, TypeNodes,
         TypeCall, Control, Growing
  <2> QED BY <2>1, <2>2, <2>3, <2>4, <2>5
<1>18. CASE EraseFirst
  <2>1. CASE GaveUp
    BY <2>1, GaveUpType
  <2>2. CASE ~Invalid(fptrCluster[me]) /\ Zeroed(fptrCluster[me], size[me] + 1)
    <3>1. TypeFlags'
      BY <2>2, <1>18 DEF Zeroed, Zero, disk, nodes, fptr, args, walk, hist, TypeFlags,
           EraseFirst, Invalid
    <3>2. TypeVolume'
      BY <2>2, <1>18 DEF Zeroed, Zero, disk, nodes, fptr, args, walk, hist, TypeVolume,
           TypeNodes, TypeCall, EraseFirst, Invalid
    <3>3. TypeNodes'
      BY <2>2, <1>18 DEF Zeroed, Zero, disk, nodes, fptr, args, walk, hist, TypeVolume,
           TypeNodes, TypeCall, EraseFirst, Invalid
    <3>4. TypeCall'
      BY <2>2, <1>18 DEF Zeroed, Zero, disk, nodes, fptr, args, walk, hist, TypeVolume,
           TypeNodes, TypeCall, EraseFirst, Invalid
    <3>5. Control'
      BY <2>2, <1>18 DEF Zeroed, Zero, disk, nodes, fptr, args, walk, hist, TypeVolume,
           TypeNodes, TypeCall, Control, Growing, EraseFirst, Invalid
    <3> QED BY <3>1, <3>2, <3>3, <3>4, <3>5
  <2> QED BY <1>18, <2>1, <2>2, EraseFirstOutcome
<1>19. CASE EraseNext
  <2>1. PICK c \in NextClusters(me, next) :
           \/ GaveUp
           \/ Invalid(c) /\ Aborted /\ failed' = (failed \/ c = BAD)
           \/ ~Invalid(c) /\ Zeroed(c, allocated + 1)
    BY <1>19, EraseNextOutcome
  <2>2. CASE GaveUp
    BY <2>2, GaveUpType
  <2>3. CASE Aborted /\ failed' = (failed \/ c = BAD)
    <3>1. TypeFlags'
      BY <2>3 DEF Aborted, disk, nodes, fptr, args, locals, walk, TypeFlags
    <3>2. TypeVolume'
      BY <2>3 DEF Aborted, disk, nodes, fptr, args, locals, walk, TypeVolume, TypeNodes,
           TypeCall
    <3>3. TypeNodes'
      BY <2>3 DEF Aborted, disk, nodes, fptr, args, locals, walk, TypeVolume, TypeNodes,
           TypeCall
    <3>4. TypeCall'
      BY <2>3 DEF Aborted, disk, nodes, fptr, args, locals, walk, TypeVolume, TypeNodes,
           TypeCall
    <3>5. Control'
      BY <2>3 DEF Aborted, disk, nodes, fptr, args, locals, walk, TypeVolume, TypeNodes,
           TypeCall, Control, Growing
    <3> QED BY <3>1, <3>2, <3>3, <3>4, <3>5
  <2>4. CASE ~Invalid(c) /\ Zeroed(c, allocated + 1)
    <3>1. TypeFlags'
      BY <2>4, <1>19 DEF Zeroed, Zero, disk, nodes, fptr, args, walk, hist, TypeFlags,
           EraseNext, Invalid
    <3>2. TypeVolume'
      BY <2>4, <1>19 DEF Zeroed, Zero, disk, nodes, fptr, args, walk, hist, TypeVolume,
           TypeNodes, TypeCall, EraseNext, Invalid
    <3>3. TypeNodes'
      BY <2>4, <1>19 DEF Zeroed, Zero, disk, nodes, fptr, args, walk, hist, TypeVolume,
           TypeNodes, TypeCall, EraseNext, Invalid
    <3>4. TypeCall'
      BY <2>4, <1>19 DEF Zeroed, Zero, disk, nodes, fptr, args, walk, hist, TypeVolume,
           TypeNodes, TypeCall, EraseNext, Invalid
    <3>5. Control'
      BY <2>4, <1>19 DEF Zeroed, Zero, disk, nodes, fptr, args, walk, hist, TypeVolume,
           TypeNodes, TypeCall, Control, Growing, EraseNext, Invalid
    <3> QED BY <3>1, <3>2, <3>3, <3>4, <3>5
  <2> QED BY <2>1, <2>2, <2>3, <2>4
<1>20. CASE EraseDone
  <2>1. TypeFlags'
    BY <1>20 DEF EraseDone, MoreToErase, Finish, disk, fptr, hist, Return, TypeFlags
  <2>2. TypeVolume'
    BY <1>20 DEF EraseDone, MoreToErase, Finish, disk, fptr, hist, Return, TypeVolume,
         TypeNodes, TypeCall
  <2>3. TypeNodes'
    BY <1>20 DEF EraseDone, MoreToErase, Finish, disk, fptr, hist, Return, TypeVolume,
         TypeNodes, TypeCall
  <2>4. TypeCall'
    BY <1>20 DEF EraseDone, MoreToErase, Finish, disk, fptr, hist, Return, TypeVolume,
         TypeNodes, TypeCall
  <2>5. Control'
    BY <1>20 DEF EraseDone, MoreToErase, Finish, disk, fptr, hist, Return, TypeVolume,
         TypeNodes, TypeCall, Control, Growing
  <2> QED BY <2>1, <2>2, <2>3, <2>4, <2>5
<1>21. CASE Flush
  <2>1. TypeFlags'
    BY <1>21 DEF Flush, Writes, nodes, fptr, args, locals, walk, TypeFlags
  <2>2. TypeVolume'
    BY <1>21 DEF Flush, Writes, nodes, fptr, args, locals, walk, TypeVolume, TypeNodes,
         TypeCall
  <2>3. TypeNodes'
    BY <1>21 DEF Flush, Writes, nodes, fptr, args, locals, walk, TypeVolume, TypeNodes,
         TypeCall
  <2>4. TypeCall'
    BY <1>21 DEF Flush, Writes, nodes, fptr, args, locals, walk, TypeVolume, TypeNodes,
         TypeCall
  <2>5. Control'
    BY <1>21 DEF Flush, Writes, nodes, fptr, args, locals, walk, TypeVolume, TypeNodes,
         TypeCall, Control, Growing
  <2> QED BY <2>1, <2>2, <2>3, <2>4, <2>5
<1>22. CASE UNCHANGED vars
  BY <1>22 DEF vars, disk, nodes, fptr, args, locals, walk, hist, TypeFlags, TypeVolume,
     TypeNodes, TypeCall, Control, Growing
<1> QED BY <1>1, <1>2, <1>3, <1>4, <1>5, <1>6, <1>7, <1>8, <1>9, <1>10, <1>11,
           <1>12, <1>13, <1>14, <1>15, <1>16, <1>17, <1>18, <1>19, <1>20, <1>21, <1>22
        DEF Next, Call, Step
-----------------------------------------------------------------------------
\* A chain has a start, and its entries in the table are clusters or end marks.
LEMMA InitType == Init => TypeOK /\ Control
<1> SUFFICES ASSUME Init
             PROVE  TypeFlags /\ TypeVolume /\ TypeNodes /\ TypeCall /\ Control
  BY TypeParts
<1> USE Constants
<1>1. PICK layout \in Layouts :
         /\ fat = [c \in Clusters |-> Link(layout, c)]
         /\ bitmap = System \cup UNION {Elements(layout[f].chain) : f \in Files}
         /\ start = [f \in Files |-> IF layout[f].chain = <<>> THEN FREE
                                      ELSE layout[f].chain[1]]
         /\ size = [f \in Files |-> Len(layout[f].chain)]
         /\ contiguous = [f \in Files |-> layout[f].contiguous]
         /\ fptrCluster = start
  BY DEF Init
<1>2. \A f \in Files : /\ layout[f].chain \in Seq(Clusters \ System)
                       /\ layout[f].contiguous \in BOOLEAN
                       /\ Len(layout[f].chain) \in 0 .. MaxSize
  BY ExfatClusterAssumption DEF Sound
<1>3. \A f \in Files : \A k \in DOMAIN layout[f].chain : layout[f].chain[k] \in Clusters
  BY <1>2
<1>4. \A f \in Files : layout[f].chain # <<>> => layout[f].chain[1] \in Clusters
  BY <1>2
<1>5. ASSUME NEW c \in Clusters
      PROVE  Link(layout, c) \in FatEntry
  <2> DEFINE Here == {h \in UNION {{f} \X DOMAIN layout[f].chain : f \in Files} :
                        /\ ~layout[h[1]].contiguous
                        /\ layout[h[1]].chain[h[2]] = c}
             p == CHOOSE h \in Here : TRUE
  <2>1. CASE Here = {}
    BY <2>1 DEF Link
  <2>2. CASE Here # {}
    <3>1. p \in Here
      BY <2>2
    <3> HIDE DEF p
    <3> DEFINE f == p[1]
               k == p[2]
    <3>2. f \in Files /\ k \in DOMAIN layout[f].chain
      BY <3>1
    <3>3. Link(layout, c) = IF k = Len(layout[f].chain) THEN END ELSE layout[f].chain[k + 1]
      BY <2>2 DEF Link, p
    <3> HIDE DEF f, k
    <3>4. layout[f].chain \in Seq(Clusters \ System)
      BY <3>2, <1>2
    <3>5. k # Len(layout[f].chain) => k + 1 \in DOMAIN layout[f].chain
      BY <3>2, <3>4
    <3> QED BY <3>2, <3>3, <3>5, <1>3
  <2> QED BY <2>1, <2>2
<1>6. TypeFlags
  BY DEF Init, TypeFlags
<1>7. TypeVolume
  <2>1. UNION {Elements(layout[f].chain) : f \in Files} \subseteq Clusters
    BY <1>3 DEF Elements
  <2>2. diskBitmap = bitmap /\ erased = {}
    BY DEF Init
  <2> QED BY <1>1, <1>5, <2>1, <2>2 DEF TypeVolume
<1>8. TypeNodes
  <2>1. fptrIndex = [f \in Files |-> 0]
    BY DEF Init
  <2>2. start \in [Files -> Clusters \cup {FREE}]
    BY <1>1, <1>4
  <2>3. fptrCluster \in [Files -> Int]
    BY <1>1, <2>2
  <2> QED BY <1>1, <1>2, <2>1, <2>2, <2>3 DEF TypeNodes
<1>9. TypeCall
  BY DEF Init, TypeCall, FREE
<1>10. Control
  BY DEF Init, Control, Growing
<1> QED BY <1>6, <1>7, <1>8, <1>9, <1>10

\* The table, the bitmap, the nodes, the cached positions and the locals of every call
\* keep their types, whatever fails.
THEOREM TypeCorrect == Spec => []TypeOK
<1>1. Spec => [](TypeOK /\ Control)
  BY InitType, StepType, PTL DEF Spec
<1> QED BY <1>1, PTL

\* exfat_next_cluster is asked for the successor of a cluster, or of something no
\* cluster at all, and a file without a start has no cached position.
THEOREM ControlHolds == Spec => []Control
BY InitType, StepType, PTL DEF Spec

\* exfat_flush: no step changes the bitmap and leaves it clean.
THEOREM CleanBitmap == Spec => []CleanBitmapIsSaved
<1>1. Init => CleanBitmapIsSaved
  BY Zenon DEF Init, CleanBitmapIsSaved
<1>2. CleanBitmapIsSaved /\ [Next]_vars => CleanBitmapIsSaved'
  <2> SUFFICES ASSUME CleanBitmapIsSaved, [Next]_vars
               PROVE  CleanBitmapIsSaved'
    OBVIOUS
  <2> DEFINE Saved == \/ UNCHANGED <<bitmap, diskBitmap, cmapDirty>>
                      \/ cmapDirty' = TRUE
                      \/ (diskBitmap' = bitmap /\ bitmap' = bitmap)
  <2>1. Saved
    <3>1. \A f \in Files, n \in 0 .. MaxSize, e \in BOOLEAN : GrowMore(f, n, e) => Saved
      BY DEF GrowMore, disk
    <3>2. \A f \in Files, n \in 0 .. MaxSize, e \in BOOLEAN : GrowFirst(f, n, e) => Saved
      BY DEF GrowFirst, disk, Take
    <3>3. \A f \in Files, n \in 0 .. MaxSize, e \in BOOLEAN : Shrink(f, n, e) => Saved
      BY DEF Shrink, Crop, disk
    <3>4. \A f \in Files, n \in 0 .. MaxSize : ShrinkBug(f, n) => Saved
      BY DEF ShrinkBug, disk
    <3>5. Advance => Saved
      BY DEF Advance, AdvanceRest, disk
    <3>6. AdvanceDone => Saved
      BY DEF AdvanceDone, AdvanceRest, disk
    <3>7. GrowFrom => Saved
      BY DEF GrowFrom, disk
    <3>8. AllocateNext => Saved
      BY DEF AllocateNext, Take
    <3>9. NoSpace => Saved
      BY DEF NoSpace, disk, Undo, Crop
    <3>10. MakeNoncontiguous => Saved
      BY DEF MakeNoncontiguous, Fail
    <3>11. MadeNoncontiguous => Saved
      BY DEF MadeNoncontiguous, disk
    <3>12. LinkNext => Saved
      BY DEF LinkNext, Fail
    <3>13. GrowEnd => Saved
      BY DEF GrowEnd
    <3>14. CropAt => Saved
      BY DEF CropAt
    <3>15. FreeNext => Saved
      BY DEF FreeNext
    <3>16. FreeInvalid => Saved
      BY DEF FreeInvalid, disk
    <3>17. FreeDone => Saved
      BY DEF FreeDone, disk
    <3>18. EraseFirst => Saved
      BY DEF EraseFirst, disk
    <3>19. EraseNext => Saved
      BY DEF EraseNext, disk
    <3>20. EraseDone => Saved
      BY DEF EraseDone, disk
    <3>21. Flush => Saved
      BY DEF Flush
    <3>22. UNCHANGED vars => Saved
      BY DEF vars, disk
    <3> HIDE DEF Saved
    <3> QED BY <3>1, <3>2, <3>3, <3>4, <3>5, <3>6, <3>7, <3>8, <3>9, <3>10, <3>11,
         <3>12, <3>13, <3>14, <3>15, <3>16, <3>17, <3>18, <3>19, <3>20, <3>21, <3>22
            DEF Next, Call, Step
  <2> QED BY <2>1 DEF CleanBitmapIsSaved
<1> QED BY <1>1, <1>2, PTL DEF Spec
-----------------------------------------------------------------------------
(***************************************************************************)
(* The invariant.                                                          *)
(***************************************************************************)
\* The call is at label l, or on its way to it.
At(l) == pc = l \/ (pc = "advance" /\ back = l)

Undoing == undo /\ At("crop")

Keeping == pc = "free" /\ ~undo

Erasing == At("erase") \/ pc = "eraseloop"

\* The number of clusters of f that nobody else may touch: its size or, for the file
\* that the running call is about, as far as it has grown or what it will keep.
Length(f) ==
    IF f # me \/ pc \in {"idle", "bug"} THEN size[f]
    ELSE IF Growing \/ Undoing THEN size[f] + allocated
    ELSE IF Keeping \/ Erasing THEN goal
    ELSE size[f]

\* The j-th of the clusters that are still to be freed.
Rest(j) == ChainFrom(fat, contiguous[me], previous)[j]

\* The arithmetic of the running call.
Amounts ==
    Unharmed =>
    /\ pc # "idle" => \A f \in Files \ {me} : size[f] = 0 <=> start[f] = FREE
    /\ At("grow") => /\ 0 < size[me] /\ size[me] < goal /\ ~undo
                     /\ allocated = 0 /\ difference = goal - size[me]
    /\ Growing => /\ size[me] < goal /\ ~undo
                  /\ difference = goal - size[me] /\ allocated <= difference
                  /\ fptrIndex[me] < size[me] + allocated
    /\ pc \in {"noncontiguous", "link"} => allocated < difference
    /\ At("crop") /\ ~undo => 0 < goal /\ goal < size[me] /\ difference = size[me] - goal
    /\ At("crop") /\ undo => /\ 0 < size[me] /\ size[me] < goal
                             /\ difference = allocated /\ 0 < allocated
    /\ pc = "free" /\ ~undo => goal < size[me]
    /\ pc = "free" /\ undo => size[me] < goal
    /\ pc = "free" => (start[me] = FREE <=> Length(me) = 0)
    /\ At("erase") => size[me] < goal /\ ~undo /\ erase
    /\ pc = "eraseloop" => /\ size[me] < allocated /\ allocated <= goal /\ ~undo /\ erase
    /\ pc = "advance" => i <= count /\ count < Length(me)
    /\ pc = "advance" => count = IF back = "grow" THEN size[me] - 1
                                 ELSE IF back = "erase" THEN size[me]
                                 ELSE IF undo THEN size[me] - 1 ELSE goal - 1
    /\ pc \in {"grow", "crop", "erase"} =>
          fptrIndex[me] = IF pc = "grow" \/ (pc = "crop" /\ undo) THEN size[me] - 1
                          ELSE IF pc = "erase" THEN size[me] ELSE goal - 1

\* Different positions are different clusters, none of them the system's or free, and
\* only a chain in the table may end before it should.
Apart ==
    Unharmed =>
    /\ System \subseteq bitmap
    /\ \A f \in Files : \A k \in 0 .. Length(f) - 1 :
          /\ ~Invalid(ChainAt(f, k)) =>
                /\ ChainAt(f, k) \in bitmap \ System
                /\ \A g \in Files : \A j \in 0 .. Length(g) - 1 :
                      ChainAt(g, j) = ChainAt(f, k) => g = f /\ j = k
          /\ Invalid(ChainAt(f, k)) =>
                ~contiguous[f] /\ (ChainAt(f, k) = END \/ start[f] = FREE)

\* Where the running call is along its file's chain.
Place ==
    Unharmed =>
    /\ Growing => ChainAt(me, Length(me) - 1) = previous
    /\ Undoing \/ Erasing => ~Invalid(ChainAt(me, Length(me) - 1))
    /\ pc \in {"noncontiguous", "link"} =>
          /\ next \in bitmap \ System
          /\ \A f \in Files : \A k \in 0 .. Length(f) - 1 : ChainAt(f, k) # next
    /\ pc = "noncontiguous" =>
          contiguous[me] /\ \A j \in start[me] .. i - 1 : j < previous => fat[j] = j + 1
    /\ pc = "link" /\ contiguous[me] => next = previous - 1
    /\ pc = "eraseloop" =>
          /\ next = ChainAt(me, allocated - 1)
          /\ \A k \in size[me] .. allocated - 1 : ChainAt(me, k) \in erased

\* What is to be freed is marked used and nobody's.
Freeing ==
    Unharmed /\ pc = "free" =>
    /\ start[me] # FREE /\ ~contiguous[me] => ChainAt(me, Length(me)) = END
    /\ \A j \in 0 .. difference - 1 :
          /\ ~Invalid(Rest(j)) =>
                /\ Rest(j) \in bitmap \ System
                /\ \A k \in 0 .. difference - 1 : Rest(k) = Rest(j) => k = j
                /\ \A f \in Files : \A k \in 0 .. Length(f) - 1 : ChainAt(f, k) # Rest(j)
          /\ Invalid(Rest(j)) => ~contiguous[me]

\* A cached position is right, unless a read has failed.
Cached ==
    Unharmed =>
    /\ \A f \in Files : (f = me /\ pc = "advance") \/
          (fptrIndex[f] < Length(f) =>
             fptrCluster[f] = ChainAt(f, fptrIndex[f]) \/ (failed /\ fptrCluster[f] = BAD))
    /\ pc = "advance" =>
          fptrCluster[me] = ChainAt(me, i) \/ (failed /\ fptrCluster[me] = BAD)

Safe == Control /\ Amounts /\ Apart /\ Place /\ Freeing /\ Cached

-----------------------------------------------------------------------------
(***************************************************************************)
(* Chains, before and after a step.                                        *)
(***************************************************************************)
\* exfat_advance_cluster finds the start, and then what follows.
LEMMA ChainSteps ==
    ASSUME TypeOK, NEW f \in Files
    PROVE  /\ ChainAt(f, 0) = start[f]
           /\ \A k \in Nat : ChainAt(f, k) \in Int
           /\ \A k \in Nat : ChainAt(f, k + 1)
                               = Follow(fat, contiguous[f], ChainAt(f, k))
<1>1. fat \in Table /\ contiguous[f] \in BOOLEAN /\ start[f] \in Int
  BY Constants DEF TypeOK, Table, FREE
<1> QED BY <1>1, ChainLaw DEF ChainAt

LEMMA ChainStepsNext ==
    ASSUME TypeOK', NEW f \in Files
    PROVE  /\ ChainAt(f, 0)' = start'[f]
           /\ \A k \in Nat : ChainAt(f, k)' \in Int
           /\ \A k \in Nat : ChainAt(f, k + 1)'
                               = Follow(fat', contiguous'[f], ChainAt(f, k)')
<1>1. fat' \in Table /\ contiguous'[f] \in BOOLEAN /\ start'[f] \in Int
  BY Constants DEF TypeOK, Table, FREE
<1> QED BY <1>1, ChainLaw DEF ChainAt

\* The same for what is still to be freed.
LEMMA RestSteps ==
    ASSUME TypeOK
    PROVE  /\ Rest(0) = previous
           /\ \A k \in Nat : Rest(k) \in Int
           /\ \A k \in Nat : Rest(k + 1) = Follow(fat, contiguous[me], Rest(k))
<1>1. fat \in Table /\ contiguous[me] \in BOOLEAN /\ previous \in Int
  BY DEF TypeOK, Table
<1> QED BY <1>1, ChainLaw DEF Rest

\* An invalid cluster ends a chain.
LEMMA ChainEnds ==
    ASSUME TypeOK, NEW f \in Files, NEW k \in Nat, NEW n \in Nat, k <= n,
           Invalid(ChainAt(f, k))
    PROVE  ChainAt(f, n) = ChainAt(f, k)
<1>1. fat \in Table /\ contiguous[f] \in BOOLEAN /\ start[f] \in Int
  BY Constants DEF TypeOK, Table, FREE
<1> QED BY <1>1, ChainStays DEF ChainAt

\* What exfat_next_cluster returns is what follows, or BAD for a failed read.
LEMMA NextFollows ==
    ASSUME NEW f, NEW c, ~Invalid(c), NEW d \in NextClusters(f, c)
    PROVE  d = Follow(fat, contiguous[f], c) \/ (d = BAD /\ ~contiguous[f])
BY DEF NextClusters, Follow, NextCluster

\* A step that leaves the table and the nodes alone moves no cluster.
LEMMA ChainsSame ==
    ASSUME UNCHANGED <<fat, start, contiguous>>, NEW f, NEW k
    PROVE  ChainAt(f, k)' = ChainAt(f, k)
BY DEF ChainAt

\* A write to the entry of cluster x moves nothing in a chain that does not come by x.
LEMMA ChainKeeps ==
    ASSUME TypeOK, NEW f \in Files, NEW x \in Clusters, NEW y \in FatEntry, NEW n \in Nat,
           fat' = fat \/ fat' = [fat EXCEPT ![x] = y],
           start'[f] = start[f], contiguous'[f] = contiguous[f],
           contiguous[f] \/ \A k \in 0 .. n - 1 : ChainAt(f, k) # x
    PROVE  \A k \in 0 .. n : ChainAt(f, k)' = ChainAt(f, k)
<1>1. fat \in Table /\ contiguous[f] \in BOOLEAN /\ start[f] \in Int
  BY Constants DEF TypeOK, Table, FREE
<1>2. CASE fat' = fat
  BY <1>2 DEF ChainAt
<1>3. CASE fat' = [fat EXCEPT ![x] = y]
  <2>1. contiguous[f] \/ \A k \in 0 .. n - 1 : ChainFrom(fat, contiguous[f], start[f])[k] # x
    BY DEF ChainAt
  <2>2. \A k \in 0 .. n : ChainFrom([fat EXCEPT ![x] = y], contiguous[f], start[f])[k]
                            = ChainFrom(fat, contiguous[f], start[f])[k]
    BY <1>1, <2>1, ChainElsewhere
  <2>3. \A k : ChainAt(f, k)' = ChainFrom(fat', contiguous'[f], start'[f])[k]
    BY DEF ChainAt
  <2> QED BY <1>3, <2>2, <2>3 DEF ChainAt
<1> QED BY <1>2, <1>3

\* What has happened stays happened.
LEMMA HistoryGrows ==
    ASSUME TypeOK, [Next]_vars
    PROVE  (Unharmed' => Unharmed) /\ (failed => failed')
<1> DEFINE Grows == /\ (descended => descended') /\ (skewed => skewed')
                    /\ (strayed => strayed') /\ (failed => failed')
<1>1. TypeFlags
  BY TypeParts
<1>2. Grows
  <2>1. \A f \in Files, n \in 0 .. MaxSize, e \in BOOLEAN : GrowMore(f, n, e) => Grows
    BY <1>1 DEF TypeFlags, GrowMore, Enter, Called
  <2>2. \A f \in Files, n \in 0 .. MaxSize, e \in BOOLEAN : GrowFirst(f, n, e) => Grows
    BY DEF GrowFirst, Called, Enter
  <2>3. \A f \in Files, n \in 0 .. MaxSize, e \in BOOLEAN : Shrink(f, n, e) => Grows
    BY <1>1 DEF TypeFlags, Shrink, Enter, Crop, Called
  <2>4. \A f \in Files, n \in 0 .. MaxSize : ShrinkBug(f, n) => Grows
    BY <1>1 DEF TypeFlags, ShrinkBug, Called
  <2>5. Advance => Grows
    BY <1>1 DEF TypeFlags, Advance, AdvanceRest
  <2>6. AdvanceDone => Grows
    BY DEF AdvanceDone, AdvanceRest
  <2>7. GrowFrom => Grows
    BY DEF GrowFrom, Return, hist
  <2>8. AllocateNext => Grows
    BY DEF AllocateNext, hist
  <2>9. NoSpace => Grows
    BY DEF NoSpace, Return, hist, Undo, Crop
  <2>10. MakeNoncontiguous => Grows
    BY DEF MakeNoncontiguous, hist, Fail, Return
  <2>11. MadeNoncontiguous => Grows
    BY DEF MadeNoncontiguous, hist
  <2>12. LinkNext => Grows
    BY DEF LinkNext, Linked, Fail, Return
  <2>13. GrowEnd => Grows
    BY DEF GrowEnd, AfterGrowth, Return, Finish
  <2>14. CropAt => Grows
    BY <1>1, CropAtOutcome DEF TypeFlags, GaveUp, Cut
  <2>15. FreeNext => Grows
    BY <1>1, FreeNextOutcome DEF TypeFlags, GaveUp, Released
  <2>16. FreeInvalid => Grows
    BY DEF FreeInvalid, Return, hist
  <2>17. FreeDone => Grows
    BY DEF FreeDone, Return, Finish, hist
  <2>18. EraseFirst => Grows
    BY DEF EraseFirst, Return
  <2>19. EraseNext => Grows
    BY <1>1, EraseNextOutcome DEF TypeFlags, GaveUp, Zeroed, Aborted, hist
  <2>20. EraseDone => Grows
    BY DEF EraseDone, Finish, hist, Return
  <2>21. Flush => Grows
    <3> SUFFICES ASSUME Flush PROVE Grows
      OBVIOUS
    <3>1. UNCHANGED <<descended, skewed, strayed>>
      BY DEF Flush
    <3>2. failed' = failed \/ failed' = TRUE
      BY Zenon DEF Flush
    <3> QED BY <1>1, <3>1, <3>2 DEF TypeFlags
  <2>22. UNCHANGED vars => Grows
    BY DEF vars, hist
  <2> HIDE DEF Grows
  <2> QED BY <2>1, <2>2, <2>3, <2>4, <2>5, <2>6, <2>7, <2>8, <2>9, <2>10, <2>11, <2>12,
       <2>13, <2>14, <2>15, <2>16, <2>17, <2>18, <2>19, <2>20, <2>21, <2>22
          DEF Next, Call, Step
<1> QED BY <1>2 DEF Unharmed

\* The number of clusters of a file is a number.
LEMMA LengthType ==
    ASSUME TypeOK
    PROVE  \A f \in Files : Length(f) \in Nat
BY Constants DEF TypeOK, Length

LEMMA LengthTypeNext ==
    ASSUME TypeOK'
    PROVE  \A f \in Files : Length(f)' \in Nat
BY Constants DEF TypeOK, Length
-----------------------------------------------------------------------------
(***************************************************************************)
(* Apart and Cached, from what a step does to the chains.                  *)
(***************************************************************************)
\* Apart, where nothing known to break the allocator has happened.
LEMMA ApartMeans ==
    ASSUME TypeOK, Unharmed, Apart, NEW f \in Files, NEW k \in 0 .. Length(f) - 1
    PROVE  /\ ~Invalid(ChainAt(f, k)) => ChainAt(f, k) \in bitmap \ System
           /\ ~Invalid(ChainAt(f, k)) =>
                 \A g \in Files : \A j \in 0 .. Length(g) - 1 :
                    ChainAt(g, j) = ChainAt(f, k) => g = f /\ j = k
           /\ Invalid(ChainAt(f, k)) =>
                 ~contiguous[f] /\ (ChainAt(f, k) = END \/ start[f] = FREE)
BY DEF Apart

\* Position k of f is one of the positions that f had, and is where it was.
Stays(f, k) ==
    /\ k < Length(f)
    /\ ChainAt(f, k)' = ChainAt(f, k)
    /\ start'[f] = start[f]
    /\ contiguous'[f] => contiguous[f]
    /\ ~Invalid(ChainAt(f, k)) => ChainAt(f, k) \in bitmap'

\* No cluster moves that a file owns before and after the step, and the chains of the
\* files that the call is not about end where they ended.
Steady ==
    /\ \A f \in Files : \A k \in 0 .. Length(f) - 1 :
          k < Length(f)' => ChainAt(f, k)' = ChainAt(f, k)
    /\ \A f \in Files \ {me'} : \A k \in 0 .. Length(f) : ChainAt(f, k)' = ChainAt(f, k)

LEMMA SameSteady ==
    ASSUME UNCHANGED <<fat, start, contiguous>>
    PROVE  Steady
BY ChainsSame DEF Steady

\* Position k of f is the new cluster c.
Joins(f, k, g, m, c) == f = g /\ k = m /\ ChainAt(f, k)' = c

\* The files stay apart when each position stays or is a new cluster that was nobody's.
LEMMA ApartGrows ==
    ASSUME TypeOK, Unharmed, Apart, System \subseteq bitmap',
           NEW g \in Files, NEW m \in Nat, NEW c \in Clusters,
           c \in bitmap' \ System,
           \A f \in Files : \A k \in 0 .. Length(f) - 1 : ChainAt(f, k) # c,
           \A f \in Files : \A k \in 0 .. Length(f)' - 1 :
              Stays(f, k) \/ Joins(f, k, g, m, c)
    PROVE  Apart'
<1>1. ASSUME NEW f \in Files, NEW k \in 0 .. Length(f)' - 1
      PROVE  /\ ~Invalid(ChainAt(f, k)') =>
                   /\ ChainAt(f, k)' \in bitmap' \ System
                   /\ \A h \in Files : \A j \in 0 .. Length(h)' - 1 :
                         ChainAt(h, j)' = ChainAt(f, k)' => h = f /\ j = k
             /\ Invalid(ChainAt(f, k)') =>
                   ~contiguous'[f] /\ (ChainAt(f, k)' = END \/ start'[f] = FREE)
  <2>1. CASE Stays(f, k)
    <3>1. k \in 0 .. Length(f) - 1
      BY <2>1, LengthType DEF Stays
    <3>2. /\ ~Invalid(ChainAt(f, k)) => ChainAt(f, k) \in bitmap \ System
          /\ Invalid(ChainAt(f, k)) =>
                ~contiguous[f] /\ (ChainAt(f, k) = END \/ start[f] = FREE)
      BY <3>1, ApartMeans
    <3>3. ASSUME ~Invalid(ChainAt(f, k)), NEW h \in Files, NEW j \in 0 .. Length(h)' - 1,
                 ChainAt(h, j)' = ChainAt(f, k)'
          PROVE  h = f /\ j = k
      <4>1. CASE Stays(h, j)
        <5>1. j \in 0 .. Length(h) - 1 /\ ChainAt(h, j) = ChainAt(f, k)
          BY <2>1, <3>3, <4>1, LengthType DEF Stays
        <5> QED BY <3>1, <3>3, <5>1, ApartMeans
      <4>2. CASE Joins(h, j, g, m, c)
        BY <2>1, <3>1, <3>3, <4>2 DEF Stays, Joins
      <4> QED BY <4>1, <4>2
    <3> QED BY <2>1, <3>2, <3>3 DEF Stays
  <2>2. CASE Joins(f, k, g, m, c)
    <3>1. ASSUME NEW h \in Files, NEW j \in 0 .. Length(h)' - 1,
                 ChainAt(h, j)' = ChainAt(f, k)'
          PROVE  h = f /\ j = k
      <4>1. CASE Stays(h, j)
        <5>1. j \in 0 .. Length(h) - 1 /\ ChainAt(h, j) = c
          BY <2>2, <3>1, <4>1, LengthType DEF Stays, Joins
        <5> QED BY <5>1
      <4>2. CASE Joins(h, j, g, m, c)
        BY <2>2, <4>2 DEF Joins
      <4> QED BY <4>1, <4>2
    <3> QED BY <2>2, <3>1 DEF Joins, Invalid
  <2> QED BY <2>1, <2>2
<1> QED BY <1>1 DEF Apart, Invalid

\* Position k of f is behind the end of its chain.
Ends(f, k) ==
    /\ Invalid(ChainAt(f, k)')
    /\ ~contiguous'[f]
    /\ ChainAt(f, k)' = END \/ start'[f] = FREE

\* The files stay apart when each position stays or is behind the end.
LEMMA ApartKeeps ==
    ASSUME TypeOK, Unharmed, Apart, System \subseteq bitmap',
           \A f \in Files : \A k \in 0 .. Length(f)' - 1 : Stays(f, k) \/ Ends(f, k)
    PROVE  Apart'
<1>1. ASSUME NEW f \in Files, NEW k \in 0 .. Length(f)' - 1
      PROVE  /\ ~Invalid(ChainAt(f, k)') =>
                   /\ ChainAt(f, k)' \in bitmap' \ System
                   /\ \A h \in Files : \A j \in 0 .. Length(h)' - 1 :
                         ChainAt(h, j)' = ChainAt(f, k)' => h = f /\ j = k
             /\ Invalid(ChainAt(f, k)') =>
                   ~contiguous'[f] /\ (ChainAt(f, k)' = END \/ start'[f] = FREE)
  <2>1. CASE Ends(f, k)
    BY <2>1 DEF Ends
  <2>2. CASE Stays(f, k)
    <3>1. k \in 0 .. Length(f) - 1
      BY <2>2, LengthType DEF Stays
    <3>2. ASSUME ~Invalid(ChainAt(f, k)), NEW h \in Files, NEW j \in 0 .. Length(h)' - 1,
                 ChainAt(h, j)' = ChainAt(f, k)'
          PROVE  h = f /\ j = k
      <4>1. Stays(h, j)
        BY <2>2, <3>2 DEF Stays, Ends
      <4>2. j \in 0 .. Length(h) - 1 /\ ChainAt(h, j) = ChainAt(f, k)
        BY <2>2, <3>2, <4>1, LengthType DEF Stays
      <4> QED BY <3>1, <3>2, <4>2, ApartMeans
    <3> QED BY <2>2, <3>1, <3>2, ApartMeans DEF Stays
  <2> QED BY <2>1, <2>2
<1> QED BY <1>1 DEF Apart, Invalid

\* A cached position in the file stays right while the chain does.
LEMMA CachedMeans ==
    ASSUME Unharmed, Cached, NEW f \in Files, fptrIndex[f] < Length(f),
           ~(f = me /\ pc = "advance")
    PROVE  fptrCluster[f] = ChainAt(f, fptrIndex[f]) \/ (failed /\ fptrCluster[f] = BAD)
BY DEF Cached

\* A call that returns or aborts, with the files no longer than what they own, or with
\* an error on the way through the clusters to free.
LEMMA Settle ==
    ASSUME TypeOK, TypeOK', Unharmed, Unharmed', Safe, Control',
           pc # "idle", pc # "advance", pc' \in {"idle", "bug"},
           UNCHANGED <<start, contiguous, fptr, bitmap, me>>, failed => failed',
           \A f \in Files \ {me} : size'[f] = size[f],
           size'[me] <= Length(me) \/ (pc = "free" /\ ~contiguous[me]),
           \A f \in Files : \A k \in 0 .. size'[f] - 1 : ChainAt(f, k)' = ChainAt(f, k)
    PROVE  Safe'
<1>1. \A f \in Files : Length(f)' = size'[f] /\ size'[f] \in Nat
  BY Constants DEF Length, TypeOK
<1>2. \A f \in Files \ {me} : Length(f) = size[f]
  BY DEF Length
<1>3. me \in Files /\ Length(me) \in Nat
  BY LengthType DEF TypeOK
<1>4. Amounts'
  BY DEF Amounts, Safe, Growing, At
<1>5. Apart'
  <2>1. System \subseteq bitmap'
    BY DEF Safe, Apart
  <2>2. ASSUME NEW f \in Files, NEW k \in 0 .. Length(f)' - 1
        PROVE  Stays(f, k) \/ Ends(f, k)
    <3>1. ChainAt(f, k)' = ChainAt(f, k) /\ start'[f] = start[f]
          /\ contiguous'[f] = contiguous[f]
      BY <1>1
    <3>2. CASE k < Length(f)
      <4>1. k \in 0 .. Length(f) - 1
        BY <1>1, <3>2, LengthType
      <4> QED BY <3>1, <3>2, <4>1, ApartMeans DEF Stays, Safe
    <3>3. CASE ~(k < Length(f))
      <4>1. f = me /\ pc = "free" /\ ~contiguous[me] /\ Length(me) <= k /\ k \in Nat
        BY <1>1, <1>2, <1>3, <3>3
      <4>2. start[me] = FREE \/ ChainAt(me, Length(me)) = END
        BY <4>1 DEF Safe, Freeing
      <4>3. CASE start[me] = FREE
        <5>1. ChainAt(me, 0) = FREE
          BY <4>3, <1>3, ChainSteps
        <5>2. ChainAt(me, k) = FREE
          BY <5>1, <4>1, <1>3, ChainEnds, Constants DEF Invalid
        <5> QED BY <3>1, <4>1, <4>3, <5>2, Constants DEF Ends, Invalid
      <4>4. CASE ChainAt(me, Length(me)) = END
        <5>1. ChainAt(me, k) = END
          BY <4>1, <4>4, <1>3, ChainEnds, Constants DEF Invalid
        <5> QED BY <3>1, <4>1, <5>1, Constants DEF Ends, Invalid
      <4> QED BY <4>2, <4>3, <4>4
    <3> QED BY <3>2, <3>3
  <2> QED BY <2>1, <2>2, ApartKeeps DEF Safe
<1>6. Place'
  BY DEF Place, Growing, Undoing, Erasing, At
<1>7. Freeing'
  BY DEF Freeing
<1>8. Cached'
  <2>1. ASSUME NEW f \in Files, fptrIndex[f] < size'[f]
        PROVE  fptrCluster[f] = ChainAt(f, fptrIndex[f]) \/ (failed /\ fptrCluster[f] = BAD)
    <3>1. CASE fptrIndex[f] < Length(f)
      BY <3>1, CachedMeans DEF Safe
    <3>2. CASE ~(fptrIndex[f] < Length(f))
      <4>1. f = me /\ pc = "free"
        BY <1>1, <1>2, <1>3, <2>1, <3>2 DEF TypeOK
      <4> QED BY <4>1, ChainSteps DEF Safe, Control
    <3> QED BY <3>1, <3>2
  <2>2. \A f \in Files : fptrIndex[f] \in Nat
    BY DEF TypeOK
  <2>3. fptrIndex' = fptrIndex /\ fptrCluster' = fptrCluster
    BY DEF fptr
  <2>4. ASSUME NEW f \in Files, fptrIndex'[f] < Length(f)'
        PROVE  (fptrCluster[f] = ChainAt(f, fptrIndex[f]) \/ (failed /\ fptrCluster[f] = BAD))'
    <3>1. fptrIndex[f] \in 0 .. size'[f] - 1
      BY <1>1, <2>2, <2>3, <2>4
    <3>2. ChainAt(f, fptrIndex[f])' = ChainAt(f, fptrIndex[f])
      BY <2>3, <3>1 DEF ChainAt
    <3> QED BY <1>1, <2>1, <2>3, <2>4, <3>2
  <2> QED BY <2>4 DEF Cached
<1> QED BY <1>4, <1>5, <1>6, <1>7, <1>8 DEF Safe
-----------------------------------------------------------------------------
(***************************************************************************)
(* The invariant, step by step: calls that end.                            *)
(***************************************************************************)
\* A file keeps its clusters up to its size, unless it is being cut.
LEMMA SizeInLength ==
    ASSUME TypeOK, Unharmed, Safe
    PROVE  size[me] <= Length(me) \/ Keeping
<1>1. size[me] \in Nat /\ allocated \in Nat /\ goal \in Nat
  BY Constants DEF TypeOK
<1>2. Erasing => size[me] < goal
  <2>1. At("erase") => size[me] < goal
    BY DEF Safe, Amounts
  <2>2. pc = "eraseloop" => size[me] < goal
    BY <1>1 DEF Safe, Amounts
  <2> QED BY <2>1, <2>2 DEF Erasing
<1> QED BY <1>1, <1>2 DEF Length

\* The call returns, or aborts, and leaves everything as it is.
LEMMA ReturnSafe ==
    ASSUME TypeOK, TypeOK', Unharmed, Unharmed', Safe, Control',
           pc # "idle", pc # "advance", pc' \in {"idle", "bug"},
           UNCHANGED <<fat, bitmap, nodes, fptr, me>>, failed => failed',
           pc = "free" => undo \/ ~contiguous[me]
    PROVE  Safe'
<1>1. size' = size /\ start' = start /\ contiguous' = contiguous /\ fat' = fat
  BY DEF nodes
<1>2. size'[me] <= Length(me) \/ (pc = "free" /\ ~contiguous[me])
  BY <1>1, SizeInLength DEF Keeping
<1>3. \A f \in Files : \A k \in 0 .. size'[f] - 1 : ChainAt(f, k)' = ChainAt(f, k)
  BY <1>1, ChainsSame
<1> QED BY <1>1, <1>2, <1>3, Settle

\* The call returns and stores the new size.
LEMMA FinishSafe ==
    ASSUME TypeOK, TypeOK', Unharmed, Unharmed', Safe, Control',
           pc # "idle", pc # "advance", Finish, goal <= Length(me),
           UNCHANGED <<fat, bitmap, start, contiguous, fptr, failed>>
    PROVE  Safe'
<1>1. /\ size' = [size EXCEPT ![me] = goal] /\ pc' = "idle" /\ me' = me
      /\ me \in Files /\ size \in [Files -> 0 .. MaxSize]
  BY DEF Finish, Return, TypeOK
<1>2. /\ \A f \in Files \ {me} : size'[f] = size[f]
      /\ size'[me] <= Length(me)
  BY <1>1
<1>3. \A f \in Files : \A k \in 0 .. size'[f] - 1 : ChainAt(f, k)' = ChainAt(f, k)
  BY ChainsSame
<1> QED BY <1>1, <1>2, <1>3, Settle

LEMMA GaveUpSafe ==
    ASSUME TypeOK, TypeOK', Unharmed, Unharmed', Safe, Control', GaveUp,
           pc # "idle", pc # "advance", pc = "free" => undo \/ ~contiguous[me]
    PROVE  Safe' /\ Steady
<1>1. pc' = "idle" /\ UNCHANGED <<fat, bitmap, nodes, fptr, me>>
  BY DEF GaveUp, Return, disk
<1>2. failed => failed'
  BY DEF GaveUp
<1>3. Safe'
  BY <1>1, <1>2, ReturnSafe
<1>4. Steady
  BY <1>1, SameSteady DEF nodes
<1> QED BY <1>3, <1>4

LEMMA FreeInvalidSafe ==
    ASSUME TypeOK, TypeOK', Unharmed, Unharmed', Safe, Control', FreeInvalid
    PROVE  Safe'
<1>1. /\ pc = "free" /\ pc' = "idle" /\ failed' = failed
      /\ UNCHANGED <<fat, bitmap, nodes, fptr, me>>
  BY DEF FreeInvalid, Return, disk, hist
<1>2. 0 \in 0 .. difference - 1 /\ Rest(0) = previous /\ Invalid(previous)
  BY RestSteps DEF FreeInvalid, TypeOK
<1>3. ~contiguous[me]
  BY <1>1, <1>2 DEF Safe, Freeing
<1> QED BY <1>1, <1>3, ReturnSafe

LEMMA FreeDoneSafe ==
    ASSUME TypeOK, TypeOK', Unharmed, Unharmed', Safe, Control', FreeDone
    PROVE  Safe'
<1>1. /\ pc = "free" /\ UNCHANGED <<fat, bitmap, start, contiguous, fptr, failed>>
  BY DEF FreeDone, disk, hist
<1>2. CASE undo
  BY <1>1, <1>2, ReturnSafe DEF FreeDone, Return, nodes
<1>3. CASE ~undo
  <2>1. Length(me) = goal /\ goal \in Nat
    BY <1>1, <1>3, Constants DEF Length, Keeping, Growing, Undoing, At, TypeOK
  <2>2. Finish
    BY <1>3 DEF FreeDone
  <2> QED BY <1>1, <2>1, <2>2, FinishSafe
<1> QED BY <1>2, <1>3

LEMMA EraseDoneSafe ==
    ASSUME TypeOK, TypeOK', Unharmed, Unharmed', Safe, Control', EraseDone
    PROVE  Safe'
<1>1. /\ pc = "eraseloop" /\ Finish
      /\ UNCHANGED <<fat, bitmap, start, contiguous, fptr, failed>>
  BY DEF EraseDone, disk, hist
<1>2. Length(me) = goal /\ goal \in Nat
  BY <1>1, Constants DEF Length, Keeping, Growing, Undoing, At, Erasing, TypeOK
<1> QED BY <1>1, <1>2, FinishSafe
-----------------------------------------------------------------------------
(***************************************************************************)
(* Steps that go on with the same clusters, and walks.                     *)
(***************************************************************************)
\* Nothing is written and nothing given back: the files stay apart.
LEMMA SameApart ==
    ASSUME TypeOK, TypeOK', Unharmed, Safe, UNCHANGED <<fat, start, contiguous>>,
           bitmap \subseteq bitmap', \A f \in Files : Length(f)' <= Length(f)
    PROVE  Apart'
<1>1. System \subseteq bitmap'
  BY DEF Safe, Apart
<1>2. ASSUME NEW f \in Files, NEW k \in 0 .. Length(f)' - 1
      PROVE  Stays(f, k)
  <2>0. Length(f)' <= Length(f)
    OBVIOUS
  <2>1. k < Length(f) /\ k \in 0 .. Length(f) - 1
    <3>1. Length(f) \in Nat
      BY LengthType
    <3>2. Length(f)' \in Nat
      BY LengthTypeNext
    <3> QED BY <2>0, <3>1, <3>2
  <2>2. ChainAt(f, k)' = ChainAt(f, k)
    BY ChainsSame
  <2>3. ~Invalid(ChainAt(f, k)) => ChainAt(f, k) \in bitmap'
    BY <2>1, ApartMeans DEF Safe
  <2> QED BY <2>1, <2>2, <2>3 DEF Stays
<1> QED BY <1>1, <1>2, ApartKeeps DEF Safe

\* The positions that are cached stay right, the chains and the positions being the same.
LEMMA SameCached ==
    ASSUME TypeOK, TypeOK', Unharmed, Safe, pc' # "advance", failed => failed',
           \A f \in Files : f # me \/ pc # "advance",
           UNCHANGED fptr, \A f \in Files : Length(f)' <= Length(f),
           \A f \in Files : \A k \in 0 .. Length(f)' - 1 : ChainAt(f, k)' = ChainAt(f, k)
    PROVE  Cached'
<1>1. ASSUME NEW f \in Files, fptrIndex'[f] < Length(f)'
      PROVE  (fptrCluster[f] = ChainAt(f, fptrIndex[f]) \/ (failed /\ fptrCluster[f] = BAD))'
  <2>1. fptrIndex' = fptrIndex /\ fptrCluster' = fptrCluster /\ fptrIndex[f] \in Nat
    BY DEF fptr, TypeOK
  <2>2. Length(f)' \in Nat /\ Length(f) \in Nat /\ Length(f)' <= Length(f)
    BY LengthType, LengthTypeNext
  <2>3. fptrIndex[f] < Length(f) /\ fptrIndex[f] \in 0 .. Length(f)' - 1
    BY <1>1, <2>1, <2>2
  <2>4. fptrCluster[f] = ChainAt(f, fptrIndex[f]) \/ (failed /\ fptrCluster[f] = BAD)
    BY <2>3, CachedMeans DEF Safe
  <2>5. ChainAt(f, fptrIndex[f])' = ChainAt(f, fptrIndex[f])
    BY <2>1, <2>3 DEF ChainAt
  <2> QED BY <2>1, <2>4, <2>5
<1> QED BY <1>1 DEF Cached

\* exfat_advance_cluster begins: from the cached position, or from the start when that
\* lies behind the target.
LEMMA WalkCached ==
    ASSUME TypeOK, TypeOK', Unharmed, Safe, NEW g \in Files, NEW target \in Nat, NEW to,
           CallAdvance(g, target, to), me' = g, pc # "advance", target < Length(g),
           failed => failed', start' = start,
           \A f \in Files : Length(f)' <= Length(f),
           \A f \in Files : \A k \in 0 .. Length(f) - 1 : ChainAt(f, k)' = ChainAt(f, k)
    PROVE  Cached' /\ i' <= count' /\ count' = target /\ pc' = "advance" /\ back' = to
<1>0. count' = target /\ pc' = "advance" /\ back' = to
  BY DEF CallAdvance
<1>1. /\ fptrIndex \in [Files -> Nat] /\ fptrCluster \in [Files -> Int]
      /\ \A f \in Files : Length(f) \in Nat
  BY LengthType DEF TypeOK
<1>2. i' \in 0 .. target
  BY <1>1 DEF CallAdvance, fptr
<1>3. fptrCluster'[g] = ChainAt(g, i)' \/ (failed' /\ fptrCluster'[g] = BAD)
  <2>1. CASE fptrIndex[g] > target
    <3>1. i' = 0 /\ fptrCluster'[g] = start[g]
      BY <1>1, <2>1 DEF CallAdvance
    <3>2. 0 \in 0 .. Length(g) - 1 /\ ChainAt(g, 0) = start[g]
      BY <1>1, ChainSteps
    <3>3. ChainAt(g, 0)' = start[g]
      BY <3>2
    <3> QED BY <3>1, <3>3 DEF ChainAt
  <2>2. CASE ~(fptrIndex[g] > target)
    <3>1. i' = fptrIndex[g] /\ fptrCluster' = fptrCluster /\ fptrIndex[g] < Length(g)
          /\ fptrIndex[g] \in 0 .. Length(g) - 1
      BY <1>1, <2>2 DEF CallAdvance, fptr
    <3>2. fptrCluster[g] = ChainAt(g, fptrIndex[g]) \/ (failed /\ fptrCluster[g] = BAD)
      BY <3>1, CachedMeans DEF Safe
    <3>3. \A k \in 0 .. Length(g) - 1 : ChainAt(g, k)' = ChainAt(g, k)
      OBVIOUS
    <3>4. ChainAt(g, i)' = ChainAt(g, fptrIndex[g])
      BY <3>1, <3>3 DEF ChainAt
    <3> QED BY <3>1, <3>2, <3>4
  <2> QED BY <2>1, <2>2
<1>4. ASSUME NEW f \in Files, f # g, fptrIndex'[f] < Length(f)'
      PROVE  (fptrCluster[f] = ChainAt(f, fptrIndex[f]) \/ (failed /\ fptrCluster[f] = BAD))'
  <2>1. fptrIndex'[f] = fptrIndex[f] /\ fptrCluster'[f] = fptrCluster[f]
        /\ fptrIndex[f] \in Nat
    BY <1>1, <1>4 DEF CallAdvance, fptr
  <2>2. Length(f)' \in Nat /\ Length(f) \in Nat /\ Length(f)' <= Length(f)
    BY LengthType, LengthTypeNext
  <2>3. fptrIndex[f] < Length(f) /\ fptrIndex[f] \in 0 .. Length(f) - 1
    BY <1>4, <2>1, <2>2
  <2>4. fptrCluster[f] = ChainAt(f, fptrIndex[f]) \/ (failed /\ fptrCluster[f] = BAD)
    BY <2>3, CachedMeans DEF Safe
  <2>5. ChainAt(f, fptrIndex[f])' = ChainAt(f, fptrIndex[f])
    BY <2>1, <2>3 DEF ChainAt
  <2> QED BY <2>1, <2>4, <2>5
<1>5. Cached'
  BY <1>0, <1>3, <1>4 DEF Cached
<1> QED BY <1>0, <1>2, <1>5
-----------------------------------------------------------------------------
(***************************************************************************)
(* The invariant, step by step: calls that begin, and walks.               *)
(***************************************************************************)
\* The call shrinks file g to nothing: all its clusters are to be freed.
LEMMA CropAll ==
    ASSUME TypeOK, TypeOK', Unharmed, Unharmed', Safe, NEW g \in Files,
           pc # "advance", pc' = "free", me' = g, previous' = start[g],
           start' = [start EXCEPT ![g] = FREE], RewindEmpty(g),
           Length(g)' = 0, difference' = Length(g),
           \A f \in Files \ {g} : Length(f)' = Length(f),
           UNCHANGED <<fat, bitmap, contiguous, failed>>
    PROVE  Apart' /\ Place' /\ Freeing' /\ Cached' /\ Steady
<1>0. /\ \A f \in Files : Length(f) \in Nat /\ start'[f] = IF f = g THEN FREE ELSE start[f]
      /\ \A f \in Files : fptrIndex'[f] = IF f = g THEN 0 ELSE fptrIndex[f]
      /\ \A f \in Files : fptrCluster'[f] = IF f = g THEN FREE ELSE fptrCluster[f]
      /\ \A f \in Files : fptrIndex[f] \in Nat
  BY LengthType DEF TypeOK, RewindEmpty
<1>1. \A f \in Files \ {g} : \A k : ChainAt(f, k)' = ChainAt(f, k)
  BY <1>0 DEF ChainAt
<1>2. Apart'
  <2>1. System \subseteq bitmap'
    BY DEF Safe, Apart
  <2>2. ASSUME NEW f \in Files, NEW k \in 0 .. Length(f)' - 1
        PROVE  Stays(f, k)
    <3>1. f # g /\ Length(f)' = Length(f) /\ k \in 0 .. Length(f) - 1
      <4>1. f # g
        BY <2>2
      <4> QED BY <4>1
    <3>2. ~Invalid(ChainAt(f, k)) => ChainAt(f, k) \in bitmap
      BY <3>1, ApartMeans DEF Safe
    <3>3. k < Length(f)
      BY <3>1, <1>0
    <3> QED BY <3>1, <3>2, <3>3, <1>0, <1>1 DEF Stays
  <2> QED BY <2>1, <2>2, ApartKeeps DEF Safe
<1>3. Place'
  BY DEF Place, Growing, Undoing, Erasing, At
<1>4. Freeing'
  <2>1. ASSUME NEW j \in Nat
        PROVE  Rest(j)' = ChainAt(g, j)
    BY DEF Rest, ChainAt
  <2>2. ASSUME NEW j \in 0 .. difference' - 1
        PROVE  /\ ~Invalid(Rest(j)') =>
                     /\ Rest(j)' \in bitmap' \ System
                     /\ \A k \in 0 .. difference' - 1 : Rest(k)' = Rest(j)' => k = j
                     /\ \A f \in Files : \A k \in 0 .. Length(f)' - 1 :
                           ChainAt(f, k)' # Rest(j)'
               /\ Invalid(Rest(j)') => ~contiguous'[g]
    <3>1. j \in 0 .. Length(g) - 1 /\ Rest(j)' = ChainAt(g, j)
      BY <2>1, <1>0
    <3>2. ASSUME ~Invalid(ChainAt(g, j)), NEW k \in 0 .. difference' - 1,
                 Rest(k)' = Rest(j)'
          PROVE  k = j
      <4>1. k \in 0 .. Length(g) - 1 /\ Rest(k)' = ChainAt(g, k)
        BY <2>1, <1>0
      <4> QED BY <3>1, <3>2, <4>1, ApartMeans DEF Safe
    <3>3. ASSUME ~Invalid(ChainAt(g, j)), NEW f \in Files, NEW k \in 0 .. Length(f)' - 1
          PROVE  ChainAt(f, k)' # Rest(j)'
      <4>1. f # g
        BY <3>3
      <4>2. k \in 0 .. Length(f) - 1 /\ ChainAt(f, k)' = ChainAt(f, k)
        BY <4>1, <1>1
      <4> QED BY <3>1, <3>3, <4>1, <4>2, ApartMeans DEF Safe
    <3> QED BY <3>1, <3>2, <3>3, ApartMeans DEF Safe
  <2>3. start'[g] = FREE
    BY <1>0
  <2> QED BY <2>2, <2>3 DEF Freeing, Invalid
<1>5. Cached'
  <2>1. ASSUME NEW f \in Files, fptrIndex'[f] < Length(f)'
        PROVE  (fptrCluster[f] = ChainAt(f, fptrIndex[f]) \/ (failed /\ fptrCluster[f] = BAD))'
    <3>1. f # g
      <4>1. fptrIndex'[g] = 0
        BY <1>0
      <4> QED BY <2>1, <4>1
    <3>2. fptrIndex'[f] = fptrIndex[f] /\ fptrCluster'[f] = fptrCluster[f]
          /\ fptrIndex[f] < Length(f)
      BY <1>0, <2>1, <3>1
    <3>3. fptrCluster[f] = ChainAt(f, fptrIndex[f]) \/ (failed /\ fptrCluster[f] = BAD)
      BY <3>2, CachedMeans DEF Safe
    <3>4. ChainAt(f, fptrIndex[f])' = ChainAt(f, fptrIndex[f])
      BY <1>0, <3>1, <3>2 DEF ChainAt
    <3> QED BY <3>2, <3>3, <3>4
  <2> QED BY <2>1 DEF Cached
<1>6. Steady
  BY <1>0, <1>1 DEF Steady
<1> QED BY <1>2, <1>3, <1>4, <1>5, <1>6

\* A call is made of a volume where the files with a start are those with a size.
LEMMA CalledFits ==
    ASSUME TypeOK, Unharmed', Called
    PROVE  \A f \in Files : size[f] = 0 <=> start[f] = FREE
<1>1. ~Skew
  <2>1. skewed' = (skewed \/ Skew) /\ ~skewed'
    BY DEF Called, Unharmed
  <2> QED BY <2>1, Zenon
<1> QED BY <1>1 DEF Skew

LEMMA GrowMoreSafe ==
    ASSUME TypeOK, TypeOK', Unharmed, Unharmed', Safe, Control',
           NEW f \in Files, NEW n \in 0 .. MaxSize, NEW e \in BOOLEAN, GrowMore(f, n, e)
    PROVE  Safe'
<1>1. /\ pc = "idle" /\ Called /\ me' = f /\ goal' = n /\ size[f] < n /\ start[f] # FREE
      /\ difference' = n - size[f] /\ undo' = undo /\ allocated' = allocated
      /\ UNCHANGED <<fat, bitmap, nodes, failed>>
  BY DEF GrowMore, Enter, Called, disk
<1>2. UNCHANGED <<start, size, contiguous>>
  BY <1>1 DEF nodes
<1>3. \A g \in Files : size[g] = 0 <=> start[g] = FREE
  BY <1>1, CalledFits
<1>4. size[f] \in Nat /\ size[f] > 0 /\ size[f] - 1 \in Nat
  BY <1>1, <1>3, Constants DEF TypeOK
<1>5. \A g \in Files : Length(g) = size[g] /\ size[g] \in Nat
  BY <1>1, Constants DEF Length, TypeOK
<1>6. CallAdvance(f, size[f] - 1, "grow")
  BY <1>4 DEF GrowMore
<1>7. pc' = "advance" /\ back' = "grow"
  BY <1>6 DEF CallAdvance
<1>8. \A g \in Files : Length(g)' = Length(g)
  BY <1>2, <1>5, <1>7 DEF Length, Growing, Undoing, Keeping, Erasing, At
<1>9. \A g \in Files : \A k : ChainAt(g, k)' = ChainAt(g, k)
  BY <1>1, <1>2, ChainsSame
<1>10. Cached' /\ i' <= count' /\ count' = size[f] - 1
  <2>1. size[f] - 1 < Length(f)
    BY <1>4, <1>5
  <2>2. \A g \in Files : Length(g)' <= Length(g)
    BY <1>5, <1>8
  <2>3. pc # "advance" /\ failed' = failed /\ start' = start
    BY <1>1, <1>2
  <2> QED BY <1>1, <1>4, <1>6, <1>9, <2>1, <2>2, <2>3, WalkCached
<1>11. Apart'
  <2>1. \A g \in Files : Length(g)' <= Length(g)
    BY <1>5, <1>8
  <2>2. bitmap \subseteq bitmap' /\ UNCHANGED <<fat, start, contiguous>>
    BY <1>1, <1>2
  <2> QED BY <2>1, <2>2, SameApart
<1>12. Amounts'
  <2>1. ~undo' /\ allocated' = 0
    BY <1>1 DEF Safe, Control
  <2>2. Length(f)' = size[f]
    BY <1>5, <1>8
  <2> HIDE DEF Length
  <2>3. count' < Length(me)'
    BY <1>1, <1>2, <1>4, <1>7, <1>10 DEF Length, Growing, Undoing, Keeping, Erasing, At
  <2> QED BY <1>1, <1>2, <1>3, <1>4, <1>7, <1>10, <2>1, <2>3 DEF Amounts, Growing, At
<1>13. Place' /\ Freeing'
  BY <1>7 DEF Place, Freeing, Growing, Undoing, Erasing, At
<1> QED BY <1>10, <1>11, <1>12, <1>13 DEF Safe

LEMMA GrowFirstSafe ==
    ASSUME TypeOK, TypeOK', Unharmed, Unharmed', Safe, Control',
           NEW f \in Files, NEW n \in 0 .. MaxSize, NEW e \in BOOLEAN, GrowFirst(f, n, e)
    PROVE  Safe' /\ Steady
<1>1. /\ pc = "idle" /\ Called /\ me' = f /\ size[f] < n /\ start[f] = FREE
      /\ fptrIndex[f] = 0 /\ failed' = failed
  BY DEF GrowFirst, Enter, Called
<1>2. \A g \in Files : size[g] = 0 <=> start[g] = FREE
  BY <1>1, CalledFits
<1>3. \A g \in Files : Length(g) = size[g] /\ size[g] \in Nat
  BY <1>1, Constants DEF Length, TypeOK
<1>4. size[f] = 0
  BY <1>1, <1>2
<1>5. CASE Invalid(Allocate(FREE))
  <2>1. pc' = "idle" /\ UNCHANGED <<fat, bitmap, nodes, fptr>>
    BY <1>1, <1>5 DEF GrowFirst, disk
  <2>2. UNCHANGED <<start, size, contiguous>>
    BY <2>1 DEF nodes
  <2>3. \A g \in Files : Length(g)' = Length(g)
    BY <1>3, <2>1, <2>2 DEF Length
  <2>4. \A g \in Files : Length(g)' <= Length(g)
    BY <1>3, <2>3
  <2>5. Apart'
    BY <2>1, <2>2, <2>4, SameApart
  <2>6. Cached'
    <3>1. \A g \in Files : \A k : ChainAt(g, k)' = ChainAt(g, k)
      BY <2>1, <2>2, ChainsSame
    <3> QED BY <1>1, <2>1, <2>4, <3>1, SameCached
  <2>7. Amounts' /\ Place' /\ Freeing'
    BY <2>1 DEF Amounts, Place, Freeing, Growing, Undoing, Erasing, At
  <2>8. Steady
    BY <2>1, <2>2, SameSteady
  <2> QED BY <2>5, <2>6, <2>7, <2>8 DEF Safe
<1>6. CASE ~Invalid(Allocate(FREE))
  <2> DEFINE c == Allocate(FREE)
  <2>0. c \in Clusters /\ c \notin bitmap
    <3>1. FREE \in Int
      BY DEF FREE
    <3> QED BY <1>6, <3>1, AllocateFree, Constants DEF Invalid
  <2>1. /\ bitmap' = bitmap \cup {c} /\ fat' = fat /\ size' = size
        /\ start' = [start EXCEPT ![f] = c]
        /\ fptrCluster' = [fptrCluster EXCEPT ![f] = c] /\ fptrIndex' = fptrIndex
        /\ contiguous' = [contiguous EXCEPT ![f] = TRUE]
        /\ difference' = n - size[f] /\ allocated' = 1 /\ previous' = c
        /\ pc' = "growloop" /\ undo' = undo /\ goal' = n
    BY <1>6 DEF GrowFirst, Enter, Take
  <2> HIDE DEF c
  <2>2. /\ \A g \in Files : start'[g] = IF g = f THEN c ELSE start[g]
        /\ \A g \in Files : contiguous'[g] = IF g = f THEN TRUE ELSE contiguous[g]
        /\ \A g \in Files : fptrCluster'[g] = IF g = f THEN c ELSE fptrCluster[g]
        /\ \A g \in Files : fptrIndex[g] \in Nat
    BY <2>1 DEF TypeOK
  <2>3. \A g \in Files \ {f} : \A k : ChainAt(g, k)' = ChainAt(g, k)
    BY <2>1, <2>2 DEF ChainAt
  <2>4. \A g \in Files : Length(g)' = IF g = f THEN 1 ELSE Length(g)
    BY <1>1, <1>3, <1>4, <2>1 DEF Length, Growing
  <2>5. ChainAt(f, 0)' = c
    <3>1. fat' \in Table /\ contiguous'[f] \in BOOLEAN /\ start'[f] \in Int /\ start'[f] = c
      BY <2>0, <2>1, <2>2, Constants DEF TypeOK, Table
    <3> QED BY <3>1, ChainLaw DEF ChainAt
  <2>6. \A g \in Files : \A k \in 0 .. Length(g) - 1 : ChainAt(g, k) # c
    <3> SUFFICES ASSUME NEW g \in Files, NEW k \in 0 .. Length(g) - 1
                 PROVE  ChainAt(g, k) # c
      OBVIOUS
    <3>1. ~Invalid(ChainAt(g, k)) => ChainAt(g, k) \in bitmap
      BY ApartMeans DEF Safe
    <3> QED BY <2>0, <3>1 DEF Invalid
  <2>7. System \subseteq bitmap
    BY DEF Safe, Apart
  <2>8. Apart'
    <3>1. ASSUME NEW g \in Files, NEW k \in 0 .. Length(g)' - 1
          PROVE  Stays(g, k) \/ Joins(g, k, f, 0, c)
      <4>1. CASE g = f
        <5>1. k = 0
          BY <2>4, <4>1
        <5> QED BY <2>5, <4>1, <5>1 DEF Joins
      <4>2. CASE g # f
        <5>1. k \in 0 .. Length(g) - 1
          BY <2>4, <4>2
        <5>2. ~Invalid(ChainAt(g, k)) => ChainAt(g, k) \in bitmap
          BY <5>1, ApartMeans DEF Safe
        <5>3. k < Length(g)
          BY <5>1, <1>3
        <5> QED BY <2>1, <2>2, <2>3, <4>2, <5>2, <5>3 DEF Stays
      <4> QED BY <4>1, <4>2
    <3>2. System \subseteq bitmap' /\ c \in bitmap' \ System /\ 0 \in Nat
      BY <2>0, <2>1, <2>7
    <3> QED BY <2>0, <2>6, <3>1, <3>2, ApartGrows DEF Safe
  <2>9. Amounts'
    <3>1. ~undo'
      BY <1>1, <2>1 DEF Safe, Control
    <3> QED BY <1>1, <1>2, <1>4, <2>1, <2>2, <3>1 DEF Amounts, Growing, At
  <2>10. Place'
    <3>1. Length(me)' = 1
      BY <1>1, <2>4, <1>3, <1>4, <2>1 DEF Length, Growing
    <3>2. ChainAt(me, 0)' = previous'
      BY <1>1, <2>1, <2>5 DEF ChainAt
    <3>3. ChainAt(me, Length(me) - 1)' = previous'
      <4>1. (Length(me) - 1)' = 0
        BY <3>1
      <4> HIDE DEF Length
      <4> QED BY <3>2, <4>1 DEF ChainAt
    <3> QED BY <2>1, <3>3 DEF Place, Growing, Undoing, Erasing, At
  <2>11. Freeing'
    BY <2>1 DEF Freeing
  <2>12. Cached'
    <3>1. ASSUME NEW g \in Files, fptrIndex'[g] < Length(g)'
          PROVE  (fptrCluster[g] = ChainAt(g, fptrIndex[g])
                    \/ (failed /\ fptrCluster[g] = BAD))'
      <4>1. CASE g = f
        <5>1. fptrIndex'[f] = 0 /\ fptrCluster'[f] = c
          BY <1>1, <2>1, <2>2
        <5> QED BY <2>5, <4>1, <5>1 DEF ChainAt
      <4>2. CASE g # f
        <5>1. fptrIndex'[g] = fptrIndex[g] /\ fptrCluster'[g] = fptrCluster[g]
              /\ fptrIndex[g] < Length(g)
          BY <2>1, <2>2, <2>4, <3>1, <4>2
        <5>2. fptrCluster[g] = ChainAt(g, fptrIndex[g])
              \/ (failed /\ fptrCluster[g] = BAD)
          BY <1>1, <5>1, CachedMeans DEF Safe
        <5>3. ChainAt(g, fptrIndex[g])' = ChainAt(g, fptrIndex[g])
          BY <2>1, <2>2, <4>2 DEF ChainAt
        <5> QED BY <1>1, <5>1, <5>2, <5>3
      <4> QED BY <4>1, <4>2
    <3> QED BY <2>1, <3>1 DEF Cached
  <2>13. Steady
    <3>1. Length(f) = 0
      BY <1>3, <1>4
    <3> QED BY <1>1, <2>3, <3>1 DEF Steady
  <2> QED BY <2>8, <2>9, <2>10, <2>11, <2>12, <2>13 DEF Safe
<1> QED BY <1>5, <1>6

LEMMA ShrinkSafe ==
    ASSUME TypeOK, TypeOK', Unharmed, Unharmed', Safe, Control',
           NEW f \in Files, NEW n \in 0 .. MaxSize, NEW e \in BOOLEAN, Shrink(f, n, e)
    PROVE  Safe' /\ Steady
<1>1. /\ pc = "idle" /\ Called /\ me' = f /\ goal' = n /\ n < size[f] /\ start[f] # FREE
      /\ Crop(f, size[f], size[f] - n) /\ undo' = undo /\ allocated' = allocated
  BY DEF Shrink, Enter, Crop
<1>2. /\ difference' = size[f] - n /\ failed' = failed
      /\ UNCHANGED <<fat, bitmap, size, contiguous>>
  BY <1>1 DEF Crop, disk, Called
<1>3. \A g \in Files : size[g] = 0 <=> start[g] = FREE
  BY <1>1, CalledFits
<1>4. n \in Nat /\ size[f] \in Nat
  BY Constants DEF TypeOK
<1>5. \A g \in Files : Length(g) = size[g] /\ size[g] \in Nat
  BY <1>1, Constants DEF Length, TypeOK
<1>6. ~undo'
  BY <1>1 DEF Safe, Control
<1>7. CASE size[f] > size[f] - n
  <2>1. CallAdvance(f, n - 1, "crop") /\ start' = start /\ n > 0 /\ n - 1 \in Nat
    <3>1. CallAdvance(f, LastKept(size[f], size[f] - n), "crop") /\ start' = start
      BY <1>1, <1>4, <1>7 DEF Crop
    <3>2. LastKept(size[f], size[f] - n) = n - 1
      BY <1>4 DEF LastKept
    <3> QED BY <3>1, <3>2, <1>4, <1>7
  <2>2. pc' = "advance" /\ back' = "crop"
    BY <2>1 DEF CallAdvance
  <2>3. \A g \in Files : Length(g)' = Length(g)
    BY <1>2, <1>5, <1>6, <2>2 DEF Length, Growing, Undoing, Keeping, Erasing, At
  <2>4. \A g \in Files : Length(g)' <= Length(g)
    BY <1>5, <2>3
  <2>5. Apart'
    BY <1>2, <2>1, <2>4, SameApart
  <2>6. Cached' /\ i' <= count' /\ count' = n - 1
    <3>1. \A g \in Files : \A k : ChainAt(g, k)' = ChainAt(g, k)
      BY <1>2, <2>1, ChainsSame
    <3>2. n - 1 < Length(f) /\ pc # "advance"
      BY <1>1, <1>4, <1>5
    <3> QED BY <1>1, <1>2, <2>1, <2>4, <3>1, <3>2, WalkCached
  <2>7. Amounts'
    <3>1. count' < Length(me)'
      BY <1>1, <1>2, <1>4, <1>6, <2>2, <2>6 DEF Length, Growing, Undoing, Keeping, Erasing, At
    <3> HIDE DEF Length
    <3> QED BY <1>1, <1>2, <1>3, <1>4, <1>6, <2>1, <2>2, <2>6, <3>1 DEF Amounts, Growing, At
  <2>8. Place' /\ Freeing'
    BY <1>6, <2>2 DEF Place, Freeing, Growing, Undoing, Erasing, At
  <2>9. Steady
    BY <1>2, <2>1, SameSteady
  <2> QED BY <2>5, <2>6, <2>7, <2>8, <2>9 DEF Safe
<1>8. CASE ~(size[f] > size[f] - n)
  <2>1. /\ n = 0 /\ previous' = start[f] /\ start' = [start EXCEPT ![f] = FREE]
        /\ RewindEmpty(f) /\ pc' = "free"
    BY <1>1, <1>4, <1>8 DEF Crop
  <2>2. \A g \in Files : Length(g)' = IF g = f THEN 0 ELSE Length(g)
    BY <1>1, <1>2, <1>5, <1>6, <2>1 DEF Length, Growing, Undoing, Keeping, Erasing, At
  <2>3. difference' = Length(f)
    BY <1>2, <1>4, <1>5, <2>1
  <2>4. \A g \in Files : start'[g] = IF g = f THEN FREE ELSE start[g]
    BY <2>1 DEF TypeOK
  <2>5. Apart' /\ Place' /\ Freeing' /\ Cached' /\ Steady
    <3>1. Length(f)' = 0 /\ \A g \in Files \ {f} : Length(g)' = Length(g)
      BY <2>2
    <3>2. pc # "advance"
      BY <1>1
    <3> QED BY <1>1, <1>2, <2>1, <2>3, <3>1, <3>2, CropAll
  <2>6. Amounts'
    <3>1. Length(me)' = 0
      BY <1>1, <2>1, <1>6 DEF Length, Growing, Undoing, Keeping, Erasing, At
    <3> HIDE DEF Length
    <3> QED BY <1>1, <1>2, <1>3, <1>6, <2>1, <2>4, <3>1 DEF Amounts, Growing, At
  <2> QED BY <2>5, <2>6 DEF Safe
<1> QED BY <1>7, <1>8

\* exfat_bug("unable to shrink empty file") needs a file that has a size and no start.
LEMMA ShrinkBugNever ==
    ASSUME TypeOK, Unharmed', NEW f \in Files, NEW n \in 0 .. MaxSize, ShrinkBug(f, n)
    PROVE  FALSE
<1>1. \A g \in Files : size[g] = 0 <=> start[g] = FREE
  BY CalledFits DEF ShrinkBug
<1> QED BY <1>1, Constants DEF ShrinkBug, TypeOK

LEMMA AdvanceSafe ==
    ASSUME TypeOK, TypeOK', Unharmed, Unharmed', Safe, Control', Advance
    PROVE  Safe'
<1>1. /\ pc = "advance" /\ i < count /\ UNCHANGED AdvanceRest
      /\ strayed' = (strayed \/ Invalid(fptrCluster[me]))
  BY DEF Advance
<1>2. PICK c \in NextClusters(me, fptrCluster[me]) :
         /\ IF Invalid(c)
            THEN SetFptr(count, c) /\ AdvanceEnds
            ELSE SetFptr(fptrIndex[me], c) /\ i' = i + 1 /\ UNCHANGED <<pc, count, back>>
         /\ failed' = (failed \/ (c = BAD /\ ~contiguous[me]))
  BY DEF Advance
<1>3. /\ UNCHANGED <<fat, bitmap, start, size, contiguous, me, goal, erase, difference,
                     allocated, previous, next, undo>>
  BY <1>1 DEF AdvanceRest, disk, nodes, args, locals
<1>4. ~Invalid(fptrCluster[me])
  <2>1. strayed' = (strayed \/ Invalid(fptrCluster[me])) /\ ~strayed'
    BY <1>1 DEF Unharmed
  <2> QED BY <2>1, Zenon
<1>5. /\ me \in Files /\ i \in Nat /\ count \in Nat /\ fptrIndex \in [Files -> Nat]
      /\ fptrCluster \in [Files -> Int] /\ back \in {"grow", "crop", "erase"}
      /\ i <= count /\ count < Length(me) /\ Length(me) \in Nat
  BY <1>1, LengthType DEF TypeOK, Safe, Control, Amounts
<1>6. (failed => failed') /\ (c = BAD /\ ~contiguous[me] => failed')
  <2>1. failed' = (failed \/ (c = BAD /\ ~contiguous[me]))
    BY <1>2
  <2> QED BY <2>1, Zenon
<1>7. fptrCluster[me] = ChainAt(me, i)
  <2>1. fptrCluster[me] = ChainAt(me, i) \/ fptrCluster[me] = BAD
    BY <1>1 DEF Safe, Cached
  <2> QED BY <1>4, <2>1, Constants DEF Invalid
<1>8. c = ChainAt(me, i + 1) \/ (c = BAD /\ failed')
  <2>1. ChainAt(me, i + 1) = Follow(fat, contiguous[me], fptrCluster[me])
    BY <1>5, <1>7, ChainSteps
  <2>2. c = Follow(fat, contiguous[me], fptrCluster[me]) \/ (c = BAD /\ ~contiguous[me])
    BY <1>4, NextFollows
  <2> QED BY <1>6, <2>1, <2>2
<1>9. \A f \in Files : \A k : ChainAt(f, k)' = ChainAt(f, k)
  BY <1>3, ChainsSame
<1>10. \/ pc' = "advance" /\ back' = back /\ count' = count /\ i' = i + 1
          /\ ~Invalid(c) /\ SetFptr(fptrIndex[me], c)
       \/ pc' = back /\ Invalid(c) /\ SetFptr(count, c)
  BY <1>1, <1>2 DEF AdvanceEnds
<1>11. \A l : l \in {"grow", "crop", "erase"} => (At(l)' <=> At(l))
  BY <1>1, <1>5, <1>10 DEF At
<1>12. (Undoing' <=> Undoing) /\ (Erasing' <=> Erasing) /\ ~Growing' /\ ~Keeping'
       /\ ~Growing /\ ~Keeping /\ pc' \notin {"idle", "bug", "free", "eraseloop"}
  BY <1>1, <1>3, <1>5, <1>10, <1>11 DEF Undoing, Erasing, Growing, Keeping, At
<1>13. \A f \in Files : Length(f)' = Length(f)
  BY <1>1, <1>3, <1>12 DEF Length
<1>14. \A f \in Files : Length(f)' <= Length(f)
  BY <1>13, LengthType
<1>15. Apart'
  BY <1>3, <1>14, SameApart
<1>16. Amounts'
  <2>1. Length(me)' = Length(me)
    BY <1>1, <1>3, <1>12 DEF Length
  <2>2. At("grow") => 0 < size[me] /\ size[me] < goal /\ ~undo
                     /\ allocated = 0 /\ difference = goal - size[me]
    BY DEF Safe, Amounts
  <2>3. At("crop") /\ ~undo => 0 < goal /\ goal < size[me] /\ difference = size[me] - goal
    BY DEF Safe, Amounts
  <2>4. At("crop") /\ undo => /\ 0 < size[me] /\ size[me] < goal
                              /\ difference = allocated /\ 0 < allocated
    BY DEF Safe, Amounts
  <2>5. At("erase") => size[me] < goal /\ ~undo /\ erase
    BY DEF Safe, Amounts
  <2>6. count = IF back = "grow" THEN size[me] - 1
                ELSE IF back = "erase" THEN size[me]
                ELSE IF undo THEN size[me] - 1 ELSE goal - 1
    BY <1>1 DEF Safe, Amounts
  <2>7. \A f \in Files \ {me} : size[f] = 0 <=> start[f] = FREE
    BY <1>1 DEF Safe, Amounts
  <2>8. (pc = "advance" => i <= count /\ count < Length(me))'
    BY <1>1, <1>5, <1>10, <2>1
  <2>9. (pc \in {"grow", "crop", "erase"} =>
          fptrIndex[me] = IF pc = "grow" \/ (pc = "crop" /\ undo) THEN size[me] - 1
                          ELSE IF pc = "erase" THEN size[me] ELSE goal - 1)'
    <3>1. CASE pc' = "advance"
      BY <3>1
    <3>2. CASE pc' # "advance"
      <4>1. pc' = back /\ fptrIndex'[me] = count
        BY <1>5, <1>10, <3>2 DEF SetFptr
      <4> QED BY <1>3, <1>5, <2>6, <4>1
    <3> QED BY <3>1, <3>2
  <2>10. pc' = "advance" => back' = back /\ count' = count
    BY <1>5, <1>10
  <2> HIDE DEF Length
  <2> QED BY <1>3, <1>11, <1>12, <2>2, <2>3, <2>4, <2>5, <2>6, <2>7, <2>8, <2>9, <2>10
          DEF Amounts, Growing
<1>17. Place'
  <2>1. Undoing \/ Erasing => ~Invalid(ChainAt(me, Length(me) - 1))
    BY DEF Safe, Place
  <2>2. (Length(me) - 1)' = Length(me) - 1
    BY <1>1, <1>3, <1>12 DEF Length
  <2>3. ChainAt(me, Length(me) - 1)' = ChainAt(me, Length(me) - 1)
    BY <1>3, <2>2 DEF ChainAt
  <2>4. (Undoing \/ Erasing => ~Invalid(ChainAt(me, Length(me) - 1)))'
    BY <1>12, <2>1, <2>3 DEF Invalid
  <2> QED BY <1>12, <2>4 DEF Place, Growing
<1>18. Freeing'
  BY <1>12 DEF Freeing
<1>19. Cached'
  <2>1. fptrCluster'[me] = c
        /\ \A f \in Files \ {me} : fptrCluster'[f] = fptrCluster[f]
                                   /\ fptrIndex'[f] = fptrIndex[f]
    BY <1>5, <1>10 DEF SetFptr
  <2>2. ASSUME NEW f \in Files, f # me, fptrIndex'[f] < Length(f)'
        PROVE  (fptrCluster[f] = ChainAt(f, fptrIndex[f])
                  \/ (failed /\ fptrCluster[f] = BAD))'
    <3>1. fptrCluster[f] = ChainAt(f, fptrIndex[f]) \/ (failed /\ fptrCluster[f] = BAD)
      BY <1>13, <2>1, <2>2, CachedMeans DEF Safe
    <3>2. ChainAt(f, fptrIndex[f])' = ChainAt(f, fptrIndex[f])
      BY <1>3, <2>1, <2>2 DEF ChainAt
    <3> QED BY <1>6, <2>1, <2>2, <3>1, <3>2
  <2>3. CASE pc' = "advance"
    <3>1. i' = i + 1 /\ fptrCluster'[me] = c
      BY <1>5, <1>10, <2>1, <2>3
    <3>2. ChainAt(me, i)' = ChainAt(me, i + 1)
      BY <1>3, <3>1 DEF ChainAt
    <3>3. (fptrCluster[me] = ChainAt(me, i) \/ (failed /\ fptrCluster[me] = BAD))'
      BY <1>3, <1>8, <3>1, <3>2
    <3> QED BY <1>3, <2>2, <2>3, <3>3 DEF Cached
  <2>4. CASE pc' # "advance"
    <3>1. Invalid(c) /\ fptrIndex'[me] = count
      BY <1>5, <1>10, <2>4 DEF SetFptr
    <3>2. c = ChainAt(me, count) \/ (c = BAD /\ failed')
      <4>1. i + 1 \in Nat /\ i + 1 <= count
        BY <1>1, <1>5
      <4> QED BY <1>5, <1>8, <3>1, <4>1, ChainEnds
    <3>3. ChainAt(me, fptrIndex[me])' = ChainAt(me, count)
      BY <1>3, <3>1 DEF ChainAt
    <3>4. (fptrCluster[me] = ChainAt(me, fptrIndex[me])
             \/ (failed /\ fptrCluster[me] = BAD))'
      BY <1>3, <2>1, <3>2, <3>3
    <3> QED BY <1>3, <2>2, <2>4, <3>4 DEF Cached
  <2> QED BY <2>3, <2>4
<1> QED BY <1>15, <1>16, <1>17, <1>18, <1>19 DEF Safe

LEMMA AdvanceDoneSafe ==
    ASSUME TypeOK, TypeOK', Unharmed, Unharmed', Safe, Control', AdvanceDone
    PROVE  Safe'
<1>1. /\ pc = "advance" /\ i >= count /\ pc' = back /\ failed' = failed
      /\ SetFptr(count, fptrCluster[me])
      /\ UNCHANGED <<fat, bitmap, start, size, contiguous, me, goal, erase, difference,
                     allocated, previous, next, undo>>
  BY DEF AdvanceDone, AdvanceEnds, AdvanceRest, disk, nodes, args, locals
<1>2. /\ me \in Files /\ i \in Nat /\ count \in Nat /\ fptrIndex \in [Files -> Nat]
      /\ fptrCluster \in [Files -> Int] /\ back \in {"grow", "crop", "erase"}
      /\ i <= count /\ count < Length(me) /\ Length(me) \in Nat
  BY <1>1, LengthType DEF TypeOK, Safe, Control, Amounts
<1>3. \A f \in Files : \A k : ChainAt(f, k)' = ChainAt(f, k)
  BY <1>1, ChainsSame
<1>4. \A l : l \in {"grow", "crop", "erase"} => (At(l)' <=> At(l))
  BY <1>1, <1>2 DEF At
<1>5. (Undoing' <=> Undoing) /\ (Erasing' <=> Erasing) /\ ~Growing' /\ ~Keeping'
      /\ ~Growing /\ ~Keeping
      /\ pc' \notin {"idle", "bug", "free", "eraseloop", "advance"}
  BY <1>1, <1>2, <1>4 DEF Undoing, Erasing, Growing, Keeping, At
<1>6. \A f \in Files : Length(f)' = Length(f)
  BY <1>1, <1>5 DEF Length
<1>7. \A f \in Files : Length(f)' <= Length(f)
  BY <1>6, LengthType
<1>8. Apart'
  BY <1>1, <1>7, SameApart
<1>9. fptrIndex'[me] = count /\ fptrCluster'[me] = fptrCluster[me]
      /\ \A f \in Files \ {me} : fptrCluster'[f] = fptrCluster[f]
                                 /\ fptrIndex'[f] = fptrIndex[f]
  BY <1>1, <1>2 DEF SetFptr
<1>10. Amounts'
  <2>1. At("grow") => 0 < size[me] /\ size[me] < goal /\ ~undo
                     /\ allocated = 0 /\ difference = goal - size[me]
    BY DEF Safe, Amounts
  <2>2. At("crop") /\ ~undo => 0 < goal /\ goal < size[me] /\ difference = size[me] - goal
    BY DEF Safe, Amounts
  <2>3. At("crop") /\ undo => /\ 0 < size[me] /\ size[me] < goal
                              /\ difference = allocated /\ 0 < allocated
    BY DEF Safe, Amounts
  <2>4. At("erase") => size[me] < goal /\ ~undo /\ erase
    BY DEF Safe, Amounts
  <2>5. count = IF back = "grow" THEN size[me] - 1
                ELSE IF back = "erase" THEN size[me]
                ELSE IF undo THEN size[me] - 1 ELSE goal - 1
    BY <1>1 DEF Safe, Amounts
  <2>6. \A f \in Files \ {me} : size[f] = 0 <=> start[f] = FREE
    BY <1>1 DEF Safe, Amounts
  <2>7. (pc \in {"grow", "crop", "erase"} =>
          fptrIndex[me] = IF pc = "grow" \/ (pc = "crop" /\ undo) THEN size[me] - 1
                          ELSE IF pc = "erase" THEN size[me] ELSE goal - 1)'
    BY <1>1, <1>2, <1>9, <2>5
  <2> QED BY <1>1, <1>4, <1>5, <2>1, <2>2, <2>3, <2>4, <2>6, <2>7 DEF Amounts, Growing
<1>11. Place'
  <2>1. Undoing \/ Erasing => ~Invalid(ChainAt(me, Length(me) - 1))
    BY DEF Safe, Place
  <2>2. (Length(me) - 1)' = Length(me) - 1
    BY <1>1, <1>5 DEF Length
  <2>3. ChainAt(me, Length(me) - 1)' = ChainAt(me, Length(me) - 1)
    BY <1>1, <2>2 DEF ChainAt
  <2>4. (Undoing \/ Erasing => ~Invalid(ChainAt(me, Length(me) - 1)))'
    BY <1>5, <2>1, <2>3 DEF Invalid
  <2> QED BY <1>5, <2>4 DEF Place, Growing
<1>12. Freeing'
  BY <1>5 DEF Freeing
<1>13. Cached'
  <2>1. ASSUME NEW f \in Files, f # me, fptrIndex'[f] < Length(f)'
        PROVE  (fptrCluster[f] = ChainAt(f, fptrIndex[f])
                  \/ (failed /\ fptrCluster[f] = BAD))'
    <3>1. fptrCluster[f] = ChainAt(f, fptrIndex[f]) \/ (failed /\ fptrCluster[f] = BAD)
      BY <1>6, <1>9, <2>1, CachedMeans DEF Safe
    <3>2. ChainAt(f, fptrIndex[f])' = ChainAt(f, fptrIndex[f])
      BY <1>1, <1>9, <2>1 DEF ChainAt
    <3> QED BY <1>1, <1>9, <2>1, <3>1, <3>2
  <2>2. (fptrCluster[me] = ChainAt(me, fptrIndex[me])
             \/ (failed /\ fptrCluster[me] = BAD))'
    <3>1. i = count
      BY <1>1, <1>2
    <3>2. fptrCluster[me] = ChainAt(me, count) \/ (failed /\ fptrCluster[me] = BAD)
      BY <1>1, <3>1 DEF Safe, Cached
    <3>3. ChainAt(me, fptrIndex[me])' = ChainAt(me, count)
      BY <1>1, <1>9 DEF ChainAt
    <3> QED BY <1>1, <1>9, <3>2, <3>3
  <2> QED BY <1>1, <1>5, <2>1, <2>2 DEF Cached
<1> QED BY <1>8, <1>10, <1>11, <1>12, <1>13 DEF Safe

LEMMA FlushSafe ==
    ASSUME TypeOK, TypeOK', Unharmed, Unharmed', Safe, Control', Flush
    PROVE  Safe'
<1>1. /\ pc = "idle" /\ pc' = "idle"
      /\ UNCHANGED <<fat, bitmap, start, size, contiguous, fptr>>
  BY DEF Flush, nodes
<1>2. failed => failed'
  BY DEF Flush, hist
<1>3. \A f \in Files : Length(f)' = Length(f)
  BY <1>1 DEF Length
<1>4. \A f \in Files : Length(f)' <= Length(f)
  BY <1>3, LengthType
<1>5. Apart'
  BY <1>1, <1>4, SameApart
<1>6. Cached'
  <2>1. \A f \in Files : \A k : ChainAt(f, k)' = ChainAt(f, k)
    BY <1>1, ChainsSame
  <2> QED BY <1>1, <1>2, <1>4, <2>1, SameCached
<1>7. Amounts' /\ Place' /\ Freeing'
  BY <1>1 DEF Amounts, Place, Freeing, Growing, Undoing, Erasing, At
<1> QED BY <1>5, <1>6, <1>7 DEF Safe

LEMMA StutterSafe ==
    ASSUME Safe, UNCHANGED vars
    PROVE  Safe'
<1>1. UNCHANGED <<fat, bitmap, start, size, contiguous, fptrIndex, fptrCluster, pc, me,
                  goal, erase, difference, allocated, previous, next, count, i, back,
                  undo, erased, failed, descended, skewed, strayed>>
  BY DEF vars, disk, nodes, fptr, args, locals, walk, hist
<1>2. UNCHANGED <<Growing, Undoing, Erasing, Keeping, Unharmed>>
  BY <1>1 DEF Growing, Undoing, Erasing, Keeping, At, Unharmed
<1>3. \A l : At(l)' = At(l)
  BY <1>1 DEF At
<1>4. \A f : Length(f)' = Length(f)
  BY <1>1, <1>2 DEF Length
<1>5. \A f, k : ChainAt(f, k)' = ChainAt(f, k)
  BY <1>1 DEF ChainAt
<1>6. \A j : Rest(j)' = Rest(j)
  BY <1>1 DEF Rest
<1> QED BY <1>1, <1>2, <1>3, <1>4, <1>5, <1>6
        DEF Safe, Control, Amounts, Apart, Place, Freeing, Cached, Length, ChainAt, Rest
-----------------------------------------------------------------------------
(***************************************************************************)
(* The invariant, step by step: growth.                                    *)
(***************************************************************************)
\* The clusters of a contiguous file are a row.
LEMMA RowAt ==
    ASSUME TypeOK, Unharmed, Safe, NEW f \in Files, contiguous[f]
    PROVE  /\ \A k \in 0 .. Length(f) - 1 : ~Invalid(ChainAt(f, k))
           /\ \A k \in 0 .. Length(f) : ChainAt(f, k) = start[f] + k
           /\ \A k \in 0 .. Length(f) : ChainAt(f, k) = ChainFrom(fat, TRUE, start[f])[k]
<1>1. \A k \in 0 .. Length(f) - 1 : ~Invalid(ChainAt(f, k))
  BY ApartMeans DEF Safe
<1>2. fat \in Table /\ start[f] \in Int /\ Length(f) \in Nat /\ contiguous[f] = TRUE
  BY Constants, LengthType DEF TypeOK, Table, FREE
<1>3. \A k : ChainAt(f, k) = ChainFrom(fat, TRUE, start[f])[k]
  BY <1>2 DEF ChainAt
<1>4. \A k \in 0 .. Length(f) - 1 : ~Invalid(ChainFrom(fat, TRUE, start[f])[k])
  BY <1>1, <1>3, Zenon
<1>5. \A k \in 0 .. Length(f) : ChainFrom(fat, TRUE, start[f])[k] = start[f] + k
  BY <1>2, <1>4, ChainInARow
<1> QED BY <1>1, <1>3, <1>5

LEMMA GrowFromSafe ==
    ASSUME TypeOK, TypeOK', Unharmed, Unharmed', Safe, Control', GrowFrom
    PROVE  Safe'
<1>1. /\ pc = "grow" /\ UNCHANGED <<fat, bitmap, nodes, fptr, failed>>
  BY DEF GrowFrom, disk, hist
<1>2. CASE Invalid(fptrCluster[me])
  <2>1. pc' = "idle" /\ me' = me
    BY <1>2 DEF GrowFrom, Return
  <2> QED BY <1>1, <2>1, ReturnSafe
<1>3. CASE ~Invalid(fptrCluster[me])
  <2>1. /\ previous' = fptrCluster[me] /\ pc' = "growloop"
        /\ UNCHANGED <<me, goal, erase, difference, allocated, undo, start, size,
                       contiguous>>
    BY <1>1, <1>3 DEF GrowFrom, args, nodes
  <2>2. /\ 0 < size[me] /\ size[me] < goal /\ ~undo /\ allocated = 0
        /\ difference = goal - size[me] /\ fptrIndex[me] = size[me] - 1
        /\ \A f \in Files \ {me} : size[f] = 0 <=> start[f] = FREE
    BY <1>1 DEF Safe, Amounts, At
  <2>3. me \in Files /\ goal \in Nat /\ \A f \in Files : size[f] \in Nat
    BY Constants DEF TypeOK
  <2>4. \A f \in Files : Length(f) = size[f] /\ Length(f)' = size[f]
    BY <1>1, <2>1, <2>2, <2>3 DEF Length, Growing, Undoing, Keeping, Erasing, At
  <2>5. \A f \in Files : Length(f)' <= Length(f)
    BY <2>3, <2>4
  <2>6. Apart'
    BY <1>1, <2>1, <2>5, SameApart
  <2>7. Cached'
    <3>1. \A f \in Files : \A k : ChainAt(f, k)' = ChainAt(f, k)
      BY <1>1, <2>1, ChainsSame
    <3> QED BY <1>1, <2>1, <2>5, <3>1, SameCached
  <2>8. Amounts'
    BY <1>1, <2>1, <2>2, <2>3 DEF Amounts, Growing, At, fptr
  <2>9. Place'
    <3>1. fptrCluster[me] = ChainAt(me, size[me] - 1)
      <4>1. fptrCluster[me] = ChainAt(me, fptrIndex[me])
            \/ (failed /\ fptrCluster[me] = BAD)
        <5>1. fptrIndex[me] < Length(me) /\ pc # "advance"
          BY <1>1, <2>2, <2>3, <2>4
        <5> QED BY <2>3, <5>1, CachedMeans DEF Safe
      <4> QED BY <1>3, <2>2, <4>1, Constants DEF Invalid
    <3>2. (Length(me) - 1)' = size[me] - 1
      BY <2>1, <2>2, <2>3 DEF Length, Growing
    <3>3. ChainAt(me, Length(me) - 1)' = ChainAt(me, size[me] - 1)
      BY <1>1, <2>1, <3>2 DEF ChainAt
    <3> QED BY <2>1, <3>1, <3>3 DEF Place, Growing, Undoing, Erasing, At
  <2>10. Freeing'
    BY <2>1 DEF Freeing
  <2> QED BY <2>6, <2>7, <2>8, <2>9, <2>10 DEF Safe
<1> QED BY <1>2, <1>3

\* What holds in the loop of grow_file.
LEMMA GrowingMeans ==
    ASSUME TypeOK, Unharmed, Safe, Growing
    PROVE  /\ me \in Files /\ size[me] \in Nat /\ goal \in Nat /\ allocated \in Nat
           /\ difference \in Nat
           /\ size[me] < goal /\ ~undo /\ difference = goal - size[me]
           /\ allocated <= difference /\ size[me] + allocated > 0
           /\ fptrIndex[me] < size[me] + allocated
           /\ Length(me) = size[me] + allocated
           /\ \A f \in Files \ {me} : size[f] = 0 <=> start[f] = FREE
           /\ previous \in Clusters /\ start[me] \in Clusters
           /\ ChainAt(me, Length(me) - 1) = previous
<1>1. me \in Files /\ size[me] \in Nat /\ goal \in Nat /\ allocated \in Nat
      /\ difference \in Nat /\ fptrIndex[me] \in Nat
  BY Constants DEF TypeOK
<1>2. pc \notin {"idle", "bug", "free"}
  BY DEF Growing
<1> QED BY <1>1, <1>2 DEF Safe, Amounts, Place, Control, Length

LEMMA AllocateNextSafe ==
    ASSUME TypeOK, TypeOK', Unharmed, Unharmed', Safe, Control', AllocateNext
    PROVE  Safe'
<1> DEFINE c == Allocate(previous + 1)
<1>1. /\ pc = "growloop" /\ allocated < difference /\ ~Invalid(c) /\ next' = c
      /\ bitmap' = bitmap \cup {c}
      /\ \/ contiguous[me] /\ pc' = "noncontiguous" /\ i' = start[me]
         \/ (contiguous[me] => c = previous - 1) /\ pc' = "link"
      /\ UNCHANGED <<fat, start, size, contiguous, fptr, me, goal, erase, difference,
                     allocated, previous, undo, failed>>
  BY DEF AllocateNext, Take, nodes, args, hist
<1>2. c \in Clusters /\ c \notin bitmap
  <2>1. previous + 1 \in Int
    BY DEF TypeOK
  <2> QED BY <1>1, <2>1, AllocateFree, Constants DEF Invalid
<1> HIDE DEF c
<1>3. Growing /\ Growing'
  BY <1>1 DEF Growing
<1>4. \A f \in Files : Length(f)' = Length(f)
  BY <1>1, <1>3 DEF Length, Growing
<1>5. \A f \in Files : Length(f)' <= Length(f)
  BY <1>4, LengthType
<1>6. Apart'
  BY <1>1, <1>5, SameApart
<1>7. \A f \in Files : \A k : ChainAt(f, k)' = ChainAt(f, k)
  BY <1>1, ChainsSame
<1>8. Cached'
  BY <1>1, <1>5, <1>7, SameCached
<1>9. Amounts'
  BY <1>1, <1>3, GrowingMeans DEF Amounts, Growing, At, fptr
<1>10. Place'
  <2>1. ChainAt(me, Length(me) - 1)' = previous'
    <3>1. (Length(me) - 1)' = Length(me) - 1
      BY <1>1, <1>3 DEF Length, Growing
    <3>2. ChainAt(me, Length(me) - 1)' = ChainAt(me, Length(me) - 1)
      BY <1>1, <3>1 DEF ChainAt
    <3> QED BY <1>1, <1>3, <3>2, GrowingMeans
  <2>2. next' \in bitmap' \ System
    BY <1>1, <1>2 DEF Safe, Apart
  <2>3. \A f \in Files : \A k \in 0 .. Length(f)' - 1 : ChainAt(f, k)' # next'
    <3>1. ASSUME NEW f \in Files, NEW k \in 0 .. Length(f)' - 1
          PROVE  ChainAt(f, k)' # next'
      <4>1. k \in 0 .. Length(f) - 1
        BY <1>4
      <4>2. ~Invalid(ChainAt(f, k)) => ChainAt(f, k) \in bitmap
        BY <4>1, ApartMeans DEF Safe
      <4> QED BY <1>1, <1>2, <1>7, <4>2 DEF Invalid
    <3> QED BY <3>1
  <2>4. (pc = "noncontiguous" =>
          contiguous[me] /\ \A j \in start[me] .. i - 1 : j < previous => fat[j] = j + 1)'
    <3>1. start[me] \in Nat
      BY <1>3, GrowingMeans, Constants
    <3> QED BY <1>1, <3>1
  <2>5. (pc = "link" /\ contiguous[me] => next = previous - 1)'
    BY <1>1
  <2>6. (pc # "eraseloop" /\ ~Undoing /\ ~Erasing)'
    BY <1>1 DEF Undoing, Erasing, At
  <2> QED BY <2>1, <2>2, <2>3, <2>4, <2>5, <2>6 DEF Place
<1>11. Freeing'
  BY <1>1 DEF Freeing
<1> QED BY <1>6, <1>8, <1>9, <1>10, <1>11 DEF Safe

\* make_noncontiguous writes entries of the file's own clusters only.
LEMMA MakeNoncontiguousSafe ==
    ASSUME TypeOK, TypeOK', Unharmed, Unharmed', Safe, Control', MakeNoncontiguous
    PROVE  Safe' /\ Steady
<1>1. pc = "noncontiguous" /\ i < previous /\ (GaveUp \/ EntryWritten)
  BY MakeNoncontiguousOutcome
<1>2. CASE GaveUp
  BY <1>1, <1>2, GaveUpSafe
<1>3. CASE EntryWritten
  <2>1. /\ fat' = [fat EXCEPT ![i] = i + 1] /\ i' = i + 1
        /\ UNCHANGED <<bitmap, start, size, contiguous, fptr, pc, me, goal, erase,
                       difference, allocated, previous, next, undo, failed>>
    BY <1>3 DEF EntryWritten, nodes, args, locals, hist
  <2>2. Growing /\ Growing'
    BY <1>1, <2>1 DEF Growing
  <2>3. \A f \in Files : Length(f)' = Length(f)
    BY <2>1, <2>2 DEF Length, Growing
  <2>4. \A f \in Files : Length(f)' <= Length(f)
    BY <2>3, LengthType
  <2>5. /\ contiguous[me] /\ start[me] <= i
        /\ start[me] \in Clusters /\ previous \in Clusters /\ me \in Files
        /\ i \in Nat /\ Length(me) \in Nat
        /\ ChainAt(me, Length(me) - 1) = previous /\ Length(me) > 0
        /\ \A j \in start[me] .. i - 1 : j < previous => fat[j] = j + 1
        /\ next \in bitmap \ System
        /\ \A f \in Files : \A k \in 0 .. Length(f) - 1 : ChainAt(f, k) # next
    BY <1>1, <2>2, GrowingMeans, LengthType DEF Safe, Place, Control, TypeOK
  <2>6. previous = start[me] + Length(me) - 1 /\ i - start[me] \in 0 .. Length(me) - 1
        /\ ChainAt(me, i - start[me]) = i
    <3>1. \A k \in 0 .. Length(me) : ChainAt(me, k) = start[me] + k
      BY <2>5, RowAt
    <3>2. start[me] \in Nat /\ previous \in Nat
      BY <2>5, Constants
    <3>3. previous = start[me] + Length(me) - 1
      <4>1. Length(me) - 1 \in 0 .. Length(me)
        BY <2>5
      <4> QED BY <2>5, <3>1, <3>2, <4>1
    <3>4. i - start[me] \in 0 .. Length(me) - 1 /\ i - start[me] \in 0 .. Length(me)
      BY <1>1, <2>5, <3>2, <3>3
    <3> QED BY <2>5, <3>1, <3>2, <3>3, <3>4
  <2>7. i \in Clusters /\ i + 1 \in FatEntry
    <3>1. i \in Nat /\ start[me] \in Nat /\ previous \in Nat /\ ClusterCount \in Nat
      BY <2>5, Constants
    <3> QED BY <1>1, <2>5, <3>1 DEF Clusters, FIRST_DATA_CLUSTER, LastCluster, FatEntry
  <2>8. \A f \in Files : \A k \in 0 .. Length(f) : ChainAt(f, k)' = ChainAt(f, k)
    <3>1. ASSUME NEW f \in Files
          PROVE  contiguous[f] \/ \A k \in 0 .. Length(f) - 1 : ChainAt(f, k) # i
      <4>1. CASE f = me
        BY <2>5, <4>1
      <4>2. ASSUME f # me, NEW k \in 0 .. Length(f) - 1
            PROVE  ChainAt(f, k) # i
        BY <2>5, <2>6, <2>7, <4>2, ApartMeans DEF Safe, Invalid
      <4> QED BY <4>1, <4>2
    <3>2. ASSUME NEW f \in Files
          PROVE  \A k \in 0 .. Length(f) : ChainAt(f, k)' = ChainAt(f, k)
      <4>1. Length(f) \in Nat
        BY LengthType
      <4> QED BY <2>1, <2>7, <3>1, <4>1, ChainKeeps
    <3> QED BY <3>2
  <2>9. Apart'
    <3>1. System \subseteq bitmap'
      BY <2>1 DEF Safe, Apart
    <3>2. ASSUME NEW f \in Files, NEW k \in 0 .. Length(f)' - 1
          PROVE  Stays(f, k)
      <4>1. k \in 0 .. Length(f) - 1 /\ k < Length(f) /\ k \in 0 .. Length(f)
        BY <2>3, LengthType
      <4>2. ~Invalid(ChainAt(f, k)) => ChainAt(f, k) \in bitmap
        BY <4>1, ApartMeans DEF Safe
      <4> QED BY <2>1, <2>8, <4>1, <4>2 DEF Stays
    <3> QED BY <3>1, <3>2, ApartKeeps DEF Safe
  <2>10. Cached'
    <3>1. \A f \in Files : \A k \in 0 .. Length(f)' - 1 : ChainAt(f, k)' = ChainAt(f, k)
      BY <2>3, <2>8, LengthType
    <3> QED BY <1>1, <2>1, <2>4, <3>1, SameCached
  <2>11. Amounts'
    <3>1. allocated < difference
      BY <1>1 DEF Safe, Amounts
    <3> QED BY <1>1, <2>1, <2>2, <3>1, GrowingMeans DEF Amounts, Growing, At, fptr
  <2>12. Place'
    <3>1. ChainAt(me, Length(me) - 1)' = previous'
      <4>1. (Length(me) - 1)' = Length(me) - 1
        BY <2>1, <2>2 DEF Length, Growing
      <4>2. Length(me) - 1 \in 0 .. Length(me)
        BY <2>5
      <4>3. ChainAt(me, Length(me) - 1)' = ChainAt(me, Length(me) - 1)
        <5>1. \A k \in 0 .. Length(me) :
                 ChainAt(me, k) = ChainFrom(fat', contiguous'[me], start'[me])[k]
          BY <2>5, <2>8 DEF ChainAt
        <5> QED BY <2>1, <4>1, <4>2, <5>1 DEF ChainAt
      <4> QED BY <2>1, <2>5, <4>3
    <3>2. \A f \in Files : \A k \in 0 .. Length(f)' - 1 : ChainAt(f, k)' # next'
      <4>1. ASSUME NEW f \in Files, NEW k \in 0 .. Length(f)' - 1
            PROVE  ChainAt(f, k)' # next'
        <5>1. k \in 0 .. Length(f) - 1 /\ k \in 0 .. Length(f)
          BY <2>3, LengthType
        <5> QED BY <2>1, <2>5, <2>8, <5>1
      <4> QED BY <4>1
    <3>3. \A j \in start[me] .. i' - 1 : j < previous => fat'[j] = j + 1
      <4>1. ASSUME NEW j \in start[me] .. i' - 1, j < previous
            PROVE  fat'[j] = j + 1
        <5>0. start[me] \in Nat
          BY <2>5, Constants
        <5>1. CASE j = i
          BY <2>1, <2>7, <5>1 DEF TypeOK
        <5>2. CASE j # i
          <6>1. j \in start[me] .. i - 1
            BY <2>1, <2>5, <5>0, <5>2
          <6>2. fat[j] = j + 1
            BY <2>5, <4>1, <6>1
          <6> QED BY <2>1, <2>7, <5>2, <6>2 DEF TypeOK
        <5> QED BY <5>1, <5>2
      <4> QED BY <4>1
    <3> QED BY <1>1, <2>1, <2>5, <3>1, <3>2, <3>3 DEF Place, Growing, Undoing, Erasing, At
  <2>13. Freeing'
    BY <1>1, <2>1 DEF Freeing
  <2>14. Steady
    BY <2>8, LengthType DEF Steady
  <2> QED BY <2>9, <2>10, <2>11, <2>12, <2>13, <2>14 DEF Safe
<1> QED BY <1>1, <1>2, <1>3

\* When the table says what the row was, the file can be marked as not contiguous.
LEMMA MadeNoncontiguousSafe ==
    ASSUME TypeOK, TypeOK', Unharmed, Unharmed', Safe, Control', MadeNoncontiguous
    PROVE  Safe' /\ Steady
<1>1. /\ pc = "noncontiguous" /\ i >= previous /\ pc' = "link"
      /\ contiguous' = [contiguous EXCEPT ![me] = FALSE]
      /\ UNCHANGED <<fat, bitmap, start, size, fptr, me, goal, erase, difference,
                     allocated, previous, next, undo, failed>>
  BY DEF MadeNoncontiguous, disk, args, locals, hist
<1>2. Growing /\ Growing'
  BY <1>1 DEF Growing
<1>3. \A f \in Files : Length(f)' = Length(f)
  BY <1>1, <1>2 DEF Length, Growing
<1>4. \A f \in Files : Length(f)' <= Length(f)
  BY <1>3, LengthType
<1>5. /\ contiguous[me] /\ start[me] \in Clusters /\ previous \in Clusters /\ me \in Files
      /\ i \in Nat /\ Length(me) \in Nat
      /\ ChainAt(me, Length(me) - 1) = previous /\ Length(me) > 0
      /\ \A j \in start[me] .. i - 1 : j < previous => fat[j] = j + 1
      /\ next \in bitmap \ System
      /\ \A f \in Files : \A k \in 0 .. Length(f) - 1 : ChainAt(f, k) # next
  BY <1>1, <1>2, GrowingMeans, LengthType DEF Safe, Place, TypeOK
<1>6. \A f \in Files : contiguous'[f] = IF f = me THEN FALSE ELSE contiguous[f]
  BY <1>1 DEF TypeOK
<1>7. \A f \in Files : \A k \in 0 .. Length(f) - 1 : ChainAt(f, k)' = ChainAt(f, k)
  <2>1. \A f \in Files \ {me} : \A k : ChainAt(f, k)' = ChainAt(f, k)
    BY <1>1, <1>6 DEF ChainAt
  <2>2. \A k \in 0 .. Length(me) - 1 : ChainFrom(fat, FALSE, start[me])[k] = ChainAt(me, k)
    <3>1. /\ \A k \in 0 .. Length(me) - 1 : ~Invalid(ChainAt(me, k))
          /\ \A k \in 0 .. Length(me) : ChainAt(me, k) = start[me] + k
          /\ \A k \in 0 .. Length(me) : ChainAt(me, k) = ChainFrom(fat, TRUE, start[me])[k]
      BY <1>5, RowAt
    <3>2. fat \in Table /\ start[me] \in Nat /\ Length(me) - 1 \in Nat
          /\ Length(me) - 1 \in 0 .. Length(me)
      <4>1. fat \in Table
        BY DEF TypeOK, Table
      <4>2. start[me] \in Nat
        BY <1>5, Constants
      <4>3. Length(me) - 1 \in Nat /\ Length(me) - 1 \in 0 .. Length(me)
        BY <1>5
      <4> QED BY <4>1, <4>2, <4>3
    <3>3. previous = start[me] + (Length(me) - 1)
      BY <1>5, <3>1, <3>2
    <3>4. ASSUME NEW k \in 0 .. (Length(me) - 1) - 1
          PROVE  /\ ~Invalid(ChainFrom(fat, TRUE, start[me])[k])
                 /\ fat[start[me] + k] = start[me] + k + 1
      <4>1. k \in 0 .. Length(me) - 1 /\ k \in 0 .. Length(me) /\ k \in Nat
        BY <1>5
      <4>2. start[me] + k \in start[me] .. i - 1 /\ start[me] + k < previous
        BY <1>1, <1>5, <3>2, <3>3
      <4> QED BY <1>5, <3>1, <4>1, <4>2
    <3>5. \A k \in 0 .. Length(me) - 1 : ChainFrom(fat, FALSE, start[me])[k]
                                           = ChainFrom(fat, TRUE, start[me])[k]
      <4>1. start[me] \in Int
        BY <3>2
      <4> HIDE DEF Length
      <4> QED BY <3>2, <3>4, <4>1, RowInTable
    <3>6. \A k \in 0 .. Length(me) - 1 : k \in 0 .. Length(me)
      BY <1>5
    <3> QED BY <3>1, <3>5, <3>6
  <2>3. \A k : ChainFrom(fat', contiguous'[me], start'[me])[k]
                 = ChainFrom(fat, FALSE, start[me])[k]
    BY <1>1, <1>5, <1>6
  <2>4. ASSUME NEW f \in Files, NEW k \in 0 .. Length(f) - 1
        PROVE  ChainAt(f, k)' = ChainAt(f, k)
    <3>1. CASE f = me
      BY <2>2, <2>3, <3>1 DEF ChainAt
    <3>2. CASE f # me
      BY <2>1, <3>2
    <3> QED BY <3>1, <3>2
  <2> QED BY <2>4
<1>8. Apart'
  <2>1. System \subseteq bitmap'
    BY <1>1 DEF Safe, Apart
  <2>2. ASSUME NEW f \in Files, NEW k \in 0 .. Length(f)' - 1
        PROVE  Stays(f, k)
    <3>1. k \in 0 .. Length(f) - 1 /\ k < Length(f)
      BY <1>3, LengthType
    <3>2. ~Invalid(ChainAt(f, k)) => ChainAt(f, k) \in bitmap
      BY <3>1, ApartMeans DEF Safe
    <3> QED BY <1>1, <1>6, <1>7, <3>1, <3>2 DEF Stays
  <2> QED BY <2>1, <2>2, ApartKeeps DEF Safe
<1>9. Cached'
  <2>1. \A f \in Files : \A k \in 0 .. Length(f)' - 1 : ChainAt(f, k)' = ChainAt(f, k)
    BY <1>3, <1>7, LengthType
  <2> QED BY <1>1, <1>4, <2>1, SameCached
<1>10. Amounts'
  <2>1. allocated < difference
    BY <1>1 DEF Safe, Amounts
  <2> QED BY <1>1, <1>2, <2>1, GrowingMeans DEF Amounts, Growing, At, fptr
<1>11. Place'
  <2>1. ChainAt(me, Length(me) - 1)' = previous'
    <3>1. (Length(me) - 1)' = Length(me) - 1
      BY <1>1, <1>2 DEF Length, Growing
    <3>2. \A k \in 0 .. Length(me) - 1 : ChainFrom(fat', contiguous'[me], start'[me])[k]
                                           = ChainAt(me, k)
      <4>1. \A f \in Files : \A k \in 0 .. Length(f) - 1 :
               ChainFrom(fat', contiguous'[f], start'[f])[k] = ChainAt(f, k)
        BY <1>7 DEF ChainAt
      <4> QED BY <1>5, <4>1
    <3>3. Length(me) - 1 \in 0 .. Length(me) - 1
      BY <1>5
    <3> QED BY <1>1, <1>5, <3>1, <3>2, <3>3 DEF ChainAt
  <2>2. \A f \in Files : \A k \in 0 .. Length(f)' - 1 : ChainAt(f, k)' # next'
    <3>1. ASSUME NEW f \in Files, NEW k \in 0 .. Length(f)' - 1
          PROVE  ChainAt(f, k)' # next'
      <4>1. k \in 0 .. Length(f) - 1
        BY <1>3, LengthType
      <4> QED BY <1>1, <1>5, <1>7, <4>1
    <3> QED BY <3>1
  <2>3. ~contiguous'[me']
    BY <1>1, <1>5, <1>6
  <2> QED BY <1>1, <1>5, <2>1, <2>2, <2>3 DEF Place, Growing, Undoing, Erasing, At
<1>12. Freeing'
  BY <1>1 DEF Freeing
<1>13. Steady
  <2>1. \A f \in Files \ {me} : \A k : ChainAt(f, k)' = ChainAt(f, k)
    BY <1>1, <1>6 DEF ChainAt
  <2> QED BY <1>1, <1>7, <2>1 DEF Steady
<1> QED BY <1>8, <1>9, <1>10, <1>11, <1>12, <1>13 DEF Safe

\* A write to the entry of a file's cluster moves only what follows it in that file.
LEMMA LastWritten ==
    ASSUME TypeOK, TypeOK', Unharmed, Safe, NEW g \in Files, NEW m \in 1 .. Length(g),
           NEW x \in Clusters, x = ChainAt(g, m - 1), NEW y \in FatEntry,
           fat' = IF contiguous[g] THEN fat ELSE [fat EXCEPT ![x] = y],
           start' = start, contiguous' = contiguous
    PROVE  /\ \A f \in Files \ {g} : \A k \in 0 .. Length(f) : ChainAt(f, k)' = ChainAt(f, k)
           /\ \A k \in 0 .. m - 1 : ChainAt(g, k)' = ChainAt(g, k)
           /\ ~contiguous[g] => ChainAt(g, m)' = y
<1>1. fat' = fat \/ fat' = [fat EXCEPT ![x] = y]
  OBVIOUS
<1>2. m - 1 \in Nat /\ Length(g) \in Nat /\ m - 1 \in 0 .. Length(g) - 1 /\ m \in Nat
  BY LengthType
<1>3. ~Invalid(ChainAt(g, m - 1))
  BY DEF Invalid
<1>4. ASSUME NEW f \in Files, NEW k \in 0 .. Length(f) - 1, ChainAt(f, k) = x
      PROVE  f = g /\ k = m - 1
  BY <1>2, <1>3, <1>4, ApartMeans DEF Safe
<1>5. ASSUME NEW f \in Files \ {g}
      PROVE  \A k \in 0 .. Length(f) : ChainAt(f, k)' = ChainAt(f, k)
  <2>1. Length(f) \in Nat /\ \A k \in 0 .. Length(f) - 1 : ChainAt(f, k) # x
    BY <1>4, LengthType
  <2> QED BY <1>1, <2>1, ChainKeeps
<1>6. \A k \in 0 .. m - 1 : ChainAt(g, k)' = ChainAt(g, k)
  <2>1. \A k \in 0 .. (m - 1) - 1 : ChainAt(g, k) # x
    <3>1. \A k \in 0 .. (m - 1) - 1 : k \in 0 .. Length(g) - 1 /\ k # m - 1
      BY <1>2
    <3> QED BY <1>4, <3>1
  <2> QED BY <1>1, <1>2, <2>1, ChainKeeps
<1>7. ASSUME ~contiguous[g]
      PROVE  ChainAt(g, m)' = y
  <2>1. PICK k \in Nat : k = m - 1 /\ k + 1 = m
    BY <1>2
  <2>2. ChainAt(g, m)' = Follow(fat', contiguous'[g], ChainAt(g, m - 1)')
    BY <2>1, ChainStepsNext
  <2>3. ChainAt(g, m - 1)' = x
    BY <1>2, <1>6
  <2>4. fat'[x] = y
    BY <1>7 DEF TypeOK
  <2> QED BY <1>7, <2>2, <2>3, <2>4 DEF Follow, NextCluster, Invalid
<1> QED BY <1>5, <1>6, <1>7

LEMMA LinkNextSafe ==
    ASSUME TypeOK, TypeOK', Unharmed, Unharmed', Safe, Control', LinkNext
    PROVE  Safe' /\ Steady
<1>1. pc = "link" /\ ((GaveUp /\ ~contiguous[me]) \/ NextLinked)
  BY LinkNextOutcome
<1>2. CASE GaveUp
  BY <1>1, <1>2, GaveUpSafe
<1>3. CASE NextLinked
  <2>1. /\ fat' = IF contiguous[me] THEN fat ELSE [fat EXCEPT ![previous] = next]
        /\ previous' = next /\ allocated' = allocated + 1 /\ pc' = "growloop"
        /\ descended' = (descended \/ (contiguous[me] /\ next < previous))
        /\ UNCHANGED <<bitmap, start, size, contiguous, fptr, me, goal, erase,
                       difference, undo, failed>>
    BY <1>3 DEF NextLinked, Linked, nodes, args
  <2>2. Growing /\ Growing'
    BY <1>1, <2>1 DEF Growing
  <2>3. PICK g \in Files : g = me
    BY GrowingMeans, <2>2
  <2>4. /\ next \in Clusters /\ next \in bitmap \ System
        /\ \A f \in Files : \A k \in 0 .. Length(f) - 1 : ChainAt(f, k) # next
        /\ allocated < difference
    BY <1>1 DEF Safe, Place, Amounts, Control
  <2>5. ~contiguous[g]
    <3>1. SUFFICES ASSUME contiguous[me] PROVE FALSE
      BY <2>3
    <3>2. next = previous - 1 /\ previous \in Nat
      BY <1>1, <3>1, <2>2, GrowingMeans, Constants DEF Safe, Place
    <3>3. next < previous
      BY <3>2
    <3>4. descended' = (descended \/ (contiguous[me] /\ next < previous)) /\ ~descended'
      BY <2>1 DEF Unharmed
    <3> QED BY <3>1, <3>3, <3>4, Zenon
  <2>6. PICK m \in Nat : m = Length(g)
    BY LengthType
  <2>7. /\ m \in 1 .. Length(g) /\ ChainAt(g, m - 1) = previous /\ previous \in Clusters
    BY <2>2, <2>3, <2>6, GrowingMeans
  <2>8. /\ \A f \in Files \ {g} : \A k \in 0 .. Length(f) : ChainAt(f, k)' = ChainAt(f, k)
        /\ \A k \in 0 .. m - 1 : ChainAt(g, k)' = ChainAt(g, k)
        /\ ChainAt(g, m)' = next
    <3>1. PICK x \in Clusters, y \in FatEntry : x = previous /\ y = next
      BY <2>4, <2>7, Constants
    <3>2. fat' = IF contiguous[g] THEN fat ELSE [fat EXCEPT ![x] = y]
      BY <2>1, <2>3, <3>1
    <3>3. x = ChainAt(g, m - 1) /\ start' = start /\ contiguous' = contiguous
      BY <2>1, <2>7, <3>1
    <3>4. ChainAt(g, m)' = y
      BY <2>5, <2>7, <3>2, <3>3, LastWritten
    <3>5. /\ \A f \in Files \ {g} : \A k \in 0 .. Length(f) :
                ChainAt(f, k)' = ChainAt(f, k)
          /\ \A k \in 0 .. m - 1 : ChainAt(g, k)' = ChainAt(g, k)
      BY <2>7, <3>2, <3>3, LastWritten
    <3> QED BY <3>1, <3>4, <3>5
  <2>9. \A f \in Files : Length(f)' = IF f = g THEN m + 1 ELSE Length(f)
    <3>1. Length(g)' = m + 1
      <4>1. m = size[g] + allocated
        BY <2>2, <2>3, <2>6, GrowingMeans
      <4> QED BY <2>1, <2>2, <2>3, <4>1, GrowingMeans DEF Length, Growing
    <3>2. \A f \in Files \ {g} : Length(f)' = Length(f)
      BY <2>1, <2>3 DEF Length
    <3> QED BY <3>1, <3>2
  <2>10. Apart'
    <3>1. System \subseteq bitmap' /\ next \in bitmap' \ System
      BY <2>1, <2>4 DEF Safe, Apart
    <3>2. PICK c \in Clusters : c = next
      BY <2>4
    <3>3. ASSUME NEW f \in Files, NEW k \in 0 .. Length(f)' - 1
          PROVE  Stays(f, k) \/ Joins(f, k, g, m, c)
      <4>1. CASE f = g /\ k = m
        BY <2>8, <3>2, <4>1 DEF Joins
      <4>2. CASE f # g \/ k # m
        <5>1. k \in 0 .. Length(f) - 1 /\ k < Length(f)
              /\ ChainAt(f, k)' = ChainAt(f, k)
          <6>1. CASE f = g
            BY <2>6, <2>8, <2>9, <4>2, <6>1
          <6>2. CASE f # g
            BY <2>8, <2>9, <6>2, LengthType
          <6> QED BY <6>1, <6>2
        <5>2. ~Invalid(ChainAt(f, k)) => ChainAt(f, k) \in bitmap
          BY <5>1, ApartMeans DEF Safe
        <5> QED BY <2>1, <5>1, <5>2 DEF Stays
      <4> QED BY <4>1, <4>2
    <3>4. \A f \in Files : \A k \in 0 .. Length(f) - 1 : ChainAt(f, k) # c
      BY <2>4, <3>2
    <3>5. c \in bitmap' \ System
      BY <3>1, <3>2
    <3> QED BY <3>1, <3>3, <3>4, <3>5, ApartGrows DEF Safe
  <2>11. Amounts'
    <3>1. /\ size[me] < goal /\ ~undo /\ difference = goal - size[me]
          /\ allocated' <= difference /\ fptrIndex[me] < size[me] + allocated'
          /\ \A f \in Files \ {me} : size[f] = 0 <=> start[f] = FREE
      <4>1. fptrIndex[me] \in Nat
        BY <2>2, GrowingMeans DEF TypeOK
      <4> QED BY <2>1, <2>2, <2>4, <4>1, GrowingMeans
    <3>2. fptrIndex' = fptrIndex
      BY <2>1 DEF fptr
    <3> QED BY <2>1, <3>1, <3>2 DEF Amounts, Growing, At
  <2>12. Place'
    <3>1. (Length(me) - 1)' = m
      BY <2>1, <2>3, <2>6, <2>9
    <3>2. ChainAt(me, Length(me) - 1)' = next
      BY <2>1, <2>3, <2>8, <3>1 DEF ChainAt
    <3> QED BY <2>1, <3>2 DEF Place, Growing, Undoing, Erasing, At
  <2>13. Freeing'
    BY <2>1 DEF Freeing
  <2>14. Cached'
    <3>1. ASSUME NEW f \in Files, fptrIndex'[f] < Length(f)'
          PROVE  (fptrCluster[f] = ChainAt(f, fptrIndex[f])
                    \/ (failed /\ fptrCluster[f] = BAD))'
      <4>1. fptrIndex' = fptrIndex /\ fptrCluster' = fptrCluster /\ failed' = failed
        BY <2>1 DEF fptr
      <4>2. fptrIndex[f] \in Nat /\ fptrIndex[f] < Length(f)
        BY <2>2, <2>3, <2>9, <3>1, <4>1, GrowingMeans DEF TypeOK
      <4>3. fptrCluster[f] = ChainAt(f, fptrIndex[f]) \/ (failed /\ fptrCluster[f] = BAD)
        BY <1>1, <4>2, CachedMeans DEF Safe
      <4>4. fptrIndex[f] \in 0 .. Length(f) - 1
        BY <4>2, LengthType
      <4>5. \A h \in Files : \A k \in 0 .. Length(h) - 1 :
               ChainFrom(fat', contiguous'[h], start'[h])[k] = ChainAt(h, k)
        <5>1. \A h \in Files : \A k \in 0 .. Length(h) - 1 : ChainAt(h, k)' = ChainAt(h, k)
          BY <2>6, <2>8, LengthType
        <5> QED BY <5>1 DEF ChainAt
      <4>6. ChainAt(f, fptrIndex[f])' = ChainAt(f, fptrIndex[f])
        BY <4>1, <4>4, <4>5 DEF ChainAt
      <4> QED BY <4>1, <4>3, <4>6
    <3> QED BY <2>1, <3>1 DEF Cached
  <2>15. Steady
    BY <2>1, <2>3, <2>6, <2>8, LengthType DEF Steady
  <2> QED BY <2>10, <2>11, <2>12, <2>13, <2>14, <2>15 DEF Safe
<1> QED BY <1>1, <1>2, <1>3
\* The loop of grow_file is left: the last cluster gets its mark, and the call goes on to
\* zero what was added or ends.
LEMMA GrowEndSafe ==
    ASSUME TypeOK, TypeOK', Unharmed, Unharmed', Safe, Control', GrowEnd
    PROVE  Safe' /\ Steady
<1>1. pc = "growloop" /\ allocated >= difference /\ (GaveUp \/ (EndMarked /\ AfterGrowth))
  BY GrowEndOutcome
<1>2. CASE GaveUp
  BY <1>1, <1>2, GaveUpSafe
<1>3. CASE EndMarked /\ AfterGrowth
  <2>1. /\ fat' = IF contiguous[me] THEN fat ELSE [fat EXCEPT ![previous] = END]
        /\ UNCHANGED <<bitmap, start, contiguous, failed>>
    BY <1>3 DEF EndMarked, hist
  <2>2. Growing
    BY <1>1 DEF Growing
  <2>3. PICK g \in Files : g = me
    BY GrowingMeans, <2>2
  <2>4. PICK m \in Nat : m = Length(g)
    BY LengthType
  <2>5. /\ m = goal /\ size[g] < m /\ size[g] \in Nat /\ goal \in Nat
        /\ ~undo /\ m \in 1 .. Length(g)
        /\ ChainAt(g, m - 1) = previous /\ previous \in Clusters
        /\ \A f \in Files \ {g} : size[f] = 0 <=> start[f] = FREE
    BY <1>1, <2>2, <2>3, <2>4, GrowingMeans
  <2>6. /\ \A f \in Files \ {g} : \A k \in 0 .. Length(f) : ChainAt(f, k)' = ChainAt(f, k)
        /\ \A k \in 0 .. m - 1 : ChainAt(g, k)' = ChainAt(g, k)
    <3>1. PICK x \in Clusters, y \in FatEntry : x = previous /\ y = END
      BY <2>5, Constants
    <3>2. fat' = IF contiguous[g] THEN fat ELSE [fat EXCEPT ![x] = y]
      BY <2>1, <2>3, <3>1
    <3> QED BY <2>1, <2>5, <3>1, <3>2, LastWritten
  <2>7. \A f \in Files : \A k \in 0 .. Length(f) - 1 : ChainAt(f, k)' = ChainAt(f, k)
    <3>1. ASSUME NEW f \in Files, NEW k \in 0 .. Length(f) - 1
          PROVE  ChainAt(f, k)' = ChainAt(f, k)
      <4>1. CASE f = g
        BY <2>4, <2>6, <4>1
      <4>2. CASE f # g
        BY <2>6, <4>2, LengthType
      <4> QED BY <4>1, <4>2
    <3> QED BY <3>1
  <2>8. ASSUME erase PROVE Safe'
    <3>1. /\ CallAdvance(g, size[g], "erase")
          /\ UNCHANGED <<size, me, goal, erase, allocated, undo>>
      BY <1>3, <2>3, <2>8 DEF AfterGrowth, args, locals
    <3>2. pc' = "advance" /\ back' = "erase"
      BY <3>1 DEF CallAdvance
    <3>3. ~Growing' /\ ~Undoing' /\ ~Keeping' /\ Erasing' /\ pc' # "eraseloop"
      BY <2>5, <3>1, <3>2 DEF Growing, Undoing, Keeping, Erasing, At
    <3>4. \A f \in Files : Length(f)' = Length(f)
      <4>1. Length(g)' = m
        BY <2>3, <2>5, <3>1, <3>2, <3>3 DEF Length
      <4>2. \A f \in Files \ {g} : Length(f)' = Length(f)
        BY <2>3, <3>1 DEF Length
      <4> QED BY <2>4, <4>1, <4>2
    <3>5. \A f \in Files : Length(f)' <= Length(f)
      BY <3>4, LengthType
    <3>6. Cached' /\ i' <= count' /\ count' = size[g]
      BY <1>1, <2>1, <2>3, <2>4, <2>5, <2>7, <3>1, <3>5, WalkCached
    <3>7. Apart'
      <4>1. System \subseteq bitmap'
        BY <2>1 DEF Safe, Apart
      <4>2. ASSUME NEW f \in Files, NEW k \in 0 .. Length(f)' - 1
            PROVE  Stays(f, k)
        <5>1. k \in 0 .. Length(f) - 1 /\ k < Length(f)
          BY <3>4, LengthType
        <5>2. ~Invalid(ChainAt(f, k)) => ChainAt(f, k) \in bitmap
          BY <5>1, ApartMeans DEF Safe
        <5> QED BY <2>1, <2>7, <5>1, <5>2 DEF Stays
      <4> QED BY <4>1, <4>2, ApartKeeps DEF Safe
    <3>8. Amounts'
      <4>1. (count < Length(me))'
        <5>1. Length(me)' = m
          BY <2>3, <2>5, <3>1, <3>2, <3>3 DEF Length
        <5> QED BY <2>5, <3>6, <5>1
      <4> HIDE DEF Length
      <4> QED BY <2>1, <2>3, <2>5, <2>8, <3>1, <3>2, <3>3, <3>6, <4>1 DEF Amounts, At
    <3>9. Place'
      <4>1. (Length(me) - 1)' = m - 1
        BY <2>3, <2>5, <3>1, <3>2, <3>3 DEF Length
      <4>2. ChainAt(me, Length(me) - 1)' = previous
        <5>1. m - 1 \in 0 .. m - 1
          BY <2>5
        <5>2. ChainFrom(fat', contiguous'[g], start'[g])[m - 1] = previous
          BY <2>5, <2>6, <5>1 DEF ChainAt
        <5> QED BY <2>3, <3>1, <4>1, <5>2 DEF ChainAt
      <4> QED BY <2>5, <3>2, <3>3, <4>2 DEF Place, Invalid
    <3>10. Freeing'
      BY <3>2 DEF Freeing
    <3> QED BY <3>6, <3>7, <3>8, <3>9, <3>10 DEF Safe
  <2>9. ASSUME ~erase PROVE Safe'
    <3>1. Finish /\ UNCHANGED fptr
      BY <1>3, <2>9 DEF AfterGrowth
    <3>2. pc' = "idle" /\ me' = me /\ size' = [size EXCEPT ![me] = goal]
      BY <3>1 DEF Finish, Return
    <3>3. \A f \in Files : size'[f] = IF f = g THEN goal ELSE size[f]
      BY <2>3, <3>2 DEF TypeOK
    <3>4. \A f \in Files : \A k \in 0 .. size'[f] - 1 : ChainAt(f, k)' = ChainAt(f, k)
      <4>1. ASSUME NEW f \in Files
            PROVE  size'[f] = Length(f)
        <5>1. CASE f = g
          BY <2>4, <2>5, <3>3, <5>1
        <5>2. CASE f # g
          BY <2>3, <3>3, <5>2 DEF Length
        <5> QED BY <5>1, <5>2
      <4> QED BY <2>7, <4>1
    <3>5. size'[me] <= Length(me) /\ \A f \in Files \ {me} : size'[f] = size[f]
      BY <2>3, <2>4, <2>5, <3>3
    <3> QED BY <1>1, <2>1, <3>1, <3>2, <3>4, <3>5, Settle
  <2>10. Steady
    <3>1. me' = g
      BY <1>3, <2>3 DEF AfterGrowth, args, Finish, Return
    <3> QED BY <2>6, <2>7, <3>1 DEF Steady
  <2> QED BY <2>8, <2>9, <2>10
<1> QED BY <1>1, <1>2, <1>3

\* The volume is full: what the call has allocated is to be given back.
LEMMA NoSpaceSafe ==
    ASSUME TypeOK, TypeOK', Unharmed, Unharmed', Safe, Control', NoSpace
    PROVE  Safe' /\ Steady
<1>1. pc = "growloop" /\ allocated < difference
  BY DEF NoSpace
<1>2. CASE Return("ENOSPC") /\ UNCHANGED <<disk, nodes, fptr, hist>>
  <2>1. pc' = "idle" /\ UNCHANGED <<fat, bitmap, nodes, fptr, me, failed>>
    BY <1>2 DEF Return, disk, hist
  <2>2. Safe'
    BY <1>1, <2>1, ReturnSafe
  <2> QED BY <2>1, <2>2, SameSteady DEF nodes
<1>3. CASE allocated # 0 /\ Undo
  <2>1. /\ undo' = TRUE /\ Crop(me, size[me] + allocated, allocated)
        /\ UNCHANGED <<me, goal, erase, allocated, failed>>
    BY <1>3 DEF Undo, args, hist
  <2>2. /\ difference' = allocated
        /\ UNCHANGED <<fat, bitmap, size, contiguous>>
    BY <2>1 DEF Crop, disk
  <2>3. Growing
    BY <1>1 DEF Growing
  <2>4. PICK g \in Files : g = me
    BY GrowingMeans, <2>3
  <2>5. PICK m \in Nat : m = Length(g)
    BY LengthType
  <2>6. /\ m = size[g] + allocated /\ size[g] \in Nat /\ allocated \in Nat
        /\ allocated # 0 /\ size[g] < goal /\ m > 0
        /\ ChainAt(g, m - 1) = previous /\ previous \in Clusters
        /\ \A f \in Files \ {g} : size[f] = 0 <=> start[f] = FREE
    BY <1>3, <2>3, <2>4, <2>5, GrowingMeans
  <2>7. CASE size[g] > 0
    <3>1. CallAdvance(g, size[g] - 1, "crop") /\ start' = start
      <4>1. size[me] + allocated > allocated /\ ~(size[me] + allocated <= allocated)
        BY <2>4, <2>6, <2>7
      <4>2. /\ CallAdvance(me, LastKept(size[me] + allocated, allocated), "crop")
            /\ start' = start
        BY <2>1, <4>1 DEF Crop
      <4>3. LastKept(size[me] + allocated, allocated) = size[g] - 1
        BY <2>4, <2>6 DEF LastKept
      <4> QED BY <2>4, <4>2, <4>3 DEF CallAdvance
    <3>2. pc' = "advance" /\ back' = "crop"
      BY <3>1 DEF CallAdvance
    <3>3. ~Growing' /\ Undoing' /\ ~Keeping' /\ ~Erasing' /\ pc' # "eraseloop"
      BY <2>1, <3>2 DEF Growing, Undoing, Keeping, Erasing, At
    <3>4. Length(g)' = m /\ \A f \in Files \ {g} : Length(f)' = Length(f)
      <4>1. Length(g)' = m
        BY <2>1, <2>2, <2>4, <2>6, <3>2, <3>3 DEF Length
      <4>2. \A f \in Files \ {g} : Length(f)' = Length(f)
        BY <2>1, <2>2, <2>4 DEF Length
      <4> QED BY <4>1, <4>2
    <3>5. \A f \in Files : Length(f)' <= Length(f)
      BY <2>5, <3>4, LengthType
    <3>6. \A f \in Files : \A k : ChainAt(f, k)' = ChainAt(f, k)
      BY <2>2, <3>1, ChainsSame
    <3>7. Cached' /\ i' <= count' /\ count' = size[g] - 1
      <4>1. size[g] - 1 \in Nat /\ size[g] - 1 < Length(g)
        BY <2>5, <2>6, <2>7
      <4> QED BY <1>1, <2>1, <2>4, <3>1, <3>5, <3>6, <4>1, WalkCached
    <3>8. Apart'
      BY <2>2, <3>1, <3>5, SameApart
    <3>9. Amounts'
      <4>1. (count < Length(me))'
        <5>1. Length(me)' = m
          BY <2>1, <2>2, <2>4, <2>6, <3>2, <3>3 DEF Length
        <5> QED BY <2>6, <3>7, <5>1
      <4> HIDE DEF Length
      <4> QED BY <2>1, <2>2, <2>4, <2>6, <2>7, <3>1, <3>2, <3>3, <3>7, <4>1
               DEF Amounts, At
    <3>10. Place'
      <4>1. (Length(me) - 1)' = m - 1
        BY <2>1, <2>2, <2>4, <2>6, <3>2, <3>3 DEF Length
      <4>2. ChainAt(me, Length(me) - 1)' = previous
        <5>1. ChainFrom(fat', contiguous'[g], start'[g])[m - 1] = previous
          BY <2>6, <3>6 DEF ChainAt
        <5> QED BY <2>1, <2>4, <4>1, <5>1 DEF ChainAt
      <4> QED BY <2>6, <3>2, <3>3, <4>2 DEF Place, Invalid
    <3>11. Freeing'
      BY <3>2 DEF Freeing
    <3>12. Steady
      BY <2>1, <2>2, <3>1, SameSteady
    <3> QED BY <3>7, <3>8, <3>9, <3>10, <3>11, <3>12 DEF Safe
  <2>8. CASE ~(size[g] > 0)
    <3>1. /\ previous' = start[g] /\ start' = [start EXCEPT ![g] = FREE]
          /\ RewindEmpty(g) /\ pc' = "free"
      BY <2>1, <2>4, <2>6, <2>8 DEF Crop
    <3>2. Length(me)' = 0
      BY <2>1, <2>2, <2>4, <2>6, <2>8, <3>1
         DEF Length, Growing, Undoing, Keeping, Erasing, At
    <3>3. Length(g)' = 0 /\ \A f \in Files \ {g} : Length(f)' = Length(f)
      <4>1. Length(g)' = 0
        BY <2>1, <2>2, <2>4, <2>6, <2>8, <3>1
           DEF Length, Growing, Undoing, Keeping, Erasing, At
      <4>2. \A f \in Files \ {g} : Length(f)' = Length(f)
        BY <2>1, <2>2, <2>4 DEF Length
      <4> QED BY <4>1, <4>2
    <3>4. Apart' /\ Place' /\ Freeing' /\ Cached' /\ Steady
      <4>1. difference' = Length(g)
        BY <2>2, <2>5, <2>6, <2>8
      <4>2. pc # "advance" /\ me' = g
        BY <1>1, <2>1, <2>4
      <4> QED BY <2>1, <2>2, <3>1, <3>3, <4>1, <4>2, CropAll
    <3>5. start'[me] = FREE /\ \A f \in Files \ {me} : start'[f] = start[f]
      BY <2>4, <3>1 DEF TypeOK
    <3>6. Amounts'
      <4> HIDE DEF Length
      <4> QED BY <2>1, <2>2, <2>4, <2>6, <3>1, <3>2, <3>5 DEF Amounts, Growing, At
    <3> QED BY <3>4, <3>6 DEF Safe
  <2> QED BY <2>7, <2>8
<1> QED BY <1>2, <1>3 DEF NoSpace

-----------------------------------------------------------------------------
(***************************************************************************)
(* The invariant, step by step: clusters that are given back.              *)
(***************************************************************************)
\* What follows a cut is what followed in the chain from b before it: the write to the
\* entry of cluster x does not move it.
LEMMA RestMoves ==
    ASSUME TypeOK, TypeOK', NEW g \in Files, me' = g, contiguous' = contiguous,
           NEW b \in Int, NEW m \in Nat, NEW n \in Nat,
           NEW x \in Clusters, NEW y \in FatEntry,
           fat' = IF contiguous[g] THEN fat ELSE [fat EXCEPT ![x] = y],
           previous' = ChainFrom(fat, contiguous[g], b)[m],
           \A k \in 0 .. n - 1 : ChainFrom(fat, contiguous[g], b)[m + k] # x
    PROVE  \A j \in 0 .. n : Rest(j)' = ChainFrom(fat, contiguous[g], b)[m + j]
<1>1. fat \in Table /\ contiguous[g] \in BOOLEAN /\ previous' \in Int
  BY DEF TypeOK, Table
<1>2. \A j \in 0 .. n : ChainFrom(fat, contiguous[g], previous')[j]
                          = ChainFrom(fat, contiguous[g], b)[m + j]
  BY <1>1, ChainShift
<1>3. \A j \in 0 .. n : Rest(j)' = ChainFrom(fat, contiguous[g], previous')[j]
  <2>1. CASE contiguous[g]
    BY <2>1 DEF Rest
  <2>2. CASE ~contiguous[g]
    <3>1. \A k \in 0 .. n - 1 : ChainFrom(fat, contiguous[g], previous')[k] # x
      BY <1>2
    <3>2. \A j \in 0 .. n : ChainFrom([fat EXCEPT ![x] = y], contiguous[g], previous')[j]
                              = ChainFrom(fat, contiguous[g], previous')[j]
      BY <1>1, <3>1, ChainElsewhere
    <3> QED BY <2>2, <3>2 DEF Rest
  <2> QED BY <2>1, <2>2
<1> QED BY <1>2, <1>3

\* After a read that failed nothing follows.
LEMMA RestEnds ==
    ASSUME TypeOK', Invalid(previous')
    PROVE  \A j \in Nat : Rest(j)' = previous'
<1>1. fat' \in Table /\ contiguous'[me'] \in BOOLEAN /\ previous' \in Int
  BY DEF TypeOK, Table
<1>2. ChainFrom(fat', contiguous'[me'], previous')[0] = previous'
  BY <1>1, ChainLaw
<1>3. \A j \in Nat : ChainFrom(fat', contiguous'[me'], previous')[j] = previous'
  BY <1>1, <1>2, ChainStays
<1> QED BY <1>3 DEF Rest

\* Where shrink_file cuts: behind the m-th cluster of a file of m + difference.
LEMMA CropMeans ==
    ASSUME TypeOK, Unharmed, Safe, pc = "crop", NEW g \in Files, g = me
    PROVE  \E m \in Nat :
              /\ m = IF undo THEN size[g] ELSE goal
              /\ m > 0 /\ Length(g) = m + difference /\ difference \in Nat
              /\ difference > 0 /\ fptrIndex[g] = m - 1 /\ start[g] \in Clusters
              /\ IF undo THEN size[g] < goal ELSE goal < size[g]
              /\ \A f \in Files \ {g} : size[f] = 0 <=> start[f] = FREE
<1>1. size[g] \in Nat /\ goal \in Nat /\ difference \in Nat /\ allocated \in Nat
  BY Constants DEF TypeOK
<1>2. At("crop") /\ ~Growing /\ ~Keeping /\ ~Erasing
  BY DEF At, Growing, Keeping, Erasing
<1>3. start[g] \in Clusters /\ \A f \in Files \ {g} : size[f] = 0 <=> start[f] = FREE
  BY DEF Safe, Control, Amounts
<1>4. CASE undo
  <2>1. 0 < size[g] /\ size[g] < goal /\ difference = allocated /\ 0 < allocated
        /\ fptrIndex[g] = size[g] - 1
    BY <1>2, <1>4 DEF Safe, Amounts
  <2>2. Length(g) = size[g] + difference
    BY <1>2, <1>4, <2>1 DEF Length, Undoing
  <2> QED BY <1>1, <1>3, <1>4, <2>1, <2>2
<1>5. CASE ~undo
  <2>1. 0 < goal /\ goal < size[g] /\ difference = size[g] - goal
        /\ fptrIndex[g] = goal - 1
    BY <1>2, <1>5 DEF Safe, Amounts
  <2>2. Length(g) = goal + difference
    BY <1>1, <1>2, <1>5, <2>1 DEF Length, Undoing
  <2> QED BY <1>1, <1>3, <1>5, <2>1, <2>2
<1> QED BY <1>4, <1>5

LEMMA CropAtSafe ==
    ASSUME TypeOK, TypeOK', Unharmed, Unharmed', Safe, Control', CropAt
    PROVE  Safe' /\ Steady
<1>1. /\ pc = "crop"
      /\ \/ GaveUp
         \/ /\ ~Invalid(fptrCluster[me])
            /\ \E c \in NextClusters(me, fptrCluster[me]) : Cut(c)
  BY CropAtOutcome
<1>2. CASE GaveUp
  BY <1>1, <1>2, GaveUpSafe
<1>3. ASSUME ~Invalid(fptrCluster[me]),
             NEW c \in NextClusters(me, fptrCluster[me]), Cut(c)
      PROVE  Safe' /\ Steady
  <2>1. /\ fat' = IF contiguous[me] THEN fat ELSE [fat EXCEPT ![fptrCluster[me]] = END]
        /\ previous' = c /\ SetFptr(0, start[me]) /\ pc' = "free"
        /\ failed' = (failed \/ c = BAD)
        /\ UNCHANGED <<bitmap, start, size, contiguous, me, goal, erase, difference,
                       allocated, undo>>
    BY <1>3 DEF Cut, nodes, args
  <2>2. PICK g \in Files : g = me
    BY DEF TypeOK
  <2>3. PICK m \in Nat :
              /\ m = IF undo THEN size[g] ELSE goal
              /\ m > 0 /\ Length(g) = m + difference /\ difference \in Nat
              /\ difference > 0 /\ fptrIndex[g] = m - 1 /\ start[g] \in Clusters
              /\ IF undo THEN size[g] < goal ELSE goal < size[g]
              /\ \A f \in Files \ {g} : size[f] = 0 <=> start[f] = FREE
    BY <1>1, <2>2, CropMeans
  <2>4. PICK x \in Clusters : x = fptrCluster[g]
    BY <1>3, <2>2 DEF Invalid
  <2>5. x = ChainAt(g, m - 1)
    <3>1. fptrIndex[g] < Length(g)
      BY <2>3
    <3>2. fptrCluster[g] = ChainAt(g, fptrIndex[g])
      BY <1>1, <2>4, <3>1, CachedMeans, Constants DEF Safe
    <3> QED BY <2>3, <2>4, <3>2
  <2>6. PICK y \in FatEntry : y = END
    BY Constants
  <2>7. /\ fat' = IF contiguous[g] THEN fat ELSE [fat EXCEPT ![x] = y]
        /\ m \in 1 .. Length(g)
    BY <2>1, <2>2, <2>3, <2>4, <2>6
  <2>8. /\ \A f \in Files \ {g} : \A k \in 0 .. Length(f) : ChainAt(f, k)' = ChainAt(f, k)
        /\ \A k \in 0 .. m - 1 : ChainAt(g, k)' = ChainAt(g, k)
        /\ ~contiguous[g] => ChainAt(g, m)' = y
    <3>1. start' = start /\ contiguous' = contiguous
      BY <2>1
    <3>2. \A f \in Files \ {g} : \A k \in 0 .. Length(f) : ChainAt(f, k)' = ChainAt(f, k)
      BY <2>5, <2>7, <3>1, LastWritten
    <3>3. \A k \in 0 .. m - 1 : ChainAt(g, k)' = ChainAt(g, k)
      BY <2>5, <2>7, <3>1, LastWritten
    <3>4. ~contiguous[g] => ChainAt(g, m)' = y
      BY <2>5, <2>7, <3>1, LastWritten
    <3> QED BY <3>2, <3>3, <3>4
  <2>9. ~Growing' /\ ~Undoing' /\ ~Erasing' /\ (Keeping' <=> ~undo)
    BY <2>1 DEF Growing, Undoing, Keeping, Erasing, At
  <2>10. Length(g)' = m /\ \A f \in Files \ {g} : Length(f)' = Length(f)
    <3>1. Length(g)' = m
      BY <2>1, <2>2, <2>3, <2>9 DEF Length
    <3>2. \A f \in Files \ {g} : Length(f)' = Length(f)
      BY <2>1, <2>2 DEF Length
    <3> QED BY <3>1, <3>2
  <2>11. \A f \in Files : \A k \in 0 .. Length(f)' - 1 :
            k \in 0 .. Length(f) - 1 /\ k < Length(f) /\ ChainAt(f, k)' = ChainAt(f, k)
    <3>1. ASSUME NEW f \in Files, NEW k \in 0 .. Length(f)' - 1
          PROVE  k \in 0 .. Length(f) - 1 /\ k < Length(f) /\ ChainAt(f, k)' = ChainAt(f, k)
      <4>1. CASE f = g
        BY <2>3, <2>8, <2>10, <4>1
      <4>2. CASE f # g
        BY <2>8, <2>10, <4>2, LengthType
      <4> QED BY <4>1, <4>2
    <3> QED BY <3>1
  <2>12. Apart'
    <3>1. System \subseteq bitmap'
      BY <2>1 DEF Safe, Apart
    <3>2. ASSUME NEW f \in Files, NEW k \in 0 .. Length(f)' - 1
          PROVE  Stays(f, k)
      <4>1. ~Invalid(ChainAt(f, k)) => ChainAt(f, k) \in bitmap
        BY <2>11, ApartMeans DEF Safe
      <4> QED BY <2>1, <2>11, <4>1 DEF Stays
    <3> QED BY <3>1, <3>2, ApartKeeps DEF Safe
  <2>13. Amounts'
    <3>1. (Length(me) # 0 /\ start[me] # FREE)'
      <4>1. Length(me)' = m
        BY <2>1, <2>2, <2>3, <2>9 DEF Length
      <4> QED BY <2>1, <2>2, <2>3, <4>1, Constants
    <3> HIDE DEF Length
    <3> QED BY <2>1, <2>2, <2>3, <2>9, <3>1 DEF Amounts, At
  <2>14. Place'
    BY <2>1, <2>9 DEF Place
  <2>15. Freeing'
    <3>1. ChainAt(me, Length(me))' = END \/ contiguous'[me']
      <4>1. Length(me)' = m
        BY <2>1, <2>2, <2>3, <2>9 DEF Length
      <4>2. ChainFrom(fat', contiguous'[g], start'[g])[m] = END \/ contiguous[g]
        BY <2>6, <2>8 DEF ChainAt
      <4> QED BY <2>1, <2>2, <4>1, <4>2 DEF ChainAt
    <3>2. ASSUME NEW j \in 0 .. difference - 1
          PROVE  /\ ~Invalid(Rest(j)') =>
                      /\ Rest(j)' \in bitmap \ System
                      /\ \A k \in 0 .. difference - 1 : Rest(k)' = Rest(j)' => k = j
                      /\ \A f \in Files : \A k \in 0 .. Length(f)' - 1 :
                            ChainAt(f, k)' # Rest(j)'
                 /\ Invalid(Rest(j)') => ~contiguous[g]
      <4>1. c = Follow(fat, contiguous[g], x) \/ (c = BAD /\ ~contiguous[g])
        BY <1>3, <2>2, <2>4, NextFollows
      <4>2. CASE c = BAD /\ ~contiguous[g]
        <5>1. Rest(j)' = BAD
          <6>1. j \in Nat /\ Invalid(previous')
            BY <2>1, <2>3, <4>2, Constants DEF Invalid
          <6> QED BY <2>1, <4>2, <6>1, RestEnds
        <5> QED BY <4>2, <5>1, Constants DEF Invalid
      <4>3. CASE c = Follow(fat, contiguous[g], x)
        <5>1. \A k \in Nat : ChainAt(g, k) = ChainFrom(fat, contiguous[g], start[g])[k]
          BY DEF ChainAt
        <5>2. previous' = ChainFrom(fat, contiguous[g], start[g])[m]
          <6>1. PICK k \in Nat : k = m - 1 /\ k + 1 = m
            BY <2>3
          <6>2. ChainAt(g, m) = Follow(fat, contiguous[g], ChainAt(g, m - 1))
            BY <6>1, ChainSteps
          <6> QED BY <2>1, <2>5, <4>3, <5>1, <6>2
        <5>3. PICK n \in Nat : n = difference - 1
          BY <2>3
        <5>4. \A k \in 0 .. n - 1 : ChainFrom(fat, contiguous[g], start[g])[m + k] # x
          <6>1. ASSUME NEW k \in 0 .. n - 1
                PROVE  ChainAt(g, m + k) # x
            <7>1. m + k \in 0 .. Length(g) - 1 /\ m - 1 \in 0 .. Length(g) - 1
                  /\ m + k # m - 1
              BY <2>3, <5>3
            <7> QED BY <2>4, <2>5, <7>1, ApartMeans DEF Safe, Invalid
          <6> QED BY <5>1, <6>1
        <5>5. \A k \in 0 .. n : Rest(k)' = ChainAt(g, m + k)
          <6>1. PICK b \in Int : b = start[g]
            BY <2>3, Constants
          <6>2. me' = g /\ contiguous' = contiguous
            BY <2>1, <2>2
          <6>3. \A k \in 0 .. n : Rest(k)' = ChainFrom(fat, contiguous[g], b)[m + k]
            <7>1. fat' = IF contiguous[g] THEN fat ELSE [fat EXCEPT ![x] = y]
              BY <2>7
            <7>2. previous' = ChainFrom(fat, contiguous[g], b)[m]
              BY <5>2, <6>1
            <7>3. \A k \in 0 .. n - 1 : ChainFrom(fat, contiguous[g], b)[m + k] # x
              BY <5>4, <6>1
            <7> QED BY <6>2, <7>1, <7>2, <7>3, RestMoves
          <6> QED BY <5>1, <6>1, <6>3
        <5>6. m + j \in 0 .. Length(g) - 1 /\ j \in 0 .. n
          BY <2>3, <5>3
        <5>7. Rest(j)' = ChainAt(g, m + j)
          BY <5>5, <5>6
        <5>8. Invalid(ChainAt(g, m + j)) => ~contiguous[g]
          BY <5>6, ApartMeans DEF Safe
        <5>9. ASSUME ~Invalid(ChainAt(g, m + j))
              PROVE  /\ ChainAt(g, m + j) \in bitmap \ System
                     /\ \A k \in 0 .. difference - 1 :
                           ChainAt(g, m + k) = ChainAt(g, m + j) => k = j
                     /\ \A f \in Files : \A k \in 0 .. Length(f)' - 1 :
                            ChainAt(f, k)' # ChainAt(g, m + j)
          <6>1. ChainAt(g, m + j) \in bitmap \ System
            BY <5>6, <5>9, ApartMeans DEF Safe
          <6>2. ASSUME NEW k \in 0 .. difference - 1, ChainAt(g, m + k) = ChainAt(g, m + j)
                PROVE  k = j
            <7>1. m + k \in 0 .. Length(g) - 1
              BY <2>3
            <7>2. m + k = m + j
              BY <5>6, <5>9, <6>2, <7>1, ApartMeans DEF Safe
            <7> QED BY <7>2
          <6>3. ASSUME NEW f \in Files, NEW k \in 0 .. Length(f)' - 1,
                       ChainAt(f, k)' = ChainAt(g, m + j)
                PROVE  FALSE
            <7>1. k \in 0 .. Length(f) - 1 /\ ChainAt(f, k) = ChainAt(g, m + j)
              BY <2>11, <6>3
            <7>2. f = g /\ k = m + j
              BY <5>6, <5>9, <7>1, ApartMeans DEF Safe
            <7>3. k \in 0 .. m - 1
              BY <2>10, <6>3, <7>2
            <7> QED BY <7>2, <7>3
          <6> QED BY <6>1, <6>2, <6>3
        <5>10. \A k \in 0 .. difference - 1 : Rest(k)' = ChainAt(g, m + k)
          BY <5>3, <5>5
        <5> QED BY <5>7, <5>8, <5>9, <5>10
      <4> QED BY <4>1, <4>2, <4>3
    <3>3. \A j : (Invalid(Rest(j)))' <=> Invalid(Rest(j)')
      BY DEF Invalid
    <3>4. /\ difference' = difference /\ bitmap' = bitmap
          /\ contiguous'[me'] <=> contiguous[g]
      BY <2>1, <2>2
    <3> HIDE DEF Length
    <3> QED BY <3>1, <3>2, <3>3, <3>4 DEF Freeing
  <2>16. Cached'
    <3>1. /\ fptrIndex'[g] = 0 /\ fptrCluster'[g] = start[g]
          /\ \A f \in Files \ {g} : fptrIndex'[f] = fptrIndex[f]
                                    /\ fptrCluster'[f] = fptrCluster[f]
          /\ \A f \in Files : fptrIndex[f] \in Nat
      BY <2>1, <2>2 DEF SetFptr, TypeOK
    <3>2. ASSUME NEW f \in Files, fptrIndex'[f] < Length(f)'
          PROVE  (fptrCluster[f] = ChainAt(f, fptrIndex[f])
                    \/ (failed /\ fptrCluster[f] = BAD))'
      <4>1. CASE f = g
        <5>1. ChainAt(g, 0)' = start[g]
          BY <2>1, ChainStepsNext
        <5> QED BY <3>1, <4>1, <5>1 DEF ChainAt
      <4>2. CASE f # g
        <5>1. fptrIndex[f] < Length(f)
          BY <2>10, <3>1, <3>2, <4>2
        <5>2. fptrCluster[f] = ChainAt(f, fptrIndex[f])
              \/ (failed /\ fptrCluster[f] = BAD)
          BY <1>1, <5>1, CachedMeans DEF Safe
        <5>3. ChainAt(f, fptrIndex[f])' = ChainAt(f, fptrIndex[f])
          <6>1. fptrIndex[f] \in 0 .. Length(f)
            BY <3>1, <5>1, LengthType
          <6>2. \A k \in 0 .. Length(f) :
                   ChainFrom(fat', contiguous'[f], start'[f])[k] = ChainAt(f, k)
            <7>1. \A k \in 0 .. Length(f) : ChainAt(f, k)' = ChainAt(f, k)
              BY <2>8, <4>2
            <7> QED BY <7>1 DEF ChainAt
          <6> QED BY <3>1, <4>2, <6>1, <6>2 DEF ChainAt
        <5> QED BY <2>1, <3>1, <4>2, <5>2, <5>3
      <4> QED BY <4>1, <4>2
    <3> QED BY <2>1, <3>2 DEF Cached
  <2>17. Steady
    <3>1. ASSUME NEW f \in Files, NEW k \in 0 .. Length(f) - 1, k < Length(f)'
          PROVE  ChainAt(f, k)' = ChainAt(f, k)
      <4>1. Length(f)' \in Nat /\ Length(f) \in Nat
        BY LengthType, LengthTypeNext
      <4>2. k \in 0 .. Length(f)' - 1
        BY <3>1, <4>1
      <4> QED BY <2>11, <4>2
    <3> QED BY <2>1, <2>2, <2>8, <3>1 DEF Steady
  <2> QED BY <2>12, <2>13, <2>14, <2>15, <2>16, <2>17 DEF Safe
<1> QED BY <1>1, <1>2, <1>3

\* One cluster is given back; what follows it is next.
LEMMA FreeNextSafe ==
    ASSUME TypeOK, TypeOK', Unharmed, Unharmed', Safe, Control', FreeNext
    PROVE  Safe' /\ Steady
<1>1. /\ pc = "free" /\ difference > 0 /\ ~Invalid(previous)
      /\ \/ GaveUp /\ ~contiguous[me]
         \/ \E c \in NextClusters(me, previous) : Released(c)
  BY FreeNextOutcome
<1>2. CASE GaveUp /\ ~contiguous[me]
  BY <1>1, <1>2, GaveUpSafe
<1>3. ASSUME NEW c \in NextClusters(me, previous), Released(c)
      PROVE  Safe' /\ Steady
  <2>1. /\ fat' = IF contiguous[me] THEN fat ELSE [fat EXCEPT ![previous] = FREE]
        /\ bitmap' = bitmap \ {previous} /\ previous' = c /\ difference' = difference - 1
        /\ failed' = (failed \/ c = BAD)
        /\ UNCHANGED <<start, size, contiguous, fptr, pc, me, goal, erase, allocated, undo>>
    BY <1>3 DEF Released, Freed, nodes, args
  <2>2. PICK g \in Files : g = me
    BY DEF TypeOK
  <2>3. PICK x \in Clusters, y \in FatEntry : x = previous /\ y = FREE
    BY <1>1, Constants DEF Invalid
  <2>4. fat' = IF contiguous[g] THEN fat ELSE [fat EXCEPT ![x] = y]
    BY <2>1, <2>2, <2>3
  <2>5. difference \in Nat /\ Rest(0) = x /\ 0 \in 0 .. difference - 1
    BY <1>1, <2>3, RestSteps DEF TypeOK
  <2>6. /\ x \in bitmap \ System
        /\ \A k \in 0 .. difference - 1 : Rest(k) = x => k = 0
        /\ \A f \in Files : \A k \in 0 .. Length(f) - 1 : ChainAt(f, k) # x
    BY <1>1, <2>5, Zenon DEF Safe, Freeing, Invalid
  <2>7. \A f \in Files : \A k \in 0 .. Length(f) : ChainAt(f, k)' = ChainAt(f, k)
    <3>1. ASSUME NEW f \in Files
          PROVE  \A k \in 0 .. Length(f) : ChainAt(f, k)' = ChainAt(f, k)
      <4>1. Length(f) \in Nat /\ \A k \in 0 .. Length(f) - 1 : ChainAt(f, k) # x
        BY <2>6, LengthType
      <4>2. start'[f] = start[f] /\ contiguous'[f] = contiguous[f]
        BY <2>1
      <4>3. fat' = fat \/ fat' = [fat EXCEPT ![x] = y]
        BY <2>4
      <4> QED BY <4>1, <4>2, <4>3, ChainKeeps
    <3> QED BY <3>1
  <2>8. \A f \in Files : Length(f)' = Length(f)
    BY <1>1, <2>1 DEF Length, Growing, Undoing, Keeping, Erasing, At
  <2>9. \A f \in Files : Length(f)' <= Length(f)
    BY <2>8, LengthType
  <2>10. \A f \in Files : \A k \in 0 .. Length(f)' - 1 :
            k \in 0 .. Length(f) - 1 /\ k < Length(f) /\ ChainAt(f, k)' = ChainAt(f, k)
    <3>1. ASSUME NEW f \in Files, NEW k \in 0 .. Length(f)' - 1
          PROVE  k \in 0 .. Length(f) - 1 /\ k < Length(f) /\ ChainAt(f, k)' = ChainAt(f, k)
      BY <2>7, <2>8, LengthType
    <3> QED BY <3>1
  <2>11. Apart'
    <3>1. System \subseteq bitmap'
      BY <2>1, <2>3, <2>6 DEF Safe, Apart
    <3>2. ASSUME NEW f \in Files, NEW k \in 0 .. Length(f)' - 1
          PROVE  Stays(f, k)
      <4>1. ~Invalid(ChainAt(f, k)) => ChainAt(f, k) \in bitmap
        BY <2>10, ApartMeans DEF Safe
      <4>2. ChainAt(f, k) # x
        BY <2>6, <2>10
      <4> QED BY <2>1, <2>3, <2>10, <4>1, <4>2 DEF Stays
    <3> QED BY <3>1, <3>2, ApartKeeps DEF Safe
  <2>12. Amounts'
    <3>1. (Length(me) = Length(g))' /\ Length(me) = Length(g)
      BY <2>1, <2>2
    <3>2. (pc = "free" => (start[me] = FREE <=> Length(me) = 0))'
      <4>1. start[me] = FREE <=> Length(me) = 0
        BY <1>1 DEF Safe, Amounts
      <4> QED BY <2>1, <2>8, <3>1, <4>1
    <3>3. (~undo => goal < size[me]) /\ (undo => size[me] < goal)
          /\ \A f \in Files \ {me} : size[f] = 0 <=> start[f] = FREE
      BY <1>1 DEF Safe, Amounts
    <3> QED BY <1>1, <2>1, <3>2, <3>3 DEF Amounts, Growing, At
  <2>13. Place'
    BY <1>1, <2>1 DEF Place, Growing, Undoing, Erasing, At
  <2>14. Freeing'
    <3>1. (start[me] # FREE /\ ~contiguous[me] => ChainAt(me, Length(me)) = END)'
      <4>1. start[g] # FREE /\ ~contiguous[g] => ChainAt(g, Length(g)) = END
        BY <1>1, <2>2 DEF Safe, Freeing
      <4>2. Length(me)' = Length(g)
        BY <1>1, <2>1, <2>2 DEF Length, Growing, Undoing, Keeping, Erasing, At
      <4>3. ChainFrom(fat', contiguous'[g], start'[g])[Length(g)] = ChainAt(g, Length(g))
        <5>1. \A k \in 0 .. Length(g) :
                 ChainFrom(fat', contiguous'[g], start'[g])[k] = ChainAt(g, k)
          BY <2>7 DEF ChainAt
        <5>2. Length(g) \in 0 .. Length(g)
          BY LengthType
        <5> QED BY <5>1, <5>2
      <4> QED BY <2>1, <2>2, <4>1, <4>2, <4>3 DEF ChainAt
    <3>2. ASSUME NEW j \in 0 .. (difference - 1) - 1
          PROVE  /\ ~Invalid(Rest(j)') =>
                      /\ Rest(j)' \in bitmap' \ System
                      /\ \A k \in 0 .. (difference - 1) - 1 : Rest(k)' = Rest(j)' => k = j
                      /\ \A f \in Files : \A k \in 0 .. Length(f)' - 1 :
                            ChainAt(f, k)' # Rest(j)'
                 /\ Invalid(Rest(j)') => ~contiguous[g]
      <4>1. c = Follow(fat, contiguous[g], x) \/ (c = BAD /\ ~contiguous[g])
        BY <1>1, <1>3, <2>2, <2>3, NextFollows
      <4>2. CASE c = BAD /\ ~contiguous[g]
        <5>1. Rest(j)' = BAD
          <6>1. j \in Nat /\ Invalid(previous')
            BY <2>1, <2>5, <4>2, Constants DEF Invalid
          <6> QED BY <2>1, <4>2, <6>1, RestEnds
        <5> QED BY <4>2, <5>1, Constants DEF Invalid
      <4>3. CASE c = Follow(fat, contiguous[g], x)
        <5>1. \A k : Rest(k) = ChainFrom(fat, contiguous[g], x)[k]
          BY <2>2, <2>3 DEF Rest
        <5>2. previous' = ChainFrom(fat, contiguous[g], x)[1]
          <6>1. Rest(0 + 1) = Follow(fat, contiguous[g], x)
            BY <2>2, <2>5, RestSteps
          <6> QED BY <2>1, <4>3, <5>1, <6>1
        <5>3. PICK n \in Nat : n = (difference - 1) - 1
          BY <2>5
        <5>4. \A k \in 0 .. n - 1 : ChainFrom(fat, contiguous[g], x)[1 + k] # x
          <6>1. ASSUME NEW k \in 0 .. n - 1
                PROVE  Rest(1 + k) # x
            <7>1. 1 + k \in 0 .. difference - 1 /\ 1 + k # 0
              BY <2>5, <5>3
            <7> QED BY <2>6, <7>1
          <6> QED BY <5>1, <6>1
        <5>5. \A k \in 0 .. n : Rest(k)' = Rest(1 + k)
          <6>1. me' = g /\ contiguous' = contiguous /\ x \in Int /\ 1 \in Nat
            BY <2>1, <2>2, Constants
          <6>2. \A k \in 0 .. n : Rest(k)' = ChainFrom(fat, contiguous[g], x)[1 + k]
            BY <2>4, <5>2, <5>4, <6>1, RestMoves
          <6> QED BY <5>1, <6>2
        <5>6. 1 + j \in 0 .. difference - 1 /\ j \in 0 .. n
          BY <2>5, <5>3
        <5>7. Rest(j)' = Rest(1 + j)
          BY <5>5, <5>6
        <5>8. Invalid(Rest(1 + j)) => ~contiguous[g]
          BY <1>1, <2>2, <5>6 DEF Safe, Freeing
        <5>9. ASSUME ~Invalid(Rest(1 + j))
              PROVE  /\ Rest(1 + j) \in bitmap' \ System
                     /\ \A k \in 0 .. (difference - 1) - 1 : Rest(1 + k) = Rest(1 + j) => k = j
                     /\ \A f \in Files : \A k \in 0 .. Length(f)' - 1 :
                            ChainAt(f, k)' # Rest(1 + j)
          <6>1. /\ Rest(1 + j) \in bitmap \ System
                /\ \A k \in 0 .. difference - 1 : Rest(k) = Rest(1 + j) => k = 1 + j
                /\ \A f \in Files : \A k \in 0 .. Length(f) - 1 :
                      ChainAt(f, k) # Rest(1 + j)
            BY <1>1, <5>6, <5>9, Zenon DEF Safe, Freeing
          <6>2. Rest(1 + j) # x
            <7>1. 1 + j # 0
              BY <5>6
            <7> QED BY <2>6, <5>6, <7>1
          <6>3. ASSUME NEW k \in 0 .. (difference - 1) - 1, Rest(1 + k) = Rest(1 + j)
                PROVE  k = j
            <7>1. 1 + k \in 0 .. difference - 1
              BY <2>5
            <7>2. 1 + k = 1 + j
              BY <6>1, <6>3, <7>1
            <7> QED BY <7>2
          <6> QED BY <2>1, <2>3, <2>10, <6>1, <6>2, <6>3
        <5>10. \A k \in 0 .. (difference - 1) - 1 : Rest(k)' = Rest(1 + k)
          BY <5>3, <5>5
        <5> QED BY <5>7, <5>8, <5>9, <5>10
      <4> QED BY <4>1, <4>2, <4>3
    <3>3. \A j : (Invalid(Rest(j)))' <=> Invalid(Rest(j)')
      BY DEF Invalid
    <3>4. /\ difference' = difference - 1
          /\ contiguous'[me'] <=> contiguous[g]
      BY <2>1, <2>2
    <3> HIDE DEF Length
    <3> QED BY <3>1, <3>2, <3>3, <3>4 DEF Freeing
  <2>15. Cached'
    <3>1. \A f \in Files : \A k \in 0 .. Length(f)' - 1 : ChainAt(f, k)' = ChainAt(f, k)
      BY <2>10
    <3> QED BY <1>1, <2>1, <2>9, <3>1, SameCached
  <2>16. Steady
    BY <2>7, LengthType DEF Steady
  <2> QED BY <2>11, <2>12, <2>13, <2>14, <2>15, <2>16 DEF Safe
<1> QED BY <1>1, <1>2, <1>3

-----------------------------------------------------------------------------
(***************************************************************************)
(* The invariant, step by step: zeroing what was added.                    *)
(***************************************************************************)
\* What holds while erase_range runs.
LEMMA ErasingMeans ==
    ASSUME TypeOK, Unharmed, Safe, pc \in {"erase", "eraseloop"}, NEW g \in Files, g = me
    PROVE  /\ size[g] \in Nat /\ goal \in Nat /\ allocated \in Nat /\ size[g] < goal /\ ~undo
           /\ erase
           /\ Length(g) = goal /\ start[g] \in Clusters
           /\ \A k \in 0 .. goal - 1 : ~Invalid(ChainAt(g, k))
           /\ \A f \in Files \ {g} : size[f] = 0 <=> start[f] = FREE
           /\ \A f \in Files : f # me \/ pc # "advance"
<1>1. size[g] \in Nat /\ goal \in Nat /\ allocated \in Nat
  BY Constants DEF TypeOK
<1>2. Erasing /\ ~Growing /\ ~Keeping /\ ~Undoing
  BY DEF Erasing, Growing, Keeping, Undoing, At
<1>3. size[g] < goal /\ ~undo /\ erase
  <2>1. CASE pc = "erase"
    BY <2>1 DEF Safe, Amounts, At
  <2>2. CASE pc = "eraseloop"
    BY <1>1, <2>2 DEF Safe, Amounts
  <2> QED BY <2>1, <2>2
<1>4. Length(g) = goal
  BY <1>2 DEF Length
<1>5. start[g] \in Clusters /\ \A f \in Files \ {g} : size[f] = 0 <=> start[f] = FREE
  BY DEF Safe, Control, Amounts
<1>6. ~Invalid(ChainAt(g, goal - 1))
  BY <1>2, <1>4 DEF Safe, Place
<1>7. \A k \in 0 .. goal - 1 : ~Invalid(ChainAt(g, k))
  <2>1. PICK n \in Nat : n = goal - 1
    BY <1>1, <1>3
  <2>2. ASSUME NEW k \in 0 .. n, Invalid(ChainAt(g, k))
        PROVE  FALSE
    <3>1. ChainAt(g, n) = ChainAt(g, k)
      BY <2>1, <2>2, ChainEnds
    <3> QED BY <1>6, <2>1, <2>2, <3>1 DEF Invalid
  <2> QED BY <2>1, <2>2
<1> QED BY <1>1, <1>3, <1>4, <1>5, <1>7

\* One more cluster of the file is zeroed: the n-th.
LEMMA ZeroedSafe ==
    ASSUME TypeOK, TypeOK', Unharmed, Unharmed', Safe, Control',
           pc \in {"erase", "eraseloop"}, NEW c, NEW n \in Nat, Zeroed(c, n),
           size[me] < n, n <= goal, c = ChainAt(me, n - 1),
           \A k \in size[me] .. n - 2 : ChainAt(me, k) \in erased
    PROVE  Safe'
<1>1. /\ erased' = erased \cup {c} /\ next' = c /\ allocated' = n /\ pc' = "eraseloop"
      /\ UNCHANGED <<fat, bitmap, start, size, contiguous, fptr, me, goal, erase, undo, failed>>
  BY DEF Zeroed, Zero, disk, nodes, args, hist
<1>2. PICK g \in Files : g = me
  BY DEF TypeOK
<1>3. /\ size[g] \in Nat /\ goal \in Nat /\ size[g] < goal /\ ~undo /\ erase
      /\ Length(g) = goal /\ start[g] \in Clusters
      /\ \A k \in 0 .. goal - 1 : ~Invalid(ChainAt(g, k))
      /\ \A f \in Files \ {g} : size[f] = 0 <=> start[f] = FREE
      /\ \A f \in Files : f # me \/ pc # "advance"
  BY <1>2, ErasingMeans
<1>4. ~Growing' /\ ~Keeping' /\ ~Undoing' /\ Erasing'
  BY <1>1 DEF Growing, Keeping, Undoing, Erasing, At
<1>5. \A f \in Files : Length(f)' = Length(f)
  <2>1. Length(g)' = goal
    BY <1>1, <1>2, <1>4 DEF Length
  <2>2. \A f \in Files \ {g} : Length(f)' = Length(f)
    BY <1>1, <1>2 DEF Length
  <2> QED BY <1>3, <2>1, <2>2
<1>6. \A f \in Files : Length(f)' <= Length(f)
  BY <1>5, LengthType
<1>7. \A f, k : ChainAt(f, k)' = ChainAt(f, k)
  BY <1>1 DEF ChainAt
<1>8. Apart'
  BY <1>1, <1>6, SameApart
<1>9. Cached'
  BY <1>1, <1>3, <1>6, <1>7, SameCached
<1>10. Amounts'
  BY <1>1, <1>2, <1>3, <1>4 DEF Amounts, At
<1>11. Place'
  <2>1. (~Invalid(ChainAt(me, Length(me) - 1)))'
    <3>1. (Length(me) - 1)' = goal - 1
      BY <1>1, <1>2, <1>4 DEF Length
    <3>2. ChainAt(me, Length(me) - 1)' = ChainAt(g, goal - 1)
      BY <1>1, <1>2, <3>1 DEF ChainAt
    <3>3. goal - 1 \in 0 .. goal - 1
      BY <1>3
    <3> QED BY <1>3, <3>2, <3>3 DEF Invalid
  <2>2. (next = ChainAt(me, allocated - 1))'
    <3>1. ChainAt(me, allocated - 1)' = ChainAt(me, n - 1)
      BY <1>1 DEF ChainAt
    <3> QED BY <1>1, <3>1
  <2>3. (\A k \in size[me] .. allocated - 1 : ChainAt(me, k) \in erased)'
    <3>1. ASSUME NEW k \in size[g] .. n - 1
          PROVE  ChainAt(g, k) \in erased \cup {c}
      <4>1. CASE k = n - 1
        BY <1>2, <4>1
      <4>2. CASE k # n - 1
        <5>1. k \in size[me] .. n - 2
          BY <1>2, <1>3, <4>2
        <5> QED BY <1>2, <5>1
      <4> QED BY <4>1, <4>2
    <3>2. \A k : ChainAt(me, k)' = ChainAt(g, k)
      BY <1>1, <1>2 DEF ChainAt
    <3> QED BY <1>1, <1>2, <3>1, <3>2
  <2> QED BY <1>1, <1>4, <2>1, <2>2, <2>3 DEF Place
<1>12. Freeing'
  BY <1>1 DEF Freeing
<1> QED BY <1>8, <1>9, <1>10, <1>11, <1>12 DEF Safe

LEMMA EraseFirstSafe ==
    ASSUME TypeOK, TypeOK', Unharmed, Unharmed', Safe, Control', EraseFirst
    PROVE  Safe'
<1>1. /\ pc = "erase"
      /\ \/ GaveUp
         \/ ~Invalid(fptrCluster[me]) /\ Zeroed(fptrCluster[me], size[me] + 1)
  BY EraseFirstOutcome
<1>2. CASE GaveUp
  BY <1>1, <1>2, GaveUpSafe
<1>3. CASE ~Invalid(fptrCluster[me]) /\ Zeroed(fptrCluster[me], size[me] + 1)
  <2>1. PICK g \in Files : g = me
    BY DEF TypeOK
  <2>2. /\ size[g] \in Nat /\ goal \in Nat /\ size[g] < goal /\ Length(g) = goal
    BY <1>1, <2>1, ErasingMeans
  <2>3. PICK n \in Nat : n = size[g] + 1
    BY <2>2
  <2>4. PICK c \in Clusters : c = fptrCluster[g]
    BY <1>3, <2>1 DEF Invalid
  <2>5. fptrIndex[g] = size[g]
    BY <1>1, <2>1 DEF Safe, Amounts
  <2>6. c = ChainAt(g, size[g])
    <3>1. fptrIndex[g] < Length(g)
      BY <2>2, <2>5
    <3> QED BY <1>1, <2>4, <2>5, <3>1, CachedMeans, Constants DEF Safe
  <2>7. Zeroed(c, n)
    BY <1>3, <2>1, <2>3, <2>4 DEF Zeroed, Zero
  <2>8. /\ size[me] < n /\ n <= goal /\ n - 1 = size[g]
        /\ \A k \in size[me] .. n - 2 : ChainAt(me, k) \in erased
    BY <2>1, <2>2, <2>3
  <2>9. c = ChainAt(me, n - 1)
    BY <2>1, <2>6, <2>8
  <2> QED BY <1>1, <2>7, <2>8, <2>9, ZeroedSafe
<1> QED BY <1>1, <1>2, <1>3

LEMMA EraseNextSafe ==
    ASSUME TypeOK, TypeOK', Unharmed, Unharmed', Safe, Control', EraseNext
    PROVE  Safe'
<1>1. pc = "eraseloop" /\ allocated < goal
  BY EraseNextOutcome DEF MoreToErase
<1>2. PICK d \in NextClusters(me, next) :
           \/ GaveUp
           \/ Invalid(d) /\ Aborted /\ failed' = (failed \/ d = BAD)
           \/ ~Invalid(d) /\ Zeroed(d, allocated + 1)
  BY EraseNextOutcome
<1>3. CASE GaveUp
  BY <1>1, <1>3, GaveUpSafe
<1>4. CASE Aborted /\ failed' = (failed \/ d = BAD)
  <2>1. pc' = "bug" /\ UNCHANGED <<fat, bitmap, nodes, fptr, me>>
    BY <1>4 DEF Aborted, disk, args
  <2>2. failed => failed'
    BY <1>4
  <2> QED BY <1>1, <2>1, <2>2, ReturnSafe
<1>5. CASE ~Invalid(d) /\ Zeroed(d, allocated + 1)
  <2>1. PICK g \in Files : g = me
    BY DEF TypeOK
  <2>2. /\ size[g] \in Nat /\ goal \in Nat /\ size[g] < goal /\ Length(g) = goal
        /\ allocated \in Nat
        /\ \A k \in 0 .. goal - 1 : ~Invalid(ChainAt(g, k))
    BY <1>1, <2>1, ErasingMeans
  <2>3. /\ size[g] < allocated /\ next = ChainAt(g, allocated - 1)
        /\ \A k \in size[g] .. allocated - 1 : ChainAt(g, k) \in erased
    BY <1>1, <2>1 DEF Safe, Amounts, Place
  <2>4. PICK a \in Nat : a = allocated - 1 /\ a + 1 = allocated
    BY <2>2, <2>3
  <2>5. d = ChainAt(g, a + 1)
    <3>1. ChainAt(g, a + 1) = Follow(fat, contiguous[g], ChainAt(g, a))
      BY ChainSteps
    <3>2. ChainAt(g, a) = next
      BY <2>3, <2>4
    <3>3. ~Invalid(next)
      <4>1. a \in 0 .. goal - 1
        BY <1>1, <2>2, <2>4
      <4> QED BY <2>2, <3>2, <4>1 DEF Invalid
    <3>4. d = Follow(fat, contiguous[g], next) \/ d = BAD
      BY <2>1, <3>3, NextFollows
    <3> QED BY <1>5, <3>1, <3>2, <3>4, Constants DEF Invalid
  <2>6. PICK n \in Nat : n = allocated + 1
    BY <2>2
  <2>7. Zeroed(d, n)
    BY <1>5, <2>6 DEF Zeroed
  <2>8. /\ size[me] < n /\ n <= goal /\ n - 1 = a + 1 /\ n - 2 = allocated - 1
    BY <1>1, <2>1, <2>2, <2>3, <2>4, <2>6
  <2>9. d = ChainAt(me, n - 1) /\ \A k \in size[me] .. n - 2 : ChainAt(me, k) \in erased
    BY <2>1, <2>3, <2>5, <2>8
  <2>10. pc \in {"erase", "eraseloop"}
    BY <1>1
  <2> QED BY <2>7, <2>8, <2>9, <2>10, ZeroedSafe
<1> QED BY <1>2, <1>3, <1>4, <1>5

-----------------------------------------------------------------------------
(***************************************************************************)
(* The volume at first.                                                    *)
(***************************************************************************)
\* What the nodes and the table say of a layout.
Mounted(layout) ==
    /\ fat = [c \in Clusters |-> Link(layout, c)]
    /\ bitmap = System \cup UNION {Elements(layout[f].chain) : f \in Files}
    /\ start = [f \in Files |-> IF layout[f].chain = <<>> THEN FREE
                                 ELSE layout[f].chain[1]]
    /\ size = [f \in Files |-> Len(layout[f].chain)]
    /\ contiguous = [f \in Files |-> layout[f].contiguous]

LEMMA LayoutMeans ==
    ASSUME NEW layout \in Layouts, NEW f \in Files
    PROVE  /\ layout[f].chain \in Seq(Clusters \ System)
           /\ layout[f].contiguous \in BOOLEAN
           /\ \A k \in DOMAIN layout[f].chain : layout[f].chain[k] \in Clusters \ System
           /\ \A j, k \in DOMAIN layout[f].chain :
                 layout[f].chain[j] = layout[f].chain[k] => j = k
           /\ layout[f].contiguous =>
                 /\ layout[f].chain # <<>>
                 /\ \A k \in DOMAIN layout[f].chain :
                       layout[f].chain[k] = layout[f].chain[1] + k - 1
           /\ \A g \in Files \ {f} : \A j \in DOMAIN layout[f].chain :
                 \A k \in DOMAIN layout[g].chain : layout[f].chain[j] # layout[g].chain[k]
<1>1. Sound(layout)
  BY ExfatClusterAssumption
<1>2. layout[f].chain \in Seq(Clusters \ System) /\ layout[f].contiguous \in BOOLEAN
  BY <1>1 DEF Sound
<1>3. \A g \in Files \ {f} : \A j \in DOMAIN layout[f].chain :
         \A k \in DOMAIN layout[g].chain : layout[f].chain[j] # layout[g].chain[k]
  <2> SUFFICES ASSUME NEW g \in Files \ {f}, NEW j \in DOMAIN layout[f].chain,
                      NEW k \in DOMAIN layout[g].chain
               PROVE  layout[f].chain[j] # layout[g].chain[k]
    OBVIOUS
  <2>1. Elements(layout[f].chain) \cap Elements(layout[g].chain) = {}
    BY <1>1 DEF Sound
  <2>2. layout[f].chain[j] \in Elements(layout[f].chain)
    BY DEF Elements
  <2>3. layout[g].chain[k] \in Elements(layout[g].chain)
    BY DEF Elements
  <2> QED BY <2>1, <2>2, <2>3
<1> QED BY <1>1, <1>2, <1>3 DEF Sound

\* The table links a chain that uses it.
LEMMA LinkMeans ==
    ASSUME NEW layout \in Layouts, NEW f \in Files, ~layout[f].contiguous,
           NEW k \in DOMAIN layout[f].chain
    PROVE  Link(layout, layout[f].chain[k])
             = IF k = Len(layout[f].chain) THEN END ELSE layout[f].chain[k + 1]
<1> DEFINE c == layout[f].chain[k]
           Here == {h \in UNION {{g} \X DOMAIN layout[g].chain : g \in Files} :
                      /\ ~layout[h[1]].contiguous
                      /\ layout[h[1]].chain[h[2]] = c}
           p == CHOOSE h \in Here : TRUE
<1>1. <<f, k>> \in Here
  OBVIOUS
<1>2. \A h \in Here : h[1] = f /\ h[2] = k
  <2> SUFFICES ASSUME NEW h \in Here PROVE h[1] = f /\ h[2] = k
    OBVIOUS
  <2>1. h[1] \in Files /\ h[2] \in DOMAIN layout[h[1]].chain
        /\ layout[h[1]].chain[h[2]] = layout[f].chain[k]
    OBVIOUS
  <2>2. h[1] = f
    BY <2>1, LayoutMeans
  <2> QED BY <2>1, <2>2, LayoutMeans
<1>3. p \in Here
  BY <1>1
<1>4. Link(layout, c) = IF p[2] = Len(layout[p[1]].chain) THEN END
                        ELSE layout[p[1]].chain[p[2] + 1]
  BY <1>1 DEF Link
<1> HIDE DEF p
<1>5. p[1] = f /\ p[2] = k
  BY <1>2, <1>3
<1> QED BY <1>4, <1>5

\* Each file visits the clusters of its chain, in that order.
LEMMA MountedChain ==
    ASSUME TypeOK, NEW layout \in Layouts, Mounted(layout), NEW f \in Files
    PROVE  /\ \A k \in Nat : k < size[f] => ChainAt(f, k) = layout[f].chain[k + 1]
           /\ size[f] > 0 /\ ~contiguous[f] => ChainAt(f, size[f]) = END
<1> DEFINE chain == layout[f].chain
           S == {k \in Nat : k < Len(chain) => ChainAt(f, k) = chain[k + 1]}
<1>1. /\ size[f] = Len(chain) /\ contiguous[f] = layout[f].contiguous
      /\ start[f] = IF chain = <<>> THEN FREE ELSE chain[1]
      /\ \A c \in Clusters : fat[c] = Link(layout, c)
  BY DEF Mounted
<1>2. /\ chain \in Seq(Clusters \ System) /\ Len(chain) \in Nat
      /\ \A k \in Nat : k < Len(chain) => chain[k + 1] \in Clusters /\ k + 1 \in DOMAIN chain
  <2>1. chain \in Seq(Clusters \ System)
    BY LayoutMeans
  <2> HIDE DEF chain
  <2> QED BY <2>1
<1>3. ASSUME NEW k \in Nat, k < Len(chain), ChainAt(f, k) = chain[k + 1]
      PROVE  ChainAt(f, k + 1) = IF layout[f].contiguous THEN chain[k + 1] + 1
                                 ELSE IF k + 1 = Len(chain) THEN END ELSE chain[k + 2]
  <2>1. ChainAt(f, k + 1) = Follow(fat, contiguous[f], chain[k + 1])
    BY <1>3, ChainSteps
  <2>2. chain[k + 1] \in Clusters /\ k + 1 \in DOMAIN chain
    BY <1>2, <1>3
  <2>3. ChainAt(f, k + 1) = IF layout[f].contiguous THEN chain[k + 1] + 1
                            ELSE Link(layout, chain[k + 1])
    BY <1>1, <2>1, <2>2 DEF Follow, NextCluster, Invalid
  <2>4. ~layout[f].contiguous =>
           Link(layout, chain[k + 1]) = IF k + 1 = Len(chain) THEN END ELSE chain[k + 2]
    <3>1. (k + 1) + 1 = k + 2
      OBVIOUS
    <3> QED BY <2>2, <3>1, LinkMeans
  <2> QED BY <2>3, <2>4
<1>4. 0 \in S
  <2>1. ChainAt(f, 0) = start[f]
    BY ChainSteps
  <2>2. 0 < Len(chain) => chain # <<>>
    OBVIOUS
  <2> HIDE DEF chain
  <2> QED BY <1>1, <2>1, <2>2
<1>5. ASSUME NEW n \in Nat, n \in S
      PROVE  n + 1 \in S
  <2> SUFFICES ASSUME n + 1 < Len(chain) PROVE ChainAt(f, n + 1) = chain[n + 2]
    <3>1. (n + 1) + 1 = n + 2
      OBVIOUS
    <3> QED BY <3>1
  <2>1. n < Len(chain) /\ n + 1 # Len(chain) /\ n + 1 \in DOMAIN chain
        /\ n + 2 \in DOMAIN chain
    <3> HIDE DEF chain
    <3> QED BY <1>2
  <2>2. ChainAt(f, n + 1) = IF layout[f].contiguous THEN chain[n + 1] + 1 ELSE chain[n + 2]
    BY <1>3, <1>5, <2>1
  <2>3. layout[f].contiguous => chain[n + 1] + 1 = chain[n + 2]
    <3>1. ASSUME layout[f].contiguous
          PROVE  chain[n + 1] = chain[1] + n /\ chain[n + 2] = chain[1] + n + 1
                 /\ chain[1] \in Int
      <4>1. \A k \in DOMAIN chain : chain[k] = chain[1] + k - 1
        BY <3>1, LayoutMeans
      <4>2. chain[1] \in Clusters
        <5>1. 0 < Len(chain) /\ 0 + 1 = 1
          BY <1>2, <2>1
        <5> HIDE DEF chain
        <5> QED BY <1>2, <5>1
      <4>3. chain[1] \in Int
        BY <4>2, Constants
      <4> HIDE DEF chain
      <4> QED BY <2>1, <4>1, <4>3
    <3> HIDE DEF chain
    <3> QED BY <3>1
  <2> QED BY <2>2, <2>3
<1>6. \A n \in Nat : n \in S
  <2> HIDE DEF S
  <2> QED BY <1>4, <1>5, Nats!NatInduct
<1>7. size[f] > 0 /\ ~contiguous[f] => ChainAt(f, size[f]) = END
  <2> SUFFICES ASSUME size[f] > 0, ~contiguous[f] PROVE ChainAt(f, size[f]) = END
    OBVIOUS
  <2>1. PICK n \in Nat : n = Len(chain) - 1
    <3> HIDE DEF chain, S
    <3>1. size[f] = Len(chain) /\ Len(chain) \in Nat
      BY <1>1, <1>2
    <3>2. Len(chain) - 1 \in Nat
      BY <3>1
    <3> QED BY <3>2
  <2>2. n + 1 = Len(chain) /\ n < Len(chain)
    BY <1>2, <2>1
  <2>3. ChainAt(f, n + 1) = END
    BY <1>1, <1>3, <1>6, <2>2
  <2> QED BY <1>1, <2>2, <2>3
<1> QED BY <1>1, <1>6, <1>7

LEMMA SafeInit == Init => Safe
<1> SUFFICES ASSUME Init PROVE Safe
  OBVIOUS
<1>1. TypeOK /\ Control
  BY InitType
<1>2. PICK layout \in Layouts : Mounted(layout)
  BY DEF Init, Mounted
<1>3. /\ pc = "idle" /\ fptrIndex = [f \in Files |-> 0] /\ fptrCluster = start
  BY DEF Init
<1>4. \A f \in Files : Length(f) = size[f] /\ size[f] \in Nat
  BY <1>1, <1>3, Constants DEF Length, TypeOK
<1>5. ASSUME NEW f \in Files, NEW k \in 0 .. Length(f) - 1
      PROVE  /\ ChainAt(f, k) = layout[f].chain[k + 1]
             /\ k + 1 \in DOMAIN layout[f].chain
             /\ ChainAt(f, k) \in Clusters \ System
  <2>1. k \in Nat /\ k < size[f]
    BY <1>4
  <2>2. ChainAt(f, k) = layout[f].chain[k + 1]
    BY <1>1, <1>2, <2>1, MountedChain
  <2>3. k + 1 \in DOMAIN layout[f].chain
    <3>1. layout[f].chain \in Seq(Clusters \ System) /\ size[f] = Len(layout[f].chain)
      BY <1>2, LayoutMeans DEF Mounted
    <3> QED BY <2>1, <3>1
  <2> QED BY <2>2, <2>3, LayoutMeans
<1>6. Apart
  <2>1. System \subseteq bitmap
    BY <1>2 DEF Mounted
  <2>2. ASSUME NEW f \in Files, NEW k \in 0 .. Length(f) - 1
        PROVE  /\ ~Invalid(ChainAt(f, k)) /\ ChainAt(f, k) \in bitmap \ System
               /\ \A g \in Files : \A j \in 0 .. Length(g) - 1 :
                     ChainAt(g, j) = ChainAt(f, k) => g = f /\ j = k
    <3>1. ChainAt(f, k) \in Elements(layout[f].chain)
      BY <1>5 DEF Elements
    <3>2. ChainAt(f, k) \in bitmap
      BY <1>2, <3>1 DEF Mounted
    <3>3. ASSUME NEW g \in Files, NEW j \in 0 .. Length(g) - 1,
                 ChainAt(g, j) = ChainAt(f, k)
          PROVE  g = f /\ j = k
      <4>1. layout[g].chain[j + 1] = layout[f].chain[k + 1]
            /\ j + 1 \in DOMAIN layout[g].chain /\ k + 1 \in DOMAIN layout[f].chain
        BY <1>5, <3>3
      <4>2. g = f
        BY <4>1, LayoutMeans
      <4>3. j + 1 = k + 1
        BY <4>1, <4>2, LayoutMeans
      <4> QED BY <4>2, <4>3
    <3> QED BY <1>5, <3>2, <3>3 DEF Invalid
  <2> QED BY <2>1, <2>2 DEF Apart
<1>7. Cached
  <2>1. \A f \in Files : fptrCluster[f] = ChainAt(f, fptrIndex[f])
    BY <1>1, <1>3, ChainSteps
  <2> QED BY <1>3, <2>1 DEF Cached
<1>8. Amounts /\ Place /\ Freeing
  BY <1>3 DEF Amounts, Place, Freeing, Growing, Undoing, Erasing, At
<1> QED BY <1>1, <1>6, <1>7, <1>8 DEF Safe

\* Every step keeps the invariant, and no step moves what a file owns.
LEMMA SafeStep ==
    TypeOK /\ Safe /\ [Next]_vars => TypeOK' /\ Safe' /\ (Unharmed' => Steady)
<1> SUFFICES ASSUME TypeOK, Safe, [Next]_vars
             PROVE  TypeOK' /\ Safe' /\ (Unharmed' => Steady)
  OBVIOUS
<1>1. TypeOK' /\ Control'
  BY StepType DEF Safe
<1>2. CASE ~Unharmed'
  BY <1>1, <1>2 DEF Safe, Amounts, Apart, Place, Freeing, Cached
<1>3. ASSUME Unharmed'
      PROVE  Safe' /\ Steady
  <2>1. Unharmed
    BY <1>3, HistoryGrows
  <2>2. ASSUME NEW f \in Files, NEW n \in 0 .. MaxSize, NEW e \in BOOLEAN, Call(f, n, e)
        PROVE  Safe' /\ Steady
    <3>1. CASE GrowMore(f, n, e)
      <4>1. Safe'
        BY <1>1, <1>3, <2>1, <3>1, GrowMoreSafe
      <4>2. UNCHANGED <<fat, start, contiguous>>
        BY <3>1 DEF GrowMore, disk, nodes
      <4> QED BY <4>1, <4>2, SameSteady
    <3>2. CASE GrowFirst(f, n, e)
      BY <1>1, <1>3, <2>1, <3>2, GrowFirstSafe
    <3>3. CASE Shrink(f, n, e)
      BY <1>1, <1>3, <2>1, <3>3, ShrinkSafe
    <3>4. CASE ShrinkBug(f, n)
      BY <1>3, <3>4, ShrinkBugNever
    <3> QED BY <2>2, <3>1, <3>2, <3>3, <3>4 DEF Call
  <2>3. CASE Step
    <3>1. CASE Advance
      <4>1. Safe'
        BY <1>1, <1>3, <2>1, <3>1, AdvanceSafe
      <4>2. UNCHANGED <<fat, start, contiguous>>
        BY <3>1 DEF Advance, AdvanceRest, disk, nodes
      <4> QED BY <4>1, <4>2, SameSteady
    <3>2. CASE AdvanceDone
      <4>1. Safe'
        BY <1>1, <1>3, <2>1, <3>2, AdvanceDoneSafe
      <4>2. UNCHANGED <<fat, start, contiguous>>
        BY <3>2 DEF AdvanceDone, AdvanceRest, disk, nodes
      <4> QED BY <4>1, <4>2, SameSteady
    <3>3. CASE GrowFrom
      <4>1. Safe'
        BY <1>1, <1>3, <2>1, <3>3, GrowFromSafe
      <4>2. UNCHANGED <<fat, start, contiguous>>
        BY <3>3 DEF GrowFrom, disk, nodes
      <4> QED BY <4>1, <4>2, SameSteady
    <3>4. CASE AllocateNext
      <4>1. Safe'
        BY <1>1, <1>3, <2>1, <3>4, AllocateNextSafe
      <4>2. UNCHANGED <<fat, start, contiguous>>
        BY <3>4 DEF AllocateNext, nodes
      <4> QED BY <4>1, <4>2, SameSteady
    <3>5. CASE NoSpace
      BY <1>1, <1>3, <2>1, <3>5, NoSpaceSafe
    <3>6. CASE MakeNoncontiguous
      BY <1>1, <1>3, <2>1, <3>6, MakeNoncontiguousSafe
    <3>7. CASE MadeNoncontiguous
      BY <1>1, <1>3, <2>1, <3>7, MadeNoncontiguousSafe
    <3>8. CASE LinkNext
      BY <1>1, <1>3, <2>1, <3>8, LinkNextSafe
    <3>9. CASE GrowEnd
      BY <1>1, <1>3, <2>1, <3>9, GrowEndSafe
    <3>10. CASE CropAt
      BY <1>1, <1>3, <2>1, <3>10, CropAtSafe
    <3>11. CASE FreeNext
      BY <1>1, <1>3, <2>1, <3>11, FreeNextSafe
    <3>12. CASE FreeInvalid
      <4>1. Safe'
        BY <1>1, <1>3, <2>1, <3>12, FreeInvalidSafe
      <4>2. UNCHANGED <<fat, start, contiguous>>
        BY <3>12 DEF FreeInvalid, disk, nodes
      <4> QED BY <4>1, <4>2, SameSteady
    <3>13. CASE FreeDone
      <4>1. Safe'
        BY <1>1, <1>3, <2>1, <3>13, FreeDoneSafe
      <4>2. UNCHANGED <<fat, start, contiguous>>
        BY <3>13 DEF FreeDone, disk
      <4> QED BY <4>1, <4>2, SameSteady
    <3>14. CASE EraseFirst
      <4>1. Safe'
        BY <1>1, <1>3, <2>1, <3>14, EraseFirstSafe
      <4>2. UNCHANGED <<fat, start, contiguous>>
        BY <3>14 DEF EraseFirst, disk, nodes
      <4> QED BY <4>1, <4>2, SameSteady
    <3>15. CASE EraseNext
      <4>1. Safe'
        BY <1>1, <1>3, <2>1, <3>15, EraseNextSafe
      <4>2. UNCHANGED <<fat, start, contiguous>>
        BY <3>15 DEF EraseNext, disk, nodes
      <4> QED BY <4>1, <4>2, SameSteady
    <3>16. CASE EraseDone
      <4>1. Safe'
        BY <1>1, <1>3, <2>1, <3>16, EraseDoneSafe
      <4>2. UNCHANGED <<fat, start, contiguous>>
        BY <3>16 DEF EraseDone, disk
      <4> QED BY <4>1, <4>2, SameSteady
    <3> QED BY <2>3, <3>1, <3>2, <3>3, <3>4, <3>5, <3>6, <3>7, <3>8, <3>9, <3>10, <3>11,
           <3>12, <3>13, <3>14, <3>15, <3>16 DEF Step
  <2>4. CASE Flush
    <3>1. Safe'
      BY <1>1, <1>3, <2>1, <2>4, FlushSafe
    <3>2. UNCHANGED <<fat, start, contiguous>>
      BY <2>4 DEF Flush, nodes
    <3> QED BY <3>1, <3>2, SameSteady
  <2>5. CASE UNCHANGED vars
    <3>1. Safe'
      BY <1>1, <2>5, StutterSafe
    <3>2. UNCHANGED <<fat, start, contiguous>>
      BY <2>5 DEF vars, disk, nodes
    <3> QED BY <3>1, <3>2, SameSteady
  <2> QED BY <1>1, <2>2, <2>3, <2>4, <2>5 DEF Next
<1> QED BY <1>1, <1>2, <1>3

\* Whatever the calls and the failures, the files are apart and the call that is running
\* is where it should be.
THEOREM SafeAlways == Spec => [](TypeOK /\ Safe)
BY InitType, SafeInit, SafeStep, PTL DEF Spec


-----------------------------------------------------------------------------
(***************************************************************************)
(* What follows.                                                           *)
(***************************************************************************)
\* exfat_truncate, whatever the calls and the failures: no two files share a cluster,
\* none uses the system's, and what a file uses is marked used.
THEOREM NeverCrossLinked == Spec => []NoCrossLink
<1>1. TypeOK /\ Safe => NoCrossLink
  <2> SUFFICES ASSUME TypeOK, Safe, pc = "idle", Unharmed
               PROVE  /\ System \subseteq bitmap
                      /\ \A f \in Files :
                          /\ Chain(f) \subseteq bitmap \ System
                          /\ \A g \in Files \ {f} : Chain(f) \cap Chain(g) = {}
    BY DEF NoCrossLink
  <2>1. \A f \in Files : Length(f) = size[f]
    BY DEF Length
  <2>2. System \subseteq bitmap
    BY DEF Safe, Apart
  <2>3. ASSUME NEW f \in Files, NEW c \in Chain(f)
        PROVE  /\ c \in bitmap \ System
               /\ \A g \in Files \ {f} : c \notin Chain(g)
    <3>1. PICK k \in 0 .. Length(f) - 1 : c = ChainAt(f, k) /\ c \in Clusters
      BY <2>1, <2>3 DEF Chain
    <3>2. ~Invalid(ChainAt(f, k))
      BY <3>1 DEF Invalid
    <3>3. ASSUME NEW g \in Files \ {f}, c \in Chain(g)
          PROVE  FALSE
      <4>1. PICK j \in 0 .. Length(g) - 1 : c = ChainAt(g, j)
        BY <2>1, <3>3 DEF Chain
      <4> QED BY <3>1, <3>2, <4>1, ApartMeans DEF Safe
    <3> QED BY <3>1, <3>2, <3>3, ApartMeans DEF Safe
  <2> QED BY <2>2, <2>3
<1> QED BY <1>1, SafeAlways, PTL

\* exfat_next_cluster and grow_file: the conditions under which they abort do not arise,
\* even after failures.
THEOREM GuardsAlwaysHold == Spec => []GuardsHold
<1>1. TypeOK /\ Safe => GuardsHold
  <2> SUFFICES ASSUME TypeOK, Safe
               PROVE  GuardsHold
    OBVIOUS
  <2>1. ASSUME Unharmed, pc = "advance", i < count
        PROVE  fptrCluster[me] # FREE
    <3>1. /\ i \in Nat /\ count \in Nat /\ count < Length(me) /\ Length(me) \in Nat
          /\ me \in Files /\ start[me] # FREE
      BY <2>1, LengthType, Constants DEF TypeOK, Safe, Amounts, Control
    <3>2. i \in 0 .. Length(me) - 1
      BY <2>1, <3>1
    <3>3. fptrCluster[me] = ChainAt(me, i) \/ fptrCluster[me] = BAD
      BY <2>1 DEF Safe, Cached
    <3>4. ~Invalid(ChainAt(me, i)) \/ ChainAt(me, i) = END
      BY <2>1, <3>1, <3>2, ApartMeans DEF Safe
    <3> QED BY <3>3, <3>4, Constants DEF Invalid, FREE, BAD, END
  <2>2. \A f \in Files : start[f] = FREE => fptrIndex[f] = 0
    BY DEF Safe, Control
  <2> QED BY <2>1, <2>2 DEF GuardsHold
<1> QED BY <1>1, SafeAlways, PTL

\* The part of a file that the call does not give up is a part of what it owns.
LEMMA KeptInLength ==
    ASSUME TypeOK, Safe, Unharmed, NEW f \in Files
    PROVE  Kept(f) <= Length(f) /\ Kept(f) \in Nat /\ Length(f) \in Nat
<1>1. size[f] \in Nat /\ goal \in Nat /\ allocated \in Nat
  BY Constants DEF TypeOK
<1>2. f # me => Kept(f) = size[f] /\ Length(f) = size[f]
  BY DEF Kept, Length
<1>3. f = me => size[f] <= Length(f) \/ Keeping
  BY SizeInLength
<1>4. f = me /\ Keeping => Length(f) = goal /\ Kept(f) = MinOf(goal, size[f])
  BY DEF Length, Kept, Keeping, Growing, Undoing, At
<1>5. Kept(f) \in {size[f], MinOf(goal, size[f])}
  BY DEF Kept
<1>6. MinOf(goal, size[f]) <= goal /\ MinOf(goal, size[f]) <= size[f]
      /\ MinOf(goal, size[f]) \in Nat
  BY <1>1 DEF MinOf
<1>7. Length(f) \in Nat
  BY LengthType
<1> QED BY <1>1, <1>2, <1>3, <1>4, <1>5, <1>6, <1>7

\* exfat_truncate of one file, whatever fails: no step moves a cluster that another file,
\* or the same file under its new size, still holds.
THEOREM ContentsAlwaysStay == Spec => ContentsStay
<1>1. TypeOK /\ Safe /\ Unharmed =>
        \A f \in Files : Kept(f) <= Length(f) /\ Kept(f) \in Nat /\ Length(f) \in Nat
  BY KeptInLength
<1>2. (TypeOK /\ Safe /\ Unharmed =>
         \A f \in Files : Kept(f) <= Length(f) /\ Kept(f) \in Nat /\ Length(f) \in Nat)'
  BY <1>1, PTL
<1>3. TypeOK /\ Safe /\ TypeOK' /\ Safe' /\ [Next]_vars =>
        [Unharmed' =>
          \A f \in Files : \A k \in 0 .. MinOf(Kept(f), Kept(f)') - 1 :
             ~Invalid(ChainAt(f, k)) => ChainAt(f, k)' = ChainAt(f, k)]_vars
  <2> SUFFICES ASSUME TypeOK, Safe, TypeOK', Safe', [Next]_vars, Unharmed',
                      NEW f \in Files, NEW k \in 0 .. MinOf(Kept(f), Kept(f)') - 1
               PROVE  ChainAt(f, k)' = ChainAt(f, k)
    OBVIOUS
  <2>1. Unharmed /\ Steady
    BY HistoryGrows, SafeStep
  <2>2. Kept(f) <= Length(f) /\ Kept(f) \in Nat /\ Length(f) \in Nat
    BY <2>1, KeptInLength
  <2>3. Kept(f)' <= Length(f)' /\ Kept(f)' \in Nat /\ Length(f)' \in Nat
    BY <1>2
  <2>4. k \in 0 .. Length(f) - 1 /\ k < Length(f)'
    BY <2>2, <2>3 DEF MinOf
  <2> QED BY <2>1, <2>4 DEF Steady
<1> QED BY <1>3, SafeAlways, PTL DEF Spec, ContentsStay

\* erase_range: a growth that asked for zeros and reports success has zeroed every
\* cluster it added.
THEOREM GrownIsAlwaysZero == Spec => GrownIsZero
<1>1. TypeOK /\ Safe /\ [Next]_vars =>
        [pc # "idle" /\ pc' = "idle" /\ erase /\ goal > size[me] /\ rc' = "ok" /\ Unharmed =>
           \A k \in size[me] .. goal - 1 : ChainAt(me, k)' \in erased]_vars
  <2> SUFFICES ASSUME TypeOK, Safe, [Next]_vars, pc # "idle", pc' = "idle", erase,
                      goal > size[me], rc' = "ok", Unharmed,
                      NEW k \in size[me] .. goal - 1
               PROVE  ChainAt(me, k)' \in erased
    OBVIOUS
  <2>1. size[me] \in Nat /\ goal \in Nat
    BY Constants DEF TypeOK
  <2>2. ~Return("EIO") /\ ~Return("ENOSPC")
    BY DEF Return
  <2>3. pc = "eraseloop" /\ allocated >= goal /\ UNCHANGED <<fat, start, contiguous, me>>
    <3>1. EraseDone
      <4>1. ~Flush
        BY DEF Flush
      <4>2. ASSUME NEW f \in Files, NEW n \in 0 .. MaxSize, NEW e \in BOOLEAN
            PROVE  ~Call(f, n, e)
        BY DEF Call, GrowMore, GrowFirst, Shrink, ShrinkBug, Enter
      <4>3. pc' # pc
        OBVIOUS
      <4>4. ~UNCHANGED vars
        BY <4>3 DEF vars
      <4>5. ~Advance /\ ~AdvanceDone
        BY DEF Advance, AdvanceDone, AdvanceEnds, Safe, Control
      <4>6. ~GrowFrom
        BY <2>2 DEF GrowFrom
      <4>7. ~AllocateNext
        BY DEF AllocateNext
      <4>8. ~NoSpace
        BY <2>2 DEF NoSpace, Undo, Crop, CallAdvance
      <4>9. ~GaveUp
        BY <2>2 DEF GaveUp
      <4>10. ~MakeNoncontiguous
        BY <4>3, <4>9, MakeNoncontiguousOutcome DEF EntryWritten
      <4>11. ~MadeNoncontiguous
        BY DEF MadeNoncontiguous
      <4>12. ~LinkNext
        BY <4>9, LinkNextOutcome DEF NextLinked, Linked
      <4>13. ~GrowEnd
        BY <4>9, GrowEndOutcome DEF AfterGrowth, CallAdvance
      <4>14. ~CropAt
        BY <4>9, CropAtOutcome DEF Cut
      <4>15. ~FreeNext
        BY <4>3, <4>9, FreeNextOutcome DEF Released
      <4>16. ~FreeInvalid
        BY <2>2 DEF FreeInvalid
      <4>17. ~FreeDone
        <5> SUFFICES ASSUME FreeDone PROVE FALSE
          OBVIOUS
        <5>1. pc = "free" /\ ~undo
          BY <2>2 DEF FreeDone
        <5>2. goal < size[me]
          BY <5>1 DEF Safe, Amounts
        <5> QED BY <2>1, <5>2
      <4>18. ~EraseFirst
        BY <4>9, EraseFirstOutcome DEF Zeroed
      <4>19. ~EraseNext
        BY <4>9, EraseNextOutcome DEF Zeroed, Aborted
      <4> QED BY <4>1, <4>2, <4>4, <4>5, <4>6, <4>7, <4>8, <4>10, <4>11, <4>12, <4>13, <4>14,
             <4>15, <4>16, <4>17, <4>18, <4>19 DEF Next, Step
    <3> QED BY <2>1, <3>1 DEF EraseDone, MoreToErase, Finish, Return, disk, TypeOK
  <2>4. \A j \in size[me] .. allocated - 1 : ChainAt(me, j) \in erased
    BY <2>3 DEF Safe, Place
  <2>5. k \in size[me] .. allocated - 1
    BY <2>1, <2>3 DEF TypeOK
  <2>6. ChainAt(me, k)' = ChainAt(me, k)
    BY <2>3 DEF ChainAt
  <2> QED BY <2>4, <2>5, <2>6
<1> QED BY <1>1, SafeAlways, PTL DEF Spec, GrownIsZero
-----------------------------------------------------------------------------
(***************************************************************************)
(* The allocator while reads and writes succeed: nothing leaks, a cached   *)
(* position is always right, and no call aborts the program.               *)
(*                                                                         *)
(* Whole is the invariant.  It speaks of every label of the code: between  *)
(* calls it says that the bitmap holds the clusters of the files and of    *)
(* the system and no other, and within a call it accounts for the cluster  *)
(* that has been allocated and not linked yet and for those that have been *)
(* cut off and not freed yet.                                              *)
(***************************************************************************)

\* The end of f's chain is not written yet.
Open(f) ==
    /\ f = me
    /\ \/ pc \in {"noncontiguous", "link"}
       \/ pc = "growloop" /\ allocated > 0
       \/ Undoing

\* The chain of f is whole and ends where it should, and its cached position is in it.
Intact(f) ==
    /\ \A k \in 0 .. Length(f) - 1 : ~Invalid(ChainAt(f, k))
    /\ Length(f) = 0 <=> start[f] = FREE
    /\ Length(f) > 0 /\ ~contiguous[f] /\ ~Open(f) => ChainAt(f, Length(f)) = END
    /\ fptrIndex[f] = 0 \/ fptrIndex[f] < Length(f)
    /\ start[f] = FREE => fptrCluster[f] = FREE

Owned(c) == \E f \in Files : \E k \in 0 .. Length(f) - 1 : ChainAt(f, k) = c

\* Cluster c is some file's, or about to be, or about to be freed.
Used(c) ==
    \/ Owned(c)
    \/ pc \in {"noncontiguous", "link"} /\ c = next
    \/ pc = "free" /\ \E j \in 0 .. difference - 1 : Rest(j) = c

\* As long as no read or write fails, every chain is whole, every cluster in use is
\* somebody's, and the program goes on.
Whole ==
    Unharmed /\ ~failed =>
    /\ pc # "bug"
    /\ \A f \in Files : Intact(f)
    /\ \A c \in bitmap \ System : Used(c)
    /\ pc = "free" => \A j \in 0 .. difference - 1 : ~Invalid(Rest(j))
-----------------------------------------------------------------------------
(***************************************************************************)
(* As long as no read or write fails.                                      *)
(***************************************************************************)
\* A step that leaves the files their clusters and frees none.
LEMMA WholeKeeps ==
    ASSUME TypeOK, TypeOK', Unharmed, ~failed, Safe, Whole, Steady,
           pc' \notin {"bug", "free"}, pc = "idle" \/ me' = me, start' = start,
           \A f \in Files : Length(f)' = Length(f),
           \A f \in Files \ {me'} : contiguous'[f] = contiguous[f],
           (Length(me) > 0 /\ ~contiguous[me] /\ ~Open(me) => ChainAt(me, Length(me)) = END)',
           \A f \in Files : \/ fptrIndex'[f] = 0 \/ fptrIndex'[f] = fptrIndex[f]
                            \/ fptrIndex'[f] < Length(f),
           \A f \in Files : start[f] = FREE => fptrCluster'[f] = fptrCluster[f],
           \A c \in bitmap' \ System :
              Owned(c) \/ (pc' \in {"noncontiguous", "link"} /\ c = next')
    PROVE  Whole'
<1>1. \A f \in Files : Intact(f)
  BY DEF Whole
<1>2. \A f \in Files : \A k \in 0 .. Length(f) - 1 : ChainAt(f, k)' = ChainAt(f, k)
  BY LengthType DEF Steady
<1>3. ASSUME NEW f \in Files
      PROVE  Intact(f)'
  <2>1. \A k \in 0 .. Length(f)' - 1 : ~Invalid(ChainAt(f, k)')
    BY <1>1, <1>2 DEF Intact
  <2>2. Length(f)' = 0 <=> start'[f] = FREE
    BY <1>1 DEF Intact
  <2>3. (Length(f) > 0 /\ ~contiguous[f] /\ ~Open(f) => ChainAt(f, Length(f)) = END)'
    <3>1. CASE f = me'
      BY <3>1 DEF ChainAt, Open
    <3>2. CASE f # me'
      <4>1. ~Open(f)
        <5>1. f = me => pc = "idle"
          BY <3>2
        <5> QED BY <5>1 DEF Open, Undoing, At
      <4>2. Length(f) > 0 /\ ~contiguous[f] => ChainAt(f, Length(f)) = END
        BY <1>1, <4>1 DEF Intact
      <4>3. Length(f) \in 0 .. Length(f)
        BY LengthType
      <4>4. \A k \in 0 .. Length(f) :
               ChainFrom(fat', contiguous'[f], start'[f])[k] = ChainAt(f, k)
        <5>1. \A k \in 0 .. Length(f) : ChainAt(f, k)' = ChainAt(f, k)
          BY <3>2 DEF Steady
        <5> QED BY <5>1 DEF ChainAt
      <4>5. ChainAt(f, Length(f))' = ChainAt(f, Length(f))
        <5>1. Length(f)' = Length(f)
          OBVIOUS
        <5> HIDE DEF Length
        <5> QED BY <4>3, <4>4, <5>1 DEF ChainAt
      <4> QED BY <3>2, <4>2, <4>5
    <3> QED BY <3>1, <3>2
  <2>4. fptrIndex'[f] = 0 \/ fptrIndex'[f] < Length(f)'
    BY <1>1 DEF Intact
  <2>5. start'[f] = FREE => fptrCluster'[f] = FREE
    BY <1>1 DEF Intact
  <2> QED BY <2>1, <2>2, <2>3, <2>4, <2>5 DEF Intact, Invalid
<1>4. ASSUME NEW c \in bitmap' \ System
      PROVE  Used(c)'
  <2>1. CASE Owned(c)
    <3>1. PICK f \in Files : \E k \in 0 .. Length(f) - 1 : ChainAt(f, k) = c
      BY <2>1 DEF Owned
    <3>2. PICK k \in 0 .. Length(f) - 1 : ChainAt(f, k) = c
      BY <3>1
    <3>3. k \in 0 .. Length(f)' - 1 /\ ChainAt(f, k)' = c
      BY <1>2, <3>2
    <3> QED BY <3>3 DEF Used, Owned
  <2>2. CASE pc' \in {"noncontiguous", "link"} /\ c = next'
    BY <2>2 DEF Used
  <2> QED BY <2>1, <2>2
<1> QED BY <1>3, <1>4 DEF Whole

\* A step that leaves the volume as it is.
LEMMA WholeSame ==
    ASSUME TypeOK, TypeOK', Unharmed, ~failed, Safe, Whole,
           UNCHANGED <<fat, start, contiguous, bitmap>>,
           pc' \notin {"bug", "free"}, pc \notin {"noncontiguous", "link"},
           pc = "free" => difference = 0, pc = "idle" \/ me' = me,
           \A f \in Files : Length(f)' = Length(f),
           contiguous[me'] \/ ~Open(me') \/ Open(me)',
           \A f \in Files : \/ fptrIndex'[f] = 0 \/ fptrIndex'[f] = fptrIndex[f]
                            \/ fptrIndex'[f] < Length(f),
           \A f \in Files : start[f] = FREE => fptrCluster'[f] = fptrCluster[f]
    PROVE  Whole'
<1>1. Steady
  BY SameSteady
<1>2. (Length(me) > 0 /\ ~contiguous[me] /\ ~Open(me) => ChainAt(me, Length(me)) = END)'
  <2>1. PICK g \in Files : g = me'
    BY DEF TypeOK
  <2>2. Intact(g)
    BY DEF Whole
  <2>3. Length(g)' = Length(g)
    OBVIOUS
  <2>4. Length(me)' = Length(g)
    <3>1. Length(me)' = Length(g)'
      BY <2>1 DEF Length
    <3> QED BY <2>3, <3>1
  <2>5. ChainAt(me, Length(me))' = ChainAt(g, Length(g))
    <3> HIDE DEF Length
    <3> QED BY <2>1, <2>4 DEF ChainAt
  <2>6. ~contiguous'[me'] /\ ~Open(me)' => ~contiguous[g] /\ ~Open(g)
    BY <2>1
  <2> QED BY <2>2, <2>4, <2>5, <2>6 DEF Intact
<1>3. ASSUME NEW c \in bitmap' \ System
      PROVE  Owned(c)
  <2>1. Used(c)
    BY <1>3 DEF Whole
  <2>2. ~(pc = "free" /\ \E j \in 0 .. difference - 1 : Rest(j) = c)
    OBVIOUS
  <2> QED BY <2>1, <2>2 DEF Used
<1> QED BY <1>1, <1>2, <1>3, WholeKeeps

\* A file that the call is not about stays intact while nothing is written to its chain.
LEMMA IntactOther ==
    ASSUME TypeOK, Unharmed, ~failed, Whole, Steady, pc = "idle" \/ me' = me,
           NEW f \in Files, f # me', Length(f)' = Length(f),
           start'[f] = start[f], contiguous'[f] = contiguous[f],
           fptrIndex'[f] = fptrIndex[f], fptrCluster'[f] = fptrCluster[f]
    PROVE  Intact(f)'
<1>1. Intact(f)
  BY DEF Whole
<1>2. Length(f) \in Nat /\ Length(f) \in 0 .. Length(f)
  BY LengthType
<1>3. \A k \in 0 .. Length(f) : ChainAt(f, k)' = ChainAt(f, k)
  BY DEF Steady
<1>4. ~Open(f)
  <2>1. f = me => pc = "idle"
    OBVIOUS
  <2> QED BY <2>1 DEF Open, Undoing, At
<1>5. \A k \in 0 .. Length(f)' - 1 : ~Invalid(ChainAt(f, k)')
  <2>1. \A k \in 0 .. Length(f) - 1 : ~Invalid(ChainAt(f, k)) /\ k \in 0 .. Length(f)
    BY <1>1, <1>2 DEF Intact
  <2> QED BY <1>3, <2>1
<1>6. ChainAt(f, Length(f))' = ChainAt(f, Length(f))
  <2>1. \A k \in 0 .. Length(f) :
           ChainFrom(fat', contiguous'[f], start'[f])[k] = ChainAt(f, k)
    BY <1>3 DEF ChainAt
  <2> HIDE DEF Length
  <2> QED BY <1>2, <2>1 DEF ChainAt
<1> QED BY <1>1, <1>4, <1>5, <1>6 DEF Intact, Invalid

\* A cluster of a file stays its cluster.
LEMMA OwnedStays ==
    ASSUME TypeOK, Steady, \A f \in Files : Length(f)' = Length(f), NEW c, Owned(c)
    PROVE  Owned(c)'
<1>1. PICK f \in Files : \E k \in 0 .. Length(f) - 1 : ChainAt(f, k) = c
  BY DEF Owned
<1>2. PICK k \in 0 .. Length(f) - 1 : ChainAt(f, k) = c
  BY <1>1
<1>3. k \in 0 .. Length(f)' - 1
  OBVIOUS
<1>4. ChainAt(f, k)' = c
  <2>1. \A g \in Files : \A j \in 0 .. Length(g) - 1 :
           j < Length(g)' => ChainAt(g, j)' = ChainAt(g, j)
    BY DEF Steady
  <2>2. k < Length(f)'
    BY LengthType
  <2> QED BY <1>2, <2>1, <2>2
<1> QED BY <1>3, <1>4 DEF Owned

\* The call returns, and each file has the size that it has come to.
LEMMA WholeReturns ==
    ASSUME TypeOK, TypeOK', Unharmed, ~failed, Safe, Whole, pc' = "idle", me' = me,
           UNCHANGED <<fat, start, contiguous, bitmap, fptr>>,
           pc \notin {"noncontiguous", "link"}, pc = "free" => difference = 0,
           \A f \in Files : size'[f] = Length(f), contiguous[me] \/ ~Open(me)
    PROVE  Whole'
<1>1. \A f \in Files : Length(f)' = Length(f)
  BY DEF Length
<1>2. fptrIndex' = fptrIndex /\ fptrCluster' = fptrCluster
  BY DEF fptr
<1>3. contiguous[me'] \/ ~Open(me') \/ Open(me)'
  <2>1. PICK g \in Files : g = me
    BY DEF TypeOK
  <2> QED BY <2>1
<1> HIDE DEF Length
<1> QED BY <1>1, <1>2, <1>3, WholeSame

\* The call is made, or it goes on, with the same clusters: at other places of the code.
LEMMA WholeWalks ==
    ASSUME TypeOK, TypeOK', Unharmed, ~failed, Safe, Whole,
           NEW g \in Files, NEW target \in Nat, NEW to, CallAdvance(g, target, to),
           me' = g, UNCHANGED <<fat, start, contiguous, bitmap>>,
           pc \in {"idle", "growloop"}, pc = "idle" \/ me' = me,
           start[g] # FREE, \A f \in Files : Length(f)' = Length(f),
           contiguous[g] \/ ~Open(g) \/ Open(g)'
    PROVE  Whole'
<1>1. /\ pc' = "advance"
      /\ \A f \in Files : fptrIndex'[f] = 0 \/ fptrIndex'[f] = fptrIndex[f]
      /\ \A f \in Files : f # g => fptrCluster'[f] = fptrCluster[f]
  BY DEF CallAdvance, fptr, TypeOK
<1>2. \A f \in Files : start[f] = FREE => fptrCluster'[f] = fptrCluster[f]
  BY <1>1
<1>3. contiguous[me'] \/ ~Open(me') \/ Open(me)'
  <2>1. Open(g)' <=> Open(me)'
    BY DEF Open
  <2> QED BY <2>1
<1> HIDE DEF Length
<1> QED BY <1>1, <1>2, <1>3, WholeSame

-----------------------------------------------------------------------------
(***************************************************************************)
(* The same, step by step.                                                 *)
(***************************************************************************)
LEMMA GrowMoreWhole ==
    ASSUME TypeOK, TypeOK', Unharmed, Unharmed', ~failed, Safe, Whole,
           NEW f \in Files, NEW n \in 0 .. MaxSize, NEW e \in BOOLEAN, GrowMore(f, n, e)
    PROVE  Whole'
<1>1. /\ pc = "idle" /\ Called /\ me' = f /\ size[f] < n /\ start[f] # FREE /\ undo' = undo
      /\ UNCHANGED <<fat, bitmap, start, size, contiguous>>
  BY DEF GrowMore, Enter, Called, disk, nodes
<1>2. \A g \in Files : size[g] = 0 <=> start[g] = FREE
  BY <1>1, CalledFits
<1>3. size[f] \in Nat /\ size[f] > 0 /\ size[f] - 1 \in Nat
  BY <1>1, <1>2, Constants DEF TypeOK
<1>4. CallAdvance(f, size[f] - 1, "grow")
  BY <1>3 DEF GrowMore
<1>5. pc' = "advance" /\ back' = "grow"
  BY <1>4 DEF CallAdvance
<1>6. \A g \in Files : Length(g)' = Length(g)
  BY <1>1, <1>5 DEF Length, Growing, Undoing, Keeping, Erasing, At
<1>7. ~Open(f)
  BY <1>1 DEF Open, Undoing, At
<1> HIDE DEF Length
<1> QED BY <1>1, <1>3, <1>4, <1>6, <1>7, WholeWalks

\* Every cluster of file g is to be freed.
LEMMA CropAllWhole ==
    ASSUME TypeOK, TypeOK', Unharmed, ~failed, Safe, Whole, Steady, NEW g \in Files,
           pc \in {"idle", "growloop"}, pc = "idle" \/ me' = me,
           pc' = "free", me' = g, previous' = start[g],
           start' = [start EXCEPT ![g] = FREE], RewindEmpty(g),
           Length(g)' = 0, difference' = Length(g),
           \A f \in Files \ {g} : Length(f)' = Length(f),
           UNCHANGED <<fat, bitmap, contiguous>>
    PROVE  Whole'
<1>1. /\ \A f \in Files : start'[f] = IF f = g THEN FREE ELSE start[f]
      /\ \A f \in Files : fptrIndex'[f] = IF f = g THEN 0 ELSE fptrIndex[f]
      /\ \A f \in Files : fptrCluster'[f] = IF f = g THEN FREE ELSE fptrCluster[f]
  BY DEF TypeOK, RewindEmpty
<1>2. \A f \in Files \ {g} : Intact(f)'
  BY <1>1, IntactOther
<1>3. Intact(g)'
  BY <1>1 DEF Intact
<1>4. \A j : Rest(j)' = ChainAt(g, j)
  BY DEF Rest, ChainAt
<1>5. \A j \in 0 .. Length(g) - 1 : ~Invalid(ChainAt(g, j))
  BY DEF Whole, Intact
<1>6. ASSUME NEW c \in bitmap \ System
      PROVE  Used(c)'
  <2>1. Owned(c)
    BY DEF Whole, Used
  <2>2. PICK f \in Files : \E k \in 0 .. Length(f) - 1 : ChainAt(f, k) = c
    BY <2>1 DEF Owned
  <2>3. PICK k \in 0 .. Length(f) - 1 : ChainAt(f, k) = c
    BY <2>2
  <2>4. CASE f = g
    <3>1. k \in 0 .. difference' - 1 /\ Rest(k)' = c
      BY <1>4, <2>3, <2>4
    <3> QED BY <3>1 DEF Used
  <2>5. CASE f # g
    <3>1. \A j : ChainAt(f, j)' = ChainAt(f, j)
      BY <1>1, <2>5 DEF ChainAt
    <3>2. k \in 0 .. Length(f)' - 1 /\ ChainAt(f, k)' = c
      BY <2>3, <2>5, <3>1
    <3> QED BY <3>2 DEF Used, Owned
  <2> QED BY <2>4, <2>5
<1> HIDE DEF Length
<1> QED BY <1>2, <1>3, <1>4, <1>5, <1>6 DEF Whole, Invalid

LEMMA GrowFirstWhole ==
    ASSUME TypeOK, TypeOK', Unharmed, Unharmed', ~failed, Safe, Whole, Steady,
           NEW f \in Files, NEW n \in 0 .. MaxSize, NEW e \in BOOLEAN, GrowFirst(f, n, e)
    PROVE  Whole'
<1>1. /\ pc = "idle" /\ Called /\ me' = f /\ size[f] < n /\ start[f] = FREE
      /\ fptrIndex[f] = 0
  BY DEF GrowFirst, Enter, Called
<1>2. \A g \in Files : size[g] = 0 <=> start[g] = FREE
  BY <1>1, CalledFits
<1>3. \A g \in Files : Length(g) = size[g] /\ size[g] \in Nat
  BY <1>1, Constants DEF Length, TypeOK
<1>4. CASE Invalid(Allocate(FREE))
  <2>1. pc' = "idle" /\ UNCHANGED <<fat, bitmap, start, size, contiguous, fptr>>
    BY <1>1, <1>4 DEF GrowFirst, disk, nodes
  <2>2. \A g \in Files : Length(g)' = Length(g)
    BY <1>3, <2>1 DEF Length
  <2>3. ~Open(me')
    BY <1>1 DEF Open, Undoing, At
  <2>4. fptrIndex' = fptrIndex /\ fptrCluster' = fptrCluster
    BY <2>1 DEF fptr
  <2> HIDE DEF Length
  <2> QED BY <1>1, <2>1, <2>2, <2>3, <2>4, WholeSame
<1>5. CASE ~Invalid(Allocate(FREE))
  <2> DEFINE c == Allocate(FREE)
  <2>0. c \in Clusters
    BY <1>5 DEF Invalid
  <2>1. /\ bitmap' = bitmap \cup {c} /\ fat' = fat /\ size' = size
        /\ start' = [start EXCEPT ![f] = c]
        /\ fptrCluster' = [fptrCluster EXCEPT ![f] = c] /\ fptrIndex' = fptrIndex
        /\ contiguous' = [contiguous EXCEPT ![f] = TRUE]
        /\ allocated' = 1 /\ pc' = "growloop"
    BY <1>5 DEF GrowFirst, Take
  <2> HIDE DEF c
  <2>2. /\ \A g \in Files : start'[g] = IF g = f THEN c ELSE start[g]
        /\ \A g \in Files : contiguous'[g] = IF g = f THEN TRUE ELSE contiguous[g]
        /\ \A g \in Files : fptrCluster'[g] = IF g = f THEN c ELSE fptrCluster[g]
    BY <2>1 DEF TypeOK
  <2>3. \A g \in Files : Length(g)' = IF g = f THEN 1 ELSE Length(g)
    BY <1>1, <1>2, <1>3, <2>1 DEF Length, Growing
  <2>4. ChainAt(f, 0)' = c
    BY <2>2, ChainStepsNext
  <2>5. \A g \in Files \ {f} : Intact(g)'
    BY <1>1, <2>1, <2>2, <2>3, IntactOther
  <2>6. Intact(f)'
    <3>1. \A k \in 0 .. Length(f)' - 1 : ChainAt(f, k)' = c
      BY <2>3, <2>4
    <3>2. Length(f)' = 1 /\ start'[f] = c /\ contiguous'[f] = TRUE /\ fptrIndex'[f] = 0
      BY <1>1, <2>1, <2>2, <2>3
    <3> HIDE DEF Length
    <3> QED BY <2>0, <3>1, <3>2, Constants DEF Intact, Invalid
  <2>7. ASSUME NEW d \in bitmap' \ System
        PROVE  Used(d)'
    <3>1. CASE d = c
      <4>1. 0 \in 0 .. Length(f)' - 1
        BY <2>3
      <4> QED BY <2>4, <3>1, <4>1 DEF Used, Owned
    <3>2. CASE d # c
      <4>1. Owned(d)
        BY <1>1, <2>1, <2>7, <3>2 DEF Whole, Used
      <4>2. PICK g \in Files : \E k \in 0 .. Length(g) - 1 : ChainAt(g, k) = d
        BY <4>1 DEF Owned
      <4>3. PICK k \in 0 .. Length(g) - 1 : ChainAt(g, k) = d
        BY <4>2
      <4>4. g # f
        BY <1>1, <1>2, <1>3, <4>3
      <4>5. \A j : ChainAt(g, j)' = ChainAt(g, j)
        BY <2>1, <2>2, <4>4 DEF ChainAt
      <4>6. k \in 0 .. Length(g)' - 1 /\ ChainAt(g, k)' = d
        BY <2>3, <4>3, <4>4, <4>5
      <4> QED BY <4>6 DEF Used, Owned
    <3> QED BY <3>1, <3>2
  <2> QED BY <2>1, <2>5, <2>6, <2>7 DEF Whole
<1> QED BY <1>4, <1>5

LEMMA ShrinkWhole ==
    ASSUME TypeOK, TypeOK', Unharmed, Unharmed', ~failed, Safe, Whole, Steady,
           NEW f \in Files, NEW n \in 0 .. MaxSize, NEW e \in BOOLEAN, Shrink(f, n, e)
    PROVE  Whole'
<1>1. /\ pc = "idle" /\ Called /\ me' = f /\ goal' = n /\ n < size[f] /\ start[f] # FREE
      /\ Crop(f, size[f], size[f] - n) /\ undo' = undo
  BY DEF Shrink, Enter, Crop
<1>2. /\ difference' = size[f] - n
      /\ UNCHANGED <<fat, bitmap, size, contiguous>>
  BY <1>1 DEF Crop, disk
<1>3. n \in Nat /\ size[f] \in Nat
  BY Constants DEF TypeOK
<1>4. \A g \in Files : Length(g) = size[g] /\ size[g] \in Nat
  BY <1>1, Constants DEF Length, TypeOK
<1>5. ~undo'
  BY <1>1 DEF Safe, Control
<1>6. CASE size[f] > size[f] - n
  <2>1. CallAdvance(f, n - 1, "crop") /\ start' = start /\ n - 1 \in Nat
    <3>1. CallAdvance(f, LastKept(size[f], size[f] - n), "crop") /\ start' = start
      BY <1>1, <1>3, <1>6 DEF Crop
    <3>2. LastKept(size[f], size[f] - n) = n - 1
      BY <1>3 DEF LastKept
    <3> QED BY <3>1, <3>2, <1>3, <1>6
  <2>2. pc' = "advance" /\ back' = "crop"
    BY <2>1 DEF CallAdvance
  <2>3. \A g \in Files : Length(g)' = Length(g)
    BY <1>2, <1>4, <1>5, <2>2 DEF Length, Growing, Undoing, Keeping, Erasing, At
  <2>4. ~Open(f)
    BY <1>1 DEF Open, Undoing, At
  <2> HIDE DEF Length
  <2> QED BY <1>1, <1>2, <2>1, <2>3, <2>4, WholeWalks
<1>7. CASE ~(size[f] > size[f] - n)
  <2>1. /\ n = 0 /\ previous' = start[f] /\ start' = [start EXCEPT ![f] = FREE]
        /\ RewindEmpty(f) /\ pc' = "free"
    BY <1>1, <1>3, <1>7 DEF Crop
  <2>2. Length(f)' = 0 /\ \A g \in Files \ {f} : Length(g)' = Length(g)
    BY <1>1, <1>2, <1>4, <1>5, <2>1 DEF Length, Growing, Undoing, Keeping, Erasing, At
  <2>3. difference' = Length(f)
    BY <1>2, <1>3, <1>4, <2>1
  <2> HIDE DEF Length
  <2> QED BY <1>1, <1>2, <2>1, <2>2, <2>3, CropAllWhole
<1> QED BY <1>6, <1>7

\* A walk, one step further or at its end.
LEMMA WalkWhole ==
    ASSUME TypeOK, TypeOK', Unharmed, ~failed, Safe, Whole, pc = "advance",
           UNCHANGED <<fat, bitmap, start, size, contiguous, me, goal, allocated, undo>>,
           \/ pc' = "advance" /\ back' = back /\ \E c : SetFptr(fptrIndex[me], c)
           \/ pc' = back /\ \E c : SetFptr(count, c)
    PROVE  Whole'
<1>1. /\ back \in {"grow", "crop", "erase"} /\ start[me] # FREE /\ count < Length(me)
      /\ me \in Files
  BY Constants DEF TypeOK, Safe, Control, Amounts
<1>2. \A l : l \in {"grow", "crop", "erase"} => (At(l)' <=> At(l))
  BY <1>1 DEF At
<1>3. (Undoing' <=> Undoing) /\ (Erasing' <=> Erasing) /\ ~Growing' /\ ~Keeping'
       /\ ~Growing /\ ~Keeping /\ pc' \notin {"idle", "bug", "free"}
  BY <1>1, <1>2 DEF Undoing, Erasing, Growing, Keeping, At
<1>4. \A f \in Files : Length(f)' = Length(f)
  BY <1>3 DEF Length
<1>5. Open(me') => Open(me)'
  BY <1>3 DEF Open, Growing
<1>6. \A f \in Files : \/ fptrIndex'[f] = fptrIndex[f]
                       \/ fptrIndex'[f] < Length(f)
  <2>1. \A f \in Files : f # me => fptrIndex'[f] = fptrIndex[f]
    BY DEF SetFptr, TypeOK
  <2>2. fptrIndex'[me] = fptrIndex[me] \/ fptrIndex'[me] = count
    BY DEF SetFptr, TypeOK
  <2> QED BY <1>1, <2>1, <2>2
<1>7. \A f \in Files : start[f] = FREE => fptrCluster'[f] = fptrCluster[f]
  BY <1>1 DEF SetFptr, TypeOK
<1> HIDE DEF Length
<1> QED BY <1>3, <1>4, <1>5, <1>6, <1>7, WholeSame

LEMMA AdvanceWhole ==
    ASSUME TypeOK, TypeOK', Unharmed, ~failed, Safe, Whole, Advance \/ AdvanceDone
    PROVE  Whole'
<1>1. /\ pc = "advance"
      /\ UNCHANGED <<fat, bitmap, start, size, contiguous, me, goal, allocated, undo>>
  BY DEF Advance, AdvanceDone, AdvanceRest, disk, nodes, args, locals
<1>2. \/ pc' = "advance" /\ back' = back /\ \E c : SetFptr(fptrIndex[me], c)
      \/ pc' = back /\ \E c : SetFptr(count, c)
  <2>1. CASE AdvanceDone
    BY <2>1 DEF AdvanceDone, AdvanceEnds
  <2>2. CASE Advance
    <3>1. PICK c \in NextClusters(me, fptrCluster[me]) :
            IF Invalid(c)
            THEN SetFptr(count, c) /\ AdvanceEnds
            ELSE SetFptr(fptrIndex[me], c) /\ i' = i + 1 /\ UNCHANGED <<pc, count, back>>
      BY <2>2 DEF Advance
    <3> QED BY <1>1, <3>1 DEF AdvanceEnds
  <2> QED BY <2>1, <2>2
<1> QED BY <1>1, <1>2, WalkWhole

LEMMA GrowFromWhole ==
    ASSUME TypeOK, TypeOK', Unharmed, ~failed, Safe, Whole, GrowFrom
    PROVE  Whole'
<1>1. /\ pc = "grow" /\ UNCHANGED <<fat, bitmap, start, size, contiguous, fptr>>
  BY DEF GrowFrom, disk, nodes
<1>2. /\ ~undo /\ allocated = 0 /\ me \in Files /\ \A f \in Files : size[f] \in Nat
  BY <1>1, Constants DEF Safe, Amounts, At, TypeOK
<1>3. ~Open(me) /\ \A f \in Files : Length(f) = size[f]
  BY <1>1, <1>2 DEF Open, Length, Growing, Undoing, Keeping, Erasing, At
<1>4. CASE Invalid(fptrCluster[me])
  <2>1. pc' = "idle" /\ me' = me
    BY <1>4 DEF GrowFrom, Return
  <2> HIDE DEF Length
  <2> QED BY <1>1, <1>3, <2>1, WholeReturns
<1>5. CASE ~Invalid(fptrCluster[me])
  <2>1. pc' = "growloop" /\ me' = me /\ allocated' = allocated
    BY <1>5 DEF GrowFrom, args
  <2>2. \A f \in Files : Length(f)' = Length(f)
    BY <1>1, <1>2, <1>3, <2>1 DEF Length, Growing, Undoing, Keeping, Erasing, At
  <2>3. ~Open(me')
    BY <1>3, <2>1
  <2>4. fptrIndex' = fptrIndex /\ fptrCluster' = fptrCluster
    BY <1>1 DEF fptr
  <2> HIDE DEF Length
  <2> QED BY <1>1, <2>1, <2>2, <2>3, <2>4, WholeSame
<1> QED BY <1>4, <1>5

LEMMA AllocateNextWhole ==
    ASSUME TypeOK, TypeOK', Unharmed, ~failed, Safe, Whole, Steady, AllocateNext
    PROVE  Whole'
<1>1. /\ pc = "growloop" /\ pc' \in {"noncontiguous", "link"}
      /\ bitmap' = bitmap \cup {next'}
      /\ UNCHANGED <<fat, start, size, contiguous, fptr, me, allocated>>
  BY DEF AllocateNext, Take, nodes, args
<1>2. \A f \in Files : Length(f)' = Length(f)
  BY <1>1 DEF Length, Growing
<1>3. Open(me)'
  BY <1>1 DEF Open
<1>4. fptrIndex' = fptrIndex /\ fptrCluster' = fptrCluster
  BY <1>1 DEF fptr
<1>5. \A c \in bitmap' \ System : Owned(c) \/ c = next'
  BY <1>1 DEF Whole, Used
<1> HIDE DEF Length
<1> QED BY <1>1, <1>2, <1>3, <1>4, <1>5, WholeKeeps

LEMMA NoSpaceWhole ==
    ASSUME TypeOK, TypeOK', Unharmed, ~failed, Safe, Whole, Steady, NoSpace
    PROVE  Whole'
<1>1. pc = "growloop" /\ Growing
  BY DEF NoSpace, Growing
<1>2. PICK g \in Files : g = me
  BY GrowingMeans, <1>1
<1>3. /\ size[g] \in Nat /\ allocated \in Nat /\ start[g] # FREE /\ ~undo
      /\ Length(g) = size[g] + allocated
  BY <1>1, <1>2, GrowingMeans, Constants
<1>4. CASE allocated = 0 /\ Return("ENOSPC") /\ UNCHANGED <<disk, nodes, fptr, hist>>
  <2>1. pc' = "idle" /\ me' = me /\ UNCHANGED <<fat, bitmap, start, size, contiguous, fptr>>
    BY <1>4 DEF Return, disk, nodes
  <2>2. ~Open(me)
    BY <1>1, <1>3, <1>4 DEF Open, Undoing
  <2>3. \A f \in Files : Length(f) = size[f]
    BY <1>2, <1>3, <1>4 DEF Length
  <2> HIDE DEF Length
  <2> QED BY <1>1, <2>1, <2>2, <2>3, WholeReturns
<1>5. CASE allocated # 0 /\ Undo
  <2>1. /\ undo' = TRUE /\ Crop(me, size[me] + allocated, allocated)
        /\ UNCHANGED <<me, allocated>>
    BY <1>5 DEF Undo, args
  <2>2. /\ difference' = allocated
        /\ UNCHANGED <<fat, bitmap, size, contiguous>>
    BY <2>1 DEF Crop, disk
  <2>3. CASE size[g] > 0
    <3>1. CallAdvance(g, size[g] - 1, "crop") /\ start' = start
      <4>1. size[me] + allocated > allocated /\ ~(size[me] + allocated <= allocated)
        BY <1>2, <1>3, <2>3
      <4>2. /\ CallAdvance(me, LastKept(size[me] + allocated, allocated), "crop")
            /\ start' = start
        BY <2>1, <4>1 DEF Crop
      <4>3. LastKept(size[me] + allocated, allocated) = size[g] - 1
        BY <1>2, <1>3 DEF LastKept
      <4> QED BY <1>2, <4>2, <4>3 DEF CallAdvance
    <3>2. pc' = "advance" /\ back' = "crop"
      BY <3>1 DEF CallAdvance
    <3>3. ~Growing' /\ Undoing' /\ ~Keeping' /\ ~Erasing'
      BY <2>1, <3>2 DEF Growing, Undoing, Keeping, Erasing, At
    <3>4. \A f \in Files : Length(f)' = Length(f)
      <4>1. Length(g)' = Length(g)
        BY <1>2, <1>3, <2>1, <2>2, <3>2, <3>3 DEF Length
      <4>2. \A f \in Files \ {g} : Length(f)' = Length(f)
        BY <1>2, <2>1, <2>2 DEF Length
      <4> QED BY <4>1, <4>2
    <3>5. Open(g)'
      BY <1>2, <2>1, <3>3 DEF Open
    <3>6. size[g] - 1 \in Nat
      BY <1>3, <2>3
    <3> HIDE DEF Length
    <3> QED BY <1>1, <1>2, <1>3, <2>1, <2>2, <3>1, <3>4, <3>5, <3>6, WholeWalks
  <2>4. CASE ~(size[g] > 0)
    <3>1. /\ previous' = start[g] /\ start' = [start EXCEPT ![g] = FREE]
          /\ RewindEmpty(g) /\ pc' = "free"
      BY <1>2, <1>3, <2>1, <2>4 DEF Crop
    <3>2. Length(g)' = 0 /\ \A f \in Files \ {g} : Length(f)' = Length(f)
      <4>1. Length(g)' = 0
        BY <1>2, <1>3, <2>1, <2>2, <2>4, <3>1
           DEF Length, Growing, Undoing, Keeping, Erasing, At
      <4>2. \A f \in Files \ {g} : Length(f)' = Length(f)
        BY <1>2, <2>1, <2>2 DEF Length
      <4> QED BY <4>1, <4>2
    <3>3. difference' = Length(g)
      BY <1>3, <2>2, <2>4
    <3>4. me' = g
      BY <1>2, <2>1
    <3> HIDE DEF Length
    <3> QED BY <1>1, <2>1, <2>2, <3>1, <3>2, <3>3, <3>4, CropAllWhole
  <2> QED BY <2>3, <2>4
<1> QED BY <1>4, <1>5 DEF NoSpace

-----------------------------------------------------------------------------
(***************************************************************************)
(* What a step does that reads and writes without an error.                *)
(***************************************************************************)
LEMMA MakeNoncontiguousSucceeds ==
    ASSUME MakeNoncontiguous, ~failed'
    PROVE  EntryWritten
BY Zenon DEF MakeNoncontiguous, EntryWritten, Fail

LEMMA LinkNextSucceeds ==
    ASSUME LinkNext, ~failed'
    PROVE  NextLinked
<1>1. ASSUME contiguous[me], Linked, UNCHANGED fat
      PROVE  NextLinked
  BY <1>1, Zenon DEF LinkNext, NextLinked
<1>2. ASSUME ~contiguous[me], Linked, fat' = [fat EXCEPT ![previous] = next]
      PROVE  NextLinked
  BY <1>2, Zenon DEF LinkNext, NextLinked
<1>3. ~Fail
  BY Zenon DEF Fail
<1> QED BY <1>1, <1>2, <1>3, Zenon DEF LinkNext

LEMMA GrowEndSucceeds ==
    ASSUME GrowEnd, ~failed, ~failed'
    PROVE  EndMarked /\ AfterGrowth
<1>1. /\ UNCHANGED <<bitmap, diskBitmap, cmapDirty, start, contiguous, descended, skewed,
                     strayed>>
      /\ \/ contiguous[me] /\ AfterGrowth /\ UNCHANGED <<fat, failed>>
         \/ ~contiguous[me] /\ fat' = [fat EXCEPT ![previous] = END] /\ AfterGrowth
            /\ UNCHANGED failed
  BY Zenon DEF GrowEnd
<1>2. CASE contiguous[me] /\ AfterGrowth /\ UNCHANGED <<fat, failed>>
  BY <1>1, <1>2, Zenon DEF EndMarked, hist
<1>3. CASE ~contiguous[me] /\ fat' = [fat EXCEPT ![previous] = END] /\ AfterGrowth
            /\ UNCHANGED failed
  BY <1>1, <1>3, Zenon DEF EndMarked, hist
<1> QED BY <1>1, <1>2, <1>3

LEMMA CropAtSucceeds ==
    ASSUME CropAt, ~failed', ~Invalid(fptrCluster[me])
    PROVE  \E c \in NextClusters(me, fptrCluster[me]) : Cut(c)
<1>1. PICK c \in NextClusters(me, fptrCluster[me]) :
         \E ok \in IF contiguous[me] THEN {TRUE} ELSE Writes :
               IF ok
               THEN /\ fat' = IF contiguous[me] THEN fat
                              ELSE [fat EXCEPT ![fptrCluster[me]] = END]
                    /\ previous' = c
                    /\ SetFptr(0, start[me])
                    /\ pc' = "free"
                    /\ failed' = (failed \/ c = BAD)
                    /\ UNCHANGED <<args, difference, allocated, next, walk, undo, erased,
                                   rc>>
               ELSE /\ Return("EIO")
                    /\ failed' = TRUE
                    /\ UNCHANGED <<fat, fptr>>
  BY Zenon DEF CropAt
<1>2. UNCHANGED <<bitmap, diskBitmap, cmapDirty, nodes, descended, skewed, strayed>>
  BY DEF CropAt
<1>3. Cut(c)
  BY <1>1, <1>2, Zenon DEF Cut
<1> QED BY <1>3

LEMMA FreeNextSucceeds ==
    ASSUME FreeNext, ~failed'
    PROVE  \E c \in NextClusters(me, previous) : Released(c)
<1>1. PICK c \in NextClusters(me, previous) :
         \E ok \in IF contiguous[me] THEN {TRUE} ELSE Writes :
         IF ok
         THEN /\ fat' = IF contiguous[me] THEN fat ELSE [fat EXCEPT ![previous] = FREE]
              /\ bitmap' = bitmap \ {previous}
              /\ cmapDirty' = TRUE
              /\ Freed(c)
              /\ failed' = (failed \/ c = BAD)
              /\ UNCHANGED <<pc, args, allocated, next, walk, undo, erased, rc>>
         ELSE /\ Return("EIO")
              /\ failed' = TRUE
              /\ UNCHANGED <<fat, bitmap, cmapDirty>>
  BY Zenon DEF FreeNext
<1>2. UNCHANGED <<diskBitmap, nodes, fptr, descended, skewed, strayed>>
  BY DEF FreeNext
<1>3. Released(c)
  BY <1>1, <1>2, Zenon DEF Released
<1> QED BY <1>3

LEMMA EraseFirstSucceeds ==
    ASSUME EraseFirst, ~failed', ~Invalid(fptrCluster[me])
    PROVE  Zeroed(fptrCluster[me], size[me] + 1)
BY Zenon DEF EraseFirst, Zeroed, hist

LEMMA EraseNextSucceeds ==
    ASSUME EraseNext, ~failed'
    PROVE  \E d \in NextClusters(me, next) :
              \/ Invalid(d) /\ failed' = (failed \/ d = BAD)
              \/ ~Invalid(d) /\ Zeroed(d, allocated + 1)
<1>1. PICK d \in NextClusters(me, next) : \E ok \in Writes :
         \/ Invalid(d) /\ failed' = (failed \/ d = BAD)
         \/ /\ ~Invalid(d)
            /\ IF ok
               THEN /\ Zero(d)
                    /\ allocated' = allocated + 1
                    /\ UNCHANGED <<pc, args, difference, previous, walk, undo, rc, failed>>
               ELSE Return("EIO") /\ failed' = TRUE
  BY Zenon DEF EraseNext
<1>2. /\ pc = "eraseloop"
      /\ UNCHANGED <<disk, nodes, fptr, descended, skewed, strayed>>
  BY DEF EraseNext
<1>3. \/ Invalid(d) /\ failed' = (failed \/ d = BAD)
      \/ ~Invalid(d) /\ Zeroed(d, allocated + 1)
  BY <1>1, <1>2, Zenon DEF Zeroed, hist
<1> QED BY <1>3

-----------------------------------------------------------------------------
(***************************************************************************)
(* The same, step by step: growth.                                         *)
(***************************************************************************)
LEMMA MakeNoncontiguousWhole ==
    ASSUME TypeOK, TypeOK', Unharmed, ~failed, ~failed', Safe, Whole, Steady,
           MakeNoncontiguous
    PROVE  Whole'
<1>1. EntryWritten
  BY MakeNoncontiguousSucceeds
<1>2. /\ pc = "noncontiguous"
      /\ UNCHANGED <<bitmap, start, size, contiguous, fptr, pc, me, allocated, next>>
  BY <1>1 DEF MakeNoncontiguous, EntryWritten, nodes, args, locals
<1>3. \A f \in Files : Length(f)' = Length(f)
  BY <1>2 DEF Length, Growing
<1>4. Open(me)'
  BY <1>2 DEF Open
<1>5. fptrIndex' = fptrIndex /\ fptrCluster' = fptrCluster
  BY <1>2 DEF fptr
<1>6. \A c \in bitmap' \ System : Owned(c) \/ c = next'
  BY <1>2 DEF Whole, Used
<1> HIDE DEF Length
<1> QED BY <1>2, <1>3, <1>4, <1>5, <1>6, WholeKeeps

LEMMA MadeNoncontiguousWhole ==
    ASSUME TypeOK, TypeOK', Unharmed, ~failed, Safe, Whole, Steady, MadeNoncontiguous
    PROVE  Whole'
<1>1. /\ pc = "noncontiguous" /\ pc' = "link"
      /\ contiguous' = [contiguous EXCEPT ![me] = FALSE]
      /\ UNCHANGED <<bitmap, start, size, fptr, me, allocated, next>>
  BY DEF MadeNoncontiguous, disk, args, locals
<1>2. \A f \in Files : Length(f)' = Length(f)
  BY <1>1 DEF Length, Growing
<1>3. Open(me)'
  BY <1>1 DEF Open
<1>4. fptrIndex' = fptrIndex /\ fptrCluster' = fptrCluster
  BY <1>1 DEF fptr
<1>5. \A c \in bitmap' \ System : Owned(c) \/ c = next'
  BY <1>1 DEF Whole, Used
<1>6. \A f \in Files \ {me'} : contiguous'[f] = contiguous[f]
  BY <1>1 DEF TypeOK
<1> HIDE DEF Length
<1> QED BY <1>1, <1>2, <1>3, <1>4, <1>5, <1>6, WholeKeeps

\* The cluster that was allocated last is the file's last one now.
LEMMA LinkNextWhole ==
    ASSUME TypeOK, TypeOK', Unharmed, Unharmed', ~failed, ~failed', Safe, Safe', Whole,
           Steady, LinkNext
    PROVE  Whole'
<1>1. /\ pc = "link" /\ pc' = "growloop"
      /\ previous' = next /\ allocated' = allocated + 1
      /\ UNCHANGED <<bitmap, start, size, contiguous, fptr, me>>
  <2>1. NextLinked /\ pc = "link"
    BY LinkNextSucceeds DEF LinkNext
  <2> QED BY <2>1 DEF NextLinked, Linked, nodes, args
<1>2. Growing /\ Growing'
  BY <1>1 DEF Growing
<1>3. PICK g \in Files : g = me
  BY GrowingMeans, <1>2
<1>4. PICK m \in Nat : m = Length(g)
  BY LengthType
<1>5. /\ m = size[g] + allocated /\ size[g] \in Nat /\ allocated \in Nat /\ m > 0
      /\ start[g] \in Clusters /\ next \in Clusters
  BY <1>1, <1>2, <1>3, <1>4, GrowingMeans DEF Safe, Control
<1>6. Length(g)' = m + 1 /\ \A f \in Files \ {g} : Length(f)' = Length(f)
  <2>1. Length(g)' = m + 1
    BY <1>1, <1>2, <1>3, <1>5 DEF Length, Growing
  <2>2. \A f \in Files \ {g} : Length(f)' = Length(f)
    BY <1>1, <1>3 DEF Length
  <2> QED BY <2>1, <2>2
<1>7. ChainAt(g, m)' = next
  <2>1. ChainAt(me, Length(me) - 1)' = next
    <3>1. (ChainAt(me, Length(me) - 1) = previous)'
      BY <1>2 DEF Safe, Place
    <3> QED BY <1>1, <3>1
  <2>2. (Length(me) - 1)' = m
    <3>1. Length(me)' = Length(g)'
      BY <1>1, <1>3 DEF Length
    <3> QED BY <1>4, <1>6, <3>1
  <2>3. ChainAt(me, Length(me) - 1)' = ChainAt(g, m)'
    <3> HIDE DEF Length
    <3> QED BY <1>1, <1>3, <2>2 DEF ChainAt
  <2> QED BY <2>1, <2>3
<1>8. \A k \in 0 .. m - 1 : ChainAt(g, k)' = ChainAt(g, k)
  <2>1. \A k \in 0 .. m - 1 : k \in 0 .. Length(g) - 1 /\ k < Length(g)'
    BY <1>4, <1>6
  <2> QED BY <2>1 DEF Steady
<1>9. \A f \in Files \ {g} : Intact(f)'
  <2>1. /\ me' = me /\ start' = start /\ contiguous' = contiguous
        /\ fptrIndex' = fptrIndex /\ fptrCluster' = fptrCluster
    BY <1>1 DEF fptr
  <2> QED BY <1>3, <1>6, <2>1, IntactOther
<1>10. Intact(g)'
  <2>1. Intact(g)
    BY DEF Whole
  <2>2. \A k \in 0 .. Length(g)' - 1 : ~Invalid(ChainAt(g, k)')
    <3>1. ASSUME NEW k \in 0 .. Length(g)' - 1
          PROVE  ~Invalid(ChainAt(g, k)')
      <4>1. CASE k = m
        BY <1>5, <1>7, <4>1 DEF Invalid
      <4>2. CASE k # m
        <5>1. k \in 0 .. m - 1 /\ k \in 0 .. Length(g) - 1
          BY <1>4, <1>6, <4>2
        <5> QED BY <1>8, <2>1, <5>1 DEF Intact
      <4> QED BY <4>1, <4>2
    <3> QED BY <3>1
  <2>3. Length(g)' # 0 /\ start'[g] # FREE
    BY <1>1, <1>5, <1>6, Constants
  <2>4. Open(g)'
    BY <1>1, <1>3, <1>5 DEF Open
  <2>5. fptrIndex'[g] = 0 \/ fptrIndex'[g] < Length(g)'
    <3>1. fptrIndex'[g] = fptrIndex[g] /\ fptrIndex[g] \in Nat
      BY <1>1 DEF fptr, TypeOK
    <3> HIDE DEF Length
    <3> QED BY <1>4, <1>6, <2>1, <3>1 DEF Intact
  <2> HIDE DEF Length
  <2> QED BY <2>2, <2>3, <2>4, <2>5 DEF Intact, Invalid
<1>11. ASSUME NEW c \in bitmap' \ System
       PROVE  Used(c)'
  <2>1. Owned(c) \/ c = next
    BY <1>1 DEF Whole, Used
  <2>2. CASE c = next
    <3>1. m \in 0 .. Length(g)' - 1
      BY <1>6
    <3> QED BY <1>7, <2>2, <3>1 DEF Used, Owned
  <2>3. CASE Owned(c)
    <3>1. PICK f \in Files : \E k \in 0 .. Length(f) - 1 : ChainAt(f, k) = c
      BY <2>3 DEF Owned
    <3>2. PICK k \in 0 .. Length(f) - 1 : ChainAt(f, k) = c
      BY <3>1
    <3>3. k < Length(f)' /\ k \in 0 .. Length(f)' - 1
      BY <1>4, <1>6, LengthType
    <3>4. ChainAt(f, k)' = c
      BY <3>2, <3>3 DEF Steady
    <3> QED BY <3>3, <3>4 DEF Used, Owned
  <2> QED BY <2>1, <2>2, <2>3
<1> QED BY <1>1, <1>9, <1>10, <1>11 DEF Whole

\* The last cluster is marked.
LEMMA GrowEndWhole ==
    ASSUME TypeOK, TypeOK', Unharmed, ~failed, ~failed', Safe, Whole, Steady, GrowEnd
    PROVE  Whole'
<1>1. /\ pc = "growloop" /\ allocated >= difference /\ EndMarked /\ AfterGrowth
  BY GrowEndSucceeds DEF GrowEnd
<1>2. /\ fat' = IF contiguous[me] THEN fat ELSE [fat EXCEPT ![previous] = END]
      /\ UNCHANGED <<bitmap, start, contiguous>>
  BY <1>1 DEF EndMarked
<1>3. Growing
  BY <1>1 DEF Growing
<1>4. PICK g \in Files : g = me
  BY GrowingMeans, <1>3
<1>5. PICK m \in Nat : m = Length(g)
  BY LengthType
<1>6. /\ m = goal /\ size[g] < m /\ size[g] \in Nat /\ ~undo /\ m \in 1 .. Length(g)
      /\ ChainAt(g, m - 1) = previous /\ previous \in Clusters /\ start[g] \in Clusters
      /\ fptrIndex[g] < m /\ fptrIndex[g] \in Nat
  <2>1. fptrIndex[me] \in Nat
    BY <1>4 DEF TypeOK
  <2> QED BY <1>1, <1>3, <1>4, <1>5, <2>1, GrowingMeans
<1>7. ~contiguous[g] => ChainAt(g, m)' = END
  <2>1. PICK x \in Clusters, y \in FatEntry : x = previous /\ y = END
    BY <1>6, Constants
  <2>2. fat' = IF contiguous[g] THEN fat ELSE [fat EXCEPT ![x] = y]
    BY <1>2, <1>4, <2>1
  <2>3. x = ChainAt(g, m - 1) /\ start' = start /\ contiguous' = contiguous
    BY <1>2, <1>6, <2>1
  <2>4. ~contiguous[g] => ChainAt(g, m)' = y
    BY <1>6, <2>2, <2>3, LastWritten
  <2> QED BY <2>1, <2>4
<1>8. \A c \in bitmap' \ System : Owned(c)
  BY <1>1, <1>2 DEF Whole, Used
<1>9. /\ me' = me /\ pc' \in {"advance", "idle"}
      /\ \A f \in Files \ {g} : Length(f)' = Length(f)
      /\ Length(g)' = m
      /\ fptrIndex'[g] = 0 \/ fptrIndex'[g] = fptrIndex[g]
      /\ \A f \in Files \ {g} : /\ fptrIndex'[f] = fptrIndex[f]
                                /\ fptrCluster'[f] = fptrCluster[f]
  <2>1. CASE erase
    <3>1. /\ CallAdvance(g, size[g], "erase")
          /\ UNCHANGED <<size, me, goal, erase, allocated, undo>>
      BY <1>1, <1>4, <2>1 DEF AfterGrowth, args, locals
    <3>2. pc' = "advance" /\ back' = "erase"
      BY <3>1 DEF CallAdvance
    <3>3. ~Growing' /\ ~Undoing' /\ Erasing'
      BY <1>6, <3>1, <3>2 DEF Growing, Undoing, Erasing, At
    <3>4. Length(g)' = m
      BY <1>4, <1>6, <3>1, <3>2, <3>3 DEF Length
    <3>5. \A f \in Files \ {g} : Length(f)' = Length(f)
      BY <1>4, <3>1 DEF Length
    <3>6. /\ fptrIndex'[g] = 0 \/ fptrIndex'[g] = fptrIndex[g]
          /\ \A f \in Files \ {g} : /\ fptrIndex'[f] = fptrIndex[f]
                                    /\ fptrCluster'[f] = fptrCluster[f]
      BY <3>1 DEF CallAdvance, fptr, TypeOK
    <3> QED BY <3>1, <3>2, <3>4, <3>5, <3>6
  <2>2. CASE ~erase
    <3>1. Finish /\ UNCHANGED fptr
      BY <1>1, <2>2 DEF AfterGrowth
    <3>2. pc' = "idle" /\ me' = me /\ size' = [size EXCEPT ![me] = goal]
      BY <3>1 DEF Finish, Return
    <3>3. \A f \in Files : size'[f] = IF f = g THEN goal ELSE size[f]
      BY <1>4, <3>2 DEF TypeOK
    <3>4. Length(g)' = m
      BY <1>6, <3>2, <3>3 DEF Length
    <3>5. \A f \in Files \ {g} : Length(f)' = Length(f)
      BY <1>4, <3>2, <3>3 DEF Length
    <3>6. fptrIndex' = fptrIndex /\ fptrCluster' = fptrCluster
      BY <3>1 DEF fptr
    <3> QED BY <3>2, <3>4, <3>5, <3>6
  <2> QED BY <2>1, <2>2
<1>10. (Length(me) > 0 /\ ~contiguous[me] /\ ~Open(me) => ChainAt(me, Length(me)) = END)'
  <2>1. Length(me)' = m
    <3>1. Length(me)' = Length(g)'
      BY <1>4, <1>9 DEF Length
    <3> QED BY <1>9, <3>1
  <2>2. ChainAt(me, Length(me))' = ChainAt(g, m)'
    <3> HIDE DEF Length
    <3> QED BY <1>4, <1>9, <2>1 DEF ChainAt
  <2> QED BY <1>2, <1>4, <1>7, <1>9, <2>2
<1>11. \A f \in Files : \/ fptrIndex'[f] = 0 \/ fptrIndex'[f] = fptrIndex[f]
                        \/ fptrIndex'[f] < Length(f)
  BY <1>9
<1>12. \A f \in Files : start[f] = FREE => fptrCluster'[f] = fptrCluster[f]
  BY <1>6, <1>9, Constants
<1>13. \A f \in Files : Length(f)' = Length(f)
  BY <1>5, <1>9
<1>14. start' = start /\ \A f \in Files \ {me'} : contiguous'[f] = contiguous[f]
  BY <1>2
<1>15. \A c \in bitmap' \ System :
          Owned(c) \/ (pc' \in {"noncontiguous", "link"} /\ c = next')
  BY <1>8
<1>16. pc' \notin {"bug", "free"} /\ me' = me
  BY <1>9
<1> HIDE DEF Length
<1> QED BY <1>10, <1>11, <1>12, <1>13, <1>14, <1>15, <1>16, WholeKeeps

-----------------------------------------------------------------------------
(***************************************************************************)
(* The same, step by step: what ends or zeroes.                            *)
(***************************************************************************)
LEMMA FreeInvalidNever ==
    ASSUME TypeOK, Unharmed, ~failed, Whole, FreeInvalid
    PROVE  FALSE
<1>1. pc = "free" /\ difference > 0 /\ difference \in Nat /\ Invalid(previous)
  BY DEF FreeInvalid, TypeOK
<1>2. Rest(0) = previous /\ 0 \in 0 .. difference - 1
  BY <1>1, RestSteps
<1>3. ~Invalid(Rest(0))
  BY <1>1, <1>2 DEF Whole
<1> QED BY <1>1, <1>2, <1>3

LEMMA FreeDoneWhole ==
    ASSUME TypeOK, TypeOK', Unharmed, ~failed, Safe, Whole, FreeDone
    PROVE  Whole'
<1>1. /\ pc = "free" /\ difference = 0 /\ pc' = "idle" /\ me' = me
      /\ UNCHANGED <<fat, start, contiguous, bitmap, fptr>>
      /\ size' = IF undo THEN size ELSE [size EXCEPT ![me] = goal]
  BY DEF FreeDone, disk, Finish, Return
<1>2. ~Open(me)
  BY <1>1 DEF Open, Undoing, At
<1>3. \A f \in Files : size'[f] = Length(f)
  <2>1. ~Growing /\ ~Undoing /\ ~Erasing /\ (Keeping <=> ~undo)
    BY <1>1 DEF Growing, Undoing, Erasing, Keeping, At
  <2> QED BY <1>1, <2>1 DEF Length, TypeOK
<1> HIDE DEF Length
<1> QED BY <1>1, <1>2, <1>3, WholeReturns

LEMMA EraseDoneWhole ==
    ASSUME TypeOK, TypeOK', Unharmed, ~failed, Safe, Whole, EraseDone
    PROVE  Whole'
<1>1. /\ pc = "eraseloop" /\ pc' = "idle" /\ me' = me
      /\ UNCHANGED <<fat, start, contiguous, bitmap, fptr>>
      /\ size' = [size EXCEPT ![me] = goal]
  BY DEF EraseDone, disk, Finish, Return
<1>2. ~Open(me)
  BY <1>1 DEF Open, Undoing, At
<1>3. \A f \in Files : size'[f] = Length(f)
  <2>1. Length(me) = goal
    BY <1>1, ErasingMeans DEF TypeOK
  <2>2. \A f \in Files \ {me} : Length(f) = size[f]
    BY DEF Length
  <2>3. \A f \in Files : size'[f] = IF f = me THEN goal ELSE size[f]
    BY <1>1 DEF TypeOK
  <2> QED BY <2>1, <2>2, <2>3
<1> HIDE DEF Length
<1> QED BY <1>1, <1>2, <1>3, WholeReturns

LEMMA FlushWhole ==
    ASSUME TypeOK, TypeOK', Unharmed, ~failed, Safe, Whole, Flush
    PROVE  Whole'
<1>1. /\ pc = "idle" /\ pc' = "idle"
      /\ UNCHANGED <<fat, start, size, contiguous, bitmap, fptr, me>>
  BY DEF Flush, nodes, args
<1>2. \A f \in Files : Length(f)' = Length(f)
  BY <1>1 DEF Length
<1>3. ~Open(me')
  BY <1>1 DEF Open, Undoing, At
<1>4. fptrIndex' = fptrIndex /\ fptrCluster' = fptrCluster
  BY <1>1 DEF fptr
<1> HIDE DEF Length
<1> QED BY <1>1, <1>2, <1>3, <1>4, WholeSame

\* A cluster is zeroed.
LEMMA ZeroedWhole ==
    ASSUME TypeOK, TypeOK', Unharmed, ~failed, Safe, Whole,
           pc \in {"erase", "eraseloop"}, NEW c, NEW n, Zeroed(c, n)
    PROVE  Whole'
<1>1. /\ pc' = "eraseloop"
      /\ UNCHANGED <<fat, bitmap, start, size, contiguous, fptr, me, goal, undo>>
  BY DEF Zeroed, disk, nodes, args
<1>2. PICK g \in Files : g = me
  BY DEF TypeOK
<1>3. Length(g) = goal
  BY <1>2, ErasingMeans
<1>4. ~Growing' /\ ~Keeping' /\ ~Undoing' /\ Erasing'
  BY <1>1 DEF Growing, Keeping, Undoing, Erasing, At, TypeOK
<1>5. \A f \in Files : Length(f)' = Length(f)
  <2>1. Length(g)' = goal
    BY <1>1, <1>2, <1>4 DEF Length
  <2>2. \A f \in Files \ {g} : Length(f)' = Length(f)
    BY <1>1, <1>2 DEF Length
  <2> QED BY <1>3, <2>1, <2>2
<1>6. ~Open(me)
  BY DEF Open, Undoing, At
<1>7. fptrIndex' = fptrIndex /\ fptrCluster' = fptrCluster
  BY <1>1 DEF fptr
<1> HIDE DEF Length
<1> QED BY <1>1, <1>5, <1>6, <1>7, WholeSame

LEMMA EraseFirstWhole ==
    ASSUME TypeOK, TypeOK', Unharmed, ~failed, ~failed', Safe, Whole, EraseFirst
    PROVE  Whole'
<1>1. pc = "erase"
  BY DEF EraseFirst
<1>2. PICK g \in Files : g = me
  BY DEF TypeOK
<1>3. /\ size[g] \in Nat /\ goal \in Nat /\ size[g] < goal /\ Length(g) = goal
      /\ \A k \in 0 .. goal - 1 : ~Invalid(ChainAt(g, k))
  BY <1>1, <1>2, ErasingMeans
<1>4. fptrIndex[g] = size[g]
  BY <1>1, <1>2 DEF Safe, Amounts
<1>5. fptrCluster[g] = ChainAt(g, size[g])
  <2>1. fptrIndex[g] < Length(g)
    BY <1>3, <1>4
  <2> QED BY <1>1, <1>4, <2>1, CachedMeans DEF Safe
<1>6. ~Invalid(fptrCluster[me])
  <2>1. size[g] \in 0 .. goal - 1
    BY <1>3
  <2>2. ~Invalid(ChainAt(g, size[g]))
    BY <1>3, <2>1
  <2> QED BY <1>2, <1>5, <2>2
<1>7. Zeroed(fptrCluster[me], size[me] + 1)
  BY <1>6, EraseFirstSucceeds
<1> QED BY <1>1, <1>7, ZeroedWhole

LEMMA EraseNextWhole ==
    ASSUME TypeOK, TypeOK', Unharmed, ~failed, ~failed', Safe, Whole, EraseNext
    PROVE  Whole'
<1>1. pc = "eraseloop" /\ allocated < goal
  BY DEF EraseNext, MoreToErase
<1>2. PICK d \in NextClusters(me, next) :
              \/ Invalid(d) /\ failed' = (failed \/ d = BAD)
              \/ ~Invalid(d) /\ Zeroed(d, allocated + 1)
  BY EraseNextSucceeds
<1>3. CASE Invalid(d) /\ failed' = (failed \/ d = BAD)
  <2>1. PICK g \in Files : g = me
    BY DEF TypeOK
  <2>2. /\ goal \in Nat /\ allocated \in Nat /\ size[g] \in Nat
        /\ \A k \in 0 .. goal - 1 : ~Invalid(ChainAt(g, k))
    BY <1>1, <2>1, ErasingMeans
  <2>3. size[g] < allocated /\ next = ChainAt(g, allocated - 1)
    BY <1>1, <2>1 DEF Safe, Amounts, Place
  <2>4. PICK a \in Nat : a = allocated - 1 /\ a + 1 = allocated
    BY <2>2, <2>3
  <2>5. /\ a \in 0 .. goal - 1 /\ a + 1 \in 0 .. goal - 1
    BY <1>1, <2>2, <2>4
  <2>6. next = ChainAt(g, a) /\ ~Invalid(next)
    BY <2>2, <2>3, <2>4, <2>5 DEF Invalid
  <2>7. d = Follow(fat, contiguous[g], next)
    <3>1. d = Follow(fat, contiguous[g], next) \/ d = BAD
      BY <2>1, <2>6, NextFollows
    <3>2. d # BAD
      BY <1>3
    <3> QED BY <3>1, <3>2
  <2>8. d = ChainAt(g, a + 1)
    BY <2>6, <2>7, ChainSteps
  <2> QED BY <1>3, <2>2, <2>5, <2>8
<1>4. CASE ~Invalid(d) /\ Zeroed(d, allocated + 1)
  BY <1>1, <1>4, ZeroedWhole
<1> QED BY <1>2, <1>3, <1>4

-----------------------------------------------------------------------------
(***************************************************************************)
(* The same, step by step: clusters that are given back.                   *)
(***************************************************************************)
\* What is to be freed after a cut is what followed in the chain.
LEMMA CutRest ==
    ASSUME TypeOK, TypeOK', Unharmed, Safe, NEW g \in Files, g = me, NEW m \in Nat, m > 0,
           difference \in Nat, difference > 0, Length(g) = m + difference,
           NEW x \in Clusters, x = ChainAt(g, m - 1), NEW y \in FatEntry,
           fat' = IF contiguous[g] THEN fat ELSE [fat EXCEPT ![x] = y],
           previous' = Follow(fat, contiguous[g], x),
           UNCHANGED <<start, contiguous, me>>
    PROVE  \A k \in 0 .. difference - 1 : Rest(k)' = ChainAt(g, m + k)
<1>1. \A k \in Nat : ChainAt(g, k) = ChainFrom(fat, contiguous[g], start[g])[k]
  BY DEF ChainAt
<1>2. previous' = ChainFrom(fat, contiguous[g], start[g])[m]
  <2>1. PICK k \in Nat : k = m - 1 /\ k + 1 = m
    OBVIOUS
  <2>2. ChainAt(g, m) = Follow(fat, contiguous[g], ChainAt(g, m - 1))
    BY <2>1, ChainSteps
  <2> QED BY <1>1, <2>2
<1>3. PICK n \in Nat : n = difference - 1
  OBVIOUS
<1>4. \A k \in 0 .. n - 1 : ChainFrom(fat, contiguous[g], start[g])[m + k] # x
  <2>1. ASSUME NEW k \in 0 .. n - 1
        PROVE  ChainAt(g, m + k) # x
    <3>1. m + k \in 0 .. Length(g) - 1 /\ m - 1 \in 0 .. Length(g) - 1 /\ m + k # m - 1
      BY <1>3
    <3> QED BY <3>1, ApartMeans DEF Safe, Invalid
  <2> QED BY <1>1, <2>1
<1>5. PICK b \in Int : b = start[g]
  BY Constants DEF TypeOK
<1>6. \A k \in 0 .. n : Rest(k)' = ChainFrom(fat, contiguous[g], b)[m + k]
  <2>1. previous' = ChainFrom(fat, contiguous[g], b)[m]
    BY <1>2, <1>5
  <2>2. \A k \in 0 .. n - 1 : ChainFrom(fat, contiguous[g], b)[m + k] # x
    BY <1>4, <1>5
  <2>3. me' = g /\ contiguous' = contiguous
    OBVIOUS
  <2>4. fat' = IF contiguous[g] THEN fat ELSE [fat EXCEPT ![x] = y]
    OBVIOUS
  <2>5. TypeOK /\ TypeOK'
    OBVIOUS
  <2> HIDE DEF Length
  <2> QED BY ONLY <1>3, <1>5, <2>1, <2>2, <2>3, <2>4, <2>5, g \in Files, m \in Nat,
                  x \in Clusters, y \in FatEntry, RestMoves
<1> QED BY <1>1, <1>3, <1>5, <1>6

\* What is to be freed after a cluster has been is what followed it.
LEMMA ReleasedRest ==
    ASSUME TypeOK, TypeOK', Unharmed, Safe, pc = "free", NEW g \in Files, g = me,
           NEW x \in Clusters, x = previous, NEW y \in FatEntry,
           fat' = IF contiguous[g] THEN fat ELSE [fat EXCEPT ![x] = y],
           previous' = Follow(fat, contiguous[g], x),
           UNCHANGED <<contiguous, me>>, NEW n \in Nat, n < difference
    PROVE  \A k \in 0 .. n - 1 : Rest(k)' = Rest(1 + k)
<1>1. \A k : Rest(k) = ChainFrom(fat, contiguous[g], x)[k]
  BY DEF Rest
<1>2. Rest(0) = x /\ previous' = Rest(0 + 1)
  BY RestSteps
<1>3. ASSUME NEW k \in 0 .. n - 1
      PROVE  Rest(1 + k) # x
  <2>1. 1 + k \in 0 .. difference - 1 /\ 0 \in 0 .. difference - 1 /\ 1 + k # 0
    BY DEF TypeOK
  <2>2. \A j \in 0 .. difference - 1 : Rest(j) = Rest(0) => j = 0
    BY <1>2, <2>1, Zenon DEF Safe, Freeing, Invalid
  <2> QED BY <1>2, <2>1, <2>2
<1>4. CASE n = 0
  BY <1>4
<1>5. CASE n # 0
  <2>1. PICK p \in Nat : p = n - 1
    BY <1>5
  <2>2. \A k \in 0 .. p - 1 : ChainFrom(fat, contiguous[g], x)[1 + k] # x
    BY <1>1, <1>3, <2>1
  <2>3. me' = g /\ contiguous' = contiguous /\ x \in Int /\ 1 \in Nat
    BY Constants
  <2>4. previous' = ChainFrom(fat, contiguous[g], x)[1]
    BY <1>1, <1>2
  <2>5. \A k \in 0 .. p : Rest(k)' = ChainFrom(fat, contiguous[g], x)[1 + k]
    BY <2>2, <2>3, <2>4, RestMoves
  <2> QED BY <1>1, <2>1, <2>5
<1> QED BY <1>4, <1>5

\* The chain is cut: what follows the last cluster that stays is to be freed.
LEMMA CropAtWhole ==
    ASSUME TypeOK, TypeOK', Unharmed, Unharmed', ~failed, ~failed', Safe, Safe', Whole,
           Steady, CropAt
    PROVE  Whole'
<1>1. pc = "crop"
  BY DEF CropAt
<1>2. PICK g \in Files : g = me
  BY DEF TypeOK
<1>3. PICK m \in Nat :
              /\ m = IF undo THEN size[g] ELSE goal
              /\ m > 0 /\ Length(g) = m + difference /\ difference \in Nat
              /\ difference > 0 /\ fptrIndex[g] = m - 1 /\ start[g] \in Clusters
  BY <1>1, <1>2, CropMeans
<1>4. \A k \in 0 .. Length(g) - 1 : ~Invalid(ChainAt(g, k))
  BY DEF Whole, Intact
<1>5. fptrCluster[g] = ChainAt(g, m - 1)
  <2>1. fptrIndex[g] < Length(g)
    BY <1>3
  <2> QED BY <1>1, <1>3, <2>1, CachedMeans DEF Safe
<1>6. ~Invalid(fptrCluster[g])
  <2>1. m - 1 \in 0 .. Length(g) - 1
    BY <1>3
  <2>2. ~Invalid(ChainAt(g, m - 1))
    BY <1>4, <2>1
  <2> QED BY <1>5, <2>2
<1>7. PICK c \in NextClusters(g, fptrCluster[g]) : Cut(c)
  BY <1>2, <1>6, CropAtSucceeds
<1>8. /\ fat' = IF contiguous[g] THEN fat ELSE [fat EXCEPT ![fptrCluster[g]] = END]
      /\ previous' = c /\ SetFptr(0, start[g]) /\ pc' = "free" /\ c # BAD
      /\ UNCHANGED <<bitmap, start, size, contiguous, me, goal, difference, allocated,
                     undo>>
  BY <1>2, <1>7 DEF Cut, nodes, args
<1>9. c = Follow(fat, contiguous[g], fptrCluster[g])
  BY <1>6, <1>7, <1>8, NextFollows
<1>10. \A k \in 0 .. difference - 1 : Rest(k)' = ChainAt(g, m + k)
  <2>1. PICK x \in Clusters, y \in FatEntry : x = fptrCluster[g] /\ y = END
    BY <1>6, Constants DEF Invalid
  <2>2. x = ChainAt(g, m - 1) /\ previous' = Follow(fat, contiguous[g], x)
    BY <1>5, <1>8, <1>9, <2>1
  <2>3. fat' = IF contiguous[g] THEN fat ELSE [fat EXCEPT ![x] = y]
    BY <1>8, <2>1
  <2>4. m > 0 /\ difference \in Nat /\ difference > 0 /\ Length(g) = m + difference
    BY <1>3
  <2>5. UNCHANGED <<start, contiguous, me>>
    BY <1>8
  <2> HIDE DEF Length
  <2> QED BY <1>2, <2>2, <2>3, <2>4, <2>5, CutRest
<1>11. Length(g)' = m /\ \A f \in Files \ {g} : Length(f)' = Length(f)
  <2>1. ~Growing' /\ ~Undoing' /\ ~Erasing' /\ (Keeping' <=> ~undo)
    BY <1>8 DEF Growing, Undoing, Keeping, Erasing, At
  <2>2. Length(g)' = m
    BY <1>2, <1>3, <1>8, <2>1 DEF Length
  <2>3. \A f \in Files \ {g} : Length(f)' = Length(f)
    BY <1>2, <1>8 DEF Length
  <2> QED BY <2>2, <2>3
<1>12. \A k \in 0 .. m - 1 : ChainAt(g, k)' = ChainAt(g, k) /\ k \in 0 .. Length(g) - 1
  <2>1. \A k \in 0 .. m - 1 : k \in 0 .. Length(g) - 1 /\ k < Length(g)'
    BY <1>3, <1>11
  <2> QED BY <2>1 DEF Steady
<1>13. /\ fptrIndex'[g] = 0
       /\ \A f \in Files \ {g} : /\ fptrIndex'[f] = fptrIndex[f]
                                 /\ fptrCluster'[f] = fptrCluster[f]
  BY <1>2, <1>8 DEF SetFptr, TypeOK
<1>14. \A f \in Files \ {g} : Intact(f)'
  <2>1. me' = me /\ start' = start /\ contiguous' = contiguous
    BY <1>8
  <2> HIDE DEF Length
  <2> QED BY <1>2, <1>11, <1>13, <2>1, IntactOther
<1>15. Intact(g)'
  <2>1. \A k \in 0 .. Length(g)' - 1 : ~Invalid(ChainAt(g, k)')
    BY <1>4, <1>11, <1>12 DEF Invalid
  <2>2. Length(g)' # 0 /\ start'[g] # FREE
    BY <1>3, <1>8, <1>11, Constants
  <2>3. ~contiguous'[g] => ChainAt(g, Length(g))' = END
    <3>1. (start[me] # FREE /\ ~contiguous[me] => ChainAt(me, Length(me)) = END)'
      BY <1>8 DEF Safe, Freeing
    <3>2. Length(me)' = Length(g)'
      BY <1>2, <1>8 DEF Length
    <3>3. ChainAt(me, Length(me))' = ChainAt(g, Length(g))'
      <4> HIDE DEF Length
      <4> QED BY <1>2, <1>8, <3>2 DEF ChainAt
    <3> HIDE DEF Length
    <3> QED BY <1>2, <1>8, <2>2, <3>1, <3>3
  <2> HIDE DEF Length
  <2> QED BY <1>13, <2>1, <2>2, <2>3 DEF Intact, Invalid
<1>16. ASSUME NEW d \in bitmap' \ System
       PROVE  Used(d)'
  <2>1. Owned(d)
    BY <1>1, <1>8 DEF Whole, Used
  <2>2. PICK f \in Files : \E k \in 0 .. Length(f) - 1 : ChainAt(f, k) = d
    BY <2>1 DEF Owned
  <2>3. PICK k \in 0 .. Length(f) - 1 : ChainAt(f, k) = d
    BY <2>2
  <2>4. CASE k < Length(f)'
    <3>1. ChainAt(f, k)' = d
      BY <2>3, <2>4 DEF Steady
    <3>2. k \in 0 .. Length(f)' - 1
      BY <2>3, <2>4, LengthTypeNext
    <3> QED BY <3>1, <3>2 DEF Used, Owned
  <2>5. CASE ~(k < Length(f)')
    <3>1. f = g
      BY <1>11, <2>5, LengthType
    <3>2. PICK j \in 0 .. difference - 1 : m + j = k
      <4>1. k - m \in 0 .. difference - 1 /\ m + (k - m) = k
        BY <1>3, <1>11, <2>3, <2>5, <3>1
      <4> QED BY <4>1
    <3>3. Rest(j)' = d /\ j \in 0 .. difference' - 1
      BY <1>8, <1>10, <2>3, <3>1, <3>2
    <3> QED BY <1>8, <3>3 DEF Used
  <2> QED BY <2>4, <2>5
<1>17. \A j \in 0 .. difference' - 1 : ~Invalid(Rest(j)')
  <2>1. \A j \in 0 .. difference - 1 : m + j \in 0 .. Length(g) - 1
    BY <1>3
  <2>2. \A j \in 0 .. difference - 1 : ~Invalid(ChainAt(g, m + j))
    BY <1>4, <2>1
  <2>3. difference' = difference
    BY <1>8
  <2> QED BY <1>10, <2>2, <2>3 DEF Invalid
<1> HIDE DEF Length
<1> QED BY <1>8, <1>14, <1>15, <1>16, <1>17 DEF Whole, Invalid

\* One cluster is freed.
LEMMA FreeNextWhole ==
    ASSUME TypeOK, TypeOK', Unharmed, Unharmed', ~failed, ~failed', Safe, Safe', Whole,
           Steady, FreeNext
    PROVE  Whole'
<1>1. pc = "free" /\ difference > 0 /\ difference \in Nat /\ ~Invalid(previous)
  BY DEF FreeNext, TypeOK
<1>2. PICK g \in Files : g = me
  BY DEF TypeOK
<1>3. PICK c \in NextClusters(g, previous) : Released(c)
  BY <1>2, FreeNextSucceeds
<1>4. /\ fat' = IF contiguous[g] THEN fat ELSE [fat EXCEPT ![previous] = FREE]
      /\ bitmap' = bitmap \ {previous} /\ previous' = c /\ c # BAD
      /\ difference' = difference - 1
      /\ UNCHANGED <<start, size, contiguous, fptr, pc, me, goal, allocated, undo>>
  BY <1>2, <1>3 DEF Released, Freed, nodes, args
<1>5. c = Follow(fat, contiguous[g], previous)
  BY <1>1, <1>3, <1>4, NextFollows
<1>6. PICK n \in Nat : n = difference - 1
  BY <1>1
<1>7. \A k \in 0 .. n - 1 : Rest(k)' = Rest(1 + k)
  <2>1. PICK x \in Clusters, y \in FatEntry : x = previous /\ y = FREE
    BY <1>1, Constants DEF Invalid
  <2>2. x = previous /\ previous' = Follow(fat, contiguous[g], x)
    BY <1>4, <1>5, <2>1
  <2>3. fat' = IF contiguous[g] THEN fat ELSE [fat EXCEPT ![x] = y]
    BY <1>4, <2>1
  <2>4. n < difference
    BY <1>1, <1>6
  <2> QED BY <1>1, <1>2, <1>4, <2>2, <2>3, <2>4, ReleasedRest
<1>8. \A f \in Files : Length(f)' = Length(f)
  BY <1>1, <1>4 DEF Length, Growing, Undoing, Keeping, Erasing, At
<1>9. \A f \in Files : fptrIndex'[f] = fptrIndex[f] /\ fptrCluster'[f] = fptrCluster[f]
  BY <1>4 DEF fptr
<1>10. \A f \in Files \ {g} : Intact(f)'
  <2>1. me' = me /\ start' = start /\ contiguous' = contiguous
    BY <1>4
  <2> HIDE DEF Length
  <2> QED BY <1>2, <1>8, <1>9, <2>1, IntactOther
<1>11. Intact(g)'
  <2>1. Intact(g)
    BY DEF Whole
  <2>2. \A k \in 0 .. Length(g)' - 1 : ~Invalid(ChainAt(g, k)')
    <3>1. \A k \in 0 .. Length(g) - 1 : ChainAt(g, k)' = ChainAt(g, k)
      BY <1>8, LengthType DEF Steady
    <3> QED BY <1>8, <2>1, <3>1 DEF Intact, Invalid
  <2>3. (Length(g) = 0 <=> start[g] = FREE)'
    BY <1>4, <1>8, <2>1 DEF Intact
  <2>4. start'[g] # FREE /\ ~contiguous'[g] => ChainAt(g, Length(g))' = END
    <3>1. (start[me] # FREE /\ ~contiguous[me] => ChainAt(me, Length(me)) = END)'
      BY <1>1, <1>4 DEF Safe, Freeing
    <3>2. Length(me)' = Length(g)'
      BY <1>2, <1>4 DEF Length
    <3>3. ChainAt(me, Length(me))' = ChainAt(g, Length(g))'
      <4> HIDE DEF Length
      <4> QED BY <1>2, <1>4, <3>2 DEF ChainAt
    <3> HIDE DEF Length
    <3> QED BY <1>2, <1>4, <3>1, <3>3
  <2>5. Length(g)' > 0 => Length(g)' # 0
    BY LengthTypeNext
  <2>6. /\ fptrIndex'[g] = 0 \/ fptrIndex'[g] < Length(g)'
        /\ start'[g] = FREE => fptrCluster'[g] = FREE
    BY <1>4, <1>8, <1>9, <2>1 DEF Intact
  <2> HIDE DEF Length
  <2> QED BY <2>2, <2>3, <2>4, <2>5, <2>6 DEF Intact, Invalid
<1>12. ASSUME NEW d \in bitmap' \ System
       PROVE  Used(d)'
  <2>1. Owned(d) \/ \E j \in 0 .. difference - 1 : Rest(j) = d
    BY <1>1, <1>4 DEF Whole, Used
  <2>2. CASE Owned(d)
    BY <1>8, <2>2, OwnedStays DEF Used
  <2>3. CASE \E j \in 0 .. difference - 1 : Rest(j) = d
    <3>1. PICK j \in 0 .. difference - 1 : Rest(j) = d
      BY <2>3
    <3>2. j # 0
      BY <1>4, <3>1, RestSteps
    <3>3. PICK k \in 0 .. n - 1 : 1 + k = j
      <4>1. j - 1 \in 0 .. n - 1 /\ 1 + (j - 1) = j
        BY <1>1, <1>6, <3>1, <3>2
      <4> QED BY <4>1
    <3>4. Rest(k)' = d /\ k \in 0 .. difference' - 1
      BY <1>4, <1>6, <1>7, <3>1, <3>3
    <3> QED BY <1>1, <1>4, <3>4 DEF Used
  <2> QED BY <2>1, <2>2, <2>3
<1>13. \A j \in 0 .. difference' - 1 : ~Invalid(Rest(j)')
  <2>1. \A j \in 0 .. n - 1 : 1 + j \in 0 .. difference - 1
    BY <1>6
  <2>2. \A j \in 0 .. n - 1 : ~Invalid(Rest(1 + j))
    BY <1>1, <2>1 DEF Whole
  <2>3. difference' = n
    BY <1>4, <1>6
  <2> QED BY <1>7, <2>2, <2>3 DEF Invalid
<1> HIDE DEF Length
<1> QED BY <1>1, <1>4, <1>10, <1>11, <1>12, <1>13 DEF Whole, Invalid

-----------------------------------------------------------------------------
(***************************************************************************)
(* The invariant.                                                          *)
(***************************************************************************)
LEMMA WholeInit == Init => Whole
<1> SUFFICES ASSUME Init PROVE Whole
  OBVIOUS
<1>1. TypeOK /\ Control
  BY InitType
<1>2. PICK layout \in Layouts : Mounted(layout)
  BY DEF Init, Mounted
<1>3. /\ pc = "idle" /\ fptrIndex = [f \in Files |-> 0] /\ fptrCluster = start
  BY DEF Init
<1>4. \A f \in Files : Length(f) = size[f] /\ size[f] \in Nat
  BY <1>1, <1>3, Constants DEF Length, TypeOK
<1>5. ASSUME NEW f \in Files
      PROVE  /\ layout[f].chain \in Seq(Clusters \ System)
             /\ Length(f) = Len(layout[f].chain)
             /\ start[f] = IF layout[f].chain = <<>> THEN FREE ELSE layout[f].chain[1]
             /\ \A k \in 0 .. Length(f) - 1 : ChainAt(f, k) = layout[f].chain[k + 1]
  <2>1. \A k \in 0 .. Length(f) - 1 : k \in Nat /\ k < size[f]
    BY <1>4
  <2> QED BY <1>1, <1>2, <1>4, <2>1, MountedChain, LayoutMeans DEF Mounted
<1>6. ASSUME NEW f \in Files
      PROVE  Intact(f)
  <2>1. PICK chain \in Seq(Clusters \ System) : chain = layout[f].chain
    BY <1>5
  <2>2. \A k \in 0 .. Length(f) - 1 : ~Invalid(ChainAt(f, k))
    <3>1. \A k \in 0 .. Length(f) - 1 : chain[k + 1] \in Clusters
      BY <1>5, <2>1
    <3> QED BY <1>5, <2>1, <3>1 DEF Invalid
  <2>3. Length(f) = 0 <=> start[f] = FREE
    <3>1. Length(f) = 0 <=> chain = <<>>
      BY <1>5, <2>1
    <3>2. chain # <<>> => chain[1] \in Clusters
      BY <2>1
    <3> QED BY <1>5, <2>1, <3>1, <3>2, Constants
  <2>4. Length(f) > 0 /\ ~contiguous[f] => ChainAt(f, Length(f)) = END
    BY <1>1, <1>2, <1>4, MountedChain
  <2> QED BY <1>3, <2>2, <2>3, <2>4 DEF Intact
<1>7. ASSUME NEW c \in bitmap \ System
      PROVE  Owned(c)
  <2>1. PICK f \in Files : c \in Elements(layout[f].chain)
    BY <1>2 DEF Mounted
  <2>2. PICK k \in DOMAIN layout[f].chain : layout[f].chain[k] = c
    BY <2>1 DEF Elements
  <2>3. k - 1 \in 0 .. Length(f) - 1 /\ (k - 1) + 1 = k
    BY <1>5
  <2>4. ChainAt(f, k - 1) = c
    BY <1>5, <2>2, <2>3
  <2> QED BY <2>3, <2>4 DEF Owned
<1> QED BY <1>3, <1>6, <1>7 DEF Whole, Used

\* Every step keeps the chains whole until a read or a write fails.
LEMMA WholeStep ==
    TypeOK /\ Safe /\ Whole /\ [Next]_vars => Whole'
<1> SUFFICES ASSUME TypeOK, Safe, Whole, [Next]_vars
             PROVE  Whole'
  OBVIOUS
<1>1. TypeOK' /\ Safe' /\ (Unharmed' => Steady)
  BY SafeStep
<1>2. CASE ~Unharmed' \/ failed'
  BY <1>2 DEF Whole
<1>3. ASSUME Unharmed', ~failed'
      PROVE  Whole'
  <2>1. Unharmed /\ ~failed /\ Steady
    BY <1>1, <1>3, HistoryGrows
  <2>2. ASSUME NEW f \in Files, NEW n \in 0 .. MaxSize, NEW e \in BOOLEAN, Call(f, n, e)
        PROVE  Whole'
    <3>1. CASE GrowMore(f, n, e)
      BY <1>1, <1>3, <2>1, <3>1, GrowMoreWhole
    <3>2. CASE GrowFirst(f, n, e)
      BY <1>1, <1>3, <2>1, <3>2, GrowFirstWhole
    <3>3. CASE Shrink(f, n, e)
      BY <1>1, <1>3, <2>1, <3>3, ShrinkWhole
    <3>4. CASE ShrinkBug(f, n)
      BY <1>3, <3>4, ShrinkBugNever
    <3> QED BY <2>2, <3>1, <3>2, <3>3, <3>4 DEF Call
  <2>3. CASE Step
    <3>1. CASE Advance \/ AdvanceDone
      BY <1>1, <2>1, <3>1, AdvanceWhole
    <3>2. CASE GrowFrom
      BY <1>1, <2>1, <3>2, GrowFromWhole
    <3>3. CASE AllocateNext
      BY <1>1, <2>1, <3>3, AllocateNextWhole
    <3>4. CASE NoSpace
      BY <1>1, <2>1, <3>4, NoSpaceWhole
    <3>5. CASE MakeNoncontiguous
      BY <1>1, <1>3, <2>1, <3>5, MakeNoncontiguousWhole
    <3>6. CASE MadeNoncontiguous
      BY <1>1, <2>1, <3>6, MadeNoncontiguousWhole
    <3>7. CASE LinkNext
      BY <1>1, <1>3, <2>1, <3>7, LinkNextWhole
    <3>8. CASE GrowEnd
      BY <1>1, <1>3, <2>1, <3>8, GrowEndWhole
    <3>9. CASE CropAt
      BY <1>1, <1>3, <2>1, <3>9, CropAtWhole
    <3>10. CASE FreeNext
      BY <1>1, <1>3, <2>1, <3>10, FreeNextWhole
    <3>11. CASE FreeInvalid
      BY <2>1, <3>11, FreeInvalidNever
    <3>12. CASE FreeDone
      BY <1>1, <2>1, <3>12, FreeDoneWhole
    <3>13. CASE EraseFirst
      BY <1>1, <1>3, <2>1, <3>13, EraseFirstWhole
    <3>14. CASE EraseNext
      BY <1>1, <1>3, <2>1, <3>14, EraseNextWhole
    <3>15. CASE EraseDone
      BY <1>1, <2>1, <3>15, EraseDoneWhole
    <3> QED BY <2>3, <3>1, <3>2, <3>3, <3>4, <3>5, <3>6, <3>7, <3>8, <3>9, <3>10, <3>11,
           <3>12, <3>13, <3>14, <3>15 DEF Step
  <2>4. CASE Flush
    BY <1>1, <2>1, <2>4, FlushWhole
  <2>5. CASE UNCHANGED vars
    <3>1. /\ UNCHANGED <<fat, bitmap, start, size, contiguous, fptrIndex, fptrCluster, pc, me,
                         goal, difference, allocated, previous, next, back, undo, failed,
                         descended, skewed, strayed>>
      BY <2>5 DEF vars, disk, nodes, fptr, args, locals, walk, hist
    <3> QED BY <3>1
            DEF Whole, Unharmed, Intact, Used, Owned, Length, Open, Growing, Undoing, Keeping,
                Erasing, At, Rest, ChainAt, Invalid
  <2> QED BY <2>2, <2>3, <2>4, <2>5 DEF Next
<1> QED BY <1>2, <1>3

\* As long as no read or write fails, every chain is whole and every cluster in use is
\* a file's, or on its way to or from one.
THEOREM WholeAlways == Spec => [](TypeOK /\ Safe /\ Whole)
BY InitType, SafeInit, WholeInit, SafeStep, WholeStep, PTL DEF Spec

-----------------------------------------------------------------------------
(***************************************************************************)
(* What follows.                                                           *)
(***************************************************************************)
\* exfat_bug: while reads and writes succeed no call aborts the program.
THEOREM NeverAborts == Spec => []NeverBug
<1>1. Whole => NeverBug
  BY DEF Whole, NeverBug
<1> QED BY <1>1, WholeAlways, PTL

\* exfat_advance_cluster: while reads and writes succeed, the cached position of a file is
\* in its chain and is the cluster that a walk from the start finds there.
THEOREM FptrAlwaysCoherent == Spec => []FptrCoherent
<1>1. TypeOK /\ Safe /\ Whole => FptrCoherent
  <2> SUFFICES ASSUME TypeOK, Safe, Whole, pc = "idle", Unharmed, ~failed, NEW f \in Files
               PROVE  /\ size[f] > 0 => fptrIndex[f] < size[f]
                      /\ fptrCluster[f] = ChainAt(f, fptrIndex[f])
    BY DEF FptrCoherent
  <2>1. Length(f) = size[f] /\ size[f] \in Nat /\ fptrIndex[f] \in Nat
    BY Constants DEF Length, TypeOK
  <2>2. Intact(f)
    BY DEF Whole
  <2>3. CASE size[f] > 0
    <3>1. fptrIndex[f] < Length(f)
      BY <2>1, <2>2, <2>3 DEF Intact
    <3>2. fptrCluster[f] = ChainAt(f, fptrIndex[f])
      BY <3>1, CachedMeans DEF Safe
    <3> QED BY <2>1, <3>1, <3>2
  <2>4. CASE ~(size[f] > 0)
    <3>1. start[f] = FREE
      BY <2>1, <2>2, <2>4 DEF Intact
    <3>2. fptrCluster[f] = FREE /\ fptrIndex[f] = 0
      BY <2>2, <3>1 DEF Intact, Safe, Control
    <3>3. ChainAt(f, 0) = FREE
      BY <3>1, ChainSteps
    <3> QED BY <2>4, <3>2, <3>3
  <2> QED BY <2>3, <2>4
<1> QED BY <1>1, WholeAlways, PTL

\* A chain visits as many clusters as it has positions.
LEMMA ChainCount ==
    ASSUME TypeOK, Safe, Whole, pc = "idle", Unharmed, ~failed, NEW f \in Files
    PROVE  Cardinality(Chain(f)) = size[f]
<1>1. Length(f) = size[f] /\ size[f] \in Nat
  BY Constants DEF Length, TypeOK
<1>2. \A k \in 0 .. size[f] - 1 : ~Invalid(ChainAt(f, k))
  BY <1>1 DEF Whole, Intact
<1> DEFINE at == [k \in 0 .. size[f] - 1 |-> ChainAt(f, k)]
<1>3. at \in [0 .. size[f] - 1 -> Chain(f)]
  BY <1>2 DEF Chain, Invalid
<1>4. \A j, k \in 0 .. size[f] - 1 : at[j] = at[k] => j = k
  BY <1>1, <1>2, ApartMeans DEF Safe
<1>5. \A c \in Chain(f) : \E k \in 0 .. size[f] - 1 : at[k] = c
  BY DEF Chain
<1>6. at \in Bijection(0 .. size[f] - 1, Chain(f))
  <2> HIDE DEF at
  <2> QED BY <1>3, <1>4, <1>5 DEF Bijection, Injection, Surjection, IsInjective
<1>7. IsFiniteSet(0 .. size[f] - 1) /\ Cardinality(0 .. size[f] - 1) = size[f]
  <2>1. PICK n \in Nat : n = size[f]
    BY <1>1
  <2>2. IsFiniteSet(0 .. n - 1) /\ Cardinality(0 .. n - 1) = n
    BY FS_Interval
  <2> QED BY <2>1, <2>2
<1>8. ExistsBijection(0 .. size[f] - 1, Chain(f))
  BY <1>6 DEF ExistsBijection
<1> QED BY <1>7, <1>8, FS_Bijection

\* exfat_truncate: while reads and writes succeed, each file has a chain of exactly its
\* size and the bitmap marks the clusters of the files and of the system and no other.
THEOREM NothingLeaks == Spec => []NoLeak
<1>1. TypeOK /\ Safe /\ Whole => NoLeak
  <2> SUFFICES ASSUME TypeOK, Safe, Whole, pc = "idle", Unharmed, ~failed
               PROVE  /\ \A f \in Files :
                            /\ \A k \in 0 .. size[f] - 1 : ~Invalid(ChainAt(f, k))
                            /\ Cardinality(Chain(f)) = size[f]
                            /\ size[f] > 0 /\ ~contiguous[f] => ChainAt(f, size[f]) = END
                            /\ size[f] = 0 => start[f] = FREE
                      /\ bitmap = System \cup UNION {Chain(f) : f \in Files}
    BY DEF NoLeak
  <2>1. \A f \in Files : Length(f) = size[f] /\ Intact(f)
    BY DEF Length, Whole
  <2>2. ~Open(me) /\ \A f \in Files : ~Open(f)
    BY DEF Open, Undoing, At
  <2>3. ASSUME NEW f \in Files
        PROVE  /\ \A k \in 0 .. size[f] - 1 : ~Invalid(ChainAt(f, k))
               /\ Cardinality(Chain(f)) = size[f]
               /\ size[f] > 0 /\ ~contiguous[f] => ChainAt(f, size[f]) = END
               /\ size[f] = 0 => start[f] = FREE
    <3>1. Cardinality(Chain(f)) = size[f]
      BY ChainCount
    <3> HIDE DEF Length
    <3> QED BY <2>1, <2>2, <3>1 DEF Intact
  <2>4. System \cup UNION {Chain(f) : f \in Files} \subseteq bitmap
    <3>1. System \subseteq bitmap
      BY DEF Safe, Apart
    <3>2. ASSUME NEW f \in Files, NEW c \in Chain(f)
          PROVE  c \in bitmap
      <4>1. PICK k \in 0 .. Length(f) - 1 : c = ChainAt(f, k) /\ c \in Clusters
        BY <2>1, <3>2 DEF Chain
      <4> QED BY <4>1, ApartMeans DEF Safe, Invalid
    <3> QED BY <3>1, <3>2
  <2>5. ASSUME NEW c \in bitmap \ System
        PROVE  c \in UNION {Chain(f) : f \in Files}
    <3>1. Owned(c)
      BY <2>5 DEF Whole, Used
    <3>2. PICK f \in Files : \E k \in 0 .. Length(f) - 1 : ChainAt(f, k) = c
      BY <3>1 DEF Owned
    <3>3. c \in Chain(f)
      BY <2>1, <2>5, <3>2 DEF Chain, TypeOK
    <3> QED BY <3>3
  <2> QED BY <2>3, <2>4, <2>5
<1> QED BY <1>1, WholeAlways, PTL
=============================================================================
