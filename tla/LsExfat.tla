------------------------------ MODULE LsExfat ------------------------------
(***************************************************************************)
(* The image location table as lsexfat.c builds it: exfat_get_image_location*)
(* walks the cluster chain of the ISO, merges adjacent clusters into runs, *)
(* and exfat_add_disk_region files each finished run in a table that       *)
(* realloc_image_location doubles when it is full.                         *)
(*                                                                         *)
(* Offsets and sizes are counted in 512-byte sectors.  malloc may fail, a  *)
(* read of the file allocation table may fail, and the table itself is     *)
(* arbitrary: chains may end early, be cyclic or run off the volume.       *)
(***************************************************************************)
EXTENDS ExfatLayout, Sequences

CONSTANTS SectorsPerCluster,  \* 512-byte sectors in a cluster
          HeapStart,          \* first 512-byte sector of the cluster heap
          Sizes,              \* sizes of the ISO, in 512-byte sectors
          FirstCapacity,      \* regions in the first table (1024 in the code)
          MallocMayFail,      \* whether malloc can return NULL
          ReadMayFail         \* whether a read of the FAT can fail

ASSUME LsExfatAssumption ==
    /\ SectorsPerCluster \in Nat \ {0}
    /\ HeapStart \in Nat \ {0}
    /\ Sizes \subseteq Nat
    /\ FirstCapacity \in Nat \ {0}
    /\ MallocMayFail \in BOOLEAN
    /\ ReadMayFail \in BOOLEAN

VARIABLES fat,      \* the file allocation table on the volume
          node,     \* the exfat_node of the ISO
          pc,       \* "start", "walk", then "done" or "segv"
          cluster,  \* local of exfat_get_image_location
          left,     \* left_size
          run,      \* last_offset and last_size: the run being merged
          regions,  \* g_image_location->regions[0 .. region_count - 1]
          capacity, \* g_image_max_region, 0 while g_image_location is NULL
          rc,       \* what exfat_get_image_location returned
          lost      \* history: a run was dropped because malloc failed

vars == <<fat, node, pc, cluster, left, run, regions, capacity, rc, lost>>

\* exfat_c2o, in sectors.
c2o(c) == HeapStart + (c - FIRST_DATA_CLUSTER) * SectorsPerCluster

Run    == [offset : Nat, size : Nat]
NoRun  == [offset |-> 0, size |-> 0]
Region == [image : Nat, count : Nat, disk : Nat]

\* The nodes check_node lets through: an empty file starts nowhere and is
\* not contiguous, any other one starts at a cluster and fits in the heap.
Node == {n \in [start : Clusters \cup {FREE}, size : Sizes, contiguous : BOOLEAN] :
            /\ n.size = 0 => n.start = FREE /\ ~n.contiguous
            /\ n.size > 0 => ~Invalid(n.start)
            /\ n.size <= ClusterCount * SectorsPerCluster}

Init ==
    /\ fat \in [Clusters -> FatEntry]
    /\ node \in Node
    /\ pc = "start"
    /\ cluster = FREE
    /\ left = 0
    /\ run = NoRun
    /\ regions = <<>>
    /\ capacity = 0
    /\ rc = "none"
    /\ lost = FALSE

Return(result) ==
    /\ pc' = "done"
    /\ rc' = result

(***************************************************************************)
(* realloc_image_location(1024), whose result is ignored, and              *)
(* exfat_advance_cluster(ef, node, 0).                                     *)
(***************************************************************************)
Begin ==
    /\ pc = "start"
    /\ capacity' \in IF MallocMayFail THEN {0, FirstCapacity} ELSE {FirstCapacity}
    /\ cluster' = node.start
    /\ left' = node.size
    /\ IF Invalid(node.start) THEN Return("EIO") ELSE pc' = "walk" /\ rc' = rc
    /\ UNCHANGED <<fat, node, run, regions, lost>>

(***************************************************************************)
(* exfat_add_disk_region.  Its result is ignored by the caller, so a run   *)
(* that finds no memory for a larger table is dropped.                     *)
(***************************************************************************)
Last == regions[Len(regions)]

Joins(r) ==
    /\ regions # <<>>
    /\ Last.disk + Last.count * ImageSector = r.offset

\* Faulty variant of NewRegion: counts disk sectors for image sectors.
NewRegionInSectors(r) ==
    [image |-> IF regions = <<>> THEN 0 ELSE Last.image + Last.count * ImageSector,
     count |-> r.size \div ImageSector,
     disk  |-> r.offset]

NewRegion(r) ==
    [image |-> IF regions = <<>> THEN 0 ELSE Last.image + Last.count,
     count |-> r.size \div ImageSector,
     disk  |-> r.offset]

SkipRun(r) ==
    /\ r.size = 0
    /\ UNCHANGED <<regions, capacity, lost>>

JoinRegion(r) ==
    /\ r.size > 0
    /\ Joins(r)
    /\ regions' = [regions EXCEPT ![Len(regions)].count = @ + r.size \div ImageSector]
    /\ UNCHANGED <<capacity, lost>>

\* Faulty variant of AppendRegion: the table does not grow.
AppendUnchecked(r) ==
    /\ r.size > 0
    /\ ~Joins(r)
    /\ regions' = Append(regions, NewRegion(r))
    /\ UNCHANGED <<capacity, lost>>

AppendRegion(r) ==
    /\ r.size > 0
    /\ ~Joins(r)
    /\ regions' = Append(regions, NewRegion(r))
    /\ capacity' = IF Len(regions) = capacity THEN 2 * capacity ELSE capacity
    /\ UNCHANGED lost

DropRun(r) ==
    /\ MallocMayFail
    /\ r.size > 0
    /\ ~Joins(r)
    /\ Len(regions) = capacity
    /\ lost' = TRUE
    /\ UNCHANGED <<regions, capacity>>

AddRegion(r) ==
    \/ SkipRun(r)
    \/ capacity # 0 /\ (JoinRegion(r) \/ AppendRegion(r) \/ DropRun(r))

(***************************************************************************)
(* One iteration of the loop over left_size.                               *)
(***************************************************************************)
AtCluster == pc = "walk" /\ left > 0 /\ ~Invalid(cluster)

Adjacent == run.offset + run.size = c2o(cluster)

CurSize == MinOf(SectorsPerCluster, left)

\* Faulty variant of Advance: left_size is not counted down.
AdvanceUncounted ==
    /\ cluster' = NextCluster(fat, node.contiguous, cluster)
    /\ UNCHANGED <<fat, node, left, pc, rc>>

Advance ==
    /\ left' = left - CurSize
    /\ cluster' \in {NextCluster(fat, node.contiguous, cluster)}
                    \cup (IF ReadMayFail /\ ~node.contiguous THEN {BAD} ELSE {})
    /\ UNCHANGED <<fat, node, pc, rc>>

ExtendRun ==
    /\ AtCluster
    /\ Adjacent
    /\ run' = [run EXCEPT !.size = @ + CurSize]
    /\ Advance
    /\ UNCHANGED <<regions, capacity, lost>>

StartRun ==
    /\ AtCluster
    /\ ~Adjacent
    /\ AddRegion(run)
    /\ run' = [offset |-> c2o(cluster), size |-> CurSize]
    /\ Advance

\* Faulty variant of BadCluster: the cluster behind the end of the file is checked, too.
BadClusterAtEnd ==
    /\ pc = "walk"
    /\ Invalid(cluster)
    /\ Return("EIO")
    /\ UNCHANGED <<fat, node, cluster, left, run, regions, capacity, lost>>

\* Faulty variant of BadCluster: the loop goes on without having moved.
BadClusterRetried ==
    /\ pc = "walk"
    /\ left > 0
    /\ Invalid(cluster)
    /\ UNCHANGED vars

\* A broken chain: the table built so far is abandoned.
BadCluster ==
    /\ pc = "walk"
    /\ left > 0
    /\ Invalid(cluster)
    /\ Return("EIO")
    /\ UNCHANGED <<fat, node, cluster, left, run, regions, capacity, lost>>

LastRun ==
    /\ pc = "walk"
    /\ left = 0
    /\ AddRegion(run)
    /\ Return("ok")
    /\ UNCHANGED <<fat, node, cluster, left, run>>

\* exfat_add_disk_region reads g_image_location, which is NULL when the
\* first malloc failed.
NullTable ==
    /\ pc = "walk"
    /\ capacity = 0
    /\ run.size > 0
    /\ left = 0 \/ (AtCluster /\ ~Adjacent)
    /\ pc' = "segv"
    /\ UNCHANGED <<fat, node, cluster, left, run, regions, capacity, rc, lost>>

Next == Begin \/ ExtendRun \/ StartRun \/ BadCluster \/ LastRun \/ NullTable

\* exfat_get_image_location is a loop of a single thread: it keeps running.
Spec == Init /\ [][Next]_vars /\ WF_vars(Next)
-----------------------------------------------------------------------------
(***************************************************************************)
(* Properties.                                                             *)
(***************************************************************************)

\* Every variable of the walk keeps its type.
TypeOK ==
    /\ fat \in [Clusters -> FatEntry]
    /\ node \in Node
    /\ pc \in {"start", "walk", "done", "segv"}
    /\ cluster \in Clusters \cup {FREE, BAD, END, LastCluster + 1}
    /\ left \in Nat
    /\ run \in Run
    /\ regions \in Seq(Region)
    /\ capacity \in Nat
    /\ rc \in {"none", "ok", "EIO"}
    /\ lost \in BOOLEAN

\* regions[region_count] is written only inside the block realloc_image_location
\* allocated: the table doubles before it is overrun.
TableFits == Len(regions) <= capacity

\* The image sectors of the regions follow each other without gap or overlap,
\* from sector 0 on, whatever was merged, dropped or read from a broken chain.
RegionsTile ==
    \A i \in 1 .. Len(regions) :
        regions[i].image = IF i = 1 THEN 0
                           ELSE regions[i-1].image + regions[i-1].count

\* The map that the regions in the table stand for.
RegionPairs(g) == Pairs(g.image, g.disk, ImageSector * g.count)

TableMap == UNION {RegionPairs(regions[i]) : i \in 1 .. Len(regions)}

\* The clusters of the file in order, followed through the volume's own table.
Chain == ChainFrom(fat, node.contiguous, node.start)

\* Where image sector s really is.
SectorOf(s) ==
    c2o(Chain[(s * ImageSector) \div SectorsPerCluster])
        + ((s * ImageSector) % SectorsPerCluster)

\* The exact map of the first n image sectors.
ExactMap(n) == {<<s, SectorOf(s)>> : s \in 0 .. n - 1}

Succeeded == pc = "done" /\ rc = "ok" /\ ~lost

WholeSectors == SectorsPerCluster % ImageSector = 0

\* When exfat_get_image_location returns 0 and no allocation failed, the table
\* maps every sector of the ISO, and only those, to where the chain has it.
\* Clusters must be made of whole image sectors.
TableExact ==
    Succeeded /\ WholeSectors => TableMap = ExactMap(node.size \div ImageSector)

\* -EIO means a chain that ends before the file does (or an empty file):
\* without read errors a healthy file never fails.
ClustersIn(sectors) == (sectors + SectorsPerCluster - 1) \div SectorsPerCluster

ErrorIsHonest ==
    pc = "done" /\ ~ReadMayFail =>
        (rc = "EIO" <=> \/ node.size = 0
                        \/ \E i \in 0 .. ClustersIn(node.size) - 1 : Invalid(Chain[i]))

\* The walk is bounded by the size of the file, even on a cyclic chain.
Terminates == <>(pc \in {"done", "segv"})

(***************************************************************************)
(* The runs and regions build the map of ImageMap, one cluster per step.   *)
(***************************************************************************)
NextImage == IF regions = <<>> THEN 0 ELSE Last.image + Last.count

BuiltMap ==
    IF pc = "done" /\ rc = "ok" THEN TableMap
    ELSE TableMap \cup Pairs(NextImage, run.offset, run.size)

Map == INSTANCE ImageMap
         WITH map <- BuiltMap,
              cluster <- IF pc = "start" THEN node.start ELSE cluster,
              left <- IF pc = "start" THEN node.size ELSE left,
              status <- CASE rc = "ok"  -> "ok"
                          [] rc = "EIO" -> "error"
                          [] OTHER      -> "building"

\* lsexfat.c implements ImageMap whenever malloc succeeds and clusters are
\* made of whole image sectors.
ImplementsImageMap == Map!Spec

(***************************************************************************)
(* What ties the locals of the walk to the file and to the table.  It is   *)
(* inductive, and the proofs rest on it.                                   *)
(***************************************************************************)
\* Before the walk nothing is built, and only the walk's end gives a result.
Phases ==
    /\ pc = "start" => regions = <<>> /\ run = NoRun /\ rc = "none"
    /\ pc = "walk" => rc = "none" /\ node.size > 0
    /\ pc = "done" => rc \in {"ok", "EIO"}
    /\ ~MallocMayFail => ~lost /\ pc # "segv" /\ (pc = "walk" => capacity # 0)

Walked == node.size - left

Visited == ClustersIn(Walked)

\* The walk is at the cluster that follows those it has visited, unless the read
\* of the table that led to it failed; those it has visited are clusters.
Position ==
    pc = "walk" =>
        /\ left <= node.size
        /\ left > 0 => /\ Walked = Visited * SectorsPerCluster
                       /\ cluster = Chain[Visited] \/ (ReadMayFail /\ Invalid(cluster))
        /\ \A i \in 0 .. Visited - 1 : ~Invalid(Chain[i])

\* Every sector walked so far is in a region or in the run, and runs are cut at
\* image sectors.
Account ==
    pc = "walk" /\ ~lost /\ WholeSectors =>
        /\ ImageSector * NextImage + run.size + left = node.size
        /\ left > 0 => run.size % ImageSector = 0

\* Regions and run together map what has been walked, exactly.
MapSoFar ==
    pc = "walk" /\ ~lost /\ WholeSectors => BuiltMap = ExactMap(Walked \div ImageSector)

WalkInv == Phases /\ Position /\ Account /\ MapSoFar
=============================================================================
