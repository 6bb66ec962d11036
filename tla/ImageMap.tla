----------------------------- MODULE ImageMap ------------------------------
(***************************************************************************)
(* What vtoydump promises of the image location table: each 2048-byte      *)
(* sector of the image is mapped to the 512-byte sector of the partition   *)
(* where it is stored.  The map is built cluster after cluster along the   *)
(* file's chain, with no runs, no table and no capacity.  A chain that     *)
(* breaks before the end of the file yields an error and no map.           *)
(* LsExfat is the code that builds the same map out of merged runs.        *)
(***************************************************************************)
EXTENDS ExfatLayout

CONSTANTS SectorsPerCluster, \* 512-byte sectors in a cluster
          HeapStart          \* first 512-byte sector of the cluster heap

VARIABLES fat,      \* the file allocation table of the volume
          node,     \* the file: start cluster, size in sectors, contiguous
          cluster,  \* the cluster of the chain that comes next
          left,     \* sectors of the file that are not mapped yet
          map,      \* set of pairs <<image sector, disk sector>>
          status    \* "building", then "ok" or "error"

mapVars == <<fat, node, cluster, left, map, status>>

DiskSector(c) == HeapStart + (c - FIRST_DATA_CLUSTER) * SectorsPerCluster

Covered == (node.size - left) \div ImageSector

Init ==
    /\ cluster = node.start
    /\ left = node.size
    /\ map = {}
    /\ status = "building"

MapCluster ==
    /\ status = "building"
    /\ left > 0
    /\ ~Invalid(cluster)
    /\ LET cur == MinOf(SectorsPerCluster, left) IN
         /\ map' = map \cup Pairs(Covered, DiskSector(cluster), cur)
         /\ left' = left - cur
    /\ cluster' \in {NextCluster(fat, node.contiguous, cluster), BAD}
    /\ UNCHANGED <<fat, node, status>>

Finish ==
    /\ status = "building"
    /\ left = 0
    /\ node.size > 0
    /\ status' = "ok"
    /\ UNCHANGED <<fat, node, cluster, left, map>>

Break ==
    /\ status = "building"
    /\ left > 0 \/ node.size = 0
    /\ Invalid(cluster)
    /\ status' = "error"
    /\ UNCHANGED <<fat, node, cluster, left, map>>

Next == MapCluster \/ Finish \/ Break

Spec == Init /\ [][Next]_mapVars
=============================================================================
