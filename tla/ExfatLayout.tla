---------------------------- MODULE ExfatLayout ----------------------------
(***************************************************************************)
(* The numbering of exFAT data clusters, as exfatfs.h and exfat.h define   *)
(* it.  Cluster numbers are 32-bit; they are read here as signed numbers,  *)
(* so that 0xffffffff (EXFAT_CLUSTER_END) is -1 and 0xfffffff7             *)
(* (EXFAT_CLUSTER_BAD) is -9, and END + 1 wraps to 0 as in the code.       *)
(***************************************************************************)
EXTENDS Integers

CONSTANT ClusterCount       \* sb->cluster_count

ASSUME ClusterCountAssumption == ClusterCount \in Nat \ {0}

FIRST_DATA_CLUSTER == 2
FREE == 0
BAD  == -9
END  == -1

LastCluster == FIRST_DATA_CLUSTER + ClusterCount - 1

Clusters == FIRST_DATA_CLUSTER .. LastCluster

\* What an entry of the file allocation table can hold.
FatEntry == Clusters \cup {FREE, BAD, END}

\* CLUSTER_INVALID(sb, c)
Invalid(c) == c \notin Clusters

\* Faulty variant of NextCluster: one cluster too far.
NextButOne(fat, contiguous, c) == IF contiguous THEN c + 2 ELSE fat[c]

\* exfat_next_cluster, when the read of the table succeeds.
NextCluster(fat, contiguous, c) == IF contiguous THEN c + 1 ELSE fat[c]

\* One step of a walk: an invalid cluster ends it.
Follow(fat, contiguous, c) ==
    IF Invalid(c) THEN c ELSE NextCluster(fat, contiguous, c)

\* The clusters that exfat_advance_cluster comes by from cluster first on, one
\* for each number of steps; once it has met an invalid one it stays there.
ChainFrom(fat, contiguous, first) ==
    LET at[k \in Nat] == IF k = 0 THEN first ELSE Follow(fat, contiguous, at[k - 1])
    IN  at

(***************************************************************************)
(* Image sectors are 2048 bytes, disk sectors 512.                         *)
(***************************************************************************)
ImageSector == 4

MinOf(a, b) == IF a <= b THEN a ELSE b

\* What len disk sectors at disk sector off say of the image, if they hold
\* its sectors from img on: pairs <<image sector, disk sector>>.
Pairs(img, off, len) ==
    {<<img + i, off + ImageSector * i>> : i \in 0 .. (len \div ImageSector) - 1}
=============================================================================
