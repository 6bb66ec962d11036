--------------------------- MODULE LsExfat_proofs ---------------------------
(***************************************************************************)
(* Proofs about lsexfat.c's image location table, for every volume, every  *)
(* file, every cluster size and every initial capacity.                    *)
(***************************************************************************)
EXTENDS LsExfat, ExfatLayout_proofs, TLAPS, SequenceTheorems

\* A region filed after the last one has the type of a region.
LEMMA NewRegionType ==
    ASSUME TypeOK, NEW r \in Run
    PROVE  /\ NewRegion(r) \in Region
           /\ Append(regions, NewRegion(r)) \in Seq(Region)
<1>1. regions = <<>> \/ Last \in Region
  BY ElementOfSeq, EmptySeq, LenProperties DEF TypeOK, Last
<1>2. NewRegion(r) \in Region
  BY <1>1 DEF NewRegion, Run, Region, ImageSector
<1>3. QED
  BY <1>2 DEF TypeOK

\* Filing a run keeps the types of the table.
LEMMA AddRegionType ==
    ASSUME TypeOK, NEW r \in Run, AddRegion(r)
    PROVE  /\ regions' \in Seq(Region)
           /\ capacity' \in Nat
           /\ lost' \in BOOLEAN
<1>1. CASE SkipRun(r)
  BY <1>1 DEF SkipRun, TypeOK
<1>2. CASE JoinRegion(r)
  <2>1. regions # <<>> /\ Len(regions) \in 1 .. Len(regions)
    BY <1>2, EmptySeq, LenProperties DEF JoinRegion, Joins, TypeOK
  <2>2. Last \in Region
    BY <2>1, ElementOfSeq DEF TypeOK, Last
  <2>3. [Last EXCEPT !.count = @ + r.size \div ImageSector] \in Region
    BY <2>2 DEF Region, Run, ImageSector
  <2>4. regions' = [regions EXCEPT ![Len(regions)] =
                      [Last EXCEPT !.count = @ + r.size \div ImageSector]]
    BY <1>2, <2>1 DEF JoinRegion, Last
  <2>5. QED
    BY <1>2, <2>1, <2>3, <2>4, ExceptSeq DEF TypeOK, JoinRegion
<1>3. CASE AppendRegion(r)
  BY <1>3, NewRegionType DEF AppendRegion, TypeOK
<1>4. CASE DropRun(r)
  BY <1>4 DEF DropRun, TypeOK
<1>5. QED
  BY <1>1, <1>2, <1>3, <1>4 DEF AddRegion

\* The step to the next cluster of the chain keeps the types of the walk.
LEMMA AdvanceType ==
    ASSUME TypeOK, AtCluster, Advance
    PROVE  /\ left' \in Nat
           /\ cluster' \in Clusters \cup {FREE, BAD, END, LastCluster + 1}
           /\ CurSize \in Nat
           /\ c2o(cluster) \in Nat
<1> USE ClusterCountAssumption, LsExfatAssumption
<1>1. cluster \in Clusters /\ cluster \in Int
  BY DEF AtCluster, Invalid, Clusters
<1>2. CurSize \in Nat /\ left - CurSize \in Nat
  BY DEF CurSize, MinOf, TypeOK
<1>3. NextCluster(fat, node.contiguous, cluster)
        \in Clusters \cup {FREE, BAD, END, LastCluster + 1}
  BY <1>1 DEF NextCluster, TypeOK, FatEntry, Clusters, LastCluster, FIRST_DATA_CLUSTER
<1>4. c2o(cluster) \in Nat
  <2>1. cluster - FIRST_DATA_CLUSTER \in Nat
    BY <1>1 DEF Clusters, FIRST_DATA_CLUSTER, LastCluster
  <2>2. (cluster - FIRST_DATA_CLUSTER) * SectorsPerCluster \in Nat
    BY <2>1
  <2>3. QED
    BY <2>2 DEF c2o
<1>5. QED
  BY <1>2, <1>3, <1>4 DEF Advance

\* The walk keeps the types of its variables, for any volume, file and failure.
THEOREM TypeCorrect == Spec => []TypeOK
<1> USE ClusterCountAssumption, LsExfatAssumption
<1>1. Init => TypeOK
  <2>1. <<>> \in Seq(Region)
    OBVIOUS
  <2>2. NoRun \in Run
    BY DEF NoRun, Run
  <2>3. Init => lost \in BOOLEAN
    BY Zenon DEF Init
  <2>4. QED
    BY <2>1, <2>2, <2>3 DEF Init, TypeOK
<1>2. TypeOK /\ [Next]_vars => TypeOK'
  <2> SUFFICES ASSUME TypeOK, [Next]_vars PROVE TypeOK'
    OBVIOUS
  <2>1. CASE Begin
    <3>1. node.start \in Clusters \cup {FREE} /\ node.size \in Nat
      BY DEF TypeOK, Node
    <3>2. capacity' \in Nat
      BY <2>1 DEF Begin
    <3>3. pc' \in {"walk", "done"} /\ rc' \in {"none", "ok", "EIO"}
      BY <2>1 DEF Begin, Return, TypeOK
    <3>4. QED
      BY <2>1, <3>1, <3>2, <3>3 DEF Begin, TypeOK
  <2>2. CASE ExtendRun
    <3>1. run' \in Run
      BY <2>2, AdvanceType DEF ExtendRun, TypeOK, Run
    <3>2. QED
      BY <2>2, <3>1, AdvanceType DEF ExtendRun, Advance, TypeOK
  <2>3. CASE StartRun
    <3>1. run' \in Run /\ run \in Run
      BY <2>3, AdvanceType DEF StartRun, TypeOK, Run
    <3>2. QED
      BY <2>3, <3>1, AdvanceType, AddRegionType DEF StartRun, Advance, TypeOK
  <2>4. CASE BadCluster
    BY <2>4 DEF BadCluster, Return, TypeOK
  <2>5. CASE LastRun
    <3>1. run \in Run
      BY DEF TypeOK
    <3>2. QED
      BY <2>5, <3>1, AddRegionType DEF LastRun, Return, TypeOK
  <2>6. CASE NullTable
    BY <2>6 DEF NullTable, TypeOK
  <2>7. CASE UNCHANGED vars
    BY <2>7 DEF vars, TypeOK
  <2>8. QED
    BY <2>1, <2>2, <2>3, <2>4, <2>5, <2>6, <2>7 DEF Next
<1>3. QED
  BY <1>1, <1>2, PTL DEF Spec
-----------------------------------------------------------------------------
(***************************************************************************)
(* The regions and the run being merged stand for the same pairs whatever  *)
(* is merged with what: the lemmas behind the refinement of ImageMap.      *)
(***************************************************************************)

\* A run of whole image sectors followed by another one reads as one run.
LEMMA PairsSplit ==
    ASSUME NEW img \in Nat, NEW off \in Nat, NEW m \in Nat, NEW n \in Nat,
           m % ImageSector = 0
    PROVE  Pairs(img, off, m + n)
             = Pairs(img, off, m) \cup Pairs(img + m \div ImageSector, off + m, n)
<1> DEFINE q == m \div ImageSector
           k == n \div ImageSector
<1>1. q \in Nat /\ k \in Nat /\ m = ImageSector * q
      /\ (m + n) \div ImageSector = q + k
  BY DEF ImageSector
<1> HIDE DEF q, k
<1>2. ASSUME NEW p, p \in Pairs(img, off, m + n)
      PROVE  p \in Pairs(img, off, m) \cup Pairs(img + q, off + m, n)
  <2>1. PICK i \in 0 .. (q + k) - 1 : p = <<img + i, off + ImageSector * i>>
    BY <1>1, <1>2 DEF Pairs
  <2>2. CASE i < q
    <3>1. i \in 0 .. (m \div ImageSector) - 1
      BY <1>1, <2>2 DEF q
    <3>2. QED
      BY <2>1, <3>1 DEF Pairs
  <2>3. CASE ~(i < q)
    <3>1. i - q \in 0 .. (n \div ImageSector) - 1
      BY <1>1, <2>1, <2>3 DEF k
    <3>2. img + i = (img + q) + (i - q)
          /\ off + ImageSector * i = (off + m) + ImageSector * (i - q)
      BY <1>1, <2>1 DEF ImageSector
    <3>3. p = <<(img + q) + (i - q), (off + m) + ImageSector * (i - q)>>
      BY <2>1, <3>2
    <3>4. QED
      BY <3>1, <3>3 DEF Pairs
  <2>4. QED
    BY <2>2, <2>3
<1>3. ASSUME NEW p, p \in Pairs(img, off, m)
      PROVE  p \in Pairs(img, off, m + n)
  <2>1. PICK i \in 0 .. q - 1 : p = <<img + i, off + ImageSector * i>>
    BY <1>3 DEF Pairs, q
  <2>2. i \in 0 .. ((m + n) \div ImageSector) - 1
    BY <1>1, <2>1
  <2>3. QED
    BY <2>1, <2>2 DEF Pairs
<1>4. ASSUME NEW p, p \in Pairs(img + q, off + m, n)
      PROVE  p \in Pairs(img, off, m + n)
  <2>1. PICK i \in 0 .. k - 1 : p = <<(img + q) + i, (off + m) + ImageSector * i>>
    BY <1>4 DEF Pairs, k
  <2>2. i + q \in 0 .. ((m + n) \div ImageSector) - 1
    BY <1>1, <2>1
  <2>3. (img + q) + i = img + (i + q)
        /\ (off + m) + ImageSector * i = off + ImageSector * (i + q)
    BY <1>1, <2>1 DEF ImageSector
  <2>4. p = <<img + (i + q), off + ImageSector * (i + q)>>
    BY <2>1, <2>3
  <2>5. QED
    BY <2>2, <2>4 DEF Pairs
<1>5. QED
  BY <1>2, <1>3, <1>4 DEF q

\* A region keeps only the whole image sectors of the run filed in it, which
\* are all that its pairs depend on.
LEMMA PairsWhole ==
    ASSUME NEW img \in Nat, NEW off \in Nat, NEW n \in Nat
    PROVE  Pairs(img, off, ImageSector * (n \div ImageSector)) = Pairs(img, off, n)
<1>1. (ImageSector * (n \div ImageSector)) \div ImageSector = n \div ImageSector
  BY DEF ImageSector
<1>2. QED
  BY <1>1 DEF Pairs

\* No sectors, no pairs.
LEMMA PairsNone ==
    ASSUME NEW img, NEW off
    PROVE  Pairs(img, off, 0) = {}
<1>1. 0 .. (0 \div ImageSector) - 1 = {}
  BY DEF ImageSector
<1>2. QED
  BY <1>1 DEF Pairs

\* Filing a run adds its pairs to the table's and nothing else, whether it
\* opens a region or joins the last one.
LEMMA AddRegionMap ==
    ASSUME TypeOK, NEW r \in Run, AddRegion(r), ~lost'
    PROVE  /\ TableMap' = TableMap \cup Pairs(NextImage, r.offset, r.size)
           /\ NextImage' = NextImage + r.size \div ImageSector
           /\ NextImage \in Nat
           /\ ~lost
<1> DEFINE n == Len(regions)
           k == r.size \div ImageSector
<1>0. ~DropRun(r) /\ ~lost
  BY DEF AddRegion, DropRun, SkipRun, JoinRegion, AppendRegion
<1>1. n \in Nat /\ k \in Nat /\ r.size \in Nat /\ r.offset \in Nat
  BY LenProperties DEF TypeOK, Run, ImageSector
<1>2. \A i \in 1 .. n : regions[i] \in Region
  BY ElementOfSeq DEF TypeOK
<1>3. regions # <<>> => n \in 1 .. n /\ Last = regions[n] /\ Last \in Region
  BY <1>1, <1>2, EmptySeq DEF TypeOK, Last
<1>4. NextImage \in Nat
  BY <1>3 DEF NextImage, Region
<1>5. CASE SkipRun(r)
  <2>1. Pairs(NextImage, r.offset, r.size) = {} /\ k = 0
    BY <1>5, PairsNone DEF SkipRun, ImageSector
  <2>2. regions' = regions
    BY <1>5 DEF SkipRun
  <2>3. TableMap' = TableMap /\ NextImage' = NextImage
    BY <2>2 DEF TableMap, NextImage, Last
  <2>4. QED
    BY <1>0, <1>4, <2>1, <2>3
<1>6. CASE JoinRegion(r)
  <2> DEFINE g == [Last EXCEPT !.count = @ + k]
  <2>1. regions # <<>> /\ regions' = [regions EXCEPT ![n] = g]
    BY <1>3, <1>6 DEF JoinRegion, Joins
  <2>2. /\ g.image = Last.image /\ g.disk = Last.disk
        /\ g.count = Last.count + k /\ g \in Region
    <3>1. \A x \in Region :
            /\ [x EXCEPT !.count = @ + k].image = x.image
            /\ [x EXCEPT !.count = @ + k].disk = x.disk
            /\ [x EXCEPT !.count = @ + k].count = x.count + k
            /\ [x EXCEPT !.count = @ + k] \in Region
      BY <1>1 DEF Region
    <3>2. QED
      BY <1>3, <2>1, <3>1
  <2>3. /\ Len(regions') = n /\ regions' # <<>> /\ regions'[n] = g
        /\ \A i \in 1 .. n : regions'[i] = IF i = n THEN g ELSE regions[i]
    BY <1>3, <2>1, <2>2, ExceptSeq, EmptySeq DEF TypeOK
  <2>4. RegionPairs(g) = RegionPairs(Last) \cup Pairs(NextImage, r.offset, r.size)
    <3> DEFINE m == ImageSector * Last.count
    <3>1. Last.image \in Nat /\ Last.disk \in Nat /\ Last.count \in Nat
      BY <1>3, <2>1 DEF Region
    <3>2. m \in Nat /\ m % ImageSector = 0 /\ m \div ImageSector = Last.count
      BY <3>1 DEF ImageSector
    <3>3. ImageSector * k \in Nat /\ ImageSector * g.count = m + ImageSector * k
      BY <1>1, <2>2, <3>1 DEF ImageSector
    <3>4. Last.disk + m = r.offset
      BY <1>6, <3>1 DEF JoinRegion, Joins, ImageSector
    <3>5. Pairs(Last.image, Last.disk, m + ImageSector * k)
            = Pairs(Last.image, Last.disk, m)
                \cup Pairs(Last.image + Last.count, r.offset, ImageSector * k)
      BY <3>1, <3>2, <3>3, <3>4, PairsSplit
    <3>6. Pairs(NextImage, r.offset, ImageSector * k)
            = Pairs(NextImage, r.offset, r.size)
      BY <1>1, <1>4, PairsWhole
    <3>7. NextImage = Last.image + Last.count
      BY <2>1 DEF NextImage
    <3>8. QED
      BY <2>2, <3>3, <3>5, <3>6, <3>7 DEF RegionPairs
  <2>5. TableMap' = UNION {RegionPairs(regions'[i]) : i \in 1 .. n}
    BY <2>3 DEF TableMap, RegionPairs, Pairs
  <2>6. ASSUME NEW p
        PROVE  p \in TableMap' <=>
                 p \in TableMap \cup Pairs(NextImage, r.offset, r.size)
    <3>1. p \in TableMap' <=> \E i \in 1 .. n : p \in RegionPairs(regions'[i])
      BY <2>5
    <3>2. p \in TableMap <=> \E i \in 1 .. n : p \in RegionPairs(regions[i])
      BY DEF TableMap
    <3>3. QED
      BY <1>3, <2>1, <2>3, <2>4, <3>1, <3>2
  <2>7. NextImage' = NextImage + k
    <3>1. NextImage' = g.image + g.count
      BY <2>3 DEF NextImage, Last
    <3>2. QED
      BY <1>1, <1>3, <2>1, <2>2, <3>1 DEF NextImage, Region
  <2>8. QED
    BY <1>0, <1>4, <2>6, <2>7
<1>7. CASE AppendRegion(r)
  <2> DEFINE g == NewRegion(r)
  <2>1. regions' = Append(regions, g) /\ g \in Region
    BY <1>7, NewRegionType DEF AppendRegion
  <2>2. /\ Len(regions') = n + 1 /\ regions' # <<>> /\ regions'[n + 1] = g
        /\ \A i \in 1 .. n : regions'[i] = regions[i]
    <3>1. Append(regions, g) \in Seq(Region) /\ Len(Append(regions, g)) = n + 1
      BY <2>1, AppendProperties DEF TypeOK
    <3>2. \A i \in 1 .. n + 1 :
            Append(regions, g)[i] = IF i <= n THEN regions[i] ELSE g
      BY <2>1, AppendProperties DEF TypeOK
    <3>3. n + 1 \in 1 .. n + 1 /\ ~(n + 1 <= n)
      BY <1>1
    <3>4. Append(regions, g) # <<>>
      BY <1>1, <3>1, EmptySeq
    <3>5. QED
      BY <1>1, <2>1, <3>1, <3>2, <3>3, <3>4
  <2>3. /\ g.image = NextImage /\ g.disk = r.offset /\ g.count = k
    BY DEF NewRegion, NextImage
  <2>4. RegionPairs(g) = Pairs(NextImage, r.offset, r.size)
    BY <1>1, <1>4, <2>3, PairsWhole DEF RegionPairs
  <2>5. TableMap' = UNION {RegionPairs(regions'[i]) : i \in 1 .. n + 1}
    BY <2>2 DEF TableMap, RegionPairs, Pairs
  <2>6. ASSUME NEW p
        PROVE  p \in TableMap' <=>
                 p \in TableMap \cup Pairs(NextImage, r.offset, r.size)
    <3>1. p \in TableMap' <=> \E i \in 1 .. n + 1 : p \in RegionPairs(regions'[i])
      BY <2>5
    <3>2. p \in TableMap <=> \E i \in 1 .. n : p \in RegionPairs(regions[i])
      BY DEF TableMap
    <3>3. \A i : i \in 1 .. n + 1 <=> i \in 1 .. n \/ i = n + 1
      BY <1>1
    <3>4. QED
      BY <2>2, <2>4, <3>1, <3>2, <3>3
  <2>7. NextImage' = NextImage + k
    <3>1. NextImage' = g.image + g.count
      BY <2>2 DEF NextImage, Last
    <3>2. QED
      BY <2>3, <3>1
  <2>8. QED
    BY <1>0, <1>4, <2>6, <2>7
<1>8. QED
  BY <1>5, <1>6, <1>7, <1>0 DEF AddRegion
-----------------------------------------------------------------------------
(***************************************************************************)
(* The walk.  Each step visits the next cluster of the chain, maps what    *)
(* that cluster holds of the image, and nothing else.                      *)
(***************************************************************************)
\* Division with remainder finds the only quotient there is.
LEMMA DivUnique ==
    ASSUME NEW d \in Nat \ {0}, NEW q \in Nat, NEW r \in 0 .. d - 1
    PROVE  (q * d + r) \div d = q /\ (q * d + r) % d = r
<1> DEFINE n == q * d + r
           p == n \div d
           s == n % d
<1>1. q * d \in Nat /\ n \in Nat
  OBVIOUS
<1>2. p \in Nat /\ s \in 0 .. d - 1 /\ n = p * d + s
  <2> HIDE DEF n
  <2> QED BY <1>1
<1>3. (q - p) * d = s - r
  <2>1. (q - p) * d = q * d - p * d
    BY <1>2
  <2> HIDE DEF p, s
  <2> QED BY <1>1, <1>2, <2>1
<1>4. q - p = 0
  <2> DEFINE x == q - p
  <2>1. x \in Int
    BY <1>2
  <2>2. x * d < d /\ -d < x * d
    <3> HIDE DEF p, s
    <3> QED BY <1>2, <1>3
  <2> HIDE DEF x
  <2>3. ~(x >= 1)
    <3> SUFFICES ASSUME x >= 1 PROVE FALSE
      OBVIOUS
    <3>1. x - 1 \in Nat
      BY <2>1
    <3>2. (x - 1) * d \in Nat
      BY <3>1
    <3>3. (x - 1) * d = x * d - d
      BY <2>1
    <3> QED BY <2>1, <2>2, <3>2, <3>3
  <2>4. ~(x <= -1)
    <3> SUFFICES ASSUME x <= -1 PROVE FALSE
      OBVIOUS
    <3>1. -x - 1 \in Nat
      BY <2>1
    <3>2. (-x - 1) * d \in Nat
      BY <3>1
    <3>3. (-x - 1) * d = -(x * d) - d
      BY <2>1
    <3> QED BY <2>1, <2>2, <3>2, <3>3
  <2>5. x = 0
    BY <2>1, <2>3, <2>4
  <2> QED BY <2>5 DEF x
<1>5. p = q
  <2> HIDE DEF p
  <2> QED BY <1>2, <1>4
<1>6. s = r
  <2> HIDE DEF p, s
  <2> QED BY <1>1, <1>2, <1>5
<1> QED BY <1>5, <1>6

\* The clusters a number of sectors needs.
LEMMA ClustersInWhole ==
    ASSUME NEW q \in Nat, NEW r \in 1 .. SectorsPerCluster
    PROVE  ClustersIn(q * SectorsPerCluster + r) = q + 1
<1>1. SectorsPerCluster \in Nat \ {0} /\ r - 1 \in 0 .. SectorsPerCluster - 1
  BY LsExfatAssumption
<1>2. (q * SectorsPerCluster + r) + SectorsPerCluster - 1
        = (q + 1) * SectorsPerCluster + (r - 1)
  <2>1. (q + 1) * SectorsPerCluster = q * SectorsPerCluster + SectorsPerCluster
    BY <1>1
  <2>2. q * SectorsPerCluster \in Nat
    BY <1>1
  <2> QED BY <1>1, <2>1, <2>2
<1>3. ((q + 1) * SectorsPerCluster + (r - 1)) \div SectorsPerCluster = q + 1
  BY <1>1, DivUnique
<1> QED BY <1>2, <1>3 DEF ClustersIn

\* Those clusters hold the sectors.
LEMMA ClustersInCovers ==
    ASSUME NEW n \in Nat
    PROVE  ClustersIn(n) \in Nat /\ n <= ClustersIn(n) * SectorsPerCluster
<1> DEFINE d == SectorsPerCluster
           m == n + d - 1
           q == m \div d
           r == m % d
<1>1. d \in Nat \ {0} /\ m \in Nat
  BY LsExfatAssumption
<1>2. q \in Nat /\ r \in 0 .. d - 1 /\ m = q * d + r
  <2> HIDE DEF m, d
  <2> QED BY <1>1
<1>3. q * d \in Nat
  <2> HIDE DEF q, d
  <2> QED BY <1>1, <1>2
<1>4. n <= q * d
  <2>1. m = n + d - 1
    OBVIOUS
  <2> HIDE DEF q, r, d, m
  <2> QED BY <1>1, <1>2, <1>3, <2>1
<1> QED BY <1>2, <1>4 DEF ClustersIn

\* The chain of the file obeys the laws of chains.
LEMMA FileChain ==
    ASSUME TypeOK
    PROVE  /\ Chain[0] = node.start
           /\ \A k \in Nat : Chain[k] \in Int
           /\ \A k \in Nat : Chain[k + 1] = Follow(fat, node.contiguous, Chain[k])
<1>1. fat \in Table /\ node.contiguous \in BOOLEAN /\ node.start \in Int
  BY ClusterCountAssumption DEF TypeOK, Table, Node, Clusters, FREE, FIRST_DATA_CLUSTER,
     LastCluster
<1>2. Chain \in [Nat -> Int] /\ Chain[0] = node.start
  BY <1>1, ChainLaw DEF Chain
<1>3. \A k \in Nat : Chain[k + 1] = Follow(fat, node.contiguous, Chain[k])
  BY <1>1, ChainLaw DEF Chain
<1> QED BY <1>2, <1>3

\* A step of the walk visits the cluster it is at and goes to the next one.
LEMMA WalkOn ==
    ASSUME TypeOK, Phases, Position, AtCluster, Advance
    PROVE  /\ Walked \in Nat /\ Visited \in Nat /\ CurSize \in 1 .. SectorsPerCluster
           /\ Walked = Visited * SectorsPerCluster
           /\ cluster = Chain[Visited]
           /\ Walked' = Walked + CurSize /\ Visited' = Visited + 1
           /\ Chain' = Chain
           /\ left' > 0 => CurSize = SectorsPerCluster
           /\ Position'
<1> USE ClusterCountAssumption, LsExfatAssumption
<1>1. /\ pc = "walk" /\ left \in Nat /\ left > 0 /\ left <= node.size /\ node.size \in Nat
      /\ node' = node /\ fat' = fat /\ pc' = pc /\ left' = left - CurSize
      /\ ~Invalid(cluster)
  BY DEF AtCluster, Advance, TypeOK, Node, Position
<1>2. Walked \in Nat /\ Walked = Visited * SectorsPerCluster
  BY <1>1 DEF Walked, Position
<1>3. Visited \in Nat
  <2>1. Walked + SectorsPerCluster - 1 \in Nat
    BY <1>2
  <2> QED BY <2>1 DEF Visited, ClustersIn
<1>4. CurSize \in 1 .. SectorsPerCluster /\ CurSize <= left
      /\ (left - CurSize > 0 => CurSize = SectorsPerCluster)
  BY <1>1 DEF CurSize, MinOf
<1>5. cluster = Chain[Visited]
  BY <1>1 DEF Position
<1>6. Walked' = Walked + CurSize
  BY <1>1, <1>2, <1>4 DEF Walked
<1>7. Visited' = Visited + 1
  BY <1>2, <1>3, <1>4, <1>6, ClustersInWhole DEF Visited, ClustersIn
<1>8. Chain' = Chain
  BY <1>1 DEF Chain
<1>9. left' > 0 => Walked' = Visited' * SectorsPerCluster
  <2>1. (Visited + 1) * SectorsPerCluster = Visited * SectorsPerCluster + SectorsPerCluster
    BY <1>3
  <2> QED BY <1>1, <1>2, <1>4, <1>6, <1>7, <2>1
<1>10. cluster' = Chain'[Visited'] \/ (ReadMayFail /\ Invalid(cluster'))
  <2>1. Chain[Visited + 1] = NextCluster(fat, node.contiguous, cluster)
    BY <1>1, <1>3, <1>5, FileChain DEF Follow
  <2>2. cluster' = NextCluster(fat, node.contiguous, cluster)
        \/ (ReadMayFail /\ cluster' = BAD)
    BY DEF Advance
  <2>3. Invalid(BAD)
    BY DEF Invalid, Clusters, BAD, FIRST_DATA_CLUSTER, LastCluster
  <2> QED BY <1>7, <1>8, <2>1, <2>2, <2>3
<1>11. \A i \in 0 .. Visited' - 1 : ~Invalid(Chain'[i])
  <2> SUFFICES ASSUME NEW i \in 0 .. (Visited + 1) - 1 PROVE ~Invalid(Chain[i])
    BY <1>7, <1>8
  <2>1. CASE i = Visited
    BY <1>1, <1>5, <2>1
  <2>2. CASE i # Visited
    <3>1. i \in 0 .. Visited - 1
      BY <1>3, <2>2
    <3> QED BY <1>1, <3>1 DEF Position
  <2> QED BY <2>1, <2>2
<1>12. left' <= node'.size
  BY <1>1, <1>4
<1>13. Position'
  BY <1>9, <1>10, <1>11, <1>12 DEF Position
<1> QED BY <1>1, <1>2, <1>3, <1>4, <1>5, <1>6, <1>7, <1>8, <1>13

\* What the cluster at hand holds of the image is what the exact map has next.
LEMMA ExactMapGrows ==
    ASSUME TypeOK, Phases, Position, AtCluster, Advance, WholeSectors
    PROVE  ExactMap((Walked + CurSize) \div ImageSector)
             = ExactMap(Walked \div ImageSector)
                 \cup Pairs(Walked \div ImageSector, c2o(cluster), CurSize)
<1> DEFINE w == Walked \div ImageSector
           k == CurSize \div ImageSector
<1>1. /\ Walked \in Nat /\ Visited \in Nat /\ CurSize \in 1 .. SectorsPerCluster
      /\ Walked = Visited * SectorsPerCluster /\ cluster = Chain[Visited]
      /\ SectorsPerCluster \in Nat \ {0}
  BY WalkOn, LsExfatAssumption
<1>2. Walked % ImageSector = 0
  <2>1. PICK a \in Nat : SectorsPerCluster = ImageSector * a
    <3>1. SectorsPerCluster = ImageSector * (SectorsPerCluster \div ImageSector)
          /\ SectorsPerCluster \div ImageSector \in Nat
      BY <1>1 DEF WholeSectors, ImageSector
    <3> QED BY <3>1
  <2>2. Walked = ImageSector * (Visited * a) /\ Visited * a \in Nat
    BY <1>1, <2>1 DEF ImageSector
  <2> HIDE <1>1
  <2> QED BY <2>2 DEF ImageSector
<1>3. /\ w \in Nat /\ k \in Nat /\ Walked = ImageSector * w
      /\ (Walked + CurSize) \div ImageSector = w + k
      /\ ImageSector * k <= CurSize
  BY <1>1, <1>2 DEF ImageSector
<1>4. ASSUME NEW i \in 0 .. k - 1
      PROVE  SectorOf(w + i) = c2o(cluster) + ImageSector * i
  <2>1. ImageSector * i \in 0 .. SectorsPerCluster - 1
    BY <1>1, <1>3 DEF ImageSector
  <2>2. (w + i) * ImageSector = Visited * SectorsPerCluster + ImageSector * i
    BY <1>1, <1>3 DEF ImageSector
  <2>3. /\ (Visited * SectorsPerCluster + ImageSector * i) \div SectorsPerCluster = Visited
        /\ (Visited * SectorsPerCluster + ImageSector * i) % SectorsPerCluster
             = ImageSector * i
    BY <1>1, <2>1, DivUnique
  <2> QED BY <1>1, <2>2, <2>3 DEF SectorOf
<1> HIDE DEF w, k
<1>5. ASSUME NEW p, p \in ExactMap(w + k)
      PROVE  p \in ExactMap(w) \cup Pairs(w, c2o(cluster), CurSize)
  <2>1. PICK s \in 0 .. (w + k) - 1 : p = <<s, SectorOf(s)>>
    BY <1>5 DEF ExactMap
  <2>2. CASE s < w
    <3>1. s \in 0 .. w - 1
      BY <1>3, <2>2
    <3> QED BY <2>1, <3>1 DEF ExactMap
  <2>3. CASE ~(s < w)
    <3>1. s - w \in 0 .. k - 1 /\ w + (s - w) = s
      BY <1>3, <2>3
    <3>2. p = <<w + (s - w), c2o(cluster) + ImageSector * (s - w)>>
      BY <1>4, <2>1, <3>1
    <3> QED BY <3>1, <3>2 DEF Pairs, k
  <2> QED BY <2>2, <2>3
<1>6. ASSUME NEW p, p \in ExactMap(w) PROVE p \in ExactMap(w + k)
  <2>1. PICK s \in 0 .. w - 1 : p = <<s, SectorOf(s)>>
    BY <1>6 DEF ExactMap
  <2>2. s \in 0 .. (w + k) - 1
    BY <1>3
  <2> QED BY <2>1, <2>2 DEF ExactMap
<1>7. ASSUME NEW p, p \in Pairs(w, c2o(cluster), CurSize) PROVE p \in ExactMap(w + k)
  <2>1. PICK i \in 0 .. k - 1 : p = <<w + i, c2o(cluster) + ImageSector * i>>
    BY <1>7 DEF Pairs, k
  <2>2. w + i \in 0 .. (w + k) - 1 /\ p = <<w + i, SectorOf(w + i)>>
    BY <1>3, <1>4, <2>1
  <2> QED BY <2>2 DEF ExactMap
<1>8. ExactMap(w + k) = ExactMap(w) \cup Pairs(w, c2o(cluster), CurSize)
  BY <1>5, <1>6, <1>7
<1> QED BY <1>3, <1>8 DEF w

\* A cluster that is not the last one is made of whole image sectors.
LEMMA CurSizeWhole ==
    ASSUME WholeSectors, TypeOK, AtCluster, left - CurSize > 0
    PROVE  CurSize = SectorsPerCluster /\ CurSize % ImageSector = 0
BY LsExfatAssumption DEF WholeSectors, TypeOK, CurSize, MinOf, ImageSector

\* A loop iteration, whether it extends the run or files it and starts another,
\* keeps the account and maps what its cluster holds.
LEMMA ClusterMaps ==
    ASSUME TypeOK, Phases, Position, Account, ExtendRun \/ StartRun, ~lost', WholeSectors
    PROVE  /\ ~lost
           /\ ImageSector * NextImage' + run'.size + left' = node.size
           /\ left' > 0 => run'.size % ImageSector = 0
           /\ BuiltMap' = BuiltMap \cup Pairs(Walked \div ImageSector, c2o(cluster), CurSize)
<1> USE ClusterCountAssumption, LsExfatAssumption
<1>1. AtCluster /\ Advance
  BY DEF ExtendRun, StartRun
<1>2. CurSize \in Nat /\ left \in Nat /\ run \in Run /\ run.size \in Nat
      /\ run.offset \in Nat /\ node.size \in Nat /\ c2o(cluster) \in Nat
  BY <1>1, AdvanceType DEF TypeOK, Run, Node
<1>3. /\ pc = "walk" /\ left > 0 /\ rc = "none" /\ pc' = "walk" /\ rc' = "none"
      /\ left' = left - CurSize
  BY <1>1 DEF Advance, AtCluster, Phases
<1>4. left' > 0 => CurSize % ImageSector = 0
  BY <1>1, <1>3, CurSizeWhole
<1>5. CASE ExtendRun
  <2>1. run' = [run EXCEPT !.size = @ + CurSize] /\ regions' = regions
        /\ run.offset + run.size = c2o(cluster) /\ ~lost
    BY <1>5 DEF ExtendRun, Adjacent
  <2>2. TableMap' = TableMap /\ NextImage' = NextImage
    BY <2>1 DEF TableMap, NextImage, Last
  <2>3. NextImage \in Nat
    <3>1. regions = <<>> \/ Last \in Region
      BY ElementOfSeq, EmptySeq, LenProperties DEF TypeOK, Last
    <3>2. QED
      BY <3>1 DEF NextImage, Region
  <2>4. run'.offset = run.offset /\ run'.size = run.size + CurSize
    BY <1>2, <2>1 DEF Run
  <2>5. ImageSector * NextImage + run.size + left = node.size
        /\ run.size % ImageSector = 0
    BY <1>3, <2>1 DEF Account
  <2>6. Pairs(NextImage, run.offset, run.size + CurSize)
          = Pairs(NextImage, run.offset, run.size)
              \cup Pairs(NextImage + run.size \div ImageSector, c2o(cluster), CurSize)
    BY <1>2, <2>1, <2>3, <2>5, PairsSplit
  <2>7. NextImage + run.size \div ImageSector = Walked \div ImageSector
    BY <1>2, <2>3, <2>5 DEF Walked, ImageSector
  <2>8. BuiltMap' = BuiltMap \cup Pairs(Walked \div ImageSector, c2o(cluster), CurSize)
    BY <1>3, <2>2, <2>4, <2>6, <2>7 DEF BuiltMap
  <2>9. ImageSector * NextImage' + run'.size + left' = node.size
    BY <1>2, <1>3, <2>2, <2>3, <2>4, <2>5 DEF ImageSector
  <2>10. left' > 0 => run'.size % ImageSector = 0
    BY <1>2, <1>4, <2>4, <2>5 DEF ImageSector
  <2> QED BY <2>1, <2>8, <2>9, <2>10
<1>6. CASE StartRun
  <2>1. run' = [offset |-> c2o(cluster), size |-> CurSize]
    BY <1>6 DEF StartRun
  <2>2. /\ TableMap' = TableMap \cup Pairs(NextImage, run.offset, run.size)
        /\ NextImage' = NextImage + run.size \div ImageSector
        /\ NextImage \in Nat /\ ~lost
    BY <1>2, <1>6, AddRegionMap DEF StartRun
  <2>3. ImageSector * NextImage + run.size + left = node.size
        /\ run.size % ImageSector = 0
    BY <1>3, <2>2 DEF Account
  <2>4. NextImage' = Walked \div ImageSector
    BY <1>2, <2>2, <2>3 DEF Walked, ImageSector
  <2>5. BuiltMap' = TableMap' \cup Pairs(NextImage', c2o(cluster), CurSize)
    BY <1>3, <2>1 DEF BuiltMap
  <2>6. BuiltMap = TableMap \cup Pairs(NextImage, run.offset, run.size)
    BY <1>3 DEF BuiltMap
  <2>7. BuiltMap' = BuiltMap \cup Pairs(Walked \div ImageSector, c2o(cluster), CurSize)
    BY <2>2, <2>4, <2>5, <2>6
  <2>8. ImageSector * NextImage' + run'.size + left' = node.size
    BY <1>2, <1>3, <2>1, <2>2, <2>3 DEF ImageSector
  <2>9. left' > 0 => run'.size % ImageSector = 0
    BY <1>4, <2>1
  <2> QED BY <2>2, <2>7, <2>8, <2>9
<1>7. QED
  BY <1>5, <1>6

\* Filing the last run changes nothing of the map.
LEMMA LastRunMaps ==
    ASSUME TypeOK, Phases, LastRun, ~lost'
    PROVE  ~lost /\ BuiltMap' = BuiltMap /\ BuiltMap' = TableMap'
<1>1. run \in Run /\ pc = "walk" /\ pc' = "done" /\ rc' = "ok" /\ rc = "none"
  BY DEF LastRun, Return, TypeOK, Phases
<1>2. ~lost /\ TableMap' = TableMap \cup Pairs(NextImage, run.offset, run.size)
  BY <1>1, AddRegionMap DEF LastRun
<1>3. QED
  BY <1>1, <1>2 DEF BuiltMap

\* The walk stays in step with the chain, the account is kept, and the map is exact
\* as far as the walk has come: whatever the table holds, and whatever fails.
THEOREM WalkInvariant == Spec => []WalkInv
<1> USE ClusterCountAssumption, LsExfatAssumption
<1>1. Init => WalkInv
  BY DEF Init, WalkInv, Phases, Position, Account, MapSoFar
<1>2. TypeOK /\ TypeOK' /\ WalkInv /\ [Next]_vars => WalkInv'
  <2> SUFFICES ASSUME TypeOK, TypeOK', WalkInv, [Next]_vars PROVE WalkInv'
    OBVIOUS
  <2> USE DEF WalkInv
  <2>1. CASE Begin
    <3>1. /\ node' = node /\ fat' = fat /\ regions' = <<>> /\ run' = NoRun
          /\ lost' = lost /\ cluster' = node.start /\ left' = node.size
          /\ node.size \in Nat /\ pc = "start" /\ rc = "none"
      BY <2>1 DEF Begin, Phases, TypeOK, Node
    <3>2. CASE Invalid(node.start)
      <4>1. pc' = "done" /\ rc' = "EIO"
        BY <2>1, <3>2 DEF Begin, Return
      <4>2. Phases'
        BY <3>1, <4>1 DEF Phases
      <4> QED BY <4>1, <4>2 DEF Position, Account, MapSoFar
    <3>3. CASE ~Invalid(node.start)
      <4>1. pc' = "walk" /\ rc' = "none" /\ (~MallocMayFail => capacity' # 0)
        BY <2>1, <3>1, <3>3 DEF Begin
      <4>2. node.size > 0
        <5>1. node.size = 0 => node.start = FREE
          BY DEF TypeOK, Node
        <5>2. Invalid(FREE)
          BY DEF Invalid, Clusters, FREE, FIRST_DATA_CLUSTER, LastCluster
        <5> QED BY <3>1, <3>3, <5>1, <5>2
      <4>3. Phases'
        BY <3>1, <4>1, <4>2 DEF Phases
      <4>4. Walked' = 0 /\ Visited' = 0
        <5>1. Walked' = 0
          BY <3>1 DEF Walked
        <5>2. (0 + SectorsPerCluster - 1) \div SectorsPerCluster = 0
          <6>1. (0 * SectorsPerCluster + (SectorsPerCluster - 1)) \div SectorsPerCluster = 0
            BY DivUnique
          <6> QED BY <6>1
        <5> QED BY <5>1, <5>2 DEF Visited, ClustersIn
      <4>5. Chain'[0] = node.start
        BY <3>1, FileChain DEF Chain
      <4>6. Position'
        BY <3>1, <4>4, <4>5 DEF Position
      <4>7. NextImage' = 0 /\ run'.size = 0 /\ TableMap' = {}
        <5>1. 1 .. Len(regions') = {}
          BY <3>1
        <5> QED BY <3>1, <5>1 DEF NextImage, NoRun, TableMap
      <4>8. Account'
        BY <3>1, <4>7 DEF Account, ImageSector
      <4>9. BuiltMap' = {} /\ ExactMap(Walked \div ImageSector)' = {}
        <5>1. BuiltMap' = {}
          BY <4>1, <4>7, PairsNone DEF BuiltMap
        <5>2. 0 .. (Walked' \div ImageSector) - 1 = {}
          BY <4>4 DEF ImageSector
        <5> QED BY <5>1, <5>2 DEF ExactMap
      <4>10. MapSoFar'
        BY <4>9 DEF MapSoFar
      <4> QED BY <4>3, <4>6, <4>8, <4>10
    <3>4. QED
      BY <3>2, <3>3
  <2>2. CASE ExtendRun \/ StartRun
    <3>1. AtCluster /\ Advance
      BY <2>2 DEF ExtendRun, StartRun
    <3>2. /\ pc = "walk" /\ pc' = "walk" /\ rc' = rc /\ node' = node /\ fat' = fat
      BY <3>1 DEF AtCluster, Advance
    <3>3. Phases'
      <4>1. ~MallocMayFail => lost' = lost /\ capacity' \in {capacity, 2 * capacity}
        BY <2>2 DEF ExtendRun, StartRun, AddRegion, SkipRun, JoinRegion, AppendRegion,
           DropRun
      <4>2. capacity \in Nat
        BY DEF TypeOK
      <4> QED BY <3>2, <4>1, <4>2 DEF Phases
    <3>4. Position'
      BY <3>1, WalkOn
    <3>5. Account'
      BY <2>2, <3>2, ClusterMaps DEF Account
    <3>6. ASSUME ~lost', WholeSectors
          PROVE  BuiltMap' = ExactMap(Walked \div ImageSector)'
      <4>1. ~lost /\ BuiltMap' = BuiltMap
                       \cup Pairs(Walked \div ImageSector, c2o(cluster), CurSize)
        BY <2>2, <3>6, ClusterMaps
      <4>2. BuiltMap = ExactMap(Walked \div ImageSector)
        BY <3>2, <3>6, <4>1 DEF MapSoFar
      <4>3. ExactMap((Walked + CurSize) \div ImageSector)
              = ExactMap(Walked \div ImageSector)
                  \cup Pairs(Walked \div ImageSector, c2o(cluster), CurSize)
        BY <3>1, <3>6, ExactMapGrows
      <4>4. Walked' = Walked + CurSize /\ Chain' = Chain
        BY <3>1, WalkOn
      <4>5. ExactMap(Walked \div ImageSector)'
              = ExactMap((Walked + CurSize) \div ImageSector)
        BY <4>4 DEF ExactMap, SectorOf
      <4> QED BY <4>1, <4>2, <4>3, <4>5
    <3>7. MapSoFar'
      BY <3>6 DEF MapSoFar, WholeSectors
    <3> QED BY <3>3, <3>4, <3>5, <3>7
  <2>3. CASE BadCluster
    BY <2>3 DEF BadCluster, Return, Phases, Position, Account, MapSoFar
  <2>4. CASE LastRun
    <3>1. ~MallocMayFail => lost' = lost
      BY <2>4 DEF LastRun, AddRegion, SkipRun, JoinRegion, AppendRegion, DropRun
    <3> QED BY <2>4, <3>1 DEF LastRun, Return, Phases, Position, Account, MapSoFar
  <2>5. CASE NullTable
    BY <2>5 DEF NullTable, Phases, Position, Account, MapSoFar
  <2>6. CASE UNCHANGED vars
    <3>1. Phases'
      BY <2>6 DEF vars, Phases
    <3>2. Chain' = Chain /\ Walked' = Walked /\ Visited' = Visited
      BY <2>6 DEF vars, Chain, Walked, Visited, ClustersIn
    <3>3. Position'
      BY <2>6, <3>2 DEF vars, Position
    <3>4. TableMap' = TableMap /\ NextImage' = NextImage
      BY <2>6 DEF vars, TableMap, NextImage, Last
    <3>5. Account'
      BY <2>6, <3>4 DEF vars, Account
    <3>6. BuiltMap' = BuiltMap /\ ExactMap(Walked \div ImageSector)'
                                    = ExactMap(Walked \div ImageSector)
      BY <2>6, <3>2, <3>4 DEF vars, BuiltMap, ExactMap, SectorOf
    <3>7. MapSoFar'
      BY <2>6, <3>6 DEF vars, MapSoFar
    <3> QED BY <3>1, <3>3, <3>5, <3>7
  <2>7. QED
    BY <2>1, <2>2, <2>3, <2>4, <2>5, <2>6 DEF Next
<1>3. QED
  BY <1>1, <1>2, TypeCorrect, PTL DEF Spec

\* The table that exfat_get_image_location leaves when it returns 0 says of every
\* image sector where the chain of the file has it, and of nothing else, whatever the
\* fragments, the capacity of the table and the failures that did not drop a run.
THEOREM TableIsExact == Spec => []TableExact
<1> USE ClusterCountAssumption, LsExfatAssumption
<1>1. Init => TableExact
  BY DEF Init, TableExact, Succeeded
<1>2. TypeOK /\ WalkInv /\ TableExact /\ [Next]_vars => TableExact'
  <2> SUFFICES ASSUME TypeOK, WalkInv, TableExact, [Next]_vars, Succeeded', WholeSectors
               PROVE  TableMap' = ExactMap(node.size \div ImageSector)'
    BY DEF TableExact, WholeSectors
  <2>1. pc' = "done" /\ rc' = "ok" /\ ~lost'
    BY DEF Succeeded
  <2>2. CASE LastRun
    <3>1. ~lost /\ TableMap' = BuiltMap
      BY <2>1, <2>2, LastRunMaps DEF WalkInv
    <3>2. pc = "walk" /\ left = 0 /\ node' = node /\ fat' = fat /\ node.size \in Nat
      BY <2>2 DEF LastRun, TypeOK, Node
    <3>3. Walked = node.size
      BY <3>2 DEF Walked
    <3>4. BuiltMap = ExactMap(node.size \div ImageSector)
      BY <3>1, <3>2, <3>3 DEF WalkInv, MapSoFar
    <3>5. ExactMap(node.size \div ImageSector)' = ExactMap(node.size \div ImageSector)
      BY <3>2 DEF ExactMap, SectorOf, Chain
    <3> QED BY <3>1, <3>4, <3>5
  <2>3. CASE UNCHANGED vars
    <3>1. TableMap' = TableMap
      BY <2>3 DEF vars, TableMap
    <3>2. ExactMap(node.size \div ImageSector)' = ExactMap(node.size \div ImageSector)
      BY <2>3 DEF vars, ExactMap, SectorOf, Chain
    <3>3. Succeeded
      BY <2>1, <2>3 DEF vars, Succeeded
    <3> QED BY <3>1, <3>2, <3>3 DEF TableExact
  <2>4. CASE Begin
    BY <2>1, <2>4 DEF Begin, Return, WalkInv, Phases
  <2>5. CASE ExtendRun \/ StartRun
    BY <2>1, <2>5 DEF ExtendRun, StartRun, AtCluster, Advance
  <2>6. CASE BadCluster
    BY <2>1, <2>6 DEF BadCluster, Return
  <2>7. CASE NullTable
    BY <2>1, <2>7 DEF NullTable
  <2>8. QED
    BY <2>2, <2>3, <2>4, <2>5, <2>6, <2>7 DEF Next
<1>3. QED
  BY <1>1, <1>2, TypeCorrect, WalkInvariant, PTL DEF Spec

\* exfat_get_image_location reports an error for a file without clusters or with a
\* chain that ends too early and, as long as the table can be read, for no other.
THEOREM ErrorsAreHonest == Spec => []ErrorIsHonest
<1> USE ClusterCountAssumption, LsExfatAssumption
<1>1. Init => ErrorIsHonest
  BY DEF Init, ErrorIsHonest
<1>2. TypeOK /\ WalkInv /\ ErrorIsHonest /\ [Next]_vars => ErrorIsHonest'
  <2> SUFFICES ASSUME TypeOK, WalkInv, ErrorIsHonest, [Next]_vars, pc' = "done",
                      ~ReadMayFail
               PROVE  rc' = "EIO" <=>
                        \/ node'.size = 0
                        \/ \E i \in 0 .. ClustersIn(node'.size) - 1 : Invalid(Chain'[i])
    BY DEF ErrorIsHonest, ClustersIn
  <2>1. CASE Begin
    <3>1. Invalid(node.start) /\ rc' = "EIO" /\ node' = node
      BY <2>1 DEF Begin, Return
    <3>2. node.size = 0
      <4>1. node.size \in Nat /\ (node.size > 0 => ~Invalid(node.start))
        BY DEF TypeOK, Node
      <4> QED BY <3>1, <4>1
    <3> QED BY <3>1, <3>2
  <2>2. CASE BadCluster
    <3>1. pc = "walk" /\ left > 0 /\ Invalid(cluster) /\ rc' = "EIO" /\ node' = node
          /\ fat' = fat
      BY <2>2 DEF BadCluster, Return
    <3>2. Invalid(Chain[Visited]) /\ Walked = Visited * SectorsPerCluster
      BY <3>1 DEF WalkInv, Position
    <3>3. Visited \in 0 .. ClustersIn(node.size) - 1
      <4>1. left \in Nat /\ node.size \in Nat /\ Walked \in Nat /\ Walked < node.size
        <5>1. left \in Nat /\ node.size \in Nat
          BY DEF TypeOK, Node
        <5> QED BY <3>1, <5>1 DEF WalkInv, Position, Walked
      <4> DEFINE d == SectorsPerCluster
                 N == ClustersIn(node.size)
      <4>2. Visited \in Nat
        <5>1. Walked + SectorsPerCluster - 1 \in Nat
          BY <4>1
        <5> QED BY <5>1 DEF Visited, ClustersIn
      <4>3. N \in Nat /\ node.size <= N * d
        BY <4>1, ClustersInCovers
      <4>4. Visited * d < N * d
        BY <3>2, <4>1, <4>2, <4>3
      <4>5. Visited < N
        <5> SUFFICES ASSUME Visited >= N PROVE FALSE
          BY <4>2, <4>3
        <5>1. (Visited - N) * d \in Nat
          BY <4>2, <4>3
        <5>2. (Visited - N) * d = Visited * d - N * d
          BY <4>2, <4>3
        <5>3. Visited * d \in Nat /\ N * d \in Nat
          BY <4>2, <4>3
        <5> HIDE DEF N
        <5> QED BY <4>4, <5>1, <5>2, <5>3
      <4> QED BY <4>2, <4>3, <4>5
    <3>4. Chain' = Chain
      BY <3>1 DEF Chain
    <3> QED BY <3>1, <3>2, <3>3, <3>4
  <2>3. CASE LastRun
    <3>1. pc = "walk" /\ left = 0 /\ rc' = "ok" /\ node' = node /\ fat' = fat
      BY <2>3 DEF LastRun, Return
    <3>2. node.size \in Nat /\ node.size > 0
      BY <3>1 DEF TypeOK, Node, WalkInv, Phases
    <3>3. Visited = ClustersIn(node.size)
      BY <3>1, <3>2 DEF Visited, Walked
    <3>4. \A i \in 0 .. ClustersIn(node.size) - 1 : ~Invalid(Chain[i])
      BY <3>1, <3>3 DEF WalkInv, Position
    <3>5. Chain' = Chain
      BY <3>1 DEF Chain
    <3> QED BY <3>1, <3>2, <3>4, <3>5
  <2>4. CASE UNCHANGED vars
    <3>1. Chain' = Chain /\ pc = "done" /\ rc' = rc /\ node' = node
      BY <2>4 DEF vars, Chain
    <3> QED BY <3>1 DEF ErrorIsHonest
  <2>5. CASE ExtendRun \/ StartRun
    BY <2>5 DEF ExtendRun, StartRun, AtCluster, Advance
  <2>6. CASE NullTable
    BY <2>6 DEF NullTable
  <2>7. QED
    BY <2>1, <2>2, <2>3, <2>4, <2>5, <2>6 DEF Next
<1>3. QED
  BY <1>1, <1>2, TypeCorrect, WalkInvariant, PTL DEF Spec
-----------------------------------------------------------------------------
(***************************************************************************)
(* The refinement.  The two premises are those of the property: malloc     *)
(* succeeds, and a cluster is made of whole image sectors.                 *)
(***************************************************************************)
\* No allocation fails and clusters are whole image sectors.
Premises == ~MallocMayFail /\ WholeSectors

\* lsexfat.c implements ImageMap: whatever the chain, the capacity of the
\* table and the runs it merges, each step of the walk maps one cluster, ends
\* with the exact map or with an error, or changes nothing of the map.
THEOREM Refinement == Premises => (Spec => ImplementsImageMap)
<1> SUFFICES ASSUME Premises PROVE Spec => ImplementsImageMap
  OBVIOUS
<1> USE ClusterCountAssumption, LsExfatAssumption
<1>1. Init => Map!Init
  <2> SUFFICES ASSUME Init PROVE Map!Init
    OBVIOUS
  <2>1. regions = <<>> /\ run = NoRun /\ pc = "start" /\ rc = "none"
    BY DEF Init
  <2>2. TableMap = {}
    <3>1. Len(regions) = 0
      BY <2>1
    <3>2. 1 .. Len(regions) = {}
      BY <3>1
    <3>3. QED
      BY <3>2 DEF TableMap
  <2>3. BuiltMap = {}
    BY <2>1, <2>2, PairsNone DEF BuiltMap, NoRun
  <2>4. QED
    BY <2>1, <2>3 DEF Map!Init
<1>2. TypeOK /\ WalkInv /\ WalkInv' /\ [Next]_vars => [Map!Next]_(Map!mapVars)
  <2> SUFFICES ASSUME TypeOK, WalkInv, WalkInv', [Next]_vars
               PROVE  Map!Next \/ UNCHANGED Map!mapVars
    OBVIOUS
  <2>1. CASE Begin
    <3>1. BuiltMap' = BuiltMap
      <4>1. regions' = regions /\ run' = run
        BY <2>1 DEF Begin
      <4>2. pc = "start" /\ rc = "none" /\ rc' # "ok"
        BY <2>1 DEF Begin, Return, WalkInv, Phases
      <4>3. TableMap' = TableMap /\ NextImage' = NextImage
        BY <4>1 DEF TableMap, NextImage, Last
      <4>4. QED
        BY <4>1, <4>2, <4>3 DEF BuiltMap
    <3>2. CASE Invalid(node.start)
      <4>1. node.size \in Nat
        BY DEF TypeOK, Node
      <4>2. Map!Break
        BY <2>1, <3>1, <3>2, <4>1
           DEF Begin, Return, WalkInv, Phases, Map!Break, Map!Invalid, Map!Clusters, Invalid,
               Clusters, Map!LastCluster, LastCluster, Map!FIRST_DATA_CLUSTER,
               FIRST_DATA_CLUSTER
      <4>3. QED
        BY <4>2 DEF Map!Next
    <3>3. CASE ~Invalid(node.start)
      BY <2>1, <3>1, <3>3 DEF Begin, WalkInv, Phases, Map!mapVars
    <3>4. QED
      BY <3>2, <3>3
  <2>2. CASE ExtendRun \/ StartRun
    <3>1. /\ AtCluster /\ Advance /\ pc = "walk" /\ pc' = "walk" /\ rc = "none"
          /\ rc' = "none" /\ left > 0 /\ ~Invalid(cluster)
      BY <2>2 DEF ExtendRun, StartRun, AtCluster, Advance, WalkInv, Phases
    <3>2. ~lost' /\ WholeSectors
      BY DEF WalkInv, Phases, Premises
    <3>3. BuiltMap' = BuiltMap \cup
            Pairs((node.size - left) \div ImageSector, c2o(cluster), CurSize)
      BY <2>2, <3>2, ClusterMaps DEF WalkInv, Walked
    <3>4. Map!MapCluster
      BY <3>1, <3>3 DEF Advance, CurSize, Map!MapCluster, Map!Covered, Map!DiskSector,
           c2o, Map!Pairs, Pairs, Map!MinOf, MinOf, Map!ImageSector, ImageSector,
           Map!Invalid, Map!Clusters, Invalid, Clusters, Map!LastCluster, LastCluster,
           Map!FIRST_DATA_CLUSTER, FIRST_DATA_CLUSTER, Map!NextCluster, NextCluster,
           Map!BAD, BAD
    <3>5. QED
      BY <3>4 DEF Map!Next
  <2>3. CASE BadCluster
    <3>1. BuiltMap' = BuiltMap
      <4>1. regions' = regions /\ run' = run /\ pc = "walk" /\ rc' = "EIO"
        BY <2>3 DEF BadCluster, Return
      <4>2. TableMap' = TableMap /\ NextImage' = NextImage
        BY <4>1 DEF TableMap, NextImage, Last
      <4>3. QED
        BY <4>1, <4>2 DEF BuiltMap
    <3>2. Map!Break
      BY <2>3, <3>1
         DEF BadCluster, Return, WalkInv, Phases, Map!Break, Map!Invalid, Map!Clusters, Invalid,
             Clusters, Map!LastCluster, LastCluster, Map!FIRST_DATA_CLUSTER,
             FIRST_DATA_CLUSTER
    <3>3. QED
      BY <3>2 DEF Map!Next
  <2>4. CASE LastRun
    <3>1. BuiltMap' = BuiltMap
      BY <2>4, LastRunMaps DEF WalkInv, Phases, Premises
    <3>2. Map!Finish
      BY <2>4, <3>1 DEF LastRun, Return, WalkInv, Phases, Map!Finish
    <3>3. QED
      BY <3>2 DEF Map!Next
  <2>5. CASE NullTable
    BY <2>5 DEF NullTable, WalkInv, Phases, Premises
  <2>6. CASE UNCHANGED vars
    BY <2>6 DEF vars, Map!mapVars, BuiltMap, TableMap, NextImage, Last
  <2>7. QED
    BY <2>1, <2>2, <2>3, <2>4, <2>5, <2>6 DEF Next
<1>3. Spec => []WalkInv
  BY WalkInvariant
<1>4. QED
  BY <1>1, <1>2, <1>3, TypeCorrect, PTL DEF Spec, ImplementsImageMap, Map!Spec
-----------------------------------------------------------------------------
(***************************************************************************)
(* Facts about the table that need no premise: they hold when malloc fails,*)
(* on broken chains and for clusters of any size.                          *)
(***************************************************************************)

\* The table is empty until the walk begins.
StartsEmpty == pc = "start" => regions = <<>>

\* exfat_add_disk_region never writes past the block that
\* realloc_image_location allocated.
THEOREM TableNeverOverrun == Spec => []TableFits
<1> USE ClusterCountAssumption, LsExfatAssumption
<1>1. Init => TableFits /\ StartsEmpty
  BY DEF Init, TableFits, StartsEmpty
<1>2. TypeOK /\ TableFits /\ StartsEmpty /\ [Next]_vars => TableFits' /\ StartsEmpty'
  <2> SUFFICES ASSUME TypeOK, TableFits, StartsEmpty, [Next]_vars
               PROVE  TableFits' /\ StartsEmpty'
    OBVIOUS
  <2>1. CASE Begin
    <3>1. regions' = <<>> /\ capacity' \in Nat
      BY <2>1 DEF Begin, StartsEmpty
    <3>2. QED
      BY <3>1 DEF TableFits, StartsEmpty
  <2>2. ASSUME NEW r \in Run, AddRegion(r), pc' # "start"
        PROVE  TableFits' /\ StartsEmpty'
    <3>1. Len(regions) \in Nat /\ capacity \in Nat
      BY LenProperties DEF TypeOK
    <3>2. CASE SkipRun(r)
      BY <2>2, <3>2 DEF SkipRun, TableFits, StartsEmpty
    <3>3. CASE JoinRegion(r)
      <4>1. Len(regions') = Len(regions)
        BY <3>3 DEF JoinRegion, TypeOK
      <4>2. QED
        BY <2>2, <3>3, <4>1 DEF JoinRegion, TableFits, StartsEmpty
    <3>4. CASE AppendRegion(r) /\ capacity # 0
      <4>1. Len(regions') = Len(regions) + 1
        BY <3>4, NewRegionType, AppendProperties DEF AppendRegion, TypeOK
      <4>2. capacity' \in Nat /\ Len(regions) + 1 <= capacity'
        BY <3>1, <3>4 DEF AppendRegion, TableFits
      <4>3. QED
        BY <2>2, <4>1, <4>2 DEF TableFits, StartsEmpty
    <3>5. CASE DropRun(r)
      BY <2>2, <3>5 DEF DropRun, TableFits, StartsEmpty
    <3>6. QED
      BY <2>2, <3>2, <3>3, <3>4, <3>5 DEF AddRegion
  <2>3. CASE ExtendRun
    BY <2>3 DEF ExtendRun, Advance, AtCluster, TableFits, StartsEmpty
  <2>4. CASE StartRun
    BY <2>2, <2>4 DEF StartRun, Advance, AtCluster, TypeOK
  <2>5. CASE BadCluster
    BY <2>5 DEF BadCluster, Return, TableFits, StartsEmpty
  <2>6. CASE LastRun
    BY <2>2, <2>6 DEF LastRun, Return, TypeOK
  <2>7. CASE NullTable
    BY <2>7 DEF NullTable, TableFits, StartsEmpty
  <2>8. CASE UNCHANGED vars
    BY <2>8 DEF vars, TableFits, StartsEmpty
  <2>9. QED
    BY <2>1, <2>3, <2>4, <2>5, <2>6, <2>7, <2>8 DEF Next
<1>3. QED
  BY <1>1, <1>2, TypeCorrect, PTL DEF Spec

\* The regions always tile a prefix of the image.
THEOREM TableTiles == Spec => []RegionsTile
<1> USE ClusterCountAssumption, LsExfatAssumption
<1>1. Init => RegionsTile
  BY DEF Init, RegionsTile
<1>2. TypeOK /\ RegionsTile /\ [Next]_vars => RegionsTile'
  <2> SUFFICES ASSUME TypeOK, RegionsTile, [Next]_vars PROVE RegionsTile'
    OBVIOUS
  <2> DEFINE n == Len(regions)
  <2>1. n \in Nat
    BY LenProperties DEF TypeOK
  <2>2. CASE UNCHANGED regions
    BY <2>2 DEF RegionsTile
  <2>3. ASSUME NEW r \in Run, JoinRegion(r) PROVE RegionsTile'
    <3>1. n \in 1 .. n /\ Last = regions[n]
      BY <2>1, <2>3, EmptySeq DEF JoinRegion, Joins, TypeOK, Last
    <3>2. regions' = [regions EXCEPT ![n].count = @ + r.size \div ImageSector]
          /\ Len(regions') = n
      BY <2>3 DEF JoinRegion, TypeOK
    <3>3. \A i \in 1 .. n : regions[i] \in Region
      BY ElementOfSeq DEF TypeOK
    <3>4. \A i \in 1 .. n : regions'[i].image = regions[i].image
      BY <3>1, <3>2, <3>3 DEF TypeOK, Region
    <3>5. \A i \in 1 .. n : i # n => regions'[i] = regions[i]
      BY <3>1, <3>2 DEF TypeOK
    <3>6. ASSUME NEW i \in 1 .. n
          PROVE  regions'[i].image = IF i = 1 THEN 0
                                     ELSE regions'[i-1].image + regions'[i-1].count
      <4>1. CASE i = 1
        BY <3>4, <3>6, <4>1 DEF RegionsTile
      <4>2. CASE i # 1
        <5>1. i - 1 \in 1 .. n /\ i - 1 # n
          BY <2>1, <4>2
        <5>2. QED
          BY <3>4, <3>5, <4>2, <5>1 DEF RegionsTile
      <4>3. QED
        BY <4>1, <4>2
    <3>7. QED
      BY <3>2, <3>6 DEF RegionsTile
  <2>4. ASSUME NEW r \in Run, AppendRegion(r) PROVE RegionsTile'
    <3> DEFINE g == NewRegion(r)
    <3>1. /\ Len(regions') = n + 1 /\ regions'[n + 1] = g
          /\ \A i \in 1 .. n : regions'[i] = regions[i]
      BY <2>4, NewRegionType, AppendProperties DEF AppendRegion, TypeOK
    <3>2. g.image = IF n + 1 = 1 THEN 0 ELSE regions[n].image + regions[n].count
      BY <2>1, EmptySeq DEF NewRegion, Last, TypeOK
    <3>3. ASSUME NEW i \in 1 .. n + 1
          PROVE  regions'[i].image = IF i = 1 THEN 0
                                     ELSE regions'[i-1].image + regions'[i-1].count
      <4>1. CASE i = n + 1
        <5>1. n + 1 # 1 => n \in 1 .. n /\ (n + 1) - 1 = n
          BY <2>1
        <5>2. QED
          BY <2>1, <3>1, <3>2, <4>1, <5>1
      <4>2. CASE i # n + 1
        <5>1. i \in 1 .. n /\ (i # 1 => i - 1 \in 1 .. n)
          BY <2>1, <4>2
        <5>2. QED
          BY <3>1, <5>1 DEF RegionsTile
      <4>3. QED
        BY <4>1, <4>2
    <3>4. QED
      BY <3>1, <3>3 DEF RegionsTile
  <2>5. ASSUME NEW r \in Run, AddRegion(r) PROVE RegionsTile'
    BY <2>2, <2>3, <2>4, <2>5 DEF AddRegion, SkipRun, DropRun
  <2>6. CASE StartRun
    BY <2>5, <2>6 DEF StartRun, TypeOK
  <2>7. CASE LastRun
    BY <2>5, <2>7 DEF LastRun, TypeOK
  <2>8. QED
    BY <2>2, <2>6, <2>7 DEF Next, Begin, ExtendRun, BadCluster, NullTable, vars
<1>3. QED
  BY <1>1, <1>2, TypeCorrect, PTL DEF Spec
=============================================================================
