------------------------- MODULE ExfatLayout_proofs -------------------------
(***************************************************************************)
(* The laws of cluster chains: what exfat_advance_cluster finds after any  *)
(* number of steps, in any table, on any volume.                           *)
(***************************************************************************)
EXTENDS ExfatLayout, TLAPS

\* Facts about numbers; there is no loop here.
Nats == INSTANCE Induction_proofs WITH
    Step <- LAMBDA a, b, v, k : {v}, Good <- LAMBDA p, v : v \in p

\* What a file allocation table can be.
Table == [Clusters -> FatEntry]

\* A step of a walk leads from a number to a number.
LEMMA FollowType ==
    ASSUME NEW T \in Table, NEW row \in BOOLEAN, NEW c \in Int
    PROVE  Follow(T, row, c) \in Int
<1>1. Invalid(c) => Follow(T, row, c) = c
  BY DEF Follow
<1>2. ~Invalid(c) /\ row => Follow(T, row, c) = c + 1
  BY DEF Follow, NextCluster
<1>3. ~Invalid(c) /\ ~row => Follow(T, row, c) \in FatEntry
  BY DEF Follow, NextCluster, Invalid, Table
<1>4. \A x \in FatEntry : x \in Int
  BY ClusterCountAssumption DEF FatEntry, Clusters, FREE, BAD, END, LastCluster,
     FIRST_DATA_CLUSTER
<1>5. c + 1 \in Int
  OBVIOUS
<1> QED BY <1>1, <1>2, <1>3, <1>4, <1>5, Zenon

\* A chain starts where it is said to and goes on step by step.
LEMMA ChainLaw ==
    ASSUME NEW T \in Table, NEW row \in BOOLEAN, NEW c \in Int
    PROVE  /\ ChainFrom(T, row, c) \in [Nat -> Int]
           /\ ChainFrom(T, row, c)[0] = c
           /\ \A k \in Nat : ChainFrom(T, row, c)[k + 1]
                               = Follow(T, row, ChainFrom(T, row, c)[k])
<1> DEFINE at == ChainFrom(T, row, c)
           F == [x \in Int |-> Follow(T, row, x)]
           Body(g) == [k \in Nat |-> IF k = 0 THEN c ELSE Follow(T, row, g[k - 1])]
<1>1. F \in [Int -> Int]
  BY FollowType
<1> HIDE DEF F
<1>2. PICK f \in [Nat -> Int] : f[0] = c /\ \A n \in Nat : f[n + 1] = F[f[n]]
  <2>1. \E f : Nats!Iterates(f, Int, c, F)
    BY <1>1, Nats!IterationExists
  <2> QED BY <2>1 DEF Nats!Iterates
<1>3. f = Body(f)
  <2>1. ASSUME NEW k \in Nat
        PROVE  f[k] = IF k = 0 THEN c ELSE Follow(T, row, f[k - 1])
    <3>1. CASE k = 0
      BY <1>2, <3>1
    <3>2. CASE k # 0
      <4>1. k - 1 \in Nat /\ (k - 1) + 1 = k
        BY <3>2
      <4>2. f[k] = F[f[k - 1]]
        BY <1>2, <4>1
      <4>3. F[f[k - 1]] = Follow(T, row, f[k - 1])
        <5>1. f[k - 1] \in Int
          BY <4>1
        <5> QED BY <5>1 DEF F
      <4> QED BY <3>2, <4>2, <4>3
    <3> QED BY <3>1, <3>2
  <2> QED BY <2>1
<1>4. at = CHOOSE g : g = Body(g)
  BY DEF ChainFrom
<1>5. at = Body(at)
  <2> HIDE DEF Body, at
  <2> QED BY <1>3, <1>4
<1>6. at[0] = c
  <2> HIDE DEF at
  <2> QED BY <1>5
<1>7. \A k \in Nat : at[k + 1] = Follow(T, row, at[k])
  <2> SUFFICES ASSUME NEW k \in Nat PROVE at[k + 1] = Follow(T, row, at[k])
    OBVIOUS
  <2>1. k + 1 \in Nat /\ k + 1 # 0 /\ (k + 1) - 1 = k
    OBVIOUS
  <2> HIDE DEF at
  <2> QED BY <1>5, <2>1
<1>8. \A k \in Nat : at[k] \in Int
  <2> DEFINE S == {k \in Nat : at[k] \in Int}
  <2> HIDE DEF at
  <2>1. 0 \in S
    BY <1>6
  <2>2. \A k \in Nat : k \in S => k + 1 \in S
    BY <1>7, FollowType
  <2>3. \A k \in Nat : k \in S
    <3> HIDE DEF S
    <3> QED BY <2>1, <2>2, Nats!NatInduct
  <2> QED BY <2>3
<1>9. at \in [Nat -> Int]
  <2>1. at = [k \in Nat |-> at[k]]
    <3> HIDE DEF at
    <3> QED BY <1>5
  <2> HIDE DEF at
  <2> QED BY <1>8, <2>1
<1> QED BY <1>6, <1>7, <1>9

\* A walk that has met an invalid cluster has ended.
LEMMA ChainStays ==
    ASSUME NEW T \in Table, NEW row \in BOOLEAN, NEW c \in Int, NEW m \in Nat,
           Invalid(ChainFrom(T, row, c)[m]), NEW n \in Nat, m <= n
    PROVE  ChainFrom(T, row, c)[n] = ChainFrom(T, row, c)[m]
<1> DEFINE at == ChainFrom(T, row, c)
           S == {k \in Nat : at[m + k] = at[m]}
<1> HIDE DEF at
<1>1. 0 \in S
  OBVIOUS
<1>2. ASSUME NEW k \in Nat, k \in S PROVE k + 1 \in S
  <2>1. at[(m + k) + 1] = Follow(T, row, at[m + k])
    BY ChainLaw DEF at
  <2>2. Follow(T, row, at[m]) = at[m]
    BY DEF Follow, at
  <2>3. (m + k) + 1 = m + (k + 1)
    OBVIOUS
  <2> QED BY <1>2, <2>1, <2>2, <2>3
<1>3. \A k \in Nat : k \in S
  <2> HIDE DEF S
  <2> QED BY <1>1, <1>2, Nats!NatInduct
<1>4. n - m \in S /\ m + (n - m) = n
  BY <1>3
<1> QED BY <1>4 DEF at

\* The clusters before a valid one are valid.
LEMMA ChainWhole ==
    ASSUME NEW T \in Table, NEW row \in BOOLEAN, NEW c \in Int, NEW n \in Nat,
           ~Invalid(ChainFrom(T, row, c)[n]), NEW k \in Nat, k <= n
    PROVE  ~Invalid(ChainFrom(T, row, c)[k])
  BY ChainStays

\* The two halves of ChainLaw, for one place each.
LEMMA ChainStart ==
    ASSUME NEW T \in Table, NEW row \in BOOLEAN, NEW c \in Int
    PROVE  ChainFrom(T, row, c)[0] = c
BY ChainLaw

LEMMA ChainStep ==
    ASSUME NEW T \in Table, NEW row \in BOOLEAN, NEW c \in Int, NEW k \in Nat
    PROVE  ChainFrom(T, row, c)[k + 1] = Follow(T, row, ChainFrom(T, row, c)[k])
BY ChainLaw

\* Two walks that take the same steps visit the same clusters: the same table
\* from a later cluster on, a table that was changed elsewhere, or a row and the
\* table that make_noncontiguous writes for it.
LEMMA ChainsAgree ==
    ASSUME NEW T \in Table, NEW row \in BOOLEAN, NEW c \in Int,
           NEW U \in Table, NEW row2 \in BOOLEAN, NEW d \in Int,
           NEW m \in Nat, NEW n \in Nat,
           d = ChainFrom(T, row, c)[m],
           \A k \in 0 .. n - 1 : Follow(U, row2, ChainFrom(T, row, c)[m + k])
                                   = Follow(T, row, ChainFrom(T, row, c)[m + k])
    PROVE  \A k \in 0 .. n : ChainFrom(U, row2, d)[k] = ChainFrom(T, row, c)[m + k]
<1> DEFINE at == ChainFrom(T, row, c)
           to == ChainFrom(U, row2, d)
           S == {k \in Nat : k <= n => to[k] = at[m + k]}
<1>0. /\ d = at[m]
      /\ to[0] = d
      /\ \A k \in Nat : at[k + 1] = Follow(T, row, at[k])
      /\ \A k \in Nat : to[k + 1] = Follow(U, row2, to[k])
      /\ \A k \in 0 .. n - 1 : Follow(U, row2, at[m + k]) = Follow(T, row, at[m + k])
  <2>1. to[0] = d
    BY ChainStart
  <2>2. \A k \in Nat : to[k + 1] = Follow(U, row2, to[k])
    BY ChainStep
  <2>3. \A k \in Nat : at[k + 1] = Follow(T, row, at[k])
    BY ChainStep
  <2> QED BY <2>1, <2>2, <2>3, Zenon
<1> HIDE DEF at, to
<1>1. 0 \in S
  BY <1>0
<1>2. ASSUME NEW k \in Nat, k \in S, k + 1 <= n PROVE to[k + 1] = at[m + (k + 1)]
  <2>1. k \in 0 .. n - 1 /\ k <= n /\ m + k \in Nat /\ (m + k) + 1 = m + (k + 1)
    BY <1>2
  <2>2. to[k + 1] = Follow(U, row2, to[k]) /\ at[(m + k) + 1] = Follow(T, row, at[m + k])
    BY <2>1, <1>0
  <2>3. to[k] = at[m + k]
    BY <1>2, <2>1
  <2>4. Follow(U, row2, at[m + k]) = Follow(T, row, at[m + k])
    BY <2>1, <1>0
  <2> QED BY <2>1, <2>2, <2>3, <2>4
<1>3. \A k \in Nat : k \in S => k + 1 \in S
  BY <1>2
<1>4. \A k \in Nat : k \in S
  <2> HIDE DEF S
  <2> QED BY <1>1, <1>3, Nats!NatInduct
<1>5. \A k \in 0 .. n : to[k] = at[m + k]
  BY <1>4
<1> QED BY <1>5 DEF at, to

\* In particular, the rest of a chain is the chain from its first cluster.
LEMMA ChainShift ==
    ASSUME NEW T \in Table, NEW row \in BOOLEAN, NEW c \in Int, NEW m \in Nat,
           NEW n \in Nat
    PROVE  ChainFrom(T, row, ChainFrom(T, row, c)[m])[n] = ChainFrom(T, row, c)[m + n]
<1>1. ChainFrom(T, row, c)[m] \in Int
  BY ChainLaw
<1> QED BY <1>1, ChainsAgree

\* The clusters of a contiguous file follow each other up to the first that the
\* volume does not have.
LEMMA ChainInARow ==
    ASSUME NEW T \in Table, NEW c \in Int, NEW n \in Nat,
           \A k \in 0 .. n - 1 : ~Invalid(ChainFrom(T, TRUE, c)[k])
    PROVE  \A k \in 0 .. n : ChainFrom(T, TRUE, c)[k] = c + k
<1> DEFINE at == ChainFrom(T, TRUE, c)
           S == {k \in Nat : k <= n => at[k] = c + k}
<1>0. /\ at[0] = c /\ \A k \in Nat : at[k + 1] = Follow(T, TRUE, at[k])
      /\ \A k \in 0 .. n - 1 : ~Invalid(at[k])
  BY ChainLaw
<1> HIDE DEF at
<1>1. 0 \in S
  BY <1>0
<1>2. ASSUME NEW k \in Nat, k \in S, k + 1 <= n PROVE at[k + 1] = c + (k + 1)
  <2>1. k \in 0 .. n - 1 /\ k <= n
    BY <1>2
  <2>2. at[k + 1] = Follow(T, TRUE, at[k]) /\ ~Invalid(at[k])
    BY <1>0, <2>1
  <2>3. at[k] = c + k
    BY <1>2, <2>1
  <2>4. Follow(T, TRUE, c + k) = (c + k) + 1
    BY <2>2, <2>3 DEF Follow, NextCluster
  <2>5. (c + k) + 1 = c + (k + 1)
    OBVIOUS
  <2> QED BY <2>2, <2>3, <2>4, <2>5, Zenon
<1>3. \A k \in Nat : k \in S
  <2>1. \A k \in Nat : k \in S => k + 1 \in S
    BY <1>2
  <2> HIDE DEF S
  <2> QED BY <1>1, <2>1, Nats!NatInduct
<1>4. \A k \in 0 .. n : at[k] = c + k
  BY <1>3
<1> QED BY <1>4 DEF at

\* make_noncontiguous: a row of clusters and the table that says the same lead to the
\* same clusters.
LEMMA RowInTable ==
    ASSUME NEW T \in Table, NEW U \in Table, NEW c \in Int, NEW n \in Nat,
           \A k \in 0 .. n - 1 : /\ ~Invalid(ChainFrom(T, TRUE, c)[k])
                                 /\ U[c + k] = c + k + 1
    PROVE  \A k \in 0 .. n : ChainFrom(U, FALSE, c)[k] = ChainFrom(T, TRUE, c)[k]
<1> DEFINE at == ChainFrom(T, TRUE, c)
<1>1. at[0] = c /\ at \in [Nat -> Int]
  BY ChainLaw
<1>2. \A k \in 0 .. n : at[k] = c + k
  BY ChainInARow
<1>3. \A k \in 0 .. n - 1 : ~Invalid(at[k]) /\ U[c + k] = c + k + 1
  OBVIOUS
<1>4. ASSUME NEW k \in 0 .. n - 1
      PROVE  Follow(U, FALSE, at[0 + k]) = Follow(T, TRUE, at[0 + k])
  <2> HIDE DEF at
  <2>1. at[k] = c + k /\ ~Invalid(at[k]) /\ U[c + k] = c + k + 1
    BY <1>2, <1>3
  <2>2. 0 + k = k
    OBVIOUS
  <2> QED BY <2>1, <2>2 DEF Follow, NextCluster
<1>5. \A k \in 0 .. n : ChainFrom(U, FALSE, c)[k] = at[0 + k]
  <2>1. ASSUME NEW row \in BOOLEAN, NEW row2 \in BOOLEAN,
               ChainFrom(T, row, c)[0] = c,
               \A k \in 0 .. n - 1 : Follow(U, row2, ChainFrom(T, row, c)[0 + k])
                                       = Follow(T, row, ChainFrom(T, row, c)[0 + k])
        PROVE  \A k \in 0 .. n : ChainFrom(U, row2, c)[k] = ChainFrom(T, row, c)[0 + k]
    BY <2>1, ChainsAgree
  <2> QED BY <1>1, <1>4, <2>1, Zenon
<1>6. \A k \in 0 .. n : 0 + k = k
  OBVIOUS
<1> QED BY <1>5, <1>6, Zenon

\* Writing the entry of a cluster leaves alone the walks that do not come by it, and
\* those in a row.
LEMMA ChainElsewhere ==
    ASSUME NEW T \in Table, NEW row \in BOOLEAN, NEW c \in Int, NEW n \in Nat,
           NEW x \in Clusters, NEW y \in FatEntry,
           row \/ \A k \in 0 .. n - 1 : ChainFrom(T, row, c)[k] # x
    PROVE  \A k \in 0 .. n : ChainFrom([T EXCEPT ![x] = y], row, c)[k]
                               = ChainFrom(T, row, c)[k]
<1> DEFINE at == ChainFrom(T, row, c)
           U == [T EXCEPT ![x] = y]
<1>1. at[0] = c /\ at \in [Nat -> Int]
  BY ChainLaw
<1>2. U \in Table
  BY DEF Table
<1>3. ASSUME NEW k \in 0 .. n - 1
      PROVE  Follow(U, row, at[0 + k]) = Follow(T, row, at[0 + k])
  <2>1. 0 + k = k /\ (row \/ at[k] # x)
    OBVIOUS
  <2> HIDE DEF at
  <2>2. CASE row
    BY <2>2 DEF Follow, NextCluster
  <2>3. CASE at[k] # x
    <3>1. ~Invalid(at[k]) => U[at[k]] = T[at[k]]
      BY <2>3 DEF Table, Invalid
    <3> HIDE DEF U
    <3> QED BY <2>1, <3>1 DEF Follow, NextCluster
  <2> QED BY <2>1, <2>2, <2>3
<1>4. \A k \in 0 .. n : ChainFrom(U, row, c)[k] = at[0 + k]
  <2> HIDE DEF U
  <2> QED BY <1>1, <1>2, <1>3, ChainsAgree
<1>5. \A k \in 0 .. n : 0 + k = k
  OBVIOUS
<1> QED BY <1>4, <1>5, Zenon
=============================================================================
