-------------------------- MODULE Induction_proofs --------------------------
(***************************************************************************)
(* Least numbers, induction, iteration and loops, stated about sets and    *)
(* functions so that the provers can use them: a statement P(n) is proved  *)
(* for every n by taking {n \in Nat : P(n)} for T in NatInduct, a          *)
(* recursive function is what IterationExists says there is, and a loop    *)
(* whose turns are Step keeps what is Good, by StepsKeep.  A module that   *)
(* has such loops takes an instance of this one for each.                  *)
(***************************************************************************)
EXTENDS Integers, WellFoundedInduction, TLAPS

CONSTANTS Step(_, _, _, _), \* the values that turn k of a loop with parameters a, b leads to
          Good(_, _)        \* what the loop keeps of a value, given p
-----------------------------------------------------------------------------
\* A set of numbers has a least one.
LEMMA LeastExists ==
    ASSUME NEW S, S \subseteq Nat, S # {}
    PROVE  \E x \in S : \A y \in S : x =< y
<1>1. IsWellFoundedOn(OpToRel(<, Nat), Nat)
  BY NatLessThanWellFounded
<1>2. PICK x \in S : \A y \in S : ~ (<<y, x>> \in OpToRel(<, Nat))
  BY <1>1, WFMin
<1>3. ASSUME NEW y \in S PROVE ~(y < x)
  <2>1. y \in Nat /\ x \in Nat
    OBVIOUS
  <2>2. y < x => <<y, x>> \in OpToRel(<, Nat)
    BY <2>1, Zenon DEF OpToRel
  <2> QED BY <1>2, <2>2
<1> QED BY <1>3, SMT

\* A set that holds 0 and what follows each of its numbers holds them all.
LEMMA NatInduct ==
    ASSUME NEW T, 0 \in T, \A n \in Nat : n \in T => n + 1 \in T
    PROVE  \A n \in Nat : n \in T
<1> SUFFICES ASSUME NEW m \in Nat, m \notin T PROVE FALSE
  OBVIOUS
<1> DEFINE S == {n \in Nat : n \notin T}
<1>1. PICK x \in S : \A y \in S : x =< y
  <2>1. S \subseteq Nat /\ S # {}
    OBVIOUS
  <2> QED BY <2>1, LeastExists
<1>2. x \in Nat /\ x # 0
  OBVIOUS
<1>3. x - 1 \in Nat /\ x - 1 \notin S
  BY <1>1, <1>2
<1>4. x - 1 \in T
  BY <1>3
<1>5. (x - 1) + 1 \in T
  BY <1>3, <1>4
<1>6. (x - 1) + 1 = x
  BY <1>2
<1> QED BY <1>1, <1>5, <1>6

\* f is a, F[a], F[F[a]] and so on, all of them in S.
Iterates(f, S, a, F) ==
    f \in [Nat -> S] /\ f[0] = a /\ \A n \in Nat : f[n + 1] = F[f[n]]

\* From every element of S a function on S can be iterated.
LEMMA IterationExists ==
    ASSUME NEW S, NEW a \in S, NEW F \in [S -> S]
    PROVE  \E f : Iterates(f, S, a, F)
<1> DEFINE Part(n, g) == /\ g \in [0 .. n -> S] /\ g[0] = a
                         /\ \A k \in 0 .. n - 1 : g[k + 1] = F[g[k]]
           T == {n \in Nat : \E g \in [0 .. n -> S] : Part(n, g)}
           U(n, m, g, h) == {k \in Nat : k <= n /\ k <= m => g[k] = h[k]}
<1>1. 0 \in T
  <2>1. [k \in 0 .. 0 |-> a] \in [0 .. 0 -> S] /\ Part(0, [k \in 0 .. 0 |-> a])
    OBVIOUS
  <2> QED BY <2>1
<1>2. ASSUME NEW n \in Nat, n \in T PROVE n + 1 \in T
  <2>1. PICK g \in [0 .. n -> S] : Part(n, g)
    BY <1>2
  <2> DEFINE h == [k \in 0 .. n + 1 |-> IF k <= n THEN g[k] ELSE F[g[n]]]
  <2>2. h \in [0 .. n + 1 -> S]
    <3> SUFFICES ASSUME NEW k \in 0 .. n + 1
                 PROVE  (IF k <= n THEN g[k] ELSE F[g[n]]) \in S
      OBVIOUS
    <3>1. CASE k <= n
      BY <3>1
    <3>2. CASE ~(k <= n)
      <4>1. g[n] \in S
        BY <1>2
      <4> QED BY <3>2, <4>1
    <3> QED BY <3>1, <3>2
  <2>3. h[0] = a
    BY <2>1, <1>2
  <2>4. ASSUME NEW k \in 0 .. (n + 1) - 1 PROVE h[k + 1] = F[h[k]]
    <3>1. CASE k = n
      BY <1>2, <3>1
    <3>2. CASE k # n
      <4>1. k \in 0 .. n - 1 /\ k \in 0 .. n + 1 /\ k + 1 \in 0 .. n + 1 /\ k <= n /\ k + 1 <= n
        BY <1>2, <3>2
      <4> QED BY <2>1, <4>1
    <3> QED BY <3>1, <3>2
  <2>5. Part(n + 1, h)
    BY <2>2, <2>3, <2>4
  <2> HIDE DEF Part, h
  <2> QED BY <1>2, <2>2, <2>5
<1>3. \A n \in Nat : n \in T
  <2> HIDE DEF T
  <2> QED BY <1>1, <1>2, NatInduct
<1>4. ASSUME NEW n \in Nat, NEW m \in Nat, NEW g, NEW h, Part(n, g), Part(m, h)
      PROVE  \A k \in Nat : k <= n /\ k <= m => g[k] = h[k]
  <2>1. 0 \in U(n, m, g, h)
    BY <1>4
  <2>2. ASSUME NEW k \in Nat, k \in U(n, m, g, h) PROVE k + 1 \in U(n, m, g, h)
    <3> SUFFICES ASSUME k + 1 <= n, k + 1 <= m PROVE g[k + 1] = h[k + 1]
      OBVIOUS
    <3>1. k \in 0 .. n - 1 /\ k \in 0 .. m - 1 /\ k <= n /\ k <= m
      OBVIOUS
    <3>2. g[k + 1] = F[g[k]] /\ h[k + 1] = F[h[k]]
      BY <3>1, <1>4
    <3> QED BY <2>2, <3>1, <3>2
  <2>3. \A k \in Nat : k \in U(n, m, g, h)
    <3> HIDE DEF U
    <3> QED BY <2>1, <2>2, NatInduct
  <2> QED BY <2>3
<1> DEFINE G(n) == CHOOSE g \in [0 .. n -> S] : Part(n, g)
           f == [n \in Nat |-> G(n)[n]]
<1>5. ASSUME NEW n \in Nat PROVE Part(n, G(n))
  <2>1. \E g \in [0 .. n -> S] : Part(n, g)
    BY <1>3
  <2> HIDE DEF Part
  <2> QED BY <2>1
<1>6. f \in [Nat -> S]
  <2> SUFFICES ASSUME NEW n \in Nat PROVE G(n)[n] \in S
    OBVIOUS
  <2> HIDE DEF G
  <2>1. G(n) \in [0 .. n -> S]
    BY <1>5
  <2> QED BY <2>1
<1>7. f[0] = a
  BY <1>5
<1>8. ASSUME NEW n \in Nat PROVE f[n + 1] = F[f[n]]
  <2>1. Part(n, G(n)) /\ Part(n + 1, G(n + 1)) /\ n + 1 \in Nat
    <3> HIDE DEF Part, G
    <3> QED BY <1>5
  <2>2. G(n + 1)[n] = G(n)[n]
    <3> HIDE DEF Part, G
    <3> QED BY <2>1, <1>4
  <2>3. G(n + 1)[n + 1] = F[G(n + 1)[n]]
    <3> HIDE DEF G
    <3> QED BY <2>1
  <2>4. f[n] = G(n)[n] /\ f[n + 1] = G(n + 1)[n + 1]
    <3> HIDE DEF G
    <3> QED OBVIOUS
  <2> HIDE DEF f, G
  <2> QED BY <2>2, <2>3, <2>4
<1> QED
  <2> HIDE DEF f
  <2>1. Iterates(f, S, a, F)
    BY <1>6, <1>7, <1>8 DEF Iterates
  <2> QED BY <2>1
-----------------------------------------------------------------------------
\* The values after each number of turns, from those in ws.
Steps(a, b, ws) ==
    LET after[k \in Nat] == IF k = 0 THEN ws ELSE UNION {Step(a, b, v, k) : v \in after[k - 1]}
    IN  after

\* One turn.
Turn(a, b, ws, k) == UNION {Step(a, b, v, k) : v \in ws}

\* The recursive function is defined: it starts with ws and goes on turn by turn.
LEMMA StepsDefined ==
    ASSUME NEW a, NEW b, NEW ws
    PROVE  \A k \in Nat : Steps(a, b, ws)[k] =
              IF k = 0 THEN ws ELSE Turn(a, b, Steps(a, b, ws)[k - 1], k)
<1> DEFINE Part(n, g) ==
             g = [k \in 0 .. n |-> IF k = 0 THEN ws ELSE UNION {Step(a, b, v, k) : v \in g[k - 1]}]
           T == {n \in Nat : \E g : Part(n, g)}
           U(n, m, g, h) == {k \in Nat : k <= n /\ k <= m => g[k] = h[k]}
           Next(vs, k) == UNION {Step(a, b, v, k) : v \in vs}
<1>1. 0 \in T
  <2>1. Part(0, [k \in 0 .. 0 |-> ws])
    OBVIOUS
  <2> QED BY <2>1
<1>2. ASSUME NEW n \in Nat, n \in T PROVE n + 1 \in T
  <2>1. PICK g : Part(n, g)
    BY <1>2
  <2> DEFINE h == [k \in 0 .. n + 1 |-> IF k <= n THEN g[k] ELSE Next(g[n], k)]
  <2>4. ASSUME NEW k \in 0 .. n + 1 PROVE h[k] = IF k = 0 THEN ws ELSE Next(h[k - 1], k)
    <3> HIDE DEF Next
    <3>1. CASE k = n + 1
      BY <1>2, <3>1
    <3>2. CASE k # n + 1 /\ k # 0
      <4>1. k \in 0 .. n /\ k - 1 \in 0 .. n /\ k - 1 <= n /\ k <= n
        BY <1>2, <3>2
      <4>2. g[k] = Next(g[k - 1], k)
        BY <2>1, <4>1, <3>2 DEF Next
      <4> QED BY <3>2, <4>1, <4>2
    <3>3. CASE k = 0
      BY <2>1, <3>3
    <3> QED BY <3>1, <3>2, <3>3
  <2>5. Part(n + 1, h)
    <3> SUFFICES h = [k \in 0 .. n + 1 |-> IF k = 0 THEN ws ELSE Next(h[k - 1], k)]
      OBVIOUS
    <3> HIDE DEF Next
    <3>1. h = [k \in 0 .. n + 1 |-> h[k]]
      OBVIOUS
    <3> HIDE DEF h
    <3> QED BY <3>1, <2>4
  <2> HIDE DEF Part, h
  <2> QED BY <1>2, <2>5
<1>3. \A n \in Nat : n \in T
  <2> HIDE DEF T
  <2> QED BY <1>1, <1>2, NatInduct
<1>4. ASSUME NEW n \in Nat, NEW m \in Nat, NEW g, NEW h, Part(n, g), Part(m, h)
      PROVE  \A k \in Nat : k <= n /\ k <= m => g[k] = h[k]
  <2> HIDE DEF Next
  <2>1. 0 \in U(n, m, g, h)
    BY <1>4
  <2>2. ASSUME NEW k \in Nat, k \in U(n, m, g, h) PROVE k + 1 \in U(n, m, g, h)
    <3> SUFFICES ASSUME k + 1 <= n, k + 1 <= m PROVE g[k + 1] = h[k + 1]
      OBVIOUS
    <3>1. k + 1 \in 0 .. n /\ k + 1 \in 0 .. m /\ k <= n /\ k <= m /\ k + 1 # 0 /\ (k + 1) - 1 = k
      OBVIOUS
    <3>2. g[k + 1] = Next(g[k], k + 1) /\ h[k + 1] = Next(h[k], k + 1)
      BY <3>1, <1>4 DEF Next
    <3> QED BY <2>2, <3>1, <3>2
  <2>3. \A k \in Nat : k \in U(n, m, g, h)
    <3> HIDE DEF U
    <3> QED BY <2>1, <2>2, NatInduct
  <2> QED BY <2>3
<1> DEFINE G(n) == CHOOSE g : Part(n, g)
           f == [n \in Nat |-> G(n)[n]]
<1>5. ASSUME NEW n \in Nat PROVE Part(n, G(n))
  <2>1. \E g : Part(n, g)
    BY <1>3
  <2> HIDE DEF Part
  <2> QED BY <2>1
<1>6. ASSUME NEW n \in Nat PROVE f[n] = IF n = 0 THEN ws ELSE Next(f[n - 1], n)
  <2>1. CASE n = 0
    <3>1. G(0)[0] = ws
      <4>1. Part(0, G(0))
        BY <1>5
      <4> HIDE DEF G
      <4> QED BY <4>1
    <3> HIDE DEF G
    <3> QED BY <2>1, <3>1
  <2>2. CASE n # 0
    <3>1. n - 1 \in Nat /\ n - 1 <= n /\ n \in 0 .. n /\ n - 1 <= n - 1
      BY <2>2
    <3>2. Part(n, G(n)) /\ Part(n - 1, G(n - 1))
      <4> HIDE DEF Part, G
      <4> QED BY <1>5, <3>1
    <3>3. G(n)[n - 1] = G(n - 1)[n - 1]
      <4> HIDE DEF Part, G
      <4> QED BY <3>1, <3>2, <1>4
    <3> HIDE DEF G
    <3>4. G(n)[n] = Next(G(n)[n - 1], n)
      BY <3>1, <3>2, <2>2
    <3> HIDE DEF Next
    <3> QED BY <3>1, <3>3, <3>4, <2>2
  <2> QED BY <2>1, <2>2
<1>7. f = [k \in Nat |-> IF k = 0 THEN ws ELSE UNION {Step(a, b, v, k) : v \in f[k - 1]}]
  <2>1. f = [k \in Nat |-> f[k]]
    <3> HIDE DEF G
    <3> QED OBVIOUS
  <2> HIDE DEF f
  <2> QED BY <1>6, <2>1
<1> HIDE DEF f
<1> DEFINE IsIt(x) == x = [k \in Nat |-> IF k = 0 THEN ws ELSE UNION {Step(a, b, v, k) : v \in x[k - 1]}]
<1>8. IsIt(f)
  BY <1>7
<1>9. IsIt(CHOOSE x : IsIt(x))
  <2> HIDE DEF IsIt
  <2> QED BY <1>8
<1>10. Steps(a, b, ws) = CHOOSE x : IsIt(x)
  BY Zenon DEF Steps
<1>11. IsIt(Steps(a, b, ws))
  <2> HIDE DEF IsIt
  <2> QED BY <1>9, <1>10
<1> QED
  <2>1. Steps(a, b, ws) =
             [k \in Nat |-> IF k = 0 THEN ws ELSE UNION {Step(a, b, v, k) : v \in Steps(a, b, ws)[k - 1]}]
    BY <1>11, Zenon
  <2> QED BY <2>1 DEF Turn

\* What holds before a loop and is kept by each turn holds after it.
LEMMA StepsKeep ==
    ASSUME NEW p, NEW a, NEW b, NEW ws, NEW n \in Nat,
           \A v \in ws : Good(p, v),
           \A v : Good(p, v) => \A k \in 1 .. n : \A u \in Step(a, b, v, k) : Good(p, u)
    PROVE  \A v \in Steps(a, b, ws)[n] : Good(p, v)
<1> DEFINE after == Steps(a, b, ws)
           T == {k \in Nat : k <= n => \A v \in after[k] : Good(p, v)}
<1>1. ASSUME NEW k \in Nat
      PROVE  after[k] = IF k = 0 THEN ws ELSE Turn(a, b, after[k - 1], k)
  <2>1. Steps(a, b, ws)[k] =
          IF k = 0 THEN ws ELSE Turn(a, b, Steps(a, b, ws)[k - 1], k)
    BY StepsDefined
  <2> QED BY <2>1
<1> HIDE DEF after
<1>2. 0 \in T
  BY <1>1
<1>3. ASSUME NEW k \in Nat, k \in T PROVE k + 1 \in T
  <2>1. after[k + 1] = Turn(a, b, after[k], k + 1)
    <3>1. k + 1 \in Nat /\ k + 1 # 0 /\ (k + 1) - 1 = k
      OBVIOUS
    <3>2. after[k + 1] = IF k + 1 = 0 THEN ws ELSE Turn(a, b, after[(k + 1) - 1], k + 1)
      BY <1>1, <3>1, Zenon
    <3> QED BY <3>1, <3>2, Zenon
  <2>2. ASSUME k + 1 <= n, NEW u \in after[k + 1] PROVE Good(p, u)
    <3>1. PICK v \in after[k] : u \in Step(a, b, v, k + 1)
      BY <2>1, <2>2, Zenon DEF Turn
    <3>2. k + 1 \in 1 .. n /\ k <= n
      BY <2>2
    <3> QED BY <1>3, <3>1, <3>2
  <2> QED BY <2>2
<1>4. n \in T
  <2> HIDE DEF T
  <2> QED BY <1>2, <1>3, NatInduct
<1> QED BY <1>4 DEF after
=============================================================================
