--------------------------- MODULE ExfatDir_proofs ---------------------------
(***************************************************************************)
(* Proofs about the nodes of libexfat, for volumes of any size, any names  *)
(* and paths, and every sequence of calls, failing writes and crashes:     *)
(* each call gives back the references that it takes, on each of its ways  *)
(* out, whatever it has found in the directories; and the library aborts   *)
(* for no other reasons than AbortsOnlyFor names.                          *)
(*                                                                         *)
(* A call is followed from world to world.  r is an account of what the    *)
(* call relies on: how many references each node should have, and what is  *)
(* known of the tree; each lemma is named for the operation that takes     *)
(* references or gives them back.                                          *)
(***************************************************************************)
EXTENDS ExfatDir, TLAPS

-----------------------------------------------------------------------------
(***************************************************************************)
(* What every operation keeps of a world.                                  *)
(***************************************************************************)
\* How a volume is mounted.
Kind(m) == IF ~m.ro THEN "writes" ELSE IF m.repair THEN "mends" ELSE "reads"

\* refs: the references of each node; held: the nodes that callers hold; cached:
\* directories that have been read; parents: nodes, each with the directory it is in.
\* Of a world of the kind "lost" it is known that entries named the same clusters.
Accounts ==
    {r \in [refs : [Nodes -> Nat], held : SUBSET Nodes,
            kind : {"writes", "mends", "reads", "lost"},
            cached : SUBSET Nodes, parents : SUBSET (Nodes \X Nodes)] : r.refs[Root] # 0}

Ledgers == {r \in Accounts : r.parents = {}}

\* One reference more to node n, if it is one.
Take(r, n) == [r EXCEPT !.refs[n] = @ + 1]

\* The directory d has been read.
Know(r, d) == [r EXCEPT !.cached = @ \cup {d}]

\* The node n is in d.
Pin(r, n, d) == [r EXCEPT !.parents = @ \cup {<<n, d>>}]

\* Reasons for which the library may abort a call.
Blame(r, x) ==
    /\ r.kind # "lost"
    /\ x \in Bugs =>
         \/ x \in {"bug:dirty", "bug:file", "bug:impossible", "bug:null"}
         \/ x = "bug:readonly" /\ r.kind = "mends"
         \/ x = "bug:references" /\ r.held # {}

Shaped(w) ==
    /\ {"vol", "mem", "rc", "faults", "got", "dir", "off"} \subseteq DOMAIN w
    /\ {"nodes", "crossed", "on", "ro", "repair"} \subseteq DOMAIN w.mem
    /\ DOMAIN w.mem.nodes = Nodes
    /\ \A n \in Nodes :
         /\ {"refs", "parent", "cached", "unlinked", "dirty"} \subseteq DOMAIN w.mem.nodes[n]
         /\ w.mem.nodes[n].parent \in Nodes \cup {NIL}
    /\ w.mem.on

\* Each node has the references it should have.
RefsAre(r, w) == \A n \in Nodes : w.mem.nodes[n].refs = r.refs[n]

\* The root is in no directory, nor is a node that has been removed; no node is in itself.
Rooted(w) ==
    /\ w.mem.nodes[Root].parent = NIL
    /\ \A n \in Nodes : /\ w.mem.nodes[n].parent # n
                        /\ w.mem.nodes[n].cached => IsDir(n)
                        /\ w.mem.nodes[n].unlinked => w.mem.nodes[n].parent = NIL

\* What is known of the tree is still so.
Kept(r, w) ==
    /\ \A n \in r.cached : w.mem.nodes[n].cached
    /\ \A n \in Nodes : \A d \in Nodes : <<n, d>> \in r.parents => w.mem.nodes[n].parent = d

\* Nothing is dirty in a volume that can be neither written nor repaired.
Moded(r, w) ==
    r.kind = Kind(w.mem) /\ (r.kind = "reads" => \A n \in Nodes : ~w.mem.nodes[n].dirty)

Tidy(r, w) == RefsAre(r, w) /\ Rooted(w) /\ Kept(r, w) /\ Moded(r, w)

\* All this holds if nodes can be told apart.
Counted(r, w) == w.mem.crossed \/ Tidy(r, w)

\* A call that has been stopped loses the memory.
Sound(r, w) ==
    /\ Shaped(w)
    /\ Stopped(w) => w.mem.crossed \/ Blame(r, w.rc)
    /\ ~Stopped(w) => Counted(r, w)

\* The call goes on.
Going(r, w) == w.rc = "ok" /\ Shaped(w) /\ Counted(r, w)

\* The node n can be removed from its directory, or is the root.
Placed(w, n) ==
    \/ w.mem.crossed
    \/ n = Root
    \/ w.mem.nodes[n].parent \in Nodes /\ w.mem.nodes[w.mem.nodes[n].parent].cached

\* What a lookup leaves: a reference to the node found, or none.
Found(r, w) ==
    IF w.rc = "ok" THEN w.got \in Nodes /\ Sound(Take(r, w.got), w) /\ Placed(w, w.got)
    ELSE Sound(r, w)

\* The node n can be resized.
Cared(r, w, n) ==
    w.mem.crossed \/ (n \in Nodes /\ (r.refs[n] # 0 \/ w.mem.nodes[n].parent = NIL))

\* Two memories differ in nothing that Tidy speaks of, but for dirty nodes.
Alike(v, w) ==
    /\ v.mem.crossed = w.mem.crossed /\ v.mem.ro = w.mem.ro /\ v.mem.repair = w.mem.repair
    /\ \A n \in Nodes : /\ v.mem.nodes[n].refs = w.mem.nodes[n].refs
                        /\ v.mem.nodes[n].parent = w.mem.nodes[n].parent
                        /\ v.mem.nodes[n].cached = w.mem.nodes[n].cached
                        /\ v.mem.nodes[n].unlinked = w.mem.nodes[n].unlinked

-----------------------------------------------------------------------------
(***************************************************************************)
(* Accounts.                                                               *)
(***************************************************************************)
\* The fields of an account.
LEMMA AccountFields ==
    ASSUME NEW r \in Accounts
    PROVE  /\ r \in [refs : [Nodes -> Nat], held : SUBSET Nodes,
                     kind : {"writes", "mends", "reads", "lost"},
                     cached : SUBSET Nodes, parents : SUBSET (Nodes \X Nodes)]
           /\ DOMAIN r = {"refs", "held", "kind", "cached", "parents"}
           /\ r.refs \in [Nodes -> Nat] /\ r.cached \subseteq Nodes /\ r.refs[Root] # 0
           /\ r.parents \subseteq Nodes \X Nodes
           /\ Root \in Nodes /\ NIL \notin Nodes
BY ExfatDirAssumption DEF Accounts, Nodes

\* exfat_get_node adds to the references of a node, and to nothing else.
LEMMA TakeElse ==
    ASSUME NEW r \in Accounts, NEW n
    PROVE  /\ Take(r, n) \in Accounts /\ (r \in Ledgers => Take(r, n) \in Ledgers)
           /\ Take(r, n).held = r.held /\ Take(r, n).kind = r.kind
           /\ Take(r, n).cached = r.cached /\ Take(r, n).parents = r.parents
           /\ \A m \in Nodes : Take(r, n).refs[m] = IF m = n THEN r.refs[m] + 1 ELSE r.refs[m]
<1>1. /\ DOMAIN r = {"refs", "held", "kind", "cached", "parents"}
      /\ r.refs \in [Nodes -> Nat] /\ r.refs[Root] # 0 /\ Root \in Nodes
  BY AccountFields
<1> DEFINE f == [r.refs EXCEPT ![n] = @ + 1]
<1>2. f \in [Nodes -> Nat] /\ \A m \in Nodes : f[m] = IF m = n THEN r.refs[m] + 1 ELSE r.refs[m]
  <2>1. CASE n \in Nodes
    BY <1>1, <2>1
  <2>2. CASE n \notin Nodes
    <3>1. f = r.refs
      BY <1>1, <2>2
    <3> QED BY <1>1, <2>2, <3>1
  <2> QED BY <2>1, <2>2
<1>3. Take(r, n) = [r EXCEPT !.refs = f]
  BY DEF Take
<1>4. f[Root] # 0
  BY <1>1, <1>2
<1> HIDE DEF f
<1>5. [r EXCEPT !.refs = f] \in Accounts
  <2>1. r \in [refs : [Nodes -> Nat], held : SUBSET Nodes,
               kind : {"writes", "mends", "reads", "lost"},
               cached : SUBSET Nodes, parents : SUBSET (Nodes \X Nodes)]
    BY AccountFields
  <2> QED BY <1>2, <1>4, <2>1 DEF Accounts
<1>6. /\ [r EXCEPT !.refs = f].held = r.held /\ [r EXCEPT !.refs = f].kind = r.kind
      /\ [r EXCEPT !.refs = f].cached = r.cached /\ [r EXCEPT !.refs = f].parents = r.parents
      /\ [r EXCEPT !.refs = f].refs = f
  BY <1>1
<1> QED BY <1>2, <1>3, <1>5, <1>6 DEF Ledgers

\* What is known adds to nothing else.
LEMMA KnowElse ==
    ASSUME NEW r \in Accounts, NEW d \in Nodes
    PROVE  /\ Know(r, d) \in Accounts /\ (r \in Ledgers => Know(r, d) \in Ledgers)
           /\ Know(r, d).held = r.held /\ Know(r, d).kind = r.kind
           /\ Know(r, d).refs = r.refs /\ Know(r, d).parents = r.parents
           /\ Know(r, d).cached = r.cached \cup {d}
<1>1. /\ DOMAIN r = {"refs", "held", "kind", "cached", "parents"}
      /\ r.cached \subseteq Nodes /\ r.parents \subseteq Nodes \X Nodes
      /\ r.refs[Root] # 0
      /\ r \in [refs : [Nodes -> Nat], held : SUBSET Nodes,
                kind : {"writes", "mends", "reads", "lost"},
                cached : SUBSET Nodes, parents : SUBSET (Nodes \X Nodes)]
  BY AccountFields
<1>2. /\ Know(r, d) \in Accounts
      /\ Know(r, d).held = r.held /\ Know(r, d).kind = r.kind
      /\ Know(r, d).refs = r.refs /\ Know(r, d).parents = r.parents
      /\ Know(r, d).cached = r.cached \cup {d}
  BY <1>1 DEF Know, Accounts
<1> QED BY <1>2 DEF Ledgers

\* The place of a node adds to nothing else.
LEMMA PinElse ==
    ASSUME NEW r \in Accounts, NEW d \in Nodes, NEW n \in Nodes
    PROVE  /\ Pin(r, n, d) \in Accounts
           /\ Pin(r, n, d).held = r.held /\ Pin(r, n, d).kind = r.kind
           /\ Pin(r, n, d).refs = r.refs /\ Pin(r, n, d).cached = r.cached
           /\ Pin(r, n, d).parents = r.parents \cup {<<n, d>>}
<1>1. /\ DOMAIN r = {"refs", "held", "kind", "cached", "parents"}
      /\ r.cached \subseteq Nodes /\ r.parents \subseteq Nodes \X Nodes
      /\ r.refs[Root] # 0
      /\ r \in [refs : [Nodes -> Nat], held : SUBSET Nodes,
                kind : {"writes", "mends", "reads", "lost"},
                cached : SUBSET Nodes, parents : SUBSET (Nodes \X Nodes)]
  BY AccountFields
<1> QED BY <1>1 DEF Pin, Accounts

\* References can be taken in any order.
LEMMA TakeTwo ==
    ASSUME NEW r \in Accounts, NEW a, NEW b PROVE Take(Take(r, a), b) = Take(Take(r, b), a)
<1> DEFINE f == [[r.refs EXCEPT ![a] = @ + 1] EXCEPT ![b] = @ + 1]
           g == [[r.refs EXCEPT ![b] = @ + 1] EXCEPT ![a] = @ + 1]
<1>1. DOMAIN r = {"refs", "held", "kind", "cached", "parents"} /\ r.refs \in [Nodes -> Nat]
  BY AccountFields
<1>2. f = g
  <2>1. DOMAIN f = DOMAIN g /\ DOMAIN f = Nodes
    BY <1>1
  <2>2. \A m \in Nodes : f[m] = g[m]
    BY <1>1
  <2> QED BY <1>1, <2>1, <2>2
<1>3. Take(Take(r, a), b) = [r EXCEPT !.refs = f] /\ Take(Take(r, b), a) = [r EXCEPT !.refs = g]
  BY <1>1 DEF Take
<1> HIDE DEF f, g
<1> QED BY <1>2, <1>3

\* What is counted of more is counted of less, and an abort has the same reasons.
LEMMA SoundLess ==
    ASSUME NEW r \in Accounts, NEW q \in Accounts, q.refs = r.refs, q.held = r.held,
           q.kind = r.kind, r.cached \subseteq q.cached, r.parents \subseteq q.parents, NEW w
    PROVE  /\ Counted(q, w) => Counted(r, w)
           /\ Sound(q, w) => Sound(r, w)
           /\ Going(q, w) => Going(r, w)
<1>1. Counted(q, w) => Counted(r, w)
  BY DEF Counted, Tidy, RefsAre, Kept, Moded
<1>2. \A x : Blame(q, x) => Blame(r, x)
  BY DEF Blame
<1> QED BY <1>1, <1>2 DEF Sound, Going

\* A call that has not been stopped, or that has succeeded.
LEMMA SoundGoes ==
    ASSUME NEW r, NEW w
    PROVE  /\ Going(r, w) => Sound(r, w)
           /\ Sound(r, w) /\ w.rc = "ok" => Going(r, w)
           /\ w.rc \in {"ok", "EIO", "ENOENT", "ENOSPC", "EEXIST", "EISDIR", "ENOTDIR",
                        "ENOTEMPTY", "EINVAL"} => ~Stopped(w)
BY DEF Going, Sound, Stopped, Bugs

\* What is alike is counted alike.
LEMMA CountedAlike ==
    ASSUME NEW r \in Accounts, NEW w, NEW v, Shaped(w), Counted(r, w), Alike(v, w),
           r.kind = "reads" /\ ~w.mem.crossed =>
             \A n \in Nodes : v.mem.nodes[n].dirty => w.mem.nodes[n].dirty
    PROVE  Counted(r, v)
<1>1. CASE w.mem.crossed
  BY <1>1 DEF Alike, Counted
<1>2. CASE ~w.mem.crossed
  <2>1. Tidy(r, w)
    BY <1>2 DEF Counted
  <2>2. RefsAre(r, v) /\ Rooted(v)
    BY <2>1, AccountFields DEF Alike, Tidy, RefsAre, Rooted
  <2>3. Kept(r, v)
    BY <2>1, AccountFields DEF Alike, Tidy, Kept
  <2>4. Moded(r, v)
    <3>1. Kind(v.mem) = Kind(w.mem)
      BY DEF Alike, Kind
    <3> QED BY <1>2, <2>1, <3>1 DEF Tidy, Moded
  <2> QED BY <2>2, <2>3, <2>4 DEF Tidy, Counted
<1> QED BY <1>1, <1>2

\* Nothing changes in memory.
LEMMA SameMemory ==
    ASSUME NEW r, NEW w, NEW v, v.mem = w.mem,
           {"vol", "mem", "rc", "faults", "got", "dir", "off"} \subseteq DOMAIN v
    PROVE  /\ Shaped(w) => Shaped(v)
           /\ Counted(r, w) => Counted(r, v)
           /\ Going(r, w) /\ v.rc = w.rc => Going(r, v)
BY DEF Going, Shaped, Counted, Tidy, RefsAre, Rooted, Kept, Moded

\* Nothing changes that Going speaks of.
LEMMA GoingElse ==
    ASSUME NEW r, NEW w, Going(r, w), NEW x
    PROVE  /\ Going(r, [w EXCEPT !.got = x]) /\ Going(r, [w EXCEPT !.dir = x])
           /\ Going(r, [w EXCEPT !.off = x]) /\ Going(r, [w EXCEPT !.vol = x])
           /\ Going(r, [w EXCEPT !.faults = x])
           /\ [w EXCEPT !.got = x].got = x /\ [w EXCEPT !.rc = x].rc = x
           /\ [w EXCEPT !.got = x].mem = w.mem /\ [w EXCEPT !.dir = x].mem = w.mem
           /\ [w EXCEPT !.off = x].mem = w.mem /\ [w EXCEPT !.rc = x].mem = w.mem
           /\ [w EXCEPT !.off = x].off = x
<1>1. {"vol", "mem", "rc", "faults", "got", "dir", "off"} \subseteq DOMAIN w
  BY DEF Going, Shaped
<1> QED BY <1>1, SameMemory

\* The result changes.
LEMMA CountedResult ==
    ASSUME NEW r, NEW w, Shaped(w), Counted(r, w), NEW x
    PROVE  /\ w.mem.crossed \/ Blame(r, x) => Sound(r, [w EXCEPT !.rc = x])
           /\ [w EXCEPT !.rc = x].rc = x /\ [w EXCEPT !.rc = x].mem = w.mem
           /\ [w EXCEPT !.rc = x].got = w.got /\ [w EXCEPT !.rc = x].dir = w.dir
           /\ Going(r, [w EXCEPT !.rc = "ok"])
<1>1. {"vol", "mem", "rc", "faults", "got", "dir", "off"} \subseteq DOMAIN w
  BY DEF Shaped
<1>2. /\ [w EXCEPT !.rc = x].rc = x /\ [w EXCEPT !.rc = x].mem = w.mem
      /\ [w EXCEPT !.rc = x].got = w.got /\ [w EXCEPT !.rc = x].dir = w.dir
      /\ {"vol", "mem", "rc", "faults", "got", "dir", "off"} \subseteq DOMAIN [w EXCEPT !.rc = x]
  BY <1>1
<1>3. Shaped([w EXCEPT !.rc = x]) /\ Counted(r, [w EXCEPT !.rc = x])
  BY <1>2, SameMemory
<1>4. Going(r, [w EXCEPT !.rc = "ok"])
  BY <1>1, SameMemory DEF Going
<1> QED BY <1>2, <1>3, <1>4 DEF Sound

\* Failures, and mistakes of the caller, need no other reason.
LEMMA Blameless ==
    ASSUME NEW r, NEW w, Counted(r, w)
    PROVE  \A x \in {"ok", "EIO", "ENOENT", "ENOSPC", "EEXIST", "EISDIR", "ENOTDIR", "ENOTEMPTY",
                     "EINVAL", "crash", "bug:dirty", "bug:file", "bug:impossible", "bug:null"} :
             w.mem.crossed \/ Blame(r, x)
BY DEF Blame, Bugs, Counted, Tidy, Moded, Kind

\* A failure ends the operation.
LEMMA SoundGives ==
    ASSUME NEW r, NEW w, Going(r, w), NEW x, w.mem.crossed \/ Blame(r, x)
    PROVE  \A v \in Gives(w, x) : Sound(r, v) /\ v.rc = x /\ v.mem = w.mem
<1>1. Shaped(w) /\ Counted(r, w)
  BY DEF Going
<1>2. Sound(r, [w EXCEPT !.rc = x])
  BY <1>1, CountedResult
<1>4. [w EXCEPT !.rc = x].rc = x
  BY <1>1, CountedResult
<1>5. [w EXCEPT !.rc = x].mem = w.mem
  BY <1>1, CountedResult
<1>3. Gives(w, x) = {[w EXCEPT !.rc = x]}
  BY Zenon DEF Gives
<1> QED BY <1>2, <1>3, <1>4, <1>5, Zenon

-----------------------------------------------------------------------------
(***************************************************************************)
(* Writing.                                                                *)
(***************************************************************************)
\* A node becomes dirty, or is so no more, and so does the label.
LEMMA GoingNode ==
    ASSUME NEW r \in Accounts, NEW w, Going(r, w), NEW n, NEW x
    PROVE  /\ r.kind # "reads" => Going(r, [w EXCEPT !.mem.nodes[n].dirty = TRUE])
           /\ Going(r, [w EXCEPT !.mem.nodes[n].dirty = FALSE])
           /\ Going(r, [w EXCEPT !.mem.label = x])
<1>1. ASSUME NEW b \in BOOLEAN, b => r.kind # "reads"
      PROVE  Going(r, [w EXCEPT !.mem.nodes[n].dirty = b])
  <2> DEFINE v == [w EXCEPT !.mem.nodes[n].dirty = b]
  <2>1. Shaped(v) /\ v.rc = "ok"
    BY <1>1 DEF Going, Shaped
  <2>2. Alike(v, w)
    BY <1>1 DEF Going, Shaped, Alike
  <2>3. \A m \in Nodes : v.mem.nodes[m].dirty = (IF m = n THEN b ELSE w.mem.nodes[m].dirty)
    BY <1>1 DEF Going, Shaped
  <2> HIDE DEF v
  <2>4. Counted(r, v)
    BY <1>1, <2>1, <2>2, <2>3, CountedAlike DEF Going
  <2> QED BY <2>1, <2>4 DEF Going, v
<1>2. Going(r, [w EXCEPT !.mem.label = x])
  <2> DEFINE v == [w EXCEPT !.mem.label = x]
  <2>1. Shaped(v) /\ v.rc = "ok" /\ Alike(v, w) /\ v.mem.nodes = w.mem.nodes
    BY DEF Going, Shaped, Alike
  <2> HIDE DEF v
  <2>2. Counted(r, v)
    BY <2>1, CountedAlike DEF Going
  <2> QED BY <2>1, <2>2 DEF Going, v
<1> QED BY <1>1, <1>2

\* A write fails, or is the last one before a crash, or is done.
LEMMA SoundTry ==
    ASSUME NEW r, NEW w, NEW done, Going(r, w), ~w.mem.ro => Going(r, done)
    PROVE  \A v \in Try(w, done) :
             /\ Sound(r, v)
             /\ \/ v = done /\ ~w.mem.ro
                \/ v.rc \in {"EIO", "crash"} /\ v.mem = w.mem
<1>1. ASSUME NEW x \in {"EIO", "crash"}, NEW v, v = [w EXCEPT !.rc = x, !.faults = @ - 1]
      PROVE  Sound(r, v) /\ v.rc = x /\ v.mem = w.mem
  <2>1. v.rc = x /\ v.mem = w.mem
        /\ {"vol", "mem", "rc", "faults", "got", "dir", "off"} \subseteq DOMAIN v
    BY <1>1 DEF Going, Shaped
  <2>2. Shaped(v) /\ Counted(r, v)
    BY <2>1, SameMemory DEF Going
  <2>3. v.mem.crossed \/ Blame(r, x)
    BY <2>2, Blameless
  <2> QED BY <2>1, <2>2, <2>3 DEF Sound
<1>2. \A v \in Gives(w, "EIO") : Sound(r, v) /\ v.rc = "EIO" /\ v.mem = w.mem
  <2>1. w.mem.crossed \/ Blame(r, "EIO")
    BY Blameless DEF Going
  <2> QED BY <2>1, SoundGives
<1>3. ASSUME NEW v \in Try(w, done)
      PROVE  \/ v \in Gives(w, "EIO")
             \/ v = done /\ ~w.mem.ro
             \/ \E x \in {"EIO", "crash"} : v = [w EXCEPT !.rc = x, !.faults = @ - 1]
  BY <1>3 DEF Try
<1>4. ASSUME NEW v \in Try(w, done)
      PROVE  /\ Sound(r, v)
             /\ \/ v = done /\ ~w.mem.ro
                \/ v.rc \in {"EIO", "crash"} /\ v.mem = w.mem
  <2>1. CASE v \in Gives(w, "EIO")
    BY <1>2, <2>1
  <2>2. CASE v = done /\ ~w.mem.ro
    <3>1. Sound(r, done)
      BY <2>2, SoundGoes
    <3> QED BY <2>2, <3>1
  <2>3. CASE \E x \in {"EIO", "crash"} : v = [w EXCEPT !.rc = x, !.faults = @ - 1]
    <3>1. PICK x \in {"EIO", "crash"} : v = [w EXCEPT !.rc = x, !.faults = @ - 1]
      BY <2>3
    <3> QED BY <1>1, <3>1
  <2> QED BY <1>3, <1>4, <2>1, <2>2, <2>3
<1> QED BY <1>4

\* Entries change, and nothing in memory.
LEMMA GoingOverlay ==
    ASSUME NEW r, NEW w, Going(r, w), NEW d, NEW off, NEW s
    PROVE  Going(r, Overlay(w, d, off, s)) /\ Overlay(w, d, off, s).mem = w.mem
<1>1. PICK a : Overlay(w, d, off, s) = [w EXCEPT !.vol = a]
  BY DEF Overlay
<1>2. [w EXCEPT !.vol = a].mem = w.mem
  BY DEF Going, Shaped
<1>3. Going(r, [w EXCEPT !.vol = a])
  BY GoingElse
<1> QED BY <1>1, <1>2, <1>3, Zenon

\* exfat_generic_pwrite
LEMMA SoundWriteEntries ==
    ASSUME NEW r, NEW w, Going(r, w), NEW d, NEW off, NEW s
    PROVE  \A v \in WriteEntries(w, d, off, s) :
             /\ Sound(r, v)
             /\ v.mem = w.mem /\ v.rc \in {"ok", "EIO", "crash"}
<1> DEFINE Ends(v) == Sound(r, v) /\ v.mem = w.mem /\ v.rc \in {"ok", "EIO", "crash"}
<1>1. ASSUME NEW u, Going(r, u), u.mem = w.mem, NEW t PROVE \A v \in Try(u, Overlay(u, d, off, t)) : Ends(v)
  <2>1. Going(r, Overlay(u, d, off, t)) /\ Overlay(u, d, off, t).mem = w.mem
    BY <1>1, GoingOverlay
  <2> DEFINE done == Overlay(u, d, off, t)
  <2>2. done.rc = "ok"
    BY <2>1 DEF Going
  <2> HIDE DEF done
  <2> QED BY <1>1, <2>1, <2>2, SoundTry DEF done
<1> DEFINE t == SubSeq(s, 1, ClusterSlots - (off % ClusterSlots))
           Rest(v) == Try(v, Overlay(v, d, off, s))
<1>2. \A v \in Try(w, Overlay(w, d, off, t)) : Ends(v)
  BY <1>1
<1>3. \A u : Going(r, u) /\ u.mem = w.mem => \A v \in Rest(u) : Ends(v)
  BY <1>1
<1>4. \A v \in Try(w, Overlay(w, d, off, s)) : Ends(v)
  BY <1>1
<1>5. \/ WriteEntries(w, d, off, s) = Try(w, Overlay(w, d, off, s))
      \/ WriteEntries(w, d, off, s) = Then(Try(w, Overlay(w, d, off, t)), Rest)
  BY Zenon DEF WriteEntries
<1> HIDE DEF Rest, t
<1>6. \A v \in Then(Try(w, Overlay(w, d, off, t)), Rest) : Ends(v)
  BY <1>2, <1>3, SoundGoes DEF Then
<1> HIDE DEF Ends
<1>7. \A v \in WriteEntries(w, d, off, s) : Ends(v)
  BY <1>4, <1>5, <1>6
<1> QED BY <1>7 DEF Ends

\* exfat_flush
LEMMA SoundFlush ==
    ASSUME NEW r, NEW w, Going(r, w)
    PROVE  \A v \in Flush(w) : Sound(r, v) /\ v.mem = w.mem
<1>1. PICK a : [w EXCEPT !.vol.used = w.mem.used] = [w EXCEPT !.vol = a]
  OBVIOUS
<1>2. Going(r, [w EXCEPT !.vol = a]) /\ [w EXCEPT !.vol = a].mem = w.mem
  <2>1. [w EXCEPT !.vol = a].mem = w.mem
    BY DEF Going, Shaped
  <2> QED BY <2>1, GoingElse
<1> DEFINE done == [w EXCEPT !.vol = a]
<1>3. Flush(w) \in {{w}, Try(w, done)}
  BY <1>1 DEF Flush
<1> HIDE DEF done
<1>4. Going(r, done) /\ done.mem = w.mem
  BY <1>2 DEF done
<1>5. \A v \in Try(w, done) : Sound(r, v) /\ v.mem = w.mem
  BY <1>4, SoundTry
<1> QED BY <1>3, <1>5, SoundGoes

\* exfat_truncate of a node that has a reference, or that has been removed.
LEMMA SoundTruncate ==
    ASSUME NEW r \in Accounts, NEW w, Going(r, w), NEW n, Cared(r, w, n), NEW size
    PROVE  \A v \in Truncate(w, n, size) : Sound(r, v) /\ Alike(v, w)
<1>1. ASSUME NEW a, NEW b, ~w.mem.ro,
             NEW done, done = [w EXCEPT !.vol.data[n] = a, !.mem.used[n] = b,
                                        !.mem.nodes[n].size = size, !.mem.nodes[n].dirty = TRUE]
      PROVE  Going(r, done) /\ Alike(done, w)
  <2>1. /\ {"vol", "mem", "rc", "faults", "got", "dir", "off"} \subseteq DOMAIN done
        /\ done.rc = "ok" /\ DOMAIN done.mem = DOMAIN w.mem
        /\ done.mem.on = w.mem.on /\ done.mem.crossed = w.mem.crossed
        /\ done.mem.ro = w.mem.ro /\ done.mem.repair = w.mem.repair
    BY <1>1 DEF Going, Shaped
  <2>2. DOMAIN done.mem.nodes = Nodes
    BY <1>1 DEF Going, Shaped
  <2>3. ASSUME NEW m \in Nodes
        PROVE  /\ DOMAIN w.mem.nodes[m] \subseteq DOMAIN done.mem.nodes[m]
               /\ done.mem.nodes[m].refs = w.mem.nodes[m].refs
               /\ done.mem.nodes[m].parent = w.mem.nodes[m].parent
               /\ done.mem.nodes[m].cached = w.mem.nodes[m].cached
               /\ done.mem.nodes[m].unlinked = w.mem.nodes[m].unlinked
    <3>1. done.mem.nodes = [w.mem.nodes EXCEPT ![n].size = size, ![n].dirty = TRUE]
      BY <1>1 DEF Going, Shaped
    <3>2. DOMAIN w.mem.nodes = Nodes
      BY DEF Going, Shaped
    <3>3. {"refs", "parent", "cached", "unlinked"} \subseteq DOMAIN w.mem.nodes[m]
      BY DEF Going, Shaped
    <3> QED BY <3>1, <3>2, <3>3
  <2>4. Alike(done, w)
    BY <2>1, <2>3 DEF Alike
  <2>5. Shaped(done)
    BY <2>1, <2>2, <2>3 DEF Going, Shaped
  <2>6. w.mem.crossed \/ r.kind # "reads"
    BY <1>1 DEF Going, Counted, Tidy, Moded, Kind
  <2>7. Counted(r, done)
    BY <2>4, <2>6, CountedAlike DEF Going
  <2> QED BY <2>1, <2>4, <2>5, <2>7 DEF Going
<1>2. PICK a, b : Truncate(w, n, size) \in
        {IF w.mem.nodes[n].refs = 0 /\ w.mem.nodes[n].parent # NIL
         THEN Gives(w, "bug:unreferenced") ELSE {w}, {w}, Gives(w, "ENOSPC"), Gives(w, "EIO"),
         Try(w, [w EXCEPT !.vol.data[n] = a, !.mem.used[n] = b,
                          !.mem.nodes[n].size = size, !.mem.nodes[n].dirty = TRUE])}
  BY DEF Truncate
<1>3. ASSUME NEW v, v.mem = w.mem PROVE Alike(v, w)
  BY <1>3 DEF Alike
<1>4. \A v \in Try(w, [w EXCEPT !.vol.data[n] = a, !.mem.used[n] = b,
                          !.mem.nodes[n].size = size, !.mem.nodes[n].dirty = TRUE]) :
        Sound(r, v) /\ Alike(v, w)
  <2> DEFINE done == [w EXCEPT !.vol.data[n] = a, !.mem.used[n] = b,
                               !.mem.nodes[n].size = size, !.mem.nodes[n].dirty = TRUE]
  <2>1. ~w.mem.ro => Going(r, done) /\ Alike(done, w)
    BY <1>1
  <2> HIDE DEF done
  <2>2. \A v \in Try(w, done) : Sound(r, v) /\ Alike(v, w)
    BY <1>3, <2>1, SoundTry
  <2> QED BY <2>2 DEF done
<1>5. w.mem.crossed \/ ~(w.mem.nodes[n].refs = 0 /\ w.mem.nodes[n].parent # NIL)
  BY DEF Cared, Going, Counted, Tidy, RefsAre
<1>6. \A x \in {"ENOSPC", "EIO"} : \A v \in Gives(w, x) : Sound(r, v) /\ v.mem = w.mem
  BY SoundGives, Blameless DEF Going
<1>7. w.mem.crossed => \A v \in Gives(w, "bug:unreferenced") : Sound(r, v) /\ v.mem = w.mem
  BY SoundGives
<1> QED BY <1>2, <1>3, <1>4, <1>5, <1>6, <1>7, SoundGoes

\* exfat_generic_pread
LEMMA SoundReadable ==
    ASSUME NEW r, NEW w, Going(r, w), NEW d, NEW off, NEW n
    PROVE  \A v \in Readable(w, d, off, n) : Sound(r, v) /\ (v.rc = "ok" => v = w /\ d # NIL)
<1>1. \/ Readable(w, d, off, n) = {w} /\ d # NIL
      \/ \E x \in {"bug:null", "bug:file", "ENOENT", "EIO"} : Readable(w, d, off, n) = Gives(w, x)
  BY Zenon DEF Readable
<1>2. \A x \in {"bug:null", "bug:file", "ENOENT", "EIO"} :
        \A v \in Gives(w, x) : Sound(r, v) /\ v.rc = x
  BY SoundGives, Blameless DEF Going
<1> QED BY <1>1, <1>2, SoundGoes

\* exfat_flush_node
LEMMA SoundFlushNode ==
    ASSUME NEW r \in Accounts, NEW w, Going(r, w), NEW n, n \in Nodes \/ w.mem.crossed
    PROVE  \A v \in FlushNode(w, n) : Sound(r, v)
<1> DEFINE x == w.mem.nodes[n]
           s(v) == Entries(v, x.parent, x.off, 1 + x.cont)
           row(v) == <<[s(v)[1] EXCEPT !.o = n, !.size = x.size, !.name = s(v)[3].name],
                       [s(v)[2] EXCEPT !.o = n, !.size = x.size]>> \o SubSeq(s(v), 3, Len(s(v)))
           Rest(u) == Flush([u EXCEPT !.mem.nodes[n].dirty = FALSE])
           Write(v) == IF ~CheckEntries(s(v)) THEN Gives(v, "EIO")
                       ELSE Then(WriteEntries(v, x.parent, x.off, row(v)), Rest)
           all == Then(Readable(w, x.parent, x.off, 1 + x.cont), Write)
<1>1. FlushNode(w, n) = IF ~x.dirty THEN {w} ELSE IF w.mem.ro THEN Gives(w, "bug:readonly")
                        ELSE IF x.parent = NIL THEN {w} ELSE all
  BY Zenon DEF FlushNode
<1>2. \A u : Going(r, u) => \A v \in Rest(u) : Sound(r, v)
  <2> SUFFICES ASSUME NEW u, Going(r, u) PROVE \A v \in Rest(u) : Sound(r, v)
    OBVIOUS
  <2>1. Going(r, [u EXCEPT !.mem.nodes[n].dirty = FALSE])
    BY GoingNode
  <2> QED BY <2>1, SoundFlush
<1> HIDE DEF Rest, s, row
<1>3. ASSUME NEW u, Going(r, u) PROVE \A v \in Write(u) : Sound(r, v)
  <2>1. \A v \in Gives(u, "EIO") : Sound(r, v)
    BY <1>3, SoundGives, Blameless DEF Going
  <2>2. \A v \in Then(WriteEntries(u, x.parent, x.off, row(u)), Rest) : Sound(r, v)
    BY <1>2, <1>3, SoundWriteEntries, SoundGoes DEF Then
  <2> QED BY <2>1, <2>2
<1> HIDE DEF Write
<1>4. \A v \in all : Sound(r, v)
  BY <1>3, SoundReadable, SoundGoes DEF Then
<1> HIDE DEF all
<1>5. Sound(r, w)
  BY SoundGoes
<1>6. x.dirty /\ w.mem.ro => \A v \in Gives(w, "bug:readonly") : Sound(r, v)
  <2> SUFFICES ASSUME x.dirty, w.mem.ro PROVE \A v \in Gives(w, "bug:readonly") : Sound(r, v)
    OBVIOUS
  <2>1. w.mem.crossed \/ r.kind = "mends"
    BY DEF Going, Counted, Tidy, Moded, Kind
  <2> QED BY <2>1, SoundGives DEF Blame
<1> QED BY <1>1, <1>4, <1>5, <1>6, Zenon

-----------------------------------------------------------------------------
(***************************************************************************)
(* Reading directories, and lookups.                                       *)
(***************************************************************************)
\* One entry is deleted.
MendTurn(w, d, order, k) == WriteEntries(w, d, order[k], <<Unused>>)

\* What the deletions keep: p is the account and the memory.
MendSound(p, w) == Sound(p[1], w) /\ w.mem = p[2] /\ w.rc # "ENOENT"

Mending == INSTANCE Induction_proofs WITH
    Step <- LAMBDA a, b, v, k : IF v.rc = "ok" THEN MendTurn(v, a, b, k) ELSE {v},
    Good <- MendSound

\* exfat_fix_unknown_entry
LEMMA SoundMend ==
    ASSUME NEW r, NEW w, Going(r, w), NEW d, NEW at
    PROVE  \A v \in Mend(w, d, at) : Sound(r, v) /\ v.mem = w.mem /\ v.rc # "ENOENT"
<1> DEFINE order == SetToSortSeq(at, <)
           n == Len(order)
           p == <<r, w.mem>>
<1>1. Mend(w, d, at) = Each(n, LAMBDA v, k : MendTurn(v, d, order, k), {w})
  BY Zenon DEF Mend, MendTurn
<1> HIDE DEF n, order
<1>2. Each(n, LAMBDA v, k : MendTurn(v, d, order, k), {w}) =
         IF n \in Nat THEN Mending!Steps(d, order, {w})[n] ELSE {w}
  BY DEF Each, Turns, Mending!Steps
<1>3. \A v : MendSound(p, v) => \A k \in 1 .. n :
         \A u \in IF v.rc = "ok" THEN MendTurn(v, d, order, k) ELSE {v} : MendSound(p, u)
  BY SoundWriteEntries, SoundGoes DEF MendTurn, MendSound
<1>4. \A v \in {w} : MendSound(p, v)
  BY SoundGoes DEF MendSound, Going
<1>5. \A v : MendSound(p, v) => Sound(r, v) /\ v.mem = w.mem /\ v.rc # "ENOENT"
  BY DEF MendSound
<1> HIDE DEF p
<1>6. CASE n \in Nat
  <2>1. \A v \in Mending!Steps(d, order, {w})[n] : MendSound(p, v)
    BY <1>3, <1>4, <1>6, Mending!StepsKeep
  <2> QED BY <1>1, <1>2, <1>5, <1>6, <2>1
<1> QED BY <1>1, <1>2, <1>4, <1>5, <1>6

\* v is what w becomes when d has been read: new nodes are in places where no nodes were.
Filled(r, w, v, d, found) ==
    /\ {"vol", "mem", "rc", "faults", "got", "dir", "off"} \subseteq DOMAIN v
    /\ {"nodes", "crossed", "on", "ro", "repair"} \subseteq DOMAIN v.mem
    /\ v.mem.on = w.mem.on /\ v.mem.ro = w.mem.ro /\ v.mem.repair = w.mem.repair
    /\ v.rc = w.rc
    /\ DOMAIN v.mem.nodes = Nodes
    /\ \A o \in Nodes :
         /\ {"refs", "parent", "cached", "unlinked", "dirty"} \subseteq DOMAIN v.mem.nodes[o]
         /\ o \in found =>
              /\ v.mem.nodes[o].refs = 0 /\ v.mem.nodes[o].parent = d
              /\ ~v.mem.nodes[o].cached /\ ~v.mem.nodes[o].unlinked
         /\ o \notin found =>
              /\ v.mem.nodes[o].refs = w.mem.nodes[o].refs
              /\ v.mem.nodes[o].parent = w.mem.nodes[o].parent
              /\ v.mem.nodes[o].unlinked = w.mem.nodes[o].unlinked
              /\ v.mem.nodes[o].dirty = w.mem.nodes[o].dirty
              /\ o = d => v.mem.nodes[o].cached
              /\ o # d => v.mem.nodes[o].cached = w.mem.nodes[o].cached
    /\ \/ v.mem.crossed
       \/ ~w.mem.crossed /\ \A o \in Nodes : o \in found => w.mem.nodes[o] = NoNode
    /\ r.kind = "reads" /\ ~v.mem.crossed =>
         \A o \in Nodes : o \in found => ~v.mem.nodes[o].dirty

\* Nodes are counted when a directory has been read.
LEMMA GoingNodes ==
    ASSUME NEW r \in Accounts, NEW w, Going(r, w), NEW d \in Nodes, IsDir(d), r.refs[d] # 0,
           NEW found, NEW v, Filled(r, w, v, d, found)
    PROVE  Going(Know(r, d), v)
<1>1. v.rc = "ok"
  BY DEF Going, Filled
<1>2. Shaped(v)
  BY DEF Going, Shaped, Filled
<1>3. CASE v.mem.crossed
  BY <1>1, <1>2, <1>3 DEF Going, Counted
<1>4. CASE ~v.mem.crossed
  <2>1. Tidy(r, w) /\ \A o \in Nodes : o \in found => w.mem.nodes[o] = NoNode
    BY <1>4 DEF Going, Counted, Filled
  <2>2. /\ NoNode.refs = 0 /\ NoNode.parent = NIL /\ ~NoNode.cached
        /\ NIL \notin Nodes /\ Root \in Nodes
    BY AccountFields DEF NoNode
  <2>3. \A o \in Nodes : o \in found => /\ r.refs[o] = 0 /\ o # d /\ o # Root
                                        /\ o \notin r.cached
                                        /\ \A e \in Nodes : <<o, e>> \notin r.parents
    BY <2>1, <2>2, AccountFields DEF Tidy, RefsAre, Kept
  <2>4. RefsAre(Know(r, d), v)
    <3>1. Know(r, d).refs = r.refs
      BY KnowElse
    <3> QED BY <2>1, <2>3, <3>1 DEF Tidy, RefsAre, Filled
  <2>5. Rooted(v)
    BY <2>1, <2>2, <2>3 DEF Tidy, Rooted, Filled
  <2>6. Kept(Know(r, d), v)
    <3>1. Know(r, d).cached = r.cached \cup {d} /\ Know(r, d).parents = r.parents
          /\ r.cached \subseteq Nodes
      BY KnowElse, AccountFields
    <3> QED BY <2>1, <2>3, <3>1 DEF Tidy, Kept, Filled
  <2>7. Moded(Know(r, d), v)
    <3>1. Know(r, d).kind = r.kind /\ Kind(v.mem) = Kind(w.mem)
      BY KnowElse DEF Kind, Filled
    <3> QED BY <1>4, <2>1, <3>1 DEF Tidy, Moded, Filled
  <2> QED BY <1>1, <1>2, <2>4, <2>5, <2>6, <2>7 DEF Going, Counted, Tidy
<1> QED BY <1>3, <1>4

\* exfat_cache_directory makes nodes that nobody refers to yet.
LEMMA SoundCacheDirectory ==
    ASSUME NEW r \in Accounts, NEW w, Going(r, w), NEW d \in Nodes, r.refs[d] # 0
    PROVE  \A v \in CacheDirectory(w, d) :
             Sound(r, v) /\ v.rc # "ENOENT" /\ (v.rc = "ok" => Going(Know(r, d), v))
<1> DEFINE x == w.mem.nodes[d]
           n == x.size * ClusterSlots
           s == Prefix(w.vol.data[d], n)
           bad == {i \in Files(s) : Malformed(s, i, w.mem.repair)}
                     \cup (IF w.mem.repair THEN {} ELSE Unknown(s))
           mended == {i \in Unknown(s) : w.mem.repair /\ \A j \in bad : i < j}
           Place(o) == CHOOSE i \in Files(s) : s[i + 2].o = o
           found == {s[i + 2].o : i \in Files(s)}
           Dirty(o) == ~ChecksumIsRight(Row(s, Place(o)))
           Node(v, o) == IF o \in found
                         THEN NodeOf(d, Place(o), Row(s, Place(o)), Dirty(o))
                         ELSE IF o = d THEN [v.mem.nodes[o] EXCEPT !.cached = TRUE]
                         ELSE v.mem.nodes[o]
           nodes(v) == [o \in Nodes |-> Node(v, o)]
           crossed(v) == v.mem.crossed \/ \E o \in found \cap Nodes : v.mem.nodes[o] # NoNode
           label(v) == v.mem.label \/ \E i \in Heads(s) : s[i + 1].k = "label"
           Cached(v) == [v EXCEPT !.mem.nodes = nodes(v), !.mem.crossed = crossed(v),
                                  !.mem.label = label(v)]
           Rest(v) == IF bad # {} \/ Len(s) < n THEN Gives(v, "EIO") ELSE {Cached(v)}
           all == Then(Mend(w, d, mended), Rest)
           Good(v) == Sound(r, v) /\ v.rc # "ENOENT" /\ (v.rc = "ok" => Going(Know(r, d), v))
<1>1. CacheDirectory(w, d) = IF x.cached THEN {w} ELSE IF ~IsDir(d) THEN Gives(w, "bug:file") ELSE all
  BY Zenon DEF CacheDirectory
<1>2. ASSUME NEW v, Going(r, v), v.mem = w.mem, bad = {}, IsDir(d)
      PROVE  Going(Know(r, d), Cached(v))
  <2>1. ASSUME NEW o \in Nodes
        PROVE  /\ {"refs", "parent", "cached", "unlinked", "dirty"} \subseteq DOMAIN Node(v, o)
               /\ o \in found => /\ Node(v, o).refs = 0 /\ Node(v, o).parent = d
                                 /\ ~Node(v, o).cached /\ ~Node(v, o).unlinked
               /\ o \notin found => /\ Node(v, o).refs = v.mem.nodes[o].refs
                                    /\ Node(v, o).parent = v.mem.nodes[o].parent
                                    /\ Node(v, o).unlinked = v.mem.nodes[o].unlinked
                                    /\ Node(v, o).dirty = v.mem.nodes[o].dirty
                                    /\ o = d => Node(v, o).cached
                                    /\ o # d => Node(v, o).cached = v.mem.nodes[o].cached
    <3> HIDE DEF found, Place, Dirty
    <3> QED BY <1>2 DEF NodeOf, NoNode, Going, Shaped
  <2>2. ASSUME NEW o \in Nodes, o \in found PROVE Node(v, o).dirty = Dirty(o)
    <3> HIDE DEF found, Place, Dirty
    <3> QED BY <2>2 DEF NodeOf, NoNode
  <2>3. ASSUME r.kind = "reads", ~v.mem.crossed, NEW o \in Nodes, o \in found PROVE ~Dirty(o)
    <3>1. ~w.mem.repair
      BY <1>2, <2>3 DEF Going, Counted, Tidy, Moded, Kind
    <3>2. Place(o) \in Files(s)
      <4> HIDE DEF s
      <4> QED BY <2>3
    <3> HIDE DEF Place, found
    <3>3. ~Malformed(s, Place(o), w.mem.repair)
      BY <1>2, <3>2
    <3> QED BY <3>1, <3>3 DEF Malformed
  <2> HIDE DEF found, Node, Dirty, label, Place
  <2>4. /\ DOMAIN nodes(v) = Nodes
        /\ \A o \in Nodes : nodes(v)[o] = Node(v, o)
    OBVIOUS
  <2>5. crossed(v) \/ (~v.mem.crossed /\ \A o \in Nodes : o \in found => v.mem.nodes[o] = NoNode)
    OBVIOUS
  <2>6. ~crossed(v) => ~v.mem.crossed
    OBVIOUS
  <2> HIDE DEF nodes, crossed
  <2>7. \A o \in Nodes :
             /\ {"refs", "parent", "cached", "unlinked", "dirty"} \subseteq DOMAIN nodes(v)[o]
             /\ o \in found => /\ nodes(v)[o].refs = 0 /\ nodes(v)[o].parent = d
                               /\ ~nodes(v)[o].cached /\ ~nodes(v)[o].unlinked
             /\ o \notin found => /\ nodes(v)[o].refs = v.mem.nodes[o].refs
                                  /\ nodes(v)[o].parent = v.mem.nodes[o].parent
                                  /\ nodes(v)[o].unlinked = v.mem.nodes[o].unlinked
                                  /\ nodes(v)[o].dirty = v.mem.nodes[o].dirty
                                  /\ o = d => nodes(v)[o].cached
                                  /\ o # d => nodes(v)[o].cached = v.mem.nodes[o].cached
    BY <2>1, <2>4
  <2>8. r.kind = "reads" /\ ~crossed(v) => \A o \in Nodes : o \in found => ~nodes(v)[o].dirty
    BY <2>2, <2>3, <2>4, <2>6
  <2> DEFINE V == Cached(v)
  <2>9. /\ {"vol", "mem", "rc", "faults", "got", "dir", "off"} \subseteq DOMAIN V
        /\ {"nodes", "crossed", "on", "ro", "repair"} \subseteq DOMAIN V.mem
        /\ V.mem.nodes = nodes(v) /\ V.mem.crossed = crossed(v) /\ V.mem.on = v.mem.on
        /\ V.mem.ro = v.mem.ro /\ V.mem.repair = v.mem.repair /\ V.rc = v.rc
    BY <1>2 DEF Going, Shaped
  <2> HIDE DEF bad, V
  <2>10. Filled(r, v, V, d, found)
    BY <2>4, <2>5, <2>7, <2>8, <2>9 DEF Filled
  <2>11. Going(Know(r, d), V)
    BY <1>2, <2>10, GoingNodes
  <2> QED BY <2>11 DEF V
<1> HIDE DEF Cached, bad, n, s, mended
<1>3. ASSUME NEW v, Going(r, v), v.mem = w.mem, IsDir(d), NEW u \in Rest(v) PROVE Good(u)
  <2>1. CASE u \in Gives(v, "EIO")
    BY <1>3, <2>1, SoundGives, Blameless DEF Going
  <2>2. CASE bad = {} /\ u = Cached(v)
    <3>1. Going(Know(r, d), u)
      BY <1>2, <1>3, <2>2
    <3>2. /\ Know(r, d) \in Accounts /\ Know(r, d).held = r.held /\ Know(r, d).kind = r.kind
          /\ Know(r, d).refs = r.refs /\ Know(r, d).parents = r.parents
          /\ r.cached \subseteq Know(r, d).cached
      BY KnowElse
    <3>3. Going(r, u)
      BY <3>1, <3>2, SoundLess
    <3> QED BY <3>1, <3>3, SoundGoes DEF Going
  <2> QED BY <1>3, <2>1, <2>2
<1> HIDE DEF Rest
<1>4. ASSUME IsDir(d) PROVE \A v \in all : Good(v)
  BY <1>3, <1>4, SoundMend, SoundGoes DEF Then
<1> HIDE DEF all
<1>5. x.cached => Good(w)
  <2> SUFFICES ASSUME x.cached PROVE Good(w)
    OBVIOUS
  <2>1. Going(Know(r, d), w)
    <3>1. /\ Know(r, d).kind = r.kind
          /\ Know(r, d).refs = r.refs /\ Know(r, d).parents = r.parents
          /\ Know(r, d).cached = r.cached \cup {d}
      BY KnowElse
    <3> QED BY <3>1 DEF Going, Counted, Tidy, RefsAre, Kept, Moded
  <2> QED BY <2>1, SoundGoes DEF Going
<1>6. \A v \in Gives(w, "bug:file") : Good(v)
  BY SoundGives, Blameless DEF Going
<1> HIDE DEF Good
<1>7. \A v \in CacheDirectory(w, d) : Good(v)
  BY <1>1, <1>4, <1>5, <1>6, Zenon
<1> QED BY <1>7 DEF Good

\* Only references have changed.
Beside(v, w) ==
    /\ v.mem.crossed = w.mem.crossed
    /\ \A m \in Nodes : /\ v.mem.nodes[m].parent = w.mem.nodes[m].parent
                        /\ v.mem.nodes[m].cached = w.mem.nodes[m].cached

\* A node stays where it is.
LEMMA BesidePlaced ==
    ASSUME NEW w, NEW v, Shaped(w), Beside(v, w), NEW n \in Nodes
    PROVE  /\ Placed(w, n) => Placed(v, n)
           /\ v.mem.crossed = w.mem.crossed
           /\ v.mem.nodes[n].parent = w.mem.nodes[n].parent
BY DEF Shaped, Beside, Placed

\* exfat_get_node
LEMMA GoingGet ==
    ASSUME NEW r \in Accounts, NEW w, Going(r, w), NEW n \in Nodes
    PROVE  Going(Take(r, n), Get(w, n)) /\ Beside(Get(w, n), w)
<1> DEFINE v == Get(w, n)
<1>1. /\ Shaped(v) /\ v.rc = "ok" /\ v.mem.crossed = w.mem.crossed
      /\ v.mem.ro = w.mem.ro /\ v.mem.repair = w.mem.repair
  BY DEF Going, Shaped, Get
<1>2. ASSUME NEW m \in Nodes
      PROVE  /\ v.mem.nodes[m].refs = IF m = n THEN w.mem.nodes[m].refs + 1 ELSE w.mem.nodes[m].refs
             /\ v.mem.nodes[m].parent = w.mem.nodes[m].parent
             /\ v.mem.nodes[m].cached = w.mem.nodes[m].cached
             /\ v.mem.nodes[m].unlinked = w.mem.nodes[m].unlinked
             /\ v.mem.nodes[m].dirty = w.mem.nodes[m].dirty
  BY DEF Going, Shaped, Get
<1> HIDE DEF v
<1>3. CASE w.mem.crossed
  BY <1>1, <1>2, <1>3 DEF Going, Counted, Beside, v
<1>4. CASE ~w.mem.crossed
  <2> DEFINE q == Take(r, n)
  <2>1. /\ q.kind = r.kind /\ q.cached = r.cached /\ q.parents = r.parents
        /\ r.cached \subseteq Nodes
        /\ \A m \in Nodes : q.refs[m] = IF m = n THEN r.refs[m] + 1 ELSE r.refs[m]
        /\ Root \in Nodes
    BY TakeElse, AccountFields
  <2>2. Tidy(r, w)
    BY <1>4 DEF Going, Counted
  <2> HIDE DEF q
  <2>3. RefsAre(q, v)
    BY <1>2, <2>1, <2>2 DEF Tidy, RefsAre
  <2>4. Rooted(v)
    BY <1>2, <2>1, <2>2 DEF Tidy, Rooted
  <2>5. Kept(q, v)
    BY <1>2, <2>1, <2>2 DEF Tidy, Kept
  <2>6. Moded(q, v)
    BY <1>1, <1>2, <2>1, <2>2 DEF Tidy, Moded, Kind
  <2> QED BY <1>1, <1>2, <2>3, <2>4, <2>5, <2>6 DEF Going, Counted, Tidy, Beside, v, q
<1> QED BY <1>3, <1>4

\* exfat_put_node changes the result only when the library aborts.
LEMMA PutElse ==
    ASSUME NEW w, Shaped(w), NEW n \in Nodes
    PROVE  /\ Shaped(Put(w, n)) /\ Beside(Put(w, n), w)
           /\ Put(w, n).rc \in {w.rc, "bug:negative"}
           /\ w.mem.nodes[n].refs # 0 => Put(w, n).rc = w.rc
           /\ Put(w, n).got = w.got /\ Put(w, n).dir = w.dir /\ Put(w, n).off = w.off
<1>1. CASE w.mem.nodes[n].refs = 0
  BY <1>1 DEF Put, Shaped, Beside
<1>2. CASE w.mem.nodes[n].refs # 0
  BY <1>2 DEF Put, Shaped, Beside
<1> QED BY <1>1, <1>2

\* exfat_put_node of a node that has the reference.
LEMMA CountedPut ==
    ASSUME NEW r \in Accounts, NEW n \in Nodes, NEW w, Shaped(w), Counted(Take(r, n), w)
    PROVE  Counted(r, Put(w, n)) /\ (w.mem.crossed \/ Put(w, n).rc = w.rc)
<1> DEFINE v == Put(w, n)
           q == Take(r, n)
<1>1. Shaped(v) /\ v.mem.crossed = w.mem.crossed
  BY PutElse DEF Beside
<1>2. CASE w.mem.crossed
  BY <1>1, <1>2 DEF Counted
<1>3. CASE ~w.mem.crossed
  <2>1. /\ q.kind = r.kind /\ q.cached = r.cached /\ q.parents = r.parents
        /\ r.cached \subseteq Nodes
        /\ \A m \in Nodes : q.refs[m] = IF m = n THEN r.refs[m] + 1 ELSE r.refs[m]
        /\ Root \in Nodes /\ r.refs \in [Nodes -> Nat]
    BY TakeElse, AccountFields
  <2>2. Tidy(q, w)
    BY <1>3 DEF Counted
  <2> HIDE DEF q
  <2>3. w.mem.nodes[n].refs = r.refs[n] + 1 /\ w.mem.nodes[n].refs # 0
    BY <2>1, <2>2 DEF Tidy, RefsAre
  <2>4. v = [w EXCEPT !.mem.nodes[n].refs = @ - 1] /\ v.rc = w.rc
    BY <2>3, PutElse DEF Put
  <2>5. ASSUME NEW m \in Nodes
        PROVE  /\ v.mem.nodes[m].refs = IF m = n THEN w.mem.nodes[m].refs - 1 ELSE w.mem.nodes[m].refs
               /\ v.mem.nodes[m].parent = w.mem.nodes[m].parent
               /\ v.mem.nodes[m].cached = w.mem.nodes[m].cached
               /\ v.mem.nodes[m].unlinked = w.mem.nodes[m].unlinked
               /\ v.mem.nodes[m].dirty = w.mem.nodes[m].dirty
    <3> HIDE DEF v
    <3> QED BY <2>4 DEF Shaped
  <2>6. v.mem.ro = w.mem.ro /\ v.mem.repair = w.mem.repair
    <3> HIDE DEF v
    <3> QED BY <2>4 DEF Shaped
  <2> HIDE DEF v
  <2>7. RefsAre(r, v)
    BY <2>1, <2>2, <2>5 DEF Tidy, RefsAre
  <2>8. Rooted(v)
    BY <2>1, <2>2, <2>5 DEF Tidy, Rooted
  <2>9. Kept(r, v)
    BY <2>1, <2>2, <2>5 DEF Tidy, Kept
  <2>10. Moded(r, v)
    BY <2>1, <2>2, <2>5, <2>6 DEF Tidy, Moded, Kind
  <2> QED BY <2>4, <2>7, <2>8, <2>9, <2>10 DEF Counted, Tidy, v
<1> QED BY <1>2, <1>3

\* exfat_put_node of a node that has the reference, in a call that goes on.
LEMMA SoundPut ==
    ASSUME NEW r \in Accounts, NEW w, NEW n \in Nodes, Sound(Take(r, n), w), ~Stopped(w)
    PROVE  Sound(r, Put(w, n))
<1>1. Shaped(w) /\ Counted(Take(r, n), w)
  BY DEF Sound
<1>2. /\ Shaped(Put(w, n)) /\ Counted(r, Put(w, n)) /\ Beside(Put(w, n), w)
      /\ w.mem.crossed \/ Put(w, n).rc = w.rc
  BY <1>1, PutElse, CountedPut
<1> QED BY <1>2 DEF Sound, Stopped, Beside

\* A call that has been stopped needs no references to be given back.
LEMMA SoundStopped ==
    ASSUME NEW r \in Accounts, NEW n, NEW w, Stopped(w), Sound(Take(r, n), w)
    PROVE  Sound(r, w)
<1>1. Take(r, n).kind = r.kind /\ Take(r, n).held = r.held
  BY TakeElse
<1> QED BY <1>1 DEF Sound, Blame

\* A reference is given back after a call, whatever came of it.
LEMMA SoundPutAfter ==
    ASSUME NEW r \in Accounts, NEW ws, NEW n \in Nodes, \A w \in ws : Sound(Take(r, n), w)
    PROVE  \A v \in PutAfter(ws, n) : Sound(r, v)
<1> SUFFICES ASSUME NEW w \in ws PROVE Sound(r, IF Stopped(w) THEN w ELSE Put(w, n))
  BY DEF PutAfter, Finally
<1> QED BY SoundPut, SoundStopped

\* lookup_name: the node that is found is in the directory, which has been read.
LEMMA FoundLookupName ==
    ASSUME NEW r \in Accounts, NEW w, Going(r, w), NEW d \in Nodes, r.refs[d] # 0, NEW name
    PROVE  \A v \in LookupName(w, d, name) :
             /\ Found(r, v)
             /\ v.rc = "ok" => /\ Going(Take(Know(r, d), v.got), v)
                               /\ v.mem.crossed \/ v.mem.nodes[v.got].parent = d
             /\ v.rc = "ENOENT" => Shaped(v) /\ Counted(Know(r, d), v)
<1> DEFINE same(v) == {n \in Children(v, d) : v.mem.nodes[n].name = name}
           Rest(v) == IF same(v) = {} THEN Gives(v, "ENOENT")
                      ELSE {[Get(v, n) EXCEPT !.got = n] : n \in same(v)}
           q == Know(r, d)
           Good(v) == /\ Found(r, v)
                      /\ v.rc = "ok" => /\ Going(Take(q, v.got), v)
                                        /\ v.mem.crossed \/ v.mem.nodes[v.got].parent = d
                      /\ v.rc = "ENOENT" => Shaped(v) /\ Counted(q, v)
<1>1. LookupName(w, d, name) = Then(CacheDirectory(w, d), Rest)
  BY Zenon DEF LookupName
<1>2. /\ q \in Accounts /\ q.refs = r.refs /\ q.held = r.held /\ q.kind = r.kind
      /\ r.cached \subseteq q.cached /\ q.parents = r.parents /\ d \in q.cached
  BY KnowElse
<1> HIDE DEF q
<1>3. ASSUME NEW v, Going(q, v), NEW n \in Nodes, v.mem.nodes[n].parent = d,
             NEW u, u = [Get(v, n) EXCEPT !.got = n]
      PROVE  Good(u)
  <2>1. Going(Take(q, n), Get(v, n)) /\ Beside(Get(v, n), v) /\ Take(q, n) \in Accounts
    BY <1>2, <1>3, GoingGet, TakeElse
  <2> DEFINE g == Get(v, n)
  <2> HIDE DEF g
  <2>2. u.got = n /\ u.mem = g.mem
    BY <1>3, <2>1 DEF Going, Shaped, g
  <2>3. Going(Take(q, n), u)
    <3>1. Going(Take(q, n), [g EXCEPT !.got = n])
      BY <2>1, GoingElse DEF g
    <3> QED BY <1>3, <3>1 DEF g
  <2>4. u.mem.nodes[n].parent = d /\ u.mem.crossed = v.mem.crossed
        /\ (v.mem.nodes[d].cached => u.mem.nodes[d].cached)
    BY <1>3, <2>1, <2>2 DEF Beside, g
  <2>5. Placed(u, n)
    BY <1>2, <1>3, <2>4 DEF Placed, Going, Counted, Tidy, Kept
  <2>6. Going(Take(r, n), u)
    <3>1. /\ Take(r, n) \in Accounts /\ Take(q, n).held = q.held /\ Take(q, n).kind = q.kind
          /\ Take(q, n).cached = q.cached /\ Take(q, n).parents = q.parents
          /\ Take(r, n).held = r.held /\ Take(r, n).kind = r.kind
          /\ Take(r, n).cached = r.cached /\ Take(r, n).parents = r.parents
      BY <1>2, TakeElse
    <3>2. Take(q, n).refs = Take(r, n).refs
      <4>1. \A m \in Nodes : Take(q, n).refs[m] = Take(r, n).refs[m]
        BY <1>2, TakeElse
      <4>2. Take(q, n).refs \in [Nodes -> Nat] /\ Take(r, n).refs \in [Nodes -> Nat]
        BY <2>1, <3>1, AccountFields
      <4> QED BY <4>1, <4>2
    <3> QED BY <1>2, <2>1, <2>3, <3>1, <3>2, SoundLess
  <2>7. u.rc = "ok"
    BY <2>3 DEF Going
  <2>8. Found(r, u)
    BY <2>2, <2>5, <2>6, <2>7, SoundGoes DEF Found
  <2> QED BY <2>2, <2>3, <2>4, <2>7, <2>8
<1>4. ASSUME NEW v, Going(q, v), NEW u \in Rest(v) PROVE Good(u)
  <2>1. CASE u \in Gives(v, "ENOENT")
    <3>0. Going(r, v)
      BY <1>2, <1>4, SoundLess
    <3>1. v.mem.crossed \/ Blame(r, "ENOENT")
      BY <3>0, Blameless DEF Going
    <3>2. Sound(r, u) /\ u.rc = "ENOENT" /\ u.mem = v.mem
      BY <2>1, <3>0, <3>1, SoundGives
    <3>3. Shaped(u) /\ Counted(q, u)
      BY <1>4, <3>2, SameMemory DEF Going, Sound, Shaped
    <3> QED BY <3>2, <3>3 DEF Found
  <2>2. CASE \E n \in Nodes : v.mem.nodes[n].parent = d /\ u = [Get(v, n) EXCEPT !.got = n]
    <3> HIDE DEF Good
    <3> QED BY <1>3, <1>4, <2>2
  <2>3. \A n \in same(v) : n \in Nodes /\ v.mem.nodes[n].parent = d
    BY DEF Children
  <2> HIDE DEF same
  <2> QED BY <1>4, <2>1, <2>2, <2>3
<1> HIDE DEF Rest
<1>5. \A v \in CacheDirectory(w, d) : Sound(r, v) /\ v.rc # "ENOENT" /\ (v.rc = "ok" => Going(q, v))
  BY SoundCacheDirectory DEF q
<1>6. \A v \in LookupName(w, d, name) : Good(v)
  <2>1. ASSUME NEW v, Sound(r, v), v.rc \notin {"ok", "ENOENT"} PROVE Good(v)
    BY <2>1 DEF Found
  <2> HIDE DEF Good
  <2> QED BY <1>1, <1>4, <1>5, <2>1 DEF Then
<1> QED BY <1>6 DEF q

\* What is known of directories and references are independent.
LEMMA TakeKnow ==
    ASSUME NEW r \in Accounts, NEW n, NEW d PROVE Take(Know(r, d), n) = Know(Take(r, n), d)
<1>1. DOMAIN r = {"refs", "held", "kind", "cached", "parents"}
  BY AccountFields
<1> DEFINE f == [r.refs EXCEPT ![n] = @ + 1]
           c == r.cached \cup {d}
<1>2. Take(Know(r, d), n) = [[r EXCEPT !.cached = c] EXCEPT !.refs = f]
  BY <1>1 DEF Take, Know
<1>3. Know(Take(r, n), d) = [[r EXCEPT !.refs = f] EXCEPT !.cached = c]
  BY <1>1 DEF Take, Know
<1> HIDE DEF f, c
<1> QED BY <1>1, <1>2, <1>3

\* lookup_name and exfat_put_node: the reference moves from the directory to the node.
LEMMA FoundLookupComponent ==
    ASSUME NEW r \in Accounts, NEW w, w.got \in Nodes, Going(Take(r, w.got), w),
           Placed(w, w.got), NEW c
    PROVE  \A v \in LookupComponent(w, c) : Found(r, v)
<1> DEFINE n == w.got
           Back(u) == IF Stopped(u) THEN u ELSE Put(u, n)
<1>1. Take(r, n) \in Accounts /\ Take(r, n).refs[n] # 0
  <2>1. r.refs[n] \in Nat
    BY AccountFields
  <2> QED BY <2>1, TakeElse
<1>2. ASSUME NEW u \in LookupName(w, n, c) PROVE Found(r, Back(u))
  <2>1. Found(Take(r, n), u)
    BY <1>1, <1>2, FoundLookupName
  <2>2. CASE u.rc = "ok"
    <3>1. /\ u.got \in Nodes /\ Sound(Take(Take(r, u.got), n), u) /\ Placed(u, u.got)
          /\ Shaped(u)
      BY <2>1, <2>2, TakeTwo DEF Found, Sound
    <3>2. Take(r, u.got) \in Accounts /\ ~Stopped(u)
      BY <2>2, TakeElse, SoundGoes
    <3>3. Sound(Take(r, u.got), Put(u, n)) /\ Put(u, n).got = u.got
          /\ Put(u, n).rc \in {"ok", "bug:negative"}
      BY <2>2, <3>1, <3>2, SoundPut, PutElse
    <3>4. Put(u, n).rc # "ok" => Sound(r, Put(u, n))
      BY <3>3, SoundStopped DEF Stopped, Bugs
    <3>5. Placed(Put(u, n), u.got)
      BY <3>1, PutElse, BesidePlaced
    <3> QED BY <3>1, <3>2, <3>3, <3>4, <3>5 DEF Found
  <2>3. CASE u.rc # "ok"
    <3>1. Sound(Take(r, n), u)
      BY <2>1, <2>3 DEF Found
    <3>2. CASE Stopped(u)
      BY <2>3, <3>1, <3>2, SoundStopped DEF Found
    <3>3. CASE ~Stopped(u)
      <4>1. Sound(r, Put(u, n)) /\ Put(u, n).rc # "ok"
        BY <2>3, <3>1, <3>3, SoundPut, PutElse DEF Sound
      <4> QED BY <3>3, <4>1 DEF Found
    <3> QED BY <3>2, <3>3
  <2> QED BY <2>2, <2>3
<1>3. Found(r, w)
  BY SoundGoes DEF Found, Going
<1>4. PutAfter(LookupName(w, n, c), n) = {Back(u) : u \in LookupName(w, n, c)}
  BY DEF PutAfter, Finally
<1> HIDE DEF Back
<1> QED BY <1>2, <1>3, <1>4 DEF LookupComponent

Looking == INSTANCE Induction_proofs WITH
    Step <- LAMBDA a, b, v, k : IF v.rc = "ok" THEN LookupComponent(v, b[k]) ELSE {v},
    Good <- Found

\* exfat_lookup: the node that is returned carries the reference, and nothing else does.
LEMMA FoundLookup ==
    ASSUME NEW r \in Accounts, NEW w, Going(r, w), NEW path
    PROVE  \A v \in Lookup(w, path) : Found(r, v)
<1> DEFINE n == Len(path)
           start == [Get(w, Root) EXCEPT !.got = Root]
<1>1. Lookup(w, path) = Each(n, LAMBDA v, k : LookupComponent(v, path[k]), {start})
  BY Zenon DEF Lookup
<1>2. Found(r, start)
  <2>1. Root \in Nodes /\ Going(Take(r, Root), Get(w, Root))
    BY GoingGet DEF Nodes
  <2> DEFINE g == Get(w, Root)
  <2>3. start = [g EXCEPT !.got = Root]
    OBVIOUS
  <2> HIDE DEF start
  <2>2. Going(Take(r, Root), start) /\ start.got = Root
    <3>1. Going(Take(r, Root), g)
      BY <2>1
    <3>2. ASSUME NEW u, Going(Take(r, Root), u)
          PROVE  /\ Going(Take(r, Root), [u EXCEPT !.got = Root])
                 /\ [u EXCEPT !.got = Root].got = Root
      <4>1. Going(Take(r, Root), [u EXCEPT !.got = Root])
        BY <3>2, GoingElse
      <4>2. [u EXCEPT !.got = Root].got = Root
        BY <3>2, GoingElse
      <4> QED BY <4>1, <4>2
    <3> HIDE DEF g
    <3> QED BY <2>3, <3>1, <3>2, Zenon
  <2> QED BY <2>1, <2>2, SoundGoes DEF Found, Going, Placed
<1> HIDE DEF n, start
<1>3. Each(n, LAMBDA v, k : LookupComponent(v, path[k]), {start}) =
         IF n \in Nat THEN Looking!Steps(n, path, {start})[n] ELSE {start}
  BY DEF Each, Turns, Looking!Steps
<1>4. ASSUME NEW v, Found(r, v), NEW k
      PROVE  \A u \in IF v.rc = "ok" THEN LookupComponent(v, path[k]) ELSE {v} : Found(r, u)
  <2>1. v.rc = "ok" => v.got \in Nodes /\ Going(Take(r, v.got), v) /\ Placed(v, v.got)
    BY <1>4, SoundGoes DEF Found
  <2> QED BY <1>4, <2>1, FoundLookupComponent
<1>5. CASE n \in Nat
  <2>1. \A v \in Looking!Steps(n, path, {start})[n] : Found(r, v)
    BY <1>2, <1>4, <1>5, Looking!StepsKeep
  <2> QED BY <1>1, <1>3, <1>5, <2>1
<1> QED BY <1>1, <1>2, <1>3, <1>5

\* What is left of one end of a call when the reference has been given back.
LEMMA SoundBack ==
    ASSUME NEW r \in Accounts, NEW n \in Nodes, NEW w, Sound(Take(r, n), w),
           NEW v \in PutAfter({w}, n)
    PROVE  Sound(r, v) /\ (v.rc = "ok" => w.rc = "ok") /\ v.got = w.got /\ v.dir = w.dir
<1>1. v = IF Stopped(w) THEN w ELSE Put(w, n)
  BY DEF PutAfter, Finally
<1>2. Sound(r, v)
  BY SoundPutAfter
<1>3. CASE Stopped(w)
  BY <1>1, <1>2, <1>3
<1>4. CASE ~Stopped(w)
  BY <1>1, <1>2, <1>4, PutElse DEF Sound
<1> QED BY <1>3, <1>4

\* What exfat_split leaves: a reference to the directory, which has been read, and to
\* the node if there is one.
Divided(r, w) ==
    IF w.rc = "ok"
    THEN /\ w.dir \in Nodes
         /\ \/ /\ w.got \in Nodes
               /\ Going(Take(Take(Know(r, w.dir), w.dir), w.got), w)
               /\ w.mem.crossed \/ w.mem.nodes[w.got].parent = w.dir
            \/ w.got = NIL /\ Going(Take(Know(r, w.dir), w.dir), w)
    ELSE Sound(r, w)

\* exfat_split
LEMMA DividedSplit ==
    ASSUME NEW r \in Accounts, NEW w, Going(r, w), NEW path
    PROVE  \A v \in Split(w, path) : Divided(r, v)
<1> DEFINE End(d, u) == IF u.rc = "ok" THEN {[u EXCEPT !.dir = d]}
                        ELSE IF u.rc = "ENOENT" THEN {[u EXCEPT !.rc = "ok", !.dir = d, !.got = NIL]}
                        ELSE PutAfter({u}, d)
           Rest(v) == LET d == v.got IN
                      IF Last(path) = Dot THEN Gives(v, "bug:impossible")
                      ELSE IF Last(path) \in Forbidden THEN {[Put(v, d) EXCEPT !.rc = "ENOENT"]}
                      ELSE UNION {End(d, u) : u \in LookupName(v, d, Last(path))}
<1>1. Split(w, path) = IF path = <<>> THEN Gives(w, "bug:impossible")
                       ELSE Then(Lookup(w, Front(path)), Rest)
  BY Zenon DEF Split
<1>2. ASSUME NEW d \in Nodes, NEW v, Going(Take(r, d), v), NEW name,
             NEW u \in LookupName(v, d, name), NEW t \in End(d, u)
      PROVE  Divided(r, t)
  <2>1. Take(r, d) \in Accounts /\ Take(r, d).refs[d] # 0
    <3>1. r.refs[d] \in Nat
      BY AccountFields
    <3> QED BY <3>1, TakeElse
  <2>2. /\ Found(Take(r, d), u)
        /\ u.rc = "ok" => /\ Going(Take(Know(Take(r, d), d), u.got), u)
                          /\ u.mem.crossed \/ u.mem.nodes[u.got].parent = d
        /\ u.rc = "ENOENT" => Shaped(u) /\ Counted(Know(Take(r, d), d), u)
    BY <1>2, <2>1, FoundLookupName
  <2> DEFINE q == Take(Know(r, d), d)
  <2>3. Know(Take(r, d), d) = q
    BY TakeKnow
  <2> HIDE DEF q
  <2>4. CASE u.rc = "ok"
    <3>1. u.got \in Nodes /\ Going(Take(q, u.got), u) /\ t = [u EXCEPT !.dir = d]
      BY <1>2, <2>2, <2>3, <2>4 DEF Found
    <3>2. Going(Take(q, u.got), t)
      BY <3>1, GoingElse
    <3>3. t.got = u.got /\ t.dir = d /\ t.rc = "ok" /\ t.mem = u.mem
      BY <3>1 DEF Going, Shaped
    <3> QED BY <2>2, <2>4, <3>1, <3>2, <3>3 DEF Divided, q
  <2>5. CASE u.rc = "ENOENT"
    <3>1. Shaped(u) /\ Counted(q, u) /\ t = [u EXCEPT !.rc = "ok", !.dir = d, !.got = NIL]
      BY <1>2, <2>2, <2>3, <2>5
    <3>2. /\ t.got = NIL /\ t.dir = d /\ t.rc = "ok" /\ t.mem = u.mem
          /\ {"vol", "mem", "rc", "faults", "got", "dir", "off"} \subseteq DOMAIN t
      BY <3>1 DEF Shaped
    <3>3. Going(q, t)
      BY <3>1, <3>2, SameMemory DEF Going
    <3> QED BY <3>2, <3>3 DEF Divided, q
  <2>6. CASE u.rc \notin {"ok", "ENOENT"}
    <3>1. Sound(Take(r, d), u) /\ t \in PutAfter({u}, d)
      BY <1>2, <2>2, <2>6 DEF Found
    <3>2. Sound(r, t) /\ t.rc # "ok"
      BY <2>6, <3>1, SoundBack
    <3> QED BY <3>2 DEF Divided
  <2> QED BY <2>4, <2>5, <2>6
<1> HIDE DEF End
<1>3. ASSUME NEW v, v.got \in Nodes, Going(Take(r, v.got), v), NEW t \in Rest(v)
      PROVE  Divided(r, t)
  <2>1. CASE t \in Gives(v, "bug:impossible")
    <3>1. Sound(Take(r, v.got), t) /\ t.rc = "bug:impossible"
      BY <1>3, <2>1, SoundGives, Blameless DEF Going
    <3>2. Sound(r, t)
      BY <3>1, SoundStopped DEF Stopped, Bugs
    <3> QED BY <3>1, <3>2 DEF Divided
  <2>2. CASE t = [Put(v, v.got) EXCEPT !.rc = "ENOENT"]
    <3>1. Shaped(Put(v, v.got)) /\ Counted(r, Put(v, v.got))
      BY <1>3, CountedPut, PutElse DEF Going
    <3>2. ASSUME NEW p, Shaped(p), Counted(r, p)
          PROVE  Sound(r, [p EXCEPT !.rc = "ENOENT"]) /\ [p EXCEPT !.rc = "ENOENT"].rc = "ENOENT"
      <4>1. p.mem.crossed \/ Blame(r, "ENOENT")
        BY <3>2, Blameless
      <4>2. Sound(r, [p EXCEPT !.rc = "ENOENT"])
        BY <3>2, <4>1, CountedResult
      <4>3. [p EXCEPT !.rc = "ENOENT"].rc = "ENOENT"
        BY <3>2, CountedResult
      <4> QED BY <4>2, <4>3
    <3>3. Sound(r, t) /\ t.rc = "ENOENT"
      BY <2>2, <3>1, <3>2, Zenon
    <3> QED BY <3>3 DEF Divided
  <2>3. CASE t \in UNION {End(v.got, u) : u \in LookupName(v, v.got, Last(path))}
    <3>1. PICK u \in LookupName(v, v.got, Last(path)) : t \in End(v.got, u)
      BY <2>3
    <3> QED BY <1>2, <1>3, <3>1
  <2> QED BY <1>3, <2>1, <2>2, <2>3
<1> HIDE DEF Rest
<1>4. ASSUME NEW t \in Then(Lookup(w, Front(path)), Rest) PROVE Divided(r, t)
  <2>1. PICK v \in Lookup(w, Front(path)) : t \in IF v.rc = "ok" THEN Rest(v) ELSE {v}
    BY DEF Then
  <2>2. Found(r, v)
    BY FoundLookup
  <2>3. CASE v.rc = "ok"
    <3>1. v.got \in Nodes /\ Going(Take(r, v.got), v) /\ t \in Rest(v)
      BY <2>1, <2>2, <2>3, SoundGoes DEF Found
    <3> QED BY <1>3, <3>1
  <2>4. CASE v.rc # "ok"
    BY <2>1, <2>2, <2>4 DEF Found, Divided
  <2> QED BY <2>3, <2>4
<1>5. ASSUME NEW t \in Gives(w, "bug:impossible") PROVE Divided(r, t)
  <2>1. Sound(r, t) /\ t.rc = "bug:impossible"
    BY <1>5, SoundGives, Blameless DEF Going
  <2> QED BY <2>1 DEF Divided
<1> QED BY <1>1, <1>4, <1>5

-----------------------------------------------------------------------------
(***************************************************************************)
(* Deleting.                                                               *)
(***************************************************************************)
\* Of nothing more is known than that entries have named the same clusters.
Lost(r) == [r EXCEPT !.kind = "lost"]

\* Where entries have named the same clusters, this is all that needs to be known.
LEMMA LostKnows ==
    ASSUME NEW r \in Accounts
    PROVE  /\ Lost(r) \in Accounts /\ (r \in Ledgers => Lost(r) \in Ledgers)
           /\ Lost(r).refs = r.refs /\ Lost(r).held = r.held /\ Lost(r).kind = "lost"
           /\ Lost(r).cached = r.cached /\ Lost(r).parents = r.parents
           /\ \A w : Going(r, w) /\ w.mem.crossed => Going(Lost(r), w)
           /\ \A w : Sound(Lost(r), w) => Sound(r, w) /\ w.mem.crossed
           /\ \A w : Going(Lost(r), w) => Going(r, w) /\ w.mem.crossed
<1>1. /\ DOMAIN r = {"refs", "held", "kind", "cached", "parents"}
      /\ r.refs[Root] # 0
      /\ r \in [refs : [Nodes -> Nat], held : SUBSET Nodes,
                kind : {"writes", "mends", "reads", "lost"},
                cached : SUBSET Nodes, parents : SUBSET (Nodes \X Nodes)]
  BY AccountFields
<1>2. /\ Lost(r) \in Accounts /\ Lost(r).refs = r.refs /\ Lost(r).held = r.held
      /\ Lost(r).kind = "lost" /\ Lost(r).cached = r.cached /\ Lost(r).parents = r.parents
  BY <1>1 DEF Lost, Accounts
<1>3. \A w : Counted(Lost(r), w) => w.mem.crossed
  BY <1>2 DEF Counted, Tidy, Moded, Kind
<1>4. \A x : ~Blame(Lost(r), x)
  BY <1>2 DEF Blame
<1>5. \A w : Sound(Lost(r), w) => Sound(r, w) /\ w.mem.crossed
  BY <1>3, <1>4 DEF Sound, Counted
<1>6. \A w : Going(Lost(r), w) => Going(r, w) /\ w.mem.crossed
  BY <1>3 DEF Going, Counted
<1>7. \A w : Going(r, w) /\ w.mem.crossed => Going(Lost(r), w)
  BY DEF Going, Counted
<1> QED BY <1>2, <1>5, <1>6, <1>7 DEF Ledgers

\* A node that can be removed can still be after calls that leave it where it is: q is
\* an account that says so.
LEMMA PlaceKept ==
    ASSUME NEW r \in Accounts, NEW w, Going(r, w), NEW n \in Nodes, Placed(w, n)
    PROVE  \E q \in Accounts :
             /\ q.refs = r.refs /\ q.held = r.held /\ q.kind \in {r.kind, "lost"}
             /\ Going(q, w)
             /\ \A v : Sound(q, v) => Sound(r, v)
             /\ \A v : Going(q, v) => Going(r, v) /\ Placed(v, n)
<1>1. CASE w.mem.crossed
  <2>1. \A v : Going(Lost(r), v) => Placed(v, n)
    BY LostKnows DEF Placed
  <2> QED BY <1>1, <2>1, LostKnows
<1>2. CASE n = Root
  BY <1>2 DEF Placed
<1>3. CASE ~w.mem.crossed /\ n # Root
  <2> DEFINE d == w.mem.nodes[n].parent
             p == Know(r, d)
             q == Pin(p, n, d)
  <2>1. d \in Nodes /\ w.mem.nodes[d].cached
    BY <1>3 DEF Placed
  <2>2. /\ p \in Accounts /\ p.refs = r.refs /\ p.held = r.held /\ p.kind = r.kind
        /\ p.cached = r.cached \cup {d} /\ p.parents = r.parents
    BY <2>1, KnowElse
  <2> HIDE DEF d, p
  <2>3. /\ q \in Accounts /\ q.refs = p.refs /\ q.held = p.held /\ q.kind = p.kind
        /\ q.cached = p.cached /\ q.parents = p.parents \cup {<<n, d>>}
    <3>1. p \in Accounts /\ d \in Nodes
      BY <2>1, <2>2
    <3>2. Pin(p, n, d) \in Accounts
      BY <3>1, PinElse
    <3>3. /\ q.refs = p.refs /\ q.held = p.held /\ q.kind = p.kind
          /\ q.cached = p.cached
      BY <3>1, PinElse
    <3>4. \A a \in Accounts : \A e \in Nodes : Pin(a, n, e).parents = a.parents \cup {<<n, e>>}
      BY PinElse
    <3>5. q.parents = p.parents \cup {<<n, d>>}
      BY <3>1, <3>4
    <3> QED BY <3>2, <3>3, <3>5
  <2> HIDE DEF q
  <2>4. /\ q \in Accounts /\ q.refs = r.refs /\ q.held = r.held /\ q.kind = r.kind
        /\ q.cached = r.cached \cup {d} /\ q.parents = r.parents \cup {<<n, d>>}
    BY <2>2, <2>3
  <2>5. Going(q, w)
    <3>1. Tidy(r, w)
      BY <1>3 DEF Going, Counted
    <3>2. RefsAre(q, w) /\ Rooted(w) /\ Moded(q, w)
      BY <2>4, <3>1 DEF Tidy, RefsAre, Moded
    <3>3. Kept(q, w)
      <4>1. \A m \in q.cached : w.mem.nodes[m].cached
        BY <2>1, <2>4, <3>1 DEF Tidy, Kept
      <4>2. ASSUME NEW m \in Nodes, NEW e \in Nodes, <<m, e>> \in q.parents
            PROVE  w.mem.nodes[m].parent = e
        <5>1. <<m, e>> \in r.parents \/ (m = n /\ e = d)
          BY <2>4, <4>2
        <5> QED BY <3>1, <5>1 DEF Tidy, Kept, d
      <4> QED BY <4>1, <4>2 DEF Kept
    <3> QED BY <3>2, <3>3 DEF Going, Counted, Tidy
  <2>6. \A v : (Sound(q, v) => Sound(r, v)) /\ (Going(q, v) => Going(r, v))
    BY <2>4, SoundLess
  <2>7. ASSUME NEW v, Going(q, v) PROVE Placed(v, n)
    <3>1. CASE ~v.mem.crossed
      <4>1. Kept(q, v) /\ <<n, d>> \in q.parents /\ d \in q.cached
        BY <2>4, <2>7, <3>1 DEF Going, Counted, Tidy
      <4> QED BY <2>1, <4>1 DEF Kept, Placed
    <3> QED BY <3>1 DEF Placed
  <2> QED BY <2>4, <2>5, <2>6, <2>7
<1> QED BY <1>1, <1>2, <1>3

\* A node has the place that is known of it.
LEMMA PinKept ==
    ASSUME NEW r \in Accounts, NEW w, Going(r, w), NEW n \in Nodes, NEW d \in Nodes,
           w.mem.crossed \/ w.mem.nodes[n].parent = d
    PROVE  /\ Going(Pin(r, n, d), w)
           /\ \A v : Going(Pin(r, n, d), v) => v.mem.crossed \/ v.mem.nodes[n].parent = d
           /\ \A v : Sound(Pin(r, n, d), v) => Sound(r, v)
           /\ \A v : Going(Pin(r, n, d), v) => Going(r, v)
<1> DEFINE q == Pin(r, n, d)
<1>1. /\ q \in Accounts /\ q.refs = r.refs /\ q.held = r.held /\ q.kind = r.kind
      /\ q.cached = r.cached /\ q.parents = r.parents \cup {<<n, d>>}
  BY PinElse
<1> HIDE DEF q
<1>2. Going(q, w)
  <2>1. CASE w.mem.crossed
    BY <2>1 DEF Going, Counted
  <2>2. CASE ~w.mem.crossed
    <3>1. Tidy(r, w) /\ w.mem.nodes[n].parent = d
      BY <2>2 DEF Going, Counted
    <3>2. ASSUME NEW m \in Nodes, NEW e \in Nodes, <<m, e>> \in q.parents
          PROVE  w.mem.nodes[m].parent = e
      <4>1. <<m, e>> \in r.parents \/ (m = n /\ e = d)
        BY <1>1, <3>2
      <4> QED BY <3>1, <4>1 DEF Tidy, Kept
    <3>3. RefsAre(q, w) /\ Rooted(w) /\ Moded(q, w) /\ Kept(q, w)
      BY <1>1, <3>1, <3>2 DEF Tidy, RefsAre, Moded, Kept
    <3> QED BY <3>3 DEF Going, Counted, Tidy
  <2> QED BY <2>1, <2>2
<1>3. ASSUME NEW v, Going(q, v), ~v.mem.crossed PROVE v.mem.nodes[n].parent = d
  BY <1>1, <1>3 DEF Going, Counted, Tidy, Kept
<1>4. \A v : (Sound(q, v) => Sound(r, v)) /\ (Going(q, v) => Going(r, v))
  BY <1>1, SoundLess
<1> QED BY <1>2, <1>3, <1>4 DEF q

\* The call goes on, and returns an earlier result.
LEMMA SoundReply ==
    ASSUME NEW r, NEW w, Sound(r, w), ~Stopped(w), NEW x, x # "crash", x \notin Bugs
    PROVE  Sound(r, [w EXCEPT !.rc = x])
<1>1. Shaped(w) /\ Counted(r, w)
  BY DEF Sound
<1>2. w.mem.crossed \/ Blame(r, x)
  BY <1>1 DEF Counted, Tidy, Moded, Kind, Blame
<1> QED BY <1>1, <1>2, CountedResult

\* erase_node
LEMMA SoundEraseNode ==
    ASSUME NEW r \in Accounts, NEW w, Going(r, w), NEW n, w.mem.nodes[n].parent \in Nodes
    PROVE  \A v \in EraseNode(w, n) : Sound(r, v)
<1> DEFINE x == w.mem.nodes[n]
           d == x.parent
           Last1(u) == FlushNode(u, d)
           Rest(v) == Then(WriteEntries(v, d, x.off, [k \in 1 .. 1 + x.cont |-> Unused]), Last1)
           all == Then(Readable(Get(w, d), d, x.off, 1 + x.cont), Rest)
           q == Take(r, d)
<1>1. EraseNode(w, n) = PutAfter(all, d)
  BY Zenon DEF EraseNode
<1>2. Going(q, Get(w, d)) /\ q \in Accounts /\ d \in Nodes
  BY GoingGet, TakeElse
<1> HIDE DEF q, d
<1>3. \A v : Going(q, v) => \A u \in Rest(v) : Sound(q, u)
  <2>1. \A u : Going(q, u) => \A v \in Last1(u) : Sound(q, v)
    BY <1>2, SoundFlushNode
  <2> HIDE DEF Last1
  <2> QED BY <2>1, SoundWriteEntries, SoundGoes DEF Then
<1> HIDE DEF Rest
<1>4. \A v \in all : Sound(q, v)
  BY <1>2, <1>3, SoundReadable, SoundGoes DEF Then
<1> HIDE DEF all
<1> QED BY <1>1, <1>2, <1>4, SoundPutAfter DEF q

\* shrink_directory
LEMMA SoundShrinkDirectory ==
    ASSUME NEW r \in Accounts, NEW w, Going(r, w), NEW d, NEW deleted,
           w.mem.crossed \/ (d \in r.cached /\ r.refs[d] # 0)
    PROVE  \A v \in ShrinkDirectory(w, d, deleted) : Sound(r, v)
<1>1. PICK size : ShrinkDirectory(w, d, deleted) \in
                    {IF ~w.mem.nodes[d].cached THEN Gives(w, "bug:uncached") ELSE {w},
                     {w}, Truncate(w, d, size)}
  BY DEF ShrinkDirectory
<1>2. Cared(r, w, d) /\ (w.mem.crossed \/ w.mem.nodes[d].cached)
  BY AccountFields DEF Cared, Going, Counted, Tidy, Kept
<1>3. w.mem.crossed => \A v \in Gives(w, "bug:uncached") : Sound(r, v)
  BY SoundGives
<1> QED BY <1>1, <1>2, <1>3, SoundGoes, SoundTruncate

\* OnError, for one end of the call; S is what the code then does.
LEMMA SoundOnError ==
    ASSUME NEW r, NEW v, Sound(r, v), NEW S,
           Going(r, [v EXCEPT !.rc = "ok"]) => \A t \in S : Sound(r, t)
    PROVE  \A t \in IF v.rc = "ok" \/ Stopped(v) THEN {v}
                    ELSE {IF Stopped(u) THEN u ELSE [u EXCEPT !.rc = v.rc] : u \in S} :
             Sound(r, t)
<1>1. CASE v.rc = "ok" \/ Stopped(v)
  BY <1>1
<1>2. CASE v.rc # "ok" /\ ~Stopped(v)
  <2>1. ASSUME NEW u \in S PROVE Sound(r, IF Stopped(u) THEN u ELSE [u EXCEPT !.rc = v.rc])
    <3>1. Going(r, [v EXCEPT !.rc = "ok"])
      BY <1>2, CountedResult DEF Sound
    <3>2. Sound(r, u)
      BY <3>1
    <3>3. v.rc # "crash" /\ v.rc \notin Bugs
      BY <1>2 DEF Stopped
    <3>4. ~Stopped(u) => Sound(r, [u EXCEPT !.rc = v.rc])
      BY <3>2, <3>3, SoundReply
    <3> QED BY <3>2, <3>4
  <2> QED BY <1>2, <2>1
<1> QED BY <1>1, <1>2

\* A node leaves its directory.
Parted(w, n) == [w EXCEPT !.mem.nodes[n].parent = NIL, !.mem.nodes[n].unlinked = TRUE]

\* The directory that a node has left knows nothing of it.
LEMMA GoingUnlinked ==
    ASSUME NEW r \in Accounts, NEW w, Going(r, w), NEW n \in Nodes,
           \A e \in Nodes : <<n, e>> \notin r.parents
    PROVE  Going(r, Parted(w, n)) /\ Parted(w, n).mem.crossed = w.mem.crossed
<1> DEFINE u == Parted(w, n)
<1>1. /\ Shaped(u) /\ u.rc = "ok" /\ u.mem.crossed = w.mem.crossed
      /\ u.mem.ro = w.mem.ro /\ u.mem.repair = w.mem.repair
  BY DEF Going, Shaped, Parted
<1>2. ASSUME NEW m \in Nodes
      PROVE  /\ u.mem.nodes[m].refs = w.mem.nodes[m].refs
             /\ u.mem.nodes[m].cached = w.mem.nodes[m].cached
             /\ u.mem.nodes[m].dirty = w.mem.nodes[m].dirty
             /\ m = n => u.mem.nodes[m].parent = NIL
             /\ m # n => /\ u.mem.nodes[m].parent = w.mem.nodes[m].parent
                         /\ u.mem.nodes[m].unlinked = w.mem.nodes[m].unlinked
  BY DEF Going, Shaped, Parted
<1> HIDE DEF u
<1>3. CASE w.mem.crossed
  BY <1>1, <1>3 DEF Going, Counted, u
<1>4. CASE ~w.mem.crossed
  <2>1. Tidy(r, w)
    BY <1>4 DEF Going, Counted
  <2>2. r.cached \subseteq Nodes /\ Root \in Nodes /\ NIL \notin Nodes
    BY AccountFields
  <2>3. RefsAre(r, u)
    BY <1>2, <2>1 DEF Tidy, RefsAre
  <2>4. Rooted(u)
    <3>1. u.mem.nodes[Root].parent = NIL
      BY <1>2, <2>1, <2>2 DEF Tidy, Rooted
    <3>2. ASSUME NEW m \in Nodes
          PROVE  /\ u.mem.nodes[m].parent # m
                 /\ u.mem.nodes[m].cached => IsDir(m)
                 /\ u.mem.nodes[m].unlinked => u.mem.nodes[m].parent = NIL
      <4>1. CASE m = n
        <5>1. u.mem.nodes[m].parent = NIL /\ NIL # m
          BY <1>2, <2>2, <4>1
        <5>2. u.mem.nodes[m].cached => IsDir(m)
          BY <1>2, <2>1 DEF Tidy, Rooted
        <5> QED BY <5>1, <5>2
      <4>2. CASE m # n
        BY <1>2, <2>1, <2>2, <4>2 DEF Tidy, Rooted
      <4> QED BY <4>1, <4>2
    <3> QED BY <3>1, <3>2 DEF Rooted
  <2>5. Kept(r, u)
    <3>1. \A m \in r.cached : u.mem.nodes[m].cached
      BY <1>2, <2>1, <2>2 DEF Tidy, Kept
    <3>2. ASSUME NEW m \in Nodes, NEW e \in Nodes, <<m, e>> \in r.parents
          PROVE  u.mem.nodes[m].parent = e
      BY <1>2, <2>1, <3>2 DEF Tidy, Kept
    <3> QED BY <3>1, <3>2 DEF Kept
  <2>6. Moded(r, u)
    BY <1>1, <1>2, <2>1 DEF Tidy, Moded, Kind
  <2> QED BY <1>1, <2>3, <2>4, <2>5, <2>6 DEF Going, Counted, Tidy, u
<1> QED BY <1>3, <1>4 DEF u

\* delete, after erase_node
LEMMA SoundDetach ==
    ASSUME NEW r \in Accounts, r.kind # "reads", NEW w, Going(r, w), NEW n \in Nodes,
           \A e \in Nodes : <<n, e>> \notin r.parents,
           NEW d, w.mem.crossed \/ (w.mem.nodes[n].parent = d /\ d \in r.cached /\ r.refs[d] # 0)
    PROVE  \A v \in Detach(w, n) : Sound(r, v)
<1> DEFINE e == w.mem.nodes[n].parent
           u == [w EXCEPT !.mem.nodes[n].parent = NIL, !.mem.nodes[n].unlinked = TRUE]
           Mended(v) == FlushNode(v, e)
           Rest(v) == FlushNode([v EXCEPT !.mem.nodes[e].dirty = TRUE], e)
           shrunk == ShrinkDirectory(u, e, w.mem.nodes[n].off)
<1>1. Detach(w, n) = Then(OnError(shrunk, Mended), Rest)
  BY Zenon DEF Detach
<1>2. \E p \in Accounts :
        /\ p.kind # "reads" /\ p.parents = r.parents /\ p.cached = r.cached /\ p.refs = r.refs
        /\ Going(p, w)
        /\ \A v : Sound(p, v) => Sound(r, v)
        /\ \A v : Going(p, v) => e \in Nodes \/ v.mem.crossed
  <2>1. CASE w.mem.crossed
    BY <2>1, LostKnows
  <2>2. CASE ~w.mem.crossed
    BY <2>2, AccountFields
  <2> QED BY <2>1, <2>2
<1>3. PICK p \in Accounts :
        /\ p.kind # "reads" /\ p.parents = r.parents /\ p.cached = r.cached /\ p.refs = r.refs
        /\ Going(p, w)
        /\ \A v : Sound(p, v) => Sound(r, v)
        /\ \A v : Going(p, v) => e \in Nodes \/ v.mem.crossed
  BY <1>2
<1>4. Going(p, u) /\ u.mem.crossed = w.mem.crossed
  <2>1. \A x \in Nodes : <<n, x>> \notin p.parents
    BY <1>3
  <2>2. u = Parted(w, n)
    BY Zenon DEF Parted
  <2> HIDE DEF u
  <2> QED BY <1>3, <2>1, <2>2, GoingUnlinked
<1> HIDE DEF u
<1>5. \A v \in shrunk : Sound(p, v)
  BY <1>3, <1>4, SoundShrinkDirectory
<1> HIDE DEF e
<1>6. \A v : Going(p, v) => \A t \in Mended(v) : Sound(p, t)
  BY <1>3, SoundFlushNode
<1>7. ASSUME NEW v, Going(p, v) PROVE \A t \in Rest(v) : Sound(p, t)
  <2>1. Going(p, [v EXCEPT !.mem.nodes[e].dirty = TRUE])
    BY <1>3, <1>7, GoingNode
  <2> QED BY <1>3, <2>1, SoundFlushNode
<1> HIDE DEF shrunk, Mended, Rest
<1> DEFINE Ends(v) == IF v.rc = "ok" \/ Stopped(v) THEN {v}
                      ELSE {IF Stopped(t) THEN t ELSE [t EXCEPT !.rc = v.rc] :
                              t \in Mended([v EXCEPT !.rc = "ok"])}
<1>8. \A v \in OnError(shrunk, Mended) : Sound(p, v)
  <2>1. OnError(shrunk, Mended) = UNION {Ends(v) : v \in shrunk}
    BY Zenon DEF OnError
  <2>2. ASSUME NEW v \in shrunk, NEW t \in Ends(v) PROVE Sound(p, t)
    BY <1>5, <1>6, <2>2, SoundOnError
  <2> HIDE DEF Ends
  <2> QED BY <2>1, <2>2
<1>9. \A v \in Then(OnError(shrunk, Mended), Rest) : Sound(p, v)
  BY <1>7, <1>8, SoundGoes DEF Then
<1> QED BY <1>1, <1>3, <1>9

\* delete
LEMMA SoundDelete ==
    ASSUME NEW r \in Accounts, r.kind # "reads", NEW w, Going(r, w), NEW n \in Nodes,
           \A e \in Nodes : <<n, e>> \notin r.parents, Placed(w, n)
    PROVE  \A v \in Delete(w, n) : Sound(r, v)
<1> DEFINE d == w.mem.nodes[n].parent
           Rest(v) == Detach(v, n)
           all == Then(EraseNode(Get(w, d), n), Rest)
<1>1. Delete(w, n) = IF d = NIL THEN Gives(w, "bug:null") ELSE PutAfter(all, d)
  BY Zenon DEF Delete
<1>2. CASE d = NIL
  BY <1>1, <1>2, SoundGives, Blameless DEF Going
<1>3. CASE d # NIL
  <2>1. d \in Nodes /\ (w.mem.crossed \/ w.mem.nodes[d].cached)
    BY <1>3 DEF Going, Shaped, Placed, Counted, Tidy, Rooted
  <2> DEFINE p == Know(r, d)
             q == Take(p, d)
             g == Get(w, d)
  <2>2. /\ p \in Accounts /\ p.refs = r.refs /\ p.held = r.held /\ p.kind = r.kind
        /\ p.cached = r.cached \cup {d} /\ p.parents = r.parents
    BY <2>1, KnowElse
  <2>3. Going(p, w)
    BY <2>1, <2>2 DEF Going, Counted, Tidy, RefsAre, Kept, Moded
  <2>4. \A v : Sound(p, v) => Sound(r, v)
    BY <2>2, SoundLess
  <2> HIDE DEF p
  <2>5. /\ q \in Accounts /\ q.kind = r.kind /\ q.parents = r.parents /\ d \in q.cached
    BY <2>2, TakeElse
  <2>6. q.refs[d] # 0
    <3>1. p.refs[d] \in Nat
      BY <2>1, <2>2, AccountFields
    <3> QED BY <2>1, <2>2, <3>1, TakeElse
  <2>7. Going(q, g) /\ (g.mem.nodes[n].parent = d) /\ Shaped(g)
    <3>1. Going(q, g) /\ Beside(g, w)
      BY <2>1, <2>2, <2>3, GoingGet
    <3> QED BY <3>1 DEF Beside, Going
  <2> HIDE DEF q, g
  <2>8. /\ Going(Pin(q, n, d), g)
        /\ \A v : Going(Pin(q, n, d), v) => v.mem.crossed \/ v.mem.nodes[n].parent = d
        /\ \A v : Sound(Pin(q, n, d), v) => Sound(q, v)
        /\ \A v : Going(Pin(q, n, d), v) => Going(q, v)
    BY <2>1, <2>5, <2>7, PinKept
  <2>9. Pin(q, n, d) \in Accounts
    BY <2>1, <2>5, PinElse
  <2>10. \A v \in EraseNode(g, n) : Sound(Pin(q, n, d), v)
    BY <2>1, <2>7, <2>8, <2>9, SoundEraseNode
  <2>11. ASSUME NEW v, Going(Pin(q, n, d), v) PROVE \A t \in Rest(v) : Sound(q, t)
    <3>1. Going(q, v) /\ (v.mem.crossed \/ v.mem.nodes[n].parent = d)
      BY <2>8, <2>11
    <3> QED BY <2>5, <2>6, <3>1, SoundDetach
  <2> HIDE DEF Rest
  <2>12. \A v \in Then(EraseNode(g, n), Rest) : Sound(q, v)
    BY <2>8, <2>10, <2>11, SoundGoes DEF Then
  <2>13. all = Then(EraseNode(g, n), Rest)
    BY DEF g
  <2> HIDE DEF all
  <2>14. \A v \in PutAfter(all, d) : Sound(p, v)
    BY <2>1, <2>2, <2>12, <2>13, SoundPutAfter DEF q
  <2> QED BY <1>1, <1>3, <2>4, <2>14
<1> QED BY <1>2, <1>3

\* exfat_unlink
LEMMA SoundUnlink ==
    ASSUME NEW r \in Accounts, r.kind # "reads", NEW w, Going(r, w), NEW n \in Nodes,
           \A e \in Nodes : <<n, e>> \notin r.parents, Placed(w, n)
    PROVE  \A v \in Unlink(w, n) : Sound(r, v)
<1>1. \A v \in Gives(w, "EISDIR") : Sound(r, v)
  BY SoundGives, Blameless DEF Going
<1> QED BY <1>1, SoundDelete DEF Unlink

\* exfat_rmdir
LEMMA SoundRmdir ==
    ASSUME NEW r \in Ledgers, r.kind # "reads", NEW w, Going(r, w), NEW n \in Nodes,
           r.refs[n] # 0, Placed(w, n)
    PROVE  \A v \in Rmdir(w, n) : Sound(r, v)
<1> DEFINE Rest(v) == IF MayRemove(v, n) THEN Delete(v, n) ELSE Gives(v, "ENOTEMPTY")
<1>1. Rmdir(w, n) = IF ~IsDir(n) THEN Gives(w, "ENOTDIR") ELSE Then(CacheDirectory(w, n), Rest)
  BY Zenon DEF Rmdir
<1>2. r \in Accounts /\ r.parents = {}
  BY DEF Ledgers
<1>3. PICK q \in Accounts :
             /\ q.refs = r.refs /\ q.held = r.held /\ q.kind \in {r.kind, "lost"}
             /\ Going(q, w)
             /\ \A v : Sound(q, v) => Sound(r, v)
             /\ \A v : Going(q, v) => Going(r, v) /\ Placed(v, n)
  BY <1>2, PlaceKept
<1>4. ASSUME NEW v, Going(r, v), Placed(v, n) PROVE \A u \in Rest(v) : Sound(r, u)
  <2>1. \A u \in Gives(v, "ENOTEMPTY") : Sound(r, u)
    BY <1>4, SoundGives, Blameless DEF Going
  <2>2. \A u \in Delete(v, n) : Sound(r, u)
    BY <1>2, <1>4, SoundDelete
  <2> QED BY <2>1, <2>2
<1> HIDE DEF Rest
<1>5. \A v \in CacheDirectory(w, n) : Sound(q, v)
  BY <1>3, SoundCacheDirectory
<1>6. \A v \in Then(CacheDirectory(w, n), Rest) : Sound(r, v)
  BY <1>3, <1>4, <1>5, SoundGoes DEF Then
<1>7. \A v \in Gives(w, "ENOTDIR") : Sound(r, v)
  BY SoundGives, Blameless DEF Going
<1> QED BY <1>1, <1>6, <1>7

\* The node n may be cleaned up: nobody refers to it, or a caller does.
Free(r, n) == /\ r.refs[n] # 0 => r.held # {}
              /\ n \in r.cached => r.refs[n] # 0

\* exfat_cleanup_node frees a node that nobody refers to.
LEMMA GoingFreed ==
    ASSUME NEW r \in Accounts, NEW w, Shaped(w), Counted(r, w), NEW n \in Nodes,
           w.mem.crossed \/ /\ r.refs[n] = 0 /\ n \notin r.cached
                            /\ w.mem.nodes[n].parent = NIL,
           NEW v, v = [w EXCEPT !.mem.nodes[n] = NoNode]
    PROVE  Shaped(v) /\ Counted(r, v) /\ v.rc = w.rc /\ v.mem.crossed = w.mem.crossed
<1>1. /\ NoNode.refs = 0 /\ NoNode.parent = NIL /\ NoNode.cached = FALSE
      /\ NoNode.unlinked = FALSE /\ NoNode.dirty = FALSE
      /\ {"refs", "parent", "cached", "unlinked", "dirty"} \subseteq DOMAIN NoNode
  BY DEF NoNode
<1>2. /\ {"vol", "mem", "rc", "faults", "got", "dir", "off"} \subseteq DOMAIN v
      /\ {"nodes", "crossed", "on", "ro", "repair"} \subseteq DOMAIN v.mem
      /\ DOMAIN v.mem.nodes = Nodes /\ v.mem.on
      /\ v.rc = w.rc /\ v.mem.crossed = w.mem.crossed
      /\ v.mem.ro = w.mem.ro /\ v.mem.repair = w.mem.repair
      /\ \A m \in Nodes : v.mem.nodes[m] = IF m = n THEN NoNode ELSE w.mem.nodes[m]
  <2> HIDE DEF NoNode
  <2> QED BY DEF Shaped
<1>3. Shaped(v)
  <2>1. \A m \in Nodes : /\ {"refs", "parent", "cached", "unlinked", "dirty"} \subseteq DOMAIN v.mem.nodes[m]
                         /\ v.mem.nodes[m].parent \in Nodes \cup {NIL}
    BY <1>1, <1>2 DEF Shaped
  <2> QED BY <1>2, <2>1 DEF Shaped
<1>4. CASE w.mem.crossed
  BY <1>2, <1>3, <1>4 DEF Counted
<1>5. CASE ~w.mem.crossed
  <2>1. Tidy(r, w) /\ r.refs[n] = 0 /\ n \notin r.cached /\ w.mem.nodes[n].parent = NIL
    BY <1>5 DEF Counted
  <2>2. r.cached \subseteq Nodes /\ Root \in Nodes /\ NIL \notin Nodes
    BY AccountFields
  <2>3. RefsAre(r, v)
    BY <1>1, <1>2, <2>1 DEF Tidy, RefsAre
  <2>4. Rooted(v)
    BY <1>1, <1>2, <2>1, <2>2 DEF Tidy, Rooted
  <2>5. Kept(r, v)
    BY <1>1, <1>2, <2>1, <2>2 DEF Tidy, Kept
  <2>6. Moded(r, v)
    BY <1>1, <1>2, <2>1 DEF Tidy, Moded, Kind
  <2> QED BY <1>2, <1>3, <2>3, <2>4, <2>5, <2>6 DEF Counted, Tidy
<1> QED BY <1>2, <1>3, <1>4, <1>5

\* exfat_cleanup_node
LEMMA SoundCleanup ==
    ASSUME NEW r \in Accounts, NEW w, Going(r, w), NEW n \in Nodes, w.mem.crossed \/ Free(r, n)
    PROVE  \A v \in Cleanup(w, n) : Sound(r, v)
<1> DEFINE Gone(v) == [v EXCEPT !.mem.nodes[n] = NoNode]
<1>1. Cleanup(w, n) = IF w.mem.nodes[n].refs # 0 THEN Gives(w, "bug:references")
                      ELSE IF ~w.mem.nodes[n].unlinked THEN {w}
                      ELSE Finally(Truncate(w, n, 0), Gone)
  BY Zenon DEF Cleanup
<1>2. CASE w.mem.nodes[n].refs # 0
  <2>1. w.mem.crossed \/ Blame(r, "bug:references")
    BY <1>2 DEF Going, Counted, Tidy, RefsAre, Moded, Kind, Free, Blame
  <2> QED BY <1>1, <1>2, <2>1, SoundGives
<1>3. CASE w.mem.nodes[n].refs = 0 /\ w.mem.nodes[n].unlinked
  <2>1. w.mem.crossed \/ /\ r.refs[n] = 0 /\ n \notin r.cached
                         /\ w.mem.nodes[n].parent = NIL
    BY <1>3 DEF Going, Counted, Tidy, RefsAre, Rooted, Free
  <2>2. Cared(r, w, n)
    BY <2>1 DEF Cared
  <2>3. \A v \in Truncate(w, n, 0) : Sound(r, v) /\ Alike(v, w)
    BY <2>2, SoundTruncate
  <2>4. ASSUME NEW v \in Truncate(w, n, 0), ~Stopped(v) PROVE Sound(r, Gone(v))
    <3>1. Shaped(v) /\ Counted(r, v)
      BY <2>3, <2>4 DEF Sound
    <3>2. v.mem.crossed \/ /\ r.refs[n] = 0 /\ n \notin r.cached
                           /\ v.mem.nodes[n].parent = NIL
      BY <2>1, <2>3 DEF Alike
    <3>3. Shaped(Gone(v)) /\ Counted(r, Gone(v)) /\ Gone(v).rc = v.rc
      BY <3>1, <3>2, GoingFreed
    <3> HIDE DEF Gone
    <3> QED BY <2>4, <3>3 DEF Sound, Stopped
  <2> HIDE DEF Gone
  <2>5. \A v \in Finally(Truncate(w, n, 0), Gone) : Sound(r, v)
    BY <2>3, <2>4 DEF Finally
  <2> QED BY <1>1, <1>3, <2>5
<1>4. CASE w.mem.nodes[n].refs = 0 /\ ~w.mem.nodes[n].unlinked
  BY <1>1, <1>4, SoundGoes
<1> QED BY <1>2, <1>3, <1>4

-----------------------------------------------------------------------------
(***************************************************************************)
(* Creating.                                                               *)
(***************************************************************************)
\* find_slot, in a directory that has been read.
LEMMA SoundFindSlot ==
    ASSUME NEW r \in Accounts, NEW w, Going(r, w), NEW d, NEW n,
           w.mem.crossed \/ (d \in r.cached /\ r.refs[d] # 0)
    PROVE  \A v \in FindSlot(w, d, n) : Sound(r, v)
<1>1. PICK off, size : FindSlot(w, d, n) \in
        {IF ~w.mem.nodes[d].cached THEN Gives(w, "bug:uncached") ELSE {[w EXCEPT !.off = off]},
         {[w EXCEPT !.off = off]}, Truncate([w EXCEPT !.off = off], d, size)}
  BY DEF FindSlot
<1>2. w.mem.crossed \/ w.mem.nodes[d].cached
  BY DEF Going, Counted, Tidy, Kept
<1>3. w.mem.crossed => \A v \in Gives(w, "bug:uncached") : Sound(r, v)
  BY SoundGives
<1>4. Going(r, [w EXCEPT !.off = off])
  BY GoingElse
<1>5. [w EXCEPT !.off = off].mem = w.mem
  BY GoingElse
<1> DEFINE u == [w EXCEPT !.off = off]
<1> HIDE DEF u
<1>6. Going(r, u) /\ u.mem = w.mem
  BY <1>4, <1>5 DEF u
<1>7. Cared(r, u, d)
  BY <1>6, AccountFields DEF Cared
<1>8. \A v \in Truncate(u, d, size) : Sound(r, v)
  BY <1>6, <1>7, SoundTruncate
<1>9. FindSlot(w, d, n) \in
        {IF ~w.mem.nodes[d].cached THEN Gives(w, "bug:uncached") ELSE {u},
         {u}, Truncate(u, d, size)}
  BY <1>1 DEF u
<1> QED BY <1>2, <1>3, <1>6, <1>8, <1>9, SoundGoes

\* w with a node where no node was.
Settled(w, o, x) == [w EXCEPT !.mem.nodes[o] = x]

\* A new node is in d, and nobody refers to it.
LEMMA GoingSettled ==
    ASSUME NEW r \in Accounts, NEW w, Going(r, w), NEW o \in Nodes, w.mem.nodes[o] = NoNode,
           NEW d \in Nodes, r.refs[d] # 0,
           NEW x, {"refs", "parent", "cached", "unlinked", "dirty"} \subseteq DOMAIN x,
           x.refs = 0, x.parent = d, ~x.cached, ~x.unlinked, ~x.dirty
    PROVE  Going(r, Settled(w, o, x))
<1> DEFINE v == Settled(w, o, x)
<1>1. /\ {"vol", "mem", "rc", "faults", "got", "dir", "off"} \subseteq DOMAIN v
      /\ {"nodes", "crossed", "on", "ro", "repair"} \subseteq DOMAIN v.mem
      /\ DOMAIN v.mem.nodes = Nodes /\ v.mem.on
      /\ v.rc = "ok" /\ v.mem.crossed = w.mem.crossed
      /\ v.mem.ro = w.mem.ro /\ v.mem.repair = w.mem.repair
      /\ \A m \in Nodes : v.mem.nodes[m] = IF m = o THEN x ELSE w.mem.nodes[m]
  BY DEF Going, Shaped, Settled
<1> HIDE DEF v
<1>2. Shaped(v)
  <2>1. \A m \in Nodes : /\ {"refs", "parent", "cached", "unlinked", "dirty"} \subseteq DOMAIN v.mem.nodes[m]
                         /\ v.mem.nodes[m].parent \in Nodes \cup {NIL}
    BY <1>1 DEF Going, Shaped
  <2> QED BY <1>1, <2>1 DEF Shaped
<1>3. CASE w.mem.crossed
  BY <1>1, <1>2, <1>3 DEF Going, Counted, v
<1>4. CASE ~w.mem.crossed
  <2>1. Tidy(r, w)
    BY <1>4 DEF Going, Counted
  <2>2. /\ NoNode.refs = 0 /\ NoNode.parent = NIL /\ ~NoNode.cached
        /\ r.cached \subseteq Nodes /\ Root \in Nodes /\ NIL \notin Nodes /\ r.refs[Root] # 0
    BY AccountFields DEF NoNode
  <2>3. r.refs[o] = 0 /\ o # d /\ o # Root /\ o \notin r.cached
        /\ \A e \in Nodes : <<o, e>> \notin r.parents
    BY <2>1, <2>2 DEF Tidy, RefsAre, Kept
  <2>4. RefsAre(r, v)
    BY <1>1, <2>1, <2>3 DEF Tidy, RefsAre
  <2>5. Rooted(v)
    <3>1. v.mem.nodes[Root].parent = NIL
      BY <1>1, <2>1, <2>2, <2>3 DEF Tidy, Rooted
    <3>2. ASSUME NEW m \in Nodes
          PROVE  /\ v.mem.nodes[m].parent # m
                 /\ v.mem.nodes[m].cached => IsDir(m)
                 /\ v.mem.nodes[m].unlinked => v.mem.nodes[m].parent = NIL
      BY <1>1, <2>1, <2>3 DEF Tidy, Rooted
    <3> QED BY <3>1, <3>2 DEF Rooted
  <2>6. Kept(r, v)
    BY <1>1, <2>1, <2>2, <2>3 DEF Tidy, Kept
  <2>7. Moded(r, v)
    BY <1>1, <2>1 DEF Tidy, Moded, Kind
  <2> QED BY <1>1, <1>2, <2>4, <2>5, <2>6, <2>7 DEF Going, Counted, Tidy, v
<1> QED BY <1>3, <1>4

\* commit_entry: the new node takes a place where no node was.
LEMMA SoundCommitEntry ==
    ASSUME NEW r \in Accounts, NEW w, Going(r, w), NEW d \in Nodes, r.refs[d] # 0, NEW name,
           NEW kind \in SUBSET Nodes
    PROVE  \A v \in CommitEntry(w, d, name, kind) : Sound(r, v)
<1> DEFINE row(o) == EntrySet(o, name, 0)
           node(o) == NodeOf(d, w.off, row(o), FALSE)
           Write(o) == WriteEntries(w, d, w.off, row(o))
           Commit(o) == Then(Write(o), LAMBDA v : {[v EXCEPT !.mem.nodes[o] = node(o)]})
<1>1. CommitEntry(w, d, name, kind) = UNION {Commit(o) : o \in Fresh(w, kind)}
  BY Zenon DEF CommitEntry
<1>2. ASSUME NEW o \in Fresh(w, kind), NEW v \in Write(o), v.rc = "ok"
      PROVE  Sound(r, Settled(v, o, node(o)))
  <2>1. /\ node(o).refs = 0 /\ node(o).parent = d /\ ~node(o).cached /\ ~node(o).unlinked
        /\ ~node(o).dirty
        /\ {"refs", "parent", "cached", "unlinked", "dirty"} \subseteq DOMAIN node(o)
    <3> HIDE DEF row
    <3> QED BY DEF NodeOf, NoNode
  <2>2. o \in Nodes /\ w.mem.nodes[o] = NoNode
    BY DEF Fresh
  <2>3. Going(r, v) /\ v.mem = w.mem
    BY <1>2, SoundWriteEntries, SoundGoes
  <2> HIDE DEF node
  <2> QED BY <2>1, <2>2, <2>3, GoingSettled, SoundGoes
<1>3. \A o : \A v \in Write(o) : Sound(r, v)
  BY SoundWriteEntries
<1>4. ASSUME NEW o \in Fresh(w, kind), NEW t \in Commit(o) PROVE Sound(r, t)
  <2>1. PICK v \in Write(o) : t \in IF v.rc = "ok" THEN {Settled(v, o, node(o))} ELSE {v}
    BY <1>4 DEF Then, Settled
  <2> HIDE DEF node
  <2> QED BY <1>2, <1>3, <2>1
<1> HIDE DEF Commit
<1> QED BY <1>1, <1>4

\* An account of a directory that is worked on.
LEMMA WorkedOn ==
    ASSUME NEW r \in Accounts, NEW d \in Nodes
    PROVE  /\ Know(r, d) \in Accounts /\ Take(Know(r, d), d) \in Accounts
           /\ Take(Know(r, d), d).kind = r.kind /\ Take(Know(r, d), d).held = r.held
           /\ Take(Know(r, d), d).parents = r.parents
           /\ Take(Know(r, d), d).cached = r.cached \cup {d}
           /\ d \in Take(Know(r, d), d).cached /\ Take(Know(r, d), d).refs[d] # 0
           /\ \A m \in Nodes : Take(Know(r, d), d).refs[m] =
                                 IF m = d THEN r.refs[m] + 1 ELSE r.refs[m]
           /\ \A v : /\ Sound(Know(r, d), v) => Sound(r, v)
                     /\ Counted(Know(r, d), v) => Counted(r, v)
                     /\ Going(Know(r, d), v) => Going(r, v)
<1> DEFINE p == Know(r, d)
           q == Take(p, d)
<1>1. /\ p \in Accounts /\ p.refs = r.refs /\ p.held = r.held /\ p.kind = r.kind
      /\ p.cached = r.cached \cup {d} /\ p.parents = r.parents
  BY KnowElse
<1> HIDE DEF p
<1>2. /\ q \in Accounts /\ q.kind = p.kind /\ q.held = p.held /\ q.parents = p.parents
      /\ q.cached = p.cached
      /\ \A m \in Nodes : q.refs[m] = IF m = d THEN p.refs[m] + 1 ELSE p.refs[m]
  BY <1>1, TakeElse
<1>3. p.refs[d] \in Nat
  BY <1>1, AccountFields
<1>4. \A v : /\ Sound(p, v) => Sound(r, v)
             /\ Counted(p, v) => Counted(r, v)
             /\ Going(p, v) => Going(r, v)
  BY <1>1, SoundLess
<1> HIDE DEF q
<1>5. q.refs[d] # 0
  BY <1>2, <1>3
<1>6. /\ q.kind = r.kind /\ q.held = r.held /\ q.parents = r.parents /\ d \in q.cached
      /\ q.cached = r.cached \cup {d}
      /\ \A m \in Nodes : q.refs[m] = IF m = d THEN r.refs[m] + 1 ELSE r.refs[m]
  BY <1>1, <1>2
<1> QED BY <1>1, <1>2, <1>4, <1>5, <1>6 DEF p, q

\* create, when the path has been split: the directory's reference is given back.
LEMMA SoundCreateIn ==
    ASSUME NEW r \in Accounts, r.kind # "reads", NEW w, NEW d \in Nodes,
           Going(Take(Know(r, d), d), w), NEW name, NEW kind \in SUBSET Nodes
    PROVE  \A v \in CreateIn(w, d, name, kind) : Sound(r, v)
<1> DEFINE Dirty(u) == FlushNode([u EXCEPT !.mem.nodes[d].dirty = TRUE], d)
           Commit(v) == Then(CommitEntry(v, d, name, kind), Dirty)
           all == Then(FindSlot(w, d, 2 + NameEntries[name]), Commit)
           q == Take(Know(r, d), d)
<1>1. CreateIn(w, d, name, kind) = PutAfter(all, d)
  BY Zenon DEF CreateIn
<1>2. q \in Accounts /\ q.kind # "reads" /\ d \in q.cached /\ q.refs[d] # 0
  BY WorkedOn
<1>3. Going(q, w)
  OBVIOUS
<1> HIDE DEF q
<1>4. ASSUME NEW u, Going(q, u) PROVE \A v \in Dirty(u) : Sound(q, v)
  <2>1. Going(q, [u EXCEPT !.mem.nodes[d].dirty = TRUE])
    BY <1>2, <1>4, GoingNode
  <2> QED BY <1>2, <2>1, SoundFlushNode
<1> HIDE DEF Dirty
<1>5. \A v : Going(q, v) => \A u \in Commit(v) : Sound(q, u)
  BY <1>2, <1>4, SoundCommitEntry, SoundGoes DEF Then
<1> HIDE DEF Commit
<1>6. \A v \in all : Sound(q, v)
  BY <1>2, <1>3, <1>5, SoundFindSlot, SoundGoes DEF Then
<1> HIDE DEF all
<1>7. \A v \in PutAfter(all, d) : Sound(Know(r, d), v)
  BY <1>6, WorkedOn, SoundPutAfter DEF q
<1> QED BY <1>1, <1>7, WorkedOn

\* create
LEMMA SoundCreate ==
    ASSUME NEW r \in Accounts, r.kind # "reads", NEW w, Going(r, w), NEW path,
           NEW kind \in SUBSET Nodes
    PROVE  \A v \in Create(w, path, kind) : Sound(r, v)
<1> DEFINE Exists(v) == [Put(Put(v, v.got), v.dir) EXCEPT !.rc = "EEXIST"]
           Rest(v) == IF v.got # NIL THEN {Exists(v)} ELSE CreateIn(v, v.dir, Last(path), kind)
<1>1. Create(w, path, kind) = Then(Split(w, path), Rest)
  BY Zenon DEF Create
<1>2. ASSUME NEW p, Shaped(p), Counted(r, p) PROVE Sound(r, [p EXCEPT !.rc = "EEXIST"])
  <2>1. p.mem.crossed \/ Blame(r, "EEXIST")
    BY <1>2, Blameless
  <2> QED BY <1>2, <2>1, CountedResult
<1>3. ASSUME NEW v, v.rc = "ok", Divided(r, v), v.got # NIL PROVE Sound(r, Exists(v))
  <2> DEFINE q == Take(Know(r, v.dir), v.dir)
  <2>1. v.dir \in Nodes /\ v.got \in Nodes /\ Going(Take(q, v.got), v)
    BY <1>3 DEF Divided
  <2>2. Know(r, v.dir) \in Accounts /\ q \in Accounts
    BY <2>1, WorkedOn
  <2> HIDE DEF q
  <2>3. Shaped(Put(v, v.got)) /\ Counted(q, Put(v, v.got))
    BY <2>1, <2>2, CountedPut, PutElse DEF Going
  <2> DEFINE t == Put(v, v.got)
  <2> HIDE DEF t
  <2>4. Shaped(t) /\ Counted(Take(Know(r, v.dir), v.dir), t)
    BY <2>3 DEF q, t
  <2>5. Shaped(Put(t, v.dir)) /\ Counted(Know(r, v.dir), Put(t, v.dir))
    BY <2>1, <2>2, <2>4, CountedPut, PutElse
  <2>6. Counted(r, Put(t, v.dir))
    BY <2>1, <2>5, WorkedOn
  <2>7. Sound(r, [Put(t, v.dir) EXCEPT !.rc = "EEXIST"])
    BY <1>2, <2>5, <2>6
  <2> QED BY <2>7 DEF t
<1>4. ASSUME NEW v, v.rc = "ok", Divided(r, v), v.got = NIL
      PROVE  \A u \in CreateIn(v, v.dir, Last(path), kind) : Sound(r, u)
  <2>1. v.dir \in Nodes /\ Going(Take(Know(r, v.dir), v.dir), v)
    BY <1>4, ExfatDirAssumption DEF Divided
  <2> QED BY <2>1, SoundCreateIn
<1> HIDE DEF Exists
<1>5. \A v : v.rc = "ok" /\ Divided(r, v) => \A u \in Rest(v) : Sound(r, u)
  BY <1>3, <1>4
<1> HIDE DEF Rest
<1> QED BY <1>1, <1>5, DividedSplit DEF Then, Divided

\* exfat_mkdir, when the new directory has been looked up: it gets a cluster or is deleted.
MkdirEnds(u) ==
    OnError(Then(Truncate(u, u.got, 1), LAMBDA t : FlushNode(t, u.got)), LAMBDA t : Delete(t, u.got))

LEMMA SoundMkdirEnds ==
    ASSUME NEW r \in Accounts, r.parents = {}, r.kind # "reads", NEW u, u.got \in Nodes,
           r.refs[u.got] # 0, Going(r, u), Placed(u, u.got)
    PROVE  \A t \in MkdirEnds(u) : Sound(r, t)
<1> DEFINE n == u.got
           Flushed(t) == FlushNode(t, n)
           Undo(t) == Delete(t, n)
           grown == Then(Truncate(u, n, 1), Flushed)
           S(x) == Undo([x EXCEPT !.rc = "ok"])
           Ends(x) == IF x.rc = "ok" \/ Stopped(x) THEN {x}
                      ELSE {IF Stopped(y) THEN y ELSE [y EXCEPT !.rc = x.rc] : y \in S(x)}
<1>1. MkdirEnds(u) = UNION {Ends(x) : x \in grown}
  BY Zenon DEF MkdirEnds, OnError
<1>2. PICK q \in Accounts :
             /\ q.refs = r.refs /\ q.held = r.held /\ q.kind \in {r.kind, "lost"}
             /\ Going(q, u)
             /\ \A v : Sound(q, v) => Sound(r, v)
             /\ \A v : Going(q, v) => Going(r, v) /\ Placed(v, n)
  BY PlaceKept
<1>3. \A x \in grown : Sound(q, x)
  <2>1. Cared(q, u, n)
    BY <1>2 DEF Cared
  <2>2. \A x \in Truncate(u, n, 1) : Sound(q, x)
    BY <1>2, <2>1, SoundTruncate
  <2>3. \A v : Going(q, v) => \A x \in Flushed(v) : Sound(q, x)
    BY SoundFlushNode
  <2> HIDE DEF Flushed
  <2> QED BY <2>2, <2>3, SoundGoes DEF Then
<1> HIDE DEF grown, n
<1>4. ASSUME NEW v, Going(q, v) PROVE \A y \in Undo(v) : Sound(r, y)
  BY <1>2, <1>4, SoundDelete DEF n
<1>5. ASSUME NEW x \in grown, NEW t \in Ends(x) PROVE Sound(r, t)
  <2>1. CASE x.rc = "ok" \/ Stopped(x)
    BY <1>2, <1>3, <1>5, <2>1
  <2>2. CASE ~(x.rc = "ok" \/ Stopped(x))
    <3>1. Going(q, [x EXCEPT !.rc = "ok"])
      BY <1>3, <1>5, <2>2, CountedResult DEF Sound
    <3>2. \A y \in S(x) : Sound(r, y)
      BY <1>4, <3>1
    <3> HIDE DEF S
    <3>3. Sound(r, x)
      BY <1>2, <1>3, <1>5
    <3> QED BY <1>5, <3>2, <3>3, SoundOnError
  <2> QED BY <2>1, <2>2
<1> HIDE DEF Ends
<1> QED BY <1>1, <1>5

\* exfat_mkdir
LEMMA SoundMkdir ==
    ASSUME NEW r \in Ledgers, r.kind # "reads", NEW w, Going(r, w), NEW path
    PROVE  \A v \in Mkdir(w, path) : Sound(r, v)
<1> DEFINE Ends(u) == IF u.rc # "ok" THEN (IF Stopped(u) THEN {u} ELSE {[u EXCEPT !.rc = "ok"]})
                      ELSE PutAfter(MkdirEnds(u), u.got)
           Rest(v) == UNION {Ends(u) : u \in Lookup(v, path)}
<1>1. Mkdir(w, path) = Then(Create(w, path, Directories), Rest)
  BY Zenon DEF Mkdir, MkdirEnds
<1>2. r \in Accounts /\ r.parents = {} /\ Directories \in SUBSET Nodes
  BY DEF Ledgers, Nodes
<1>3. ASSUME NEW u, Found(r, u), NEW t \in Ends(u) PROVE Sound(r, t)
  <2>1. CASE u.rc = "ok"
    <3> DEFINE q == Take(r, u.got)
    <3>1. u.got \in Nodes /\ Going(q, u) /\ Placed(u, u.got)
      BY <1>3, <2>1, SoundGoes DEF Found
    <3>2. q \in Accounts /\ q.parents = {} /\ q.kind # "reads"
      BY <1>2, TakeElse
    <3>3. q.refs[u.got] # 0
      <4>1. r.refs[u.got] \in Nat
        BY <1>2, <3>1, AccountFields
      <4> QED BY <1>2, <3>1, <4>1, TakeElse
    <3> HIDE DEF q
    <3>4. \A x \in MkdirEnds(u) : Sound(q, x)
      BY <3>1, <3>2, <3>3, SoundMkdirEnds
    <3> QED BY <1>2, <1>3, <2>1, <3>1, <3>4, SoundPutAfter DEF q
  <2>2. CASE u.rc # "ok"
    <3>1. Sound(r, u)
      BY <1>3, <2>2 DEF Found
    <3>2. ~Stopped(u) => Sound(r, [u EXCEPT !.rc = "ok"])
      BY <3>1, SoundReply DEF Bugs
    <3> QED BY <1>3, <2>2, <3>1, <3>2
  <2> QED BY <2>1, <2>2
<1> HIDE DEF Ends
<1>4. \A v : Going(r, v) => \A t \in Rest(v) : Sound(r, t)
  BY <1>2, <1>3, FoundLookup
<1> HIDE DEF Rest
<1> QED BY <1>1, <1>2, <1>4, SoundCreate, SoundGoes DEF Then

-----------------------------------------------------------------------------
(***************************************************************************)
(* Renaming, labels, and what callers do with a node.                      *)
(***************************************************************************)
\* Where the entries of a node are does not matter.
Shifted(w, n, off, cont) == [w EXCEPT !.mem.nodes[n].off = off, !.mem.nodes[n].cont = cont]

LEMMA GoingShifted ==
    ASSUME NEW r \in Accounts, NEW w, Going(r, w), NEW n, NEW off, NEW cont
    PROVE  Going(r, Shifted(w, n, off, cont))
<1> DEFINE v == Shifted(w, n, off, cont)
<1>1. /\ {"vol", "mem", "rc", "faults", "got", "dir", "off"} \subseteq DOMAIN v
      /\ {"nodes", "crossed", "on", "ro", "repair"} \subseteq DOMAIN v.mem
      /\ DOMAIN v.mem.nodes = Nodes /\ v.mem.on
      /\ v.rc = "ok" /\ v.mem.crossed = w.mem.crossed
      /\ v.mem.ro = w.mem.ro /\ v.mem.repair = w.mem.repair
  BY DEF Going, Shaped, Shifted
<1>2. ASSUME NEW m \in Nodes
      PROVE  /\ {"refs", "parent", "cached", "unlinked", "dirty"} \subseteq DOMAIN v.mem.nodes[m]
             /\ v.mem.nodes[m].refs = w.mem.nodes[m].refs
             /\ v.mem.nodes[m].parent = w.mem.nodes[m].parent
             /\ v.mem.nodes[m].cached = w.mem.nodes[m].cached
             /\ v.mem.nodes[m].unlinked = w.mem.nodes[m].unlinked
             /\ v.mem.nodes[m].dirty = w.mem.nodes[m].dirty
  BY DEF Going, Shaped, Shifted
<1> HIDE DEF v
<1>3. Shaped(v)
  BY <1>1, <1>2 DEF Going, Shaped
<1>4. Alike(v, w)
  BY <1>1, <1>2 DEF Alike
<1>5. Counted(r, v)
  BY <1>2, <1>4, CountedAlike DEF Going
<1> QED BY <1>1, <1>3, <1>5 DEF Going, v

\* A node comes into another directory.
LEMMA GoingMoved ==
    ASSUME NEW r \in Accounts, NEW w, Going(r, w), NEW n \in Nodes, NEW d \in Nodes, NEW name,
           \A e \in Nodes : <<n, e>> \notin r.parents,
           w.mem.crossed \/ (n # Root /\ n # d /\ ~w.mem.nodes[n].unlinked)
    PROVE  Going(r, MoveNode(w, n, d, name))
<1> DEFINE v == MoveNode(w, n, d, name)
<1>1. /\ {"vol", "mem", "rc", "faults", "got", "dir", "off"} \subseteq DOMAIN v
      /\ {"nodes", "crossed", "on", "ro", "repair"} \subseteq DOMAIN v.mem
      /\ DOMAIN v.mem.nodes = Nodes /\ v.mem.on
      /\ v.rc = "ok" /\ v.mem.crossed = w.mem.crossed
      /\ v.mem.ro = w.mem.ro /\ v.mem.repair = w.mem.repair
  BY DEF Going, Shaped, MoveNode
<1>2. ASSUME NEW m \in Nodes
      PROVE  /\ {"refs", "parent", "cached", "unlinked", "dirty"} \subseteq DOMAIN v.mem.nodes[m]
             /\ v.mem.nodes[m].refs = w.mem.nodes[m].refs
             /\ m = n => v.mem.nodes[m].parent = d
             /\ m # n => v.mem.nodes[m].parent = w.mem.nodes[m].parent
             /\ v.mem.nodes[m].cached = w.mem.nodes[m].cached
             /\ v.mem.nodes[m].unlinked = w.mem.nodes[m].unlinked
             /\ v.mem.nodes[m].dirty = w.mem.nodes[m].dirty
  BY DEF Going, Shaped, MoveNode
<1> HIDE DEF v
<1>3. Shaped(v)
  BY <1>1, <1>2 DEF Going, Shaped
<1>4. CASE w.mem.crossed
  BY <1>1, <1>3, <1>4 DEF Going, Counted, v
<1>5. CASE ~w.mem.crossed
  <2>1. Tidy(r, w) /\ n # Root /\ n # d /\ ~w.mem.nodes[n].unlinked
    BY <1>5 DEF Going, Counted
  <2>2. r.cached \subseteq Nodes /\ Root \in Nodes /\ NIL \notin Nodes
    BY AccountFields
  <2>3. RefsAre(r, v)
    BY <1>2, <2>1 DEF Tidy, RefsAre
  <2>4. Rooted(v)
    <3>1. v.mem.nodes[Root].parent = NIL
      BY <1>2, <2>1, <2>2 DEF Tidy, Rooted
    <3>2. ASSUME NEW m \in Nodes
          PROVE  /\ v.mem.nodes[m].parent # m
                 /\ v.mem.nodes[m].cached => IsDir(m)
                 /\ v.mem.nodes[m].unlinked => v.mem.nodes[m].parent = NIL
      <4>1. v.mem.nodes[m].parent # m
        BY <1>2, <2>1 DEF Tidy, Rooted
      <4>2. v.mem.nodes[m].cached => IsDir(m)
        BY <1>2, <2>1 DEF Tidy, Rooted
      <4>3. v.mem.nodes[m].unlinked => v.mem.nodes[m].parent = NIL
        BY <1>2, <2>1 DEF Tidy, Rooted
      <4> QED BY <4>1, <4>2, <4>3
    <3> QED BY <3>1, <3>2 DEF Rooted
  <2>5. Kept(r, v)
    <3>1. \A m \in r.cached : v.mem.nodes[m].cached
      BY <1>2, <2>1, <2>2 DEF Tidy, Kept
    <3>2. ASSUME NEW m \in Nodes, NEW e \in Nodes, <<m, e>> \in r.parents
          PROVE  v.mem.nodes[m].parent = e
      BY <1>2, <2>1, <3>2 DEF Tidy, Kept
    <3> QED BY <3>1, <3>2 DEF Kept
  <2>6. Moded(r, v)
    BY <1>1, <1>2, <2>1 DEF Tidy, Moded, Kind
  <2> QED BY <1>1, <1>3, <2>3, <2>4, <2>5, <2>6 DEF Going, Counted, Tidy, v
<1> QED BY <1>4, <1>5

\* rename_entry, into the directory d.
LEMMA SoundRenameEntry ==
    ASSUME NEW r \in Accounts, r.parents = {}, NEW w, Going(r, w), NEW n \in Nodes,
           NEW d \in Nodes, d \in r.cached, IsDir(n) => n # d, NEW name
    PROVE  \A v \in RenameEntry(w, n, d, name) : Sound(r, v)
<1> DEFINE x == w.mem.nodes[n]
           e == x.parent
           cont == 1 + NameEntries[name]
           row(v) == LET info == Entries(v, e, x.off, 2)[2] IN EntrySet(info.o, name, info.size)
           Move(u) == {MoveNode(u, n, d, name)}
           Write(s, u) == Then(WriteEntries(Shifted(u, n, w.off, cont), d, w.off, s), Move)
           Erase(v) == Then(EraseNode(v, n), LAMBDA u : Write(row(v), u))
           q == Pin(r, n, e)
<1>1. RenameEntry(w, n, d, name) = Then(Readable(w, e, x.off, 2), Erase)
  BY Zenon DEF RenameEntry, Shifted
<1>2. \A v \in Readable(w, e, x.off, 2) : Sound(r, v) /\ (v.rc = "ok" => v = w /\ e # NIL)
  BY SoundReadable
<1>3. ASSUME e # NIL PROVE \A v \in Erase(w) : Sound(r, v)
  <2>1. e \in Nodes
    BY <1>3 DEF Going, Shaped
  <2>2. /\ Going(q, w)
        /\ \A v : Going(q, v) => v.mem.crossed \/ v.mem.nodes[n].parent = e
        /\ \A v : Sound(q, v) => Sound(r, v)
        /\ \A v : Going(q, v) => Going(r, v)
    BY <2>1, PinKept
  <2>3. q \in Accounts
    BY <2>1, PinElse
  <2>4. w.mem.nodes[n].parent = e
    OBVIOUS
  <2> HIDE DEF q, e, row, cont
  <2>5. \A v \in EraseNode(w, n) : Sound(q, v)
    BY <2>1, <2>2, <2>3, <2>4, SoundEraseNode
  <2>6. ASSUME NEW v, Going(q, v) PROVE \A u \in Move(v) : Sound(r, u)
    <3>1. Going(r, v) /\ (v.mem.crossed \/ v.mem.nodes[n].parent = e)
      BY <2>2, <2>6
    <3>2. e # NIL /\ NIL \notin Nodes
      BY <2>1, ExfatDirAssumption
    <3>3. v.mem.crossed \/ (n # Root /\ n # d /\ ~v.mem.nodes[n].unlinked)
      BY <3>1, <3>2, AccountFields DEF Going, Counted, Tidy, Rooted, Kept
    <3>4. Going(r, MoveNode(v, n, d, name))
      BY <3>1, <3>3, GoingMoved
    <3> QED BY <3>4, SoundGoes
  <2> HIDE DEF Move
  <2>7. ASSUME NEW s, NEW u, Going(q, u) PROVE \A v \in Write(s, u) : Sound(r, v)
    <3>1. Going(q, Shifted(u, n, w.off, cont))
      BY <2>3, <2>7, GoingShifted
    <3>2. \A v \in WriteEntries(Shifted(u, n, w.off, cont), d, w.off, s) : Sound(q, v)
      BY <3>1, SoundWriteEntries
    <3> QED BY <2>2, <2>6, <3>2, SoundGoes DEF Then
  <2> HIDE DEF Write
  <2> QED BY <2>2, <2>5, <2>7, SoundGoes DEF Then
<1> HIDE DEF Erase
<1> QED BY <1>1, <1>2, <1>3 DEF Then

\* exfat_rename, of the node that is in the way: its reference is given back before it
\* is cleaned up.
LEMMA SoundDiscard ==
    ASSUME NEW r \in Accounts, NEW n \in Nodes, Free(r, n) \/ r.kind = "lost",
           NEW ws, \A w \in ws : Sound(Take(r, n), w)
    PROVE  \A v \in Discard(ws, n) : Sound(r, v)
<1> DEFINE back == PutAfter(ws, n)
           Clean(v) == Cleanup(v, n)
           S(x) == Clean([x EXCEPT !.rc = "ok"])
           Ends(x) == IF x.rc = "ok" \/ Stopped(x) THEN {x}
                      ELSE {IF Stopped(y) THEN y ELSE [y EXCEPT !.rc = x.rc] : y \in S(x)}
<1>1. Discard(ws, n) = Then(OnError(back, Clean), Clean)
  BY Zenon DEF Discard
<1>2. \A v \in back : Sound(r, v)
  BY SoundPutAfter
<1>3. ASSUME NEW v, Going(r, v) PROVE \A u \in Clean(v) : Sound(r, u)
  <2>1. v.mem.crossed \/ Free(r, n)
    BY <1>3 DEF Going, Counted, Tidy, Moded, Kind
  <2> QED BY <1>3, <2>1, SoundCleanup
<1> HIDE DEF back, Clean
<1>4. OnError(back, Clean) = UNION {Ends(x) : x \in back}
  BY Zenon DEF OnError
<1>5. ASSUME NEW x \in back, NEW t \in Ends(x) PROVE Sound(r, t)
  <2>1. Going(r, [x EXCEPT !.rc = "ok"]) => \A y \in S(x) : Sound(r, y)
    BY <1>3
  <2> HIDE DEF S
  <2> QED BY <1>2, <1>5, <2>1, SoundOnError
<1> HIDE DEF Ends
<1>6. \A v \in OnError(back, Clean) : Sound(r, v)
  BY <1>4, <1>5
<1> QED BY <1>1, <1>3, <1>6, SoundGoes DEF Then

\* The second reference that exfat_split returned, if there is one.
Spare(r, w) == \/ /\ w.got \in Nodes /\ Going(Take(r, w.got), w)
                  /\ w.mem.crossed \/ w.mem.nodes[w.got].parent = w.dir
               \/ w.got = NIL /\ Going(r, w)

\* exfat_rename, until the target is out of the way: its own directory has been read, and
\* nobody else that the call knows of refers to it.
LEMMA SoundReplace ==
    ASSUME NEW r \in Ledgers, r.kind # "reads", NEW w, w.dir \in Nodes, w.dir \in r.cached,
           Spare(r, w), NEW n \in Nodes,
           \A e \in Nodes : e # n /\ e # w.dir /\ e # Root => Free(r, e)
    PROVE  \A v \in Replace(w, n, w.got) : Sound(r, v)
<1> DEFINE e == w.got
           removed == IF IsDir(e) THEN IF IsDir(n) THEN Rmdir(w, e) ELSE Gives(w, "ENOTDIR")
                      ELSE IF IsDir(n) THEN Gives(w, "EISDIR") ELSE Unlink(w, e)
<1>1. Replace(w, n, w.got) = IF e = NIL THEN {w} ELSE IF e = n THEN {Put(w, e)} ELSE Discard(removed, e)
  BY Zenon DEF Replace
<1>2. CASE e = NIL
  BY <1>1, <1>2, ExfatDirAssumption, SoundGoes DEF Spare
<1>3. CASE e # NIL
  <2>1. /\ e \in Nodes /\ Going(Take(r, e), w)
        /\ w.mem.crossed \/ w.mem.nodes[e].parent = w.dir
    BY <1>3 DEF Spare
  <2>2. r \in Accounts /\ r.parents = {}
    BY DEF Ledgers
  <2>3. Sound(r, Put(w, e))
    BY <2>1, <2>2, SoundPut, SoundGoes DEF Going
  <2> HIDE DEF e
  <2>4. ASSUME NEW p \in Ledgers, p.kind # "reads", Going(Take(p, e), w), Placed(w, e)
        PROVE  \A v \in removed : Sound(Take(p, e), v)
    <3> DEFINE q == Take(p, e)
    <3>1. p \in Accounts /\ p.parents = {}
      BY <2>4 DEF Ledgers
    <3>2. q \in Ledgers /\ q \in Accounts /\ q.parents = {} /\ q.kind # "reads"
      BY <2>4, <3>1, TakeElse
    <3>3. q.refs[e] # 0
      <4>1. p.refs[e] \in Nat
        BY <2>1, <3>1, AccountFields
      <4> QED BY <2>1, <3>1, <4>1, TakeElse
    <3>4. Going(q, w)
      BY <2>4
    <3> HIDE DEF q
    <3>5. \A v \in Rmdir(w, e) : Sound(q, v)
      BY <2>1, <2>4, <3>2, <3>3, <3>4, SoundRmdir
    <3>6. \A v \in Unlink(w, e) : Sound(q, v)
      BY <2>1, <2>4, <3>2, <3>4, SoundUnlink
    <3>7. \A x \in {"ENOTDIR", "EISDIR"} : \A v \in Gives(w, x) : Sound(q, v)
      BY <3>4, SoundGives, Blameless DEF Going
    <3> QED BY <3>5, <3>6, <3>7 DEF q
  <2> HIDE DEF removed
  <2>5. CASE e # n /\ w.mem.crossed
    <3>1. Lost(r) \in Ledgers /\ Lost(r) \in Accounts /\ Lost(r).kind = "lost"
          /\ \A v : Sound(Lost(r), v) => Sound(r, v)
      BY <2>2, LostKnows
    <3>2. Going(Take(Lost(r), e), w) /\ Placed(w, e)
      BY <2>1, <2>5 DEF Going, Counted, Placed
    <3> HIDE DEF Lost
    <3>3. \A v \in removed : Sound(Take(Lost(r), e), v)
      BY <2>4, <3>1, <3>2
    <3>4. \A v \in Discard(removed, e) : Sound(Lost(r), v)
      BY <2>1, <3>1, <3>3, SoundDiscard
    <3> QED BY <1>1, <1>3, <2>5, <3>1, <3>4
  <2>6. CASE e # n /\ ~w.mem.crossed
    <3>1. Tidy(Take(r, e), w) /\ w.mem.nodes[e].parent = w.dir
      BY <2>1, <2>6 DEF Going, Counted
    <3>2. Take(r, e).cached = r.cached /\ NIL \notin Nodes
      BY <2>2, TakeElse, ExfatDirAssumption
    <3>3. e # w.dir /\ e # Root /\ Placed(w, e)
      BY <2>1, <3>1, <3>2 DEF Tidy, Rooted, Kept, Placed
    <3>4. Free(r, e)
      BY <2>1, <2>6, <3>3
    <3>5. \A v \in removed : Sound(Take(r, e), v)
      BY <2>1, <2>4, <3>3
    <3>6. \A v \in Discard(removed, e) : Sound(r, v)
      BY <2>1, <2>2, <3>4, <3>5, SoundDiscard
    <3> QED BY <1>1, <1>3, <2>6, <3>6
  <2>7. CASE e = n
    BY <1>1, <1>3, <2>3, <2>7
  <2> QED BY <2>5, <2>6, <2>7
<1> QED BY <1>2, <1>3

\* exfat_rename, with the node and the place it goes to
LEMMA SoundRenameTo ==
    ASSUME NEW r \in Ledgers, r.kind # "reads", NEW w, w.dir \in Nodes, w.dir \in r.cached,
           r.refs[w.dir] # 0, Spare(r, w), NEW n \in Nodes,
           \A e \in Nodes : e # n /\ e # w.dir /\ e # Root => Free(r, e), NEW name
    PROVE  \A v \in RenameTo(w, n, name) : Sound(r, v)
<1> DEFINE d == w.dir
           back == IF w.got = NIL THEN w ELSE Put(w, w.got)
           Flushed(t) == FlushNode(t, d)
           Entry(u) == Then(RenameEntry(u, n, d, name), Flushed)
           Find(v) == Then(FindSlot(v, d, 2 + NameEntries[name]), Entry)
           all == Then(Replace(w, n, w.got), Find)
<1>1. RenameTo(w, n, name) = IF IsDir(n) /\ n \in Above(w, d)
                             THEN {[back EXCEPT !.rc = "EINVAL"]} ELSE all
  BY Zenon DEF RenameTo
<1>2. r \in Accounts /\ r.parents = {}
  BY DEF Ledgers
<1>3. Sound(r, [back EXCEPT !.rc = "EINVAL"])
  <2>1. Shaped(back) /\ Counted(r, back)
    <3>1. CASE w.got = NIL
      BY <3>1, ExfatDirAssumption DEF Spare, Going
    <3>2. CASE w.got # NIL
      BY <1>2, <3>2, CountedPut, PutElse DEF Spare, Going
    <3> QED BY <3>1, <3>2
  <2> HIDE DEF back
  <2>2. back.mem.crossed \/ Blame(r, "EINVAL")
    BY <2>1, Blameless
  <2> QED BY <2>1, <2>2, CountedResult
<1>4. d \in Above(w, d)
  BY DEF Above
<1>5. \A v \in Replace(w, n, w.got) : Sound(r, v)
  BY SoundReplace
<1>6. d \in Nodes /\ d \in r.cached /\ r.refs[d] # 0
  OBVIOUS
<1> HIDE DEF d
<1>7. ASSUME IsDir(n) => n # d, NEW u, Going(r, u) PROVE \A v \in Entry(u) : Sound(r, v)
  <2>1. \A v \in RenameEntry(u, n, d, name) : Sound(r, v)
    BY <1>2, <1>6, <1>7, SoundRenameEntry
  <2>2. \A v : Going(r, v) => \A t \in Flushed(v) : Sound(r, t)
    BY <1>2, <1>6, SoundFlushNode
  <2> HIDE DEF Flushed
  <2> QED BY <2>1, <2>2, SoundGoes DEF Then
<1> HIDE DEF Entry
<1>8. ASSUME IsDir(n) => n # d, NEW u, Going(r, u) PROVE \A v \in Find(u) : Sound(r, v)
  <2>1. \A v \in FindSlot(u, d, 2 + NameEntries[name]) : Sound(r, v)
    BY <1>2, <1>6, <1>8, SoundFindSlot
  <2> QED BY <1>7, <1>8, <2>1, SoundGoes DEF Then
<1> HIDE DEF Find
<1>9. ASSUME IsDir(n) => n # d PROVE \A v \in all : Sound(r, v)
  BY <1>5, <1>8, <1>9, SoundGoes DEF Then
<1> HIDE DEF all, back
<1>10. CASE IsDir(n) /\ n \in Above(w, d)
  BY <1>1, <1>3, <1>10
<1>11. CASE ~(IsDir(n) /\ n \in Above(w, d))
  BY <1>1, <1>4, <1>9, <1>11
<1> QED BY <1>10, <1>11

\* exfat_rename
LEMMA SoundRename ==
    ASSUME NEW r \in Ledgers, r.kind # "reads", r.cached \subseteq {Root},
           \A m \in Nodes : r.refs[m] # 0 => m = Root \/ r.held # {},
           NEW w, Going(r, w), NEW old, NEW new
    PROVE  \A v \in Rename(w, old, new) : Sound(r, v)
<1> DEFINE To(n, u) == PutAfter(RenameTo(u, n, Last(new)), u.dir)
           Whole(v, n) == Then(Split(v, new), LAMBDA u : To(n, u))
           Rest(v) == PutAfter(Whole(v, v.got), v.got)
<1>1. Rename(w, old, new) = Then(Lookup(w, old), Rest)
  BY Zenon DEF Rename
<1>2. ASSUME NEW n \in Nodes, NEW q, q = Take(r, n), NEW u, u.rc = "ok", Divided(q, u)
      PROVE  \A t \in To(n, u) : Sound(q, t)
  <2> DEFINE d == u.dir
             p == Take(Know(q, d), d)
  <2>1. q \in Ledgers /\ q \in Accounts /\ q.parents = {} /\ r \in Accounts
    BY <1>2, TakeElse DEF Ledgers
  <2>2. /\ q.kind = r.kind /\ q.held = r.held /\ q.cached = r.cached
        /\ \A e \in Nodes : e # n => q.refs[e] = r.refs[e]
    BY <1>2, <2>1, TakeElse
  <2>3. d \in Nodes
    BY <1>2 DEF Divided
  <2>4. Spare(p, u)
    BY <1>2 DEF Divided, Spare
  <2> HIDE DEF d
  <2>5. Know(q, d) \in Accounts /\ p \in Accounts
    BY <2>1, <2>3, WorkedOn
  <2>10. p.kind = q.kind /\ p.held = q.held
    BY <2>1, <2>3, WorkedOn
  <2>11. p.parents = q.parents /\ p.cached = q.cached \cup {d}
    BY <2>1, <2>3, WorkedOn
  <2>12. p.refs[d] # 0 /\ \A m \in Nodes : m # d => p.refs[m] = q.refs[m]
    BY <2>1, <2>3, WorkedOn
  <2>0. \A v : Sound(Know(q, d), v) => Sound(q, v)
    BY <2>1, <2>3, WorkedOn
  <2>6. \A t \in PutAfter(RenameTo(u, n, Last(new)), d) :
           (\A v \in RenameTo(u, n, Last(new)) : Sound(p, v)) => Sound(q, t)
    BY <2>0, <2>3, <2>5, SoundPutAfter
  <2> HIDE DEF p
  <2>7. p \in Ledgers
    BY <2>1, <2>5, <2>11 DEF Ledgers
  <2>8. \A e \in Nodes : e # n /\ e # d /\ e # Root => Free(p, e)
    BY <2>2, <2>10, <2>11, <2>12 DEF Free
  <2>9. \A v \in RenameTo(u, n, Last(new)) : Sound(p, v)
    <3> USE DEF d
    <3> QED BY <2>2, <2>3, <2>4, <2>7, <2>8, <2>10, <2>11, <2>12, SoundRenameTo
  <2> QED BY <2>6, <2>9 DEF d
<1> HIDE DEF To
<1>3. ASSUME NEW n \in Nodes, NEW v, Going(Take(r, n), v)
      PROVE  \A t \in Whole(v, n) : Sound(Take(r, n), t)
  <2> SUFFICES ASSUME NEW t \in Whole(v, n) PROVE Sound(Take(r, n), t)
    OBVIOUS
  <2>1. PICK u \in Split(v, new) : t \in IF u.rc = "ok" THEN To(n, u) ELSE {u}
    BY DEF Then
  <2>2. Take(r, n) \in Accounts
    BY TakeElse DEF Ledgers
  <2>3. Divided(Take(r, n), u)
    BY <1>3, <2>1, <2>2, DividedSplit
  <2>4. CASE u.rc = "ok"
    BY <1>2, <2>1, <2>3, <2>4
  <2>5. CASE u.rc # "ok"
    BY <2>1, <2>3, <2>5 DEF Divided
  <2> QED BY <2>4, <2>5
<1> HIDE DEF Whole
<1>4. ASSUME NEW v, v.rc = "ok", Found(r, v) PROVE \A t \in Rest(v) : Sound(r, t)
  <2>1. v.got \in Nodes /\ Going(Take(r, v.got), v) /\ r \in Accounts
    BY <1>4, SoundGoes DEF Found, Ledgers
  <2>2. \A t \in Whole(v, v.got) : Sound(Take(r, v.got), t)
    BY <1>3, <2>1
  <2> QED BY <2>1, <2>2, SoundPutAfter
<1> HIDE DEF Rest
<1>5. \A v \in Lookup(w, old) : Found(r, v)
  BY FoundLookup DEF Ledgers
<1> QED BY <1>1, <1>4, <1>5 DEF Then, Found

\* exfat_set_label
LEMMA SoundSetLabel ==
    ASSUME NEW r \in Accounts, Root \in r.cached, NEW w, Going(r, w), NEW empty
    PROVE  \A v \in SetLabel(w, empty) : Sound(r, v)
<1> DEFINE s == Prefix(w.vol.data[Root], w.mem.nodes[Root].size * ClusterSlots)
           at == {i \in 0 .. Len(s) - 1 : s[i + 1].k = "label"}
           first == CHOOSE i \in at : \A j \in at : i <= j
           slot == IF at = {} THEN FindSlot(w, Root, 1) ELSE {[w EXCEPT !.off = first]}
           Mark(u) == {[u EXCEPT !.mem.label = ~empty]}
           Rest(v) == Then(WriteEntries(v, Root, v.off,
                                        <<IF empty THEN Unused ELSE Special("label")>>), Mark)
<1>1. SetLabel(w, empty) = Then(slot, Rest)
  BY Zenon DEF SetLabel
<1>2. \A u : Going(r, u) => \A v \in Mark(u) : Sound(r, v)
  <2> SUFFICES ASSUME NEW u, Going(r, u) PROVE Sound(r, [u EXCEPT !.mem.label = ~empty])
    OBVIOUS
  <2>1. Going(r, [u EXCEPT !.mem.label = ~empty])
    BY GoingNode
  <2> QED BY <2>1, SoundGoes
<1> HIDE DEF Mark
<1>3. \A u : Going(r, u) => \A v \in Rest(u) : Sound(r, v)
  BY <1>2, SoundWriteEntries, SoundGoes DEF Then
<1> HIDE DEF Rest, at, first
<1>4. \A v \in slot : Sound(r, v)
  <2>1. Sound(r, [w EXCEPT !.off = first])
    BY GoingElse, SoundGoes
  <2>2. \A v \in FindSlot(w, Root, 1) : Sound(r, v)
    BY SoundFindSlot DEF Accounts
  <2> QED BY <2>1, <2>2
<1> HIDE DEF slot
<1> QED BY <1>1, <1>3, <1>4, SoundGoes DEF Then

\* A caller gives a reference back, and cleans up if it was the last one.
LEMMA SoundPutAndClean ==
    ASSUME NEW r \in Accounts, NEW n \in Nodes, n \in r.cached => r.refs[n] # 0,
           NEW w, Sound(Take(r, n), w), ~Stopped(w)
    PROVE  \A v \in PutAndClean(w, n) : Sound(r, v)
<1> DEFINE p == Put(w, n)
<1>1. Sound(r, p)
  BY SoundPut
<1>2. Shaped(w) /\ p.rc \in {w.rc, "bug:negative"}
  BY PutElse DEF Sound
<1>3. PutAndClean(w, n) =
        IF Stopped(p) \/ p.mem.nodes[n].refs # 0 THEN {p}
        ELSE {IF Stopped(u) THEN u ELSE [u EXCEPT !.rc = w.rc] :
                u \in Cleanup([p EXCEPT !.rc = "ok"], n)}
  BY Zenon DEF PutAndClean
<1> HIDE DEF p
<1>4. w.rc # "crash" /\ w.rc \notin Bugs
  BY DEF Stopped
<1>5. ASSUME ~Stopped(p), p.mem.nodes[n].refs = 0, NEW u \in Cleanup([p EXCEPT !.rc = "ok"], n)
      PROVE  Sound(r, IF Stopped(u) THEN u ELSE [u EXCEPT !.rc = w.rc])
  <2>1. Shaped(p) /\ Counted(r, p)
    BY <1>1, <1>5 DEF Sound
  <2>2. Going(r, [p EXCEPT !.rc = "ok"])
    BY <2>1, CountedResult
  <2>3. [p EXCEPT !.rc = "ok"].mem = p.mem
    BY <2>1, CountedResult
  <2>4. [p EXCEPT !.rc = "ok"].mem.crossed \/ Free(r, n)
    <3>1. p.mem.crossed \/ r.refs[n] = 0
      BY <1>5, <2>1 DEF Counted, Tidy, RefsAre
    <3> QED BY <2>3, <3>1 DEF Free
  <2> DEFINE q == [p EXCEPT !.rc = "ok"]
  <2> HIDE DEF q
  <2>5. Sound(r, u)
    BY <1>5, <2>2, <2>4, SoundCleanup DEF q
  <2> QED BY <1>4, <2>5, SoundReply
<1>6. CASE Stopped(p) \/ p.mem.nodes[n].refs # 0
  BY <1>1, <1>3, <1>6
<1>7. CASE ~(Stopped(p) \/ p.mem.nodes[n].refs # 0)
  <2>1. PutAndClean(w, n) = {IF Stopped(u) THEN u ELSE [u EXCEPT !.rc = w.rc] :
                               u \in Cleanup([p EXCEPT !.rc = "ok"], n)}
    BY <1>3, <1>7, Zenon
  <2> QED BY <1>5, <1>7, <2>1
<1> QED BY <1>6, <1>7

\* What a caller does with the node that it has looked up; S are the ends of it.
LEMMA SoundUse ==
    ASSUME NEW r \in Accounts, r.cached \subseteq {Root}, NEW v, v.rc = "ok", Found(r, v), NEW S,
           /\ v.got \in Nodes /\ Take(r, v.got) \in Accounts /\ Take(r, v.got).refs[v.got] # 0
           /\ Take(r, v.got).parents = r.parents /\ Take(r, v.got).kind = r.kind
           /\ Going(Take(r, v.got), v) /\ Placed(v, v.got)
           => \A t \in S : Sound(Take(r, v.got), t)
    PROVE  /\ \A t \in PutAfter(S, v.got) : Sound(r, t)
           /\ \A u \in S : \A t \in IF Stopped(u) THEN {u} ELSE PutAndClean(u, v.got) : Sound(r, t)
<1>1. v.got \in Nodes /\ r.refs[v.got] \in Nat /\ r.refs[Root] # 0
  BY AccountFields DEF Found
<1>2. \A t \in S : Sound(Take(r, v.got), t)
  BY <1>1, TakeElse, SoundGoes DEF Found
<1>3. \A t \in PutAfter(S, v.got) : Sound(r, t)
  BY <1>1, <1>2, SoundPutAfter
<1>4. ASSUME NEW u \in S, NEW t \in IF Stopped(u) THEN {u} ELSE PutAndClean(u, v.got)
      PROVE  Sound(r, t)
  <2>1. CASE Stopped(u)
    BY <1>2, <1>4, <2>1, SoundStopped
  <2>2. CASE ~Stopped(u)
    BY <1>1, <1>2, <1>4, <2>2, SoundPutAndClean
  <2> QED BY <2>1, <2>2
<1> QED BY <1>3, <1>4

\* exfat_unlink and exfat_rmdir of a path
LEMMA SoundRemovePath ==
    ASSUME NEW r \in Ledgers, r.kind # "reads", r.cached \subseteq {Root}, Going(r, World), NEW path
    PROVE  /\ \A v \in RemovePath(path, Unlink) : Sound(r, v)
           /\ \A v \in RemovePath(path, Rmdir) : Sound(r, v)
<1> DEFINE Ends(u, n) == IF Stopped(u) THEN {u} ELSE PutAndClean(u, n)
           RestUnlink(v) == UNION {Ends(u, v.got) : u \in Unlink(v, v.got)}
           RestRmdir(v) == UNION {Ends(u, v.got) : u \in Rmdir(v, v.got)}
<1>1. /\ RemovePath(path, Unlink) = Then(Lookup(World, path), RestUnlink)
      /\ RemovePath(path, Rmdir) = Then(Lookup(World, path), RestRmdir)
  BY Zenon DEF RemovePath
<1>2. ASSUME NEW v, v.rc = "ok", Found(r, v)
      PROVE  (\A t \in RestUnlink(v) : Sound(r, t)) /\ (\A t \in RestRmdir(v) : Sound(r, t))
  <2>1. r \in Accounts /\ r.parents = {} /\ Take(r, v.got) \in Ledgers
    BY TakeElse DEF Ledgers
  <2>2. \A u \in Unlink(v, v.got) : \A t \in Ends(u, v.got) : Sound(r, t)
    BY <1>2, <2>1, SoundUnlink, SoundUse
  <2>3. \A u \in Rmdir(v, v.got) : \A t \in Ends(u, v.got) : Sound(r, t)
    BY <1>2, <2>1, SoundRmdir, SoundUse
  <2> HIDE DEF Ends
  <2> QED BY <2>2, <2>3
<1>3. \A v \in Lookup(World, path) : Found(r, v)
  <2> HIDE DEF World
  <2> QED BY FoundLookup DEF Ledgers
<1> HIDE DEF RestUnlink, RestRmdir
<1> QED BY <1>1, <1>2, <1>3 DEF Then, Found

\* The worlds that the call of Resize ends in.
ResizeEnds(path, size) ==
    WithNode(path, LAMBDA v, n : IF IsDir(n) THEN Gives(v, "EISDIR") ELSE Truncate(v, n, size))

\* exfat_truncate of a file, exfat_utimes and exfat_flush_node of a path
LEMMA SoundWithNode ==
    ASSUME NEW r \in Accounts, r.cached \subseteq {Root}, Going(r, World), NEW path, NEW size
    PROVE  /\ \A v \in ResizeEnds(path, size) : Sound(r, v)
           /\ r.kind # "reads" =>
                \A v \in WithNode(path, LAMBDA v, n : {[v EXCEPT !.mem.nodes[n].dirty = TRUE]}) :
                  Sound(r, v)
           /\ \A v \in WithNode(path, FlushNode) : Sound(r, v)
<1> DEFINE Resized(v) == IF IsDir(v.got) THEN Gives(v, "EISDIR") ELSE Truncate(v, v.got, size)
           Touched(v) == {[v EXCEPT !.mem.nodes[v.got].dirty = TRUE]}
           Synced(v) == FlushNode(v, v.got)
           RestResize(v) == PutAfter(Resized(v), v.got)
           RestTouch(v) == PutAfter(Touched(v), v.got)
           RestSync(v) == PutAfter(Synced(v), v.got)
           found == Lookup(World, path)
<1>1. /\ ResizeEnds(path, size) = Then(found, RestResize)
      /\ WithNode(path, LAMBDA v, n : {[v EXCEPT !.mem.nodes[n].dirty = TRUE]})
           = Then(found, RestTouch)
      /\ WithNode(path, FlushNode) = Then(found, RestSync)
  BY Zenon DEF WithNode, ResizeEnds
<1>2. ASSUME NEW q \in Accounts, NEW v, Going(q, v), v.got \in Nodes, q.refs[v.got] # 0
      PROVE  /\ \A t \in Resized(v) : Sound(q, t)
             /\ q.kind # "reads" => \A t \in Touched(v) : Sound(q, t)
             /\ \A t \in Synced(v) : Sound(q, t)
  <2>1. q.kind # "reads" => Going(q, [v EXCEPT !.mem.nodes[v.got].dirty = TRUE])
    BY <1>2, GoingNode
  <2>2. \A t \in Gives(v, "EISDIR") : Sound(q, t)
    BY <1>2, SoundGives, Blameless DEF Going
  <2>3. \A t \in Truncate(v, v.got, size) : Sound(q, t)
    BY <1>2, SoundTruncate DEF Cared
  <2>4. \A t \in FlushNode(v, v.got) : Sound(q, t)
    BY <1>2, SoundFlushNode
  <2> QED BY <2>1, <2>2, <2>3, <2>4, SoundGoes
<1> HIDE DEF Resized, Touched, Synced
<1>3. ASSUME NEW v, v.rc = "ok", Found(r, v)
      PROVE  /\ \A t \in RestResize(v) : Sound(r, t)
             /\ r.kind # "reads" => \A t \in RestTouch(v) : Sound(r, t)
             /\ \A t \in RestSync(v) : Sound(r, t)
  <2>1. \A t \in RestResize(v) : Sound(r, t)
    BY <1>2, <1>3, SoundUse
  <2>2. r.kind # "reads" => \A t \in RestTouch(v) : Sound(r, t)
    BY <1>2, <1>3, SoundUse
  <2>3. \A t \in RestSync(v) : Sound(r, t)
    BY <1>2, <1>3, SoundUse
  <2> QED BY <2>1, <2>2, <2>3
<1>4. \A v \in found : Found(r, v)
  <2> HIDE DEF World
  <2> QED BY FoundLookup
<1> HIDE DEF RestResize, RestTouch, RestSync, found
<1>5. /\ \A v \in Then(found, RestResize) : Sound(r, v)
      /\ r.kind # "reads" => \A v \in Then(found, RestTouch) : Sound(r, v)
      /\ \A v \in Then(found, RestSync) : Sound(r, v)
  BY <1>3, <1>4 DEF Then, Found
<1> QED BY <1>1, <1>5, Zenon

-----------------------------------------------------------------------------
(***************************************************************************)
(* exfat_mount and exfat_unmount.                                          *)
(***************************************************************************)
\* The call has been stopped for one of the reasons, or the volume is not mounted.
Closed(r, w) ==
    /\ {"vol", "mem", "rc", "faults"} \subseteq DOMAIN w
    /\ Stopped(w) => w.mem.crossed \/ Blame(r, w.rc)
    /\ ~Stopped(w) => ~w.mem.on

\* A call that has been stopped has ended.
LEMMA ClosedStopped ==
    ASSUME NEW r, NEW w, Sound(r, w), Stopped(w) PROVE Closed(r, w)
BY DEF Sound, Shaped, Closed

\* exfat_put_node of the root, reset_cache and exfat_free
LEMMA ClosedRelease ==
    ASSUME NEW r \in Accounts, r.kind # "lost", NEW w, Going(r, w)
    PROVE  \A v \in Release(w) : Closed(r, v)
<1> DEFINE p == Put(w, Root)
           Freed(v) == IF \E n \in Tree(v) : v.mem.nodes[n].dirty THEN [v EXCEPT !.rc = "bug:dirty"]
                       ELSE [v EXCEPT !.mem = Off]
<1>1. Release(w) = {IF Stopped(v) THEN v ELSE Freed(v) : v \in {p}}
  BY Zenon DEF Release, Finally
<1>2. Root \in Nodes /\ r.refs[Root] # 0
  BY AccountFields
<1>3. Shaped(p) /\ p.rc \in {"ok", "bug:negative"} /\ p.mem.crossed = w.mem.crossed
  BY <1>2, PutElse DEF Going, Beside
<1>4. w.mem.crossed \/ p.rc = "ok"
  BY <1>2, PutElse DEF Going, Counted, Tidy, RefsAre
<1> HIDE DEF p
<1>5. Stopped(p) => Closed(r, p)
  BY <1>3, <1>4 DEF Closed, Shaped, Stopped, Bugs
<1>6. Off.on = FALSE
  BY DEF Off
<1>7. ASSUME ~Stopped(p) PROVE Closed(r, [p EXCEPT !.rc = "bug:dirty"]) /\ Closed(r, [p EXCEPT !.mem = Off])
  <2>1. Closed(r, [p EXCEPT !.rc = "bug:dirty"])
    <3>1. /\ [p EXCEPT !.rc = "bug:dirty"].rc = "bug:dirty"
          /\ {"vol", "mem", "rc", "faults"} \subseteq DOMAIN [p EXCEPT !.rc = "bug:dirty"]
      BY <1>3 DEF Shaped
    <3>2. Blame(r, "bug:dirty") /\ "bug:dirty" \in Bugs
      BY DEF Blame, Bugs
    <3> QED BY <3>1, <3>2 DEF Closed, Stopped
  <2>2. [p EXCEPT !.mem = Off].rc = p.rc /\ ~[p EXCEPT !.mem = Off].mem.on
        /\ {"vol", "mem", "rc", "faults"} \subseteq DOMAIN [p EXCEPT !.mem = Off]
    BY <1>3, <1>6 DEF Shaped
  <2>3. Closed(r, [p EXCEPT !.mem = Off])
    BY <1>7, <2>2 DEF Closed, Stopped
  <2> QED BY <2>1, <2>3
<1> QED BY <1>1, <1>5, <1>7

\* exfat_mount: the root carries the only reference and has been read, or nothing is
\* left in memory.
LEMMA MountCounts ==
    ASSUME NEW r \in Ledgers, r.cached = {}, \A n \in Nodes : r.refs[n] = IF n = Root THEN 1 ELSE 0,
           NEW w, {"vol", "mem", "rc", "faults", "got", "dir", "off"} \subseteq DOMAIN w,
           w.rc = "ok", NEW ro, NEW repair,
           r.kind = IF ~ro THEN "writes" ELSE IF repair THEN "mends" ELSE "reads"
    PROVE  \A v \in Mount(w, ro, repair) : Sound(Know(r, Root), v) \/ Closed(r, v)
<1> DEFINE root == [NoNode EXCEPT !.size = Len(w.vol.data[Root]) \div ClusterSlots,
                                  !.refs = 1, !.live = TRUE]
           m == [Off EXCEPT !.on = TRUE, !.ro = ro, !.repair = repair,
                            !.used = w.vol.used, !.nodes[Root] = root]
           start == [w EXCEPT !.mem = m]
           Prepared(u) ==
             IF ~HasSpecial(u, "bitmap") \/ ~HasSpecial(u, "upcase") THEN Gives(u, "EIO")
             ELSE IF ro THEN {u}
             ELSE Try(u, [u EXCEPT !.vol.mounted = TRUE])
           all == Then(CacheDirectory(start, Root), Prepared)
<1>1. Mount(w, ro, repair) = OnError(all, Release)
  BY Zenon DEF Mount
<1>2. r \in Accounts /\ r.parents = {} /\ Root \in Nodes /\ NIL \notin Nodes /\ IsDir(Root)
  BY ExfatDirAssumption DEF Ledgers, Nodes, IsDir
<1>3. Going(r, start)
  <2>1. /\ root.refs = 1 /\ root.parent = NIL /\ ~root.cached /\ ~root.unlinked /\ ~root.dirty
        /\ {"refs", "parent", "cached", "unlinked", "dirty"} \subseteq DOMAIN root
    BY DEF NoNode
  <2> HIDE DEF root
  <2>2. /\ {"nodes", "crossed", "on", "ro", "repair"} \subseteq DOMAIN m
        /\ m.on /\ m.ro = ro /\ m.repair = repair
    BY DEF Off
  <2>3. m.nodes = [n \in Nodes |-> IF n = Root THEN root ELSE NoNode]
    BY DEF Off
  <2>4. /\ NoNode.refs = 0 /\ NoNode.parent = NIL /\ ~NoNode.cached /\ ~NoNode.unlinked
        /\ ~NoNode.dirty
        /\ {"refs", "parent", "cached", "unlinked", "dirty"} \subseteq DOMAIN NoNode
    BY DEF NoNode
  <2> HIDE DEF m
  <2>5. start.mem = m /\ start.rc = "ok"
        /\ {"vol", "mem", "rc", "faults", "got", "dir", "off"} \subseteq DOMAIN start
    OBVIOUS
  <2> HIDE DEF start
  <2>6. Shaped(start)
    BY <1>2, <2>1, <2>2, <2>3, <2>4, <2>5 DEF Shaped
  <2>7. RefsAre(r, start) /\ Rooted(start) /\ Kept(r, start) /\ Moded(r, start)
    <3>1. RefsAre(r, start)
      BY <2>1, <2>3, <2>4, <2>5 DEF RefsAre
    <3>2. Rooted(start)
      BY <1>2, <2>1, <2>3, <2>4, <2>5 DEF Rooted
    <3>3. Kept(r, start)
      BY <1>2 DEF Kept
    <3>4. Moded(r, start)
      BY <2>1, <2>2, <2>3, <2>4, <2>5 DEF Moded, Kind
    <3> QED BY <3>1, <3>2, <3>3, <3>4
  <2> QED BY <2>5, <2>6, <2>7 DEF Going, Counted, Tidy
<1> HIDE DEF start
<1> DEFINE q == Know(r, Root)
<1>4. q \in Accounts /\ \A v : Sound(q, v) => Sound(r, v)
  BY <1>2, WorkedOn
<1> HIDE DEF q
<1>5. \A u : Going(q, u) => \A v \in Prepared(u) : Sound(q, v)
  <2> SUFFICES ASSUME NEW u, Going(q, u) PROVE \A v \in Prepared(u) : Sound(q, v)
    OBVIOUS
  <2>1. Going(q, [u EXCEPT !.vol.mounted = TRUE])
    <3>1. [u EXCEPT !.vol.mounted = TRUE].mem = u.mem /\ [u EXCEPT !.vol.mounted = TRUE].rc = u.rc
          /\ {"vol", "mem", "rc", "faults", "got", "dir", "off"}
               \subseteq DOMAIN [u EXCEPT !.vol.mounted = TRUE]
      BY DEF Going, Shaped
    <3> QED BY <3>1, SameMemory
  <2>2. \A v \in Gives(u, "EIO") : Sound(q, v)
    BY SoundGives, Blameless DEF Going
  <2>3. \A v \in Try(u, [u EXCEPT !.vol.mounted = TRUE]) : Sound(q, v)
    BY <2>1, SoundTry
  <2> QED BY <2>2, <2>3, SoundGoes
<1> HIDE DEF Prepared
<1>6. \A v \in all : Sound(r, v) /\ (v.rc = "ok" => Sound(q, v))
  <2>1. r.refs[Root] # 0
    BY <1>2, AccountFields
  <2>2. \A v \in CacheDirectory(start, Root) : Sound(r, v) /\ (v.rc = "ok" => Going(q, v))
    BY <1>2, <1>3, <2>1, SoundCacheDirectory DEF q
  <2> QED BY <1>4, <1>5, <2>2 DEF Then
<1> HIDE DEF all
<1>7. ASSUME NEW v \in all, ~Stopped(v), NEW t \in Release([v EXCEPT !.rc = "ok"])
      PROVE  Closed(r, IF Stopped(t) THEN t ELSE [t EXCEPT !.rc = v.rc])
  <2>1. Shaped(v) /\ Counted(r, v)
    BY <1>6, <1>7 DEF Sound
  <2>2. Going(r, [v EXCEPT !.rc = "ok"])
    BY <2>1, CountedResult
  <2>3. Closed(r, t)
    BY <1>2, <1>7, <2>2, ClosedRelease
  <2>4. ~Stopped(t) => Closed(r, [t EXCEPT !.rc = v.rc])
    BY <1>7, <2>3 DEF Closed, Stopped
  <2> QED BY <2>3, <2>4
<1> DEFINE Ends(v) == IF v.rc = "ok" \/ Stopped(v) THEN {v}
                      ELSE {IF Stopped(t) THEN t ELSE [t EXCEPT !.rc = v.rc] :
                              t \in Release([v EXCEPT !.rc = "ok"])}
<1>8. OnError(all, Release) = UNION {Ends(v) : v \in all}
  BY Zenon DEF OnError
<1>9. ASSUME NEW v \in all, NEW t \in Ends(v) PROVE Sound(q, t) \/ Closed(r, t)
  <2>1. CASE v.rc = "ok"
    BY <1>6, <1>9, <2>1
  <2>2. CASE v.rc # "ok" /\ Stopped(v)
    BY <1>6, <1>9, <2>2, ClosedStopped
  <2>3. CASE v.rc # "ok" /\ ~Stopped(v)
    BY <1>7, <1>9, <2>3
  <2> QED BY <2>1, <2>2, <2>3
<1> HIDE DEF Ends
<1> QED BY <1>1, <1>8, <1>9 DEF q

Flushing == INSTANCE Induction_proofs WITH
    Step <- LAMBDA a, b, v, k : IF v.rc = "ok" THEN FlushNode(v, b[k]) ELSE {v},
    Good <- Sound

\* flush_nodes, in one order of n nodes
FlushInOrder(w, n, order) == Each(n, LAMBDA v, k : FlushNode(v, order[k]), {w})

LEMMA SoundFlushOrder ==
    ASSUME NEW r \in Accounts, NEW w, Going(r, w), NEW n, NEW order,
           \A k \in 1 .. n : order[k] \in Nodes
    PROVE  \A v \in FlushInOrder(w, n, order) : Sound(r, v)
<1>1. FlushInOrder(w, n, order) =
         IF n \in Nat THEN Flushing!Steps(n, order, {w})[n] ELSE {w}
  BY DEF FlushInOrder, Each, Turns, Flushing!Steps
<1>2. \A v : Sound(r, v) => \A k \in 1 .. n :
         \A u \in IF v.rc = "ok" THEN FlushNode(v, order[k]) ELSE {v} : Sound(r, u)
  BY SoundFlushNode, SoundGoes
<1>3. \A v \in {w} : Sound(r, v)
  BY SoundGoes
<1>4. CASE n \in Nat
  <2>1. \A v \in Flushing!Steps(n, order, {w})[n] : Sound(r, v)
    BY <1>2, <1>3, <1>4, Flushing!StepsKeep
  <2> QED BY <1>1, <1>4, <2>1
<1> QED BY <1>1, <1>3, <1>4

\* flush_nodes
LEMMA SoundFlushNodes ==
    ASSUME NEW r \in Accounts, NEW w, Going(r, w)
    PROVE  \A v \in FlushNodes(w) : Sound(r, v)
<1> DEFINE nodes == Tree(w) \cup {Root}
           n == Cardinality(nodes)
<1>1. FlushNodes(w) = UNION {FlushInOrder(w, n, order) : order \in Upwards(w, nodes)}
  BY Zenon DEF FlushNodes, FlushInOrder
<1>2. nodes \subseteq Nodes
  BY AccountFields DEF Tree
<1> HIDE DEF nodes
<1>3. ASSUME NEW order \in Upwards(w, nodes) PROVE \A v \in FlushInOrder(w, n, order) : Sound(r, v)
  <2>1. \A k \in 1 .. n : order[k] \in Nodes
    BY <1>2, <1>3 DEF Upwards
  <2> HIDE DEF n
  <2> QED BY <2>1, SoundFlushOrder
<1> QED BY <1>1, <1>3

\* exfat_unmount: whatever fails, nothing is left in memory.
LEMMA UnmountCloses ==
    ASSUME NEW r \in Accounts, r.kind # "lost", NEW w, Going(r, w)
    PROVE  \A v \in Unmount(w) : Closed(r, v)
<1> DEFINE Done(t) == IF w.mem.ro THEN {t} ELSE Ignoring(Try(t, [t EXCEPT !.vol.mounted = FALSE]))
           Rest(u) == Then(Release(u), Done)
           Flushed(v) == Then(Ignoring(Flush(v)), Rest)
<1>1. Unmount(w) = Then(Ignoring(FlushNodes(w)), Flushed)
  BY Zenon DEF Unmount
<1>2. ASSUME NEW t, Closed(r, t), t.rc = "ok", NEW x \in Done(t) PROVE Closed(r, x)
  <2>1. ~t.mem.on
    BY <1>2 DEF Closed, Stopped, Bugs
  <2>2. ASSUME NEW y \in Try(t, [t EXCEPT !.vol.mounted = FALSE])
        PROVE  /\ {"vol", "mem", "rc", "faults"} \subseteq DOMAIN y /\ y.mem = t.mem
               /\ y.rc \in {"ok", "EIO", "crash"}
    <3>1. PICK a : [t EXCEPT !.vol.mounted = FALSE] = [t EXCEPT !.vol = a]
      OBVIOUS
    <3>2. \/ y = [t EXCEPT !.vol = a] \/ y = [t EXCEPT !.rc = "EIO"]
          \/ \E b \in {"EIO", "crash"} : y = [t EXCEPT !.rc = b, !.faults = t.faults - 1]
      BY <2>2, <3>1 DEF Try, Gives
    <3> QED BY <1>2, <3>2 DEF Closed
  <2>3. \/ x = t
        \/ \E y \in Try(t, [t EXCEPT !.vol.mounted = FALSE]) :
              x = IF Stopped(y) THEN y ELSE [y EXCEPT !.rc = "ok"]
    BY <1>2 DEF Ignoring
  <2>4. CASE x = t
    BY <1>2, <2>4
  <2>5. ASSUME NEW y \in Try(t, [t EXCEPT !.vol.mounted = FALSE]),
               x = IF Stopped(y) THEN y ELSE [y EXCEPT !.rc = "ok"]
        PROVE  Closed(r, x)
    <3>1. ~y.mem.on /\ {"vol", "mem", "rc", "faults"} \subseteq DOMAIN y
          /\ y.rc \in {"ok", "EIO", "crash"}
      BY <2>1, <2>2, <2>5
    <3>2. CASE Stopped(y)
      BY <2>5, <3>1, <3>2 DEF Closed, Blame, Stopped, Bugs
    <3>3. CASE ~Stopped(y)
      BY <2>5, <3>1, <3>3 DEF Closed, Stopped, Bugs
    <3> QED BY <3>2, <3>3
  <2> QED BY <2>3, <2>4, <2>5
<1> HIDE DEF Done
<1>3. ASSUME NEW u, Going(r, u), NEW x \in Rest(u) PROVE Closed(r, x)
  <2>1. \A t \in Release(u) : Closed(r, t)
    BY <1>3, ClosedRelease
  <2> QED BY <1>2, <1>3, <2>1 DEF Then
<1> HIDE DEF Rest
\* What has failed is ignored.
<1>4. ASSUME NEW ws, \A x \in ws : Sound(r, x), NEW v \in Ignoring(ws)
      PROVE  Going(r, v) \/ (v.rc # "ok" /\ Closed(r, v))
  <2>1. PICK x \in ws : v = IF Stopped(x) THEN x ELSE [x EXCEPT !.rc = "ok"]
    BY <1>4 DEF Ignoring
  <2>2. CASE Stopped(x)
    BY <1>4, <2>1, <2>2, ClosedStopped DEF Stopped, Bugs
  <2>3. CASE ~Stopped(x)
    BY <1>4, <2>1, <2>3, CountedResult DEF Sound
  <2> QED BY <2>2, <2>3
<1>5. ASSUME NEW v, Going(r, v), NEW x \in Flushed(v) PROVE Closed(r, x)
  <2>1. \A u \in Flush(v) : Sound(r, u)
    BY <1>5, SoundFlush
  <2>2. \A u \in Ignoring(Flush(v)) : Going(r, u) \/ (u.rc # "ok" /\ Closed(r, u))
    BY <1>4, <2>1
  <2> HIDE DEF Ignoring
  <2> QED BY <1>3, <1>5, <2>2 DEF Then, Going
<1> HIDE DEF Flushed
<1>6. \A u \in Ignoring(FlushNodes(w)) : Going(r, u) \/ (u.rc # "ok" /\ Closed(r, u))
  BY <1>4, SoundFlushNodes
<1> QED BY <1>1, <1>5, <1>6 DEF Then, Going

-----------------------------------------------------------------------------
(***************************************************************************)
(* The specification.  Between two calls each node has the root's own      *)
(* reference and those in h, and the root has been read; m is the memory.  *)
(***************************************************************************)
BaseRefs(h) == [n \in Nodes |-> (IF n = Root THEN 1 ELSE 0) + (IF n \in h THEN 1 ELSE 0)]

Base(h, m) ==
    [refs |-> BaseRefs(h), held |-> h, kind |-> Kind(m), cached |-> {Root}, parents |-> {}]

\* The inductive invariant: a caller holds at most one node, none without a mounted
\* volume, and the tree of nodes has a reference for each of them.
Balanced ==
    /\ held = {} \/ \E n \in Nodes : held = {n}
    /\ ~mem.on => held = {}
    /\ mem.on => Shaped(World) /\ Counted(Base(held, mem), World)

\* A step in which the library aborts does so for one of the reasons.
Explained ==
    mem.on /\ ~mem'.crossed /\ abort' \in Bugs =>
      CASE abort' = "bug:references" -> held # {}
        [] abort' = "bug:readonly" -> mem.ro /\ mem.repair
        [] OTHER -> abort' \in {"bug:dirty", "bug:file", "bug:impossible", "bug:null"}

\* The next call starts with the references that callers hold.
LEMMA CallStarts ==
    ASSUME NEW h, h \subseteq Nodes, NEW m
    PROVE  /\ Base(h, m) \in Ledgers /\ Base(h, m) \in Accounts
           /\ Base(h, m).refs = BaseRefs(h) /\ Base(h, m).held = h
           /\ Base(h, m).kind = Kind(m) /\ Base(h, m).kind # "lost"
           /\ Base(h, m).cached = {Root} /\ Base(h, m).parents = {}
           /\ \A n \in Nodes : BaseRefs(h)[n] # 0 => n = Root \/ h # {}
<1>1. BaseRefs(h) \in [Nodes -> Nat] /\ Root \in Nodes /\ BaseRefs(h)[Root] # 0
  BY DEF BaseRefs, Nodes
<1>2. Kind(m) \in {"writes", "mends", "reads"}
  BY DEF Kind
<1>3. Base(h, m) \in Accounts
  BY <1>1, <1>2 DEF Base, Accounts
<1>4. \A n \in Nodes : BaseRefs(h)[n] # 0 => n = Root \/ h # {}
  BY DEF BaseRefs
<1> QED BY <1>2, <1>3, <1>4 DEF Base, Ledgers

\* A call on a mounted volume starts from counts that are right.
LEMMA WorldGoes ==
    ASSUME Balanced, mem.on PROVE Going(Base(held, mem), World)
<1>1. World.rc = "ok"
  BY DEF World
<1> QED BY <1>1 DEF Balanced, Going

\* A caller that holds a node has one reference more than nobody has.
LEMMA BaseTakes ==
    ASSUME NEW n \in Nodes, NEW m, NEW w
    PROVE  Counted(Base({n}, m), w) <=> Counted(Take(Base({}, m), n), w)
<1>1. /\ Base({}, m) \in Accounts /\ Base({}, m).refs = BaseRefs({})
      /\ Base({}, m).kind = Kind(m) /\ Base({}, m).cached = {Root} /\ Base({}, m).parents = {}
  BY CallStarts
<1>2. /\ Base({n}, m).refs = BaseRefs({n})
      /\ Base({n}, m).kind = Kind(m) /\ Base({n}, m).cached = {Root} /\ Base({n}, m).parents = {}
  BY CallStarts
<1> DEFINE q == Take(Base({}, m), n)
<1>3. /\ q.kind = Kind(m) /\ q.cached = {Root} /\ q.parents = {}
      /\ \A k \in Nodes : q.refs[k] = IF k = n THEN BaseRefs({})[k] + 1 ELSE BaseRefs({})[k]
  BY <1>1, TakeElse
<1>4. \A k \in Nodes : BaseRefs({n})[k] =
                         IF k = n THEN BaseRefs({})[k] + 1 ELSE BaseRefs({})[k]
  BY DEF BaseRefs
<1> HIDE DEF q
<1>5. /\ \A k \in Nodes : Base({n}, m).refs[k] = q.refs[k]
      /\ Base({n}, m).kind = q.kind /\ Base({n}, m).cached = q.cached
      /\ Base({n}, m).parents = q.parents
  BY <1>2, <1>3, <1>4
<1>6. ASSUME NEW a, NEW b, \A k \in Nodes : a.refs[k] = b.refs[k],
             a.kind = b.kind, a.cached = b.cached, a.parents = b.parents
      PROVE  Counted(a, w) <=> Counted(b, w)
  <2>1. RefsAre(a, w) <=> RefsAre(b, w)
    BY <1>6 DEF RefsAre
  <2>2. (Kept(a, w) <=> Kept(b, w)) /\ (Moded(a, w) <=> Moded(b, w))
    BY <1>6 DEF Kept, Moded
  <2> QED BY <2>1, <2>2 DEF Counted, Tidy
<1> QED BY <1>5, <1>6 DEF q

\* What a call leaves is what the next one starts with, and an abort has its reasons.
LEMMA CallEnds ==
    ASSUME NEW h, h \subseteq Nodes, NEW m, NEW w, EndsIn(w),
           Sound(Base(h, m), w) \/ Closed(Base(h, m), w)
    PROVE  /\ h = held' => (mem.on => Shaped(World) /\ Counted(Base(held, mem), World))'
           /\ ~mem'.crossed /\ abort' \in Bugs => Blame(Base(h, m), abort')
<1>1. ASSUME h = held', mem'.on PROVE Shaped(World)' /\ Counted(Base(held, mem), World)'
  <2>1. ~Stopped(w) /\ mem' = w.mem
    BY <1>1 DEF EndsIn, Off
  <2>2. Shaped(w) /\ Counted(Base(h, m), w)
    BY <1>1, <2>1 DEF Sound, Closed
  <2>3. World'.mem = w.mem /\ {"vol", "mem", "rc", "faults", "got", "dir", "off"} \subseteq DOMAIN World'
    BY <2>1 DEF World
  <2>4. Shaped(World') /\ Counted(Base(h, m), World')
    BY <2>2, <2>3, SameMemory
  <2>5. World'.mem.crossed \/ Base(h, m) = Base(held', mem')
    <3>1. World'.mem.crossed \/ Kind(m) = Kind(mem')
      BY <2>1, <2>3, <2>4, CallStarts DEF Counted, Tidy, Moded
    <3> QED BY <1>1, <3>1 DEF Base
  <2>6. Counted(Base(held', mem'), World')
    BY <2>4, <2>5 DEF Counted
  <2> QED BY <2>4, <2>6
<1>2. ASSUME ~mem'.crossed, abort' \in Bugs PROVE Blame(Base(h, m), abort')
  <2>1. Stopped(w) /\ abort' = w.rc
    BY <1>2 DEF EndsIn, Bugs
  <2>2. mem'.crossed = w.mem.crossed
    BY <2>1 DEF EndsIn, Off
  <2> QED BY <1>2, <2>1, <2>2 DEF Sound, Closed
<1> QED BY <1>1, <1>2

\* The reasons of an abort, by how the volume is mounted and what callers hold.
LEMMA Explains ==
    ASSUME NEW h, h \subseteq held, held \subseteq Nodes,
           ~mem'.crossed /\ abort' \in Bugs => Blame(Base(h, mem), abort')
    PROVE  Explained
<1> SUFFICES ASSUME ~mem'.crossed, abort' \in Bugs
             PROVE  CASE abort' = "bug:references" -> held # {}
                      [] abort' = "bug:readonly" -> mem.ro /\ mem.repair
                      [] OTHER -> abort' \in {"bug:dirty", "bug:file", "bug:impossible", "bug:null"}
  BY DEF Explained
<1>1. Base(h, mem).kind = Kind(mem) /\ Base(h, mem).held = h
  BY DEF Base
<1>2. \/ abort' \in {"bug:dirty", "bug:file", "bug:impossible", "bug:null"}
      \/ abort' = "bug:readonly" /\ Kind(mem) = "mends"
      \/ abort' = "bug:references" /\ h # {}
  BY <1>1 DEF Blame
<1>3. Kind(mem) = "mends" => mem.ro /\ mem.repair
  BY DEF Kind
<1> QED BY <1>2, <1>3

\* A call that keeps what callers hold.
LEMMA CallKeeps ==
    ASSUME Balanced, NEW ws, Call(ws),
           mem.on => \A w \in ws : Sound(Base(held, mem), w) \/ Closed(Base(held, mem), w)
    PROVE  Balanced' /\ Explained
<1>1. PICK w \in ws : EndsIn(w)
  BY DEF Call
<1>2. /\ (held = {} \/ \E n \in Nodes : held = {n})' /\ (~mem.on => held = {})'
  BY DEF Call, Balanced
<1>3. held \subseteq Nodes /\ (Sound(Base(held, mem), w) \/ Closed(Base(held, mem), w))
  BY <1>1 DEF Call, Balanced
<1>4. /\ held = held' => (mem.on => Shaped(World) /\ Counted(Base(held, mem), World))'
      /\ ~mem'.crossed /\ abort' \in Bugs => Blame(Base(held, mem), abort')
  BY <1>1, <1>3, CallEnds
<1>5. Explained
  BY <1>3, <1>4, Explains
<1>6. CASE mem'.on
  <2>1. held' = held
    BY <1>6 DEF Call
  <2> QED BY <1>2, <1>4, <1>5, <1>6, <2>1 DEF Balanced
<1>7. CASE ~mem'.on
  BY <1>2, <1>5, <1>7 DEF Balanced
<1> QED BY <1>6, <1>7

\* exfat_mount: nobody holds a node yet.
LEMMA MountKeeps ==
    ASSUME Balanced, NEW ro, NEW repair, MountVolume(ro, repair)
    PROVE  Balanced' /\ Explained
<1> DEFINE m == [ro |-> ro, repair |-> repair]
           r == [refs |-> BaseRefs({}), held |-> {}, kind |-> Kind(m), cached |-> {}, parents |-> {}]
<1>1. PICK w \in Mount(World, ro, repair) : EndsIn(w)
  BY DEF MountVolume
<1>2. held = {} /\ held' = {} /\ ~mem.on
  BY DEF MountVolume, Balanced
<1>3. World.rc = "ok" /\ {"vol", "mem", "rc", "faults", "got", "dir", "off"} \subseteq DOMAIN World
  BY DEF World
<1>4. r \in Ledgers
  <2>1. BaseRefs({}) \in [Nodes -> Nat] /\ Root \in Nodes /\ BaseRefs({})[Root] # 0
    BY DEF BaseRefs, Nodes
  <2>2. Kind(m) \in {"writes", "mends", "reads"}
    BY DEF Kind
  <2> HIDE DEF m
  <2> QED BY <2>1, <2>2 DEF Ledgers, Accounts
<1>5. \A n \in Nodes : BaseRefs({})[n] = IF n = Root THEN 1 ELSE 0
  BY DEF BaseRefs
<1>6. Kind(m) = IF ~ro THEN "writes" ELSE IF repair THEN "mends" ELSE "reads"
  BY DEF Kind
<1> HIDE DEF m
<1>7. r.cached = {} /\ r.refs = BaseRefs({}) /\ r.kind = Kind(m) /\ r.held = {}
  OBVIOUS
<1>8. Know(r, Root) = Base({}, m)
  BY DEF Know, Base
<1> HIDE DEF r
<1>9. Sound(Know(r, Root), w) \/ Closed(r, w)
  BY <1>1, <1>3, <1>4, <1>5, <1>6, <1>7, MountCounts
<1>10. Closed(r, w) => Closed(Base({}, m), w)
  BY <1>7, CallStarts DEF Closed, Blame
<1>11. Sound(Base({}, m), w) \/ Closed(Base({}, m), w)
  BY <1>8, <1>9, <1>10
<1>12. {} = held' => (mem.on => Shaped(World) /\ Counted(Base(held, mem), World))'
  BY <1>1, <1>11, CallEnds
<1> QED BY <1>2, <1>12 DEF Balanced, Explained

\* A node is looked up to be kept, or given back.
LEMMA HoldKeeps ==
    ASSUME Balanced, NEW path, Hold(path)
    PROVE  Balanced' /\ Explained
<1> DEFINE r == Base({}, mem)
<1>1. PICK w \in Lookup(World, path) :
        EndsIn(w) /\ held' = IF w.rc = "ok" THEN {w.got} ELSE {}
  BY DEF Hold
<1>2. mem.on /\ held = {}
  BY DEF Hold
<1>3. r \in Accounts
  BY CallStarts
<1>4. Going(r, World)
  BY <1>2, WorldGoes
<1>5. Found(r, w)
  <2> HIDE DEF r, World
  <2> QED BY <1>1, <1>3, <1>4, FoundLookup
<1>6. CASE w.rc = "ok"
  <2>1. w.got \in Nodes /\ Sound(Take(r, w.got), w) /\ held' = {w.got} /\ ~Stopped(w)
    BY <1>1, <1>5, <1>6 DEF Found, Stopped, Bugs
  <2>2. Shaped(w) /\ Counted(Base(held', mem), w)
    BY <2>1, BaseTakes DEF Sound
  <2>3. Sound(Base(held', mem), w)
    BY <2>1, <2>2 DEF Sound
  <2>4. mem'.on
    BY <1>1, <2>1, <2>2 DEF EndsIn, Shaped
  <2>5. (mem.on => Shaped(World) /\ Counted(Base(held, mem), World))'
    BY <1>1, <2>1, <2>3, CallEnds
  <2>6. abort' \notin Bugs
    BY <1>1, <2>1 DEF EndsIn, Bugs
  <2> QED BY <2>1, <2>4, <2>5, <2>6 DEF Balanced, Explained
<1>7. CASE w.rc # "ok"
  <2>1. Sound(r, w) /\ held' = {}
    BY <1>1, <1>5, <1>7 DEF Found
  <2>2. /\ {} = held' => (mem.on => Shaped(World) /\ Counted(Base(held, mem), World))'
        /\ ~mem'.crossed /\ abort' \in Bugs => Blame(Base({}, mem), abort')
    BY <1>1, <2>1, CallEnds
  <2>3. Explained
    BY <1>2, <2>2, Explains
  <2> QED BY <2>1, <2>2, <2>3 DEF Balanced
<1> QED BY <1>6, <1>7

LEMMA GiveBackKeeps ==
    ASSUME Balanced, NEW n \in Nodes, GiveBack(n)
    PROVE  Balanced' /\ Explained
<1> DEFINE r == Base({}, mem)
<1>1. PICK w \in PutAndClean(World, n) : EndsIn(w)
  BY DEF GiveBack
<1>2. mem.on /\ held = {n} /\ held' = {}
  BY DEF GiveBack, Balanced
<1>3. r \in Accounts /\ r.cached = {Root} /\ r.refs[Root] # 0
  BY CallStarts, AccountFields
<1>4. Going(Base({n}, mem), World)
  BY <1>2, WorldGoes
<1>5. Sound(Take(r, n), World) /\ ~Stopped(World)
  <2>1. Counted(Take(r, n), World)
    BY <1>4, BaseTakes DEF Going
  <2> QED BY <1>4, <2>1 DEF Going, Sound, Stopped, Bugs
<1>6. Sound(r, w)
  <2> HIDE DEF r, World
  <2> QED BY <1>1, <1>3, <1>5, SoundPutAndClean
<1>7. /\ {} = held' => (mem.on => Shaped(World) /\ Counted(Base(held, mem), World))'
      /\ ~mem'.crossed /\ abort' \in Bugs => Blame(Base({}, mem), abort')
  BY <1>1, <1>6, CallEnds
<1>8. Explained
  BY <1>2, <1>7, Explains
<1> QED BY <1>2, <1>7, <1>8 DEF Balanced

\* Each call of the library, and a crash, keeps the references balanced, and aborts for
\* one of the reasons only.
LEMMA BalancedStep == Balanced /\ [Next]_vars => Balanced' /\ [Explained]_vars
<1> SUFFICES ASSUME Balanced, [Next]_vars PROVE Balanced' /\ [Explained]_vars
  OBVIOUS
<1> DEFINE r == Base(held, mem)
<1>1. /\ r \in Ledgers /\ r \in Accounts /\ r.kind = Kind(mem) /\ r.kind # "lost"
      /\ r.cached = {Root} /\ held \subseteq Nodes
      /\ \A n \in Nodes : r.refs[n] # 0 => n = Root \/ r.held # {}
  <2>1. held \subseteq Nodes
    BY DEF Balanced
  <2> QED BY <2>1, CallStarts
<1>2. mem.on => Going(r, World)
  BY WorldGoes
<1>3. ~mem.ro => r.kind # "reads"
  BY <1>1 DEF Kind
<1> HIDE DEF r
<1>4. ASSUME NEW ro \in BOOLEAN, NEW repair \in BOOLEAN, MountVolume(ro, repair)
      PROVE  Balanced' /\ Explained
  BY <1>4, MountKeeps
<1>5. CASE UnmountVolume
  <2>1. mem.on => \A w \in Unmount(World) : Closed(r, w)
    BY <1>1, <1>2, UnmountCloses
  <2>2. Balanced' /\ Explained
    BY <1>5, <2>1, CallKeeps DEF UnmountVolume, r
  <2> QED BY <2>2
<1>6. ASSUME NEW path \in Paths, CreateFile(path) PROVE Balanced' /\ Explained
  <2>1. mem.on /\ ~mem.ro => \A w \in Create(World, path, RegularFiles) : Sound(r, w)
    BY <1>1, <1>2, <1>3, SoundCreate DEF Nodes
  <2> QED BY <1>6, <2>1, CallKeeps DEF CreateFile, Change, r
<1>7. ASSUME NEW path \in Paths, CreateDirectory(path) PROVE Balanced' /\ Explained
  <2>1. mem.on /\ ~mem.ro => \A w \in Mkdir(World, path) : Sound(r, w)
    BY <1>1, <1>2, <1>3, SoundMkdir
  <2> QED BY <1>7, <2>1, CallKeeps DEF CreateDirectory, Change, r
<1>8. ASSUME NEW path \in Paths, UnlinkPath(path) PROVE Balanced' /\ Explained
  <2>1. mem.on /\ ~mem.ro => \A w \in RemovePath(path, Unlink) : Sound(r, w)
    BY <1>1, <1>2, <1>3, SoundRemovePath
  <2> QED BY <1>8, <2>1, CallKeeps DEF UnlinkPath, Change, r
<1>9. ASSUME NEW path \in Paths, RmdirPath(path) PROVE Balanced' /\ Explained
  <2>1. mem.on /\ ~mem.ro => \A w \in RemovePath(path, Rmdir) : Sound(r, w)
    BY <1>1, <1>2, <1>3, SoundRemovePath
  <2> QED BY <1>9, <2>1, CallKeeps DEF RmdirPath, Change, r
<1>10. ASSUME NEW path \in Paths, NEW new \in Paths, RenamePath(path, new)
       PROVE  Balanced' /\ Explained
  <2>1. mem.on /\ ~mem.ro => \A w \in Rename(World, path, new) : Sound(r, w)
    BY <1>1, <1>2, <1>3, SoundRename
  <2> QED BY <1>10, <2>1, CallKeeps DEF RenamePath, Change, r
<1>11. ASSUME NEW path \in Paths, NEW size \in 0 .. 1, Resize(path, size)
       PROVE  Balanced' /\ Explained
  <2> DEFINE ws == ResizeEnds(path, size)
  <2>1. mem.on => \A w \in ws : Sound(r, w)
    BY <1>1, <1>2, SoundWithNode
  <2>2. Call(ws)
    BY <1>11, Zenon DEF Resize, Change, ResizeEnds
  <2> HIDE DEF ws
  <2> QED BY <2>1, <2>2, CallKeeps DEF r
<1>12. ASSUME NEW path \in Paths, Touch(path) PROVE Balanced' /\ Explained
  <2> DEFINE ws == WithNode(path, LAMBDA v, n : {[v EXCEPT !.mem.nodes[n].dirty = TRUE]})
  <2>1. mem.on /\ ~mem.ro => \A w \in ws : Sound(r, w)
    <3>1. r.cached \subseteq {Root}
      BY <1>1
    <3> QED BY <1>1, <1>2, <1>3, <3>1, SoundWithNode, Zenon
  <2>2. Call(ws) /\ ~mem.ro
    BY <1>12, Zenon DEF Touch, Change
  <2> HIDE DEF ws
  <2> QED BY <2>1, <2>2, CallKeeps DEF r
<1>13. ASSUME NEW path \in Paths, Sync(path) PROVE Balanced' /\ Explained
  <2> DEFINE ws == WithNode(path, FlushNode)
  <2>1. mem.on => \A w \in ws : Sound(r, w)
    <3>1. r.cached \subseteq {Root}
      BY <1>1
    <3> QED BY <1>1, <1>2, <3>1, SoundWithNode, Zenon
  <2>2. Call(ws)
    BY <1>13, Zenon DEF Sync, Change
  <2> HIDE DEF ws
  <2> QED BY <2>1, <2>2, CallKeeps DEF r
<1>14. ASSUME NEW path \in Paths, Hold(path) PROVE Balanced' /\ Explained
  BY <1>14, HoldKeeps
<1>15. ASSUME NEW empty \in BOOLEAN, Relabel(empty) PROVE Balanced' /\ Explained
  <2>1. mem.on => \A w \in SetLabel(World, empty) : Sound(r, w)
    BY <1>1, <1>2, SoundSetLabel
  <2> QED BY <1>15, <2>1, CallKeeps DEF Relabel, Change, r
<1>16. ASSUME NEW n \in Nodes, GiveBack(n) PROVE Balanced' /\ Explained
  BY <1>16, GiveBackKeeps
<1>17. CASE Crash
  BY <1>17 DEF Crash, Balanced, Off, Explained, Bugs
<1>18. CASE UNCHANGED vars
  <2>1. World' = World /\ held' = held /\ mem' = mem
    BY <1>18 DEF vars, World
  <2>2. Balanced'
    BY <2>1 DEF Balanced
  <2> QED BY <1>18, <2>2
<1> QED BY <1>4, <1>5, <1>6, <1>7, <1>8, <1>9, <1>10, <1>11, <1>12, <1>13, <1>14, <1>15,
           <1>16, <1>17, <1>18 DEF Next

\* The inductive invariant holds from the beginning.
LEMMA BalancedInit == Init => Balanced
BY DEF Init, Balanced, Off

\* exfat_get_node, exfat_put_node: on every way out of every call of the library the
\* references that it took have been given back, for any size of the volume and
\* any names and paths, with writes that fail or are cut off by a crash anywhere.
THEOREM RefsAlwaysBalanced == Spec => []RefsBalanced
<1>1. Balanced => RefsBalanced
  BY CallStarts DEF Balanced, RefsBalanced, Counted, Tidy, RefsAre, Base, BaseRefs, World
<1> QED BY <1>1, BalancedInit, BalancedStep, PTL DEF Spec

\* exfat_bug: no count of references is ever below zero, no node without one is resized,
\* and no directory is searched for room that has not been read; what is left of the
\* reasons for an abort are the removal of a node that somebody holds, repairs on a
\* read-only volume, dirty nodes at the end, and mistakes of the caller.
THEOREM AbortsAreExplained == Spec => AbortsOnlyFor
<1>1. Balanced /\ [Next]_vars => [Explained]_vars
  BY BalancedStep
<1>2. Balanced /\ [Next]_vars => Balanced'
  BY BalancedStep
<1>3. AbortsOnlyFor <=> [][Explained]_vars
  BY Zenon DEF AbortsOnlyFor, Explained
<1> QED BY <1>1, <1>2, <1>3, BalancedInit, PTL DEF Spec
=============================================================================
