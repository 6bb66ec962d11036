----------------------------- MODULE Fat_proofs -----------------------------
(***************************************************************************)
(* Proofs about fat_io_lib, for any number of buffers, any sizes and       *)
(* names, and every sequence of calls and failures: the buffers of the     *)
(* file allocation table are never out of date, a call that only looks     *)
(* leaves the table as it was, and the handles are kept.                   *)
(*                                                                         *)
(* A call is followed from world to world.  What each operation keeps is   *)
(* Sound, said of the world and of the call it is part of; each lemma is   *)
(* named for the operation that keeps it.                                  *)
(***************************************************************************)
EXTENDS Fat, TLAPS, FiniteSetTheorems, SequenceTheorems

-----------------------------------------------------------------------------
(***************************************************************************)
(* What every operation keeps of a world.                                  *)
(***************************************************************************)
IsList(b) == b = [i \in 1 .. Buffers |-> b[i]]

\* The buffers of w over the table on the device: those that are not dirty hold what the
\* device holds, and no two hold one sector.
Coherent(w) ==
    /\ "table" \in DOMAIN w.disk /\ DOMAIN w.disk.table = 0 .. FsInfo
    /\ IsList(w.buf)
    /\ \A i \in 1 .. Buffers :
          /\ {"at", "dirty", "row"} \subseteq DOMAIN w.buf[i]
          /\ w.buf[i].at # INVALID =>
                /\ w.buf[i].at \in 0 .. FsInfo
                /\ w.buf[i].dirty \/ w.buf[i].row = w.disk.table[w.buf[i].at]
                /\ \A j \in 1 .. Buffers : w.buf[j].at = w.buf[i].at => j = i

\* What the library finds in sector s of the table is this row.
Finds(w, s, row) ==
    \/ \E i \in 1 .. Buffers : w.buf[i].at = s /\ w.buf[i].row = row
    \/ (\A i \in 1 .. Buffers : w.buf[i].at # s) /\ w.disk.table[s] = row

\* A call that is quiet leaves the table, and the handle it is for, without data that is
\* not written unless there was some before.
Kept(r, w) ==
    /\ \A s \in 0 .. FsInfo : Finds(w, s, r.rows[s])
    /\ w.h = r.h
    /\ w.file[Head(r.h)].dirty => r.dirty

Shaped(w) ==
    /\ {"disk", "buf", "file", "h", "free", "open", "faults", "rc", "ptr"} \subseteq DOMAIN w
    /\ w.file = [h \in DOMAIN w.file |-> w.file[h]]
    /\ \A h \in DOMAIN w.file : {"dirty", "path"} \subseteq DOMAIN w.file[h]

\* An operation that allocates and frees no handle leaves the lists of handles and the paths
\* of the files, and goes on with the handle it is for.
Listed(r, w) ==
    /\ w.free = r.free /\ w.open = r.open /\ w.h = r.h
    /\ DOMAIN w.file = DOMAIN r.paths
    /\ \A h \in DOMAIN w.file : w.file[h].path = r.paths[h]

\* No more than r.faults reads and writes may still fail.
Spent(r, w) == r.faults \in Nat /\ w.faults \in Nat /\ w.faults <= r.faults

\* The world w in a call of which r says what it keeps: r.quiet, whether it leaves the table
\* alone; and if so r.rows, the table before the call, r.h, the handle it is for, and r.dirty,
\* whether that one may have data to be written; and r.keeps, whether it leaves the handles
\* alone; and if so r.free, r.open and r.paths.
Sound(r, w) ==
    Shaped(w) /\ Coherent(w) /\ Spent(r, w) /\ (r.quiet => Kept(r, w)) /\ (r.keeps => Listed(r, w))

\* Nothing changes that Sound speaks of.
LEMMA SoundStays ==
    ASSUME NEW r, NEW w, NEW v, Sound(r, w),
           DOMAIN v = DOMAIN w, v.buf = w.buf, v.h = w.h, v.file = w.file,
           v.free = w.free, v.open = w.open, v.faults \in Nat, v.faults <= w.faults,
           "table" \in DOMAIN v.disk, v.disk.table = w.disk.table
    PROVE  Sound(r, v)
<1>1. Shaped(v)
  BY DEF Sound, Shaped
<1>2. Coherent(v)
  BY DEF Sound, Coherent
<1>3. \A s, row : Finds(w, s, row) => Finds(v, s, row)
  BY DEF Finds
<1>4. r.quiet => Kept(r, v)
  BY <1>3 DEF Sound, Kept
<1>5. Spent(r, v) /\ (r.keeps => Listed(r, v))
  BY DEF Sound, Spent, Listed
<1> QED BY <1>1, <1>2, <1>4, <1>5 DEF Sound

\* The buffers and the device change: what Sound says of the rest stays.
LEMMA SoundBesides ==
    ASSUME NEW r, NEW w, NEW v, Sound(r, w), DOMAIN v = DOMAIN w, v.h = w.h, v.file = w.file,
           v.free = w.free, v.open = w.open, v.faults = w.faults,
           Coherent(v),
           r.quiet => \A s \in 0 .. FsInfo : \A row : Finds(w, s, row) => Finds(v, s, row)
    PROVE  Sound(r, v)
<1>1. Shaped(v)
  BY DEF Sound, Shaped
<1>2. r.quiet => Kept(r, v)
  BY DEF Sound, Kept
<1>3. Spent(r, v) /\ (r.keeps => Listed(r, v))
  BY DEF Sound, Spent, Listed
<1> QED BY <1>1, <1>2, <1>3 DEF Sound

\* A read or a write that is done or fails leaves a sound world if both of its outcomes are.
LEMMA SoundIo ==
    ASSUME NEW r, NEW done, NEW not, Sound(r, done), Sound(r, not)
    PROVE  \A v \in Io(done, not) : Sound(r, v)
<1> DEFINE failed == [not EXCEPT !.rc = "fail", !.faults = @ - 1]
<1>1. ASSUME not.faults # 0 PROVE Sound(r, failed)
  <2>1. {"disk", "buf", "file", "h", "free", "open", "faults", "rc", "ptr"} \subseteq DOMAIN not
    BY DEF Sound, Shaped
  <2>2. /\ DOMAIN failed = DOMAIN not /\ failed.buf = not.buf /\ failed.h = not.h
        /\ failed.file = not.file /\ failed.disk = not.disk
        /\ failed.free = not.free /\ failed.open = not.open /\ failed.faults = not.faults - 1
    BY <2>1
  <2>3. "table" \in DOMAIN not.disk
    BY DEF Sound, Coherent
  <2> HIDE DEF failed
  <2>4. failed.faults \in Nat /\ failed.faults <= not.faults
    BY <1>1, <2>2 DEF Sound, Spent
  <2> QED BY <2>2, <2>3, <2>4, SoundStays
<1>2. \A v \in Io(done, not) : v = done \/ (v = failed /\ not.faults # 0)
  BY Zenon DEF Io
<1> QED BY <1>1, <1>2

\* One buffer is changed.
LEMMA Replaced ==
    ASSUME NEW f, IsList(f), NEW i \in 1 .. Buffers, NEW e, NEW g, g = [f EXCEPT ![i] = e]
    PROVE  /\ IsList(g)
           /\ \A k \in 1 .. Buffers : g[k] = IF k = i THEN e ELSE f[k]
<1>1. DOMAIN f = 1 .. Buffers
  BY DEF IsList
<1>2. g = [k \in 1 .. Buffers |-> IF k = i THEN e ELSE f[k]]
  BY <1>1
<1> QED BY <1>2 DEF IsList

\* A buffer gets another address and row.
LEMMA Refilled ==
    ASSUME NEW b, {"at", "dirty", "row"} \subseteq DOMAIN b, NEW s, NEW x,
           NEW c, c = [[b EXCEPT !.at = s] EXCEPT !.row = x]
    PROVE  /\ {"at", "dirty", "row"} \subseteq DOMAIN c
           /\ c.at = s /\ c.dirty = b.dirty /\ c.row = x
  OBVIOUS

\* fatfs_fat_writeback: what is written is what the library found there before.
LEMMA SoundWriteBack ==
    ASSUME NEW r, NEW w, Sound(r, w), NEW i \in 1 .. Buffers
    PROVE  \A v \in WriteBack(w, i) :
              /\ Sound(r, v)
              /\ v.rc = "ok" => ~v.buf[i].dirty
              /\ \A j \in 1 .. Buffers : v.buf[j].at = w.buf[j].at
              /\ DOMAIN v = DOMAIN w
<1> DEFINE a == w.buf[i].at
           done == [w EXCEPT !.disk.table[w.buf[i].at] = w.buf[i].row, !.buf[i].dirty = FALSE]
<1>1. CASE ~w.buf[i].dirty
  BY <1>1 DEF WriteBack
<1>2. CASE w.buf[i].dirty
  <2>1. {"disk", "buf", "file", "h", "free", "open", "faults", "rc", "ptr"} \subseteq DOMAIN w
    BY DEF Sound, Shaped
  <2>2. Coherent(w)
    BY DEF Sound
  <2>3. /\ DOMAIN done = DOMAIN w /\ done.file = w.file /\ done.h = w.h /\ done.rc = w.rc
        /\ done.free = w.free /\ done.open = w.open /\ done.faults = w.faults
        /\ done.disk = [w.disk EXCEPT !.table[a] = w.buf[i].row]
        /\ done.buf = [w.buf EXCEPT ![i].dirty = FALSE]
    BY <2>1
  <2> HIDE DEF done
  <2>4. /\ "table" \in DOMAIN done.disk /\ DOMAIN done.disk.table = 0 .. FsInfo
        /\ \A s \in 0 .. FsInfo : done.disk.table[s] = IF s = a THEN w.buf[i].row ELSE w.disk.table[s]
    <3>1. "table" \in DOMAIN w.disk /\ DOMAIN w.disk.table = 0 .. FsInfo
      BY <2>2 DEF Coherent
    <3>2. "table" \in DOMAIN done.disk /\ done.disk.table = [w.disk.table EXCEPT ![a] = w.buf[i].row]
      BY <2>3, <3>1
    <3> QED BY <3>1, <3>2
  <2>5. /\ IsList(done.buf)
        /\ \A j \in 1 .. Buffers :
              done.buf[j] = IF j = i THEN [w.buf[i] EXCEPT !.dirty = FALSE] ELSE w.buf[j]
    <3>1. IsList(w.buf)
      BY <2>2 DEF Coherent
    <3> QED BY <2>3, <3>1, Replaced
  <2>6. \A j \in 1 .. Buffers :
              /\ {"at", "dirty", "row"} \subseteq DOMAIN done.buf[j]
              /\ done.buf[j].at = w.buf[j].at /\ done.buf[j].row = w.buf[j].row
              /\ j # i => done.buf[j].dirty = w.buf[j].dirty
              /\ j = i => done.buf[j].dirty = FALSE
    BY <2>2, <2>5 DEF Coherent
  <2>7. Coherent(done)
    BY <2>2, <2>4, <2>5, <2>6 DEF Coherent
  <2>13. ASSUME NEW s \in 0 .. FsInfo, NEW row, Finds(w, s, row) PROVE Finds(done, s, row)
    BY <2>2, <2>4, <2>6, <2>13 DEF Finds, Coherent
  <2>8. Sound(r, done)
    BY <2>3, <2>7, <2>13, SoundBesides
  <2>9. WriteBack(w, i) = Io(done, w)
    BY <1>2 DEF WriteBack, done
  <2>10. \A v \in Io(done, w) : v = done \/ v = [w EXCEPT !.rc = "fail", !.faults = @ - 1]
    BY Zenon DEF Io
  <2>11. \A v \in Io(done, w) : /\ v.rc = "ok" => v = done
                                /\ v.buf = done.buf \/ v.buf = w.buf
                                /\ DOMAIN v = DOMAIN w
    BY <2>1, <2>3, <2>10
  <2>12. \A v \in Io(done, w) : Sound(r, v)
    BY <2>8, SoundIo
  <2> QED BY <2>6, <2>9, <2>11, <2>12
<1> QED BY <1>1, <1>2

\* The list of buffers, with the last in front.
LEMMA Rotation ==
    ASSUME NEW w, Coherent(w)
    PROVE  <<Last(w.buf)>> \o Front(w.buf) =
             [k \in 1 .. Buffers |-> IF k = 1 THEN w.buf[Buffers] ELSE w.buf[k - 1]]
<1> DEFINE S == {w.buf[i] : i \in 1 .. Buffers}
<1>1. Buffers \in Nat /\ Buffers >= 1
  BY FatTableAssumption
<1>2. w.buf \in [1 .. Buffers -> S]
  BY DEF Coherent, IsList
<1> HIDE DEF S
<1>3. w.buf \in Seq(S) /\ Len(w.buf) = Buffers
  BY <1>1, <1>2
<1>4. Last(w.buf) = w.buf[Buffers] /\ w.buf[Buffers] \in S
  BY <1>1, <1>2, <1>3 DEF Last
<1>5. /\ Front(w.buf) \in Seq(S) /\ Len(Front(w.buf)) = Buffers - 1
      /\ \A k \in 1 .. Buffers - 1 : Front(w.buf)[k] = w.buf[k]
  BY <1>1, <1>3 DEF Front
<1>6. <<Last(w.buf)>> \in Seq(S) /\ Len(<<Last(w.buf)>>) = 1
  BY <1>4
<1>7. /\ Len(<<Last(w.buf)>> \o Front(w.buf)) = Buffers
      /\ <<Last(w.buf)>> \o Front(w.buf) \in Seq(S)
      /\ \A k \in 1 .. Buffers : (<<Last(w.buf)>> \o Front(w.buf))[k] =
            IF k = 1 THEN w.buf[Buffers] ELSE w.buf[k - 1]
  BY <1>1, <1>4, <1>5, <1>6
<1>8. <<Last(w.buf)>> \o Front(w.buf) =
         [k \in 1 .. Buffers |-> (<<Last(w.buf)>> \o Front(w.buf))[k]]
  BY <1>7
<1> QED BY <1>7, <1>8

\* The three steps in which fatfs_fat_read_sector takes a buffer.
Rotated(w) == [w EXCEPT !.buf = <<Last(@)>> \o Front(@), !.ptr = 1]
Dropped(w) == [w EXCEPT !.buf[1].at = INVALID]
Filled(w, s) == [w EXCEPT !.buf[1].at = s, !.buf[1].row = w.disk.table[s]]

\* No buffer holds sector s.
Lacks(w, s) == \A i \in 1 .. Buffers : w.buf[i].at # s

\* The last buffer of the list becomes the first.
LEMMA SoundRotate ==
    ASSUME NEW r, NEW w, Sound(r, w)
    PROVE  /\ Sound(r, Rotated(w)) /\ DOMAIN Rotated(w) = DOMAIN w /\ Rotated(w).ptr = 1
           /\ \A s : Lacks(w, s) => Lacks(Rotated(w), s)
<1> DEFINE v == Rotated(w)
<1>1. Coherent(w) /\ Shaped(w)
  BY DEF Sound
<1>2. {"disk", "buf", "file", "h", "free", "open", "faults", "rc", "ptr"} \subseteq DOMAIN w
  BY <1>1 DEF Shaped
<1>3. /\ DOMAIN v = DOMAIN w /\ v.disk = w.disk /\ v.file = w.file /\ v.h = w.h
      /\ v.free = w.free /\ v.open = w.open /\ v.faults = w.faults
      /\ v.buf = <<Last(w.buf)>> \o Front(w.buf) /\ v.ptr = 1
  BY <1>2 DEF Rotated
<1> HIDE DEF v
<1>4. v.buf = [k \in 1 .. Buffers |-> IF k = 1 THEN w.buf[Buffers] ELSE w.buf[k - 1]]
  BY <1>1, <1>3, Rotation
<1>5. Buffers \in Nat /\ Buffers >= 1 /\ 1 \in 1 .. Buffers /\ Buffers \in 1 .. Buffers
  BY FatTableAssumption
<1> DEFINE From(i) == IF i = 1 THEN Buffers ELSE i - 1
           To(j) == IF j = Buffers THEN 1 ELSE j + 1
<1>6. ASSUME NEW i \in 1 .. Buffers
      PROVE  From(i) \in 1 .. Buffers /\ v.buf[i] = w.buf[From(i)]
  <2>1. v.buf[i] = IF i = 1 THEN w.buf[Buffers] ELSE w.buf[i - 1]
    BY <1>4
  <2>2. CASE i = 1
    BY <1>5, <2>1, <2>2
  <2>3. CASE i # 1
    <3>1. From(i) = i - 1 /\ i - 1 \in 1 .. Buffers
      BY <1>5, <2>3
    <3>2. v.buf[i] = w.buf[i - 1]
      BY <2>1, <2>3
    <3> HIDE DEF From
    <3> QED BY <3>1, <3>2
  <2> QED BY <2>2, <2>3
<1>7. ASSUME NEW j \in 1 .. Buffers
      PROVE  To(j) \in 1 .. Buffers /\ v.buf[To(j)] = w.buf[j]
  <2>1. CASE j = Buffers
    <3>1. v.buf[1] = IF 1 = 1 THEN w.buf[Buffers] ELSE w.buf[1 - 1]
      BY <1>4, <1>5, Zenon
    <3> QED BY <1>5, <2>1, <3>1
  <2>2. CASE j # Buffers
    <3>1. j + 1 \in 1 .. Buffers /\ j + 1 # 1 /\ (j + 1) - 1 = j
      BY <1>5, <2>2
    <3>2. v.buf[j + 1] = IF j + 1 = 1 THEN w.buf[Buffers] ELSE w.buf[(j + 1) - 1]
      BY <1>4, <3>1
    <3> QED BY <2>2, <3>1, <3>2
  <2> QED BY <2>1, <2>2
<1>8. \A i, j \in 1 .. Buffers : From(i) = From(j) => i = j
  BY <1>5
<1> HIDE DEF From, To
<1>9. IsList(v.buf)
  BY <1>4 DEF IsList
<1>10. Coherent(v)
  <2>1. ASSUME NEW i \in 1 .. Buffers
        PROVE  /\ {"at", "dirty", "row"} \subseteq DOMAIN v.buf[i]
               /\ v.buf[i].at # INVALID =>
                     /\ v.buf[i].at \in 0 .. FsInfo
                     /\ v.buf[i].dirty \/ v.buf[i].row = v.disk.table[v.buf[i].at]
                     /\ \A j \in 1 .. Buffers : v.buf[j].at = v.buf[i].at => j = i
    <3>1. /\ {"at", "dirty", "row"} \subseteq DOMAIN w.buf[From(i)]
          /\ w.buf[From(i)].at # INVALID =>
                /\ w.buf[From(i)].at \in 0 .. FsInfo
                /\ w.buf[From(i)].dirty \/ w.buf[From(i)].row = w.disk.table[w.buf[From(i)].at]
                /\ \A j \in 1 .. Buffers : w.buf[j].at = w.buf[From(i)].at => j = From(i)
      BY <1>1, <1>6 DEF Coherent
    <3> QED BY <1>3, <1>6, <1>8, <3>1
  <2> QED BY <1>1, <1>3, <1>9, <2>1 DEF Coherent
<1>11. ASSUME NEW s, NEW row, Finds(w, s, row) PROVE Finds(v, s, row)
  <2>1. CASE \E i \in 1 .. Buffers : w.buf[i].at = s /\ w.buf[i].row = row
    <3>1. PICK i \in 1 .. Buffers : w.buf[i].at = s /\ w.buf[i].row = row
      BY <2>1
    <3>2. To(i) \in 1 .. Buffers /\ v.buf[To(i)] = w.buf[i]
      BY <1>7
    <3> QED BY <3>1, <3>2 DEF Finds
  <2>2. CASE (\A i \in 1 .. Buffers : w.buf[i].at # s) /\ w.disk.table[s] = row
    BY <1>3, <1>6, <2>2 DEF Finds
  <2> QED BY <1>11, <2>1, <2>2 DEF Finds
<1>12. Sound(r, v)
  BY <1>3, <1>10, <1>11, SoundBesides
<1>13. ASSUME NEW s, Lacks(w, s) PROVE Lacks(v, s)
  BY <1>6, <1>13 DEF Lacks
<1> QED BY <1>3, <1>12, <1>13 DEF v

\* A clean buffer is given up: what it held is on the device.
LEMMA SoundDrop ==
    ASSUME NEW r, NEW w, Sound(r, w), ~w.buf[1].dirty
    PROVE  /\ Sound(r, Dropped(w)) /\ DOMAIN Dropped(w) = DOMAIN w /\ Dropped(w).ptr = w.ptr
           /\ ~Dropped(w).buf[1].dirty /\ Dropped(w).buf[1].at = INVALID
           /\ \A i \in 1 .. Buffers : i # 1 => Dropped(w).buf[i].at = w.buf[i].at
<1> DEFINE v == Dropped(w)
<1>1. Coherent(w) /\ Shaped(w)
  BY DEF Sound
<1>2. {"disk", "buf", "file", "h", "free", "open", "faults", "rc", "ptr"} \subseteq DOMAIN w
  BY <1>1 DEF Shaped
<1>3. /\ DOMAIN v = DOMAIN w /\ v.disk = w.disk /\ v.file = w.file /\ v.h = w.h
      /\ v.free = w.free /\ v.open = w.open /\ v.faults = w.faults
      /\ v.buf = [w.buf EXCEPT ![1].at = INVALID] /\ v.ptr = w.ptr
  BY <1>2 DEF Dropped
<1> HIDE DEF v
<1>4. 1 \in 1 .. Buffers
  BY FatTableAssumption
<1>5. /\ IsList(v.buf)
      /\ \A k \in 1 .. Buffers :
            v.buf[k] = IF k = 1 THEN [w.buf[1] EXCEPT !.at = INVALID] ELSE w.buf[k]
  <2>1. IsList(w.buf)
    BY <1>1 DEF Coherent
  <2> DEFINE e == [w.buf[1] EXCEPT !.at = INVALID]
  <2>2. v.buf = [w.buf EXCEPT ![1] = e]
    BY <1>3
  <2> HIDE DEF e
  <2>3. IsList(v.buf) /\ \A k \in 1 .. Buffers : v.buf[k] = IF k = 1 THEN e ELSE w.buf[k]
    BY <1>4, <2>1, <2>2, Replaced
  <2> QED BY <2>3 DEF e
<1>6. /\ {"at", "dirty", "row"} \subseteq DOMAIN v.buf[1]
      /\ v.buf[1].at = INVALID /\ v.buf[1].dirty = w.buf[1].dirty /\ v.buf[1].row = w.buf[1].row
  BY <1>1, <1>4, <1>5 DEF Coherent
<1>7. Coherent(v)
  BY <1>1, <1>3, <1>4, <1>5, <1>6 DEF Coherent
<1>8. ASSUME NEW s \in 0 .. FsInfo, NEW row, Finds(w, s, row) PROVE Finds(v, s, row)
  <2>1. s # INVALID
    BY DEF INVALID
  <2> QED BY <1>1, <1>3, <1>4, <1>5, <1>6, <1>8, <2>1 DEF Finds, Coherent
<1>9. Sound(r, v)
  BY <1>3, <1>7, <1>8, SoundBesides
<1> QED BY <1>3, <1>4, <1>5, <1>6, <1>9 DEF v

\* A sector that no buffer holds is read into the one that was given up.
LEMMA SoundFill ==
    ASSUME NEW r, NEW w, Sound(r, w), ~w.buf[1].dirty, w.buf[1].at = INVALID,
           NEW s \in 0 .. FsInfo, \A i \in 1 .. Buffers : w.buf[i].at # s
    PROVE  /\ Sound(r, Filled(w, s)) /\ DOMAIN Filled(w, s) = DOMAIN w
           /\ Filled(w, s).buf[1].at = s /\ Filled(w, s).ptr = w.ptr
<1> DEFINE v == Filled(w, s)
<1>1. Coherent(w) /\ Shaped(w)
  BY DEF Sound
<1>2. {"disk", "buf", "file", "h", "free", "open", "faults", "rc", "ptr"} \subseteq DOMAIN w
  BY <1>1 DEF Shaped
<1>3. /\ DOMAIN v = DOMAIN w /\ v.disk = w.disk /\ v.file = w.file /\ v.h = w.h /\ v.ptr = w.ptr
      /\ v.free = w.free /\ v.open = w.open /\ v.faults = w.faults
      /\ v.buf = [w.buf EXCEPT ![1] = [[w.buf[1] EXCEPT !.at = s] EXCEPT !.row = w.disk.table[s]]]
  BY <1>1, <1>2 DEF Coherent, Filled
<1> HIDE DEF v
<1>4. 1 \in 1 .. Buffers
  BY FatTableAssumption
<1>5. /\ IsList(v.buf)
      /\ \A k \in 1 .. Buffers : k # 1 => v.buf[k] = w.buf[k]
      /\ v.buf[1] = [[w.buf[1] EXCEPT !.at = s] EXCEPT !.row = w.disk.table[s]]
  <2>1. IsList(w.buf)
    BY <1>1 DEF Coherent
  <2> DEFINE e == [[w.buf[1] EXCEPT !.at = s] EXCEPT !.row = w.disk.table[s]]
  <2>2. v.buf = [w.buf EXCEPT ![1] = e]
    BY <1>3
  <2> HIDE DEF e
  <2>3. IsList(v.buf) /\ \A k \in 1 .. Buffers : v.buf[k] = IF k = 1 THEN e ELSE w.buf[k]
    BY <1>4, <2>1, <2>2, Replaced
  <2> QED BY <1>4, <2>3 DEF e
<1>6. /\ {"at", "dirty", "row"} \subseteq DOMAIN v.buf[1]
      /\ v.buf[1].at = s /\ v.buf[1].dirty = w.buf[1].dirty /\ v.buf[1].row = w.disk.table[s]
  <2>1. {"at", "dirty", "row"} \subseteq DOMAIN w.buf[1]
    BY <1>1, <1>4 DEF Coherent
  <2> QED BY <1>4, <1>5, <2>1, Refilled
<1>7. Coherent(v)
  <2>1. "table" \in DOMAIN v.disk /\ DOMAIN v.disk.table = 0 .. FsInfo /\ IsList(v.buf)
    BY <1>1, <1>3, <1>5 DEF Coherent
  <2>2. /\ v.buf[1].row = v.disk.table[v.buf[1].at]
        /\ \A j \in 1 .. Buffers : v.buf[j].at = v.buf[1].at => j = 1
    BY <1>3, <1>5, <1>6
  <2>3. ASSUME NEW i \in 1 .. Buffers, i # 1
        PROVE  /\ {"at", "dirty", "row"} \subseteq DOMAIN v.buf[i]
               /\ v.buf[i].at # INVALID =>
                     /\ v.buf[i].at \in 0 .. FsInfo
                     /\ v.buf[i].dirty \/ v.buf[i].row = v.disk.table[v.buf[i].at]
                     /\ \A j \in 1 .. Buffers : v.buf[j].at = v.buf[i].at => j = i
    <3>1. v.buf[i] = w.buf[i] /\ w.buf[i].at # s
      BY <1>5, <2>3
    <3>2. \A j \in 1 .. Buffers : v.buf[j].at = v.buf[i].at => j # 1 /\ w.buf[j].at = w.buf[i].at
      BY <1>5, <1>6, <3>1
    <3> QED BY <1>1, <1>3, <3>1, <3>2 DEF Coherent
  <2> QED BY <1>6, <2>1, <2>2, <2>3 DEF Coherent
<1>8. ASSUME NEW t \in 0 .. FsInfo, NEW row, Finds(w, t, row) PROVE Finds(v, t, row)
  <2>1. t # INVALID
    BY DEF INVALID
  <2>2. CASE t = s
    BY <1>3, <1>4, <1>6, <1>8, <2>2 DEF Finds
  <2>3. CASE t # s
    BY <1>3, <1>4, <1>5, <1>6, <1>8, <2>1, <2>3 DEF Finds
  <2> QED BY <2>2, <2>3
<1>9. Sound(r, v)
  BY <1>3, <1>7, <1>8, SoundBesides
<1> QED BY <1>3, <1>6, <1>9 DEF v

\* fatfs_fat_read_sector keeps the buffers sound; if it succeeds, w.ptr has the sector.
LEMMA SoundLoad ==
    ASSUME NEW r, NEW w, Sound(r, w), NEW s
    PROVE  \A v \in Load(w, s) :
              /\ Sound(r, v) /\ DOMAIN v = DOMAIN w
              /\ v.rc = "ok" => v.ptr \in 1 .. Buffers /\ v.buf[v.ptr].at = s
<1>0. {"disk", "buf", "file", "h", "free", "open", "faults", "rc", "ptr"} \subseteq DOMAIN w
  BY DEF Sound, Shaped
<1>1. CASE \E i \in 1 .. Buffers : w.buf[i].at = s
  <2> DEFINE v == [w EXCEPT !.ptr = CHOOSE i \in 1 .. Buffers : w.buf[i].at = s]
  <2>1. Load(w, s) = {v}
    BY <1>1 DEF Load
  <2>2. /\ DOMAIN v = DOMAIN w /\ v.buf = w.buf /\ v.h = w.h /\ v.file = w.file /\ v.disk = w.disk
        /\ v.free = w.free /\ v.open = w.open /\ v.faults = w.faults
        /\ v.ptr = CHOOSE i \in 1 .. Buffers : w.buf[i].at = s
    BY <1>0
  <2> HIDE DEF v
  <2>3. v.ptr \in 1 .. Buffers /\ v.buf[v.ptr].at = s
    BY <1>1, <2>2
  <2>4. "table" \in DOMAIN w.disk
    BY DEF Sound, Coherent
  <2>5. Sound(r, v)
    <3>1. v.faults \in Nat /\ v.faults <= w.faults
      BY <2>2 DEF Sound, Spent
    <3> QED BY <2>2, <2>4, <3>1, SoundStays
  <2> QED BY <2>1, <2>2, <2>3, <2>5
<1>2. CASE \A i \in 1 .. Buffers : w.buf[i].at # s
  <2> DEFINE first == Rotated(w)
             Rest(v) == IF s \notin 0 .. FsInfo THEN Result({Dropped(v)}, "fail")
                        ELSE Io(Filled(Dropped(v), s), Dropped(v))
  <2>1. Load(w, s) = Then(WriteBack(first, 1), Rest)
    BY <1>2, Zenon DEF Load, Rotated, Dropped, Filled
  <2>2. 1 \in 1 .. Buffers
    BY FatTableAssumption
  <2>4. /\ Sound(r, first) /\ DOMAIN first = DOMAIN w /\ first.ptr = 1
        /\ Lacks(first, s)
    <3>1. Lacks(w, s)
      BY <1>2 DEF Lacks
    <3> QED BY <3>1, SoundRotate
  <2> HIDE DEF first
  <2>5. \A i \in 1 .. Buffers : first.buf[i].at # s
    BY <2>4 DEF Lacks
  <2>6. \A v \in WriteBack(first, 1) :
           v = first \/ v.ptr = first.ptr
    <3>1. {"disk", "buf", "file", "h", "free", "open", "faults", "rc", "ptr"} \subseteq DOMAIN first
      BY <1>0, <2>4
    <3> QED BY <3>1 DEF WriteBack, Io
  <2>7. ASSUME NEW v \in WriteBack(first, 1)
        PROVE  /\ Sound(r, v) /\ DOMAIN v = DOMAIN w /\ v.ptr = 1
               /\ v.rc = "ok" => ~v.buf[1].dirty
               /\ \A i \in 1 .. Buffers : v.buf[i].at # s
    BY <2>2, <2>4, <2>5, <2>6, SoundWriteBack
  <2>8. ASSUME NEW v \in WriteBack(first, 1), v.rc = "ok", NEW x \in Rest(v)
        PROVE  /\ Sound(r, x) /\ DOMAIN x = DOMAIN w
               /\ x.rc = "ok" => x.ptr = 1 /\ x.buf[1].at = s
    <3> DEFINE u == Dropped(v)
    <3>1. /\ Sound(r, v) /\ DOMAIN v = DOMAIN w /\ v.ptr = 1 /\ ~v.buf[1].dirty
          /\ \A i \in 1 .. Buffers : v.buf[i].at # s
      BY <2>7, <2>8
    <3>2. /\ Sound(r, u) /\ DOMAIN u = DOMAIN v /\ ~u.buf[1].dirty /\ u.buf[1].at = INVALID
          /\ \A i \in 1 .. Buffers : i # 1 => u.buf[i].at = v.buf[i].at
          /\ u.ptr = 1
      BY <3>1, SoundDrop
    <3>4. CASE s \notin 0 .. FsInfo
      <4>1. x = [u EXCEPT !.rc = "fail"]
        BY <2>8, <3>4 DEF Result
      <4> HIDE DEF u
      <4>2. /\ DOMAIN x = DOMAIN u /\ x.buf = u.buf /\ x.h = u.h /\ x.file = u.file /\ x.disk = u.disk
            /\ x.free = u.free /\ x.open = u.open /\ x.faults = u.faults
            /\ x.rc = "fail"
        BY <1>0, <3>1, <3>2, <4>1
      <4>3. "table" \in DOMAIN u.disk
        BY <3>2 DEF Sound, Coherent
      <4>4. Sound(r, x)
        <5>1. x.faults \in Nat /\ x.faults <= u.faults
          BY <3>2, <4>2 DEF Sound, Spent
        <5> QED BY <3>2, <4>2, <4>3, <5>1, SoundStays
      <4> QED BY <3>1, <3>2, <4>2, <4>4
    <3>5. CASE s \in 0 .. FsInfo
      <4>1. x \in Io(Filled(u, s), u)
        BY <2>8, <3>5
      <4>2. \A i \in 1 .. Buffers : u.buf[i].at # s
        <5>1. s # INVALID
          BY <3>5 DEF INVALID
        <5> HIDE DEF u
        <5> QED BY <3>1, <3>2, <5>1
      <4> HIDE DEF u
      <4>3. /\ Sound(r, Filled(u, s)) /\ DOMAIN Filled(u, s) = DOMAIN u
            /\ Filled(u, s).buf[1].at = s /\ Filled(u, s).ptr = u.ptr
        BY <3>2, <3>5, <4>2, SoundFill
      <4>4. Sound(r, x)
        BY <3>2, <4>1, <4>3, SoundIo
      <4>5. x = Filled(u, s) \/ x = [u EXCEPT !.rc = "fail", !.faults = @ - 1]
        BY <4>1, Zenon DEF Io
      <4>6. x.rc = "ok" => x = Filled(u, s)
        BY <1>0, <3>1, <3>2, <4>5
      <4>7. DOMAIN x = DOMAIN u
        BY <4>3, <4>5
      <4> QED BY <3>1, <3>2, <4>3, <4>4, <4>6, <4>7
    <3> QED BY <3>4, <3>5
  <2>9. ASSUME NEW x \in Load(w, s)
        PROVE  \E v \in WriteBack(first, 1) : IF v.rc = "ok" THEN x \in Rest(v) ELSE x = v
    <3> HIDE DEF Rest
    <3> QED BY <2>1, <2>9 DEF Then
  <2> HIDE DEF Rest
  <2> QED BY <2>2, <2>7, <2>8, <2>9
<1> QED BY <1>1, <1>2
-----------------------------------------------------------------------------
\* A field that Sound does not speak of is set.
LEMMA SoundElse ==
    ASSUME NEW r, NEW w, Sound(r, w), NEW x,
           NEW f, f \notin {"disk", "buf", "h", "file", "free", "open", "faults"}
    PROVE  Sound(r, [w EXCEPT ![f] = x])
<1> DEFINE v == [w EXCEPT ![f] = x]
<1>1. {"disk", "buf", "file", "h", "free", "open", "faults", "rc", "ptr"} \subseteq DOMAIN w
  BY DEF Sound, Shaped
<1>2. /\ DOMAIN v = DOMAIN w /\ v.disk = w.disk /\ v.buf = w.buf /\ v.h = w.h /\ v.file = w.file
      /\ v.free = w.free /\ v.open = w.open /\ v.faults = w.faults
  BY <1>1
<1> HIDE DEF v
<1>3. "table" \in DOMAIN w.disk /\ w.faults \in Nat /\ w.faults <= w.faults
  BY DEF Sound, Coherent, Spent
<1>4. Sound(r, v)
  BY <1>2, <1>3, SoundStays
<1> QED BY <1>4 DEF v

\* The result of a call is not part of what is sound.
LEMMA SoundResult ==
    ASSUME NEW r, NEW ws, \A w \in ws : Sound(r, w), NEW rc
    PROVE  \A v \in Result(ws, rc) : Sound(r, v)
  BY SoundElse DEF Result

\* fatfs_find_next_cluster
LEMMA SoundNextCluster ==
    ASSUME NEW r, NEW w, Sound(r, w), NEW c
    PROVE  \A v \in NextCluster(w, c) : Sound(r, v)
<1> DEFINE d == IF c = 0 THEN 2 ELSE c
<1> SUFFICES ASSUME NEW v \in NextCluster(w, c) PROVE Sound(r, v)
  OBVIOUS
<1>1. PICK u \in Load(w, SectorOf(d)) :
         \E x : v \in {[u EXCEPT !.val = x], [u EXCEPT !.rc = "ok", !.val = x]}
  BY DEF NextCluster
<1>2. PICK x : v \in {[u EXCEPT !.val = x], [u EXCEPT !.rc = "ok", !.val = x]}
  BY <1>1
<1>3. Sound(r, u)
  BY SoundLoad
<1>4. Sound(r, [u EXCEPT !.val = x]) /\ Sound(r, [u EXCEPT !.rc = "ok", !.val = x])
  BY <1>3, SoundElse
<1> QED BY <1>2, <1>4, Zenon

\* An entry of the table is changed in its buffer.
Changed(w, c, next) == [w EXCEPT !.buf[w.ptr].row[At(c)] = next, !.buf[w.ptr].dirty = TRUE]

\* The entry is found changed from then on, and the buffer is dirty: this is not quiet.
LEMMA SoundChanged ==
    ASSUME NEW r, NEW w, Sound(r, w), ~r.quiet, w.ptr \in 1 .. Buffers, NEW c, NEW next
    PROVE  Sound(r, Changed(w, c, next))
<1> DEFINE v == Changed(w, c, next)
           i == w.ptr
           e == [[w.buf[i] EXCEPT !.row[At(c)] = next] EXCEPT !.dirty = TRUE]
<1>1. Coherent(w) /\ Shaped(w)
  BY DEF Sound
<1>2. {"disk", "buf", "file", "h", "free", "open", "faults", "rc", "ptr"} \subseteq DOMAIN w
  BY <1>1 DEF Shaped
<1>3. IsList(w.buf) /\ {"at", "dirty", "row"} \subseteq DOMAIN w.buf[i]
  BY <1>1 DEF Coherent
<1>4. DOMAIN w.buf = 1 .. Buffers
  BY <1>3 DEF IsList
<1>5. /\ DOMAIN v = DOMAIN w /\ v.disk = w.disk /\ v.file = w.file /\ v.h = w.h
      /\ v.free = w.free /\ v.open = w.open /\ v.faults = w.faults
      /\ v.buf = [w.buf EXCEPT ![i] = e]
  BY <1>2, <1>4 DEF Changed
<1>6. {"at", "dirty", "row"} \subseteq DOMAIN e /\ e.at = w.buf[i].at /\ e.dirty = TRUE
  BY <1>3
<1> HIDE DEF v, e, i
<1>7. IsList(v.buf) /\ \A k \in 1 .. Buffers : v.buf[k] = IF k = i THEN e ELSE w.buf[k]
  BY <1>3, <1>5, Replaced DEF i
<1>8. Coherent(v)
  BY <1>1, <1>5, <1>6, <1>7 DEF Coherent
<1>9. Sound(r, v)
  BY <1>5, <1>8, SoundBesides
<1> QED BY <1>9 DEF v

\* fatfs_fat_set_cluster
LEMMA SoundSetCluster ==
    ASSUME NEW r, NEW w, Sound(r, w), ~r.quiet, NEW c, NEW next
    PROVE  \A v \in SetCluster(w, c, next) : Sound(r, v)
<1> SUFFICES ASSUME NEW v \in SetCluster(w, c, next) PROVE Sound(r, v)
  OBVIOUS
<1>1. PICK u \in Load(w, SectorOf(c)) :
         v = IF u.rc = "ok" THEN Changed(u, c, next) ELSE [u EXCEPT !.rc = "ok"]
  BY DEF SetCluster, Changed
<1>2. Sound(r, u) /\ (u.rc = "ok" => u.ptr \in 1 .. Buffers)
  BY SoundLoad
<1>3. Sound(r, [u EXCEPT !.rc = "ok"])
  BY <1>2, SoundElse
<1>4. u.rc = "ok" => Sound(r, Changed(u, c, next))
  BY <1>2, SoundChanged
<1> QED BY <1>1, <1>3, <1>4, Zenon

\* The loops of the library are instances of the one in Induction_proofs.
PurgeTurns == INSTANCE Induction_proofs WITH
    Step <- LAMBDA a, b, v, k : IF v.rc = "ok" THEN WriteBack(v, k) ELSE {v}, Good <- Sound

\* fatfs_fat_purge
LEMMA SoundPurge ==
    ASSUME NEW r, NEW w, Sound(r, w)
    PROVE  \A v \in Purge(w) : Sound(r, v)
<1>1. \A v : Sound(r, v) => \A k \in 1 .. Buffers :
         \A u \in IF v.rc = "ok" THEN WriteBack(v, k) ELSE {v} : Sound(r, u)
  BY SoundWriteBack
<1>2. Buffers \in Nat
  BY FatTableAssumption
<1>3. \A v \in PurgeTurns!Steps(0, 0, {w})[Buffers] : Sound(r, v)
  BY <1>1, <1>2, PurgeTurns!StepsKeep
<1>4. Purge(w) = PurgeTurns!Steps(0, 0, {w})[Buffers]
  BY <1>2 DEF Purge, Each, Turns, PurgeTurns!Steps
<1> QED BY <1>3, <1>4

Searching == INSTANCE Induction_proofs WITH
    Step <- LAMBDA a, b, v, k : IF v.rc = "ok" THEN SearchSector(v, a + k - 1) ELSE {v}, Good <- Sound

\* A turn of the search for a free cluster.
LEMMA SoundSearchSector ==
    ASSUME NEW r, NEW w, Sound(r, w), NEW s
    PROVE  \A v \in SearchSector(w, s) : Sound(r, v)
<1> SUFFICES ASSUME NEW v \in SearchSector(w, s) PROVE Sound(r, v)
  OBVIOUS
<1>1. v = w \/ v \in Load(w, s) \/ \E u \in Load(w, s) : \E x : v = [u EXCEPT !.val = x]
  BY DEF SearchSector, Then
<1>2. \A u \in Load(w, s) : Sound(r, u)
  BY SoundLoad
<1>3. CASE \E u \in Load(w, s) : \E x : v = [u EXCEPT !.val = x]
  <2>1. PICK u \in Load(w, s) : \E x : v = [u EXCEPT !.val = x]
    BY <1>3
  <2>2. PICK x : v = [u EXCEPT !.val = x]
    BY <2>1
  <2>3. Sound(r, [u EXCEPT !.val = x])
    BY <1>2, SoundElse
  <2> QED BY <2>2, <2>3, Zenon
<1> QED BY <1>1, <1>2, <1>3

\* fatfs_find_blank_cluster
LEMMA SoundFindBlank ==
    ASSUME NEW r, NEW w, Sound(r, w)
    PROVE  \A v \in FindBlank(w) : Sound(r, v)
<1> DEFINE from == RootCluster(w) \div SectorEntries
           n == FatSectors - from
           begin == [w EXCEPT !.val = END]
           found == IF n \in Nat THEN Searching!Steps(from, 0, {begin})[n] ELSE {begin}
<1>1. Sound(r, begin)
  BY SoundElse
<1> HIDE DEF begin
<1>2. ASSUME n \in Nat PROVE \A v \in Searching!Steps(from, 0, {begin})[n] : Sound(r, v)
  <2> HIDE DEF from, n
  <2>1. \A v : Sound(r, v) => \A k \in 1 .. n :
           \A u \in IF v.rc = "ok" THEN SearchSector(v, from + k - 1) ELSE {v} : Sound(r, u)
    BY SoundSearchSector
  <2> QED BY <1>1, <1>2, <2>1, Searching!StepsKeep
<1>3. Each(n, LAMBDA v, k : SearchSector(v, from + k - 1), {begin}) = found
  BY DEF Each, Turns, Searching!Steps
<1>4. FindBlank(w) = {IF v.rc = "ok" /\ v.val = END THEN [v EXCEPT !.rc = "full", !.full = TRUE]
                      ELSE [v EXCEPT !.overrun = @ \/ v.val >= Clusters[v.type]] : v \in found}
  BY <1>3, Zenon DEF FindBlank, begin
<1> HIDE DEF found
<1> SUFFICES ASSUME NEW v \in FindBlank(w) PROVE Sound(r, v)
  OBVIOUS
<1>5. PICK u \in found : \/ v = [u EXCEPT !.rc = "full", !.full = TRUE]
                         \/ v = [u EXCEPT !.overrun = @ \/ u.val >= Clusters[u.type]]
  BY <1>4, Zenon
<1>6. Sound(r, u)
  BY <1>1, <1>2 DEF found
<1>7. Sound(r, [u EXCEPT !.rc = "full", !.full = TRUE])
  BY <1>6, SoundElse
<1>8. Sound(r, [u EXCEPT !.overrun = @ \/ u.val >= Clusters[u.type]])
  BY <1>6, SoundElse
<1> QED BY <1>5, <1>7, <1>8, Zenon

\* fatfs_set_fs_info_next_free_cluster: the buffer is given up and the device changed.
Informed(w) == [w EXCEPT !.hint = END, !.buf[w.ptr].at = INVALID, !.buf[w.ptr].dirty = FALSE,
                         !.buf[w.ptr].row[1] = END]
Written(w) == [w EXCEPT !.disk.table[FsInfo] = w.buf[w.ptr].row]

\* FSINFO is written past its buffer, which is given up before.
LEMMA SoundInformed ==
    ASSUME NEW r, NEW w, Sound(r, w), ~r.quiet, w.ptr \in 1 .. Buffers, w.buf[w.ptr].at = FsInfo
    PROVE  Sound(r, Informed(w)) /\ Sound(r, Written(Informed(w)))
<1> DEFINE i == w.ptr
           v == Informed(w)
           x == Written(v)
           e == [[[w.buf[i] EXCEPT !.at = INVALID] EXCEPT !.dirty = FALSE] EXCEPT !.row[1] = END]
<1>1. Coherent(w) /\ Shaped(w)
  BY DEF Sound
<1>2. {"disk", "buf", "file", "h", "free", "open", "faults", "rc", "ptr"} \subseteq DOMAIN w
  BY <1>1 DEF Shaped
<1>3. IsList(w.buf) /\ {"at", "dirty", "row"} \subseteq DOMAIN w.buf[i]
  BY <1>1 DEF Coherent
<1>4. DOMAIN w.buf = 1 .. Buffers
  BY <1>3 DEF IsList
<1>5. /\ DOMAIN v = DOMAIN w /\ v.disk = w.disk /\ v.file = w.file /\ v.h = w.h
      /\ v.free = w.free /\ v.open = w.open /\ v.faults = w.faults
      /\ v.buf = [w.buf EXCEPT ![i] = e]
  <2> DEFINE b1 == [w.buf EXCEPT ![i].at = INVALID]
             b2 == [b1 EXCEPT ![i].dirty = FALSE]
             b3 == [b2 EXCEPT ![i].row[1] = END]
  <2>1. /\ DOMAIN v = DOMAIN w /\ v.disk = w.disk /\ v.file = w.file /\ v.h = w.h
        /\ v.free = w.free /\ v.open = w.open /\ v.faults = w.faults
        /\ v.buf = b3
    <3> DEFINE w0 == [w EXCEPT !.hint = END]
               w1 == [w0 EXCEPT !.buf[w.ptr].at = INVALID]
               w2 == [w1 EXCEPT !.buf[w.ptr].dirty = FALSE]
               w3 == [w2 EXCEPT !.buf[w.ptr].row[1] = END]
    <3>1. v = w3
      BY Zenon DEF Informed
    <3>2. /\ DOMAIN w0 = DOMAIN w /\ w0.disk = w.disk /\ w0.file = w.file /\ w0.h = w.h
          /\ w0.free = w.free /\ w0.open = w.open /\ w0.faults = w.faults
          /\ w0.buf = w.buf
      BY <1>2
    <3> HIDE DEF w0
    <3>3. /\ DOMAIN w1 = DOMAIN w /\ w1.disk = w.disk /\ w1.file = w.file /\ w1.h = w.h
          /\ w1.free = w.free /\ w1.open = w.open /\ w1.faults = w.faults
          /\ w1.buf = b1
      BY <1>2, <3>2
    <3> HIDE DEF w1, b1
    <3>4. /\ DOMAIN w2 = DOMAIN w /\ w2.disk = w.disk /\ w2.file = w.file /\ w2.h = w.h
          /\ w2.free = w.free /\ w2.open = w.open /\ w2.faults = w.faults
          /\ w2.buf = b2
      BY <1>2, <3>3
    <3> HIDE DEF w2, b2
    <3>5. /\ DOMAIN w3 = DOMAIN w /\ w3.disk = w.disk /\ w3.file = w.file /\ w3.h = w.h
          /\ w3.free = w.free /\ w3.open = w.open /\ w3.faults = w.faults
          /\ w3.buf = b3
      BY <1>2, <3>4
    <3> HIDE DEF w3, b3, v
    <3> QED BY <3>1, <3>5
  <2>2. b1 = [w.buf EXCEPT ![i] = [w.buf[i] EXCEPT !.at = INVALID]]
    OBVIOUS
  <2>3. b2 = [w.buf EXCEPT ![i] = [[w.buf[i] EXCEPT !.at = INVALID] EXCEPT !.dirty = FALSE]]
    BY <1>4
  <2>4. b3 = [w.buf EXCEPT ![i] = e]
    <3> DEFINE d == [[w.buf[i] EXCEPT !.at = INVALID] EXCEPT !.dirty = FALSE]
    <3> HIDE DEF b2, d
    <3>1. b2 = [w.buf EXCEPT ![i] = d]
      BY <2>3 DEF d
    <3>2. b3 = [w.buf EXCEPT ![i] = [d EXCEPT !.row[1] = END]]
      BY <1>4, <3>1
    <3> QED BY <3>2 DEF d
  <2> HIDE DEF b3, v, e
  <2> QED BY <2>1, <2>4
<1>6. {"at", "dirty", "row"} \subseteq DOMAIN e /\ e.at = INVALID
  BY <1>3
<1> HIDE DEF v, e, i
<1>7. IsList(v.buf) /\ \A k \in 1 .. Buffers : v.buf[k] = IF k = i THEN e ELSE w.buf[k]
  BY <1>3, <1>5, Replaced DEF i
<1>8. Coherent(v)
  BY <1>1, <1>5, <1>6, <1>7 DEF Coherent
<1>9. Sound(r, v)
  BY <1>5, <1>8, SoundBesides
<1>10. \A k \in 1 .. Buffers : v.buf[k].at # FsInfo
  <2>1. \A k \in 1 .. Buffers : k # i => w.buf[k].at # FsInfo
    <3>1. FsInfo # INVALID
      BY FatTableAssumption DEF FsInfo, FatSectors, INVALID
    <3> QED BY <1>1, <3>1 DEF Coherent, i
  <2>2. FsInfo # INVALID
    BY FatTableAssumption DEF FsInfo, FatSectors, INVALID
  <2> QED BY <1>6, <1>7, <2>1, <2>2
<1>11. /\ DOMAIN x = DOMAIN v /\ x.buf = v.buf /\ x.file = v.file /\ x.h = v.h
       /\ x.free = v.free /\ x.open = v.open /\ x.faults = v.faults
       /\ x.disk = [v.disk EXCEPT !.table[FsInfo] = v.buf[v.ptr].row]
  BY <1>2, <1>5 DEF Written
<1> HIDE DEF x
<1>12. /\ "table" \in DOMAIN x.disk /\ DOMAIN x.disk.table = 0 .. FsInfo
       /\ \A s \in 0 .. FsInfo : s # FsInfo => x.disk.table[s] = v.disk.table[s]
  <2>1. "table" \in DOMAIN v.disk /\ DOMAIN v.disk.table = 0 .. FsInfo
    BY <1>8 DEF Coherent
  <2>2. "table" \in DOMAIN x.disk /\ x.disk.table = [v.disk.table EXCEPT ![FsInfo] = v.buf[v.ptr].row]
    BY <1>11, <2>1
  <2> QED BY <2>1, <2>2
<1>13. Coherent(x)
  BY <1>8, <1>10, <1>11, <1>12 DEF Coherent
<1>14. Sound(r, x)
  BY <1>9, <1>11, <1>13, SoundBesides
<1> QED BY <1>9, <1>14 DEF v, x

\* fatfs_set_fs_info_next_free_cluster
LEMMA SoundForgetHint ==
    ASSUME NEW r, NEW w, Sound(r, w), ~r.quiet
    PROVE  \A v \in ForgetHint(w) : Sound(r, v)
<1> SUFFICES ASSUME NEW v \in ForgetHint(w) PROVE Sound(r, v)
  OBVIOUS
<1>1. CASE w.hint = END \/ w.type = 16
  BY <1>1 DEF ForgetHint
<1>2. CASE ~(w.hint = END \/ w.type = 16)
  <2> DEFINE Rest(u) == IF u.rc # "ok" THEN Result({u}, "ok")
                        ELSE Result(Io(Written(Informed(u)), Informed(u)), "ok")
  <2>0. ForgetHint(w) = UNION {Rest(u) : u \in Load(w, FsInfo)}
    BY <1>2, Zenon DEF ForgetHint, Written, Informed
  <2>1. PICK u \in Load(w, FsInfo) : v \in Rest(u)
    <3> HIDE DEF Rest
    <3> QED BY <2>0
  <2>2. Sound(r, u) /\ (u.rc = "ok" => u.ptr \in 1 .. Buffers /\ u.buf[u.ptr].at = FsInfo)
    BY SoundLoad
  <2>3. CASE u.rc # "ok"
    BY <2>1, <2>2, <2>3, SoundResult
  <2>4. CASE u.rc = "ok"
    <3>1. \A t \in Io(Written(Informed(u)), Informed(u)) : Sound(r, t)
      BY <2>2, <2>4, SoundInformed, SoundIo
    <3> QED BY <2>1, <2>4, <3>1, SoundResult
  <2> QED BY <2>3, <2>4
<1> QED BY <1>1, <1>2

Freeing == INSTANCE Induction_proofs WITH Step <- LAMBDA a, b, v, k : FreeLink(v), Good <- Sound

\* fatfs_free_cluster_chain
LEMMA SoundFreeChain ==
    ASSUME NEW r, NEW w, Sound(r, w), ~r.quiet, NEW c
    PROVE  \A v \in FreeChain(w, c) : Sound(r, v)
<1> DEFINE begin == [w EXCEPT !.val = c]
<1>1. Sound(r, begin)
  BY SoundElse
<1> HIDE DEF begin
<1>2. ASSUME NEW v, Sound(r, v) PROVE \A u \in FreeLink(v) : Sound(r, u)
  <2> SUFFICES ASSUME NEW u \in FreeLink(v) PROVE Sound(r, u)
    OBVIOUS
  <2>1. u = v \/ \E t \in NextCluster(v, v.val) : u \in SetCluster(t, v.val, FREE)
    BY DEF FreeLink
  <2>2. \A t \in NextCluster(v, v.val) : Sound(r, t)
    BY <1>2, SoundNextCluster
  <2> QED BY <1>2, <2>1, <2>2, SoundSetCluster
<1>3. Entries \in Nat
  BY FatTableAssumption
<1>4. \A v \in Freeing!Steps(0, 0, {begin})[Entries] : Sound(r, v)
  BY <1>1, <1>2, <1>3, Freeing!StepsKeep
<1>5. FreeChain(w, c) = Freeing!Steps(0, 0, {begin})[Entries]
  BY <1>3 DEF FreeChain, Times, Turns, Freeing!Steps, begin
<1> QED BY <1>4, <1>5

Following == INSTANCE Induction_proofs WITH Step <- LAMBDA a, b, v, k : Follow(v), Good <- Sound

\* A turn of the walk to the end of a chain.
LEMMA SoundFollow ==
    ASSUME NEW r, NEW w, Sound(r, w)
    PROVE  \A v \in Follow(w) : Sound(r, v)
<1> SUFFICES ASSUME NEW v \in Follow(w) PROVE Sound(r, v)
  OBVIOUS
<1>1. v = w \/ \E u \in NextCluster(w, w.val) : \E p, rc : v = [u EXCEPT !.prev = p, !.rc = rc]
  BY DEF Follow
<1>2. CASE \E u \in NextCluster(w, w.val) : \E p, rc : v = [u EXCEPT !.prev = p, !.rc = rc]
  <2>1. PICK u \in NextCluster(w, w.val) : \E p, rc : v = [u EXCEPT !.prev = p, !.rc = rc]
    BY <1>2
  <2>2. PICK p, rc : v = [u EXCEPT !.prev = p, !.rc = rc]
    BY <2>1
  <2>3. Sound(r, u)
    BY SoundNextCluster
  <2>4. Sound(r, [u EXCEPT !.prev = p, !.rc = rc])
    BY <2>3, SoundElse
  <2> QED BY <2>2, <2>4, Zenon
<1> QED BY <1>1, <1>2

\* fatfs_fat_add_cluster_to_chain
LEMMA SoundAddToChain ==
    ASSUME NEW r, NEW w, Sound(r, w), ~r.quiet, NEW c, NEW new
    PROVE  \A v \in AddToChain(w, c, new) : Sound(r, v)
<1> DEFINE begin == [w EXCEPT !.val = c]
           walks == Times(Entries, Follow, {begin})
           Rest(v) == UNION {SetCluster(u, new, END) : u \in SetCluster(v, v.prev, new)}
<1>1. Sound(r, begin)
  BY SoundElse
<1>2. \A v : Sound(r, v) => \A k \in 1 .. Entries : \A u \in Follow(v) : Sound(r, u)
  BY SoundFollow
<1>3. Entries \in Nat
  BY FatTableAssumption
<1>4. \A v \in Following!Steps(0, 0, {begin})[Entries] : Sound(r, v)
  <2> HIDE DEF begin
  <2> QED BY <1>1, <1>2, <1>3, Following!StepsKeep
<1>5. walks = Following!Steps(0, 0, {begin})[Entries]
  <2> HIDE DEF begin
  <2> QED BY <1>3 DEF Times, Turns, Following!Steps
<1>6. AddToChain(w, c, new) = Then(walks, Rest)
  BY Zenon DEF AddToChain
<1> HIDE DEF walks
<1> SUFFICES ASSUME NEW v \in AddToChain(w, c, new) PROVE Sound(r, v)
  OBVIOUS
<1>7. PICK x \in walks : v = x \/ v \in Rest(x)
  BY <1>6 DEF Then
<1>8. Sound(r, x)
  BY <1>4, <1>5
<1>9. CASE v \in Rest(x)
  <2>1. PICK u \in SetCluster(x, x.prev, new) : v \in SetCluster(u, new, END)
    BY <1>9
  <2> QED BY <1>8, <2>1, SoundSetCluster
<1> QED BY <1>7, <1>8, <1>9

Adding == INSTANCE Induction_proofs WITH Step <- LAMBDA a, b, v, k : AddOne(v), Good <- Sound

\* A turn of fatfs_add_free_space: one more cluster.
LEMMA SoundAddOne ==
    ASSUME NEW r, NEW w, Sound(r, w), ~r.quiet
    PROVE  \A v \in AddOne(w) : Sound(r, v)
<1> DEFINE Both(v) == UNION {SetCluster(t, v.val, END) : t \in SetCluster(v, w.prev, v.val)}
           Rest(v) == {[u EXCEPT !.prev = v.val, !.first = IF @ = END THEN v.val ELSE @] : u \in Both(v)}
<1> SUFFICES ASSUME NEW v \in AddOne(w) PROVE Sound(r, v)
  OBVIOUS
<1>1. AddOne(w) = IF w.rc # "ok" THEN {w} ELSE Then(FindBlank(w), Rest)
  BY Zenon DEF AddOne
<1>2. v = w \/ \E x \in FindBlank(w) : v = x \/ v \in Rest(x)
  <2> HIDE DEF Rest
  <2> QED BY <1>1 DEF Then
<1>3. ASSUME NEW x \in FindBlank(w), v = x \/ v \in Rest(x) PROVE Sound(r, v)
  <2>1. Sound(r, x)
    BY SoundFindBlank
  <2>2. CASE v \in Rest(x)
    <3>1. PICK u \in Both(x) : v = [u EXCEPT !.prev = x.val, !.first = IF @ = END THEN x.val ELSE @]
      BY <2>2
    <3>2. PICK t \in SetCluster(x, w.prev, x.val) : u \in SetCluster(t, x.val, END)
      BY <3>1
    <3>3. Sound(r, u)
      BY <2>1, <3>2, SoundSetCluster
    <3>4. Sound(r, [u EXCEPT !.prev = x.val, !.first = IF @ = END THEN x.val ELSE @])
      BY <3>3, SoundElse
    <3> QED BY <3>1, <3>4, Zenon
  <2> QED BY <1>3, <2>1, <2>2
<1> QED BY <1>2, <1>3

\* fatfs_add_free_space
LEMMA SoundAddFreeSpace ==
    ASSUME NEW r, NEW w, Sound(r, w), ~r.quiet, NEW start, NEW n
    PROVE  \A v \in AddFreeSpace(w, start, n) : Sound(r, v)
<1> SUFFICES ASSUME NEW x \in ForgetHint(w),
                    NEW v \in Times(n, AddOne, {[x EXCEPT !.prev = start, !.first = END]})
             PROVE  Sound(r, v)
  BY DEF AddFreeSpace
<1> DEFINE begin == [x EXCEPT !.prev = start, !.first = END]
<1>1. Sound(r, begin)
  <2>1. Sound(r, x)
    BY SoundForgetHint
  <2> QED BY <2>1, SoundElse
<1> HIDE DEF begin
<1>2. ASSUME n \in Nat PROVE \A u \in Adding!Steps(0, 0, {begin})[n] : Sound(r, u)
  <2>1. \A t : Sound(r, t) => \A k \in 1 .. n : \A u \in AddOne(t) : Sound(r, u)
    BY SoundAddOne
  <2> QED BY <1>1, <1>2, <2>1, Adding!StepsKeep
<1>3. Times(n, AddOne, {begin}) = IF n \in Nat THEN Adding!Steps(0, 0, {begin})[n] ELSE {begin}
  BY DEF Times, Turns, Adding!Steps
<1>4. v \in Times(n, AddOne, {begin})
  BY DEF begin
<1> QED BY <1>1, <1>2, <1>3, <1>4

\* fatfs_allocate_free_space
LEMMA SoundAllocateFirst ==
    ASSUME NEW r, NEW w, Sound(r, w), ~r.quiet
    PROVE  \A v \in AllocateFirst(w) : Sound(r, v)
<1> SUFFICES ASSUME NEW x \in ForgetHint(w), NEW u \in FindBlank(x), NEW v,
                    v = u \/ \E t \in SetCluster(u, u.val, END) : v = [t EXCEPT !.first = u.val]
             PROVE  Sound(r, v)
  BY DEF AllocateFirst, Then
<1>1. Sound(r, u)
  BY SoundForgetHint, SoundFindBlank
<1>2. CASE \E t \in SetCluster(u, u.val, END) : v = [t EXCEPT !.first = u.val]
  <2>1. PICK t \in SetCluster(u, u.val, END) : v = [t EXCEPT !.first = u.val]
    BY <1>2
  <2>2. Sound(r, [t EXCEPT !.first = u.val])
    BY <1>1, SoundSetCluster, SoundElse
  <2> QED BY <2>1, <2>2, Zenon
<1> QED BY <1>1, <1>2
-----------------------------------------------------------------------------
\* What changes a directory or the data of a file leaves the table alone.
LEMMA SoundPlace ==
    ASSUME NEW r, NEW w, Sound(r, w), NEW f, f # "table", NEW c, NEW x
    PROVE  Sound(r, [w EXCEPT !.disk[f][c] = x])
<1> DEFINE v == [w EXCEPT !.disk[f][c] = x]
<1>1. {"disk", "buf", "file", "h", "free", "open", "faults", "rc", "ptr"} \subseteq DOMAIN w
  BY DEF Sound, Shaped
<1>2. "table" \in DOMAIN w.disk
  BY DEF Sound, Coherent
<1>3. /\ DOMAIN v = DOMAIN w /\ v.buf = w.buf /\ v.h = w.h /\ v.file = w.file
      /\ v.free = w.free /\ v.open = w.open /\ v.faults = w.faults
      /\ v.disk = [w.disk EXCEPT ![f][c] = x]
  BY <1>1
<1> HIDE DEF v
<1>4. /\ "table" \in DOMAIN v.disk /\ v.disk.table = w.disk.table
      /\ v.faults \in Nat /\ v.faults <= w.faults
  BY <1>2, <1>3 DEF Sound, Spent
<1>5. Sound(r, v)
  BY <1>3, <1>4, SoundStays
<1> QED BY <1>5 DEF v

\* A handle is changed, but not to have data to be written.
LEMMA SoundHandle ==
    ASSUME NEW r, NEW w, Sound(r, w), NEW h, NEW x,
           h \in DOMAIN w.file => {"dirty", "path"} \subseteq DOMAIN x,
           r.quiet => h = Head(w.h) /\ (h \in DOMAIN w.file /\ x.dirty => w.file[h].dirty),
           r.keeps => (h \in DOMAIN w.file => x.path = w.file[h].path)
    PROVE  Sound(r, [w EXCEPT !.file[h] = x])
<1> DEFINE v == [w EXCEPT !.file[h] = x]
<1>1. Shaped(w) /\ Coherent(w)
  BY DEF Sound
<1>2. {"disk", "buf", "file", "h", "free", "open", "faults", "rc", "ptr"} \subseteq DOMAIN w
  BY <1>1 DEF Shaped
<1>3. /\ DOMAIN v = DOMAIN w /\ v.buf = w.buf /\ v.h = w.h /\ v.disk = w.disk
      /\ v.free = w.free /\ v.open = w.open /\ v.faults = w.faults
      /\ v.file = [w.file EXCEPT ![h] = x]
  BY <1>2
<1> HIDE DEF v
<1>4. /\ v.file = [g \in DOMAIN w.file |-> IF g = h THEN x ELSE w.file[g]]
      /\ DOMAIN v.file = DOMAIN w.file
  BY <1>3
<1>5. \A g \in DOMAIN w.file : v.file[g] = IF g = h THEN x ELSE w.file[g]
  BY <1>4
<1>6. v.file = [g \in DOMAIN v.file |-> v.file[g]]
  BY <1>4
<1>7. \A g \in DOMAIN v.file : {"dirty", "path"} \subseteq DOMAIN v.file[g]
  BY <1>1, <1>4, <1>5 DEF Shaped
<1>8. Shaped(v)
  BY <1>2, <1>3, <1>6, <1>7 DEF Shaped
<1>9. Coherent(v)
  BY <1>1, <1>3 DEF Coherent
<1>10. ASSUME r.quiet, v.file[Head(r.h)].dirty PROVE w.file[Head(r.h)].dirty
  <2>0. h = Head(r.h)
    BY <1>10 DEF Sound, Kept
  <2>1. CASE h \in DOMAIN w.file
    BY <1>5, <1>10, <2>0, <2>1
  <2>2. CASE h \notin DOMAIN w.file
    <3>1. v.file = w.file
      BY <1>1, <1>4, <2>2 DEF Shaped
    <3> QED BY <1>10, <2>0, <3>1
  <2> QED BY <2>1, <2>2
<1>11. \A s, row : Finds(w, s, row) => Finds(v, s, row)
  BY <1>3 DEF Finds
<1>12. r.quiet => Kept(r, v)
  BY <1>3, <1>10, <1>11 DEF Sound, Kept
<1>13. Spent(r, v)
  BY <1>3 DEF Sound, Spent
<1>14. r.keeps => Listed(r, v)
  BY <1>3, <1>4, <1>5 DEF Sound, Listed
<1>15. Sound(r, v)
  BY <1>8, <1>9, <1>12, <1>13, <1>14 DEF Sound
<1> QED BY <1>15 DEF v

\* A field of a handle is set; its mark of data to be written is taken away, or set by a
\* call that is not quiet.
LEMMA SoundField ==
    ASSUME NEW r, NEW w, Sound(r, w), NEW h, NEW f, NEW x,
           r.quiet => h = Head(w.h) /\ (f = "dirty" => x = FALSE),
           r.keeps => f # "path"
    PROVE  Sound(r, [w EXCEPT !.file[h][f] = x])
<1> DEFINE e == [w.file[h] EXCEPT ![f] = x]
<1>1. Shaped(w)
  BY DEF Sound
<1>2. [w EXCEPT !.file[h][f] = x] = [w EXCEPT !.file[h] = e]
  OBVIOUS
<1>3. /\ h \in DOMAIN w.file => {"dirty", "path"} \subseteq DOMAIN e
      /\ r.keeps => (h \in DOMAIN w.file => e.path = w.file[h].path)
  BY <1>1 DEF Shaped
<1>4. r.quiet /\ h \in DOMAIN w.file /\ e.dirty => w.file[h].dirty
  BY <1>1 DEF Shaped
<1>5. Sound(r, [w EXCEPT !.file[h] = e])
  <2> HIDE DEF e
  <2> QED BY <1>3, <1>4, SoundHandle
<1> QED BY <1>2, <1>5

\* The current sector of directories is not part of what is sound.
LEMMA SoundCur ==
    ASSUME NEW r, NEW w, Sound(r, w), NEW f, NEW x
    PROVE  Sound(r, [w EXCEPT !.cur[f] = x])
<1>1. [w EXCEPT !.cur[f] = x] = [w EXCEPT !.cur = [w.cur EXCEPT ![f] = x]]
  OBVIOUS
<1>2. Sound(r, [w EXCEPT !.cur = [w.cur EXCEPT ![f] = x]])
  BY SoundElse
<1> QED BY <1>1, <1>2

\* Reading a sector of a directory, or of the root, into the current sector.
LEMMA SoundReadCur ==
    ASSUME NEW r, NEW w, Sound(r, w), NEW c, NEW k
    PROVE  \A v \in ReadCur(w, c, k) : Sound(r, v)
<1> DEFINE v == [w EXCEPT !.cur.c = c, !.cur.k = k]
           x == SubSeq(w.disk.dir[c], k * Slots + 1, (k + 1) * Slots)
<1>1. Sound(r, v)
  BY SoundCur
<1>2. ReadCur(w, c, k) = IF v.cur = w.cur THEN {w} ELSE Io([v EXCEPT !.cur.row = x], v)
  BY Zenon DEF ReadCur
<1> HIDE DEF v, x
<1>3. Sound(r, [v EXCEPT !.cur.row = x])
  BY <1>1, SoundCur
<1>4. \A u \in Io([v EXCEPT !.cur.row = x], v) : Sound(r, u)
  BY <1>1, <1>3, SoundIo
<1> QED BY <1>2, <1>4

\* Writing the current sector to a directory.
LEMMA SoundWriteCur ==
    ASSUME NEW r, NEW w, Sound(r, w)
    PROVE  \A v \in WriteCur(w) : Sound(r, v)
<1> DEFINE x == [j \in DOMAIN w.disk.dir[w.cur.c] |->
                    IF j - w.cur.k * Slots \in 1 .. Slots THEN w.cur.row[j - w.cur.k * Slots]
                    ELSE w.disk.dir[w.cur.c][j]]
<1>1. WriteCur(w) = Io([w EXCEPT !.disk.dir[w.cur.c] = x], w)
  BY Zenon DEF WriteCur
<1> HIDE DEF x
<1>2. Sound(r, [w EXCEPT !.disk.dir[w.cur.c] = x])
  BY SoundPlace
<1> QED BY <1>1, <1>2, SoundIo

\* That a chain has led to cluster 0 is noted, and no more.
LEMMA SoundStrays ==
    ASSUME NEW r, NEW w, Sound(r, w)
    PROVE  Sound(r, Strays(w))
  BY SoundElse DEF Strays

Stepping == INSTANCE Induction_proofs WITH Step <- LAMBDA a, b, v, k : NextCluster(v, v.val), Good <- Sound

\* The walk from one cluster of a chain to a later one.
LEMMA SoundStepping ==
    ASSUME NEW r, NEW w, Sound(r, w), NEW n
    PROVE  \A v \in Times(n, LAMBDA u : NextCluster(u, u.val), {w}) : Sound(r, v)
<1>1. \A v : Sound(r, v) => \A k \in 1 .. n : \A u \in NextCluster(v, v.val) : Sound(r, u)
  BY SoundNextCluster
<1>2. n \in Nat => \A v \in Stepping!Steps(0, 0, {w})[n] : Sound(r, v)
  BY <1>1, Stepping!StepsKeep
<1>3. Times(n, LAMBDA u : NextCluster(u, u.val), {w}) =
         IF n \in Nat THEN Stepping!Steps(0, 0, {w})[n] ELSE {w}
  BY DEF Times, Turns, Stepping!Steps
<1> QED BY <1>2, <1>3

\* fatfs_sector_reader
LEMMA SoundSectorReader ==
    ASSUME NEW r, NEW w, Sound(r, w), NEW start, NEW off
    PROVE  \A v \in SectorReader(w, start, off) : Sound(r, v)
<1> SUFFICES ASSUME NEW v \in SectorReader(w, start, off) PROVE Sound(r, v)
  OBVIOUS
<1>1. CASE w.type = 16 /\ start = 0
  <2>1. v \in ReadCur(w, 0, off) \/ v \in Result({w}, "none")
    BY <1>1 DEF SectorReader
  <2> QED BY <2>1, SoundReadCur, SoundResult
<1>2. CASE ~(w.type = 16 /\ start = 0)
  <2> DEFINE begin == [w EXCEPT !.val = start]
             walks == Times(off \div ClusterSectors, LAMBDA u : NextCluster(u, u.val), {begin})
  <2>1. PICK u \in walks :
           v \in IF u.val = END THEN Result({u}, "none")
                 ELSE ReadCur(Strays(u), u.val, off % ClusterSectors)
    BY <1>2 DEF SectorReader
  <2>2. Sound(r, begin)
    BY SoundElse
  <2> HIDE DEF begin
  <2>3. Sound(r, u)
    BY <2>1, <2>2, SoundStepping
  <2>4. Sound(r, Strays(u))
    BY <2>3, SoundStrays
  <2> QED BY <2>1, <2>3, <2>4, SoundReadCur, SoundResult
<1> QED BY <1>1, <1>2

\* A turn of a scan.
LEMMA SoundLook ==
    ASSUME NEW r, NEW w, Sound(r, w), NEW start, NEW want
    PROVE  \A v \in Look(w, start, want) : Sound(r, v)
<1> SUFFICES ASSUME NEW v \in Look(w, start, want) PROVE Sound(r, v)
  OBVIOUS
<1> DEFINE s(u) == u.read \o u.cur.row
           hit(u) == IF Hits(s(u), want) = {} THEN 0 ELSE Min(Hits(s(u), want))
           Rest(u) == {[u EXCEPT !.x = @ + 1, !.read = s(u), !.hit = hit(u)]}
<1>1. Look(w, start, want) =
         IF w.rc # "ok" \/ w.hit # 0 THEN {w} ELSE Then(SectorReader(w, start, w.x), Rest)
  BY Zenon DEF Look
<1>2. \A u : Sound(r, u) => \A t \in Rest(u) : Sound(r, t)
  <2> HIDE DEF s, hit
  <2> SUFFICES ASSUME NEW u, Sound(r, u)
               PROVE  Sound(r, [u EXCEPT !.x = @ + 1, !.read = s(u), !.hit = hit(u)])
    OBVIOUS
  <2> QED BY SoundElse
<1> HIDE DEF Rest
<1> QED BY <1>1, <1>2, SoundSectorReader DEF Then

Looking == INSTANCE Induction_proofs WITH Step <- LAMBDA a, b, v, k : Look(v, a, b), Good <- Sound

\* A scan of a directory, up to a hit or through all of it.
LEMMA SoundScan ==
    ASSUME NEW r, NEW w, Sound(r, w), NEW start, NEW want
    PROVE  \A v \in Scan(w, start, want) : Sound(r, v)
<1> DEFINE n == MaxSectors
           begin == [w EXCEPT !.x = 0, !.read = <<>>, !.hit = 0]
           looks == Times(n, LAMBDA u : Look(u, start, want), {begin})
<1>1. Sound(r, begin)
  BY SoundElse
<1>2. Scan(w, start, want) = {[v EXCEPT !.rc = IF v.hit = 0 THEN "none" ELSE "ok"] : v \in looks}
  BY Zenon DEF Scan
<1> HIDE DEF begin, n
<1>3. n \in Nat => \A v \in Looking!Steps(start, want, {begin})[n] : Sound(r, v)
  <2>1. \A v : Sound(r, v) => \A k \in 1 .. n : \A u \in Look(v, start, want) : Sound(r, u)
    BY SoundLook
  <2> QED BY <1>1, <2>1, Looking!StepsKeep
<1>4. looks = IF n \in Nat THEN Looking!Steps(start, want, {begin})[n] ELSE {begin}
  BY DEF Times, Turns, Looking!Steps
<1> HIDE DEF looks
<1>5. \A v \in looks : Sound(r, v)
  BY <1>1, <1>3, <1>4
<1> SUFFICES ASSUME NEW v \in looks
             PROVE  Sound(r, [v EXCEPT !.rc = IF v.hit = 0 THEN "none" ELSE "ok"])
  BY <1>2
<1>6. Sound(r, v)
  BY <1>5
<1> QED BY <1>6, SoundElse

\* fatfs_get_file_entry
LEMMA SoundGetFileEntry ==
    ASSUME NEW r, NEW w, Sound(r, w), NEW c, NEW name
    PROVE  \A v \in GetFileEntry(w, c, name) : Sound(r, v)
<1> SUFFICES ASSUME NEW v \in GetFileEntry(w, c, name) PROVE Sound(r, v)
  OBVIOUS
<1>1. PICK u \in Scan(w, c, [by |-> "name", it |-> name]) :
         v = u \/ v = [u EXCEPT !.got = u.read[u.hit]]
  BY DEF GetFileEntry, Then
<1>2. Sound(r, u)
  BY SoundScan
<1>3. Sound(r, [u EXCEPT !.got = u.read[u.hit]])
  BY <1>2, SoundElse
<1> QED BY <1>1, <1>2, <1>3, Zenon

\* fatfs_sfn_exists
LEMMA SoundSfnExists ==
    ASSUME NEW r, NEW w, Sound(r, w), NEW c, NEW short
    PROVE  \A v \in SfnExists(w, c, short) : Sound(r, v)
  BY SoundScan DEF SfnExists

\* One row of the current sector is changed and written.
LEMMA SoundWriteRow ==
    ASSUME NEW r, NEW w, Sound(r, w), NEW j, NEW x
    PROVE  \A v \in WriteCur([w EXCEPT !.cur.row[j] = x]) : Sound(r, v)
<1>1. [w EXCEPT !.cur.row[j] = x] = [w EXCEPT !.cur.row = [w.cur.row EXCEPT ![j] = x]]
  OBVIOUS
<1>2. Sound(r, [w EXCEPT !.cur.row = [w.cur.row EXCEPT ![j] = x]])
  BY SoundCur
<1> QED BY <1>1, <1>2, SoundWriteCur

\* fatfs_update_file_length
LEMMA SoundUpdateFileLength ==
    ASSUME NEW r, NEW w, Sound(r, w), NEW c, NEW short, NEW len
    PROVE  \A v \in UpdateFileLength(w, c, short, len) : Sound(r, v)
<1> DEFINE j(u) == 1 + ((u.hit - 1) % Slots)
           x(u) == [u.cur.row[j(u)] EXCEPT !.size = len]
           Rest(u) == WriteCur([u EXCEPT !.cur.row[j(u)] = x(u)])
<1>1. UpdateFileLength(w, c, short, len) = Then(Scan(w, c, [by |-> "short", it |-> short]), Rest)
  BY Zenon DEF UpdateFileLength, ChangeEntry
<1>2. \A u : Sound(r, u) => \A v \in Rest(u) : Sound(r, v)
  BY SoundWriteRow
<1> HIDE DEF Rest
<1> QED BY <1>1, <1>2, SoundScan DEF Then

\* fatfs_mark_file_deleted
LEMMA SoundMarkFileDeleted ==
    ASSUME NEW r, NEW w, Sound(r, w), NEW c, NEW short
    PROVE  \A v \in MarkFileDeleted(w, c, short) : Sound(r, v)
<1> DEFINE j(u) == 1 + ((u.hit - 1) % Slots)
           x(u) == [u.cur.row[j(u)] EXCEPT !.k = "deleted"]
           Rest(u) == WriteCur([u EXCEPT !.cur.row[j(u)] = x(u)])
<1>1. MarkFileDeleted(w, c, short) = Then(Scan(w, c, [by |-> "short", it |-> short]), Rest)
  BY Zenon DEF MarkFileDeleted, ChangeEntry
<1>2. \A u : Sound(r, u) => \A v \in Rest(u) : Sound(r, v)
  BY SoundWriteRow
<1> HIDE DEF Rest
<1> QED BY <1>1, <1>2, SoundScan DEF Then

\* A step of the way from the root to a directory.
Enter(w, path, k) ==
    Then(GetFileEntry(w, w.dir, path[k]), LAMBDA u :
         IF u.got.k = "dir" THEN {[u EXCEPT !.dir = u.got.first]} ELSE Result({u}, "none"))

Entering == INSTANCE Induction_proofs WITH
    Step <- LAMBDA a, b, v, k : IF v.rc = "ok" THEN Enter(v, a, k) ELSE {v}, Good <- Sound

\* A directory of the path is found, or there is none.
LEMMA SoundEnter ==
    ASSUME NEW r, NEW w, Sound(r, w), NEW path, NEW k
    PROVE  \A v \in Enter(w, path, k) : Sound(r, v)
<1> SUFFICES ASSUME NEW v \in Enter(w, path, k) PROVE Sound(r, v)
  OBVIOUS
<1>1. PICK u \in GetFileEntry(w, w.dir, path[k]) :
         v = u \/ v = [u EXCEPT !.dir = u.got.first] \/ v \in Result({u}, "none")
  BY DEF Enter, Then
<1>2. Sound(r, u)
  BY SoundGetFileEntry
<1>3. Sound(r, [u EXCEPT !.dir = u.got.first])
  BY <1>2, SoundElse
<1>4. \A t \in Result({u}, "none") : Sound(r, t)
  BY <1>2, SoundResult
<1> QED BY <1>1, <1>2, <1>3, <1>4, Zenon

\* _open_directory
LEMMA SoundOpenDirectory ==
    ASSUME NEW r, NEW w, Sound(r, w), NEW path
    PROVE  \A v \in OpenDirectory(w, path) : Sound(r, v)
<1> DEFINE n == Len(path)
           begin == [w EXCEPT !.dir = RootCluster(w)]
<1>1. Sound(r, begin)
  BY SoundElse
<1>2. OpenDirectory(w, path) = Each(n, LAMBDA v, k : Enter(v, path, k), {begin})
  BY Zenon DEF OpenDirectory, Enter
<1> HIDE DEF begin, n
<1>3. n \in Nat => \A v \in Entering!Steps(path, 0, {begin})[n] : Sound(r, v)
  <2>1. \A v : Sound(r, v) => \A k \in 1 .. n :
           \A u \in IF v.rc = "ok" THEN Enter(v, path, k) ELSE {v} : Sound(r, u)
    BY SoundEnter
  <2> QED BY <1>1, <2>1, Entering!StepsKeep
<1>4. Each(n, LAMBDA v, k : Enter(v, path, k), {begin}) =
         IF n \in Nat THEN Entering!Steps(path, 0, {begin})[n] ELSE {begin}
  BY DEF Each, Turns, Entering!Steps
<1> QED BY <1>1, <1>2, <1>3, <1>4
-----------------------------------------------------------------------------
\* A call that does not keep the lists of handles changes one of them, or goes on with
\* another handle.
LEMMA SoundList ==
    ASSUME NEW r, NEW w, Sound(r, w), ~r.keeps, NEW x,
           NEW f, f \in {"h", "free", "open"}, f = "h" => ~r.quiet
    PROVE  Sound(r, [w EXCEPT ![f] = x])
<1> DEFINE v == [w EXCEPT ![f] = x]
<1>1. Shaped(w) /\ Coherent(w) /\ Spent(r, w)
  BY DEF Sound
<1>2. {"disk", "buf", "file", "h", "free", "open", "faults", "rc", "ptr"} \subseteq DOMAIN w
  BY <1>1 DEF Shaped
<1>3. /\ DOMAIN v = DOMAIN w /\ v.buf = w.buf /\ v.file = w.file /\ v.disk = w.disk
      /\ v.faults = w.faults /\ (f # "h" => v.h = w.h)
  BY <1>2
<1> HIDE DEF v
<1>4. Shaped(v)
  BY <1>1, <1>3 DEF Shaped
<1>5. Coherent(v)
  BY <1>1, <1>3 DEF Coherent
<1>6. Spent(r, v)
  BY <1>1, <1>3 DEF Spent
<1>7. \A s, row : Finds(w, s, row) => Finds(v, s, row)
  BY <1>3 DEF Finds
<1>8. r.quiet => Kept(r, v)
  BY <1>3, <1>7 DEF Sound, Kept
<1>9. Sound(r, v)
  BY <1>4, <1>5, <1>6, <1>8 DEF Sound
<1> QED BY <1>9 DEF v

\* _allocate_file: from now on the call is for another handle.
LEMMA SoundAllocateFile ==
    ASSUME NEW r, NEW w, Sound(r, w), ~r.quiet, ~r.keeps
    PROVE  \A v \in AllocateFile(w) : Sound(r, v)
<1> DEFINE first == Head(w.free)
           taken == [w EXCEPT !.h = <<first>>]
           open == Append(taken.open, first)
           opened == [taken EXCEPT !.open = open]
           free == Tail(opened.free)
<1>1. AllocateFile(w) = IF w.free = <<>> THEN Result({w}, "none") ELSE {[opened EXCEPT !.free = free]}
  BY Zenon DEF AllocateFile
<1>2. Sound(r, taken)
  BY SoundList
<1> HIDE DEF taken, open
<1>3. Sound(r, opened)
  BY <1>2, SoundList
<1> HIDE DEF opened, free
<1>4. Sound(r, [opened EXCEPT !.free = free])
  BY <1>3, SoundList
<1> QED BY <1>1, <1>4, SoundResult

\* The handle of the call is given back; it has no data to be written any more.
LEMMA SoundFreeFile ==
    ASSUME NEW r, NEW w, Sound(r, w), ~r.keeps
    PROVE  Sound(r, FreeFile(w))
<1> DEFINE h == Head(w.h)
           open == ListRemove(w.open, h)
           u == [w EXCEPT !.open = open]
           free == Append(u.free, h)
           v == [u EXCEPT !.free = free]
<1>1. FreeFile(w) = [v EXCEPT !.file[h] = NoFile]
  BY Zenon DEF FreeFile
<1> HIDE DEF open
<1>2. Sound(r, u) /\ u.h = w.h
  BY SoundList
<1> HIDE DEF u, free
<1>3. Sound(r, v) /\ v.h = w.h
  BY <1>2, SoundList
<1> HIDE DEF v
<1>4. {"dirty", "path"} \subseteq DOMAIN NoFile /\ NoFile.dirty = FALSE
  BY DEF NoFile
<1>5. Sound(r, [v EXCEPT !.file[h] = NoFile])
  <2> HIDE DEF h
  <2>1. h = Head(v.h)
    BY <1>3 DEF h
  <2> QED BY <1>3, <1>4, <2>1, SoundHandle
<1> QED BY <1>1, <1>5

\* A directory gets other entries, or writing them fails.
LEMMA SoundEraseTurn ==
    ASSUME NEW r, NEW w, Sound(r, w), NEW c, NEW x
    PROVE  \A v \in Io([w EXCEPT !.disk.dir[c] = x], w) : Sound(r, v)
  BY SoundPlace, SoundIo

\* The cluster of a new directory is erased, one sector after the other.
EraseTurn(w, c, k) ==
    Io([w EXCEPT !.disk.dir[c] = [j \in DOMAIN @ |->
           IF j - (k - 1) * Slots \in 1 .. Slots THEN Blank ELSE @[j]]], w)

Erasing == INSTANCE Induction_proofs WITH
    Step <- LAMBDA a, b, v, k : IF v.rc = "ok" THEN EraseTurn(v, a, k) ELSE {v}, Good <- Sound

\* Erasing the cluster of a new directory does not touch the table.
LEMMA SoundEraseCluster ==
    ASSUME NEW r, NEW w, Sound(r, w), NEW c
    PROVE  \A v \in EraseCluster(w, c) : Sound(r, v)
<1>1. \A v : Sound(r, v) => \A k \in 1 .. ClusterSectors :
         \A u \in IF v.rc = "ok" THEN EraseTurn(v, c, k) ELSE {v} : Sound(r, u)
  BY SoundEraseTurn DEF EraseTurn
<1>2. ClusterSectors \in Nat
  BY FatAssumption
<1>3. \A v \in Erasing!Steps(c, 0, {w})[ClusterSectors] : Sound(r, v)
  BY <1>1, <1>2, Erasing!StepsKeep
<1>4. EraseCluster(w, c) = Each(ClusterSectors, LAMBDA v, k : EraseTurn(v, c, k), {w})
  BY Zenon DEF EraseCluster, EraseTurn
<1>5. Each(ClusterSectors, LAMBDA v, k : EraseTurn(v, c, k), {w}) =
         Erasing!Steps(c, 0, {w})[ClusterSectors]
  BY <1>2 DEF Each, Turns, Erasing!Steps
<1> QED BY <1>3, <1>4, <1>5

\* A sector of blank entries in a cluster that a directory grows by.
BlankTurn(w, new, k) == WriteCur([w EXCEPT !.cur = [c |-> new, k |-> k - 1, row |-> BlankSector]])
Blanked(w, new) == Each(ClusterSectors, LAMBDA v, k : BlankTurn(v, new, k), {w})

Blanking == INSTANCE Induction_proofs WITH
    Step <- LAMBDA a, b, v, k : IF v.rc = "ok" THEN BlankTurn(v, a, k) ELSE {v}, Good <- Sound

\* Neither does writing the blank sectors that a directory grows by.
LEMMA SoundBlanking ==
    ASSUME NEW r, NEW w, Sound(r, w), NEW new
    PROVE  \A v \in Blanked(w, new) : Sound(r, v)
<1>1. \A v : Sound(r, v) => \A k \in 1 .. ClusterSectors :
         \A u \in IF v.rc = "ok" THEN BlankTurn(v, new, k) ELSE {v} : Sound(r, u)
  <2> SUFFICES ASSUME NEW v, Sound(r, v), NEW k \in 1 .. ClusterSectors
               PROVE  \A u \in BlankTurn(v, new, k) : Sound(r, u)
    OBVIOUS
  <2> DEFINE t == [v EXCEPT !.cur = [c |-> new, k |-> k - 1, row |-> BlankSector]]
  <2>1. Sound(r, t)
    BY SoundElse
  <2>2. BlankTurn(v, new, k) = WriteCur(t)
    BY DEF BlankTurn
  <2> HIDE DEF t
  <2> QED BY <2>1, <2>2, SoundWriteCur
<1>2. ClusterSectors \in Nat
  BY FatAssumption
<1>3. \A v \in Blanking!Steps(new, 0, {w})[ClusterSectors] : Sound(r, v)
  BY <1>1, <1>2, Blanking!StepsKeep
<1>4. Blanked(w, new) = Blanking!Steps(new, 0, {w})[ClusterSectors]
  BY <1>2 DEF Blanked, Each, Turns, Blanking!Steps
<1> QED BY <1>3, <1>4

\* A directory grows by a cluster.
LEMMA SoundExtend ==
    ASSUME NEW r, NEW w, Sound(r, w), ~r.quiet, NEW c
    PROVE  \A v \in Extend(w, c) : Sound(r, v)
<1> DEFINE begin == [w EXCEPT !.overrun = @ \/ (w.type = 16 /\ c = 0)]
           Linked(v) == Then(AddToChain(v, c, v.val), LAMBDA u : Blanked(u, v.val))
<1>1. Extend(w, c) = Then(FindBlank(begin), Linked)
  BY Zenon DEF Extend, Blanked, BlankTurn
<1>2. Sound(r, begin)
  BY SoundElse
<1> HIDE DEF begin
<1>4. \A v : Sound(r, v) => \A u \in Linked(v) : Sound(r, u)
  BY SoundBlanking, SoundAddToChain DEF Then
<1> HIDE DEF Linked
<1> QED BY <1>1, <1>2, <1>4, SoundFindBlank DEF Then

\* fatfs_find_free_dir_offset
LEMMA SoundFindFreeDirOffset ==
    ASSUME NEW r, NEW w, Sound(r, w), ~r.quiet, NEW c, NEW n
    PROVE  \A v \in FindFreeDirOffset(w, c, n) : Sound(r, v)
<1> DEFINE found == Scan(w, c, [by |-> "room", it |-> n])
           Rest(v) == IF v.rc = "ok" THEN {[v EXCEPT !.hit = @ - Spaces(v.read, @)]}
                      ELSE LET at == Len(v.read) - Spaces(v.read, Len(v.read)) IN
                           {[u EXCEPT !.hit = at] : u \in Extend([v EXCEPT !.rc = "ok"], c)}
<1>1. FindFreeDirOffset(w, c, n) = UNION {Rest(v) : v \in found}
  BY Zenon DEF FindFreeDirOffset
<1>2. \A v \in found : Sound(r, v)
  BY SoundScan
<1>3. ASSUME NEW v, Sound(r, v) PROVE \A u \in Rest(v) : Sound(r, u)
  <2>1. CASE v.rc = "ok"
    <3>1. Sound(r, [v EXCEPT !.hit = @ - Spaces(v.read, @)])
      BY <1>3, SoundElse
    <3> QED BY <2>1, <3>1
  <2>2. CASE v.rc # "ok"
    <3> DEFINE at == Len(v.read) - Spaces(v.read, Len(v.read))
               t == [v EXCEPT !.rc = "ok"]
    <3>1. Sound(r, t)
      BY <1>3, SoundElse
    <3>2. Rest(v) = {[u EXCEPT !.hit = at] : u \in Extend(t, c)}
      BY <2>2
    <3> HIDE DEF t, at, Rest
    <3> SUFFICES ASSUME NEW u \in Extend(t, c) PROVE Sound(r, [u EXCEPT !.hit = at])
      BY <3>2
    <3>3. Sound(r, u)
      BY <3>1, SoundExtend
    <3> QED BY <3>3, SoundElse
  <2> QED BY <2>1, <2>2
<1> HIDE DEF Rest, found
<1> QED BY <1>1, <1>2, <1>3

\* A turn of the writing of new entries.
LEMMA SoundPut ==
    ASSUME NEW r, NEW w, Sound(r, w), NEW c, NEW row
    PROVE  \A v \in Put(w, c, row) : Sound(r, v)
<1> DEFINE new(v) == [j \in 1 .. Slots |->
               LET i == v.x * Slots + j - v.hit IN
               IF i \in DOMAIN row THEN row[i] ELSE v.cur.row[j]]
           next(v) == [v EXCEPT !.x = @ + 1, !.cur.row = new(v)]
           Rest(v) == WriteCur(next(v))
<1>1. Put(w, c, row) = IF w.rc # "ok" \/ w.hit + Len(row) <= w.x * Slots THEN {w}
                       ELSE Then(SectorReader(w, c, w.x), Rest)
  BY Zenon DEF Put
<1> HIDE DEF new
<1>2. \A v : Sound(r, v) => Sound(r, next(v))
  BY SoundElse, SoundCur
<1> HIDE DEF next
<1>3. \A v : Sound(r, v) => \A u \in Rest(v) : Sound(r, u)
  BY <1>2, SoundWriteCur
<1> HIDE DEF Rest
<1> QED BY <1>1, <1>3, SoundSectorReader DEF Then

Putting == INSTANCE Induction_proofs WITH Step <- LAMBDA a, b, v, k : Put(v, a, b), Good <- Sound

\* fatfs_add_file_entry
LEMMA SoundAddFileEntry ==
    ASSUME NEW r, NEW w, Sound(r, w), ~r.quiet, NEW c, NEW e
    PROVE  \A v \in AddFileEntry(w, c, e) : Sound(r, v)
<1> DEFINE n == NameEntries[e.name]
           row == [k \in 1 .. n |-> Lfn(e.name, n + 1 - k)] \o <<e>>
           begin(v) == [v EXCEPT !.x = v.hit \div Slots]
           Rest(v) == Times(n + 1, LAMBDA u : Put(u, c, row), {begin(v)})
<1>1. AddFileEntry(w, c, e) = Then(FindFreeDirOffset(w, c, n + 1), Rest)
  BY Zenon DEF AddFileEntry
<1>2. \A v : Sound(r, v) => Sound(r, begin(v))
  BY SoundElse
<1> HIDE DEF begin, n, row
<1>3. ASSUME NEW v, Sound(r, v) PROVE \A u \in Rest(v) : Sound(r, u)
  <2> DEFINE m == n + 1
  <2> HIDE DEF m
  <2>1. m \in Nat => \A u \in Putting!Steps(c, row, {begin(v)})[m] : Sound(r, u)
    <3>1. \A t : Sound(r, t) => \A k \in 1 .. m : \A u \in Put(t, c, row) : Sound(r, u)
      BY SoundPut
    <3>2. Sound(r, begin(v))
      BY <1>2, <1>3
    <3> QED BY <3>1, <3>2, Putting!StepsKeep
  <2>2. Rest(v) = IF m \in Nat THEN Putting!Steps(c, row, {begin(v)})[m] ELSE {begin(v)}
    BY DEF Times, Turns, Putting!Steps, m
  <2> QED BY <1>2, <1>3, <2>1, <2>2
<1> HIDE DEF Rest
<1> QED BY <1>1, <1>3, SoundFindFreeDirOffset DEF Then

\* The handle of an entry that was found or made.
LEMMA SoundOpened ==
    ASSUME NEW r, NEW w, Sound(r, w), ~r.quiet, NEW e
    PROVE  \A v \in Opened(w, e) : Sound(r, v)
<1> DEFINE u == [w EXCEPT !.file[Head(w.h)].first = e.first, !.file[Head(w.h)].short = e.short,
                          !.file[Head(w.h)].len = e.size]
<1>1. Opened(w, e) = Result(Purge(u), "ok")
  BY Zenon DEF Opened
<1>2. Sound(r, u)
  BY SoundField
<1> HIDE DEF u
<1> QED BY <1>1, <1>2, SoundPurge, SoundResult

\* On failure the handle that _open_file, _create_file or _create_directory has taken is
\* given back.
LEMMA SoundUndo ==
    ASSUME NEW r, NEW ws, \A w \in ws : Sound(r, w), ~r.keeps
    PROVE  \A v \in Undo(ws, LAMBDA t : {FreeFile(t)}) : Sound(r, v)
<1> SUFFICES ASSUME NEW v \in Undo(ws, LAMBDA t : {FreeFile(t)}) PROVE Sound(r, v)
  OBVIOUS
<1>1. PICK w \in ws : v = w \/ v \in Result({FreeFile([w EXCEPT !.rc = "ok"])}, "none")
  BY DEF Undo
<1>2. Sound(r, [w EXCEPT !.rc = "ok"])
  BY SoundElse
<1>3. Sound(r, FreeFile([w EXCEPT !.rc = "ok"]))
  BY <1>2, SoundFreeFile
<1> QED BY <1>1, <1>3, SoundResult

\* A handle of this path, as _open_file, _create_file and _create_directory begin with it.
Titled(v, path) == [v EXCEPT !.file[Head(v.h)].path = path]
Settled(v) == [v EXCEPT !.file[Head(v.h)].parent = v.dir]

\* What _open_file does in the directory of the path.
OpenedThere(v, path) ==
    Then(GetFileEntry(v, v.dir, Last(path)), LAMBDA u :
         IF u.got.k = "file" THEN Opened(u, u.got) ELSE Result({u}, "none"))
TriedOpen(u, path) ==
    IF CheckFileOpen(u) THEN Result({u}, "none")
    ELSE Then(OpenDirectory(u, Front(path)), LAMBDA t : OpenedThere(Settled(t), path))

\* _open_file, up to the handle that it gives back on failure
LEMMA SoundTriedOpen ==
    ASSUME NEW r, NEW w, Sound(r, w), ~r.quiet, NEW path
    PROVE  \A v \in TriedOpen(w, path) : Sound(r, v)
<1> DEFINE Got(u) == IF u.got.k = "file" THEN Opened(u, u.got) ELSE Result({u}, "none")
           There(t) == OpenedThere(Settled(t), path)
<1>1. \A v : Sound(r, v) => Sound(r, Settled(v))
  BY SoundField DEF Settled
<1>2. \A v : Sound(r, v) => \A u \in OpenedThere(v, path) : Sound(r, u)
  <2>1. \A v : Sound(r, v) => \A u \in Got(v) : Sound(r, u)
    <3> SUFFICES ASSUME NEW v, Sound(r, v) PROVE \A u \in Got(v) : Sound(r, u)
      OBVIOUS
    <3>1. \A u \in Result({v}, "none") : Sound(r, u)
      BY SoundResult
    <3>2. \A u \in Opened(v, v.got) : Sound(r, u)
      BY SoundOpened
    <3> QED BY <3>1, <3>2
  <2>2. \A v : OpenedThere(v, path) = Then(GetFileEntry(v, v.dir, Last(path)), Got)
    BY Zenon DEF OpenedThere
  <2> HIDE DEF Got
  <2> QED BY <2>1, <2>2, SoundGetFileEntry DEF Then
<1>3. \A v : Sound(r, v) => \A u \in There(v) : Sound(r, u)
  BY <1>1, <1>2
<1>4. TriedOpen(w, path) = IF CheckFileOpen(w) THEN Result({w}, "none")
                           ELSE Then(OpenDirectory(w, Front(path)), There)
  BY Zenon DEF TriedOpen
<1> HIDE DEF There
<1> QED BY <1>3, <1>4, SoundOpenDirectory, SoundResult DEF Then

\* _open_file
LEMMA OpenFileIs ==
    ASSUME NEW w, NEW path
    PROVE  OpenFile(w, path) =
             Then(AllocateFile(w), LAMBDA v :
                  Undo(TriedOpen(Titled(v, path), path), LAMBDA t : {FreeFile(t)}))
  BY Zenon DEF OpenFile, Begin, TriedOpen, OpenedThere, Settled, Titled

LEMMA SoundOpenFile ==
    ASSUME NEW r, NEW w, Sound(r, w), ~r.quiet, ~r.keeps, NEW path
    PROVE  \A v \in OpenFile(w, path) : Sound(r, v)
<1> DEFINE Whole(v) == Undo(TriedOpen(Titled(v, path), path), LAMBDA t : {FreeFile(t)})
<1>1. OpenFile(w, path) = Then(AllocateFile(w), Whole)
  BY Zenon, OpenFileIs
<1>2. \A v : Sound(r, v) => Sound(r, Titled(v, path))
  BY SoundField DEF Titled
<1>3. \A v : Sound(r, v) => \A u \in Whole(v) : Sound(r, u)
  BY <1>2, SoundTriedOpen, SoundUndo
<1> HIDE DEF Whole
<1> QED BY <1>1, <1>3, SoundAllocateFile DEF Then

Tailing == INSTANCE Induction_proofs WITH Step <- LAMBDA a, b, v, k : TryTail(v, a, b), Good <- Sound

\* A turn of the search for a short name.
LEMMA SoundTryTail ==
    ASSUME NEW r, NEW w, Sound(r, w), NEW c, NEW name
    PROVE  \A v \in TryTail(w, c, name) : Sound(r, v)
<1> SUFFICES ASSUME NEW v \in TryTail(w, c, name) PROVE Sound(r, v)
  OBVIOUS
<1>1. v = w \/ \E u \in SfnExists(w, c, <<Base[name], w.left>>) : v = u \/ v = [u EXCEPT !.left = @ + 1]
  BY DEF TryTail
<1>2. CASE \E u \in SfnExists(w, c, <<Base[name], w.left>>) : v = u \/ v = [u EXCEPT !.left = @ + 1]
  <2>1. PICK u \in SfnExists(w, c, <<Base[name], w.left>>) : v = u \/ v = [u EXCEPT !.left = @ + 1]
    BY <1>2
  <2>2. Sound(r, u)
    BY SoundSfnExists
  <2>3. Sound(r, [u EXCEPT !.left = @ + 1])
    BY <2>2, SoundElse
  <2> QED BY <2>1, <2>2, <2>3, Zenon
<1> QED BY <1>1, <1>2

\* The search for a tail that makes a short name unique.
LEMMA SoundFreeTail ==
    ASSUME NEW r, NEW w, Sound(r, w), NEW c, NEW name
    PROVE  \A v \in FreeTail(w, c, name) : Sound(r, v)
<1> DEFINE n == Cardinality(Names) + 1
           begin == [w EXCEPT !.left = 0]
           tried == Times(n, LAMBDA v : TryTail(v, c, name), {begin})
<1>1. FreeTail(w, c, name) = Result(tried, "ok")
  BY Zenon DEF FreeTail
<1>2. Sound(r, begin)
  BY SoundElse
<1> HIDE DEF begin, n
<1>3. n \in Nat => \A v \in Tailing!Steps(c, name, {begin})[n] : Sound(r, v)
  <2>1. \A v : Sound(r, v) => \A k \in 1 .. n : \A u \in TryTail(v, c, name) : Sound(r, u)
    BY SoundTryTail
  <2> QED BY <1>2, <2>1, Tailing!StepsKeep
<1>4. tried = IF n \in Nat THEN Tailing!Steps(c, name, {begin})[n] ELSE {begin}
  BY DEF Times, Turns, Tailing!Steps
<1> HIDE DEF tried
<1>5. \A v \in tried : Sound(r, v)
  BY <1>2, <1>3, <1>4
<1> QED BY <1>1, <1>5, SoundResult

\* Where the entries of a new file cannot be added its chain is freed.
Entered(w, d, e, c) == Undo(AddFileEntry(w, d, e), LAMBDA q : FreeChain(q, c))

\* The entries are added, or the chain is freed again.
LEMMA SoundEntered ==
    ASSUME NEW r, NEW w, Sound(r, w), ~r.quiet, NEW d, NEW e, NEW c
    PROVE  \A v \in Entered(w, d, e, c) : Sound(r, v)
<1> SUFFICES ASSUME NEW v \in Entered(w, d, e, c)
             PROVE  Sound(r, v)
  OBVIOUS
<1>1. PICK u \in AddFileEntry(w, d, e) :
         v = u \/ v \in Result(FreeChain([u EXCEPT !.rc = "ok"], c), "none")
  BY DEF Entered, Undo
<1>2. Sound(r, u)
  BY SoundAddFileEntry
<1>3. Sound(r, [u EXCEPT !.rc = "ok"])
  BY <1>2, SoundElse
<1>4. \A t \in FreeChain([u EXCEPT !.rc = "ok"], c) : Sound(r, t)
  BY <1>3, SoundFreeChain
<1> QED BY <1>1, <1>2, <1>4, SoundResult

\* What _create_file and _create_directory do where there is no such name yet: with cluster c,
\* and from the directory of the path on.
EntryFor(v, path, k, c) == Slot(k, Last(path), 0, c, 0, <<Base[Last(path)], v.left>>)
AddedWith(v, path, k, c) ==
    Then(Entered(v, v.dir, EntryFor(v, path, k, c), c), LAMBDA q :
         Opened(q, EntryFor(v, path, k, c)))
TailedWith(v, path, k, c) ==
    Then(FreeTail(v, v.dir, Last(path)), LAMBDA q : AddedWith(q, path, k, c))
MadeWith(v, path, k, c) ==
    Then(IF k = "dir" THEN EraseCluster(v, c) ELSE {v}, LAMBDA s : TailedWith(s, path, k, c))
MadeNew(v, path, k) == Then(AllocateFirst(v), LAMBDA t : MadeWith(t, path, k, t.first))
MadeThere(v, path, k) ==
    UNION {IF u.rc = "ok" THEN Result({u}, "none") ELSE MadeNew([u EXCEPT !.rc = "ok"], path, k) :
              u \in GetFileEntry(v, v.dir, Last(path))}
TriedCreate(u, path, k) ==
    IF CheckFileOpen(u) THEN Result({u}, "none")
    ELSE Then(OpenDirectory(u, Front(path)), LAMBDA t : MadeThere(Settled(t), path, k))

\* The same, up to the handle that is given back on failure
LEMMA SoundTriedCreate ==
    ASSUME NEW r, NEW w, Sound(r, w), ~r.quiet, NEW path, NEW k
    PROVE  \A v \in TriedCreate(w, path, k) : Sound(r, v)
<1>1. \A v : Sound(r, v) => Sound(r, Settled(v))
  BY SoundField DEF Settled
<1>2. \A v : Sound(r, v) => Sound(r, [v EXCEPT !.rc = "ok"])
  BY SoundElse
<1>3. \A v, c : Sound(r, v) => \A u \in AddedWith(v, path, k, c) : Sound(r, u)
  BY SoundEntered, SoundOpened DEF Then, AddedWith
<1>4. \A v, c : Sound(r, v) => \A u \in TailedWith(v, path, k, c) : Sound(r, u)
  BY <1>3, SoundFreeTail DEF Then, TailedWith
<1>5. \A v, c : Sound(r, v) => \A u \in MadeWith(v, path, k, c) : Sound(r, u)
  <2>1. ASSUME NEW v, NEW c, Sound(r, v)
        PROVE  \A u \in IF k = "dir" THEN EraseCluster(v, c) ELSE {v} : Sound(r, u)
    BY <2>1, SoundEraseCluster
  <2> QED BY <1>4, <2>1 DEF Then, MadeWith
<1>6. \A v : Sound(r, v) => \A u \in MadeNew(v, path, k) : Sound(r, u)
  BY <1>5, SoundAllocateFirst DEF Then, MadeNew
<1>7. \A v : Sound(r, v) => \A u \in MadeThere(v, path, k) : Sound(r, u)
  <2> SUFFICES ASSUME NEW v, Sound(r, v), NEW t \in GetFileEntry(v, v.dir, Last(path)),
                      NEW u, u \in Result({t}, "none") \/ u \in MadeNew([t EXCEPT !.rc = "ok"], path, k)
               PROVE  Sound(r, u)
    BY DEF MadeThere
  <2>1. Sound(r, t) /\ Sound(r, [t EXCEPT !.rc = "ok"])
    BY <1>2, SoundGetFileEntry
  <2> QED BY <1>6, <2>1, SoundResult
<1> DEFINE There(t) == MadeThere(Settled(t), path, k)
<1>8. \A v : Sound(r, v) => \A u \in There(v) : Sound(r, u)
  BY <1>1, <1>7
<1>9. TriedCreate(w, path, k) = IF CheckFileOpen(w) THEN Result({w}, "none")
                                ELSE Then(OpenDirectory(w, Front(path)), There)
  BY Zenon DEF TriedCreate
<1> HIDE DEF There
<1> QED BY <1>8, <1>9, SoundOpenDirectory, SoundResult DEF Then

\* _create_file and _create_directory
LEMMA CreateIs ==
    ASSUME NEW w, NEW path, NEW k
    PROVE  Create(w, path, k) =
             Then(AllocateFile(w), LAMBDA v :
                  Undo(TriedCreate(Titled(v, path), path, k), LAMBDA t : {FreeFile(t)}))
  BY Zenon DEF Create, Begin, TriedCreate, MadeThere, MadeNew, MadeWith, TailedWith, AddedWith,
               EntryFor, Entered, Settled, Titled

LEMMA SoundCreate ==
    ASSUME NEW r, NEW w, Sound(r, w), ~r.quiet, ~r.keeps, NEW path, NEW k
    PROVE  \A v \in Create(w, path, k) : Sound(r, v)
<1> DEFINE Whole(v) == Undo(TriedCreate(Titled(v, path), path, k), LAMBDA t : {FreeFile(t)})
<1>1. Create(w, path, k) = Then(AllocateFile(w), Whole)
  BY Zenon, CreateIs
<1>2. \A v : Sound(r, v) => Sound(r, Titled(v, path))
  BY SoundField DEF Titled
<1>3. \A v : Sound(r, v) => \A u \in Whole(v) : Sound(r, u)
  BY <1>2, SoundTriedCreate, SoundUndo
<1> HIDE DEF Whole
<1> QED BY <1>1, <1>3, SoundAllocateFile DEF Then

\* _create_directory
LEMMA SoundCreateDirectory ==
    ASSUME NEW r, NEW w, Sound(r, w), ~r.quiet, ~r.keeps, NEW path
    PROVE  \A v \in CreateDirectory(w, path) : Sound(r, v)
  BY SoundCreate, SoundFreeFile DEF CreateDirectory
-----------------------------------------------------------------------------
\* A quiet call stays with its handle.
LEMMA SameHandle ==
    ASSUME NEW r, NEW w, NEW v, Sound(r, w), Sound(r, v), r.quiet
    PROVE  v.h = w.h
  BY DEF Sound, Kept

\* What a call of _read_sectors does behind the walk to the cluster.
ReadThere(h, sec, n, v) ==
    LET k   == sec % ClusterSectors
        idx == sec \div ClusterSectors
        cnt == Least(n, ClusterSectors - k)
        u   == [Strays(v) EXCEPT !.file[h].look = [idx |-> idx, c |-> v.val], !.val = 0]
    IN  IF v.val = END THEN {[v EXCEPT !.val = 0]}
        ELSE Result(Io([u EXCEPT !.val = cnt, !.read = @ \o
                           SubSeq(u.disk.data[v.val], k * SectorUnits + 1, (k + cnt) * SectorUnits)],
                       u), "ok")

\* Reading the sectors, or remembering a cluster and failing, leaves the table alone.
LEMMA SoundReadThere ==
    ASSUME NEW r, NEW v, Sound(r, v), NEW h, r.quiet => h = Head(v.h), NEW sec, NEW n
    PROVE  \A x \in ReadThere(h, sec, n, v) : Sound(r, x)
<1> DEFINE k   == sec % ClusterSectors
           idx == sec \div ClusterSectors
           cnt == Least(n, ClusterSectors - k)
           look == [idx |-> idx, c |-> v.val]
           t   == Strays(v)
           u   == [t EXCEPT !.file[h].look = look, !.val = 0]
           x(y) == [y EXCEPT !.val = cnt, !.read = @ \o
                       SubSeq(y.disk.data[v.val], k * SectorUnits + 1, (k + cnt) * SectorUnits)]
<1>1. ReadThere(h, sec, n, v) = IF v.val = END THEN {[v EXCEPT !.val = 0]}
                                   ELSE Result(Io(x(u), u), "ok")
  BY Zenon DEF ReadThere
<1>2. Sound(r, [v EXCEPT !.val = 0])
  BY SoundElse
<1>3. Sound(r, t) /\ t.h = v.h
  BY SoundStrays DEF Strays
<1> HIDE DEF t, look
<1>4. Sound(r, [t EXCEPT !.file[h].look = look])
  BY <1>3, SoundField
<1>5. Sound(r, u)
  BY <1>4, SoundElse
<1> HIDE DEF u, cnt, k
<1>6. Sound(r, x(u))
  BY <1>5, SoundElse
<1> HIDE DEF x
<1>7. \A y \in Io(x(u), u) : Sound(r, y)
  BY <1>5, <1>6, SoundIo
<1> QED BY <1>1, <1>2, <1>7, SoundResult

\* _read_sectors
LEMMA SoundReadSectors ==
    ASSUME NEW r, NEW w, Sound(r, w), NEW sec, NEW n
    PROVE  \A v \in ReadSectors(w, sec, n) : Sound(r, v)
<1> DEFINE f    == File(w)
           idx  == sec \div ClusterSectors
           from == WalkFrom(f, idx)
           m    == idx - from.idx
           begin == [w EXCEPT !.val = from.c]
           walk == IF idx = f.look.idx THEN {[w EXCEPT !.val = f.look.c]}
                   ELSE Times(m, LAMBDA v : NextCluster(v, v.val), {begin})
<1>1. ReadSectors(w, sec, n) = UNION {ReadThere(Head(w.h), sec, n, v) : v \in walk}
  BY Zenon DEF ReadSectors, ReadThere
<1>2. Sound(r, begin) /\ Sound(r, [w EXCEPT !.val = f.look.c])
  BY SoundElse
<1> HIDE DEF begin, from, f, m, idx
<1>3. ASSUME NEW v \in walk PROVE Sound(r, v)
  <2>1. \A u \in Times(m, LAMBDA x : NextCluster(x, x.val), {begin}) : Sound(r, u)
    BY <1>2, SoundStepping
  <2> QED BY <1>2, <1>3, <2>1
<1> HIDE DEF walk
<1>4. ASSUME NEW v \in walk PROVE \A u \in ReadThere(Head(w.h), sec, n, v) : Sound(r, u)
  <2>1. r.quiet => v.h = w.h
    BY <1>3, SameHandle
  <2> QED BY <1>3, <2>1, SoundReadThere
<1> QED BY <1>1, <1>4
Walking == INSTANCE Induction_proofs WITH Step <- LAMBDA a, b, v, k : Walk(v), Good <- Sound

\* A turn of the walk to a cluster that is to be written.
LEMMA SoundWalk ==
    ASSUME NEW r, NEW w, Sound(r, w)
    PROVE  \A v \in Walk(w) : Sound(r, v)
<1> SUFFICES ASSUME NEW v \in Walk(w) PROVE Sound(r, v)
  OBVIOUS
<1>1. v = w \/ \E u \in NextCluster(w, w.val) : v = [u EXCEPT !.prev = w.val]
  BY DEF Walk
<1>2. CASE \E u \in NextCluster(w, w.val) : v = [u EXCEPT !.prev = w.val]
  <2>1. PICK u \in NextCluster(w, w.val) : v = [u EXCEPT !.prev = w.val]
    BY <1>2
  <2>2. Sound(r, u)
    BY SoundNextCluster
  <2>3. Sound(r, [u EXCEPT !.prev = w.val])
    BY <2>2, SoundElse
  <2> QED BY <2>1, <2>3, Zenon
<1> QED BY <1>1, <1>2

\* The whole walk.
LEMMA SoundWalks ==
    ASSUME NEW r, NEW w, Sound(r, w), NEW n
    PROVE  \A v \in Times(n, Walk, {w}) : Sound(r, v)
<1>1. \A v : Sound(r, v) => \A k \in 1 .. n : \A u \in Walk(v) : Sound(r, u)
  BY SoundWalk
<1>2. n \in Nat => \A v \in Walking!Steps(0, 0, {w})[n] : Sound(r, v)
  BY <1>1, Walking!StepsKeep
<1>3. Times(n, Walk, {w}) = IF n \in Nat THEN Walking!Steps(0, 0, {w})[n] ELSE {w}
  BY DEF Times, Turns, Walking!Steps
<1> QED BY <1>2, <1>3

\* What a call of _write_sectors does in the cluster.
WriteThere(h, sec, units, v) ==
    LET total == Len(units) \div SectorUnits
        idx   == sec \div ClusterSectors
        k     == sec % ClusterSectors
        cnt   == Least(total, ClusterSectors - k)
        c     == v.val
        u     == [Strays(v) EXCEPT !.file[h].look = [idx |-> idx, c |-> c], !.val = 0]
    IN  Io([u EXCEPT !.val = cnt, !.disk.data[c] = [j \in DOMAIN @ |->
               IF j - k * SectorUnits \in 1 .. cnt * SectorUnits
               THEN units[j - k * SectorUnits] ELSE @[j]]], u)

\* Writing the sectors, or failing to.
LEMMA SoundWriteThere ==
    ASSUME NEW r, NEW v, Sound(r, v), ~r.quiet, NEW h, NEW sec, NEW units
    PROVE  \A x \in WriteThere(h, sec, units, v) : Sound(r, x)
<1> DEFINE total == Len(units) \div SectorUnits
           k   == sec % ClusterSectors
           idx == sec \div ClusterSectors
           cnt == Least(total, ClusterSectors - k)
           c   == v.val
           look == [idx |-> idx, c |-> c]
           t   == Strays(v)
           u   == [t EXCEPT !.file[h].look = look, !.val = 0]
           data(y) == [j \in DOMAIN y.disk.data[c] |->
                         IF j - k * SectorUnits \in 1 .. cnt * SectorUnits
                         THEN units[j - k * SectorUnits] ELSE y.disk.data[c][j]]
           x(y) == [y EXCEPT !.val = cnt, !.disk.data[c] = data(y)]
<1>1. WriteThere(h, sec, units, v) = Io(x(u), u)
  BY Zenon DEF WriteThere
<1>2. Sound(r, t)
  BY SoundStrays
<1> HIDE DEF t, look
<1>3. Sound(r, [t EXCEPT !.file[h].look = look])
  BY <1>2, SoundField
<1>4. Sound(r, u)
  BY <1>3, SoundElse
<1> HIDE DEF u, cnt, k, c, data
<1>5. Sound(r, [u EXCEPT !.val = cnt])
  BY <1>4, SoundElse
<1>6. Sound(r, x(u))
  BY <1>5, SoundPlace
<1> HIDE DEF x
<1> QED BY <1>1, <1>4, <1>6, SoundIo

\* _write_sectors
LEMMA SoundWriteSectors ==
    ASSUME NEW r, NEW w, Sound(r, w), ~r.quiet, NEW sec, NEW units
    PROVE  \A v \in WriteSectors(w, sec, units) : Sound(r, v)
<1> DEFINE f     == File(w)
           idx   == sec \div ClusterSectors
           from  == WalkFrom(f, idx)
           m     == idx - from.idx
           more  == ((Len(units) \div SectorUnits) + ClusterSectors - 1) \div ClusterSectors
           begin == [w EXCEPT !.val = from.c, !.prev = END]
           walk  == IF idx = f.look.idx THEN {[w EXCEPT !.val = f.look.c]}
                    ELSE Times(m, Walk, {begin})
           Grown(u) == {[u EXCEPT !.val = u.first]}
           Reach(v) == IF v.val # END THEN {v} ELSE Then(AddFreeSpace(v, v.prev, more), Grown)
           There(v) == WriteThere(Head(w.h), sec, units, v)
           all   == UNION {Then(Reach(v), There) : v \in walk}
<1>1. WriteSectors(w, sec, units) =
         {IF v.rc = "ok" THEN v ELSE [v EXCEPT !.rc = "ok", !.val = 0] : v \in all}
  BY Zenon DEF WriteSectors, WriteThere
<1>2. Sound(r, begin) /\ Sound(r, [w EXCEPT !.val = f.look.c])
  BY SoundElse
<1> HIDE DEF begin, from, f, m, idx, more
<1>3. ASSUME NEW v \in walk PROVE Sound(r, v)
  <2>1. \A u \in Times(m, Walk, {begin}) : Sound(r, u)
    BY <1>2, SoundWalks
  <2> QED BY <1>2, <1>3, <2>1
<1> HIDE DEF walk
<1>4. \A v : Sound(r, v) => \A u \in Grown(v) : Sound(r, u)
  BY SoundElse
<1> HIDE DEF Grown
<1>5. \A v : Sound(r, v) => \A u \in Reach(v) : Sound(r, u)
  BY <1>4, SoundAddFreeSpace DEF Then
<1>6. \A v : Sound(r, v) => \A u \in There(v) : Sound(r, u)
  BY SoundWriteThere
<1> HIDE DEF Reach, There
<1>7. \A v \in all : Sound(r, v)
  BY <1>3, <1>5, <1>6 DEF Then
<1> HIDE DEF all
<1> SUFFICES ASSUME NEW v \in all
             PROVE  Sound(r, IF v.rc = "ok" THEN v ELSE [v EXCEPT !.rc = "ok", !.val = 0])
  BY <1>1
<1>8. Sound(r, v) /\ Sound(r, [v EXCEPT !.rc = "ok", !.val = 0])
  BY <1>7, SoundElse
<1> QED BY <1>8

\* fl_fflush; a handle without data to be written is left alone.
LEMMA SoundFFlush ==
    ASSUME NEW r, NEW w, Sound(r, w), r.quiet => ~r.dirty
    PROVE  \A v \in FFlush(w) : Sound(r, v)
<1> SUFFICES ASSUME NEW v \in FFlush(w) PROVE Sound(r, v)
  OBVIOUS
<1>1. CASE ~File(w).dirty
  BY <1>1 DEF FFlush
<1>2. CASE File(w).dirty
  <2>1. ~r.quiet
    BY <1>2 DEF Sound, Kept, File
  <2>2. PICK u \in WriteSectors(w, File(w).at, File(w).row) :
           v = [u EXCEPT !.file[Head(w.h)].dirty = (u.val = 0)]
    BY <1>2 DEF FFlush
  <2>3. Sound(r, u)
    BY <2>1, SoundWriteSectors
  <2> DEFINE x == u.val = 0
  <2>4. v = [u EXCEPT !.file[Head(w.h)].dirty = x]
    BY <2>2
  <2> HIDE DEF x
  <2> QED BY <2>1, <2>3, <2>4, SoundField
<1> QED BY <1>1, <1>2

\* The buffer of the file goes over to another sector, without data to be written.
LEMMA SoundBuffered ==
    ASSUME NEW r, NEW w, Sound(r, w), NEW sec, NEW row
    PROVE  Sound(r, Buffered(w, sec, row))
<1> DEFINE h == Head(w.h)
           w1 == [w EXCEPT !.file[h].at = sec]
           w2 == [w1 EXCEPT !.file[h].dirty = FALSE]
<1>1. Buffered(w, sec, row) = [w2 EXCEPT !.file[h].row = row]
  BY Zenon DEF Buffered
<1>2. Sound(r, w1) /\ w1.h = w.h
  <2>1. Sound(r, w1)
    BY SoundField
  <2>2. w1.h = w.h
    BY DEF Sound, Shaped
  <2> QED BY <2>1, <2>2
<1> HIDE DEF w1
<1>3. Sound(r, w2) /\ w2.h = w.h
  <2>1. h = Head(w1.h)
    BY <1>2
  <2> HIDE DEF h
  <2>2. Sound(r, w2)
    BY <1>2, <2>1, SoundField
  <2>3. w2.h = w1.h
    BY <1>2 DEF Sound, Shaped
  <2> QED BY <1>2, <2>2, <2>3
<1> HIDE DEF w2
<1>4. Sound(r, [w2 EXCEPT !.file[h].row = row])
  <2>1. h = Head(w2.h)
    BY <1>3
  <2> HIDE DEF h
  <2> QED BY <1>3, <2>1, SoundField
<1> QED BY <1>1, <1>4

\* The position of the handle moves.
LEMMA SoundMoved ==
    ASSUME NEW r, NEW w, Sound(r, w), NEW n
    PROVE  Sound(r, Moved(w, n))
<1> DEFINE h == Head(w.h)
           u == [w EXCEPT !.file[h].pos = @ + n]
           left == IF n = 0 THEN 0 ELSE u.left - n
<1>1. Moved(w, n) = [u EXCEPT !.left = left]
  BY Zenon DEF Moved
<1>2. Sound(r, u)
  BY SoundField
<1> HIDE DEF u, left
<1>3. Sound(r, [u EXCEPT !.left = left])
  BY <1>2, SoundElse
<1> QED BY <1>1, <1>3, Zenon

\* The buffer is flushed and a sector read.
LEMMA SoundFetch ==
    ASSUME NEW r, NEW w, Sound(r, w), r.quiet => ~r.dirty, NEW sec
    PROVE  \A v \in Fetch(w, sec) : Sound(r, v)
<1> SUFFICES ASSUME NEW u \in FFlush(w), NEW v \in ReadSectors([u EXCEPT !.read = <<>>], sec, 1)
             PROVE  Sound(r, v)
  BY DEF Fetch
<1>1. Sound(r, u)
  BY SoundFFlush
<1>2. Sound(r, [u EXCEPT !.read = <<>>])
  BY <1>1, SoundElse
<1> QED BY <1>2, SoundReadSectors

\* A turn of fl_fread, through the buffer of the file or past it.
LEMMA SoundReadTurn ==
    ASSUME NEW r, NEW w, Sound(r, w), r.quiet => ~r.dirty
    PROVE  \A v \in ReadTurn(w) : Sound(r, v)
<1> DEFINE f   == File(w)
           sec == f.pos \div SectorUnits
           off == f.pos % SectorUnits
           m   == Least(SectorUnits - off, w.left)
           Out(v) == [v EXCEPT !.out = @ \o SubSeq(File(v).row, off + 1, off + m)]
           Copy(v) == Moved(Out(v), m)
           begin == [w EXCEPT !.read = <<>>]
           All(v) == [v EXCEPT !.out = @ \o v.read]
           Some(v) == IF v.val = 0 THEN Moved(v, 0) ELSE Copy(Buffered(v, sec, v.read))
<1>1. ReadTurn(w) =
         IF w.left = 0 THEN {w}
         ELSE IF off = 0 /\ w.left >= SectorUnits
         THEN {Moved(All(v), v.val * SectorUnits) :
                 v \in ReadSectors(begin, sec, w.left \div SectorUnits)}
         ELSE IF f.at = sec THEN {Copy(w)} ELSE {Some(v) : v \in Fetch(w, sec)}
  BY Zenon DEF ReadTurn
<1>2. \A v : Sound(r, v) => Sound(r, Out(v)) /\ Sound(r, All(v))
  BY SoundElse
<1>3. Sound(r, begin)
  BY SoundElse
<1> HIDE DEF Out, All, begin, m
<1>4. \A v : Sound(r, v) => Sound(r, Copy(v))
  BY <1>2, SoundMoved
<1> HIDE DEF Copy
<1>5. \A v : Sound(r, v) => Sound(r, Some(v))
  BY <1>4, SoundMoved, SoundBuffered
<1> HIDE DEF Some, sec, off, f
<1>6. \A v \in Fetch(w, sec) : Sound(r, v)
  BY SoundFetch
<1>7. \A v \in ReadSectors(begin, sec, w.left \div SectorUnits) :
         Sound(r, Moved(All(v), v.val * SectorUnits))
  BY <1>2, <1>3, SoundReadSectors, SoundMoved
<1> QED BY <1>1, <1>4, <1>5, <1>6, <1>7

Reading == INSTANCE Induction_proofs WITH
    Step <- LAMBDA a, b, v, k : ReadTurn(v),
    Good <- LAMBDA r, w : Sound(r, w) /\ (r.quiet => ~r.dirty)

\* fl_fread
LEMMA SoundFReadLoop ==
    ASSUME NEW r, NEW w, Sound(r, w), r.quiet => ~r.dirty, NEW n
    PROVE  \A v \in FReadLoop(w, n) : Sound(r, v)
<1> DEFINE begin == [w EXCEPT !.left = n]
<1>1. Sound(r, begin)
  BY SoundElse
<1>2. FReadLoop(w, n) = Times(n, ReadTurn, {begin})
  BY Zenon DEF FReadLoop
<1> HIDE DEF begin
<1>3. n \in Nat => \A v \in Reading!Steps(0, 0, {begin})[n] : Sound(r, v) /\ (r.quiet => ~r.dirty)
  <2>1. \A v : Sound(r, v) /\ (r.quiet => ~r.dirty) => \A k \in 1 .. n :
           \A u \in ReadTurn(v) : Sound(r, u) /\ (r.quiet => ~r.dirty)
    BY SoundReadTurn
  <2> QED BY <1>1, <2>1, Reading!StepsKeep
<1>4. Times(n, ReadTurn, {begin}) = IF n \in Nat THEN Reading!Steps(0, 0, {begin})[n] ELSE {begin}
  BY DEF Times, Turns, Reading!Steps
<1> QED BY <1>1, <1>2, <1>3, <1>4

\* A turn of fl_fwrite.
LEMMA SoundWriteTurn ==
    ASSUME NEW r, NEW w, Sound(r, w), ~r.quiet, NEW value
    PROVE  \A v \in WriteTurn(w, value) : Sound(r, v)
<1> DEFINE f   == File(w)
           sec == f.pos \div SectorUnits
           off == f.pos % SectorUnits
           m   == Least(SectorUnits - off, w.left)
           Marked(v) == [v EXCEPT !.file[Head(v.h)].dirty = TRUE]
           row(v) == [j \in DOMAIN v.file[Head(v.h)].row |->
                        IF j \in off + 1 .. off + m THEN value ELSE v.file[Head(v.h)].row[j]]
           Set(v) == [Marked(v) EXCEPT !.file[Head(v.h)].row = row(v)]
           Copy(v) == Moved(Set(v), m)
           units == [j \in 1 .. w.left - (w.left % SectorUnits) |-> value]
           some == UNION {WriteSectors(Buffered(u, INVALID, Erased), sec, units) : u \in FFlush(w)}
           Part(v) == Copy(Buffered(v, sec, IF v.val = 0 THEN Erased ELSE v.read))
<1>1. WriteTurn(w, value) =
         IF w.left = 0 THEN {w}
         ELSE IF off = 0 /\ w.left >= SectorUnits THEN {Moved(v, v.val * SectorUnits) : v \in some}
         ELSE IF f.at = sec THEN {Copy(w)} ELSE {Part(v) : v \in Fetch(w, sec)}
  BY Zenon DEF WriteTurn
<1>2. \A v : Sound(r, v) => Sound(r, Marked(v))
  BY SoundField
<1> HIDE DEF Marked, row, m
<1>3. \A v : Sound(r, v) => Sound(r, Set(v))
  BY <1>2, SoundField
<1> HIDE DEF Set
<1>4. \A v : Sound(r, v) => Sound(r, Copy(v))
  BY <1>3, SoundMoved
<1> HIDE DEF Copy
<1>5. \A v : Sound(r, v) => Sound(r, Part(v))
  BY <1>4, SoundBuffered
<1> HIDE DEF Part, units, sec, off, f
<1>6. \A v \in Fetch(w, sec) : Sound(r, v)
  BY SoundFetch
<1>7. \A v \in some : Sound(r, v)
  BY SoundFFlush, SoundBuffered, SoundWriteSectors
<1> HIDE DEF some
<1>8. \A v \in some : Sound(r, Moved(v, v.val * SectorUnits))
  BY <1>7, SoundMoved
<1> QED BY <1>1, <1>4, <1>5, <1>6, <1>8

Writing == INSTANCE Induction_proofs WITH
    Step <- LAMBDA a, b, v, k : WriteTurn(v, a),
    Good <- LAMBDA r, w : Sound(r, w) /\ ~r.quiet

\* fl_fwrite
LEMMA SoundFWriteLoop ==
    ASSUME NEW r, NEW w, Sound(r, w), ~r.quiet, NEW n, NEW value
    PROVE  \A v \in FWriteLoop(w, n, value) : Sound(r, v)
<1> DEFINE begin == [w EXCEPT !.left = n]
<1>1. Sound(r, begin)
  BY SoundElse
<1>2. FWriteLoop(w, n, value) = Times(n, LAMBDA v : WriteTurn(v, value), {begin})
  BY Zenon DEF FWriteLoop
<1> HIDE DEF begin
<1>3. n \in Nat => \A v \in Writing!Steps(value, 0, {begin})[n] : Sound(r, v) /\ ~r.quiet
  <2>1. \A v : Sound(r, v) /\ ~r.quiet => \A k \in 1 .. n :
           \A u \in WriteTurn(v, value) : Sound(r, u) /\ ~r.quiet
    BY SoundWriteTurn
  <2> QED BY <1>1, <2>1, Writing!StepsKeep
<1>4. Times(n, LAMBDA v : WriteTurn(v, value), {begin}) =
         IF n \in Nat THEN Writing!Steps(value, 0, {begin})[n] ELSE {begin}
  BY DEF Times, Turns, Writing!Steps
<1> QED BY <1>1, <1>2, <1>3, <1>4

\* What fl_fclose does behind fl_fflush: the length goes to the entry, then the handle is free.
Lengthened(v) ==
    IF ~File(v).changed THEN {v}
    ELSE Result(UpdateFileLength(v, File(v).parent, File(v).short, File(v).len), "ok")
GivenBack(u) == Result(Purge(FreeFile(u)), "ok")

\* The length of a file is written if it has changed.
LEMMA SoundLengthened ==
    ASSUME NEW r, NEW w, Sound(r, w)
    PROVE  \A v \in Lengthened(w) : Sound(r, v)
  BY SoundUpdateFileLength, SoundResult DEF Lengthened

LEMMA CloseIs ==
    ASSUME NEW w
    PROVE  Close(w) = UNION {UNION {GivenBack(u) : u \in Lengthened(v)} : v \in FFlush(w)}
  BY Zenon DEF Close, GivenBack, Lengthened

\* fl_fclose
LEMMA SoundClose ==
    ASSUME NEW r, NEW w, Sound(r, w), ~r.keeps, r.quiet => ~r.dirty
    PROVE  \A v \in Close(w) : Sound(r, v)
<1>1. ASSUME NEW u, Sound(r, u) PROVE \A v \in GivenBack(u) : Sound(r, v)
  <2>1. \A v \in Purge(FreeFile(u)) : Sound(r, v)
    BY <1>1, SoundFreeFile, SoundPurge
  <2> QED BY <2>1, SoundResult DEF GivenBack
<1>2. ASSUME NEW v \in FFlush(w), NEW u \in Lengthened(v) PROVE Sound(r, u)
  BY SoundFFlush, SoundLengthened
<1> QED BY <1>1, <1>2, CloseIs
-----------------------------------------------------------------------------
(***************************************************************************)
(* The calls.                                                              *)
(***************************************************************************)
\* A call, of which only the coherence of the buffers is asked.
AnyCall == [quiet |-> FALSE, keeps |-> FALSE, faults |-> MaxFaults]

\* The buffers are coherent between the calls.
Calm == Sound(AnyCall, World)

\* fl_init and fl_attach_media: the buffers hold nothing.
LEMMA CalmAtFirst == Init => Calm
<1> SUFFICES ASSUME Init PROVE Calm
  OBVIOUS
<1>1. PICK type \in Types :
         disk = EmptyDisk(type) /\ fs = [buf |-> FatInit, hint |-> 0, type |-> type, cur |-> NoCur]
  BY DEF Init
<1>2. fl.file = [h \in Handles |-> NoFile]
  BY DEF Init
<1>3. /\ {"disk", "buf", "file", "h", "free", "open", "faults", "rc", "ptr"} \subseteq DOMAIN World
      /\ World.disk = disk /\ World.buf = fs.buf /\ World.file = fl.file
      /\ World.faults = faults
  BY DEF World
<1>4. {"dirty", "path"} \subseteq DOMAIN NoFile
  BY DEF NoFile
<1>5. Shaped(World)
  BY <1>2, <1>3, <1>4 DEF Shaped
<1>6. "table" \in DOMAIN disk /\ DOMAIN disk.table = 0 .. FsInfo
  BY <1>1 DEF EmptyDisk
<1>7. \A i \in 1 .. Buffers : fs.buf[i] = NoBuffer
  BY <1>1 DEF FatInit
<1>8. IsList(fs.buf)
  BY <1>1 DEF FatInit, IsList
<1>9. {"at", "dirty", "row"} \subseteq DOMAIN NoBuffer /\ NoBuffer.at = INVALID
  BY DEF NoBuffer
<1>10. Coherent(World)
  BY <1>3, <1>6, <1>7, <1>8, <1>9 DEF Coherent
<1>11. Spent(AnyCall, World)
  BY <1>3, FatAssumption DEF Spent, AnyCall, Init
<1>12. ~AnyCall.quiet /\ ~AnyCall.keeps
  BY DEF AnyCall
<1> QED BY <1>5, <1>10, <1>11, <1>12 DEF Calm, Sound

\* A call that ends in a sound world leaves one.
LEMMA CalmAfter ==
    ASSUME NEW w, Sound(AnyCall, w), Returns(w)
    PROVE  Calm'
<1>1. /\ {"disk", "buf", "file", "h", "free", "open", "faults", "rc", "ptr"} \subseteq DOMAIN World'
      /\ World'.disk = w.disk /\ World'.buf = w.buf /\ World'.file = w.file
      /\ World'.faults = w.faults
  BY DEF Returns, World
<1>2. Shaped(w) /\ Coherent(w) /\ Spent(AnyCall, w)
  BY DEF Sound
<1>3. Shaped(World')
  BY <1>1, <1>2 DEF Shaped
<1>4. Coherent(World')
  BY <1>1, <1>2 DEF Coherent
<1>5. Spent(AnyCall, World')
  BY <1>1, <1>2 DEF Spent
<1>6. ~AnyCall.quiet /\ ~AnyCall.keeps
  BY DEF AnyCall
<1>7. Sound(AnyCall, World')
  BY <1>3, <1>4, <1>5, <1>6 DEF Sound
<1> QED BY <1>7 DEF Calm

\* Between calls nothing changes.
LEMMA CalmStays == ASSUME Calm, UNCHANGED vars PROVE Calm'
<1>1. World' = World
  BY DEF vars, World
<1> QED BY <1>1 DEF Calm

\* A call for handle h begins in a sound world.
LEMMA CalmOn == ASSUME Calm, NEW h PROVE Sound(AnyCall, On(h))
<1>1. ~AnyCall.quiet /\ ~AnyCall.keeps
  BY DEF AnyCall
<1> DEFINE list == <<h>>
<1>2. On(h) = [World EXCEPT !.h = list]
  BY DEF On
<1> HIDE DEF list
<1>3. Sound(AnyCall, World)
  BY DEF Calm
<1>4. Sound(AnyCall, [World EXCEPT !.h = list])
  BY <1>1, <1>3, SoundList
<1> QED BY <1>2, <1>4, Zenon

\* fl_fopen, with both of its attempts to open and the creation between them.
LEMMA CalmFOpen ==
    ASSUME Calm, NEW p, NEW mode, FOpen(p, mode) PROVE Calm'
<1> DEFINE flags == Flags(mode)
           found == IF "read" \in flags THEN OpenFile(World, p) ELSE Result({World}, "none")
           made  == OrElse(found, "create" \in flags, LAMBDA w : Create(w, p, "file"))
           all   == OrElse(made, "read" \notin flags /\ "create" \in flags, LAMBDA w : OpenFile(w, p))
           done(w) == IF w.rc = "ok" THEN [w EXCEPT !.file[Head(w.h)].flags = flags] ELSE w
<1>1. PICK w \in all : Returns(done(w))
  BY DEF FOpen
<1>2. ~AnyCall.quiet /\ ~AnyCall.keeps /\ Sound(AnyCall, World)
  BY DEF AnyCall, Calm
<1> HIDE DEF flags
<1>3. \A u \in found : Sound(AnyCall, u)
  BY <1>2, SoundOpenFile, SoundResult
<1> HIDE DEF found
<1>4. \A u \in made : Sound(AnyCall, u)
  <2> SUFFICES ASSUME NEW v \in found, NEW u,
                      u = v \/ u \in Create([v EXCEPT !.rc = "ok"], p, "file")
               PROVE  Sound(AnyCall, u)
    BY DEF OrElse
  <2>1. Sound(AnyCall, v) /\ Sound(AnyCall, [v EXCEPT !.rc = "ok"])
    BY <1>3, SoundElse
  <2> QED BY <1>2, <2>1, SoundCreate
<1> HIDE DEF made
<1>5. \A u \in all : Sound(AnyCall, u)
  <2> SUFFICES ASSUME NEW v \in made, NEW u,
                      u = v \/ u \in OpenFile([v EXCEPT !.rc = "ok"], p)
               PROVE  Sound(AnyCall, u)
    BY DEF OrElse
  <2>1. Sound(AnyCall, v) /\ Sound(AnyCall, [v EXCEPT !.rc = "ok"])
    BY <1>4, SoundElse
  <2> QED BY <1>2, <2>1, SoundOpenFile
<1> HIDE DEF all
<1>6. Sound(AnyCall, done(w))
  <2>1. Sound(AnyCall, w)
    BY <1>5
  <2>2. Sound(AnyCall, [w EXCEPT !.file[Head(w.h)].flags = flags])
    BY <1>2, <2>1, SoundField
  <2> QED BY <2>1, <2>2
<1> HIDE DEF done
<1> QED BY <1>1, <1>6, CalmAfter

\* fl_remove
LEMMA CalmRemoveFile ==
    ASSUME Calm, NEW p, RemoveFile(p) PROVE Calm'
<1> DEFINE Gone(u) == Then(MarkFileDeleted(u, File(u).parent, File(u).short), Close)
           Rest(v) == UNION {Gone(u) : u \in FreeChain(v, File(v).first)}
<1>1. PICK w \in Then(OpenFile(World, p), Rest) : Returns(w)
  BY DEF RemoveFile
<1>2. ~AnyCall.quiet /\ ~AnyCall.keeps /\ Sound(AnyCall, World)
  BY DEF AnyCall, Calm
<1>3. \A u : Sound(AnyCall, u) => \A v \in Gone(u) : Sound(AnyCall, v)
  BY <1>2, SoundMarkFileDeleted, SoundClose DEF Then
<1> HIDE DEF Gone
<1>4. \A u : Sound(AnyCall, u) => \A v \in Rest(u) : Sound(AnyCall, v)
  BY <1>2, <1>3, SoundFreeChain
<1> HIDE DEF Rest
<1>5. Sound(AnyCall, w)
  BY <1>1, <1>2, <1>4, SoundOpenFile DEF Then
<1> QED BY <1>1, <1>5, CalmAfter

\* fl_createdirectory
LEMMA CalmMakeDirectory ==
    ASSUME Calm, NEW p, MakeDirectory(p) PROVE Calm'
<1>1. ~AnyCall.quiet /\ ~AnyCall.keeps /\ Sound(AnyCall, World)
  BY DEF AnyCall, Calm
<1>2. PICK w \in CreateDirectory(World, p) : Returns(w)
  BY DEF MakeDirectory
<1>3. Sound(AnyCall, w)
  BY <1>1, <1>2, SoundCreateDirectory
<1> QED BY <1>2, <1>3, CalmAfter

\* The step is a call that ends in a sound world.
Ends(r) == \E w : Sound(r, w) /\ Returns(w)

\* fl_fflush
LEMMA EndsFlush ==
    ASSUME NEW r, NEW h, Sound(r, On(h)), r.quiet => ~r.dirty, FFlushCall(h) PROVE Ends(r)
<1>1. PICK w \in FFlush(On(h)) : Returns(w)
  BY DEF FFlushCall
<1> QED BY <1>1, SoundFFlush DEF Ends

\* fl_fclose
LEMMA EndsClose ==
    ASSUME NEW r, NEW h, Sound(r, On(h)), ~r.keeps, r.quiet => ~r.dirty, FClose(h) PROVE Ends(r)
<1>1. PICK w \in Close(On(h)) : Returns(w)
  BY DEF FClose
<1> QED BY <1>1, SoundClose DEF Ends

\* fl_fread
LEMMA EndsRead ==
    ASSUME NEW r, NEW h, Sound(r, On(h)), r.quiet => ~r.dirty, NEW n, FRead(h, n) PROVE Ends(r)
<1>1. PICK m : \E w \in FReadLoop(On(h), m) : Returns(w)
  BY Zenon DEF FRead
<1>2. PICK w \in FReadLoop(On(h), m) : Returns(w)
  BY <1>1
<1> QED BY <1>2, SoundFReadLoop DEF Ends

\* fl_fwrite
LEMMA EndsWrite ==
    ASSUME NEW r, NEW h, Sound(r, On(h)), ~r.quiet, NEW n, FWrite(h, n) PROVE Ends(r)
<1> DEFINE f   == fl.file[h]
           pos == IF "append" \in f.flags THEN f.len ELSE f.pos
           begin == [On(h) EXCEPT !.file[h].pos = pos]
           longer(w) == [w EXCEPT !.file[h].len = IF @ < w.file[h].pos THEN w.file[h].pos ELSE @]
           changed(w) == w.file[h].changed \/ w.file[h].pos > f.len
           done(w) == [longer(w) EXCEPT !.file[h].changed = changed(w)]
<1>1. PICK w \in FWriteLoop(begin, n, calls) :
         Returns([w EXCEPT !.file[h].len = IF @ < w.file[h].pos THEN w.file[h].pos ELSE @,
                           !.file[h].changed = @ \/ w.file[h].pos > f.len])
  BY DEF FWrite
<1>4. Sound(r, begin)
  BY SoundField
<1> HIDE DEF begin
<1>5. Sound(r, w)
  BY <1>1, <1>4, SoundFWriteLoop
<1>6. Sound(r, longer(w))
  BY <1>5, SoundField
<1>7. Returns(done(w))
  BY <1>1, Zenon
<1> HIDE DEF longer, changed
<1>8. Sound(r, done(w))
  BY <1>6, SoundField
<1> QED BY <1>7, <1>8 DEF Ends

\* fl_fseek gives up the buffer of the handle.
LEMMA EndsSeek ==
    ASSUME NEW r, NEW h, Sound(r, On(h)), r.quiet => h = Head(r.h), NEW origin, NEW off,
           FSeek(h, origin, off)
    PROVE  Ends(r)
<1> DEFINE w1 == [On(h) EXCEPT !.file[h].at = INVALID]
           w2 == [w1 EXCEPT !.file[h].dirty = FALSE]
           w3 == [w2 EXCEPT !.file[h].row = Erased]
           w4(pos) == [w3 EXCEPT !.file[h].pos = pos]
<1>1. PICK pos : Returns([On(h) EXCEPT !.file[h].at = INVALID, !.file[h].dirty = FALSE,
                                       !.file[h].row = Erased, !.file[h].pos = pos])
  BY Zenon DEF FSeek
<1>2. Returns(w4(pos))
  BY <1>1, Zenon
<1>3. ASSUME NEW w, Sound(r, w), r.quiet PROVE h = Head(w.h)
  BY <1>3 DEF Sound, Kept
<1>4. Sound(r, w1)
  BY <1>3, SoundField
<1> HIDE DEF w1
<1>5. Sound(r, w2)
  BY <1>3, <1>4, SoundField
<1> HIDE DEF w2
<1>6. Sound(r, w3)
  BY <1>3, <1>5, SoundField
<1> HIDE DEF w3
<1>7. Sound(r, w4(pos))
  BY <1>3, <1>6, SoundField
<1> HIDE DEF w4
<1> QED BY <1>2, <1>7 DEF Ends

\* fl_listdirectory
LEMMA EndsList ==
    ASSUME NEW r, Sound(r, World), NEW p, ListDirectory(p) PROVE Ends(r)
<1> DEFINE Rest(v) == Result(Scan(v, v.dir, [by |-> "none", it |-> 0]), "ok")
<1>1. PICK w \in Then(OpenDirectory(World, p), Rest) : Returns(w)
  BY DEF ListDirectory
<1>2. \A v : Sound(r, v) => \A u \in Rest(v) : Sound(r, u)
  BY SoundScan, SoundResult
<1> HIDE DEF Rest
<1>3. Sound(r, w)
  BY <1>1, <1>2, SoundOpenDirectory DEF Then
<1> QED BY <1>1, <1>3 DEF Ends

\* fl_shutdown
LEMMA EndsShutdown ==
    ASSUME NEW r, Sound(r, World), Shutdown PROVE Ends(r)
<1>1. PICK w \in Purge(World) : Returns(w)
  BY DEF Shutdown
<1> QED BY <1>1, SoundPurge DEF Ends

\* Every call leaves the buffers coherent.
LEMMA CalmNext == Calm /\ [Next]_vars => Calm'
<1> SUFFICES ASSUME Calm, [Next]_vars PROVE Calm'
  OBVIOUS
<1>1. ~AnyCall.quiet /\ ~AnyCall.keeps /\ Sound(AnyCall, World)
  BY DEF AnyCall, Calm
<1>2. Ends(AnyCall) => Calm'
  BY CalmAfter DEF Ends
<1>3. \A h : Sound(AnyCall, On(h))
  BY CalmOn
<1>4. CASE \E p \in FilePaths, mode \in Modes : FOpen(p, mode)
  BY <1>4, CalmFOpen
<1>5. CASE \E h \in held : FFlushCall(h)
  BY <1>1, <1>2, <1>3, <1>5, EndsFlush
<1>6. CASE \E h \in held : FClose(h)
  BY <1>1, <1>2, <1>3, <1>6, EndsClose
<1>7. CASE \E h \in held, n \in ReadLengths : FRead(h, n)
  BY <1>1, <1>2, <1>3, <1>7, EndsRead
<1>8. CASE \E h \in held, n \in WriteLengths : FWrite(h, n)
  BY <1>1, <1>2, <1>3, <1>8, EndsWrite
<1>9. CASE \E h \in held, s \in Seeks : FSeek(h, s[1], s[2])
  BY <1>1, <1>2, <1>3, <1>9, EndsSeek
<1>10. CASE \E p \in FilePaths : RemoveFile(p)
  BY <1>10, CalmRemoveFile
<1>11. CASE \E p \in DirPaths : MakeDirectory(p)
  BY <1>11, CalmMakeDirectory
<1>12. CASE \E p \in {<<>>} \cup {q \in DirPaths : kind[q] = "dir"} : ListDirectory(p)
  BY <1>1, <1>2, <1>12, EndsList
<1>13. CASE Shutdown
  BY <1>1, <1>2, <1>13, EndsShutdown
<1>14. CASE UNCHANGED vars
  BY <1>14, CalmStays
<1> QED BY <1>4, <1>5, <1>6, <1>7, <1>8, <1>9, <1>10, <1>11, <1>12, <1>13, <1>14 DEF Next

\* The buffers are coherent after any sequence of calls, whichever reads and writes fail.
THEOREM SpecCalm == Spec => []Calm
<1>1. Init => Calm
  BY CalmAtFirst
<1>2. Calm /\ [Next]_vars => Calm'
  BY CalmNext
<1> QED BY <1>1, <1>2, PTL DEF Spec

\* A buffer that is not dirty holds what the device holds, and no sector of the table is in
\* two buffers, for any number of FAT_BUFFERS: what fatfs_fat_read_sector finds in its list
\* is never out of date, also after fatfs_fat_writeback or a read has failed.
THEOREM BuffersCohere == Spec => []BuffersAreCoherent
<1>1. Calm => BuffersAreCoherent
  <2> SUFFICES ASSUME Calm PROVE BuffersAreCoherent
    OBVIOUS
  <2>1. World.buf = fs.buf /\ World.disk = disk
    BY DEF World
  <2>2. Coherent(World)
    BY DEF Calm, Sound
  <2> QED BY <2>1, <2>2 DEF Coherent, BuffersAreCoherent
<1> QED BY <1>1, SpecCalm, PTL
-----------------------------------------------------------------------------
(***************************************************************************)
(* Calls that leave the table as it was.                                   *)
(***************************************************************************)
\* The row of sector s that the library would find.
Found(w, s) ==
    IF \E i \in 1 .. Buffers : w.buf[i].at = s
    THEN w.buf[CHOOSE i \in 1 .. Buffers : w.buf[i].at = s].row
    ELSE w.disk.table[s]

\* A quiet call, for the handle in h; no data of that is to be written unless dirty.
Still(h, dirty) ==
    [quiet |-> TRUE, keeps |-> FALSE, faults |-> faults, rows |-> [s \in 0 .. FsInfo |-> Found(World, s)], h |-> h, dirty |-> dirty]

\* There is one row for each sector,
LEMMA FoundIsFinds ==
    ASSUME NEW w, NEW s
    PROVE  Finds(w, s, Found(w, s))
  BY DEF Finds, Found

\* and where the buffers are coherent only one.
LEMMA FindsIsFound ==
    ASSUME NEW w, Coherent(w), NEW s \in 0 .. FsInfo, NEW row, Finds(w, s, row)
    PROVE  Found(w, s) = row
<1>1. CASE \E i \in 1 .. Buffers : w.buf[i].at = s
  <2> DEFINE i == CHOOSE i \in 1 .. Buffers : w.buf[i].at = s
  <2>1. i \in 1 .. Buffers /\ w.buf[i].at = s /\ Found(w, s) = w.buf[i].row
    BY <1>1 DEF Found
  <2> HIDE DEF i
  <2>2. s # INVALID
    BY DEF INVALID
  <2>3. \A j \in 1 .. Buffers : w.buf[j].at = s => j = i
    BY <2>1, <2>2 DEF Coherent
  <2> QED BY <2>1, <2>3 DEF Finds
<1>2. CASE ~ \E i \in 1 .. Buffers : w.buf[i].at = s
  BY <1>2 DEF Finds, Found
<1> QED BY <1>1, <1>2

\* The entry of a cluster is in a sector that the device has.
LEMMA SectorIsThere ==
    ASSUME NEW c \in 0 .. Entries - 1
    PROVE  SectorOf(c) \in 0 .. FsInfo
<1> DEFINE d == SectorEntries
<1>1. d \in Nat /\ d > 0 /\ Entries \in Nat /\ c \in Nat /\ c < Entries /\ Entries % d = 0
  BY FatTableAssumption
<1>2. SectorOf(c) = c \div d
  BY <1>1 DEF SectorOf, END
<1>3. FsInfo = Entries \div d
  BY DEF FsInfo, FatSectors
<1> HIDE DEF d
<1>4. c \div d \in Nat /\ Entries \div d \in Nat /\ c \div d <= Entries \div d
  BY <1>1
<1> QED BY <1>2, <1>3, <1>4

\* A call for a handle without data to be written begins as a quiet one may.
LEMMA StillOn ==
    ASSUME Calm, NEW h, ~fl.file[h].dirty
    PROVE  Sound(Still(<<h>>, FALSE), On(h))
<1> DEFINE r == Still(<<h>>, FALSE)
<1>1. Sound(AnyCall, On(h)) /\ Shaped(World)
  BY CalmOn DEF Calm, Sound
<1>2. /\ On(h).disk = World.disk /\ On(h).buf = World.buf /\ On(h).file = fl.file
      /\ On(h).h = <<h>> /\ On(h).faults = faults
  BY <1>1 DEF Shaped, On, World
<1>3. /\ r.rows = [s \in 0 .. FsInfo |-> Found(World, s)] /\ r.h = <<h>> /\ r.quiet = TRUE
      /\ r.faults = faults /\ ~r.keeps
  BY DEF Still
<1> HIDE DEF r
<1>4. ASSUME NEW s \in 0 .. FsInfo PROVE Finds(On(h), s, r.rows[s])
  <2>1. Finds(World, s, Found(World, s))
    BY FoundIsFinds
  <2> QED BY <1>2, <1>3, <2>1 DEF Finds
<1>5. ~On(h).file[Head(r.h)].dirty
  BY <1>2, <1>3
<1>6. Kept(r, On(h))
  BY <1>2, <1>3, <1>4, <1>5 DEF Kept
<1>7. Spent(r, On(h))
  BY <1>1, <1>2, <1>3 DEF Sound, Spent
<1>8. Sound(r, On(h))
  BY <1>1, <1>3, <1>6, <1>7 DEF Sound
<1> QED BY <1>8 DEF r

\* So does a call that is not for a handle.
LEMMA StillWorld ==
    ASSUME Calm PROVE Sound(Still(<<>>, TRUE), World)
<1> DEFINE r == Still(<<>>, TRUE)
<1>1. Shaped(World) /\ Coherent(World) /\ Spent(AnyCall, World)
  BY DEF Calm, Sound
<1>2. /\ r.rows = [s \in 0 .. FsInfo |-> Found(World, s)] /\ r.h = <<>> /\ r.dirty = TRUE
      /\ r.faults = faults /\ ~r.keeps
  BY DEF Still
<1>3. World.h = <<>> /\ World.faults = faults
  BY DEF World
<1> HIDE DEF r
<1>4. ASSUME NEW s \in 0 .. FsInfo PROVE Finds(World, s, r.rows[s])
  <2>1. Finds(World, s, Found(World, s))
    BY FoundIsFinds
  <2> QED BY <1>2, <2>1
<1>5. Kept(r, World)
  BY <1>2, <1>3, <1>4 DEF Kept
<1>6. Spent(r, World)
  BY <1>1, <1>2, <1>3 DEF Spent
<1>7. Sound(r, World)
  BY <1>1, <1>2, <1>5, <1>6 DEF Sound
<1> QED BY <1>7 DEF r

\* The table is what is found in its sectors.
LEMMA TableOfFound ==
    ASSUME NEW w
    PROVE  Table(w.disk, w.buf) = [c \in 0 .. Entries - 1 |-> Found(w, SectorOf(c))[At(c)]]
<1>1. ASSUME NEW c \in 0 .. Entries - 1
      PROVE  Found(w, SectorOf(c))[At(c)] =
                IF \E i \in 1 .. Buffers : w.buf[i].at = SectorOf(c)
                THEN w.buf[CHOOSE i \in 1 .. Buffers : w.buf[i].at = SectorOf(c)].row[At(c)]
                ELSE w.disk.table[SectorOf(c)][At(c)]
  BY DEF Found
<1> QED BY <1>1 DEF Table

\* After a quiet call the table is what it was.
LEMMA KeptAfter ==
    ASSUME NEW h, NEW dirty, Ends(Still(h, dirty))
    PROVE  Table(disk', fs'.buf) = TheTable
<1> DEFINE r == Still(h, dirty)
<1>1. PICK w : Sound(r, w) /\ Returns(w)
  BY DEF Ends
<1>2. disk' = w.disk /\ fs'.buf = w.buf
  BY <1>1 DEF Returns
<1>3. r.quiet = TRUE /\ r.rows = [s \in 0 .. FsInfo |-> Found(World, s)]
  BY DEF Still
<1> HIDE DEF r
<1>4. ASSUME NEW c \in 0 .. Entries - 1
      PROVE  Found(w, SectorOf(c)) = Found(World, SectorOf(c))
  <2>1. SectorOf(c) \in 0 .. FsInfo
    BY SectorIsThere
  <2>2. Coherent(w) /\ Finds(w, SectorOf(c), Found(World, SectorOf(c)))
    BY <1>1, <1>3, <2>1 DEF Sound, Kept
  <2> QED BY <2>1, <2>2, FindsIsFound
<1>5. Table(w.disk, w.buf) = [c \in 0 .. Entries - 1 |-> Found(w, SectorOf(c))[At(c)]]
  BY TableOfFound
<1>6. TheTable = [c \in 0 .. Entries - 1 |-> Found(World, SectorOf(c))[At(c)]]
  <2>1. World.disk = disk /\ World.buf = fs.buf
    BY DEF World
  <2>2. Table(World.disk, World.buf) = [c \in 0 .. Entries - 1 |-> Found(World, SectorOf(c))[At(c)]]
    BY TableOfFound
  <2> QED BY <2>1, <2>2 DEF TheTable
<1> QED BY <1>2, <1>4, <1>5, <1>6

\* Reads, seeks, listings, closing, flushing and shutting down are quiet where no handle
\* has data to be written.
LEMMA QuietNext ==
    ASSUME Calm, [Next]_vars,
           seen'.op \in {"read", "seek", "list", "close", "flush", "shutdown"},
           \A h \in held : ~fl.file[h].dirty
    PROVE  Table(disk', fs'.buf) = TheTable
<1>1. ASSUME NEW h \in held
      PROVE  /\ Sound(Still(<<h>>, FALSE), On(h))
             /\ ~Still(<<h>>, FALSE).dirty /\ ~Still(<<h>>, FALSE).keeps
             /\ h = Head(Still(<<h>>, FALSE).h)
  BY StillOn DEF Still
<1>2. CASE \E p \in FilePaths, mode \in Modes : FOpen(p, mode)
  <2>1. seen' = Call("open")
    BY <1>2 DEF FOpen
  <2> QED BY <2>1 DEF Call
<1>3. CASE \E h \in held : FFlushCall(h)
  <2>1. PICK h \in held : FFlushCall(h)
    BY <1>3
  <2>2. Ends(Still(<<h>>, FALSE))
    BY <1>1, <2>1, EndsFlush
  <2> QED BY <2>2, KeptAfter
<1>4. CASE \E h \in held : FClose(h)
  <2>1. PICK h \in held : FClose(h)
    BY <1>4
  <2>2. Ends(Still(<<h>>, FALSE))
    BY <1>1, <2>1, EndsClose
  <2> QED BY <2>2, KeptAfter
<1>5. CASE \E h \in held, n \in ReadLengths : FRead(h, n)
  <2>1. PICK h \in held, n \in ReadLengths : FRead(h, n)
    BY <1>5
  <2>2. Ends(Still(<<h>>, FALSE))
    BY <1>1, <2>1, EndsRead
  <2> QED BY <2>2, KeptAfter
<1>6. CASE \E h \in held, n \in WriteLengths : FWrite(h, n)
  <2>1. seen' = Call("write")
    BY <1>6 DEF FWrite
  <2> QED BY <2>1 DEF Call
<1>7. CASE \E h \in held, s \in Seeks : FSeek(h, s[1], s[2])
  <2>1. PICK h \in held, s \in Seeks : FSeek(h, s[1], s[2])
    BY <1>7
  <2>2. Ends(Still(<<h>>, FALSE))
    BY <1>1, <2>1, EndsSeek
  <2> QED BY <2>2, KeptAfter
<1>8. CASE \E p \in FilePaths : RemoveFile(p)
  <2>1. seen' = Call("remove")
    BY <1>8 DEF RemoveFile
  <2> QED BY <2>1 DEF Call
<1>9. CASE \E p \in DirPaths : MakeDirectory(p)
  <2>1. seen' = Call("mkdir")
    BY <1>9 DEF MakeDirectory
  <2> QED BY <2>1 DEF Call
<1>10. CASE \E p \in {<<>>} \cup {q \in DirPaths : kind[q] = "dir"} : ListDirectory(p)
  <2>1. Ends(Still(<<>>, TRUE))
    BY <1>10, StillWorld, EndsList
  <2> QED BY <2>1, KeptAfter
<1>11. CASE Shutdown
  <2>1. Ends(Still(<<>>, TRUE))
    BY <1>11, StillWorld, EndsShutdown
  <2> QED BY <2>1, KeptAfter
<1>12. CASE UNCHANGED vars
  BY <1>12 DEF vars, TheTable
<1> QED BY <1>2, <1>3, <1>4, <1>5, <1>6, <1>7, <1>8, <1>9, <1>10, <1>11, <1>12 DEF Next

\* A call that allocates nothing leaves every entry of the table as it was, whatever it evicts
\* from the buffers or fails to read (fatfs_fat_read_sector, fatfs_fat_purge).
THEOREM LookingKeepsTheTable == Spec => TableIsKept
<1>1. Calm /\ [Next]_vars =>
        [/\ seen'.op \in {"read", "seek", "list", "close", "flush", "shutdown"}
         /\ \A h \in held : ~fl.file[h].dirty
         => Table(disk', fs'.buf) = TheTable]_vars
  BY QuietNext
<1> QED BY <1>1, SpecCalm, PTL DEF Spec, TableIsKept
-----------------------------------------------------------------------------
(***************************************************************************)
(* The lists of handles.                                                   *)
(***************************************************************************)
\* Each handle is in one of the two lists, once.
Split(free, open) ==
    /\ free \in Seq(Handles) /\ open \in Seq(Handles)
    /\ IsInjective(free) /\ IsInjective(open)
    /\ ToSet(free) \cap ToSet(open) = {} /\ ToSet(free) \cup ToSet(open) = Handles

\* fat_list_pop_head and fat_list_insert_last: the first free handle becomes the last open one.
LEMMA SplitTake ==
    ASSUME NEW free, NEW open, Split(free, open), free # <<>>
    PROVE  /\ Head(free) \in Handles /\ Head(free) \notin ToSet(open)
           /\ Split(Tail(free), Append(open, Head(free)))
           /\ ToSet(Append(open, Head(free))) = ToSet(open) \cup {Head(free)}
<1> DEFINE a == free[1]
           n == Len(free)
           m == Len(open)
           t == Tail(free)
           o == Append(open, a)
<1>1. /\ free \in Seq(Handles) /\ open \in Seq(Handles) /\ n \in Nat /\ n > 0 /\ m \in Nat
      /\ Head(free) = a /\ a \in Handles
      /\ DOMAIN free = 1 .. n /\ DOMAIN open = 1 .. m
  BY DEF Split
<1>2. /\ t \in Seq(Handles) /\ DOMAIN t = 1 .. n - 1
      /\ \A i \in 1 .. n - 1 : t[i] = free[i + 1]
  BY <1>1
<1>3. /\ o \in Seq(Handles) /\ DOMAIN o = 1 .. m + 1
      /\ o[m + 1] = a /\ \A i \in 1 .. m : o[i] = open[i]
  BY <1>1
<1>4. /\ \A i, j \in 1 .. n : free[i] = free[j] => i = j
      /\ \A i, j \in 1 .. m : open[i] = open[j] => i = j
      /\ \A i \in 1 .. n, j \in 1 .. m : free[i] # open[j]
      /\ \A x \in Handles : (\E i \in 1 .. n : free[i] = x) \/ (\E j \in 1 .. m : open[j] = x)
  <2>1. /\ ToSet(free) = {free[i] : i \in 1 .. n} /\ ToSet(open) = {open[j] : j \in 1 .. m}
    BY <1>1 DEF ToSet
  <2>2. /\ \A i, j \in 1 .. n : free[i] = free[j] => i = j
        /\ \A i, j \in 1 .. m : open[i] = open[j] => i = j
    BY <1>1, Zenon DEF Split, IsInjective
  <2>3. /\ \A i \in 1 .. n, j \in 1 .. m : free[i] # open[j]
    BY <2>1 DEF Split
  <2>4. \A x \in Handles : (\E i \in 1 .. n : free[i] = x) \/ (\E j \in 1 .. m : open[j] = x)
    BY <2>1 DEF Split
  <2> QED BY <2>2, <2>3, <2>4
<1> HIDE DEF n, m, t, o, a
<1>5. a = free[1]
  BY DEF a
<1>6. 1 \in 1 .. n /\ m + 1 \in 1 .. m + 1 /\ \A i \in 1 .. m : i \in 1 .. m + 1
  BY <1>1
<1>7. ToSet(t) = {t[i] : i \in 1 .. n - 1} /\ ToSet(o) = {o[j] : j \in 1 .. m + 1}
      /\ ToSet(open) = {open[j] : j \in 1 .. m}
  BY <1>1, <1>2, <1>3 DEF ToSet
<1>8. ToSet(o) = ToSet(open) \cup {a}
  <2>1. \A j \in 1 .. m + 1 : j = m + 1 \/ j \in 1 .. m
    BY <1>1
  <2> QED BY <1>3, <1>6, <1>7, <2>1
<1>9. a \notin ToSet(open)
  BY <1>4, <1>5, <1>6, <1>7
<1>10. IsInjective(t)
  <2>1. \A i, j \in 1 .. n - 1 : t[i] = t[j] => i = j
    <3> SUFFICES ASSUME NEW i \in 1 .. n - 1, NEW j \in 1 .. n - 1, t[i] = t[j] PROVE i = j
      OBVIOUS
    <3>1. i + 1 \in 1 .. n /\ j + 1 \in 1 .. n /\ free[i + 1] = free[j + 1]
      BY <1>1, <1>2
    <3>2. i + 1 = j + 1
      BY <1>4, <3>1
    <3> QED BY <3>2
  <2> QED BY <1>2, <2>1, Zenon DEF IsInjective
<1>11. IsInjective(o)
  <2>1. \A i, j \in 1 .. m + 1 : o[i] = o[j] => i = j
    <3> SUFFICES ASSUME NEW i \in 1 .. m + 1, NEW j \in 1 .. m + 1, o[i] = o[j] PROVE i = j
      OBVIOUS
    <3>1. (i = m + 1 \/ i \in 1 .. m) /\ (j = m + 1 \/ j \in 1 .. m)
      BY <1>1
    <3>2. \A k \in 1 .. m : o[k] # a
      BY <1>3, <1>7, <1>9
    <3> QED BY <1>3, <1>4, <3>1, <3>2
  <2> QED BY <1>3, <2>1, Zenon DEF IsInjective
<1>12. ToSet(t) \cap ToSet(o) = {}
  <2> SUFFICES ASSUME NEW i \in 1 .. n - 1 PROVE t[i] \notin ToSet(o)
    BY <1>7
  <2>1. i + 1 \in 1 .. n /\ i + 1 # 1 /\ t[i] = free[i + 1]
    BY <1>1, <1>2
  <2>2. free[i + 1] # a
    BY <1>4, <1>5, <1>6, <2>1
  <2>3. free[i + 1] \notin ToSet(open)
    BY <1>4, <1>7, <2>1
  <2> QED BY <1>8, <2>1, <2>2, <2>3
<1>13. ToSet(t) \cup ToSet(o) = Handles
  <2>1. ASSUME NEW x \in Handles PROVE x \in ToSet(t) \/ x \in ToSet(o)
    <3>1. CASE \E j \in 1 .. m : open[j] = x
      BY <1>7, <1>8, <3>1
    <3>2. CASE \E i \in 1 .. n : free[i] = x
      <4>1. PICK i \in 1 .. n : free[i] = x
        BY <3>2
      <4>2. i = 1 \/ (i - 1 \in 1 .. n - 1 /\ (i - 1) + 1 = i)
        BY <1>1
      <4>3. CASE i = 1
        BY <1>5, <1>8, <4>1, <4>3
      <4>4. CASE i - 1 \in 1 .. n - 1 /\ (i - 1) + 1 = i
        <5>1. t[i - 1] = x
          BY <1>2, <4>1, <4>4
        <5> QED BY <1>7, <4>4, <5>1
      <4> QED BY <4>2, <4>3, <4>4
    <3> QED BY <1>4, <3>1, <3>2
  <2>2. \A i \in 1 .. n - 1 : t[i] \in Handles
    <3>1. \A i \in 1 .. n - 1 : i + 1 \in 1 .. n
      BY <1>1
    <3>2. \A i \in 1 .. n : free[i] \in Handles
      BY <1>1
    <3> QED BY <1>2, <3>1, <3>2
  <2>3. \A j \in 1 .. m + 1 : o[j] \in Handles
    <3>1. \A j \in 1 .. m + 1 : j = m + 1 \/ j \in 1 .. m
      BY <1>1
    <3>2. \A j \in 1 .. m : open[j] \in Handles
      BY <1>1
    <3> QED BY <1>1, <1>3, <1>5, <3>1, <3>2
  <2> QED BY <1>7, <2>1, <2>2, <2>3
<1>14. Split(t, o)
  BY <1>2, <1>3, <1>10, <1>11, <1>12, <1>13 DEF Split
<1>15. Split(Tail(free), Append(open, Head(free)))
  BY <1>1, <1>14 DEF t, o
<1> QED BY <1>1, <1>8, <1>9, <1>15 DEF o

\* What fat_list_remove leaves of a list that has the node once.
LEMMA ListRemoved ==
    ASSUME NEW S, NEW s \in Seq(S), IsInjective(s), NEW h, h \in ToSet(s)
    PROVE  /\ ListRemove(s, h) \in Seq(S) /\ IsInjective(ListRemove(s, h))
           /\ ToSet(ListRemove(s, h)) = ToSet(s) \ {h}
<1> DEFINE n == Len(s)
           i == CHOOSE i \in DOMAIN s : s[i] = h
           r == SubSeq(s, 1, i - 1) \o SubSeq(s, i + 1, Len(s))
<1>1. n \in Nat /\ DOMAIN s = 1 .. n /\ \A k \in 1 .. n : s[k] \in S
  OBVIOUS
<1>2. i \in 1 .. n /\ s[i] = h
  BY <1>1 DEF ToSet
<1>3. ListRemove(s, h) = r
  BY Zenon DEF ListRemove, RemoveAt
<1>4. \A j, k \in 1 .. n : s[j] = s[k] => j = k
  BY <1>1, Zenon DEF IsInjective
<1> HIDE DEF i
<1>5. /\ r \in Seq(S) /\ Len(r) = n - 1 /\ DOMAIN r = 1 .. n - 1
      /\ \A k \in 1 .. n - 1 : r[k] = IF k < i THEN s[k] ELSE s[k + 1]
  <2> DEFINE p == SubSeq(s, 1, i - 1)
             q == SubSeq(s, i + 1, n)
  <2>1. p \in Seq(S) /\ Len(p) = i - 1 /\ \A k \in 1 .. i - 1 : p[k] = s[k]
    BY <1>1, <1>2
  <2>2. q \in Seq(S) /\ Len(q) = n - i /\ \A k \in 1 .. n - i : q[k] = s[i + k]
    <3>1. /\ i + 1 \in Int /\ n \in Int
          /\ \A k \in i + 1 .. n : s[k] \in S
      BY <1>1, <1>2
    <3>2. /\ q \in Seq(S)
          /\ Len(q) = IF i + 1 <= n THEN n - (i + 1) + 1 ELSE 0
          /\ \A k \in 1 .. n - (i + 1) + 1 : q[k] = s[(i + 1) + k - 1]
      <4> HIDE DEF n
      <4> QED BY <3>1, SubSeqProperties
    <3>3. n - (i + 1) + 1 = n - i /\ \A k \in 1 .. n - i : (i + 1) + k - 1 = i + k
      BY <1>1, <1>2
    <3> HIDE DEF q, n
    <3>4. Len(q) = n - i
      BY <1>1, <1>2, <3>2
    <3> QED BY <3>2, <3>3, <3>4
  <2>3. r = p \o q
    OBVIOUS
  <2> HIDE DEF p, q, r, n
  <2>4. r \in Seq(S) /\ Len(r) = n - 1 /\ DOMAIN r = 1 .. n - 1
    <3>1. r \in Seq(S) /\ Len(r) = Len(p) + Len(q)
      BY <2>1, <2>2, <2>3, ConcatProperties
    <3>2. Len(p) + Len(q) = n - 1
      BY <1>1, <1>2, <2>1, <2>2
    <3>3. DOMAIN r = 1 .. Len(r)
      BY <3>1
    <3> QED BY <3>1, <3>2, <3>3
  <2>5. ASSUME NEW k \in 1 .. n - 1 PROVE r[k] = IF k < i THEN s[k] ELSE s[k + 1]
    <3>1. CASE k < i
      <4>1. k \in 1 .. i - 1 /\ r[k] = p[k]
        BY <1>1, <1>2, <2>1, <2>2, <2>3, <3>1
      <4> QED BY <2>1, <3>1, <4>1
    <3>2. CASE ~(k < i)
      <4>1. k - (i - 1) \in 1 .. n - i /\ r[k] = q[k - (i - 1)]
        BY <1>1, <1>2, <2>1, <2>2, <2>3, <3>2
      <4>2. i + (k - (i - 1)) = k + 1
        BY <1>1, <1>2
      <4>3. q[k - (i - 1)] = s[i + (k - (i - 1))]
        BY <2>2, <4>1
      <4> QED BY <3>2, <4>1, <4>2, <4>3
    <3> QED BY <3>1, <3>2
  <2> QED BY <2>4, <2>5
<1> HIDE DEF r, n
<1> DEFINE From(k) == IF k < i THEN k ELSE k + 1
<1>6. ASSUME NEW k \in 1 .. n - 1 PROVE From(k) \in 1 .. n /\ From(k) # i /\ r[k] = s[From(k)]
  BY <1>1, <1>2, <1>5
<1>7. IsInjective(r)
  <2>1. \A j, k \in 1 .. n - 1 : r[j] = r[k] => j = k
    <3> SUFFICES ASSUME NEW j \in 1 .. n - 1, NEW k \in 1 .. n - 1, r[j] = r[k] PROVE j = k
      OBVIOUS
    <3>1. From(j) = From(k)
      <4> HIDE DEF From
      <4> QED BY <1>4, <1>6
    <3> QED BY <1>1, <1>2, <3>1
  <2> QED BY <1>5, <2>1, Zenon DEF IsInjective
<1>8. ToSet(r) = {r[k] : k \in 1 .. n - 1} /\ ToSet(s) = {s[k] : k \in 1 .. n}
  BY <1>1, <1>5 DEF ToSet
<1>9. ToSet(r) = ToSet(s) \ {h}
  <2>1. ASSUME NEW k \in 1 .. n - 1 PROVE r[k] \in ToSet(s) \ {h}
    <3> HIDE DEF From
    <3>1. From(k) \in 1 .. n /\ s[From(k)] # s[i] /\ r[k] = s[From(k)]
      BY <1>2, <1>4, <1>6
    <3> QED BY <1>2, <1>8, <3>1
  <2>2. ASSUME NEW k \in 1 .. n, s[k] # h PROVE s[k] \in ToSet(r)
    <3>1. CASE k < i
      <4>1. k \in 1 .. n - 1 /\ r[k] = s[k]
        BY <1>1, <1>2, <1>5, <3>1
      <4> QED BY <1>8, <4>1
    <3>2. CASE ~(k < i)
      <4>1. k - 1 \in 1 .. n - 1 /\ ~(k - 1 < i) /\ (k - 1) + 1 = k
        BY <1>1, <1>2, <2>2, <3>2
      <4>2. r[k - 1] = s[k]
        BY <1>5, <4>1
      <4> QED BY <1>8, <4>1, <4>2
    <3> QED BY <3>1, <3>2
  <2> QED BY <1>8, <2>1, <2>2
<1> QED BY <1>3, <1>5, <1>7, <1>9

\* _free_file: an open handle becomes the last free one.
LEMMA SplitGive ==
    ASSUME NEW free, NEW open, Split(free, open), NEW h, h \in ToSet(open)
    PROVE  /\ Split(Append(free, h), ListRemove(open, h))
           /\ ToSet(ListRemove(open, h)) = ToSet(open) \ {h}
<1> DEFINE n == Len(free)
           f == Append(free, h)
<1>1. /\ ListRemove(open, h) \in Seq(Handles) /\ IsInjective(ListRemove(open, h))
      /\ ToSet(ListRemove(open, h)) = ToSet(open) \ {h}
  BY ListRemoved DEF Split
<1>2. /\ free \in Seq(Handles) /\ n \in Nat /\ DOMAIN free = 1 .. n
      /\ h \in Handles /\ h \notin ToSet(free)
  BY DEF Split
<1>3. /\ f \in Seq(Handles) /\ DOMAIN f = 1 .. n + 1
      /\ f[n + 1] = h /\ \A i \in 1 .. n : f[i] = free[i]
  BY <1>2
<1>4. \A i \in 1 .. n + 1 : i = n + 1 \/ i \in 1 .. n
  BY <1>2
<1>5. n + 1 \in 1 .. n + 1 /\ \A i \in 1 .. n : i \in 1 .. n + 1
  BY <1>2
<1>6. \A i, j \in 1 .. n : free[i] = free[j] => i = j
  BY <1>2, Zenon DEF Split, IsInjective
<1> HIDE DEF f, n
<1>7. ToSet(f) = {f[i] : i \in 1 .. n + 1} /\ ToSet(free) = {free[i] : i \in 1 .. n}
  BY <1>2, <1>3 DEF ToSet
<1>8. IsInjective(f)
  <2>1. \A i \in 1 .. n : free[i] # h
    BY <1>2, <1>7
  <2>2. \A i, j \in 1 .. n + 1 : f[i] = f[j] => i = j
    BY <1>3, <1>4, <1>6, <2>1
  <2> QED BY <1>3, <2>2, Zenon DEF IsInjective
<1>9. ToSet(f) = ToSet(free) \cup {h}
  BY <1>3, <1>4, <1>5, <1>7
<1>10. /\ ToSet(f) \cap ToSet(ListRemove(open, h)) = {}
       /\ ToSet(f) \cup ToSet(ListRemove(open, h)) = Handles
  BY <1>1, <1>9 DEF Split
<1>11. Split(f, ListRemove(open, h))
  BY <1>1, <1>3, <1>8, <1>10 DEF Split
<1> QED BY <1>1, <1>11 DEF f

\* The two lists one after the other have each handle once.
LEMMA SplitBoth ==
    ASSUME NEW free, NEW open, Split(free, open)
    PROVE  ToSet(open \o free) = Handles /\ IsInjective(open \o free)
<1> DEFINE n == Len(free)
           m == Len(open)
           b == open \o free
<1>1. /\ free \in Seq(Handles) /\ open \in Seq(Handles) /\ n \in Nat /\ m \in Nat
      /\ DOMAIN free = 1 .. n /\ DOMAIN open = 1 .. m
  BY DEF Split
<1>2. /\ DOMAIN b = 1 .. m + n
      /\ \A i \in 1 .. m : b[i] = open[i]
      /\ \A i \in 1 .. n : b[m + i] = free[i]
  BY <1>1
<1>3. \A i \in 1 .. m + n : i \in 1 .. m \/ (i - m \in 1 .. n /\ m + (i - m) = i)
  BY <1>1
<1>4. /\ \A i \in 1 .. m : i \in 1 .. m + n
      /\ \A i \in 1 .. n : m + i \in 1 .. m + n
  BY <1>1
<1> HIDE DEF n, m, b
<1>5. /\ ToSet(b) = {b[i] : i \in 1 .. m + n} /\ ToSet(open) = {open[i] : i \in 1 .. m}
      /\ ToSet(free) = {free[i] : i \in 1 .. n}
  BY <1>1, <1>2 DEF ToSet
<1>6. ASSUME NEW i \in 1 .. m + n
      PROVE  \/ i \in 1 .. m /\ b[i] = open[i]
             \/ i - m \in 1 .. n /\ b[i] = free[i - m]
  BY <1>2, <1>3
<1>7. ToSet(b) = Handles
  <2>1. \A x \in ToSet(b) : x \in ToSet(open) \cup ToSet(free)
    BY <1>5, <1>6
  <2>2. \A x \in ToSet(open) \cup ToSet(free) : x \in ToSet(b)
    BY <1>2, <1>4, <1>5
  <2> QED BY <2>1, <2>2 DEF Split
<1>8. /\ \A i, j \in 1 .. n : free[i] = free[j] => i = j
      /\ \A i, j \in 1 .. m : open[i] = open[j] => i = j
  BY <1>1, Zenon DEF Split, IsInjective
<1>9. \A i \in 1 .. n, j \in 1 .. m : free[i] # open[j]
  BY <1>5 DEF Split
<1>10. \A i, j \in 1 .. m + n : b[i] = b[j] => i = j
  <2> SUFFICES ASSUME NEW i \in 1 .. m + n, NEW j \in 1 .. m + n, b[i] = b[j] PROVE i = j
    OBVIOUS
  <2>1. CASE i \in 1 .. m /\ b[i] = open[i]
    <3>1. j \in 1 .. m /\ b[j] = open[j]
      BY <1>6, <1>9, <2>1
    <3> QED BY <1>8, <2>1, <3>1
  <2>2. CASE i - m \in 1 .. n /\ b[i] = free[i - m]
    <3>1. j - m \in 1 .. n /\ b[j] = free[j - m]
      BY <1>6, <1>9, <2>2
    <3>2. i - m = j - m
      BY <1>8, <2>2, <3>1
    <3> QED BY <1>1, <3>2
  <2> QED BY <1>6, <2>1, <2>2
<1>11. IsInjective(b)
  BY <1>2, <1>10, Zenon DEF IsInjective
<1> QED BY <1>7, <1>11 DEF b

\* fl_init: every handle is free.
LEMMA SplitFirst == Split(SetToSeq(Handles), <<>>)
<1> DEFINE n == Cardinality(Handles)
           Right(f) == f \in [1 .. n -> Handles] /\ IsInjective(f)
<1>1. IsFiniteSet(Handles)
  BY FatAssumption
<1>2. n \in Nat /\ ExistsBijection(1 .. n, Handles)
  BY <1>1, FS_CardinalityType
<1>3. PICK g : g \in Bijection(1 .. n, Handles)
  BY <1>2 DEF ExistsBijection
<1>4. Right(g)
  BY <1>3 DEF Bijection, Injection, IsInjective
<1>5. SetToSeq(Handles) = CHOOSE f \in [1 .. n -> Handles] : IsInjective(f)
  BY DEF SetToSeq
<1> DEFINE s == SetToSeq(Handles)
<1>6. s \in [1 .. n -> Handles] /\ IsInjective(s)
  BY <1>4, <1>5
<1> HIDE DEF s
<1>7. s \in Surjection(1 .. n, Handles)
  <2>1. s \in Injection(1 .. n, Handles)
    BY <1>6 DEF Injection, IsInjective
  <2>2. Cardinality(1 .. n) = n
    BY <1>2, FS_Interval
  <2> HIDE DEF n
  <2> QED BY <1>1, <2>1, <2>2, FS_Injection DEF n
<1> HIDE DEF n
<1>8. s \in Seq(Handles)
  BY <1>2, <1>6
<1>9. ToSet(s) = Handles
  BY <1>6, <1>7 DEF ToSet, Surjection
<1>10. /\ <<>> \in Seq(Handles) /\ IsInjective(<<>>) /\ ToSet(<<>>) = {}
  BY DEF IsInjective, ToSet
<1> QED BY <1>6, <1>8, <1>9, <1>10 DEF Split, s
-----------------------------------------------------------------------------
(***************************************************************************)
(* The handles in a world.                                                 *)
(***************************************************************************)
\* A call from here on that leaves the handles alone, as Sound speaks of it.
Keeping(w) ==
    [quiet |-> FALSE, keeps |-> TRUE, faults |-> w.faults,
     free |-> w.free, open |-> w.open, h |-> w.h, paths |-> [h \in DOMAIN w.file |-> w.file[h].path]]

\* The handles of S have paths of their own.
Apart(w, S) == \A h, g \in S : h = g \/ w.file[h].path # w.file[g].path

\* Each handle is free or open; and no path is open twice.
Owned(w) == Sound(AnyCall, w) /\ Split(w.free, w.open) /\ DOMAIN w.file = Handles
Well(w) == Owned(w) /\ Apart(w, ToSet(w.open))

\* Nothing has happened yet.
LEMMA KeepingSelf ==
    ASSUME NEW w, Sound(AnyCall, w)
    PROVE  Sound(Keeping(w), w) /\ ~Keeping(w).quiet
<1> DEFINE r == Keeping(w)
<1>1. /\ r.quiet = FALSE /\ r.faults = w.faults
      /\ r.free = w.free /\ r.open = w.open /\ r.h = w.h
      /\ r.paths = [h \in DOMAIN w.file |-> w.file[h].path]
  BY DEF Keeping
<1>2. Shaped(w) /\ Coherent(w) /\ w.faults \in Nat
  BY DEF Sound, Spent
<1> HIDE DEF r
<1>3. Spent(r, w) /\ Listed(r, w)
  BY <1>1, <1>2 DEF Spent, Listed
<1>4. Sound(r, w) /\ ~r.quiet
  BY <1>1, <1>2, <1>3 DEF Sound
<1> QED BY <1>4 DEF r

\* What a call that leaves the handles alone has kept of them.
LEMMA KeepingKeeps ==
    ASSUME NEW w, Sound(AnyCall, w), NEW v, Sound(Keeping(w), v)
    PROVE  /\ Sound(AnyCall, v) /\ v.faults \in Nat /\ v.faults <= w.faults
           /\ v.free = w.free /\ v.open = w.open /\ v.h = w.h
           /\ DOMAIN v.file = DOMAIN w.file
           /\ \A h \in DOMAIN w.file : v.file[h].path = w.file[h].path
<1> DEFINE r == Keeping(w)
<1>1. /\ r.quiet = FALSE /\ r.keeps = TRUE /\ r.faults = w.faults
      /\ r.free = w.free /\ r.open = w.open /\ r.h = w.h
      /\ r.paths = [h \in DOMAIN w.file |-> w.file[h].path]
  BY DEF Keeping
<1>2. AnyCall.quiet = FALSE /\ AnyCall.keeps = FALSE
  BY DEF AnyCall
<1>3. Sound(r, v)
  OBVIOUS
<1> HIDE DEF r
<1>4. Shaped(v) /\ Coherent(v) /\ Spent(r, v) /\ Listed(r, v)
  BY <1>1, <1>3 DEF Sound
<1>5. Spent(AnyCall, w)
  BY DEF Sound
<1>6. Spent(AnyCall, v) /\ v.faults \in Nat /\ v.faults <= w.faults
  BY <1>1, <1>4, <1>5 DEF Spent
<1>7. Sound(AnyCall, v)
  BY <1>2, <1>4, <1>6 DEF Sound
<1> QED BY <1>1, <1>4, <1>6, <1>7 DEF Listed

\* Such a call leaves the paths of open handles apart.
LEMMA ApartKept ==
    ASSUME NEW w, Owned(w), NEW v, Sound(Keeping(w), v)
    PROVE  /\ Owned(v) /\ v.open = w.open /\ v.free = w.free /\ v.h = w.h
           /\ v.faults \in Nat /\ v.faults <= w.faults
           /\ \A S : S \subseteq Handles /\ Apart(w, S) => Apart(v, S)
<1>1. /\ Sound(AnyCall, v) /\ v.faults \in Nat /\ v.faults <= w.faults
      /\ v.free = w.free /\ v.open = w.open /\ v.h = w.h
      /\ DOMAIN v.file = DOMAIN w.file
      /\ \A h \in DOMAIN w.file : v.file[h].path = w.file[h].path
  BY KeepingKeeps DEF Owned
<1>2. Owned(v)
  BY <1>1 DEF Owned
<1>3. ASSUME NEW S, S \subseteq Handles, Apart(w, S) PROVE Apart(v, S)
  BY <1>1, <1>3 DEF Apart, Owned
<1> QED BY <1>1, <1>2, <1>3

\* The open handles are handles.
LEMMA OpenAreHandles == ASSUME NEW w, Owned(w) PROVE ToSet(w.open) \subseteq Handles
  BY DEF Owned, Split

\* Such a call leaves the handles in order.
LEMMA WellKept ==
    ASSUME NEW w, Well(w), NEW v, Sound(Keeping(w), v)
    PROVE  Well(v) /\ v.open = w.open /\ v.h = w.h /\ v.faults \in Nat /\ v.faults <= w.faults
  BY ApartKept, OpenAreHandles DEF Well

\* A world differs in what it says of the call within the library only.
LEMMA WellElse ==
    ASSUME NEW w, Well(w), NEW x
    PROVE  /\ Well([w EXCEPT !.rc = x])
           /\ [w EXCEPT !.rc = x].open = w.open /\ [w EXCEPT !.rc = x].h = w.h
           /\ [w EXCEPT !.rc = x].rc = x /\ [w EXCEPT !.rc = x].faults = w.faults
<1> DEFINE v == [w EXCEPT !.rc = x]
<1>1. Sound(AnyCall, w)
  BY DEF Well, Owned
<1>2. Sound(Keeping(w), v)
  <2>1. Sound(Keeping(w), w)
    BY <1>1, KeepingSelf
  <2> QED BY <2>1, SoundElse
<1>3. v.rc = x /\ v.faults = w.faults
  BY <1>1 DEF Sound, Shaped
<1> HIDE DEF v
<1>4. Well(v) /\ v.open = w.open /\ v.h = w.h
  BY <1>2, WellKept
<1> QED BY <1>3, <1>4 DEF v

\* _free_file gives back an open handle; the paths of the other ones must be apart.
LEMMA WellFreeFile ==
    ASSUME NEW w, Owned(w), Head(w.h) \in ToSet(w.open), Apart(w, ToSet(w.open) \ {Head(w.h)})
    PROVE  /\ Well(FreeFile(w))
           /\ ToSet(FreeFile(w).open) = ToSet(w.open) \ {Head(w.h)}
           /\ FreeFile(w).rc = w.rc /\ FreeFile(w).faults = w.faults
<1> DEFINE h == Head(w.h)
           v == FreeFile(w)
<1>1. /\ Sound(AnyCall, w) /\ Split(w.free, w.open) /\ DOMAIN w.file = Handles
  BY DEF Owned
<1>2. Sound(AnyCall, v)
  BY <1>1, SoundFreeFile DEF AnyCall
<1>3. {"disk", "buf", "file", "h", "free", "open", "faults", "rc", "ptr"} \subseteq DOMAIN w
  BY <1>1 DEF Sound, Shaped
<1>4. /\ v.free = Append(w.free, h) /\ v.open = ListRemove(w.open, h)
      /\ v.file = [w.file EXCEPT ![h] = NoFile] /\ v.rc = w.rc /\ v.faults = w.faults
  BY <1>3 DEF FreeFile
<1>5. Split(v.free, v.open) /\ ToSet(v.open) = ToSet(w.open) \ {h}
  BY <1>1, <1>4, SplitGive
<1> HIDE DEF v
<1>6. DOMAIN v.file = Handles /\ \A g \in Handles \ {h} : v.file[g] = w.file[g]
  BY <1>1, <1>4
<1>7. ToSet(w.open) \subseteq Handles
  BY OpenAreHandles
<1> HIDE DEF h
<1>8. Apart(v, ToSet(v.open))
  <2>1. Apart(w, ToSet(w.open) \ {h})
    BY DEF h
  <2> QED BY <1>5, <1>6, <1>7, <2>1 DEF Apart
<1>9. Well(v)
  BY <1>2, <1>5, <1>6, <1>8 DEF Well, Owned
<1> QED BY <1>4, <1>5, <1>9 DEF v, h
-----------------------------------------------------------------------------
(***************************************************************************)
(* Opening and creating.                                                   *)
(***************************************************************************)
\* What opening or creating a file does to the handles: it is the one for an additional
\* open handle, or fails and leaves the same ones open.
Opens(w, v) ==
    /\ Well(v)
    /\ IF v.rc = "ok"
       THEN Head(v.h) \notin ToSet(w.open) /\ ToSet(v.open) = ToSet(w.open) \cup {Head(v.h)}
       ELSE ToSet(v.open) = ToSet(w.open)

\* A handle that was free has been taken, and has its path.
Begun(w, u) ==
    /\ Owned(u) /\ Apart(u, ToSet(w.open))
    /\ Head(u.h) \notin ToSet(w.open) /\ ToSet(u.open) = ToSet(w.open) \cup {Head(u.h)}

\* _allocate_file, and the path that the handle gets
LEMMA WellAllocateFile ==
    ASSUME NEW w, Well(w), w.rc = "ok", NEW path, NEW v \in AllocateFile(w)
    PROVE  IF v.rc = "ok" THEN Begun(w, Titled(v, path)) ELSE Opens(w, v)
<1>1. CASE w.free = <<>>
  <2>1. v = [w EXCEPT !.rc = "none"]
    BY <1>1 DEF AllocateFile, Result
  <2>2. Well(v) /\ v.open = w.open /\ v.rc = "none"
    BY <2>1, WellElse
  <2> QED BY <2>2 DEF Opens
<1>2. CASE w.free # <<>>
  <2> DEFINE a == Head(w.free)
             u == Titled(v, path)
  <2>1. Sound(AnyCall, w) /\ Split(w.free, w.open) /\ DOMAIN w.file = Handles
        /\ Apart(w, ToSet(w.open))
    BY DEF Well, Owned
  <2>2. {"disk", "buf", "file", "h", "free", "open", "faults", "rc", "ptr"} \subseteq DOMAIN w
    BY <2>1 DEF Sound, Shaped
  <2>3. /\ v.h = <<a>> /\ v.open = Append(w.open, a) /\ v.free = Tail(w.free)
        /\ v.file = w.file /\ v.rc = "ok" /\ DOMAIN v = DOMAIN w
    BY <1>2, <2>2 DEF AllocateFile
  <2>4. /\ a \in Handles /\ a \notin ToSet(w.open)
        /\ Split(v.free, v.open) /\ ToSet(v.open) = ToSet(w.open) \cup {a}
    BY <1>2, <2>1, <2>3, SplitTake
  <2>5. Sound(AnyCall, u)
    <3>1. ~AnyCall.quiet /\ ~AnyCall.keeps
      BY DEF AnyCall
    <3>2. Sound(AnyCall, v)
      BY <2>1, <3>1, SoundAllocateFile
    <3> QED BY <3>1, <3>2, SoundField DEF Titled
  <2>6. Head(v.h) = a
    <3> HIDE DEF a
    <3> QED BY <2>3
  <2>7. /\ u.h = v.h /\ u.open = v.open /\ u.free = v.free
        /\ u.file = [w.file EXCEPT ![Head(v.h)].path = path]
    BY <2>2, <2>3 DEF Titled
  <2> HIDE DEF u, a
  <2>8. DOMAIN u.file = Handles /\ \A g \in Handles \ {a} : u.file[g] = w.file[g]
    BY <2>1, <2>6, <2>7
  <2>9. ToSet(w.open) \subseteq Handles \ {a}
    BY <2>1, <2>4 DEF Split
  <2>10. Apart(u, ToSet(w.open))
    BY <2>1, <2>8, <2>9 DEF Apart
  <2>11. Owned(u)
    BY <2>4, <2>5, <2>7, <2>8 DEF Owned
  <2>12. Begun(w, u)
    BY <2>4, <2>6, <2>7, <2>10, <2>11 DEF Begun
  <2> QED BY <2>3, <2>12 DEF u
<1> QED BY <1>1, <1>2

\* Where no other handle has the path it is apart from all of them.
LEMMA BegunApart ==
    ASSUME NEW w, NEW u, Begun(w, u), ~CheckFileOpen(u)
    PROVE  Apart(u, ToSet(u.open))
<1> DEFINE a == Head(u.h)
<1>1. /\ \A g, h \in ToSet(w.open) : g = h \/ u.file[g].path # u.file[h].path
      /\ a \notin ToSet(w.open) /\ ToSet(u.open) = ToSet(w.open) \cup {a}
  BY DEF Begun, Apart
<1>2. \A h \in ToSet(w.open) : u.file[h].path # u.file[a].path
  BY <1>1 DEF CheckFileOpen, File
<1> HIDE DEF a
<1> QED BY <1>1, <1>2 DEF Apart

\* The rest of opening or creating leaves the handles alone, but that the one taken is given
\* back on failure; and it succeeds only if no other handle has the path.
LEMMA OpensUndo ==
    ASSUME NEW w, NEW u, Begun(w, u), NEW ws,
           \A t \in ws : Sound(Keeping(u), t) /\ (t.rc = "ok" => ~CheckFileOpen(u)),
           NEW v \in Undo(ws, LAMBDA t : {FreeFile(t)})
    PROVE  Opens(w, v)
<1>1. PICK t \in ws :
         IF t.rc = "ok" THEN v = t ELSE v \in Result({FreeFile([t EXCEPT !.rc = "ok"])}, "none")
  BY DEF Undo
<1>2. /\ Owned(u) /\ Apart(u, ToSet(w.open))
      /\ Head(u.h) \notin ToSet(w.open) /\ ToSet(u.open) = ToSet(w.open) \cup {Head(u.h)}
  BY DEF Begun
<1>3. ToSet(u.open) \subseteq Handles
  BY <1>2, OpenAreHandles
<1>4. CASE t.rc = "ok"
  <2>1. Apart(u, ToSet(u.open))
    BY <1>4, BegunApart
  <2>2. Well(u)
    BY <1>2, <2>1 DEF Well
  <2>3. Well(t) /\ t.open = u.open /\ t.h = u.h
    BY <2>2, WellKept
  <2> QED BY <1>1, <1>2, <1>4, <2>3 DEF Opens
<1>5. CASE t.rc # "ok"
  <2> DEFINE x == [t EXCEPT !.rc = "ok"]
             y == FreeFile(x)
  <2>1. v = [y EXCEPT !.rc = "none"]
    BY <1>1, <1>5, Zenon DEF Result
  <2>2. Sound(Keeping(u), x)
    BY SoundElse
  <2> HIDE DEF x
  <2>3. Owned(x) /\ x.open = u.open /\ x.h = u.h /\ Apart(x, ToSet(w.open))
    BY <1>2, <1>3, <2>2, ApartKept
  <2>4. ToSet(x.open) \ {Head(x.h)} = ToSet(w.open) /\ Head(x.h) \in ToSet(x.open)
    BY <1>2, <2>3
  <2>5. Well(y) /\ ToSet(y.open) = ToSet(w.open)
    BY <2>3, <2>4, WellFreeFile
  <2> HIDE DEF y
  <2>6. Well(v) /\ v.open = y.open /\ v.rc = "none"
    BY <2>1, <2>5, WellElse
  <2> QED BY <2>5, <2>6 DEF Opens
<1> QED BY <1>4, <1>5

\* A path that is open already is not opened, nor created.
LEMMA TriedOpenTells ==
    ASSUME NEW r, NEW u, Sound(r, u), NEW path, NEW k, CheckFileOpen(u)
    PROVE  /\ \A t \in TriedOpen(u, path) : t.rc # "ok"
           /\ \A t \in TriedCreate(u, path, k) : t.rc # "ok"
<1>1. \A t \in Result({u}, "none") : t.rc = "none"
  BY DEF Result, Sound, Shaped
<1> QED BY <1>1 DEF TriedOpen, TriedCreate

\* _open_file
LEMMA OpensOpenFile ==
    ASSUME NEW w, Well(w), w.rc = "ok", NEW path
    PROVE  \A v \in OpenFile(w, path) : Opens(w, v)
<1> DEFINE Whole(v) == Undo(TriedOpen(Titled(v, path), path), LAMBDA t : {FreeFile(t)})
<1>1. OpenFile(w, path) = Then(AllocateFile(w), Whole)
  BY Zenon, OpenFileIs
<1>2. ASSUME NEW x \in AllocateFile(w), x.rc = "ok", NEW v \in Whole(x) PROVE Opens(w, v)
  <2> DEFINE u == Titled(x, path)
  <2>1. Begun(w, u)
    BY <1>2, WellAllocateFile
  <2> HIDE DEF u
  <2>2. Sound(Keeping(u), u) /\ ~Keeping(u).quiet
    BY <2>1, KeepingSelf DEF Begun, Owned
  <2>3. \A t \in TriedOpen(u, path) : Sound(Keeping(u), t) /\ (t.rc = "ok" => ~CheckFileOpen(u))
    BY <2>2, SoundTriedOpen, TriedOpenTells
  <2>4. v \in Undo(TriedOpen(u, path), LAMBDA t : {FreeFile(t)})
    BY <1>2 DEF u
  <2> HIDE DEF Whole
  <2> QED BY <2>1, <2>3, <2>4, OpensUndo
<1> HIDE DEF Whole
<1>3. \A x \in AllocateFile(w) : x.rc # "ok" => Opens(w, x)
  BY WellAllocateFile
<1> QED BY <1>1, <1>2, <1>3 DEF Then

\* _create_file and _create_directory
LEMMA OpensCreate ==
    ASSUME NEW w, Well(w), w.rc = "ok", NEW path, NEW k
    PROVE  \A v \in Create(w, path, k) : Opens(w, v)
<1> DEFINE Whole(v) == Undo(TriedCreate(Titled(v, path), path, k), LAMBDA t : {FreeFile(t)})
<1>1. Create(w, path, k) = Then(AllocateFile(w), Whole)
  BY Zenon, CreateIs
<1>2. ASSUME NEW x \in AllocateFile(w), x.rc = "ok", NEW v \in Whole(x) PROVE Opens(w, v)
  <2> DEFINE u == Titled(x, path)
  <2>1. Begun(w, u)
    BY <1>2, WellAllocateFile
  <2> HIDE DEF u
  <2>2. Sound(Keeping(u), u) /\ ~Keeping(u).quiet
    BY <2>1, KeepingSelf DEF Begun, Owned
  <2>3. \A t \in TriedCreate(u, path, k) : Sound(Keeping(u), t) /\ (t.rc = "ok" => ~CheckFileOpen(u))
    BY <2>2, SoundTriedCreate, TriedOpenTells
  <2>4. v \in Undo(TriedCreate(u, path, k), LAMBDA t : {FreeFile(t)})
    BY <1>2 DEF u
  <2> HIDE DEF Whole
  <2> QED BY <2>1, <2>3, <2>4, OpensUndo
<1> HIDE DEF Whole
<1>3. \A x \in AllocateFile(w) : x.rc # "ok" => Opens(w, x)
  BY WellAllocateFile
<1> QED BY <1>1, <1>2, <1>3 DEF Then

\* After an attempt that failed there is another one.
LEMMA OpensAgain ==
    ASSUME NEW w, NEW v, Opens(w, v), v.rc # "ok", NEW u, Opens([v EXCEPT !.rc = "ok"], u)
    PROVE  Opens(w, u)
<1>1. Well(v) /\ ToSet(v.open) = ToSet(w.open)
  BY DEF Opens
<1>2. [v EXCEPT !.rc = "ok"].open = v.open
  BY <1>1, WellElse
<1> QED BY <1>1, <1>2 DEF Opens
-----------------------------------------------------------------------------
(***************************************************************************)
(* Closing.                                                                *)
(***************************************************************************)
\* fatfs_fat_writeback, if it did not fail
LEMMA CleanWriteBack ==
    ASSUME NEW w, Sound(AnyCall, w), NEW i \in 1 .. Buffers, NEW v \in WriteBack(w, i)
    PROVE  /\ v.faults <= w.faults
           /\ v.faults = w.faults =>
                 /\ v.rc = w.rc /\ ~v.buf[i].dirty
                 /\ \A j \in 1 .. Buffers : ~w.buf[j].dirty => ~v.buf[j].dirty
<1> DEFINE done == [w EXCEPT !.disk.table[w.buf[i].at] = w.buf[i].row, !.buf[i].dirty = FALSE]
           failed == [w EXCEPT !.rc = "fail", !.faults = @ - 1]
<1>1. Shaped(w) /\ Coherent(w) /\ w.faults \in Nat
  BY DEF Sound, Spent
<1>2. {"disk", "buf", "file", "h", "free", "open", "faults", "rc", "ptr"} \subseteq DOMAIN w
  BY <1>1 DEF Shaped
<1>3. CASE ~w.buf[i].dirty
  BY <1>1, <1>3 DEF WriteBack
<1>4. CASE w.buf[i].dirty
  <2>1. v = done \/ v = failed
    BY <1>4, Zenon DEF WriteBack, Io
  <2>2. failed.faults = w.faults - 1
    BY <1>2
  <2>3. /\ done.faults = w.faults /\ done.rc = w.rc
        /\ done.buf = [w.buf EXCEPT ![i].dirty = FALSE]
    BY <1>2
  <2> HIDE DEF done, failed
  <2>4. /\ IsList(done.buf)
        /\ \A j \in 1 .. Buffers :
              done.buf[j] = IF j = i THEN [w.buf[i] EXCEPT !.dirty = FALSE] ELSE w.buf[j]
    <3>1. IsList(w.buf)
      BY <1>1 DEF Coherent
    <3> QED BY <2>3, <3>1, Replaced
  <2>5. ~done.buf[i].dirty
    BY <1>1, <2>4 DEF Coherent
  <2>6. ASSUME NEW j \in 1 .. Buffers, ~w.buf[j].dirty PROVE ~done.buf[j].dirty
    <3>1. CASE j = i
      BY <1>4, <2>6, <3>1
    <3>2. CASE j # i
      <4>1. done.buf[j] = w.buf[j]
        BY <2>4, <3>2, Zenon
      <4> QED BY <2>6, <4>1, Zenon
    <3> QED BY <3>1, <3>2, Zenon
  <2>7. CASE v = done
    <3>1. v.faults <= w.faults
      BY <1>1, <2>3, <2>7
    <3>2. /\ v.rc = w.rc /\ ~v.buf[i].dirty
          /\ \A j \in 1 .. Buffers : ~w.buf[j].dirty => ~v.buf[j].dirty
      BY <2>3, <2>5, <2>6, <2>7, Zenon
    <3> QED BY <3>1, <3>2, Zenon
  <2>8. CASE v = failed
    BY <1>1, <2>2, <2>8
  <2> QED BY <2>1, <2>7, <2>8
<1> QED BY <1>3, <1>4

\* fatfs_fat_purge leaves no buffer dirty unless writing one failed.
LEMMA CleanPurge ==
    ASSUME NEW w, Sound(AnyCall, w), w.rc = "ok", NEW v \in Purge(w), v.faults = w.faults
    PROVE  \A i \in 1 .. Buffers : ~v.buf[i].dirty
<1> DEFINE after == PurgeTurns!Steps(0, 0, {w})
           Clean(u, k) == /\ Sound(AnyCall, u) /\ u.faults <= w.faults
                          /\ u.faults = w.faults => u.rc = "ok" /\ \A i \in 1 .. k : ~u.buf[i].dirty
           T == {k \in Nat : k <= Buffers => \A u \in after[k] : Clean(u, k)}
<1>1. ASSUME NEW k \in Nat
      PROVE  after[k] = IF k = 0 THEN {w} ELSE PurgeTurns!Turn(0, 0, after[k - 1], k)
  <2>1. PurgeTurns!Steps(0, 0, {w})[k] =
          IF k = 0 THEN {w} ELSE PurgeTurns!Turn(0, 0, PurgeTurns!Steps(0, 0, {w})[k - 1], k)
    BY PurgeTurns!StepsDefined
  <2> QED BY <2>1
<1>2. Buffers \in Nat /\ w.faults \in Nat
  BY FatTableAssumption DEF Sound, Spent
<1> HIDE DEF after
<1>3. 0 \in T
  BY <1>1, <1>2
<1>4. ASSUME NEW k \in Nat, k \in T PROVE k + 1 \in T
  <2> SUFFICES ASSUME k + 1 <= Buffers, NEW u \in after[k + 1] PROVE Clean(u, k + 1)
    OBVIOUS
  <2>1. k + 1 # 0 /\ (k + 1) - 1 = k /\ k <= Buffers /\ k + 1 \in 1 .. Buffers /\ k + 1 \in Nat
    BY <1>2
  <2>2. after[k + 1] = PurgeTurns!Turn(0, 0, after[k], k + 1)
    BY <1>1, <2>1
  <2>3. PICK t \in after[k] : u \in IF t.rc = "ok" THEN WriteBack(t, k + 1) ELSE {t}
    BY <2>2 DEF PurgeTurns!Turn
  <2>4. Clean(t, k)
    BY <1>4, <2>1
  <2>5. t.faults \in Nat
    BY <2>4 DEF Sound, Spent
  <2>6. CASE t.rc # "ok"
    BY <2>3, <2>4, <2>6
  <2>7. CASE t.rc = "ok"
    <3>1. u \in WriteBack(t, k + 1)
      BY <2>3, <2>7
    <3>2. Sound(AnyCall, u)
      BY <2>1, <2>4, <3>1, SoundWriteBack
    <3>3. u.faults \in Nat
      BY <3>2 DEF Sound, Spent
    <3>4. /\ u.faults <= t.faults
          /\ u.faults = t.faults =>
                /\ u.rc = t.rc /\ ~u.buf[k + 1].dirty
                /\ \A j \in 1 .. Buffers : ~t.buf[j].dirty => ~u.buf[j].dirty
      BY <2>1, <2>4, <3>1, CleanWriteBack
    <3>5. u.faults <= w.faults
      BY <1>2, <2>4, <2>5, <3>3, <3>4
    <3>6. ASSUME u.faults = w.faults PROVE u.rc = "ok" /\ \A i \in 1 .. k + 1 : ~u.buf[i].dirty
      <4>1. u.faults = t.faults /\ t.faults = w.faults
        BY <1>2, <2>4, <2>5, <3>3, <3>4, <3>6
      <4>2. \A i \in 1 .. k + 1 : i = k + 1 \/ i \in 1 .. k
        OBVIOUS
      <4>3. \A i \in 1 .. k : i \in 1 .. Buffers
        BY <1>2, <2>1
      <4> QED BY <2>4, <2>7, <3>4, <4>1, <4>2, <4>3
    <3> QED BY <3>2, <3>5, <3>6
  <2> QED BY <2>6, <2>7
<1>5. Buffers \in T
  <2> HIDE DEF T
  <2> QED BY <1>2, <1>3, <1>4, PurgeTurns!NatInduct
<1>6. Purge(w) = after[Buffers]
  BY <1>2 DEF Purge, Each, Turns, after, PurgeTurns!Steps
<1> QED BY <1>2, <1>5, <1>6

\* fl_fflush answers for itself.
LEMMA FFlushTells ==
    ASSUME NEW w, Sound(AnyCall, w), w.rc = "ok", NEW v \in FFlush(w)
    PROVE  v.rc = "ok"
<1>1. CASE ~File(w).dirty
  BY <1>1 DEF FFlush
<1>2. CASE File(w).dirty
  <2>1. PICK u \in WriteSectors(w, File(w).at, File(w).row) :
           v = [u EXCEPT !.file[Head(w.h)].dirty = (u.val = 0)]
    BY <1>2 DEF FFlush
  <2>2. PICK t : u = IF t.rc = "ok" THEN t ELSE [t EXCEPT !.rc = "ok", !.val = 0]
    BY <2>1, Zenon DEF WriteSectors
  <2>3. Sound(AnyCall, u)
    BY <2>1, SoundWriteSectors DEF AnyCall
  <2>4. "rc" \in DOMAIN u
    BY <2>3 DEF Sound, Shaped
  <2>5. u.rc = "ok"
    BY <2>2, <2>4
  <2> QED BY <2>1, <2>5
<1> QED BY <1>1, <1>2

\* fl_fclose: the handle is free again, and no buffer dirty unless writing one failed.
LEMMA WellClose ==
    ASSUME NEW w, Well(w), w.rc = "ok", Head(w.h) \in ToSet(w.open), NEW v \in Close(w)
    PROVE  /\ Well(v) /\ ToSet(v.open) = ToSet(w.open) \ {Head(w.h)}
           /\ v.faults = w.faults => \A i \in 1 .. Buffers : ~v.buf[i].dirty
<1> DEFINE r == Keeping(w)
<1>1. PICK t \in FFlush(w) : \E u \in Lengthened(t) : v \in GivenBack(u)
  <2>1. Close(w) = UNION {UNION {GivenBack(u) : u \in Lengthened(t)} : t \in FFlush(w)}
    BY CloseIs
  <2> QED BY <2>1
<1>2. Sound(AnyCall, w) /\ Sound(r, w) /\ ~r.quiet
  BY KeepingSelf DEF Well, Owned
<1> HIDE DEF r
<1>0. PICK u \in Lengthened(t) : v \in GivenBack(u)
  BY <1>1
<1>3. Sound(r, t) /\ t.rc = "ok"
  BY <1>1, <1>2, SoundFFlush, FFlushTells
<1>4. Sound(r, u) /\ u.rc = "ok"
  <2>1. Sound(r, u)
    BY <1>0, <1>3, SoundLengthened
  <2>2. u = t \/ \E x : u = [x EXCEPT !.rc = "ok"]
    BY <1>0 DEF Lengthened, Result
  <2>3. "rc" \in DOMAIN u
    BY <2>1 DEF Sound, Shaped
  <2> QED BY <1>3, <2>1, <2>2, <2>3
<1>5. Well(u) /\ u.open = w.open /\ u.h = w.h /\ u.faults \in Nat /\ u.faults <= w.faults
  BY <1>4, WellKept DEF r
<1> DEFINE x == FreeFile(u)
<1>6. Well(x) /\ ToSet(x.open) = ToSet(w.open) \ {Head(w.h)} /\ x.rc = "ok" /\ x.faults = u.faults
  <2>1. Owned(u) /\ Apart(u, ToSet(u.open) \ {Head(u.h)})
    BY <1>5 DEF Well, Apart
  <2> QED BY <1>4, <1>5, <2>1, WellFreeFile
<1> HIDE DEF x
<1>7. PICK y \in Purge(x) : v = [y EXCEPT !.rc = "ok"]
  BY <1>0 DEF GivenBack, Result, x
<1>8. Sound(AnyCall, x) /\ Sound(Keeping(x), x)
  BY <1>6, KeepingSelf DEF Well, Owned
<1>9. Well(y) /\ y.open = x.open /\ y.faults \in Nat /\ y.faults <= x.faults
  <2>1. Sound(Keeping(x), y)
    BY <1>8, SoundPurge
  <2> QED BY <1>6, <2>1, WellKept
<1>10. Well(v) /\ v.open = y.open /\ v.faults = y.faults
  BY <1>7, <1>9, WellElse
<1>11. v.buf = y.buf
  BY <1>7
<1>12. ASSUME v.faults = w.faults PROVE \A i \in 1 .. Buffers : ~v.buf[i].dirty
  <2>1. w.faults \in Nat
    BY <1>2 DEF Sound, Spent
  <2>2. y.faults = x.faults
    BY <1>5, <1>6, <1>9, <1>10, <1>12, <2>1
  <2> QED BY <1>6, <1>8, <1>11, <2>2, CleanPurge
<1> QED BY <1>6, <1>9, <1>10, <1>12
-----------------------------------------------------------------------------
(***************************************************************************)
(* The calls.                                                              *)
(***************************************************************************)
\* Between the calls each handle is free or open, and callers have open ones.
Ordered == Well(World) /\ held \subseteq ToSet(fl.open)

\* A call that ends with the handles in order leaves them so.
LEMMA WellAfter ==
    ASSUME NEW w, Well(w), Returns(w)
    PROVE  Well(World)' /\ fl'.open = w.open
<1>1. /\ World'.file = w.file /\ World'.free = w.free /\ World'.open = w.open /\ fl'.open = w.open
  BY DEF Returns, World
<1>2. Sound(AnyCall, World')
  <2>1. Sound(AnyCall, w)
    BY DEF Well, Owned
  <2> QED BY <2>1, CalmAfter DEF Calm
<1>3. Owned(World')
  BY <1>1, <1>2 DEF Well, Owned
<1>4. Apart(World', ToSet(World'.open))
  BY <1>1 DEF Well, Apart
<1>5. Well(World')
  BY <1>3, <1>4 DEF Well
<1> QED BY <1>1, <1>5

\* A call that leaves the handles alone.
LEMMA WellEnds ==
    ASSUME Ordered, NEW w, Well(w), w.open = fl.open, Ends(Keeping(w)), held' = held
    PROVE  Ordered' /\ Lost' = Lost
<1>1. PICK v : Sound(Keeping(w), v) /\ Returns(v)
  BY DEF Ends
<1>2. Well(v) /\ v.open = w.open
  BY <1>1, WellKept
<1>3. Well(World)' /\ fl'.open = fl.open
  BY <1>1, <1>2, WellAfter
<1> QED BY <1>3 DEF Ordered, Lost

\* The world at the beginning of a call, for any handle.
LEMMA WellOn ==
    ASSUME Ordered, NEW h
    PROVE  Well(On(h)) /\ On(h).open = fl.open /\ On(h).rc = "ok" /\ On(h).faults = faults
           /\ On(h).h = <<h>>
<1>1. /\ On(h).file = World.file /\ On(h).free = World.free /\ On(h).open = World.open
      /\ On(h).open = fl.open /\ On(h).rc = "ok" /\ On(h).faults = faults /\ On(h).h = <<h>>
  BY DEF On, World
<1>2. Calm
  BY DEF Ordered, Well, Owned, Calm
<1>3. Sound(AnyCall, On(h))
  BY <1>2, CalmOn
<1>4. Owned(On(h))
  BY <1>1, <1>3 DEF Ordered, Well, Owned
<1>5. Apart(On(h), ToSet(On(h).open))
  BY <1>1 DEF Ordered, Well, Apart
<1> QED BY <1>1, <1>4, <1>5 DEF Well

\* fl_init: no handle is open.
LEMMA OrderedAtFirst == Init => Ordered
<1> SUFFICES ASSUME Init PROVE Ordered
  OBVIOUS
<1>1. /\ World.free = SetToSeq(Handles) /\ World.open = <<>> /\ World.file = [h \in Handles |-> NoFile]
      /\ fl.open = <<>> /\ held = {}
  BY DEF Init, World
<1>2. Sound(AnyCall, World)
  BY CalmAtFirst DEF Calm
<1>3. Owned(World)
  BY <1>1, <1>2, SplitFirst DEF Owned
<1>4. ToSet(<<>>) = {}
  BY DEF ToSet
<1>5. Apart(World, ToSet(World.open))
  BY <1>1, <1>4 DEF Apart
<1> QED BY <1>1, <1>3, <1>5 DEF Ordered, Well

\* fl_fopen: the caller has the handle that is open now.
LEMMA OrderedFOpen ==
    ASSUME Ordered, NEW p, NEW mode, FOpen(p, mode) PROVE Ordered' /\ Lost' = Lost
<1> DEFINE flags == Flags(mode)
           found == IF "read" \in flags THEN OpenFile(World, p) ELSE Result({World}, "none")
           made  == OrElse(found, "create" \in flags, LAMBDA w : Create(w, p, "file"))
           all   == OrElse(made, "read" \notin flags /\ "create" \in flags, LAMBDA w : OpenFile(w, p))
           done(w) == IF w.rc = "ok" THEN [w EXCEPT !.file[Head(w.h)].flags = flags] ELSE w
<1>1. PICK w \in all : /\ Returns(done(w))
                       /\ held' = IF w.rc = "ok" THEN held \cup {Head(w.h)} ELSE held
  BY DEF FOpen
<1>2. Well(World) /\ World.rc = "ok" /\ World.open = fl.open
  BY DEF Ordered, World
<1> HIDE DEF flags
<1>3. \A u \in found : Opens(World, u)
  <2>1. ASSUME NEW u \in Result({World}, "none") PROVE Opens(World, u)
    <3>1. u = [World EXCEPT !.rc = "none"]
      BY Zenon DEF Result
    <3>2. Well(u) /\ u.open = World.open /\ u.rc = "none"
      BY <1>2, <3>1, WellElse
    <3> QED BY <3>2 DEF Opens
  <2> QED BY <1>2, <2>1, OpensOpenFile
<1>4. ASSUME NEW v, Opens(World, v), v.rc # "ok"
      PROVE  Well([v EXCEPT !.rc = "ok"]) /\ [v EXCEPT !.rc = "ok"].rc = "ok"
  BY <1>4, WellElse DEF Opens
<1> HIDE DEF found
<1>5. \A u \in made : Opens(World, u)
  <2> SUFFICES ASSUME NEW v \in found, NEW u,
                      u = v \/ (v.rc # "ok" /\ u \in Create([v EXCEPT !.rc = "ok"], p, "file"))
               PROVE  Opens(World, u)
    BY DEF OrElse
  <2>1. CASE u = v
    BY <1>3, <2>1
  <2>2. CASE v.rc # "ok" /\ u \in Create([v EXCEPT !.rc = "ok"], p, "file")
    <3>1. Opens([v EXCEPT !.rc = "ok"], u)
      BY <1>3, <1>4, <2>2, OpensCreate
    <3> QED BY <1>3, <2>2, <3>1, OpensAgain
  <2> QED BY <2>1, <2>2
<1> HIDE DEF made
<1>6. \A u \in all : Opens(World, u)
  <2> SUFFICES ASSUME NEW v \in made, NEW u,
                      u = v \/ (v.rc # "ok" /\ u \in OpenFile([v EXCEPT !.rc = "ok"], p))
               PROVE  Opens(World, u)
    BY DEF OrElse
  <2>1. CASE u = v
    BY <1>5, <2>1
  <2>2. CASE v.rc # "ok" /\ u \in OpenFile([v EXCEPT !.rc = "ok"], p)
    <3>1. Opens([v EXCEPT !.rc = "ok"], u)
      BY <1>4, <1>5, <2>2, OpensOpenFile
    <3> QED BY <1>5, <2>2, <3>1, OpensAgain
  <2> QED BY <2>1, <2>2
<1> HIDE DEF all
<1>7. Opens(World, w)
  BY <1>6
<1>8. Well(done(w)) /\ done(w).open = w.open
  <2>1. CASE w.rc # "ok"
    BY <1>7, <2>1 DEF Opens
  <2>2. CASE w.rc = "ok"
    <3> DEFINE x == [w EXCEPT !.file[Head(w.h)].flags = flags]
    <3>1. Well(w) /\ Sound(Keeping(w), w) /\ ~Keeping(w).quiet
      BY <1>7, KeepingSelf DEF Opens, Well, Owned
    <3>2. Sound(Keeping(w), x)
      BY <3>1, SoundField
    <3> HIDE DEF x
    <3>3. Well(x) /\ x.open = w.open
      BY <3>1, <3>2, WellKept
    <3> QED BY <2>2, <3>3 DEF x
  <2> QED BY <2>1, <2>2
<1> HIDE DEF done
<1>9. Well(World)' /\ fl'.open = w.open
  BY <1>1, <1>8, WellAfter
<1>10. CASE w.rc = "ok"
  <2>1. /\ Head(w.h) \notin ToSet(fl.open) /\ ToSet(fl'.open) = ToSet(fl.open) \cup {Head(w.h)}
        /\ held' = held \cup {Head(w.h)}
    BY <1>1, <1>2, <1>7, <1>9, <1>10 DEF Opens
  <2> QED BY <1>9, <2>1 DEF Ordered, Lost
<1>11. CASE w.rc # "ok"
  <2>1. ToSet(fl'.open) = ToSet(fl.open) /\ held' = held
    BY <1>1, <1>2, <1>7, <1>9, <1>11 DEF Opens
  <2> QED BY <1>9, <2>1 DEF Ordered, Lost
<1> QED BY <1>10, <1>11

\* fl_fclose: the handle is not the caller's any more, and not open.
LEMMA OrderedFClose ==
    ASSUME Ordered, NEW h \in held, FClose(h)
    PROVE  /\ Ordered' /\ Lost' = Lost
           /\ faults' = faults => \A i \in 1 .. Buffers : ~fs'.buf[i].dirty
<1>1. PICK w \in Close(On(h)) : Returns(w)
  BY DEF FClose
<1>2. held' = held \ {h}
  BY DEF FClose
<1>3. Well(On(h)) /\ On(h).open = fl.open /\ On(h).rc = "ok" /\ On(h).faults = faults /\ On(h).h = <<h>>
  BY WellOn
<1>4. Head(On(h).h) = h /\ h \in ToSet(fl.open)
  BY <1>3 DEF Ordered
<1>5. /\ Well(w) /\ ToSet(w.open) = ToSet(fl.open) \ {h}
      /\ w.faults = faults => \A i \in 1 .. Buffers : ~w.buf[i].dirty
  BY <1>1, <1>3, <1>4, WellClose
<1>6. Well(World)' /\ fl'.open = w.open
  BY <1>1, <1>5, WellAfter
<1>7. fs'.buf = w.buf /\ faults' = w.faults
  BY <1>1 DEF Returns
<1>8. Ordered' /\ Lost' = Lost
  BY <1>2, <1>5, <1>6 DEF Ordered, Lost
<1> QED BY <1>5, <1>7, <1>8

\* fl_remove: what callers have stays open; a handle may be lost.
LEMMA OrderedRemoveFile ==
    ASSUME Ordered, NEW p, RemoveFile(p) PROVE Ordered'
<1> DEFINE Gone(u) == Then(MarkFileDeleted(u, File(u).parent, File(u).short), Close)
           Rest(v) == UNION {Gone(u) : u \in FreeChain(v, File(v).first)}
<1>1. PICK w \in Then(OpenFile(World, p), Rest) : Returns(w)
  BY DEF RemoveFile
<1>2. held' = held
  BY DEF RemoveFile
<1>3. Well(World) /\ World.rc = "ok" /\ World.open = fl.open
  BY DEF Ordered, World
<1>4. ASSUME NEW v, Opens(World, v), v.rc = "ok", NEW x \in Rest(v)
      PROVE  Well(x) /\ ToSet(fl.open) \subseteq ToSet(x.open)
  <2>1. /\ Well(v) /\ Head(v.h) \notin ToSet(fl.open)
        /\ ToSet(v.open) = ToSet(fl.open) \cup {Head(v.h)}
    BY <1>3, <1>4 DEF Opens
  <2>2. Sound(Keeping(v), v) /\ ~Keeping(v).quiet
    BY <2>1, KeepingSelf DEF Well, Owned
  <2>3. PICK u \in FreeChain(v, File(v).first) : x \in Gone(u)
    BY <1>4
  <2>4. Sound(Keeping(v), u)
    BY <2>2, <2>3, SoundFreeChain
  <2>5. PICK t \in MarkFileDeleted(u, File(u).parent, File(u).short) :
           IF t.rc = "ok" THEN x \in Close(t) ELSE x = t
    BY <2>3 DEF Then
  <2>6. Sound(Keeping(v), t)
    BY <2>4, <2>5, SoundMarkFileDeleted
  <2>7. Well(t) /\ t.open = v.open /\ t.h = v.h
    BY <2>1, <2>6, WellKept
  <2>8. CASE t.rc = "ok"
    <3>1. Well(x) /\ ToSet(x.open) = ToSet(t.open) \ {Head(t.h)}
      BY <2>1, <2>5, <2>7, <2>8, WellClose
    <3> QED BY <2>1, <2>7, <3>1
  <2>9. CASE t.rc # "ok"
    BY <2>1, <2>5, <2>7, <2>9
  <2> QED BY <2>8, <2>9
<1> HIDE DEF Rest
<1>5. Well(w) /\ ToSet(fl.open) \subseteq ToSet(w.open)
  <2>1. PICK v \in OpenFile(World, p) : IF v.rc = "ok" THEN w \in Rest(v) ELSE w = v
    BY <1>1 DEF Then
  <2>2. Opens(World, v)
    BY <1>3, OpensOpenFile
  <2>3. CASE v.rc = "ok"
    BY <1>4, <2>1, <2>2, <2>3
  <2>4. CASE v.rc # "ok"
    BY <1>3, <2>1, <2>2, <2>4 DEF Opens
  <2> QED BY <2>3, <2>4
<1>6. Well(World)' /\ fl'.open = w.open
  BY <1>1, <1>5, WellAfter
<1> QED BY <1>2, <1>5, <1>6 DEF Ordered

\* fl_createdirectory: the handle of the new directory is given back.
LEMMA OrderedMakeDirectory ==
    ASSUME Ordered, NEW p, MakeDirectory(p) PROVE Ordered' /\ Lost' = Lost
<1>1. PICK w \in CreateDirectory(World, p) : Returns(w)
  BY DEF MakeDirectory
<1>2. held' = held
  BY DEF MakeDirectory
<1>3. Well(World) /\ World.rc = "ok" /\ World.open = fl.open
  BY DEF Ordered, World
<1>4. PICK v \in Create(World, p, "dir") : w = IF v.rc = "ok" THEN FreeFile(v) ELSE v
  BY <1>1 DEF CreateDirectory
<1>5. Opens(World, v)
  BY <1>3, OpensCreate
<1>6. Well(w) /\ ToSet(w.open) = ToSet(fl.open)
  <2>1. CASE v.rc = "ok"
    <3>1. /\ Well(v) /\ Head(v.h) \notin ToSet(fl.open)
          /\ ToSet(v.open) = ToSet(fl.open) \cup {Head(v.h)}
      BY <1>3, <1>5, <2>1 DEF Opens
    <3>2. Owned(v) /\ Apart(v, ToSet(v.open) \ {Head(v.h)})
      BY <3>1 DEF Well, Apart
    <3>3. Well(FreeFile(v)) /\ ToSet(FreeFile(v).open) = ToSet(v.open) \ {Head(v.h)}
      BY <3>1, <3>2, WellFreeFile
    <3> QED BY <1>4, <2>1, <3>1, <3>3
  <2>2. CASE v.rc # "ok"
    BY <1>3, <1>4, <1>5, <2>2 DEF Opens
  <2> QED BY <2>1, <2>2
<1>7. Well(World)' /\ fl'.open = w.open
  BY <1>1, <1>6, WellAfter
<1> QED BY <1>2, <1>6, <1>7 DEF Ordered, Lost

\* No step but a removal loses a handle, and closing leaves the buffers clean.
LEMMA OrderedNext ==
    ASSUME Ordered, [Next]_vars
    PROVE  /\ Ordered'
           /\ \/ UNCHANGED vars
              \/ /\ seen'.op # "remove" => Lost' = Lost
                 /\ seen'.op = "close" /\ faults' = faults => \A i \in 1 .. Buffers : ~fs'.buf[i].dirty
<1>1. Well(World) /\ World.open = fl.open
  BY DEF Ordered, World
<1>2. Sound(Keeping(World), World) /\ ~Keeping(World).quiet
  BY <1>1, KeepingSelf DEF Well, Owned
<1>3. ASSUME NEW h
      PROVE  Well(On(h)) /\ On(h).open = fl.open /\ Sound(Keeping(On(h)), On(h)) /\ ~Keeping(On(h)).quiet
  <2>1. Well(On(h)) /\ On(h).open = fl.open
    BY WellOn
  <2> QED BY <2>1, KeepingSelf DEF Well, Owned
<1>4. ASSUME Ends(Keeping(World)), held' = held PROVE Ordered' /\ Lost' = Lost
  BY <1>1, <1>4, WellEnds
<1>5. ASSUME NEW h, Ends(Keeping(On(h))), held' = held PROVE Ordered' /\ Lost' = Lost
  BY <1>3, <1>5, WellEnds
<1>6. \A op : Call(op).op = op
  BY DEF Call
<1>7. CASE \E p \in FilePaths, mode \in Modes : FOpen(p, mode)
  <2>1. seen' = Call("open")
    BY <1>7 DEF FOpen
  <2> QED BY <1>6, <1>7, <2>1, OrderedFOpen
<1>8. CASE \E h \in held : FFlushCall(h)
  <2>1. seen' = Call("flush") /\ held' = held
    BY <1>8 DEF FFlushCall
  <2>2. Ordered' /\ Lost' = Lost
    BY <1>3, <1>5, <1>8, <2>1, EndsFlush
  <2> QED BY <1>6, <2>1, <2>2
<1>9. CASE \E h \in held : FClose(h)
  <2>1. seen' = Call("close")
    BY <1>9 DEF FClose
  <2> QED BY <1>6, <1>9, <2>1, OrderedFClose
<1>10. CASE \E h \in held, n \in ReadLengths : FRead(h, n)
  <2>1. PICK h \in held, n \in ReadLengths : FRead(h, n)
    BY <1>10
  <2>2. seen'.op = "read" /\ held' = held
    BY <1>6, <2>1 DEF FRead
  <2>3. Ordered' /\ Lost' = Lost
    BY <1>3, <1>5, <2>1, <2>2, EndsRead
  <2> QED BY <2>2, <2>3
<1>11. CASE \E h \in held, n \in WriteLengths : FWrite(h, n)
  <2>1. seen' = Call("write") /\ held' = held
    BY <1>11 DEF FWrite
  <2>2. Ordered' /\ Lost' = Lost
    BY <1>3, <1>5, <1>11, <2>1, EndsWrite
  <2> QED BY <1>6, <2>1, <2>2
<1>12. CASE \E h \in held, s \in Seeks : FSeek(h, s[1], s[2])
  <2>1. seen' = Call("seek") /\ held' = held
    BY <1>12 DEF FSeek
  <2>2. Ordered' /\ Lost' = Lost
    BY <1>3, <1>5, <1>12, <2>1, EndsSeek
  <2> QED BY <1>6, <2>1, <2>2
<1>13. CASE \E p \in FilePaths : RemoveFile(p)
  <2>1. seen' = Call("remove")
    BY <1>13 DEF RemoveFile
  <2>2. Ordered'
    BY <1>13, OrderedRemoveFile
  <2> QED BY <1>6, <2>1, <2>2
<1>14. CASE \E p \in DirPaths : MakeDirectory(p)
  <2>1. seen' = Call("mkdir")
    BY <1>14 DEF MakeDirectory
  <2> QED BY <1>6, <1>14, <2>1, OrderedMakeDirectory
<1>15. CASE \E p \in {<<>>} \cup {q \in DirPaths : kind[q] = "dir"} : ListDirectory(p)
  <2>1. seen'.op = "list" /\ held' = held
    BY <1>15 DEF ListDirectory
  <2>2. Ordered' /\ Lost' = Lost
    BY <1>2, <1>4, <1>15, <2>1, EndsList
  <2> QED BY <2>1, <2>2
<1>16. CASE Shutdown
  <2>1. seen' = Call("shutdown") /\ held' = held
    BY <1>16 DEF Shutdown
  <2>2. Ordered' /\ Lost' = Lost
    BY <1>2, <1>4, <1>16, <2>1, EndsShutdown
  <2> QED BY <1>6, <2>1, <2>2
<1>17. CASE UNCHANGED vars
  <2>1. World' = World /\ held' = held /\ fl' = fl
    BY <1>17 DEF vars, World
  <2>2. Ordered'
    BY <2>1 DEF Ordered
  <2> QED BY <1>17, <2>2
<1> QED
  BY <1>7, <1>8, <1>9, <1>10, <1>11, <1>12, <1>13, <1>14, <1>15, <1>16, <1>17 DEF Next

\* What is in order between the calls.
LEMMA OrderedHandles == Ordered => HandlesInOrder
<1> SUFFICES ASSUME Ordered PROVE HandlesInOrder
  OBVIOUS
<1>1. /\ World.free = fl.free /\ World.open = fl.open /\ World.file = fl.file
      /\ Split(fl.free, fl.open) /\ Apart(World, ToSet(fl.open))
  BY DEF Ordered, Well, Owned, World
<1>2. ToSet(fl.open \o fl.free) = Handles /\ IsInjective(fl.open \o fl.free)
  BY <1>1, SplitBoth
<1> QED BY <1>1, <1>2 DEF HandlesInOrder, Ordered, Apart

\* Under any faults each handle is in one of the two lists of fat_filelib.c once, what callers
\* hold is open, and no path is open twice; no call but fl_remove loses a handle; and
\* fl_fclose leaves no buffer of the table dirty unless writing one failed.
THEOREM HandlesKept == Spec => HandlesAreKept
<1>1. Init => Ordered
  BY OrderedAtFirst
<1>2. Ordered /\ [Next]_vars => Ordered'
  BY OrderedNext
<1>3. Ordered => HandlesInOrder
  BY OrderedHandles
<1>4. Ordered /\ [Next]_vars =>
        [/\ seen'.op # "remove" => Lost' = Lost
         /\ seen'.op = "close" /\ faults' = faults => \A i \in 1 .. Buffers : ~fs'.buf[i].dirty]_vars
  BY OrderedNext
<1> QED BY <1>1, <1>2, <1>3, <1>4, PTL DEF Spec, HandlesAreKept
=============================================================================
