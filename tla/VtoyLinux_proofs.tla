-------------------------- MODULE VtoyLinux_proofs --------------------------
(***************************************************************************)
(* Proofs about VtoyLinux, for any set of devices and any number of them   *)
(* plugged in or out: vtoy_find_disk takes the disk the boot loader spoke  *)
(* of, or rightly refuses, and the table printed for it is the image's.    *)
(***************************************************************************)
EXTENDS VtoyLinux, TLAPS

-----------------------------------------------------------------------------
(***************************************************************************)
(* Types.                                                                  *)
(***************************************************************************)

\* Reading one entry of the directory keeps the types of what the scan keeps.
LEMMA CountDiskType ==
    ASSUME TypeOK, NEW d \in Disks, NEW matches \in BOOLEAN, CountDisk(d, matches)
    PROVE  /\ todo' \subseteq Disks
           /\ count' \in Nat
           /\ diskname' \in Disks \cup {NoDisk}
<1>1. todo' = todo \ {d}
  BY Zenon DEF CountDisk
<1>2. \/ count' = count + 1 /\ diskname' = d
      \/ count' = count /\ diskname' = diskname
  <2>1. CASE matches
    BY <2>1, Zenon DEF CountDisk
  <2>2. CASE ~matches
    BY <2>2, Zenon DEF CountDisk
  <2> QED BY <2>1, <2>2
<1>3. todo \subseteq Disks /\ count \in Nat /\ diskname \in Disks \cup {NoDisk}
  BY Zenon DEF TypeOK
<1> QED BY <1>1, <1>2, <1>3

\* The verdict of vtoy_find_disk keeps the types of what main returns.
LEMMA FoundType ==
    ASSUME TypeOK, NEW n \in Nat, Found(n)
    PROVE  /\ pc' \in {"print", "exit"}
           /\ rc' \in {0, 1}
           /\ message' \in {message, "nodisk", "manydisks"}
  BY DEF TypeOK, Found, Exit, Complain

\* main keeps the types of its variables: exit codes and messages are those it has.
THEOREM TypeCorrect == Spec => []TypeOK
<1>1. ASSUME Init PROVE TypeOK
  <2>1. acpi \in Acpi /\ param \in Param /\ partstart \in Starts
    BY <1>1 DEF Init, Acpi, Param, NoParam, Starts
  <2>2. plugs \in 0 .. MaxPlugs
    <3>1. plugs = 0 BY <1>1 DEF Init
    <3>2. MaxPlugs \in Nat BY Zenon, VtoyLinuxAssumption
    <3> QED BY <3>1, <3>2
  <2>3. missed \in BOOLEAN
    BY <1>1, Zenon DEF Init
  <2> QED BY <1>1, <2>1, <2>2, <2>3 DEF Init, TypeOK
<1>2. ASSUME TypeOK, [Next]_vars PROVE TypeOK'
  <2>1. CASE ParamFromAcpi
    <3>1. PICK table \in {"absent", "corrupt", "good"}, has \in BOOLEAN :
            /\ acpi' = [table |-> table, location |-> has /\ table = "good"]
            /\ IF table = "good"
               THEN \E p \in Param : HaveParam(p)
               ELSE pc' = "firmware" /\ UNCHANGED <<param, rc>>
      BY <2>1, Zenon DEF ParamFromAcpi
    <3>2. acpi' \in Acpi
      BY <3>1 DEF Acpi
    <3>3. UNCHANGED <<world, plugs, options, scan, out, message, verified, missed>>
      BY <2>1 DEF ParamFromAcpi
    <3>4. param' \in Param /\ rc' \in {0, 1} /\ pc' \in {"exit", "find", "firmware"}
      BY <1>2, <3>1 DEF HaveParam, Exit, TypeOK
    <3>5. UNCHANGED <<todo, count, diskname, source, partstart>>
      BY <3>3 DEF scan, out
    <3> QED BY <1>2, <3>2, <3>3, <3>4, <3>5 DEF TypeOK
  <2>2. CASE ParamFromFirmware
    BY <1>2, <2>2
    DEF ParamFromFirmware, HaveParam, Exit, Complain, TypeOK, scan, out, Options
  <2>3. CASE FindBySize
    BY <1>2, <2>3 DEF FindBySize, OpenDir, TypeOK, data, out
  <2>4. ASSUME NEW d \in Disks, SizeOf(d) PROVE TypeOK'
    <3>1. HasSize(d) \in BOOLEAN BY Zenon DEF HasSize
    <3>2. CountDisk(d, HasSize(d)) BY <2>4 DEF SizeOf
    <3> QED BY <1>2, <2>4, <3>1, <3>2, CountDiskType DEF SizeOf, TypeOK, data, out
  <2>5. CASE CheckDevice
    <3>1. diskname' = diskname /\ verified' \subseteq Disks \cup {NoDisk}
      <4>1. diskname' = diskname BY <2>5 DEF CheckDevice
      <4>2. verified' = verified
        \/ (HasId(diskname) /\ verified' = verified \cup {diskname})
        BY <2>5 DEF CheckDevice, Verify
      <4> QED BY <1>2, <4>1, <4>2 DEF TypeOK
    <3>2. count' \in Nat /\ (Found(1) \/ Found(0))
      <4>1. count \in Nat BY <1>2, Zenon DEF TypeOK
      <4>2. (Found(1) /\ count' = count) \/ (Found(0) /\ count' = 0)
        BY <2>5, Zenon DEF CheckDevice
      <4> QED BY <4>1, <4>2
    <3> QED BY <1>2, <2>5, <3>1, <3>2, FoundType DEF CheckDevice, TypeOK, data, out
  <2>6. CASE FindByGuid
    BY <1>2, <2>6 DEF FindByGuid, OpenDir, TypeOK, data, out
  <2>7. ASSUME NEW d \in Disks, GuidOf(d) PROVE TypeOK'
    <3>1. PICK m \in BOOLEAN : CountDisk(d, m)
      <4>1. FALSE \in BOOLEAN /\ HasId(d) \in BOOLEAN
        BY Zenon DEF HasId
      <4> QED BY <2>7, <4>1, Zenon DEF GuidOf
    <3>2. verified' \subseteq Disks \cup {NoDisk}
      BY <1>2, <2>7 DEF GuidOf, Verify, TypeOK
    <3> QED BY <1>2, <2>7, <3>1, <3>2, CountDiskType DEF GuidOf, TypeOK, data, out
  <2>8. CASE GuidEnd
    BY <1>2, <2>8, FoundType DEF GuidEnd, TypeOK, scan, data, out
  <2>9. CASE PrintOsParam \/ LocationByPhymem \/ LocationByAcpi
    BY <1>2, <2>9
    DEF PrintOsParam, LocationByPhymem, LocationByAcpi, GotLocation, Exit, TypeOK, scan, data
  <2>10. CASE LocationByLsexfat
    BY <1>2, <2>10
    DEF LocationByLsexfat, GotLocation, Exit, Complain, TypeOK, scan, data
  <2>12. CASE LocationCorrupted
    <3>1. pc' = "exit" /\ rc' = rc /\ message' = "corrupted"
      BY <2>12 DEF LocationCorrupted, Exit, Complain
    <3>2. UNCHANGED <<world, plugs, options, acpi, param, todo, count, diskname, source,
                      partstart, verified, missed>>
      BY <2>12 DEF LocationCorrupted, data, scan, out
    <3>3. /\ world' \in [Disks -> Disk \cup {Absent}] /\ plugs' \in 0 .. MaxPlugs
          /\ options' \in Options /\ acpi' \in Acpi /\ param' \in Param
          /\ todo' \subseteq Disks /\ count' \in Nat /\ diskname' \in Disks \cup {NoDisk}
      BY <1>2, <2>12, <3>2, Zenon DEF TypeOK, LocationCorrupted
    <3> QED BY <1>2, <3>1, <3>2, <3>3 DEF TypeOK
  <2>13. CASE PrintTable
    <3>1. pc' = "exit" /\ rc' = rc BY <2>13 DEF PrintTable, Exit
    <3>2. UNCHANGED <<world, plugs, options, acpi, param, todo, count, diskname, source,
                      message, verified, missed>>
      BY <2>13 DEF PrintTable, data, scan
    <3>3. partstart' \in Starts BY <2>13 DEF PrintTable, PartStarts, Starts
    <3> QED BY <1>2, <3>1, <3>2, <3>3 DEF TypeOK
  <2>11. ASSUME NEW d \in Disks, Plug(d) PROVE TypeOK'
    <3>1. plugs' \in 0 .. MaxPlugs
      <4>1. plugs \in 0 .. MaxPlugs BY <1>2, Zenon DEF TypeOK
      <4>2. plugs < MaxPlugs /\ plugs' = plugs + 1 BY <2>11, Zenon DEF Plug
      <4>3. MaxPlugs \in Nat BY Zenon, VtoyLinuxAssumption
      <4> QED BY <4>1, <4>2, <4>3
    <3>2. world' \in [Disks -> Disk \cup {Absent}]
      BY <1>2, <2>11 DEF Plug, TypeOK
    <3>3. UNCHANGED <<pc, data, count, diskname, out, rc, message, verified, missed>>
      BY <2>11, Zenon DEF Plug
    <3>4. todo' \subseteq Disks
      BY <1>2, <2>11 DEF Plug, TypeOK
    <3>5. UNCHANGED <<options, acpi, param, source, partstart>>
      BY <3>3 DEF data, out
    <3> QED BY <1>2, <3>1, <3>2, <3>3, <3>4, <3>5 DEF TypeOK
  <2>14. CASE UNCHANGED vars
    <3>1. UNCHANGED <<world, plugs, pc, options, acpi, param, todo, count, diskname, source,
                      partstart, rc, message, verified, missed>>
      BY <2>14 DEF vars, scan, data, out
    <3> QED BY <1>2, <3>1 DEF TypeOK
  <2> QED
    BY <1>2, <2>1, <2>2, <2>3, <2>4, <2>5, <2>6, <2>7, <2>8, <2>9, <2>10, <2>11, <2>12,
       <2>13, <2>14
    DEF Next, Main
<1> QED BY <1>1, <1>2, PTL DEF Spec
-----------------------------------------------------------------------------
(***************************************************************************)
(* vtoy_find_disk.                                                         *)
(***************************************************************************)

\* A device that is not there matches neither scan.
LEMMA AbsentMatchesNothing ==
    ASSUME NEW d \in Disks, world[d] = Absent
    PROVE  ~HasSize(d) /\ ~HasId(d)
  BY VtoyLinuxAssumption DEF Absent, HasSize, HasId

\* Before and after the scans nothing they rest on changes.
LEMMA FindKept ==
    ASSUME FindInv,
           UNCHANGED <<world, plugs, diskname, verified, missed>>,
           \/ /\ pc \in {"print", "phymem", "byacpi", "bylsexfat", "table"}
              /\ pc' \in {"print", "phymem", "byacpi", "bylsexfat", "table", "exit"}
           \/ /\ pc \in {"acpi", "firmware"}
              /\ pc' \in {"firmware", "find", "exit"}
              /\ lines' = lines,
           \/ message' = message
           \/ /\ pc' = "exit"
              /\ message' \notin {"none", "nodisk", "manydisks"}
    PROVE  FindInv'
<1>1. message = "none"
  BY DEF FindInv
<1>2. FoundIsVentoyDisk' /\ FoundIsUnambiguous'
  <2>1. Printing' => Printing
    BY DEF Printing, FindInv
  <2> QED BY <2>1 DEF FindInv, FoundIsVentoyDisk, FoundIsUnambiguous, HasSize, HasId
<1>3. RefusalIsRight'
  BY <1>1 DEF RefusalIsRight
<1>4. pc' \notin {"size", "guid"}
  OBVIOUS
<1>5. message' # "none" => pc' = "exit"
  BY <1>1
<1>6. pc' \in {"acpi", "firmware", "find", "size", "guid"} => lines' = <<>>
  BY DEF FindInv
<1> QED BY <1>2, <1>3, <1>4, <1>5, <1>6 DEF FindInv

\* While a scan goes on nothing is printed and nothing is refused.
LEMMA Scanning ==
    ASSUME pc' \in {"size", "guid"}, lines' = <<>>, message' = "none",
           pc' = "size" =>
              /\ count' >= 1 => diskname' \in Disks \ Filtered
              /\ SizeKnown' \/ (missed' /\ todo' = {} /\ count' = 0),
           pc' = "guid" =>
              /\ count' >= 1 => diskname' \in (Disks \cap verified') \ Filtered
              /\ IdKnown' \/ (missed' /\ todo' = {} /\ count' = 0)
    PROVE  FindInv'
<1>1. ~Printing'
  BY DEF Printing
<1> QED BY <1>1 DEF FindInv, FoundIsVentoyDisk, FoundIsUnambiguous, RefusalIsRight

\* opendir leaves a scan that knows nothing and has everything to read.
LEMMA OpenDirKnows ==
    ASSUME NEW next, OpenDir(next), UNCHANGED <<world, plugs>>
    PROVE  /\ count' = 0
           /\ SizeKnown' \/ (missed' /\ todo' = {})
           /\ IdKnown' \/ (missed' /\ todo' = {})
<1>1. count' = 0
  BY DEF OpenDir
<1>2. CASE missed' /\ todo' = {}
  BY <1>1, <1>2
<1>3. CASE todo' = {d \in Disks : world[d] # Absent}
  <2>1. ASSUME NEW d \in Disks \ todo' PROVE ~HasSize(d)' /\ ~HasId(d)'
    <3>1. world[d] = Absent
      BY <1>3, <2>1
    <3>2. ~HasSize(d) /\ ~HasId(d)
      BY <3>1, AbsentMatchesNothing
    <3> QED BY <3>2 DEF HasSize, HasId
  <2> QED BY <1>1, <2>1 DEF SizeKnown, IdKnown
<1> QED BY <1>2, <1>3 DEF OpenDir

\* Reading the size of one more disk.
LEMMA SizeOfKnows ==
    ASSUME TypeOK, FindInv, NEW d \in Disks, SizeOf(d)
    PROVE  FindInv'
<1>1. /\ pc = "size" /\ pc' = "size" /\ d \in todo /\ todo' = todo \ {d}
      /\ UNCHANGED <<world, plugs, lines, message>>
  BY DEF SizeOf, CountDisk, out
<1>2. count \in Nat
  BY Zenon DEF TypeOK
<1>3. /\ count >= 1 => diskname \in Disks \ Filtered
      /\ SizeKnown
      /\ lines = <<>> /\ message = "none"
  BY <1>1 DEF FindInv
<1>4. \/ HasSize(d) /\ count' = count + 1 /\ diskname' = d
      \/ ~HasSize(d) /\ count' = count /\ diskname' = diskname
  BY DEF SizeOf, CountDisk
<1>5. count' >= 1 => diskname' \in Disks \ Filtered
  BY <1>3, <1>4 DEF HasSize
<1>6. SizeKnown'
  <2>1. SUFFICES ASSUME plugs = 0, count' <= 1, NEW e \in Disks \ todo', HasSize(e)
                 PROVE  count' = 1 /\ e = diskname'
    BY <1>1 DEF SizeKnown, HasSize
  <2>2. e = d \/ e \in Disks \ todo
    BY <1>1
  <2>3. count <= 1
    BY <1>2, <1>4, <2>1
  <2>4. e \in Disks \ todo => count = 1 /\ e = diskname
    BY <1>3, <2>1, <2>3 DEF SizeKnown
  <2>5. CASE HasSize(d)
    <3>1. count' = count + 1 /\ diskname' = d
      BY <1>4, <2>5
    <3>2. count = 0
      BY <1>2, <2>1, <3>1
    <3> QED BY <2>2, <2>4, <3>1, <3>2
  <2>6. CASE ~HasSize(d)
    BY <1>4, <2>1, <2>2, <2>4, <2>6
  <2> QED BY <2>5, <2>6
<1> QED BY <1>1, <1>3, <1>5, <1>6, Scanning

\* Reading the identity of one more disk.
LEMMA GuidOfKnows ==
    ASSUME TypeOK, FindInv, NEW d \in Disks, GuidOf(d)
    PROVE  FindInv'
<1>1. /\ pc = "guid" /\ pc' = "guid" /\ d \in todo /\ todo' = todo \ {d}
      /\ UNCHANGED <<world, plugs, lines, message>>
  BY DEF GuidOf, CountDisk, out
<1>2. count \in Nat
  BY Zenon DEF TypeOK
<1>3. /\ count >= 1 => diskname \in (Disks \cap verified) \ Filtered
      /\ IdKnown
      /\ lines = <<>> /\ message = "none"
  BY <1>1 DEF FindInv
<1> DEFINE Hit == d \notin Filtered /\ HasId(d)
<1>4. \/ Hit /\ count' = count + 1 /\ diskname' = d /\ d \in verified'
      \/ ~Hit /\ count' = count /\ diskname' = diskname
  BY DEF GuidOf, CountDisk, Verify
<1>5. verified \subseteq verified'
  BY DEF GuidOf, Verify
<1>6. count' >= 1 => diskname' \in (Disks \cap verified') \ Filtered
  BY <1>3, <1>4, <1>5
<1>7. IdKnown'
  <2>1. SUFFICES ASSUME plugs = 0 PROVE IdKnown'
    BY <1>1 DEF IdKnown
  <2>2. CASE ~Hit
    <3>1. count' = count /\ diskname' = diskname
      BY <1>4, <2>2
    <3>2. count <= 1 =>
            \A e \in Disks \ (todo' \cup Filtered) : HasId(e) => count = 1 /\ e = diskname
      BY <1>1, <1>3, <2>1, <2>2 DEF IdKnown
    <3>3. /\ count >= 1 => diskname \notin todo /\ HasId(diskname)
          /\ count >= 2 => \E a, b \in Disks : Alike(a, b) /\ HasId(a) /\ HasId(b)
      BY <1>3, <2>1 DEF IdKnown
    <3> QED BY <1>1, <3>1, <3>2, <3>3 DEF IdKnown, HasId, Alike
  <2>3. CASE Hit
    <3>1. count' = count + 1 /\ diskname' = d
      BY <1>4, <2>3
    <3>2. count' <= 1 =>
            \A e \in Disks \ (todo' \cup Filtered) : HasId(e) => count' = 1 /\ e = d
      <4>1. SUFFICES ASSUME count' <= 1, NEW e \in Disks \ (todo' \cup Filtered), HasId(e)
                     PROVE  count' = 1 /\ e = d
        OBVIOUS
      <4>2. count = 0
        BY <1>2, <3>1, <4>1
      <4>3. \A x \in Disks \ (todo \cup Filtered) : HasId(x) => count = 1
        <5>1. count <= 1 BY <4>2
        <5>2. IdKnown BY <1>3
        <5> QED BY <2>1, <5>1, <5>2, Zenon DEF IdKnown
      <4> QED BY <1>1, <3>1, <4>1, <4>2, <4>3
    <3>3. count' >= 2 => \E a, b \in Disks : Alike(a, b) /\ HasId(a) /\ HasId(b)
      <4>1. SUFFICES ASSUME count >= 1
                     PROVE  \E a, b \in Disks : Alike(a, b) /\ HasId(a) /\ HasId(b)
        BY <1>2, <3>1
      <4>2. diskname \notin todo /\ HasId(diskname) /\ diskname \notin Filtered
        BY <1>3, <2>1, <4>1 DEF IdKnown
      <4>3. diskname \in Disks
        BY <1>3, <4>1
      <4>4. Alike(diskname, d)
        BY <1>1, <2>3, <4>2 DEF Alike
      <4> QED BY <2>3, <4>2, <4>3, <4>4
    <3> QED BY <1>1, <2>3, <3>1, <3>2, <3>3 DEF IdKnown, HasId, Alike
  <2> QED BY <2>2, <2>3
<1> QED BY <1>1, <1>3, <1>6, <1>7, Scanning

\* The verdict on one disk.
LEMMA FoundOne ==
    ASSUME Found(1)
    PROVE  pc' = "print" /\ message' = message
<1>1. 1 # 0 /\ ~(1 > 1)
  OBVIOUS
<1> QED BY <1>1, Zenon DEF Found

\* The verdict on none.
LEMMA FoundNone ==
    ASSUME Found(0)
    PROVE  pc' = "exit" /\ message' = "nodisk"
<1>1. 0 # 1 /\ ~(0 > 1)
  OBVIOUS
<1> QED BY <1>1, Zenon DEF Found, Exit, Complain

\* vtoy_check_device: the one disk of the right size is taken, or there is none.
LEMMA CheckDeviceKnows ==
    ASSUME FindInv, CheckDevice
    PROVE  FindInv'
<1>1. /\ pc = "size" /\ todo = {} /\ count = 1
      /\ UNCHANGED <<world, plugs, lines, diskname, missed>>
  BY Zenon DEF CheckDevice, out
<1>2. count >= 1 /\ count <= 1 /\ count # 0
  BY <1>1
<1>3. diskname \in Disks \ Filtered /\ SizeKnown
  BY <1>1, <1>2, Zenon DEF FindInv
<1>4. lines = <<>> /\ message = "none"
  <2>1. pc # "exit" /\ pc \in {"acpi", "firmware", "find", "size", "guid"}
    BY <1>1
  <2> QED BY <2>1, Zenon DEF FindInv
<1>5. plugs = 0 => \A d \in Disks : HasSize(d) => d = diskname
  <2>1. Disks \ todo = Disks
    BY <1>1
  <2> QED BY <1>2, <1>3, <2>1, Zenon DEF SizeKnown
<1>6. CASE HasId(diskname)
  <2>1. Found(1) /\ diskname \in verified'
    <3>1. Verify(diskname) /\ Found(1)
      BY <1>6, Zenon DEF CheckDevice
    <3> QED BY <1>6, <3>1 DEF Verify
  <2>2. pc' = "print" /\ message' = "none"
    BY <1>4, <2>1, FoundOne
  <2>3. FoundIsVentoyDisk'
    BY <1>1, <1>3, <2>1 DEF FoundIsVentoyDisk
  <2>4. FoundIsUnambiguous'
    <3>1. (plugs = 0)' => ~\E d \in Disks : Alike(d, diskname) /\ HasSize(d) /\ HasId(d)
      BY <1>1, <1>5, Zenon DEF Alike
    <3> QED BY <1>1, <3>1 DEF FoundIsUnambiguous, HasSize, HasId
  <2>5. RefusalIsRight'
    BY <2>2 DEF RefusalIsRight
  <2> QED BY <1>1, <1>4, <2>2, <2>3, <2>4, <2>5 DEF FindInv
<1>7. CASE ~HasId(diskname)
  <2>1. Found(0)
    BY <1>7, Zenon DEF CheckDevice
  <2>2. pc' = "exit" /\ message' = "nodisk"
    BY <2>1, FoundNone
  <2>3. FoundIsVentoyDisk' /\ FoundIsUnambiguous'
    BY <1>1, <1>4, <2>2 DEF FoundIsVentoyDisk, FoundIsUnambiguous, Printing
  <2>4. RefusalIsRight'
    <3>1. (plugs = 0)' => ~\E d \in Disks : HasSize(d) /\ HasId(d)
      BY <1>1, <1>5, <1>7, Zenon
    <3> QED BY <1>1, <2>2, <3>1 DEF RefusalIsRight, HasSize, HasId
  <2> QED BY <1>1, <1>4, <2>2, <2>3, <2>4 DEF FindInv
<1> QED BY <1>6, <1>7

\* The end of the scan for identities: its only disk is taken, or none, or several
\* were seen.
LEMMA GuidEndKnows ==
    ASSUME TypeOK, FindInv, GuidEnd
    PROVE  FindInv'
<1>1. /\ pc = "guid" /\ todo = {} /\ Found(count)
      /\ UNCHANGED <<world, plugs, lines, diskname, verified, missed>>
  BY Zenon DEF GuidEnd, scan, out
<1>2. count \in Nat
  BY Zenon DEF TypeOK
<1>3. /\ count >= 1 => diskname \in (Disks \cap verified) \ Filtered
      /\ IdKnown \/ (missed /\ count = 0)
  BY <1>1, Zenon DEF FindInv
<1>4. lines = <<>> /\ message = "none"
  <2>1. pc # "exit" /\ pc \in {"acpi", "firmware", "find", "size", "guid"}
    BY <1>1
  <2> QED BY <2>1, Zenon DEF FindInv
<1>5. Disks \ (todo \cup Filtered) = Disks \ Filtered
  BY <1>1
<1>6. CASE count = 1
  <2>1. Found(1)
    BY <1>1, <1>6, Zenon
  <2>2. pc' = "print" /\ message' = "none"
    BY <1>4, <2>1, FoundOne
  <2>3. diskname \in (Disks \cap verified) \ Filtered /\ IdKnown
    <3>1. count >= 1 /\ count # 0 BY <1>6
    <3> QED BY <1>3, <3>1, Zenon
  <2>4. FoundIsVentoyDisk'
    BY <1>1, <2>3 DEF FoundIsVentoyDisk
  <2>5. FoundIsUnambiguous'
    <3>1. count <= 1 BY <1>6
    <3>2. plugs = 0 => \A d \in Disks \ Filtered : HasId(d) => d = diskname
      BY <1>5, <2>3, <3>1, Zenon DEF IdKnown
    <3>3. plugs = 0 => ~\E d \in Disks : Alike(d, diskname) /\ HasSize(d) /\ HasId(d)
      BY <3>2 DEF Alike
    <3> QED BY <1>1, <3>3 DEF FoundIsUnambiguous, HasSize, HasId
  <2>6. RefusalIsRight'
    BY <2>2 DEF RefusalIsRight
  <2> QED BY <1>1, <1>4, <2>2, <2>4, <2>5, <2>6 DEF FindInv
<1>7. CASE count = 0
  <2>1. Found(0)
    BY <1>1, <1>7, Zenon
  <2>2. pc' = "exit" /\ message' = "nodisk"
    BY <2>1, FoundNone
  <2>3. FoundIsVentoyDisk' /\ FoundIsUnambiguous'
    BY <1>1, <1>4, <2>2 DEF FoundIsVentoyDisk, FoundIsUnambiguous, Printing
  <2>4. RefusalIsRight'
    <3>1. count <= 1 /\ count # 1 BY <1>7
    <3>2. plugs = 0 /\ ~missed => \A d \in Disks \ Filtered : ~HasId(d)
      BY <1>3, <1>5, <3>1, Zenon DEF IdKnown
    <3>3. plugs = 0 /\ ~missed => ~\E d \in Disks : HasSize(d) /\ HasId(d)
      BY <3>2 DEF HasSize
    <3> QED BY <1>1, <2>2, <3>3 DEF RefusalIsRight, HasSize, HasId
  <2> QED BY <1>1, <1>4, <2>2, <2>3, <2>4 DEF FindInv
<1>8. CASE count # 0 /\ count # 1
  <2>1. count >= 2
    BY <1>2, <1>8
  <2>2. pc' = "exit" /\ message' = "manydisks"
    BY <1>1, <1>8, Zenon DEF Found, Exit, Complain
  <2>3. FoundIsVentoyDisk' /\ FoundIsUnambiguous'
    BY <1>1, <1>4, <2>2 DEF FoundIsVentoyDisk, FoundIsUnambiguous, Printing
  <2>4. RefusalIsRight'
    <3>1. plugs = 0 => \E d, e \in Disks : Alike(d, e) /\ HasId(d) /\ HasId(e)
      BY <1>3, <1>8, <2>1, Zenon DEF IdKnown
    <3> QED BY <1>1, <2>2, <3>1 DEF RefusalIsRight, HasId, Alike
  <2> QED BY <1>1, <1>4, <2>2, <2>3, <2>4 DEF FindInv
<1> QED BY <1>6, <1>7, <1>8

\* A device that comes or goes: nothing is claimed of such a run but that the disk
\* that was taken had been verified.
LEMMA PlugKnows ==
    ASSUME TypeOK, FindInv, NEW d \in Disks, Plug(d)
    PROVE  FindInv'
<1>1. plugs' # 0
  <2>1. plugs \in Nat
    <3>1. plugs \in 0 .. MaxPlugs BY Zenon DEF TypeOK
    <3>2. MaxPlugs \in Nat BY Zenon, VtoyLinuxAssumption
    <3> QED BY <3>1, <3>2
  <2>2. plugs' = plugs + 1
    BY Zenon DEF Plug
  <2> QED BY <2>1, <2>2
<1>2. UNCHANGED <<pc, count, diskname, lines, message, verified, missed>>
  BY DEF Plug, out
<1>3. SizeKnown' /\ IdKnown' /\ FoundIsUnambiguous' /\ RefusalIsRight'
  BY <1>1 DEF SizeKnown, IdKnown, FoundIsUnambiguous, RefusalIsRight
<1>4. FoundIsVentoyDisk'
  BY <1>2 DEF FindInv, FoundIsVentoyDisk, Printing
<1> QED BY <1>2, <1>3, <1>4 DEF FindInv
-----------------------------------------------------------------------------
\* vtoy_find_disk, for any devices and however often they come and go: what its two
\* scans know, and so its verdict, are right (FindInv holds of every reachable state).
THEOREM FindInvariant == Spec => []FindInv
<1>1. ASSUME Init PROVE FindInv
  BY <1>1, Zenon
  DEF Init, FindInv, FoundIsVentoyDisk, FoundIsUnambiguous, RefusalIsRight, Printing
<1>2. ASSUME TypeOK, FindInv, [Next]_vars PROVE FindInv'
  <2>1. CASE ParamFromAcpi
    BY <1>2, <2>1, FindKept DEF ParamFromAcpi, HaveParam, Exit, scan, out
  <2>2. CASE ParamFromFirmware
    BY <1>2, <2>2, FindKept DEF ParamFromFirmware, HaveParam, Exit, Complain, scan, out
  <2>3. CASE FindBySize
    <3>1. /\ pc = "find" /\ OpenDir("size")
          /\ UNCHANGED <<world, plugs, lines, message>>
      BY <2>3, Zenon DEF FindBySize, out
    <3>2. pc' = "size"
      BY <3>1, Zenon DEF OpenDir
    <3>3. lines = <<>> /\ message = "none"
      BY <1>2, <3>1 DEF FindInv
    <3>4. count' = 0 /\ ~(count' >= 1) /\ (SizeKnown' \/ (missed' /\ todo' = {}))
      BY <3>1, OpenDirKnows
    <3>5. pc' # "guid" /\ lines' = <<>> /\ message' = "none"
      BY <3>1, <3>2, <3>3
    <3> QED BY <3>2, <3>4, <3>5, Scanning, Zenon
  <2>4. CASE FindByGuid
    <3>1. /\ pc = "size" /\ OpenDir("guid")
          /\ UNCHANGED <<world, plugs, lines, message>>
      BY <2>4, Zenon DEF FindByGuid, out
    <3>2. pc' = "guid"
      BY <3>1, Zenon DEF OpenDir
    <3>3. lines = <<>> /\ message = "none"
      BY <1>2, <3>1 DEF FindInv
    <3>4. count' = 0 /\ ~(count' >= 1) /\ (IdKnown' \/ (missed' /\ todo' = {}))
      BY <3>1, OpenDirKnows
    <3>5. pc' # "size" /\ lines' = <<>> /\ message' = "none"
      BY <3>1, <3>2, <3>3
    <3> QED BY <3>2, <3>4, <3>5, Scanning, Zenon
  <2>5. ASSUME NEW d \in Disks, SizeOf(d) PROVE FindInv'
    BY <1>2, <2>5, SizeOfKnows
  <2>6. ASSUME NEW d \in Disks, GuidOf(d) PROVE FindInv'
    BY <1>2, <2>6, GuidOfKnows
  <2>7. CASE CheckDevice
    BY <1>2, <2>7, CheckDeviceKnows
  <2>8. CASE GuidEnd
    BY <1>2, <2>8, GuidEndKnows
  <2>9. CASE PrintOsParam
    BY <1>2, <2>9, FindKept DEF PrintOsParam, Exit, scan
  <2>10. CASE LocationByPhymem \/ LocationByAcpi
    BY <1>2, <2>10, FindKept DEF LocationByPhymem, LocationByAcpi, GotLocation, scan
  <2>11. CASE LocationByLsexfat
    <3>1. /\ pc = "bylsexfat"
          /\ UNCHANGED <<world, plugs, diskname, verified, missed>>
      BY <2>11, Zenon DEF LocationByLsexfat, scan
    <3>2. \/ pc' = "table" /\ message' = message
          \/ pc' = "exit" /\ message' = "nolocation"
      BY <2>11, Zenon DEF LocationByLsexfat, GotLocation, Exit, Complain
    <3> QED BY <1>2, <3>1, <3>2, FindKept
  <2>12. CASE LocationCorrupted
    BY <1>2, <2>12, FindKept DEF LocationCorrupted, Exit, Complain, scan
  <2>13. CASE PrintTable
    <3>1. /\ pc = "table" /\ pc' = "exit"
          /\ UNCHANGED <<world, plugs, diskname, verified, missed, message>>
      BY <2>13 DEF PrintTable, Exit, scan
    <3>2. UNCHANGED <<world, plugs, diskname, verified, missed>> /\ message' = message
      BY <3>1
    <3>3. /\ pc \in {"print", "phymem", "byacpi", "bylsexfat", "table"}
          /\ pc' \in {"print", "phymem", "byacpi", "bylsexfat", "table", "exit"}
      BY <3>1
    <3> QED BY <1>2, <3>2, <3>3, FindKept, Zenon
  <2>14. ASSUME NEW d \in Disks, Plug(d) PROVE FindInv'
    BY <1>2, <2>14, PlugKnows
  <2>15. CASE UNCHANGED vars
    BY <1>2, <2>15
    DEF FindInv, FoundIsVentoyDisk, FoundIsUnambiguous, RefusalIsRight, Printing,
        SizeKnown, IdKnown, HasSize, HasId, vars, scan, data, out
  <2> QED
    BY <1>2, <2>1, <2>2, <2>3, <2>4, <2>5, <2>6, <2>7, <2>8, <2>9, <2>10, <2>11, <2>12,
       <2>13, <2>14, <2>15
    DEF Next, Main
<1> QED BY <1>1, <1>2, TypeCorrect, PTL DEF Spec

\* What is printed is of a disk that was read and is the boot loader's.
THEOREM PrintsVentoyDisk == Spec => []FoundIsVentoyDisk
<1>1. FindInv => FoundIsVentoyDisk
  BY DEF FindInv
<1> QED BY <1>1, FindInvariant, PTL

\* Two disks that both fit are never taken for one.
THEOREM NoTwoDisks == Spec => []FoundIsUnambiguous
<1>1. FindInv => FoundIsUnambiguous
  BY DEF FindInv
<1> QED BY <1>1, FindInvariant, PTL

\* The complaints "nodisk" and "manydisks" are true.
THEOREM RefusesRightly == Spec => []RefusalIsRight
<1>1. FindInv => RefusalIsRight
  BY DEF FindInv
<1> QED BY <1>1, FindInvariant, PTL
-----------------------------------------------------------------------------
(***************************************************************************)
(* The table that is printed.                                              *)
(***************************************************************************)
\* From where the location comes, until the table is printed from it.
TableInv ==
    /\ pc \notin {"table", "exit"} => source = "none"
    /\ pc \in {"phymem", "byacpi", "bylsexfat"} => dmdisk = <<diskname>>
    /\ pc = "table" /\ source \in {"phymem", "acpi"} =>
          location = Image /\ dmdisk = <<diskname>>
    /\ pc # "exit" => lines = <<>>
    /\ TableIsImage

\* The lines for the regions of the image give dmsetup the sectors of the image, counted
\* from what is taken for the start of the partition.
LEMMA LinesAreImage ==
    ASSUME dmdisk = <<diskname>>, NEW start, NEW table,
           table = [k \in DOMAIN Image |-> Line(Image[k], start)]
    PROVE  Sectors(table) = ImageFrom(start)
<1> DEFINE Printed(n) ==
              {<<table[n].start + k, table[n].device, table[n].offset + k>> :
                 k \in 0 .. table[n].length - 1}
           Meant(n) ==
              {<<ImageSector * Image[n].image + k, PartitionName(diskname),
                 Image[n].disk - start + k>> :
                 k \in 0 .. ImageSector * Image[n].count - 1}
<1>1. DOMAIN table = DOMAIN Image
  OBVIOUS
<1>2. ASSUME NEW n \in DOMAIN Image
      PROVE  Printed(n) = Meant(n)
  <2>1. /\ table[n].start = ImageSector * Image[n].image
        /\ table[n].length = ImageSector * Image[n].count
        /\ table[n].device = PartitionName(diskname)
        /\ table[n].offset = Image[n].disk - start
    BY <1>2 DEF Line, PartitionName
  <2> QED BY <2>1, Zenon
<1>3. Sectors(table) = UNION {Printed(n) : n \in DOMAIN table}
  BY Zenon DEF Sectors
<1>4. ImageFrom(start) = UNION {Meant(n) : n \in DOMAIN Image}
  BY Zenon DEF ImageFrom
<1> HIDE DEF Printed, Meant
<1>5. UNION {Printed(n) : n \in DOMAIN table} = UNION {Meant(n) : n \in DOMAIN Image}
  BY <1>1, <1>2
<1> QED BY <1>3, <1>4, <1>5, Zenon

\* vtoy_print_image_location: when the location is the boot loader's, the table makes
\* dmsetup build the image, of any number of regions, from the start of the partition
\* that was read, or assumed where it could not be read; whatever devices come and go.
THEOREM TableIsTheImage == Spec => []TableIsImage
<1>1. ASSUME Init PROVE TableInv
  BY <1>1, Zenon DEF Init, TableInv, TableIsImage
<1>2. ASSUME TableInv, [Next]_vars PROVE TableInv'
  <2>1. ASSUME pc # "exit", pc' # "exit", UNCHANGED lines,
               pc' # "table" => source' = "none",
               pc' \in {"phymem", "byacpi", "bylsexfat"} => dmdisk' = <<diskname'>>,
               pc' = "table" /\ source' \in {"phymem", "acpi"} =>
                  location' = Image /\ dmdisk' = <<diskname'>>
        PROVE  TableInv'
    BY <1>2, <2>1, Zenon DEF TableInv, TableIsImage
  <2>2. ASSUME pc # "exit", pc' = "exit", UNCHANGED lines
        PROVE  TableInv'
    BY <1>2, <2>2, Zenon DEF TableInv, TableIsImage
  <2>3. CASE ParamFromAcpi
    <3>1. pc = "acpi" /\ UNCHANGED <<lines, source, dmdisk, diskname>>
      BY <2>3, Zenon DEF ParamFromAcpi, out, scan
    <3>2. pc' \in {"exit", "find", "firmware"}
      BY <2>3 DEF ParamFromAcpi, HaveParam, Exit
    <3> QED BY <1>2, <2>1, <2>2, <3>1, <3>2 DEF TableInv
  <2>4. CASE ParamFromFirmware
    <3>1. pc = "firmware" /\ UNCHANGED <<lines, source, dmdisk, diskname>>
      BY <2>4, Zenon DEF ParamFromFirmware, out, scan
    <3>2. pc' \in {"exit", "find"}
      BY <2>4 DEF ParamFromFirmware, HaveParam, Exit
    <3> QED BY <1>2, <2>1, <2>2, <3>1, <3>2 DEF TableInv
  <2>5. CASE FindBySize \/ FindByGuid
    <3>1. pc \in {"find", "size"} /\ pc' \in {"size", "guid"} /\ UNCHANGED <<lines, source>>
      BY <2>5 DEF FindBySize, FindByGuid, OpenDir, out
    <3> QED BY <1>2, <2>1, <3>1 DEF TableInv
  <2>6. ASSUME NEW d \in Disks, SizeOf(d) \/ GuidOf(d) PROVE TableInv'
    <3>1. pc \in {"size", "guid"} /\ pc' = pc /\ UNCHANGED <<lines, source>>
      BY <2>6 DEF SizeOf, GuidOf, out
    <3> QED BY <1>2, <2>1, <3>1 DEF TableInv
  <2>7. CASE CheckDevice \/ GuidEnd
    <3>1. pc \in {"size", "guid"} /\ UNCHANGED <<lines, source>>
      BY <2>7 DEF CheckDevice, GuidEnd, out
    <3>2. pc' \in {"print", "exit"}
      BY <2>7 DEF CheckDevice, GuidEnd, Found, Exit
    <3> QED BY <1>2, <2>1, <2>2, <3>1, <3>2 DEF TableInv
  <2>8. CASE PrintOsParam
    <3>1. pc = "print" /\ dmdisk' = <<diskname'>> /\ UNCHANGED <<lines, source>>
      BY <2>8 DEF PrintOsParam, scan
    <3>2. pc' \in {"exit", "phymem"}
      BY <2>8 DEF PrintOsParam, Exit
    <3> QED BY <1>2, <2>1, <2>2, <3>1, <3>2 DEF TableInv
  <2>9. CASE LocationByPhymem
    <3>1. pc = "phymem" /\ UNCHANGED <<lines, dmdisk, diskname>>
      BY <2>9 DEF LocationByPhymem, scan
    <3>2. \/ pc' = "table" /\ location' = Image
          \/ pc' = "byacpi" /\ UNCHANGED source
      BY <2>9 DEF LocationByPhymem, GotLocation
    <3> QED BY <1>2, <2>1, <3>1, <3>2 DEF TableInv
  <2>10. CASE LocationByAcpi
    <3>1. pc = "byacpi" /\ UNCHANGED <<lines, dmdisk, diskname>>
      BY <2>10 DEF LocationByAcpi, scan
    <3>2. \/ pc' = "table" /\ location' = Image
          \/ pc' = "bylsexfat" /\ UNCHANGED source
      BY <2>10 DEF LocationByAcpi, GotLocation
    <3> QED BY <1>2, <2>1, <3>1, <3>2 DEF TableInv
  <2>11. CASE LocationByLsexfat
    <3>1. pc = "bylsexfat" /\ UNCHANGED lines
      BY <2>11, Zenon DEF LocationByLsexfat
    <3>2. (pc' = "table" /\ source' = "lsexfat") \/ pc' = "exit"
      BY <2>11, Zenon DEF LocationByLsexfat, GotLocation, Exit
    <3> QED BY <1>2, <2>1, <2>2, <3>1, <3>2
  <2>12. CASE LocationCorrupted
    BY <2>2, <2>12 DEF LocationCorrupted, Exit, out
  <2>13. CASE PrintTable
    <3>1. /\ pc = "table" /\ pc' = "exit"
          /\ UNCHANGED <<world, source, location, dmdisk, diskname>>
      BY <2>13 DEF PrintTable, Exit, scan
    <3>2. lines' = [k \in DOMAIN location |-> Line(location[k], partstart')]
      BY <2>13 DEF PrintTable
    <3>3. ASSUME source \in {"phymem", "acpi"}
          PROVE  Sectors(lines') = ImageFrom(partstart')
      <4>1. location = Image /\ dmdisk = <<diskname>>
        BY <1>2, <3>1, <3>3 DEF TableInv
      <4> QED BY <3>2, <4>1, LinesAreImage
    <3>4. ImageFrom(partstart)' = ImageFrom(partstart')
      BY <3>1 DEF ImageFrom, PartitionName
    <3>5. Sectors(lines)' = Sectors(lines')
      BY DEF Sectors
    <3>6. TableIsImage'
      BY <3>1, <3>3, <3>4, <3>5 DEF TableIsImage
    <3> QED BY <3>1, <3>6 DEF TableInv
  <2>14. ASSUME NEW d \in Disks, Plug(d) PROVE TableInv'
    <3>1. pc # "exit" /\ UNCHANGED <<pc, lines, source, location, dmdisk, diskname>>
      BY <2>14 DEF Plug, out
    <3> QED BY <1>2, <2>1, <3>1, Zenon DEF TableInv
  <2>15. CASE UNCHANGED vars
    <3>1. UNCHANGED <<pc, diskname, source, location, dmdisk, partstart, lines>>
      BY <2>15 DEF vars, scan, out
    <3>2. Sectors(lines)' = Sectors(lines) /\ ImageFrom(partstart)' = ImageFrom(partstart)
      BY <3>1 DEF Sectors, ImageFrom, PartitionName
    <3> QED BY <1>2, <3>1, <3>2 DEF TableInv, TableIsImage
  <2> QED
    BY <1>2, <2>3, <2>4, <2>5, <2>6, <2>7, <2>8, <2>9, <2>10, <2>11, <2>12, <2>13, <2>14,
       <2>15
    DEF Next, Main
<1>3. TableInv => TableIsImage
  BY DEF TableInv
<1> QED BY <1>1, <1>2, <1>3, PTL DEF Spec
=============================================================================
