------------------------- MODULE VtoyWindows_proofs -------------------------
(***************************************************************************)
(* Proofs about VtoyWindows, for any drives, disks and commands, and any   *)
(* number of drives that others plug and unplug meanwhile.                 *)
(***************************************************************************)
EXTENDS VtoyWindows, TLAPS

\* Facts about numbers; there is no loop here.
Nats == INSTANCE Induction_proofs WITH
    Step <- LAMBDA a, b, v, k : {v}, Good <- LAMBDA p, v : v \in p

-----------------------------------------------------------------------------
(***************************************************************************)
(* The first and the last letter of a set, which the loops over the bits   *)
(* of GetLogicalDrives end at.                                             *)
(***************************************************************************)
\* The first letter of a set is one of the set.
LEMMA MinIsThere ==
    ASSUME NEW S, S \subseteq Nat, S # {}
    PROVE  Min(S) \in S
  BY Nats!LeastExists, Zenon DEF Min

\* So is the last one, which vtoy_find_free_drive takes: there are no more than 26.
LEMMA MaxIsThere ==
    ASSUME NEW S, S \subseteq 1 .. 26, S # {}
    PROVE  Max(S) \in S
<1> DEFINE T == {26 - l : l \in S}
<1>1. T \subseteq Nat /\ T # {}
  <2>1. PICK s \in S : TRUE
    OBVIOUS
  <2>2. 26 - s \in T
    BY <2>1
  <2>3. ASSUME NEW l \in S PROVE 26 - l \in Nat
    <3>1. l \in 1 .. 26
      OBVIOUS
    <3> QED BY <3>1, SMT
  <2> QED BY <2>2, <2>3
<1>2. PICK m \in T : \A t \in T : m =< t
  BY <1>1, Nats!LeastExists
<1>3. PICK x \in S : m = 26 - x
  OBVIOUS
<1>4. ASSUME NEW y \in S PROVE x >= y
  <2>1. m =< 26 - y
    BY <1>2
  <2> QED BY <1>3, <2>1
<1> QED BY <1>4, Zenon DEF Max

\* A letter that vtoy_find_free_drive returns is one of those it was given.
LEMMA FreeDriveIsALetter ==
    ASSUME NEW bits, bits \subseteq Letters
    PROVE  FindFreeDrive(bits) \in Letters \cup {0}
<1>1. bits \cap Idle \subseteq 1 .. 26
  BY WindowsAssumption DEF Idle
<1>2. CASE bits \cap Idle = {}
  BY <1>2 DEF FindFreeDrive
<1>3. CASE bits \cap Idle # {}
  <2>1. Max(bits \cap Idle) \in bits \cap Idle
    BY <1>1, <1>3, MaxIsThere
  <2> QED BY <1>3, <2>1 DEF FindFreeDrive
<1> QED BY <1>2, <1>3

\* The first letter that is free is one that stands for nothing.
LEMMA MinIdle ==
    ASSUME Idle # {}
    PROVE  Min(Idle) \in Letters /\ letters[Min(Idle)] = "none"
<1>1. Idle \subseteq Nat
  <2>1. Idle \subseteq 1 .. 26
    BY WindowsAssumption DEF Idle
  <2> QED BY <2>1
<1>2. Min(Idle) \in Idle
  BY <1>1, MinIsThere
<1> QED BY <1>2 DEF Idle, InUse

-----------------------------------------------------------------------------
(***************************************************************************)
(* Types.                                                                  *)
(***************************************************************************)
Histories == [disk : Disks \cup {"none"}, checked : HasImage \cup {"none"},
              pulled : BOOLEAN, shifted : BOOLEAN,
              moved : BOOLEAN, hidden : BOOLEAN, ran : BOOLEAN]

TypeOK ==
    /\ command \in Commands
    /\ drive \in Letters \cup {0}
    /\ letters \in [Letters -> Volumes \cup {"none", "iso"}]
    /\ number \in [Disks -> Numbers \cup {-1}]
    /\ before \subseteq Letters
    /\ tries \in Nat
    /\ attached \in BOOLEAN
    /\ child \in [state : {"none", "running", "ended"}, letter : Letters \cup {0}]
    /\ hist \in Histories

\* main and what it shares with others keep their types, whatever the others do.
THEOREM TypeCorrect == Spec => []TypeOK
<1>1. ASSUME Init PROVE TypeOK
  BY <1>1, WindowsAssumption DEF Init, TypeOK, NoHistory, Histories
<1>2. ASSUME TypeOK, [Next]_vars PROVE TypeOK'
<2>1. CASE ParseArgs
  <3>1. /\ command.drive \in Letters \cup {0}
        /\ command.bits \subseteq Letters
    BY <1>2, WindowsAssumption DEF TypeOK
  <3>2. drive' \in Letters \cup {0}
    BY <1>2, <2>1, <3>1, FreeDriveIsALetter DEF ParseArgs
  <3> QED BY <1>2, <2>1, <3>2 DEF TypeOK, ParseArgs, system, search, mount, imdisk
<2>2. CASE GetParam
  BY <1>2, <2>2 DEF TypeOK, GetParam, system, mount, imdisk
<2>3. CASE FindDisk
  BY <1>2, <2>3 DEF TypeOK, FindDisk, system, params, mount, imdisk
<2>4. CASE QueryDrive \/ ReadDisk
  <3>1. \/ hist' = hist
        \/ hist' = [hist EXCEPT !.pulled = FALSE, !.shifted = FALSE]
        \/ \E d \in Disks : hist' = [hist EXCEPT !.disk = d]
    <4>1. CASE QueryDrive
      BY <4>1, Zenon DEF QueryDrive
    <4>2. CASE ReadDisk
      BY <4>2, Zenon DEF ReadDisk
    <4> QED BY <2>4, <4>1, <4>2
  <3>2. hist' \in Histories
    BY <1>2, <3>1 DEF TypeOK, Histories
  <3> QED BY <1>2, <2>4, <3>2 DEF TypeOK, QueryDrive, ReadDisk, system, params, mount, imdisk
<2>5. CASE CheckFile
  BY <1>2, <2>5 DEF TypeOK, Histories, CheckFile, system, params, mount, imdisk
<2>6. CASE NotFound
  BY <1>2, <2>6 DEF TypeOK, NotFound, system, params, mount, imdisk
<2>7. CASE Found
  BY <1>2, <2>7 DEF TypeOK, Found, system, params, mount, imdisk
<2>8. CASE OpenVirtualDisk
  BY <1>2, <2>8 DEF TypeOK, OpenVirtualDisk, system, params, mount, imdisk
<2>9. CASE Attach
  BY <1>2, <2>9 DEF TypeOK, Attach, system, params, imdisk
<2>10. CASE PhysicalPath
  BY <1>2, <2>10 DEF TypeOK, PhysicalPath, system, params, imdisk
<2>11. CASE Define
  BY <1>2, <2>11 DEF TypeOK, Define, params, imdisk
<2>12. CASE Snapshot
  <3>1. before' \subseteq Letters
    BY <2>12 DEF Snapshot, InUse
  <3>2. hist' \in Histories
    BY <1>2, <2>12 DEF TypeOK, Histories, Snapshot
  <3> QED BY <1>2, <2>12, <3>1, <3>2 DEF TypeOK, Snapshot, system, params, search, imdisk
<2>13. CASE AttachAnywhere
  <3>1. letters' \in {letters} \cup Lettered
    BY <1>2, <2>13 DEF AttachAnywhere
  <3>2. letters' \in [Letters -> Volumes \cup {"none", "iso"}]
    BY <1>2, <3>1 DEF TypeOK, Lettered
  <3>3. hist' \in Histories
    BY <1>2, <2>13 DEF TypeOK, Histories, AttachAnywhere
  <3>4. attached' \in BOOLEAN
    BY <1>2, <2>13 DEF TypeOK, AttachAnywhere
  <3> QED BY <1>2, <2>13, <3>2, <3>3, <3>4 DEF TypeOK, AttachAnywhere, params, search,
                                               imdisk
<2>14. CASE Wait
  BY <1>2, <2>14 DEF TypeOK, Wait, system, params, imdisk
<2>15. CASE StartImdisk
  BY <1>2, <2>15 DEF TypeOK, StartImdisk, system, params, mount, imdisk
<2>16. CASE OpenPartition
  BY <1>2, <2>16 DEF TypeOK, OpenPartition, system, params, mount, imdisk
<2>17. CASE CopyFiles
  BY <1>2, <2>17 DEF TypeOK, CopyFiles, system, params, mount
<2>18. CASE OpenService
  BY <1>2, <2>18 DEF TypeOK, OpenService, system, params, mount
<2>19. CASE Reopen
  BY <1>2, <2>19 DEF TypeOK, Reopen, system, params, mount, imdisk
<2>20. CASE StartService
  BY <1>2, <2>20 DEF TypeOK, Histories, StartService, Loaded, system, params, mount
<2>21. CASE RunImdisk
  <3>1. FindFreeDrive(ImdiskLetters) \in Letters \cup {0}
    BY FreeDriveIsALetter, WindowsAssumption
  <3> QED BY <1>2, <2>21, <3>1 DEF TypeOK, RunImdisk, system, params, search, mount
<2>22. CASE EndImdisk
  BY <1>2, <2>22 DEF TypeOK, EndImdisk, system, params, mount, imdisk
<2>23. CASE ImdiskExits
  BY <1>2, <2>23 DEF TypeOK, ImdiskExits, params, mount
<2>24. CASE AssignLetter
  BY <1>2, <2>24 DEF TypeOK, AssignLetter, params, mount, imdisk
<2>25. CASE \E l \in Letters, v \in Volumes : Plug(l, v)
  <3>1. PICK l \in Letters, v \in Volumes : Plug(l, v)
    BY <2>25
  <3>2. letters' \in [Letters -> Volumes \cup {"none", "iso"}]
    BY <1>2, <3>1 DEF TypeOK, Plug
  <3>3. hist' \in Histories
    BY <1>2, <3>1 DEF TypeOK, Histories, Plug
  <3> QED BY <1>2, <3>1, <3>2, <3>3 DEF TypeOK, Plug, params, search, mount, imdisk
<2>26. CASE \E l \in Letters : Unplug(l)
  <3>1. PICK l \in Letters : Unplug(l)
    BY <2>26
  <3>2. letters' \in [Letters -> Volumes \cup {"none", "iso"}]
    BY <1>2, <3>1 DEF TypeOK, Unplug
  <3>3. hist' \in Histories
    BY <1>2, <3>1 DEF TypeOK, Histories, Unplug
  <3> QED BY <1>2, <3>1, <3>2, <3>3 DEF TypeOK, Unplug, params, search, mount, imdisk
<2>27. CASE \E s \in {"none", "stopped", "running"} : UseService(s)
  BY <1>2, <2>27 DEF TypeOK, UseService, system, params, mount
<2>28. CASE UNCHANGED vars
  BY <1>2, <2>28 DEF TypeOK, vars
<2>29. CASE \E d \in Disks : PullOut(d)
  <3>1. PICK d \in Disks : PullOut(d)
    BY <2>29
  <3>2. letters' \in [Letters -> Volumes \cup {"none", "iso"}]
    BY <1>2, <3>1 DEF TypeOK, PullOut
  <3>3. number' \in [Disks -> Numbers \cup {-1}]
    BY <1>2, <3>1 DEF TypeOK, PullOut
  <3>4. hist' \in Histories
    BY <1>2, <3>1 DEF TypeOK, Histories, PullOut
  <3> QED BY <1>2, <3>1, <3>2, <3>3, <3>4 DEF TypeOK, PullOut, params, mount, imdisk
<2>30. CASE \E d \in Disks, n \in Numbers : PutIn(d, n)
  BY <1>2, <2>30 DEF TypeOK, PutIn, params, mount, imdisk
<2> QED
  BY <1>2, <2>1, <2>2, <2>3, <2>4, <2>5, <2>6, <2>7, <2>8, <2>9, <2>10, <2>11, <2>12,
     <2>13, <2>14, <2>15, <2>16, <2>17, <2>18, <2>19, <2>20, <2>21, <2>22, <2>23, <2>24,
     <2>25, <2>26, <2>27, <2>28, <2>29, <2>30
  DEF Next, Main, Others
<1> QED BY <1>1, <1>2, PTL DEF Spec

-----------------------------------------------------------------------------
(***************************************************************************)
(* The disk.                                                               *)
(***************************************************************************)
FoundAt == {"found", "open", "imdisk", "partition", "copy"}

\* Drives are on disks that are there, and each of these has a number of its own.
Plugged ==
    /\ \A l \in Letters : letters[l] \in Volumes => number[DiskOf[letters[l]]] # -1
    /\ \A d, e \in Disks : number[d] = number[e] => d = e \/ number[d] = -1

\* Since the drive was looked at neither its disk nor its letter has changed hands.
Steady == ~hist.pulled /\ ~hist.shifted

\* What QueryDrive has established when ReadDisk begins.
QueryInv ==
    pc = "read" =>
        /\ extent.letter \in Letters /\ extent.number # -1
        /\ Steady => /\ letters[extent.letter] \in Volumes
                     /\ number[DiskOf[letters[extent.letter]]] = extent.number

\* What ReadDisk has established, for CheckFile and behind it.
DiskInv ==
    pc \in FoundAt \cup {"check"} =>
        /\ hist.disk \in Disks /\ GuidOf[hist.disk] = param
        /\ phy = extent.number /\ phy # -1
        /\ ~hist.pulled => number[hist.disk] = phy

DriveInv ==
    pc = "check" =>
        /\ name = extent.letter /\ name \in Letters
        /\ Steady => letters[name] \in Volumes /\ DiskOf[letters[name]] = hist.disk

FileInv ==
    pc \in FoundAt =>
        hist.checked \in HasImage /\ (Steady => DiskOf[hist.checked] = hist.disk)

FoundInv == left \subseteq Letters /\ Plugged /\ QueryInv /\ DiskInv /\ DriveInv /\ FileInv

\* A step behind vtoy_find_disk, or of others, that may give the image a letter: it does not
\* take the place of a volume while drives are looked at.
LEMMA FoundKept ==
    ASSUME FoundInv,
           pc' \in {"read", "check"} =>
               /\ pc' = pc /\ name' = name
               /\ \A l \in Letters : letters[l] \in Volumes => letters'[l] = letters[l],
           pc' \in FoundAt => pc \in FoundAt,
           \/ letters' = letters
           \/ \E l \in Letters : letters' = [letters EXCEPT ![l] = "iso"],
           DOMAIN letters = Letters,
           left' = left \/ left' = InUse,
           UNCHANGED <<param, number, extent, phy>>,
           /\ hist'.disk = hist.disk /\ hist'.checked = hist.checked
           /\ hist'.pulled = hist.pulled /\ hist'.shifted = hist.shifted
    PROVE  FoundInv'
<1>1. \A l \in Letters : letters'[l] \in Volumes => letters'[l] = letters[l]
  BY WindowsAssumption
<1>2. Plugged'
  BY <1>1 DEF FoundInv, Plugged
<1>3. DiskInv'
  BY Zenon DEF FoundInv, DiskInv
<1>4. FileInv'
  BY DEF FoundInv, FileInv, Steady
<1>5. QueryInv'
  BY DEF FoundInv, QueryInv, Steady
<1>6. DriveInv'
  BY DEF FoundInv, DriveInv, Steady
<1>7. left' \subseteq Letters
  BY DEF FoundInv, InUse
<1> QED BY <1>2, <1>3, <1>4, <1>5, <1>6, <1>7 DEF FoundInv

\* The number that QueryDrive gets is that of the disk the drive is on.
LEMMA QueryKnows ==
    ASSUME TypeOK, FoundInv, QueryDrive
    PROVE  FoundInv'
<1> DEFINE l == Min(left)
<1>1. UNCHANGED <<letters, number, param>>
  BY DEF QueryDrive, system, params
<1>2. left' \subseteq Letters /\ Plugged'
  BY <1>1 DEF FoundInv, Plugged, QueryDrive
<1>3. l \in Letters
  <2>1. left \subseteq 1 .. 26 /\ left # {}
    BY WindowsAssumption DEF FoundInv, QueryDrive
  <2>2. left \subseteq Nat
    BY <2>1
  <2>3. Min(left) \in left
    BY <2>1, <2>2, MinIsThere
  <2> QED BY <2>3 DEF FoundInv
<1>4. CASE Go("query")
  BY <1>2, <1>4 DEF FoundInv, QueryInv, DiskInv, DriveInv, FileInv, FoundAt, Go
<1>5. CASE /\ letters[l] \in Volumes /\ Go("read")
           /\ extent' = [letter |-> l, number |-> number[DiskOf[letters[l]]]]
  <2>1. number[DiskOf[letters[l]]] # -1
    BY <1>3, <1>5 DEF FoundInv, Plugged
  <2>2. extent'.letter = l /\ extent'.number = number[DiskOf[letters[l]]]
    BY <1>5
  <2>3. QueryInv'
    BY <1>1, <1>3, <1>5, <2>1, <2>2 DEF QueryInv
  <2> QED BY <1>2, <1>5, <2>3 DEF FoundInv, DiskInv, DriveInv, FileInv, FoundAt, Go
<1> QED BY <1>4, <1>5 DEF QueryDrive

\* The disk that ReadDisk finds under this number is the one the drive is on, unless it was
\* pulled out or the letter went over since.
LEMMA ReadKnows ==
    ASSUME TypeOK, FoundInv, ReadDisk
    PROVE  FoundInv'
<1>1. UNCHANGED <<letters, number, param, left, extent>> /\ pc = "read"
  BY DEF ReadDisk, system, params
<1>2. left' \subseteq Letters /\ Plugged'
  BY <1>1 DEF FoundInv, Plugged
<1>3. CASE Go("query")
  BY <1>2, <1>3 DEF FoundInv, QueryInv, DiskInv, DriveInv, FileInv, FoundAt, Go
<1>4. CASE \E d \in Disks : /\ number[d] = extent.number /\ phy' = extent.number
                            /\ GuidOf[d] = param /\ Go("check") /\ name' = extent.letter
                            /\ hist' = [hist EXCEPT !.disk = d]
  <2>1. PICK d \in Disks : /\ number[d] = extent.number /\ phy' = extent.number
                           /\ GuidOf[d] = param /\ Go("check") /\ name' = extent.letter
                           /\ hist' = [hist EXCEPT !.disk = d]
    BY <1>4
  <2>2. hist'.disk = d /\ hist'.pulled = hist.pulled /\ hist'.shifted = hist.shifted
    BY <2>1 DEF TypeOK, Histories
  <2>3. /\ extent.letter \in Letters /\ extent.number # -1
        /\ Steady => /\ letters[extent.letter] \in Volumes
                     /\ number[DiskOf[letters[extent.letter]]] = extent.number
    BY <1>1 DEF FoundInv, QueryInv
  <2>4. DiskInv'
    BY <1>1, <2>1, <2>2, <2>3, Zenon DEF DiskInv
  <2>5. Steady => DiskOf[letters[extent.letter]] = d
    <3> SUFFICES ASSUME Steady PROVE DiskOf[letters[extent.letter]] = d
      OBVIOUS
    <3>1. DiskOf[letters[extent.letter]] \in Disks
      BY <2>3, WindowsAssumption
    <3> QED BY <2>1, <2>3, <3>1 DEF FoundInv, Plugged
  <2>6. DriveInv'
    BY <1>1, <2>1, <2>2, <2>3, <2>5 DEF DriveInv, Steady
  <2> QED BY <1>2, <2>1, <2>4, <2>6 DEF FoundInv, QueryInv, FileInv, FoundAt, Go
<1> QED BY <1>3, <1>4 DEF ReadDisk

\* The volume in which CheckFile finds the file is on the disk that was found.
LEMMA CheckKnows ==
    ASSUME TypeOK, FoundInv, CheckFile
    PROVE  FoundInv'
<1>1. UNCHANGED <<letters, number, param, left, extent, phy>> /\ pc = "check"
  BY DEF CheckFile, system, search, params
<1>2. left' \subseteq Letters /\ Plugged'
  BY <1>1 DEF FoundInv, Plugged
<1>3. CASE Go("query")
  BY <1>2, <1>3 DEF FoundInv, QueryInv, DiskInv, DriveInv, FileInv, FoundAt, Go
<1>4. CASE /\ letters[name] \in HasImage /\ Go("found")
           /\ hist' = [hist EXCEPT !.checked = letters[name]]
  <2>1. /\ hist'.disk = hist.disk /\ hist'.checked = letters[name]
        /\ hist'.pulled = hist.pulled /\ hist'.shifted = hist.shifted
    BY <1>4 DEF TypeOK, Histories
  <2>2. DiskInv'
    BY <1>1, <2>1, Zenon DEF FoundInv, DiskInv
  <2>3. FileInv'
    BY <1>1, <1>4, <2>1 DEF FoundInv, DriveInv, FileInv, Steady
  <2> QED BY <1>2, <1>4, <2>2, <2>3 DEF FoundInv, QueryInv, DriveInv, Go
<1> QED BY <1>3, <1>4 DEF CheckFile

\* Others that change what a letter stands for, or the number of a disk: what was known of
\* the drive is not claimed any more if it was this one.
LEMMA MovesNoticed ==
    ASSUME TypeOK, FoundInv,
           Plugged',
           UNCHANGED <<param, pc, left, extent, name, phy>>,
           hist'.disk = hist.disk /\ hist'.checked = hist.checked,
           ~hist'.pulled => ~hist.pulled,
           ~hist'.shifted => ~hist.shifted,
           ~hist'.pulled => \A d \in Disks : number[d] = extent.number /\ number[d] # -1
                                                 => number'[d] = number[d],
           pc \in {"read", "check"} /\ extent.letter \in Letters
               /\ ~hist'.pulled /\ ~hist'.shifted
               /\ number[DiskOf[letters[extent.letter]]] = extent.number
                 => letters'[extent.letter] = letters[extent.letter]
    PROVE  FoundInv'
<1>1. QueryInv'
  <2> SUFFICES ASSUME pc = "read" PROVE QueryInv'
    BY DEF QueryInv
  <2>1. /\ extent.letter \in Letters /\ extent.number # -1
        /\ Steady => /\ letters[extent.letter] \in Volumes
                     /\ number[DiskOf[letters[extent.letter]]] = extent.number
    BY DEF FoundInv, QueryInv
  <2>2. ASSUME Steady' PROVE /\ letters'[extent.letter] \in Volumes
                             /\ number'[DiskOf[letters'[extent.letter]]] = extent.number
    <3>1. Steady
      BY <2>2 DEF Steady
    <3>2. letters'[extent.letter] = letters[extent.letter]
      BY <2>1, <2>2, <3>1 DEF Steady
    <3>3. DiskOf[letters[extent.letter]] \in Disks
      BY <2>1, <3>1, WindowsAssumption
    <3> QED BY <2>1, <2>2, <3>1, <3>2, <3>3 DEF Steady
  <2> QED BY <2>1, <2>2 DEF QueryInv
<1>2. DiskInv'
  <2> SUFFICES ASSUME pc \in FoundAt \cup {"check"} PROVE DiskInv'
    BY DEF DiskInv
  <2>1. /\ hist.disk \in Disks /\ GuidOf[hist.disk] = param
        /\ phy = extent.number /\ phy # -1
        /\ ~hist.pulled => number[hist.disk] = phy
    BY DEF FoundInv, DiskInv
  <2>2. ~hist'.pulled => number'[hist.disk] = phy
    BY <2>1
  <2> QED BY <2>1, <2>2 DEF DiskInv
<1>3. DriveInv'
  <2> SUFFICES ASSUME pc = "check" PROVE DriveInv'
    BY DEF DriveInv
  <2>1. /\ name = extent.letter /\ name \in Letters
        /\ Steady => letters[name] \in Volumes /\ DiskOf[letters[name]] = hist.disk
    BY DEF FoundInv, DriveInv
  <2>2. phy = extent.number /\ (~hist.pulled => number[hist.disk] = phy)
    BY DEF FoundInv, DiskInv
  <2>3. ASSUME Steady' PROVE letters'[name] = letters[name] /\ Steady
    <3>1. Steady
      BY <2>3 DEF Steady
    <3>2. letters[extent.letter] \in Volumes
          /\ number[DiskOf[letters[extent.letter]]] = extent.number
      BY <2>1, <2>2, <3>1 DEF Steady
    <3> QED BY <2>1, <2>3, <3>1, <3>2 DEF Steady
  <2> QED BY <2>1, <2>3 DEF DriveInv
<1>4. FileInv'
  BY DEF FoundInv, FileInv, Steady
<1>5. left' \subseteq Letters
  BY DEF FoundInv
<1> QED BY <1>1, <1>2, <1>3, <1>4, <1>5 DEF FoundInv

\* vtoy_find_disk: the disk that is found has the identifier of the parameters; its file is
\* in a volume of the same disk, if until then the letter has not gone over to something else,
\* and PhyDrive is its number, if it is not pulled out, whatever other drives come and go.
THEOREM DiskIsTheParamsAlways == Spec => []DiskIsTheParams
<1>1. ASSUME Init PROVE FoundInv
  <2>1. pc = "args" /\ letters = Present /\ number = Numbered
    BY <1>1 DEF Init
  <2>2. Plugged
    BY <2>1, WindowsAssumption DEF Plugged
  <2>3. left = {}
    BY <1>1 DEF Init
  <2> QED BY <2>1, <2>2, <2>3 DEF FoundInv, QueryInv, DiskInv, DriveInv, FileInv, FoundAt
<1>2. ASSUME TypeOK, FoundInv, [Next]_vars PROVE FoundInv'
<2> DOMAIN letters = Letters
  BY <1>2 DEF TypeOK
<2>1. CASE ParseArgs \/ GetParam
  <3>1. UNCHANGED <<letters, number, left, extent, phy, hist>>
    BY <2>1 DEF ParseArgs, GetParam, system, search
  <3>2. pc' \notin FoundAt \cup {"read", "check"}
    BY <2>1 DEF ParseArgs, GetParam, Done, Go, FoundAt
  <3> QED BY <1>2, <3>1, <3>2 DEF FoundInv, Plugged, QueryInv, DiskInv, DriveInv, FileInv
<2>2. CASE FindDisk \/ NotFound
  BY <1>2, <2>2, FoundKept DEF FindDisk, NotFound, Done, Go, FoundAt, params, system, search
<2>3. CASE QueryDrive
  BY <1>2, <2>3, QueryKnows
<2>4. CASE ReadDisk
  BY <1>2, <2>4, ReadKnows
<2>5. CASE CheckFile
  BY <1>2, <2>5, CheckKnows
<2>7. CASE Found
  BY <1>2, <2>7, FoundKept DEF Found, Done, Go, FoundAt, params, system, search
<2>8. CASE OpenVirtualDisk
  BY <1>2, <2>8, FoundKept DEF OpenVirtualDisk, Done, Go, FoundAt, params, system, search
<2>9. CASE Attach
  BY <1>2, <2>9, FoundKept DEF Attach, Done, Go, FoundAt, params, system, search
<2>10. CASE PhysicalPath
  BY <1>2, <2>10, FoundKept DEF PhysicalPath, Done, Go, FoundAt, params, system, search
<2>11. CASE Define
  <3>1. \/ letters' = letters
        \/ \E l \in Letters : letters' = [letters EXCEPT ![l] = "iso"]
    <4>1. \/ letters' = [letters EXCEPT ![drive] = "iso"]
          \/ letters' = letters
      BY <2>11 DEF Define
    <4>2. CASE drive = 0 /\ letters' = [letters EXCEPT ![drive] = "iso"]
      <5>1. 0 \notin Letters
        <6>1. 0 \notin 1 .. 26
          OBVIOUS
        <6> QED BY <6>1, WindowsAssumption
      <5>2. \A l \in Letters : letters'[l] = letters[l]
        BY <4>2, <5>1
      <5>3. letters' = [l \in Letters |-> letters[l]]
        BY <4>2, <5>2
      <5> QED BY <1>2, <5>3 DEF TypeOK
    <4>3. CASE drive \in Letters /\ letters' = [letters EXCEPT ![drive] = "iso"]
      BY <4>3, Zenon
    <4>4. drive \in Letters \cup {0}
      BY <1>2 DEF TypeOK
    <4> QED BY <4>1, <4>2, <4>3, <4>4
  <3> QED BY <1>2, <2>11, <3>1, FoundKept DEF Define, Done, Go, FoundAt, params, search
<2>12. CASE Snapshot
  <3>1. /\ hist'.disk = hist.disk /\ hist'.checked = hist.checked
        /\ hist'.pulled = hist.pulled /\ hist'.shifted = hist.shifted
    BY <1>2, <2>12 DEF Snapshot, TypeOK, Histories
  <3> QED BY <1>2, <2>12, <3>1, FoundKept DEF Snapshot, Go, FoundAt, params, system, search
<2>13. CASE AttachAnywhere
  <3>1. \/ letters' = letters
        \/ \E l \in Letters : letters' = [letters EXCEPT ![l] = "iso"]
    BY <2>13, MinIdle DEF AttachAnywhere, Lettered
  <3>2. /\ hist'.disk = hist.disk /\ hist'.checked = hist.checked
        /\ hist'.pulled = hist.pulled /\ hist'.shifted = hist.shifted
    BY <1>2, <2>13 DEF AttachAnywhere, TypeOK, Histories
  <3> QED BY <1>2, <2>13, <3>1, <3>2, FoundKept
          DEF AttachAnywhere, Done, Go, FoundAt, params, search
<2>14. CASE Wait
  BY <1>2, <2>14, FoundKept DEF Wait, Done, Go, FoundAt, params, system, search
<2>15. CASE StartImdisk
  BY <1>2, <2>15, FoundKept DEF StartImdisk, Go, FoundAt, params, system, search
<2>16. CASE OpenPartition
  BY <1>2, <2>16, FoundKept DEF OpenPartition, Done, Go, FoundAt, params, system, search
<2>17. CASE CopyFiles
  BY <1>2, <2>17, FoundKept DEF CopyFiles, Go, FoundAt, params, system, search
<2>18. CASE OpenService
  BY <1>2, <2>18, FoundKept DEF OpenService, Done, Go, FoundAt, params, system, search
<2>19. CASE Reopen
  BY <1>2, <2>19, FoundKept DEF Reopen, Done, Go, FoundAt, params, system, search
<2>20. CASE StartService
  <3>1. /\ hist'.disk = hist.disk /\ hist'.checked = hist.checked
        /\ hist'.pulled = hist.pulled /\ hist'.shifted = hist.shifted
    BY <1>2, <2>20 DEF StartService, TypeOK, Histories
  <3> QED BY <1>2, <2>20, <3>1, FoundKept
          DEF StartService, Loaded, Done, Go, FoundAt, params, system, search
<2>21. CASE RunImdisk
  BY <1>2, <2>21, FoundKept DEF RunImdisk, Go, FoundAt, params, system, search
<2>22. CASE EndImdisk
  BY <1>2, <2>22, FoundKept DEF EndImdisk, Done, FoundAt, params, system, search
<2>23. CASE ImdiskExits
  <3>1. CASE letters' = letters
    BY <1>2, <2>23, <3>1, FoundKept DEF ImdiskExits, params, search
  <3>2. CASE child.letter \in Idle /\ letters' = [letters EXCEPT ![child.letter] = "iso"]
    <4>1. child.letter \in Letters /\ letters[child.letter] = "none"
      BY <3>2 DEF Idle, InUse
    <4>2. \A l \in Letters : letters[l] \in Volumes => letters'[l] = letters[l]
      BY <3>2, <4>1, WindowsAssumption
    <4> QED BY <1>2, <2>23, <3>2, <4>1, <4>2, FoundKept DEF ImdiskExits, params, search
  <3> QED BY <2>23, <3>1, <3>2 DEF ImdiskExits
<2>24. CASE AssignLetter
  BY <1>2, <2>24, MinIdle, FoundKept DEF AssignLetter, FoundAt, params, search
<2>25. CASE \E l \in Letters, v \in Volumes : Plug(l, v)
  <3>1. PICK l \in Letters, v \in Volumes : Plug(l, v)
    BY <2>25
  <3>2. /\ hist'.disk = hist.disk /\ hist'.checked = hist.checked
        /\ hist'.pulled = hist.pulled
        /\ ~hist'.shifted => ~hist.shifted /\ ~Shifts(l)
    BY <1>2, <3>1 DEF Plug, TypeOK, Histories
  <3>3. Plugged'
    BY <1>2, <3>1 DEF Plug, FoundInv, Plugged
  <3>4. pc \in {"read", "check"} /\ extent.letter \in Letters /\ ~hist'.shifted
          => letters'[extent.letter] = letters[extent.letter]
    BY <3>1, <3>2 DEF Shifts, Plug
  <3>5. UNCHANGED <<param, pc, left, extent, name, phy, number>>
    BY <3>1 DEF Plug, params, search
  <3> QED BY <1>2, <3>2, <3>3, <3>4, <3>5, MovesNoticed
<2>26. CASE \E l \in Letters : Unplug(l)
  <3>1. PICK l \in Letters : Unplug(l)
    BY <2>26
  <3>2. /\ hist'.disk = hist.disk /\ hist'.checked = hist.checked
        /\ hist'.pulled = hist.pulled
        /\ ~hist'.shifted => ~hist.shifted /\ ~Shifts(l)
    BY <1>2, <3>1 DEF Unplug, TypeOK, Histories
  <3>3. Plugged'
    BY <1>2, <3>1, WindowsAssumption DEF Unplug, FoundInv, Plugged
  <3>4. pc \in {"read", "check"} /\ extent.letter \in Letters /\ ~hist'.shifted
          => letters'[extent.letter] = letters[extent.letter]
    BY <3>1, <3>2 DEF Shifts, Unplug
  <3>5. UNCHANGED <<param, pc, left, extent, name, phy, number>>
    BY <3>1 DEF Unplug, params, search
  <3> QED BY <1>2, <3>2, <3>3, <3>4, <3>5, MovesNoticed
<2>27. CASE \E s \in {"none", "stopped", "running"} : UseService(s)
  BY <1>2, <2>27, FoundKept DEF UseService, params, system, search
<2>28. CASE UNCHANGED vars
  BY <1>2, <2>28, FoundKept DEF vars
<2>29. CASE \E d \in Disks : PullOut(d)
  <3>1. PICK d \in Disks : PullOut(d)
    BY <2>29
  <3>2. /\ hist'.disk = hist.disk /\ hist'.checked = hist.checked
        /\ ~hist'.pulled => ~hist.pulled /\ number[d] # extent.number
        /\ hist'.shifted = hist.shifted
    BY <1>2, <3>1 DEF PullOut, TypeOK, Histories
  <3>3. number' = [number EXCEPT ![d] = -1] /\ DOMAIN number = Disks
    BY <1>2, <3>1 DEF PullOut, TypeOK
  <3>4. \A l \in Letters : letters'[l] = IF letters[l] \in Volumes /\ DiskOf[letters[l]] = d
                                         THEN "none" ELSE letters[l]
    BY <3>1 DEF PullOut
  <3>5. \A v \in Volumes : DiskOf[v] \in Disks
    BY WindowsAssumption
  <3>6. Plugged'
    BY <1>2, <3>3, <3>4, <3>5, WindowsAssumption DEF FoundInv, Plugged
  <3>7. ~hist'.pulled => \A e \in Disks : number[e] = extent.number => number'[e] = number[e]
    BY <3>2, <3>3
  <3>8. extent.letter \in Letters /\ ~hist'.pulled
            /\ number[DiskOf[letters[extent.letter]]] = extent.number
          => letters'[extent.letter] = letters[extent.letter]
    BY <3>2, <3>4
  <3>9. UNCHANGED <<param, pc, left, extent, name, phy>>
    BY <3>1 DEF PullOut, params, search
  <3> QED BY <1>2, <3>2, <3>6, <3>7, <3>8, <3>9, MovesNoticed
<2>30. CASE \E d \in Disks, n \in Numbers : PutIn(d, n)
  <3>1. PICK d \in Disks, n \in Numbers : PutIn(d, n)
    BY <2>30
  <3>2. /\ number[d] = -1 /\ \A e \in Disks : number[e] # n
        /\ number' = [number EXCEPT ![d] = n] /\ DOMAIN number = Disks
        /\ letters' = letters /\ hist' = hist
    BY <1>2, <3>1 DEF PutIn, TypeOK
  <3>3. n # -1
    BY WindowsAssumption
  <3>4. Plugged'
    BY <1>2, <3>2, <3>3 DEF FoundInv, Plugged
  <3>5. \A e \in Disks : number[e] # -1 => number'[e] = number[e]
    BY <3>2
  <3> QED BY <1>2, <3>1, <3>2, <3>4, <3>5, MovesNoticed DEF PutIn, params, search
<2> QED
  BY <1>2, <2>1, <2>2, <2>3, <2>4, <2>5, <2>7, <2>8, <2>9, <2>10, <2>11, <2>12,
     <2>13, <2>14, <2>15, <2>16, <2>17, <2>18, <2>19, <2>20, <2>21, <2>22, <2>23, <2>24,
     <2>25, <2>26, <2>27, <2>28, <2>29, <2>30
  DEF Next, Main, Others
<1>3. FoundInv => DiskIsTheParams
  BY DEF FoundInv, DiskInv, FileInv, Steady, FoundAt, DiskIsTheParams
<1> QED BY <1>1, <1>2, <1>3, TypeCorrect, PTL DEF Spec

-----------------------------------------------------------------------------
(***************************************************************************)
(* The result.                                                             *)
(***************************************************************************)
\* The image is attached just where the program goes on with it or has succeeded, a letter
\* is printed only then, and -i goes only through the service.
HonestInv ==
    /\ pc \in {"path", "define", "wait"} => attached
    /\ attached => pc \in {"path", "define", "wait", "done"} /\ (pc = "done" => rc = 0)
    /\ printed # 0 => pc = "done" /\ attached
    /\ command.do = "driver" =>
          /\ pc \in {"args", "scm", "reopen", "start", "done"}
          /\ pc = "done" /\ rc = 0 => hist.ran

\* The invariant holds: what main has attached and printed follows from where it is.
LEMMA HonestAlways == Spec => []HonestInv
<1>1. ASSUME Init PROVE HonestInv
  BY <1>1 DEF Init, HonestInv
<1>2. ASSUME TypeOK, HonestInv, [Next]_vars PROVE HonestInv'
<2>1. CASE ParseArgs
  BY <1>2, <2>1 DEF HonestInv, ParseArgs, Done, Go, mount
<2>2. CASE GetParam
  BY <1>2, <2>2 DEF HonestInv, GetParam, Done, Go, mount
<2>3. CASE FindDisk
  BY <1>2, <2>3 DEF HonestInv, FindDisk, Go, params, mount
<2>4. CASE QueryDrive \/ ReadDisk
  BY <1>2, <2>4 DEF HonestInv, QueryDrive, ReadDisk, Go, params, mount
<2>5. CASE CheckFile
  BY <1>2, <2>5 DEF HonestInv, CheckFile, Go, params, mount
<2>6. CASE NotFound
  BY <1>2, <2>6 DEF HonestInv, NotFound, Done, params, mount
<2>7. CASE Found
  BY <1>2, <2>7 DEF HonestInv, Found, Done, Go, params, mount
<2>8. CASE OpenVirtualDisk
  BY <1>2, <2>8 DEF HonestInv, OpenVirtualDisk, Done, Go, params, mount
<2>9. CASE Attach
  <3>1. /\ pc = "attachto" /\ printed' = printed /\ command' = command
        /\ ~attached /\ printed = 0 /\ command.do # "driver"
    BY <1>2, <2>9 DEF HonestInv, Attach, params
  <3>2. CASE Done(1) /\ UNCHANGED attached
    BY <3>1, <3>2 DEF HonestInv, Done
  <3>3. CASE Go("path") /\ attached' = TRUE
    BY <3>1, <3>3 DEF HonestInv, Go
  <3> QED BY <2>9, <3>2, <3>3 DEF Attach
<2>10. CASE PhysicalPath
  BY <1>2, <2>10 DEF HonestInv, PhysicalPath, Done, Go, params
<2>11. CASE Define
  BY <1>2, <2>11 DEF HonestInv, Define, Done, Go, params
<2>12. CASE Snapshot
  BY <1>2, <2>12 DEF HonestInv, Snapshot, Go, params
<2>13. CASE AttachAnywhere
  BY <1>2, <2>13 DEF HonestInv, AttachAnywhere, Done, Go, params
<2>14. CASE Wait
  BY <1>2, <2>14 DEF HonestInv, Wait, Done, params
<2>15. CASE StartImdisk
  BY <1>2, <2>15 DEF HonestInv, StartImdisk, Go, params, mount
<2>16. CASE OpenPartition
  BY <1>2, <2>16 DEF HonestInv, OpenPartition, Done, Go, params, mount
<2>17. CASE CopyFiles
  BY <1>2, <2>17 DEF HonestInv, CopyFiles, Go, params, mount
<2>18. CASE OpenService
  BY <1>2, <2>18 DEF HonestInv, OpenService, Done, Go, params, mount
<2>19. CASE Reopen
  BY <1>2, <2>19 DEF HonestInv, Reopen, Done, Go, params, mount
<2>20. CASE StartService
  BY <1>2, <2>20 DEF HonestInv, TypeOK, Histories, StartService, Done, Go, Loaded, params,
                     mount
<2>21. CASE RunImdisk
  BY <1>2, <2>21 DEF HonestInv, RunImdisk, Go, params, mount
<2>22. CASE EndImdisk
  BY <1>2, <2>22 DEF HonestInv, EndImdisk, Done, params, mount
<2>23. CASE ImdiskExits
  BY <1>2, <2>23 DEF HonestInv, ImdiskExits, params, mount
<2>24. CASE AssignLetter
  BY <1>2, <2>24 DEF HonestInv, AssignLetter, params, mount
<2>25. CASE \E l \in Letters, v \in Volumes : Plug(l, v)
  BY <1>2, <2>25 DEF HonestInv, Plug, params, mount
<2>26. CASE \E l \in Letters : Unplug(l)
  BY <1>2, <2>26 DEF HonestInv, Unplug, params, mount
<2>27. CASE \E s \in {"none", "stopped", "running"} : UseService(s)
  BY <1>2, <2>27 DEF HonestInv, UseService, params, mount
<2>28. CASE UNCHANGED vars
  BY <1>2, <2>28 DEF HonestInv, vars
<2>29. CASE \E d \in Disks : PullOut(d)
  BY <1>2, <2>29 DEF HonestInv, TypeOK, Histories, PullOut, params, mount
<2>30. CASE \E d \in Disks, n \in Numbers : PutIn(d, n)
  BY <1>2, <2>30 DEF HonestInv, PutIn, params, mount
<2> QED
  BY <1>2, <2>1, <2>2, <2>3, <2>4, <2>5, <2>6, <2>7, <2>8, <2>9, <2>10, <2>11, <2>12,
     <2>13, <2>14, <2>15, <2>16, <2>17, <2>18, <2>19, <2>20, <2>21, <2>22, <2>23, <2>24,
     <2>25, <2>26, <2>27, <2>28, <2>29, <2>30
  DEF Next, Main, Others
<1> QED BY <1>1, <1>2, TypeCorrect, PTL DEF Spec

\* A failure of main leaves nothing attached, also one behind AttachVirtualDisk; a letter that
\* is printed with success means that the image is attached, success of -i that the driver ran.
THEOREM ResultIsHonestAlways == Spec => []ResultIsHonest
<1>1. HonestInv => ResultIsHonest
  BY DEF HonestInv, ResultIsHonest
<1> QED BY <1>1, HonestAlways, PTL

-----------------------------------------------------------------------------
(***************************************************************************)
(* The letter of the image.                                                *)
(***************************************************************************)
NoImage == \A l \in Letters : letters[l] # "iso"

\* The letters that stand for a volume.
WithoutImage == {l \in Letters : letters[l] \notin {"none", "iso"}}

\* Nothing is the image before it is attached or imdisk runs; while the program waits for
\* a letter, the drives other than the image are those of Drives0 unless others moved any.
LetterInv ==
    /\ pc \notin {"wait", "waitimdisk", "done"} => NoImage
    /\ child.state = "running" => pc = "waitimdisk"
    /\ pc \in {"snapshot", "attach", "wait"} => drive = 0
    /\ pc \in {"attachto", "path", "define"} => drive # 0
    /\ pc \in {"attach", "wait"} /\ ~hist.moved => before = WithoutImage
    /\ LetterIsTheImages

\* The letter that main prints for the image is the image's, whichever letters the system
\* gives, as long as no other drive comes or goes between Drives0 and the letter, and unless
\* DefineDosDevice was called three times.
THEOREM LetterIsTheImagesAlways == Spec => []LetterIsTheImages
<1>1. ASSUME Init PROVE LetterInv
  BY <1>1, WindowsAssumption DEF Init, LetterInv, NoImage, WithoutImage, LetterIsTheImages
<1>2. ASSUME TypeOK, HonestInv, LetterInv, [Next]_vars PROVE LetterInv'
<2>1. CASE ParseArgs
  BY <1>2, <2>1
      DEF LetterInv, LetterIsTheImages, HonestInv, NoImage, WithoutImage, ParseArgs, Done,
          Go, system, mount, imdisk
<2>2. CASE GetParam
  BY <1>2, <2>2
      DEF LetterInv, LetterIsTheImages, HonestInv, NoImage, WithoutImage, GetParam, Done,
          Go, system, mount, imdisk
<2>3. CASE FindDisk
  BY <1>2, <2>3
      DEF LetterInv, LetterIsTheImages, HonestInv, NoImage, WithoutImage, FindDisk, Go,
          system, params, mount, imdisk
<2>4. CASE QueryDrive \/ ReadDisk
  BY <1>2, <2>4
      DEF LetterInv, LetterIsTheImages, HonestInv, NoImage, WithoutImage, QueryDrive, ReadDisk, Go,
          system, params, mount, imdisk
<2>5. CASE CheckFile
  BY <1>2, <2>5
      DEF LetterInv, LetterIsTheImages, HonestInv, NoImage, WithoutImage, CheckFile, Go,
          system, params, mount, imdisk
<2>6. CASE NotFound
  BY <1>2, <2>6
      DEF LetterInv, LetterIsTheImages, HonestInv, NoImage, WithoutImage, NotFound, Done,
          system, params, mount, imdisk
<2>7. CASE Found
  BY <1>2, <2>7
      DEF LetterInv, LetterIsTheImages, HonestInv, NoImage, WithoutImage, Found, Done, Go,
          system, params, mount, imdisk
<2>8. CASE OpenVirtualDisk
  BY <1>2, <2>8
      DEF LetterInv, LetterIsTheImages, HonestInv, NoImage, WithoutImage, OpenVirtualDisk,
          Done, Go, system, params, mount, imdisk
<2>9. CASE Attach
  BY <1>2, <2>9
      DEF LetterInv, LetterIsTheImages, HonestInv, NoImage, WithoutImage, Attach, Done, Go,
          system, params, imdisk
<2>10. CASE PhysicalPath
  BY <1>2, <2>10
      DEF LetterInv, LetterIsTheImages, HonestInv, NoImage, WithoutImage, PhysicalPath,
          Done, Go, system, params, imdisk
<2>11. CASE Define
  <3>1. /\ drive \in Letters /\ drive # 0 /\ drive' = drive
        /\ NoImage /\ child' = child /\ child.state # "running"
        /\ tries \in Nat /\ tries' = tries + 1
    BY <1>2, <2>11 DEF LetterInv, TypeOK, Define, params, imdisk
  <3>2. CASE letters' = [letters EXCEPT ![drive] = "iso"] /\ Done(0) /\ printed' = drive
    <4>1. letters'[drive] = "iso"
      BY <1>2, <3>1, <3>2 DEF TypeOK
    <4> QED BY <3>1, <3>2, <4>1 DEF LetterInv, LetterIsTheImages, Done
  <3>3. CASE Go("define") /\ UNCHANGED <<printed, letters>>
    BY <1>2, <3>1, <3>3 DEF LetterInv, LetterIsTheImages, NoImage, Go
  <3>4. CASE tries' >= 3 /\ Done(0) /\ UNCHANGED letters
    BY <3>1, <3>4 DEF LetterInv, LetterIsTheImages, Done
  <3> QED BY <2>11, <3>1, <3>2, <3>3, <3>4 DEF Define
<2>12. CASE Snapshot
  <3>1. NoImage
    BY <1>2, <2>12 DEF LetterInv, Snapshot
  <3>2. before' = WithoutImage'
    BY <2>12, <3>1 DEF Snapshot, InUse, WithoutImage, NoImage, system
  <3> QED BY <1>2, <2>12, <3>1, <3>2
          DEF LetterInv, LetterIsTheImages, NoImage, Snapshot, Go, system, params, imdisk
<2>13. CASE AttachAnywhere
  <3>1. /\ NoImage /\ child' = child /\ child.state # "running"
        /\ drive' = drive /\ drive = 0 /\ before' = before /\ printed' = printed /\ printed = 0
    BY <1>2, <2>13 DEF LetterInv, HonestInv, AttachAnywhere, params, imdisk
  <3>2. CASE Done(1) /\ UNCHANGED <<attached, letters, hist>>
    BY <3>1, <3>2 DEF LetterInv, LetterIsTheImages, Done
  <3>3. CASE /\ Go("wait") /\ letters' \in Lettered
             /\ hist' = [hist EXCEPT !.hidden = @ \/ Idle = {}]
    <4>1. hist'.moved = hist.moved
      BY <1>2, <3>3 DEF TypeOK, Histories
    <4>2. WithoutImage' = WithoutImage
      <5>1. CASE letters' = letters
        BY <5>1 DEF WithoutImage
      <5>2. CASE Idle # {} /\ letters' = [letters EXCEPT ![Min(Idle)] = "iso"]
        <6>1. Min(Idle) \in Letters /\ letters[Min(Idle)] = "none"
          BY <5>2, MinIdle
        <6> QED BY <1>2, <5>2, <6>1 DEF WithoutImage, TypeOK
      <5> QED BY <3>3, <5>1, <5>2 DEF Lettered
    <4>3. ~hist.moved => before = WithoutImage
      BY <1>2, <2>13 DEF LetterInv, AttachAnywhere
    <4> QED BY <3>1, <3>3, <4>1, <4>2, <4>3 DEF LetterInv, LetterIsTheImages, Go
  <3> QED BY <2>13, <3>2, <3>3 DEF AttachAnywhere
<2>14. CASE Wait
  <3>1. /\ child' = child /\ child.state # "running" /\ letters' = letters
        /\ hist' = hist /\ before \subseteq Letters
        /\ ~hist.moved => before = WithoutImage
    BY <1>2, <2>14 DEF LetterInv, TypeOK, Wait, system, params, imdisk
  <3>2. Differs \subseteq Nat
    <4>1. Differs \subseteq 1 .. 26
      BY <3>1, WindowsAssumption DEF Differs, InUse
    <4> QED BY <4>1
  <3>3. Min(Differs) \in Differs
    BY <2>14, <3>2, MinIsThere DEF Wait
  <3>4. ~hist.moved => letters[Min(Differs)] = "iso"
    BY <3>1, <3>3 DEF Differs, InUse, WithoutImage
  <3>5. drive' = 0
    BY <1>2, <2>14 DEF LetterInv, Wait, system, params
  <3> QED BY <2>14, <3>1, <3>4, <3>5 DEF LetterInv, LetterIsTheImages, Wait, Done
<2>15. CASE StartImdisk
  BY <1>2, <2>15
      DEF LetterInv, LetterIsTheImages, HonestInv, NoImage, WithoutImage, StartImdisk, Go,
          system, params, mount, imdisk
<2>16. CASE OpenPartition
  BY <1>2, <2>16
      DEF LetterInv, LetterIsTheImages, HonestInv, NoImage, WithoutImage, OpenPartition,
          Done, Go, system, params, mount, imdisk
<2>17. CASE CopyFiles
  BY <1>2, <2>17
      DEF LetterInv, LetterIsTheImages, HonestInv, NoImage, WithoutImage, CopyFiles, Go,
          system, params, mount
<2>18. CASE OpenService
  BY <1>2, <2>18
      DEF LetterInv, LetterIsTheImages, HonestInv, NoImage, WithoutImage, OpenService,
          Done, Go, system, params, mount
<2>19. CASE Reopen
  BY <1>2, <2>19
      DEF LetterInv, LetterIsTheImages, HonestInv, NoImage, WithoutImage, Reopen, Done, Go,
          system, params, mount, imdisk
<2>20. CASE StartService
  BY <1>2, <2>20
      DEF LetterInv, LetterIsTheImages, HonestInv, NoImage, WithoutImage, StartService,
          Done, Loaded, Go, system, params, mount
<2>21. CASE RunImdisk
  <3>1. pc = "run" /\ pc' = "waitimdisk"
    BY <2>21 DEF RunImdisk, Go
  <3> QED BY <3>1 DEF LetterInv, LetterIsTheImages
<2>22. CASE EndImdisk
  BY <1>2, <2>22
      DEF LetterInv, LetterIsTheImages, HonestInv, NoImage, WithoutImage, EndImdisk, Done,
          system, params, mount, imdisk
<2>23. CASE ImdiskExits
  <3>1. pc = "waitimdisk" /\ pc' = pc
    BY <1>2, <2>23 DEF LetterInv, ImdiskExits
  <3>2. child'.state # "running"
    BY <1>2, <2>23 DEF TypeOK, ImdiskExits
  <3> QED BY <3>1, <3>2 DEF LetterInv, LetterIsTheImages
<2>24. CASE AssignLetter
  <3>1. Min(Idle) \in Letters /\ letters[Min(Idle)] = "none"
    BY <2>24, MinIdle DEF AssignLetter
  <3>2. WithoutImage' = WithoutImage
    BY <1>2, <2>24, <3>1 DEF WithoutImage, TypeOK, AssignLetter
  <3> QED BY <1>2, <2>24, <3>2
          DEF LetterInv, LetterIsTheImages, AssignLetter, params, mount, imdisk
<2>25. CASE \E l \in Letters, v \in Volumes : Plug(l, v)
  <3>1. PICK l \in Letters, v \in Volumes : Plug(l, v)
    BY <2>25
  <3>2. hist'.moved = TRUE
    BY <1>2, <3>1 DEF TypeOK, Histories, Plug
  <3>3. NoImage => NoImage'
    BY <1>2, <3>1, WindowsAssumption DEF TypeOK, NoImage, Plug
  <3> QED BY <1>2, <3>1, <3>2, <3>3
          DEF LetterInv, LetterIsTheImages, Plug, params, mount, imdisk
<2>26. CASE \E l \in Letters : Unplug(l)
  <3>1. PICK l \in Letters : Unplug(l)
    BY <2>26
  <3>2. hist'.moved = TRUE
    BY <1>2, <3>1 DEF TypeOK, Histories, Unplug
  <3>3. NoImage => NoImage'
    BY <1>2, <3>1 DEF TypeOK, NoImage, Unplug
  <3> QED BY <1>2, <3>1, <3>2, <3>3
          DEF LetterInv, LetterIsTheImages, Unplug, params, mount, imdisk
<2>27. CASE \E s \in {"none", "stopped", "running"} : UseService(s)
  BY <1>2, <2>27
      DEF LetterInv, LetterIsTheImages, HonestInv, NoImage, WithoutImage, UseService,
          system, params, mount
<2>28. CASE UNCHANGED vars
  BY <1>2, <2>28 DEF LetterInv, LetterIsTheImages, HonestInv, NoImage, WithoutImage, vars
<2>29. CASE \E d \in Disks : PullOut(d)
  <3>1. PICK d \in Disks : PullOut(d)
    BY <2>29
  <3>2. hist'.moved = TRUE
    BY <1>2, <3>1 DEF TypeOK, Histories, PullOut
  <3>3. NoImage => NoImage'
    BY <3>1 DEF NoImage, PullOut
  <3> QED BY <1>2, <3>1, <3>2, <3>3
          DEF LetterInv, LetterIsTheImages, PullOut, params, mount, imdisk
<2>30. CASE \E d \in Disks, n \in Numbers : PutIn(d, n)
  BY <1>2, <2>30
      DEF LetterInv, LetterIsTheImages, NoImage, WithoutImage, PutIn, params, mount, imdisk
<2> QED
  BY <1>2, <2>1, <2>2, <2>3, <2>4, <2>5, <2>6, <2>7, <2>8, <2>9, <2>10, <2>11, <2>12,
     <2>13, <2>14, <2>15, <2>16, <2>17, <2>18, <2>19, <2>20, <2>21, <2>22, <2>23, <2>24,
     <2>25, <2>26, <2>27, <2>28, <2>29, <2>30
  DEF Next, Main, Others
<1>3. LetterInv => LetterIsTheImages
  BY DEF LetterInv
<1> QED BY <1>1, <1>2, <1>3, TypeCorrect, HonestAlways, PTL DEF Spec
=============================================================================
