----------------------------- MODULE VtoyWindows -----------------------------
(***************************************************************************)
(* vtoydump on Windows (vtoydump_windows.c): where the parameters come     *)
(* from, the search for the disk among the drives, and the two ways to     *)
(* mount the image: as a virtual disk, or by imdisk, whose driver and      *)
(* program are copied from the second partition of the disk.               *)
(*                                                                         *)
(* Each call of the system is a step, and others use the drives and the    *)
(* services between the steps.  A drive letter is its number from A on.    *)
(***************************************************************************)
EXTENDS Integers, FiniteSets, FiniteSetsExt, Sequences, SequencesExt

CONSTANTS Letters,        \* drive letters, from 1 on
          ImdiskLetters,  \* those of 0x7FFFF8
          Disks, Guids, GuidOf, \* physical disks, and the identifiers of disks
          Numbers,        \* numbers of physical drives
          Numbered,       \* the number of each disk at the start, or -1
          Volumes, DiskOf,\* volumes, and the physical disk of each
          HasImage,       \* volumes with a file of the image's path
          Machines,       \* where parameters may be found
          Commands,       \* what may be on the command line
          Present,        \* the volume of each letter at the start, or "none"
          MaxMoves        \* bound on what others do

Candidates == [valid : BOOLEAN, guid : Guids]

ASSUME WindowsAssumption ==
    /\ Letters \subseteq 1 .. 26 /\ ImdiskLetters \subseteq Letters
    /\ "none" \notin Volumes /\ "iso" \notin Volumes /\ HasImage \subseteq Volumes
    /\ DiskOf \in [Volumes -> Disks] /\ GuidOf \in [Disks -> Guids]
    /\ -1 \notin Numbers /\ Numbered \in [Disks -> Numbers \cup {-1}]
    /\ \A d, e \in Disks : Numbered[d] = Numbered[e] => d = e \/ Numbered[d] = -1
    /\ Present \in [Letters -> Volumes \cup {"none"}]
    /\ \A l \in Letters : Present[l] # "none" => Numbered[DiskOf[Present[l]]] # -1
    /\ \A m \in Machines : m.efi \in BOOLEAN /\ \A f \in {m.file, m.var, m.ibft, m.acpi} :
                                                    f \in Seq(Candidates)
    /\ \A c \in Commands :
          /\ c.do \in {"print", "mount", "driver", "usage"} /\ c.file \in BOOLEAN
          /\ c.drive \in Letters \cup {0} /\ c.bits \subseteq Letters
    /\ MaxMoves \in Nat

VARIABLES
    machine, command,  \* what the program runs on, and what it is asked for
    pc, rc,
    drive,    \* the letter asked for, or 0
    param,    \* the parameters: the identifier of the disk
    letters,  \* what each letter stands for
    number,   \* the number of each physical disk, or -1 where it is not there
    left,     \* letters that find_disk has not looked at
    extent,   \* the drive that is looked at, and the number its disk was said to have
    name,     \* diskname: a letter, or 0
    phy,      \* PhyDrive
    before,   \* Drives0
    tries,    \* calls of DefineDosDevice
    attached, \* the image is attached as a virtual disk
    printed,  \* the letter that is printed for the image, or 0
    files,    \* imdisk.sys and imdisk.exe of the running system
    service,  \* the driver's service
    child,    \* the process of imdisk, and its letter
    hist,     \* history: see NoHistory
    moves     \* what others may still do

vars == <<machine, command, pc, rc, drive, param, letters, number, left, extent, name, phy,
          before, tries, attached, printed, files, service, child, hist, moves>>

\* The disk whose identifier was the right one, and the volume in which the file was found;
\* since the drive was looked at its disk was pulled out, or up to the check its letter went
\* over to something else; drives changed since Drives0, in a way that can hide the image's;
\* the driver was running when it was loaded.
NoHistory == [disk |-> "none", checked |-> "none", pulled |-> FALSE, shifted |-> FALSE,
              moved |-> FALSE, hidden |-> FALSE, ran |-> FALSE]

InUse == {l \in Letters : letters[l] # "none"}
Idle  == Letters \ InUse

Init ==
    /\ machine \in Machines /\ command \in Commands
    /\ pc = "args" /\ rc = 0 /\ drive = 0 /\ param = "none"
    /\ letters = Present /\ number = Numbered
    /\ left = {} /\ extent = [letter |-> 0, number |-> -1] /\ name = 0 /\ phy = -1
    /\ before = {} /\ tries = 0 /\ attached = FALSE /\ printed = 0
    /\ files \in [sys : {"none"}, exe : {"none", "good"}]
    /\ service \in {"none", "stopped", "running"}
    /\ child = [state |-> "none", letter |-> 0]
    /\ hist = NoHistory /\ moves = MaxMoves

\* The variables of the program by what they are for, and of what it shares.
params == <<machine, command, drive, param>>
search == <<left, extent, name, phy>>
system == <<letters, number>>
mount  == <<before, tries, attached, printed>>
imdisk == <<files, service, child>>

Done(result) == pc' = "done" /\ rc' = result
Go(to) == pc' = to /\ UNCHANGED rc
-----------------------------------------------------------------------------
(***************************************************************************)
(* Arguments and parameters.                                               *)
(***************************************************************************)
\* vtoy_find_free_drive, from Z down
FindFreeDrive(bits) == IF bits \cap Idle = {} THEN 0 ELSE Max(bits \cap Idle)

\* main up to the parameters: -m=X gives the letter, -m=0x... those to choose from.
ParseArgs ==
    /\ pc = "args"
    /\ drive' = IF command.drive # 0 THEN command.drive ELSE FindFreeDrive(command.bits)
    /\ \/ command.do \in {"print", "mount"} /\ Go("param")
       \/ command.do = "driver" /\ Go("scm")
       \/ command.do = "driver" /\ Done(1)          \* no such file
       \/ command.do = "usage" /\ Done(0)
       \/ command.do = "usage" /\ Done(1)           \* an option that is not known
    /\ UNCHANGED <<machine, command, param, system, search, mount, imdisk, hist, moves>>

Valid(s) == SelectSeq(s, LAMBDA c : c.valid)

\* The last match of the file, the first of a table of the firmware; of the variable
\* only the size is looked at.
FromFile(m)   == IF Valid(m.file) = <<>> THEN <<>> ELSE <<Last(Valid(m.file))>>
FromEfivar(m) == m.var
FromIbft(m)   == IF Valid(m.ibft) = <<>> THEN <<>> ELSE <<Head(Valid(m.ibft))>>
FromAcpi(m)   == IF Valid(m.acpi) = <<>> THEN <<>> ELSE <<Head(Valid(m.acpi))>>

GetParam ==
    LET first == CASE command.file -> FromFile(machine)
                   [] ~command.file /\ machine.efi -> FromEfivar(machine)
                   [] ~command.file /\ ~machine.efi -> FromIbft(machine)
        found == IF first # <<>> THEN first ELSE FromAcpi(machine)
    IN  /\ pc = "param"
        /\ IF found = <<>> THEN Done(1) /\ UNCHANGED param
           ELSE Go("drives") /\ param' = Head(found).guid
        /\ UNCHANGED <<machine, command, drive, system, search, mount, imdisk, hist, moves>>
-----------------------------------------------------------------------------
(***************************************************************************)
(* vtoy_find_disk: the drives as they were at the call, each identified by *)
(* the first sector of its physical disk and then searched for the file.   *)
(***************************************************************************)
FindDisk ==
    /\ pc = "drives"
    /\ left' = InUse /\ Go("query")
    /\ UNCHANGED <<params, system, extent, name, phy, mount, imdisk, hist, moves>>

\* Faulty variant of QueryDrive: the number stays that of the first drive that was asked.
QueryOnce ==
    /\ pc = "query" /\ left # {}
    /\ LET l == Min(left) v == letters[l] IN
       /\ left' = left \ {l}
       /\ \/ Go("query") /\ UNCHANGED <<extent, hist>>
          \/ /\ v \in Volumes
             /\ Go("read")
             /\ extent' = [letter |-> l, number |-> IF extent.number # -1 THEN extent.number
                                                   ELSE number[DiskOf[v]]]
             /\ hist' = [hist EXCEPT !.pulled = FALSE, !.shifted = FALSE]
    /\ UNCHANGED <<params, system, name, phy, mount, imdisk, moves>>

\* GetPhyDiskUUID first asks the drive for the number of its disk; this fails for one that is
\* gone or has no disk, and may fail for others.
QueryDrive ==
    /\ pc = "query" /\ left # {}
    /\ LET l == Min(left) v == letters[l] IN
       /\ left' = left \ {l}
       /\ \/ Go("query") /\ UNCHANGED <<extent, hist>>
          \/ /\ v \in Volumes
             /\ Go("read") /\ extent' = [letter |-> l, number |-> number[DiskOf[v]]]
             /\ hist' = [hist EXCEPT !.pulled = FALSE, !.shifted = FALSE]
    /\ UNCHANGED <<params, system, name, phy, mount, imdisk, moves>>

\* Then it reads the identifier from the disk that has this number by now, if any can be
\* opened and read.
ReadDisk ==
    /\ pc = "read"
    /\ \/ Go("query") /\ UNCHANGED <<name, phy, hist>>
       \/ \E d \in Disks :
             /\ number[d] = extent.number
             /\ phy' = extent.number
             /\ IF GuidOf[d] = param
                THEN Go("check") /\ name' = extent.letter /\ hist' = [hist EXCEPT !.disk = d]
                ELSE Go("query") /\ UNCHANGED <<name, hist>>
    /\ UNCHANGED <<params, system, left, extent, mount, imdisk, moves>>

CheckFile ==
    /\ pc = "check"
    /\ IF letters[name] \in HasImage
       THEN Go("found") /\ hist' = [hist EXCEPT !.checked = letters[name]]
       ELSE Go("query") /\ UNCHANGED hist
    /\ UNCHANGED <<params, system, search, mount, imdisk, moves>>

NotFound ==
    /\ pc = "query" /\ left = {} /\ Done(1)
    /\ UNCHANGED <<params, system, search, mount, imdisk, hist, moves>>

\* The end of main; Windows 8 or later has virtual disks.
Found ==
    /\ pc = "found"
    /\ \/ command.do = "print" /\ Done(0)
       \/ command.do = "mount" /\ Go("open")
       \/ command.do = "mount" /\ Go("imdisk")
    /\ UNCHANGED <<params, system, search, mount, imdisk, hist, moves>>
-----------------------------------------------------------------------------
(***************************************************************************)
(* vtoy_mount_iso_by_api                                                   *)
(***************************************************************************)
OpenVirtualDisk ==
    /\ pc = "open"
    /\ \/ Done(1)
       \/ letters[name] \in HasImage /\ Go(IF drive # 0 THEN "attachto" ELSE "snapshot")
    /\ UNCHANGED <<params, system, search, mount, imdisk, hist, moves>>

Attach ==
    /\ pc = "attachto"
    /\ \/ Done(1) /\ UNCHANGED attached
       \/ Go("path") /\ attached' = TRUE
    /\ UNCHANGED <<params, system, search, before, tries, printed, imdisk, hist, moves>>

\* Faulty variant of PhysicalPath: the disk stays attached if its path is not known.
PhysicalPathKept ==
    /\ pc = "path"
    /\ \/ Done(1) /\ UNCHANGED attached
       \/ Go("define") /\ UNCHANGED attached
    /\ UNCHANGED <<params, system, search, before, tries, printed, imdisk, hist, moves>>

\* GetVirtualDiskPhysicalPath may fail, or give no CD-ROM.
PhysicalPath ==
    /\ pc = "path"
    /\ \/ Done(1) /\ attached' = FALSE
       \/ Go("define") /\ UNCHANGED attached
    /\ UNCHANGED <<params, system, search, before, tries, printed, imdisk, hist, moves>>

\* DefineDosDevice lays the image over what the letter stands for; after three failures
\* the program goes on as if it had.
Define ==
    /\ pc = "define"
    /\ tries' = tries + 1
    /\ \/ /\ letters' = [letters EXCEPT ![drive] = "iso"]
          /\ Done(0) /\ printed' = drive
       \/ /\ IF tries' < 3 THEN Go("define") /\ UNCHANGED printed
             ELSE Done(0) /\ printed' = drive
          /\ UNCHANGED letters
    /\ UNCHANGED <<params, number, search, before, attached, imdisk, hist, moves>>

Snapshot ==
    /\ pc = "snapshot"
    /\ before' = InUse /\ Go("attach")
    /\ hist' = [hist EXCEPT !.moved = FALSE, !.hidden = FALSE]
    /\ UNCHANGED <<params, system, search, tries, attached, printed, imdisk, moves>>

\* The system may give the image a letter at once.
Lettered == {letters} \cup
            (IF Idle = {} THEN {} ELSE {[letters EXCEPT ![Min(Idle)] = "iso"]})

\* Faulty variant of AttachAnywhere: the drives are looked at after attaching.
AttachAndLook ==
    /\ pc = "attach"
    /\ \/ Done(1) /\ UNCHANGED <<attached, letters, hist, before>>
       \/ /\ Go("wait") /\ attached' = TRUE
          /\ letters' \in Lettered /\ before' = {l \in Letters : letters'[l] # "none"}
          /\ UNCHANGED hist
    /\ UNCHANGED <<params, number, search, tries, printed, imdisk, moves>>

AttachAnywhere ==
    /\ pc = "attach"
    /\ \/ Done(1) /\ UNCHANGED <<attached, letters, hist>>
       \/ /\ Go("wait") /\ attached' = TRUE
          /\ letters' \in Lettered
          /\ hist' = [hist EXCEPT !.hidden = @ \/ Idle = {}]
    /\ UNCHANGED <<params, number, search, before, tries, printed, imdisk, moves>>

Differs == (before \ InUse) \cup (InUse \ before)

\* Faulty variant of Wait: any drive that is there now is taken.
WaitTakesAny ==
    /\ pc = "wait" /\ Differs # {}
    /\ printed' = Min(InUse) /\ Done(0)
    /\ UNCHANGED <<params, system, search, before, tries, attached, imdisk, hist, moves>>

\* The loop until the drives are not those of before, and the first letter that differs.
Wait ==
    /\ pc = "wait" /\ Differs # {}
    /\ printed' = Min(Differs) /\ Done(0)
    /\ UNCHANGED <<params, system, search, before, tries, attached, imdisk, hist, moves>>
-----------------------------------------------------------------------------
(***************************************************************************)
(* vtoy_mount_iso_by_imdisk and vtoy_load_nt_driver                        *)
(***************************************************************************)
StartImdisk ==
    /\ pc = "imdisk"
    /\ Go(IF files.exe # "none" THEN "run" ELSE "partition")
    /\ UNCHANGED <<params, system, search, mount, imdisk, hist, moves>>

\* The physical disk that has the number by now is opened, and FAT attached at the start of
\* its second partition, unless any of this fails.
OpenPartition ==
    /\ pc = "partition"
    /\ Done(1) \/ (Go("copy") /\ \E d \in Disks : number[d] = phy)
    /\ UNCHANGED <<params, system, search, mount, imdisk, hist, moves>>

\* CopyFileFromFatDisk: a file that is not there is not copied, one that exists is not
\* replaced, and reads that fail leave what the memory held.
Copied(old) == IF old # "none" THEN {old} ELSE {"none", "good", "bad"}

CopyFiles ==
    /\ pc = "copy"
    /\ \E sys \in Copied(files.sys), exe \in Copied(files.exe) :
          files' = [sys |-> sys, exe |-> exe]
    /\ Go("scm")
    /\ UNCHANGED <<params, system, search, mount, service, child, hist, moves>>

\* OpenSCManager and CreateService, or OpenService for a service that exists.
OpenService ==
    /\ pc = "scm"
    /\ \/ Done(1) /\ UNCHANGED service
       \/ service = "none" /\ Go("start") /\ service' = "stopped"
       \/ service # "none" /\ Go("reopen") /\ UNCHANGED service
    /\ UNCHANGED <<params, system, search, mount, files, child, hist, moves>>

Reopen ==
    /\ pc = "reopen"
    /\ IF service = "none" THEN Done(1) ELSE Done(1) \/ Go("start")
    /\ UNCHANGED <<params, system, search, mount, imdisk, hist, moves>>

\* After the driver: the end for -i, imdisk otherwise.
Loaded == IF command.do = "driver" THEN Done(0) ELSE Go("run")

StartService ==
    /\ pc = "start"
    /\ \/ Done(1) /\ UNCHANGED <<service, hist>>
       \/ /\ \/ service = "running"
             \/ service = "stopped" /\ (command.do = "driver" \/ files.sys = "good")
          /\ service' = "running" /\ hist' = [hist EXCEPT !.ran = TRUE]
          /\ Loaded
    /\ UNCHANGED <<params, system, search, mount, files, child, moves>>

\* VentoyRunImdisk; the result of CreateProcess is not looked at.
RunImdisk ==
    /\ pc = "run"
    /\ child' = [state |-> "running", letter |-> IF drive # 0 THEN drive ELSE FindFreeDrive(ImdiskLetters)]
    /\ Go("waitimdisk")
    /\ UNCHANGED <<params, system, search, mount, files, service, hist, moves>>

EndImdisk ==
    /\ pc = "waitimdisk" /\ child.state = "ended" /\ Done(0)
    /\ UNCHANGED <<params, system, search, mount, imdisk, hist, moves>>
-----------------------------------------------------------------------------
(***************************************************************************)
(* The others: the process of imdisk, the manager of drive letters, users  *)
(* that plug and unplug disks, programs that use the driver's service.     *)
(***************************************************************************)
ImdiskExits ==
    /\ child.state = "running"
    /\ child' = [child EXCEPT !.state = "ended"]
    /\ letters' \in {letters} \cup
          (IF child.letter \in Idle /\ files.exe = "good" /\ service = "running"
              /\ letters[name] \in HasImage
           THEN {[letters EXCEPT ![child.letter] = "iso"]} ELSE {})
    /\ UNCHANGED <<params, pc, rc, number, search, mount, files, service, hist, moves>>

AssignLetter ==
    /\ pc = "wait" /\ Idle # {} /\ \A l \in Letters : letters[l] # "iso"
    /\ letters' = [letters EXCEPT ![Min(Idle)] = "iso"]
    /\ UNCHANGED <<params, pc, rc, number, search, mount, imdisk, hist, moves>>

\* The letter that is looked at goes over to something else.
Shifts(l) == pc \in {"read", "check"} /\ l = extent.letter

Plug(l, v) ==
    /\ pc # "done" /\ moves > 0 /\ moves' = moves - 1
    /\ l \in Idle /\ \A k \in Letters : letters[k] # v
    /\ number[DiskOf[v]] # -1
    /\ letters' = [letters EXCEPT ![l] = v]
    /\ hist' = [hist EXCEPT !.moved = TRUE, !.shifted = @ \/ Shifts(l)]
    /\ UNCHANGED <<params, pc, rc, number, search, mount, imdisk>>

Unplug(l) ==
    /\ pc # "done" /\ moves > 0 /\ moves' = moves - 1
    /\ letters[l] \in Volumes
    /\ letters' = [letters EXCEPT ![l] = "none"]
    /\ hist' = [hist EXCEPT !.moved = TRUE, !.shifted = @ \/ Shifts(l),
                             !.hidden = @ \/ pc \in {"attach", "wait"}]
    /\ UNCHANGED <<params, pc, rc, number, search, mount, imdisk>>

\* A disk is pulled out with all its volumes, and its number is free.
PullOut(d) ==
    /\ pc # "done" /\ moves > 0 /\ moves' = moves - 1
    /\ number[d] # -1
    /\ number' = [number EXCEPT ![d] = -1]
    /\ letters' = [l \in Letters |-> IF letters[l] \in Volumes /\ DiskOf[letters[l]] = d
                                     THEN "none" ELSE letters[l]]
    /\ hist' = [hist EXCEPT !.moved = TRUE, !.pulled = @ \/ number[d] = extent.number,
                             !.hidden = @ \/ pc \in {"attach", "wait"}]
    /\ UNCHANGED <<params, pc, rc, search, mount, imdisk>>

\* A disk gets any number that is free; its volumes are plugged in afterwards.
PutIn(d, n) ==
    /\ pc # "done" /\ moves > 0 /\ moves' = moves - 1
    /\ number[d] = -1 /\ \A e \in Disks : number[e] # n
    /\ number' = [number EXCEPT ![d] = n]
    /\ UNCHANGED <<params, pc, rc, letters, search, mount, imdisk, hist>>

UseService(s) ==
    /\ pc # "done" /\ moves > 0 /\ moves' = moves - 1
    /\ <<service, s>> \in {<<"none", "stopped">>, <<"stopped", "running">>,
                           <<"running", "stopped">>, <<"stopped", "none">>}
    /\ service' = s
    /\ UNCHANGED <<params, pc, rc, system, search, mount, files, child, hist>>

Main ==
    \/ ParseArgs \/ GetParam
    \/ FindDisk \/ QueryDrive \/ ReadDisk \/ CheckFile \/ NotFound \/ Found
    \/ OpenVirtualDisk \/ Attach \/ PhysicalPath \/ Define
    \/ Snapshot \/ AttachAnywhere \/ Wait
    \/ StartImdisk \/ OpenPartition \/ CopyFiles
    \/ OpenService \/ Reopen \/ StartService
    \/ RunImdisk \/ EndImdisk

Others ==
    \/ \E l \in Letters, v \in Volumes : Plug(l, v)
    \/ \E l \in Letters : Unplug(l)
    \/ \E d \in Disks : PullOut(d)
    \/ \E d \in Disks, n \in Numbers : PutIn(d, n)
    \/ \E s \in {"none", "stopped", "running"} : UseService(s)

Next == Main \/ ImdiskExits \/ AssignLetter \/ Others

\* The program goes on, imdisk ends, and the system gives the image a letter if it can;
\* the others need not do anything.
Spec == Init /\ [][Next]_vars /\ WF_vars(Main) /\ WF_vars(ImdiskExits) /\ WF_vars(AssignLetter)
-----------------------------------------------------------------------------
\* The disk that vtoy_find_disk settles for has the identifier of the parameters, and the
\* file was found in a volume of the same disk, although other drives come and go between
\* the calls of the system, and numbers of disks are used again; but not where this disk is
\* pulled out or its letter goes over before the look for the file.  PhyDrive, which the
\* files of imdisk are read from, stays its number as long as it is not pulled out.
DiskIsTheParams ==
    pc \in {"found", "open", "imdisk", "partition", "copy"} =>
        /\ GuidOf[hist.disk] = param /\ hist.checked \in HasImage
        /\ ~hist.pulled => number[hist.disk] = phy
        /\ ~hist.pulled /\ ~hist.shifted => DiskOf[hist.checked] = hist.disk

\* The letter that is printed for the image is the image's: if the program chose it, unless
\* another drive came or went since Drives0; if it was asked for, when the first or second
\* call of DefineDosDevice succeeds (after the third the code does not know).
LetterIsTheImages ==
    pc = "done" /\ printed # 0 /\ (drive = 0 => ~hist.moved) /\ tries < 3
        => letters[printed] = "iso"

\* A failure leaves nothing attached, also one that comes after attaching; success by the
\* virtual disk means that it is attached, and success of -i that the driver was running.
ResultIsHonest ==
    pc = "done" =>
        /\ rc = 1 => ~attached
        /\ rc = 0 /\ printed # 0 => attached
        /\ rc = 0 /\ command.do = "driver" => hist.ran

\* The program ends, unless it waits for a letter that there is none for, or that a drive
\* had which is gone: then the drives look as before.
Ends == <>(pc = "done" \/ hist.hidden)
=============================================================================
