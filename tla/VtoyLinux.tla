----------------------------- MODULE VtoyLinux -----------------------------
(***************************************************************************)
(* vtoydump on Linux (vtoydump_linux.c): main finds the runtime data the   *)
(* boot loader left behind, finds the disk it speaks of among the block    *)
(* devices, and prints the data, the image location table, or both.  The   *)
(* table goes to dmsetup, which makes a block device of the image.         *)
(*                                                                         *)
(* The devices are read one after the other while they may be plugged in   *)
(* and out.  A disk is its name, its size and the identity (GUID and disk  *)
(* signature) in its first sector; a disk that cannot be read has another. *)
(***************************************************************************)
EXTENDS Integers, Sequences

CONSTANTS Disks,        \* names of block devices
          Partition,    \* Partition[d]: what a partition's name adds to d's
          Filtered,     \* the names vtoy_is_possible_blkdev refuses
          Sizes,        \* sizes of disks, in bytes
          VentoySize,   \* vtoy_disk_size
          Ids,          \* identities of disks
          VentoyId,     \* vtoy_disk_guid and vtoy_disk_signature
          PartStart,    \* where the Ventoy partition starts
          Image,        \* the image's regions, in sectors of the disk
          MaxPlugs,     \* bound on the number of devices plugged in or out
          OpenMayFail   \* whether opendir may fail

\* A device that is not there, in /sys/block or at all.
Absent == [size |-> 0, id |-> "none"]
Disk   == [size : Sizes, id : Ids]
Region == [image : Nat, count : Nat, disk : Nat]

ASSUME VtoyLinuxAssumption ==
    /\ Filtered \subseteq Disks
    /\ Partition \in [Disks -> {<<>>, <<"p">>}]
    /\ VentoySize \in Sizes /\ 0 \notin Sizes
    /\ VentoyId \in Ids /\ "none" \notin Ids
    /\ PartStart \in Nat
    /\ Image \in Seq(Region)
    /\ MaxPlugs \in Nat
    /\ OpenMayFail \in BOOLEAN

VARIABLES
    world,    \* the devices as they are now
    plugs,    \* how often one was plugged in or out
    pc,       \* where main is
    options,  \* format and check
    acpi,     \* the VTOY table: its state, and whether it holds a location
    param,    \* the runtime data that main uses
    todo,     \* the entries readdir has yet to deliver
    count,    \* disks the running scan has counted
    diskname, \* the last of them
    source,   \* where the image location comes from
    location, \* its regions
    dmdisk,   \* the device name that is printed, as a sequence of parts
    partstart, \* where the partition is taken to start
    lines,    \* the table that is printed
    rc,       \* what main returns: 1 stands for anything but 0
    message,  \* the complaint on stderr, or "none"
    verified, \* history: disks seen with the identity of the Ventoy disk
    missed    \* history: opendir has failed

scan == <<todo, count, diskname>>
data == <<options, acpi, param>>
out  == <<source, location, dmdisk, partstart, lines>>
vars == <<world, plugs, pc, data, scan, out, rc, message, verified, missed>>

PartId == 1

\* image_sector_size / disk_sector_size
ImageSector == 4

\* The start that the code assumes where it cannot ask.
DefaultStart == 2048
Starts == {0, DefaultStart, PartStart}

NoDisk == "nothing"

Options == [format : {0, 1, 2}, check : BOOLEAN]

\* The runtime data: whether it has the address of a location in memory, and
\* the file system type.  Without a location it is told by its source alone.
Param   == [address : BOOLEAN, exfat : BOOLEAN]
NoParam == [address |-> FALSE, exfat |-> FALSE]
Acpi    == [table : {"unread", "absent", "corrupt", "good"}, location : BOOLEAN]

Init ==
    /\ world \in [Disks -> Disk \cup {Absent}]
    /\ plugs = 0
    /\ pc = "acpi"
    /\ options \in Options
    /\ acpi = [table |-> "unread", location |-> FALSE]
    /\ param = NoParam
    /\ todo = {} /\ count = 0 /\ diskname = NoDisk
    /\ source = "none" /\ location = <<>> /\ dmdisk = <<>> /\ partstart = 0 /\ lines = <<>>
    /\ rc = 0 /\ message = "none"
    /\ verified = {}
    /\ missed = FALSE

Exit(result) ==
    /\ pc' = "exit"
    /\ rc' = result

Complain(text) == message' = text

-----------------------------------------------------------------------------
(***************************************************************************)
(* The runtime data: the ACPI table, else an EFI variable or the memory    *)
(* below 1 MiB.  Data with a wrong GUID or checksum counts as none.        *)
(***************************************************************************)
HaveParam(p) ==
    /\ param' = p
    /\ IF options.check THEN Exit(0) ELSE pc' = "find" /\ UNCHANGED rc

ParamFromAcpi ==
    /\ pc = "acpi"
    /\ \E table \in {"absent", "corrupt", "good"}, has \in BOOLEAN :
         /\ acpi' = [table |-> table, location |-> has /\ table = "good"]
         /\ IF table = "good"
            THEN \E p \in Param : HaveParam(p)
            ELSE pc' = "firmware" /\ UNCHANGED <<param, rc>>
    /\ UNCHANGED <<world, plugs, options, scan, out, message, verified, missed>>

\* vtoy_os_param_from_efivar on a machine with EFI, vtoy_os_param_from_phymem on
\* another.
ParamFromFirmware ==
    /\ pc = "firmware"
    /\ \/ /\ \E p \in Param : HaveParam(p)
          /\ UNCHANGED message
       \/ Exit(1) /\ Complain("nodata") /\ UNCHANGED param
    /\ UNCHANGED <<world, plugs, options, acpi, scan, out, verified, missed>>

-----------------------------------------------------------------------------
(***************************************************************************)
(* vtoy_find_disk: count the disks of the right size; one is enough if its *)
(* identity is right, else count the disks of the right identity.          *)
(***************************************************************************)
\* Faulty variant of OpenDir: the count of the scan before stays.
OpenDirUncounted(next) ==
    /\ todo' = {d \in Disks : world[d] # Absent}
    /\ pc' = next
    /\ UNCHANGED <<count, missed>>

OpenDir(next) ==
    /\ \/ /\ todo' = {d \in Disks : world[d] # Absent}
          /\ UNCHANGED missed
       \/ /\ OpenMayFail
          /\ todo' = {}
          /\ missed' = TRUE
    /\ count' = 0
    /\ pc' = next

FindBySize ==
    /\ pc = "find"
    /\ OpenDir("size")
    /\ UNCHANGED <<world, plugs, data, diskname, out, rc, message, verified>>

\* Faulty variant of CountDisk: the entry is delivered again.
CountDiskAgain(d, matches) ==
    /\ diskname' = d
    /\ UNCHANGED <<todo, count>>

CountDisk(d, matches) ==
    /\ todo' = todo \ {d}
    /\ IF matches
       THEN count' = count + 1 /\ diskname' = d
       ELSE UNCHANGED <<count, diskname>>

HasSize(d) == d \notin Filtered /\ world[d].size = VentoySize
HasId(d)   == world[d].id = VentoyId

SizeOf(d) ==
    /\ pc = "size"
    /\ d \in todo
    /\ CountDisk(d, HasSize(d))
    /\ UNCHANGED <<world, plugs, pc, data, out, rc, message, verified, missed>>

Verify(d) == verified' = IF HasId(d) THEN verified \cup {d} ELSE verified

\* Faulty variant of Found: the number of disks is the exit code.
FoundReturnsCount(n) ==
    \/ n = 1 /\ pc' = "print" /\ UNCHANGED <<rc, message>>
    \/ n # 1 /\ Exit(n) /\ Complain("nodisk")

\* Faulty variant of Found: the last of several disks is taken.
FoundTakesLast(n) ==
    \/ n > 0 /\ pc' = "print" /\ UNCHANGED <<rc, message>>
    \/ n = 0 /\ Exit(1) /\ Complain("nodisk")

Found(n) ==
    \/ n = 1 /\ pc' = "print" /\ UNCHANGED <<rc, message>>
    \/ n = 0 /\ Exit(1) /\ Complain("nodisk")
    \/ n > 1 /\ Exit(1) /\ Complain("manydisks")

\* Faulty variant of CheckDevice: the identity is not read.
CheckForgotten ==
    /\ pc = "size"
    /\ todo = {}
    /\ count = 1
    /\ Found(1)
    /\ UNCHANGED <<world, plugs, data, scan, out, verified, missed>>

\* vtoy_check_device reads the identity of the one disk; with none or many, the
\* directory is read again.
CheckDevice ==
    /\ pc = "size"
    /\ todo = {}
    /\ count = 1
    /\ Verify(diskname)
    /\ IF HasId(diskname)
       THEN Found(1) /\ UNCHANGED count
       ELSE Found(0) /\ count' = 0
    /\ UNCHANGED <<world, plugs, data, todo, diskname, out, missed>>

FindByGuid ==
    /\ pc = "size"
    /\ todo = {}
    /\ count # 1
    /\ OpenDir("guid")
    /\ UNCHANGED <<world, plugs, data, diskname, out, rc, message, verified>>

GuidOf(d) ==
    /\ pc = "guid"
    /\ d \in todo
    /\ IF d \in Filtered
       THEN CountDisk(d, FALSE) /\ UNCHANGED verified
       ELSE CountDisk(d, HasId(d)) /\ Verify(d)
    /\ UNCHANGED <<world, plugs, pc, data, out, rc, message, missed>>

GuidEnd ==
    /\ pc = "guid"
    /\ todo = {}
    /\ Found(count)
    /\ UNCHANGED <<world, plugs, data, scan, out, verified, missed>>

-----------------------------------------------------------------------------
(***************************************************************************)
(* vtoy_print_image_location.                                              *)
(***************************************************************************)
PartitionName(d) == <<d>> \o Partition[d] \o <<PartId>>

\* The runtime data has been printed, or not; is the table wanted too?
PrintOsParam ==
    /\ pc = "print"
    /\ dmdisk' = <<diskname>>
    /\ IF options.format = 0 THEN Exit(rc) ELSE pc' = "phymem" /\ UNCHANGED rc
    /\ UNCHANGED <<world, plugs, data, scan, source, location, partstart, lines, message, verified,
                   missed>>

GotLocation(from, regions) ==
    /\ source' = from
    /\ location' = regions
    /\ pc' = "table"

\* /dev/mem may be out of reach.
LocationByPhymem ==
    /\ pc = "phymem"
    /\ \/ param.address /\ GotLocation("phymem", Image)
       \/ pc' = "byacpi" /\ UNCHANGED <<source, location>>
    /\ UNCHANGED <<world, plugs, data, scan, dmdisk, partstart, lines, rc, message, verified,
                   missed>>

LocationByAcpi ==
    /\ pc = "byacpi"
    /\ IF acpi.location
       THEN GotLocation("acpi", Image)
       ELSE pc' = "bylsexfat" /\ UNCHANGED <<source, location>>
    /\ UNCHANGED <<world, plugs, data, scan, dmdisk, partstart, lines, rc, message, verified,
                   missed>>

\* ventoy_get_location_by_lsexfat opens the disk's name with the number behind
\* it: a partition only where nothing stands between.  What it finds is counted
\* from the start of the partition.
InPartition(regions) ==
    [k \in DOMAIN regions |-> [regions[k] EXCEPT !.disk = @ - PartStart]]

LocationByLsexfat ==
    /\ pc = "bylsexfat"
    /\ dmdisk' = IF param.exfat THEN <<diskname, PartId>> ELSE dmdisk
    /\ \/ /\ param.exfat
          /\ Partition[diskname] = <<>>
          /\ world[diskname] # Absent
          /\ GotLocation("lsexfat", InPartition(Image))
          /\ UNCHANGED <<rc, message>>
       \/ /\ Exit(rc)
          /\ Complain("nolocation")
          /\ UNCHANGED <<source, location>>
    /\ UNCHANGED <<world, plugs, data, scan, partstart, lines, verified, missed>>

\* What memory holds may have been overwritten; the GUID in front tells.
LocationCorrupted ==
    /\ pc = "table"
    /\ source # "lsexfat"
    /\ Exit(rc)
    /\ Complain("corrupted")
    /\ UNCHANGED <<world, plugs, data, scan, out, verified, missed>>

\* Faulty variant of Line: sectors of the disk, not of the partition.
LineOfDisk(region, start) ==
    [start  |-> ImageSector * region.image,
     length |-> ImageSector * region.count,
     device |-> dmdisk \o Partition[diskname] \o <<PartId>>,
     offset |-> region.disk]

\* One line in the format of dmsetup: sectors of 512 bytes of the new device,
\* and where they are on the old one (an unsigned number in the code, which wraps
\* where this one is negative).
Line(region, start) ==
    [start  |-> ImageSector * region.image,
     length |-> ImageSector * region.count,
     device |-> dmdisk \o Partition[diskname] \o <<PartId>>,
     offset |-> region.disk - start]

\* The start of the partition, from sysfs: DefaultStart where it is not there or cannot be
\* opened, 0 where reading it fails.  The start on another disk may be any of these.
PartStarts == IF world[diskname] = Absent THEN {0, DefaultStart} ELSE Starts

PrintTable ==
    /\ pc = "table"
    /\ partstart' \in PartStarts
    /\ lines' = [k \in DOMAIN location |-> Line(location[k], partstart')]
    /\ Exit(rc)
    /\ UNCHANGED <<world, plugs, data, scan, source, location, dmdisk, message, verified, missed>>

-----------------------------------------------------------------------------
\* A device is plugged in, pulled out, or replaced by another of the same name.  A
\* scan that is not at its end may meet the new one, or may not.
Plug(d) ==
    /\ plugs < MaxPlugs
    /\ pc # "exit"
    /\ \E disk \in Disk \cup {Absent} :
         /\ disk # world[d]
         /\ world' = [world EXCEPT ![d] = disk]
    /\ plugs' = plugs + 1
    /\ todo' \in IF todo = {} THEN {todo} ELSE {todo, todo \cup {d}}
    /\ UNCHANGED <<pc, data, count, diskname, out, rc, message, verified, missed>>

Main ==
    \/ ParamFromAcpi \/ ParamFromFirmware
    \/ FindBySize \/ (\E d \in Disks : SizeOf(d)) \/ CheckDevice
    \/ FindByGuid \/ (\E d \in Disks : GuidOf(d)) \/ GuidEnd
    \/ PrintOsParam \/ LocationByPhymem \/ LocationByAcpi \/ LocationByLsexfat
    \/ LocationCorrupted \/ PrintTable

Next == Main \/ \E d \in Disks : Plug(d)

\* The program runs on; devices come and go as they like.
Spec == Init /\ [][Next]_vars /\ WF_vars(Main)

-----------------------------------------------------------------------------
\* Every variable keeps its type.
TypeOK ==
    /\ world \in [Disks -> Disk \cup {Absent}]
    /\ plugs \in 0 .. MaxPlugs
    /\ pc \in {"acpi", "firmware", "find", "size", "guid", "print", "phymem", "byacpi",
               "bylsexfat", "table", "exit"}
    /\ options \in Options /\ acpi \in Acpi /\ param \in Param
    /\ todo \subseteq Disks /\ count \in Nat /\ diskname \in Disks \cup {NoDisk}
    /\ source \in {"none", "phymem", "acpi", "lsexfat"}
    /\ partstart \in Starts
    /\ rc \in {0, 1}
    /\ message \in {"none", "nodata", "nodisk", "manydisks",
                    "nolocation", "corrupted"}
    /\ verified \subseteq Disks \cup {NoDisk}
    /\ missed \in BOOLEAN

\* main goes on to print with a disk.
Printing == pc \in {"print", "phymem", "byacpi", "bylsexfat", "table"} \/ lines # <<>>

\* vtoy_find_disk: what main prints is of a disk whose identity was read and right,
\* although the size alone led to it, although diskname is filled in by two scans, and
\* whatever was plugged in between.
FoundIsVentoyDisk == Printing => diskname \in verified \ Filtered

Alike(d, e) == d # e /\ {d, e} \cap Filtered = {}

\* vtoy_find_disk: if no device comes or goes, no other disk has both the size and the
\* identity of the one that is taken; two that have are refused.
FoundIsUnambiguous ==
    Printing /\ plugs = 0 =>
        ~\E d \in Disks : Alike(d, diskname) /\ HasSize(d) /\ HasId(d)

\* vtoy_find_disk: if no device comes or goes, a disk with the size and the identity
\* that are looked for is never said to be missing, and only disks of the same
\* identity are said to be indistinguishable.
RefusalIsRight ==
    plugs = 0 /\ ~missed =>
        /\ message = "nodisk" => ~\E d \in Disks : HasSize(d) /\ HasId(d)
        /\ message = "manydisks" =>
              \E d, e \in Disks : Alike(d, e) /\ HasId(d) /\ HasId(e)

\* What the scans of /sys/block know so far.  While no device comes or goes, count
\* and diskname tell which of the entries read match: exactly diskname if it is 1,
\* none if it is 0 (unless the directory could not be opened).
SizeKnown ==
    plugs = 0 /\ count <= 1 =>
        \A d \in Disks \ todo : HasSize(d) => count = 1 /\ d = diskname

IdKnown ==
    plugs = 0 =>
        /\ count >= 1 => diskname \notin todo /\ HasId(diskname)
        /\ count <= 1 =>
              \A d \in Disks \ (todo \cup Filtered) : HasId(d) => count = 1 /\ d = diskname
        /\ count >= 2 => \E d, e \in Disks : Alike(d, e) /\ HasId(d) /\ HasId(e)

\* The inductive invariant behind FoundIsVentoyDisk, FoundIsUnambiguous and
\* RefusalIsRight.
FindInv ==
    /\ pc = "size" =>
          /\ count >= 1 => diskname \in Disks \ Filtered
          /\ SizeKnown \/ (missed /\ todo = {} /\ count = 0)
    /\ pc = "guid" =>
          /\ count >= 1 => diskname \in (Disks \cap verified) \ Filtered
          /\ IdKnown \/ (missed /\ todo = {} /\ count = 0)
    /\ message # "none" => pc = "exit"
    /\ pc \in {"acpi", "firmware", "find", "size", "guid"} => lines = <<>>
    /\ FoundIsVentoyDisk
    /\ FoundIsUnambiguous
    /\ RefusalIsRight

\* The device that dmsetup makes of a table: which sector of which partition each
\* sector of it is.
Sectors(table) ==
    UNION {{<<table[n].start + k, table[n].device, table[n].offset + k>> :
              k \in 0 .. table[n].length - 1} : n \in DOMAIN table}

\* What it should be, with the sectors of the partition counted from start.
ImageFrom(start) ==
    UNION {{<<ImageSector * Image[n].image + k, PartitionName(diskname),
              Image[n].disk - start + k>> :
              k \in 0 .. ImageSector * Image[n].count - 1} : n \in DOMAIN Image}

\* vtoy_print_image_location, with the location the boot loader left: the device that
\* dmsetup makes of the table is the image, with nothing missing and nothing else, on the
\* partition of the disk that was found.  Where sysfs gave no start, all its sectors are
\* off by as much as DefaultStart or 0 is: none is missing, but they are others.
TableIsImage ==
    lines # <<>> /\ source \in {"phymem", "acpi"} => Sectors(lines) = ImageFrom(partstart)

\* README and print_usage: -L prints the "image location table (used to generate
\* dmsetup table)", wherever the location was found, if sysfs gives the partition's start.
TableForDmsetup ==
    lines # <<>> /\ partstart = PartStart => Sectors(lines) = ImageFrom(PartStart)

\* main ends, however many devices come and go.
Exits == <>(pc = "exit")
=============================================================================
