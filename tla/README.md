# A formal model of vtoydump

These TLA+ modules model vtoydump, the tool that tells an operating system
booted by Ventoy from which disk and which image it came. Paths below are
relative to `src/src/`.

## 1. The system

When Ventoy boots an ISO it leaves runtime data behind (`ventoy_os_param`: the
identity and the size of its disk, the path of the image) and sometimes an image
location table (which 512-byte sectors of the disk hold which 2048-byte sectors
of the image). On Linux `vtoydump` finds the data, finds the disk, prints both;
its `-L` output is meant for `dmsetup`. On Windows it mounts the image.

### Inventory

| Component | State it keeps | Operations | What is hard | What makes it correct |
|---|---|---|---|---|
| `vtoydump_linux.c` main | runtime data, `diskname`, image location | read data from ACPI / EFI / memory, scan `/sys/block` by size and by GUID, check a device, print data, get the location from memory / ACPI / exFAT, print the table | devices that come and go between the scans, name and count kept apart, sources of the location that disagree about units and names | the printed disk is the boot loader's; ambiguity is refused, and only ambiguity; the table is the image |
| `libexfat/lsexfat.c` | table of regions and its capacity; runs | walk the chain of the ISO, merge runs, file regions, grow the table | fragments, damaged or cyclic chains, failing `malloc` and reads, rounding | the regions are the chain, sector by sector; errors are reported and only errors |
| `libexfat/cluster.c` | bitmap of clusters and its dirty flag, the table on the volume, start, size, contiguity and cached position of each node | truncate (grow, shrink, erase), advance, flush | failing reads and writes in the middle of a change, a full volume, a position cached across changes, two representations of a chain | chains never share clusters; nothing leaks; the cached position is right; new space is zero; calls end |
| `libexfat/node.c`, `lookup.c` | tree of nodes with references and dirty flags, directory entries on the volume | readdir, cache, lookup, split, create, mkdir, delete, unlink, rmdir, rename, times, label, flush | runs of free slots, references that must be balanced, failures between two directory writes, special entries | no entry is overwritten, parent and child counts agree, an operation that fails changes nothing or says so |
| `libexfat/mount.c`, `repair.c` | super block with the mounted flag, root, bitmap, upcase table | mount, finalize, unmount, repair | order of flushes and the flag; a crash between them; repair while mounting | a volume that is not marked mounted is consistent |
| `libexfat/io.c` | the device | open, pread, pwrite, generic reads and writes on a file | short reads, writes beyond the valid size | data read is data written |
| `libexfat/time.c`, `utf.c`, `utils.c` | none | conversions and checksums | leap years, surrogates, limits | round trips |
| `vtoydump_windows.c` | runtime data, drive letters | find the disk, mount through the system or ImDisk, copy from the FAT partition | waiting for a letter while other drives come and go; retries | the letter that is reported is the image's |
| `fat_io_lib/` | buffer of table sectors, open files with sector and cluster caches, lock | fopen .. fclose, remove, mkdir, listing; allocation of clusters | write-back and eviction, caches that outlive what they cache, the lock | files read back what was written; the table and the files agree |

`vtoydump_linux.c` calls `lsexfat.c` (through `exfat_mount` and `exfat_lookup`)
when the location is neither in memory nor in ACPI; `lsexfat.c` walks chains with
`cluster.c`; `node.c` truncates directories with `cluster.c`; `mount.c` ties them
together. `vtoydump_windows.c` uses `fat_io_lib`, through callbacks that read
sectors. There are no threads; what interleaves is the program with the outside
(devices, drives) and operations with failures at any read or write. vtoydump
mounts exFAT read-only, so of `cluster.c` it runs the reading half; the writing
half is the library's and is modelled as the library's own code.

The hazards, each at its line, are in `PROJECT.json`.

## 2. Plan

Done, in this order:

1. `LsExfat` with its abstract specification `ImageMap` (proved).
2. `ExfatCluster` (proved, with reads and writes that fail and without).
3. `VtoyLinux` (proved).
4. `ExfatDir`: entries, nodes and references, mounting and crashes are one module,
   because the property that matters most (a volume that is not marked mounted
   is whole) speaks of all of them (the references proved, the rest model-checked).
5. `FatTable` and, on it, `Fat` (the buffers of the table and the handles proved, the contents of
   files model-checked).
6. `VtoyWindows` (proved).

Left:

* proofs: of `ExfatDir`, that an unmount leaves no node dirty, which needs that the
  entries of a node are found again where it thinks (`TreeMatchesVolume`);
* the super block of `mount.c` and its checksum; pure functions (time stamps,
  UTF, checksums, short names) with reference definitions over bounded inputs.

## 3. Modules

| Module | Models | State and actions |
|---|---|---|
| `ExfatLayout` | numbering of clusters (`exfatfs.h`, `exfat.h`), one step along a chain | cluster numbers are 32 bits wide in the code and are read as signed numbers here: `END` is -1, so that `END + 1` is 0 as in the code |
| `ImageMap` | the promise: a map from image sectors to disk sectors, built cluster by cluster | `map`, `left`, `cluster`; `MapCluster`, `Finish`, `Break` |
| `LsExfat` | `lsexfat.c` 33-165 | one action per outcome of one turn of the loop: `ExtendRun` (line 148), `StartRun` with `exfat_add_disk_region` (`SkipRun`, `JoinRegion`, `AppendRegion`, `DropRun`), `BadCluster`, `LastRun`, and `NullTable` for the NULL that `malloc` leaves |
| `Induction_proofs`, `ExfatLayout_proofs` | lemmas: induction on natural numbers, what each turn of a loop keeps the loop keeps, and what `ChainFrom` gives before and behind a write to the table | |
| `LsExfat_proofs` | proofs about `LsExfat` | |
| `ExfatCluster` | `cluster.c` 73-137, 157-438 | `pc` says where the running call is; each read and write of the table is a step that may fail. `goal` is the new size, `me` the node. `Enter` .. `EraseDone` follow `exfat_truncate`; `CallAdvance`, `Advance`, `AdvanceDone` are `exfat_advance_cluster`, on behalf of the label in `back`; `undo` marks `shrink_file` called by `grow_file`; `failed`, `descended`, `skewed` and `strayed` are history |
| `ExfatCluster_proofs` | proofs about `ExfatCluster`: types and labels, then the files under failures, then the bitmap without | |
| `Worlds` | how operations are composed | `Then` goes on after a success; `Turns` is a loop, `Times` and `Each` its two forms |
| `ExfatDir` | `node.c`, `lookup.c`, `mount.c` 182-389, the parts of `repair.c`, `io.c` and `cluster.c` that they call | a call is one step. `vol` is what is on the volume, `mem` the `struct exfat` with its tree of nodes. An operation maps a world to the set of worlds it can end in: one for each write that can fail or be the last before a crash. `Then`, `Finally` and `OnError` are the three ways in which the code goes on after a call; `PutAfter` gives a reference back on each of them. `held` is what callers keep references to; `crossed` is history |
| `ExfatDir_proofs` | proofs about `ExfatDir` | |
| `FatTable` | `fat_table.c`, allocation of `fat_write.c` | the list of buffers of table sectors (`buf`), the hint, the table on the device; operations again map worlds to sets of worlds, for each read and write that may fail |
| `Fat` | `fat_filelib.c`, `fat_access.c`, `fat_write.c`, long names of `fat_misc.c` | `disk`, `fs` (`struct fatfs` with the current sector), `fl` (the two lists of handles and what is in them). One action per public call. `Scan` is each search of a directory, for a name, a short name or room (`Hits`). `kind`, `text`, `seen` are what callers have been told |
| `VtoyWindows` | `vtoydump_windows.c` | `pc` follows `main`; each call of the system that another may come before is a step: `GetPhyDiskUUID` is `QueryDrive`, which gets the number of the drive's disk, and `ReadDisk`, which reads the identifier from whichever disk has this number by then. `letters` is what the drives are, `number` the numbers of the physical disks, `service` the driver's service, `child` the process of imdisk; `Plug` and `Unplug` (a volume), `PullOut` and `PutIn` (a disk, whose number may go to another one), `UseService`, `AssignLetter` and `ImdiskExits` are others. In `hist`, `pulled` and `shifted` say that the disk that is looked at was pulled out, or its letter went over to something else |
| `Fat_proofs` | proofs about `FatTable` and `Fat` | |
| `VtoyLinux` | `vtoydump_linux.c` 61-753 | `world` is the devices, which `Plug` changes at any moment; `pc` follows `main`; `SizeOf` and `GuidOf` are one turn of the scans, in any order of entries |
| `VtoyLinux_proofs` | proofs about `VtoyLinux` | |
| `VtoyWindows_proofs` | proofs about `VtoyWindows` | |
| `MC...` | constants of the instances | |

`ExfatDir` takes `exfat_truncate` as a whole (it is done, or there is no space, or
nothing is done and it fails); `ExfatCluster` is about its inside. `Fat` extends
`FatTable`: each of its calls is composed of the table's operations.

What is abstracted:

* `LsExfat`: sizes are counted in sectors of 512 bytes. The table of the volume
  is arbitrary and the node is what `check_node` lets through.
* `ExfatCluster`: sizes are counted in clusters, which leaves out changes inside
  the last cluster (they touch no cluster). The data is the set `erased`. The
  bitmap is a set; the word-wise search of `find_bit_and_set` is "the first free
  cluster from the hint on". A read far beyond the table gives anything. A file
  of size 0 with a start asks for position 2^32 - 1; the walk is cut at `Huge`,
  longer than any chain on the volume. Nodes are always referenced.
* `VtoyLinux`: runtime data is good or not (GUID and checksum are one test), its
  contents are whether it has a location in memory and whether the file system
  is exFAT. A disk is a name, a size and an identity (the GUID and the signature
  in the first sector are one value; a disk that cannot be read has another).
  `Disks`, `Filtered` and `Partition` give the names, the names
  `vtoy_is_possible_blkdev` refuses and the `p` of `nvme0n1p1`. The start of the
  partition (`PartStarts`) is what sysfs says, or 2048 where the file is not there
  or cannot be opened, or 0 where reading it fails, also while the disk is there. An exit code that
  is not 0 is 1. A negative offset stands for the unsigned number that wraps. A
  location left in memory is the image's, or its GUID is wrong.
* `ExfatDir`: sizes are counted in clusters, offsets in entries; a deleted entry
  and a zero one are the same. The entries of a node carry its name, its clusters
  and its size, and a checksum is whether they agree. Reads do not fail, except
  that a directory which promises more than its chain has is `EIO`. A caller of
  unlink, rmdir or `exfat_put_node` calls `exfat_cleanup_node` as node.c:58 demands
  and unmounts when it holds nothing. A node is named by its clusters, so two
  entries that name the same clusters have one node here and two in the code: from
  then on `crossed` holds, and `RefsBalanced` and `AbortsOnlyFor` say nothing. `TreeMatchesVolume` says
  that this does not happen before a write has failed. Memory does not run out.
  Repair is asked for or not, and not put to the user. `exfat_rmdir` of the root dereferences its
  parent, which is NULL (`bug:null`).
* `FatTable`, `Fat`: the library has one caller, which holds its lock. A cluster
  that is free is 0, all ends of a chain are `END`. The device has one
  copy of the table: `fatfs_fat_writeback` (`fat_table.c:83-112`) writes no other. The
  entries from `Clusters[type]` on, up to the end of the table's last sector, have no cluster:
  the library's search is bounded by the sectors only, and gives them out. A failed read is the end of a chain, as
  in the code. Data is counted in units, of which a sector has `SectorUnits`, and
  the data that a call writes is the number of that call. Where the code would
  write outside the root of FAT16, take an entry that has no cluster, or follow a
  chain to cluster 0, the model says `overrun`; where `fl_fseek` drops a buffer that is not written it says `dropped`.
  Modes that erase do not, as in the code (finding 5).
* `VtoyWindows`: parameters are valid or not, and name a disk; the file of the
  image is on a volume or not. `malloc` succeeds. Results that the code ignores
  (reads of the partition table and of the FAT partition, `CreateProcess`) are
  ignored: what was copied may be bad. `AttachVirtualDisk` gives a letter at once
  or leaves it to the system, to the first free one. The user does not eject the
  image.

`Faulty variant of ...` operators are not part of the model: each is a plausible
mistake in the definition named, and shows that a property would notice it
(`PROJECT.json`, "mutants").

## 4. Runs

| Run | Question | Bounds, and why they are enough |
|---|---|---|
| `lsexfat` | does the walk end and stay inside its table on any volume, with `malloc` and reads failing anywhere? (`TypeOK`, `TableFits`, `RegionsTile`, `Terminates`) | 4 clusters of 1 KiB with each of the possible tables: damaged, cyclic and shared chains; first table of 1 region, so that it doubles twice |
| `lsexfat_refine` | are the merged regions the chain, and errors honest? (`TableExact`, `ErrorIsHonest`, `WalkInv`, `ImplementsImageMap`) | 3 clusters of 4 KiB, sizes with partial last clusters; every order of 3 clusters occurs, adjacent and not |
| `cluster` | do chains, bitmap and cached positions agree after every call, and what do failures anywhere leave? (`TypeOK`, `NoLeak`, `FptrCoherent`, `NeverBug`, `CleanBitmapIsSaved`, `NoCrossLink`, `GuardsHold`, `ContentsStay`, `GrownIsZero`, `CallsEnd`) | 4 clusters, one of them the system's, two files up to 3 clusters, a row and a chain to begin with, reads and writes that fail anywhere: both kinds of chain, a wrapping search, a growth undone for lack of space. The larger the volume, the more ways to be full, but none of another kind; the theorems are for any size |
| `cluster_row` | violation of `ContiguousIfInARow` | one file |
| `cluster_skew` | violation of `StartFitsSize` | one file |
| `vtoylinux` | is the right disk found or rightly refused, and the right table printed? (`TypeOK`, `FindInv`, `FoundIsVentoyDisk`, `FoundIsUnambiguous`, `RefusalIsRight`, `TableIsImage`, `Exits`) | 3 devices, one with `p` in its partitions and one filtered by name, 2 sizes, 2 identities, one change of a device at any moment: with two possible disks all counts 0, 1, 2 occur in both scans; a partition that starts at neither of the values assumed. For any number of devices and changes, see the theorems |
| `vtoylinux_table` | violation of `TableForDmsetup` | no change of devices needed |
| `exfat_dir` | do tree and volume agree, do references balance, is an unmounted volume whole after a crash, and does the library abort only when its caller or a failure is to blame? (`TreeMatchesVolume`, `RefsBalanced`, `CleanMeansWhole`, `AbortsOnlyFor`) | one directory and one file besides the root, 3 clusters of 4 entries, names of 1 and 2 entries (3 and 4 entries with the first two): entries cross clusters, fill the root and the volume; 7 calls, of which the first mounts, one failing write or crash; paths through `.`, through a directory, and through a file |
| `exfat_label` | violation of `LabelStays` | 5 calls, no failure |
| `fat` | is the buffered table coherent, are chains whole, names found, texts kept and handles kept and returned? (`BuffersAreCoherent`, `TableIsKept`, `ChainsAreWhole`, `NamesAreFound`, `FilesKeepTheirText`, `HandlesAreKept`) | FAT16 and FAT32, a table of two sectors and one buffer, so that each step along a chain may evict; 6 clusters of FAT32, which two files in a directory fill, and 5 of FAT16, whose table has an entry without a cluster; 2 handles; the modes a+ and r+; two names with one short name and 2 and 1 entries in sectors of 4; 7 calls, one failing read or write, one call behind it. With one buffer no sector can be there twice: that half of `BuffersAreCoherent` is left to the theorem |
| `fat_erase` | violation of `EraseEmpties` | the modes w and w+, no failure |
| `vtoywindows` | is it the right disk and the right letter, is nothing left behind, and does the program end? (`DiskIsTheParams`, `LetterIsTheImages`, `ResultIsHonest`, `Ends`) | 4 letters, of which one is free; 3 volumes on 2 disks, two with a file of the image's path, and a third disk with the right identifier that may take a number that becomes free; each source of parameters, good behind bad ones; 3 changes by others: enough for a letter to go from one volume to another, and for a number to go from one disk to another, between any two calls |

`cluster` runs under the state constraint `Unharmed`: states are not followed
further once a contiguous file has been extended downwards (finding 1,
`descended`), a call has been made on a node that an earlier failure left with a
start and no size, or a size and no start (finding 2, `skewed`), or a walk has
gone on from an invalid cluster that a failed walk left as the cached position
(`strayed`, below). Its properties, and the theorems, are about everything that
comes before; `CallsEnd` likewise says nothing of a call that extends a contiguous
file downwards. Symmetry is not used.

`AbortsOnlyFor` allows the abort on dirty nodes; that an unmount finds them only after
a failure or a repair is the second half of `CleanMeansWhole`.

`exfat_dir` and `fat` bound the number of calls (`MaxCalls`) and of failures
(`MaxFaults`); `MaxCallsAfterFault` bounds the calls behind a failure in `Fat`.
`TreeMatchesVolume` and `CleanMeansWhole` are stated for histories without a
failing write (crashes are not failing writes): the code then leaves nodes and
entries apart, and says so by the error. `CleanMeansWhole` also leaves out
histories in which a volume was mounted that had not been unmounted. Of
`Fat`, `BuffersAreCoherent`, `TableIsKept` and `HandlesAreKept` hold whatever fails; the others are
stated while nothing has failed and nothing was overrun (`Reliable`).

`TableIsImage` is relative to the start of the partition that was taken: where sysfs did not
give it, the table is printed with success and is not the image, each sector being off by the same
difference. `DiskIsTheParams` says of the file that was found that it is on the disk that was
identified only if neither the disk was pulled out nor the letter changed hands between
`QueryDrive` and `CheckFile`: else the code takes a file of another disk, and `OpenPartition`
may open another disk under the old number. `LetterIsTheImages` leaves out other drives that come
or go while the program waits, and what is printed after the third `DefineDosDevice`, whose
result the code does not tell apart.

`CHECK_DEADLOCK FALSE`: the program exits, the walk is done, and no call need
follow on `ExfatCluster` after an abort.

### Findings

1. `cluster_row`: `cluster.c:283` compares with `previous - 1`.
2. `cluster_skew`: `cluster.c:335`: a file cut to nothing whose freeing fails keeps its
   size and has no start, which `node.c:245` forbids; a later shrink aborts ("unable to
   shrink empty file"). A failed growth of an empty file (line 268) leaves the
   reverse, a start and no size.
3. `vtoylinux_table`: with a location from the file system the table names
   `/dev/sda11` and has the start of the partition subtracted
   from sectors that are counted from it (`vtoydump_linux.c:550`, `604-625`).
4. `exfat_label`: `node.c:871` extends the root over the label, which
   `node.c:799` says must not be overwritten.
5. `fat_erase`: `fat_filelib.c:734`, `749`: `FILE_ERASE` is set and nothing reads it, so
   a file opened with w or w+ keeps its content, which lines 709 and 716 say is erased.

Met while modelling, and not runs of their own:

* `lsexfat.c:111` rounds each run down to whole image sectors, so where clusters
  are smaller than 2048 bytes `image_start_sector` is not what `vtoydump.h:45` says.
  Volumes that Ventoy formats have larger clusters.
* `cluster.c:104-110`: a walk that meets an invalid cluster, be it a read that
  fails, stores it as `fptr_cluster` under the index it was asked for. A later call
  for a larger index goes on from there, reads the table far outside, and takes
  what it finds. The proof of `ContentsStay` failed on this: with one file on
  clusters 5, 3, 4, a failed read and a call to grow link a new cluster to
  whatever the stray walk came by. `strayed` marks it.
* `vtoydump_linux.c:583-600`: where sysfs does not give the start of the partition, 2048 or 0 is
  used without complaint, and the table is printed as if it were right.
* `fat_table.c:303`: the search for a free cluster is bounded by the sectors of the table, so
  on a volume whose clusters do not fill the last of them it gives out entries without a cluster
  before it reports that the volume is full.
* `vtoydump_windows.c:569-577`, `640`: the number of a disk, its identifier and the file are asked
  for by name in three calls, so a drive that is exchanged in between is not noticed.
* `fat_access.c:264` gives the current sector its address before reading it: after
  a read that fails, the next call takes the old contents for the new sector's.
* `fat_write.c:237` extends the root directory of FAT16 as if it had a chain.
* `fl_fseek` (`fat_filelib.c:1129`) drops what is in the buffer, and a write far
  behind the end then goes to the wrong place in the chain.
* `fl_fwrite` returns the length asked for, also on a full volume; `fl_remove` keeps
  its handle where the deletion fails (`fat_filelib.c:1428`), which is why
  `HandlesAreKept` excepts removals, and why only `NamesAreFound`, which speaks of
  calls without failures, says that they leave no handle behind; `_create_directory`
  keeps its cluster where erasing it fails (line 229).
* `vtoydump_windows.c:937` has `0;` where `return 0;` is meant; `VentoyFatDiskRead`
  (line 1025) reports success whatever happened; after three failures of
  `DefineDosDevice` the letter is printed all the same (line 916).
  vtoydump uses the FAT library for reading only, so it meets none of the
  library's writing faults itself.

### Fairness

`LsExfat` and `VtoyLinux` (its action `Main`): weak fairness, because a single
thread runs on. Devices change as they like; nothing is assumed of `Plug`, whose
number `MaxPlugs` bounds (a scan could else be prolonged for ever by new
entries). `ExfatCluster`: weak fairness of `Step`, the running call; nobody has
to call, or to flush. `VtoyWindows`: weak fairness of `Main` (one thread),
of `ImdiskExits` (imdisk ends, and the code waits for it without a limit) and of
`AssignLetter` (Windows gives an attached disk a letter while one is free).
`Ends` leaves out what these cannot help: no letter is free, or a drive went away
after the first look and the image got its letter, so that the drives look as
before (`hidden`); the code then waits for ever. `ExfatDir` and `Fat` have no
fairness: a call is one step, and nobody has to call.

## 5. Proofs

TLAPS proves these for every value of the constants that the named assumptions
allow.

* `Induction_proofs` and `ExfatLayout_proofs`: the library's induction theorems
  take an operator, which the provers here cannot instantiate. `NatInduct` takes a set
  instead, and rests on the least element of a set of natural numbers;
  `IterationExists` shows that a recursive function on the natural numbers has the
  values that its definition says. `StepsKeep` is about loops: if every turn maps
  a world in which `Good` holds to worlds in which it holds, so does the loop.
  `Step` and `Good` are constants of the module, and each loop has an instance of it
  (`INSTANCE Induction_proofs WITH Step <- ..., Good <- ...`). With them `ChainLaw` gives the two equations
  of `ChainFrom`, and the others what a chain is behind an invalid cluster
  (`ChainStays`), elsewhere than where the table was written (`ChainElsewhere`),
  in a row, or from the middle on.
* `LsExfat_proofs`. From `ClusterCountAssumption` and `LsExfatAssumption`:
  `TypeCorrect` (types); `TableNeverOverrun` (`TableFits`) by induction with the
  types and the fact that a table that exists has room for one region or is
  doubled first; `TableTiles` (`RegionsTile`); `WalkInvariant`: the walk is on the
  chain and each sector walked is in a region or in the run, or a run was dropped.
  `TableIsExact` (`TableExact`) and `ErrorsAreHonest` (`ErrorIsHonest`) follow from
  it and from the end of the walk. Under `Premises` (`malloc` succeeds; a cluster
  is made of whole image sectors) `Refinement`: every initial state of `LsExfat` is
  one of `ImageMap`, every turn of the loop is a `MapCluster`, the last a
  `Finish`, an error a `Break`, `Begin` a stutter. The map of `ImageMap` is
  `BuiltMap`: what the table holds, and the pending run. The premises are
  needed: without them runs are lost or rounded, which the code does not report.
* `ExfatCluster_proofs`. From `ClusterCountAssumption` and
  `ExfatClusterAssumption`: `TypeCorrect`, together with `Control`, which says at
  which labels the locals are clusters; `CleanBitmap` (`CleanBitmapIsSaved`).
  `SafeAlways`: `Safe` is an invariant of `ExfatCluster` while
  reads and writes fail as they like, up to the three faults that `Unharmed`
  names. `NoCrossLink` speaks of the files between calls; to get from one call to the
  next it needs
  - `Length(f)`, how much of a file nobody else may touch at each label: its size,
    as far as it has grown, or what it will keep;
  - `Apart`, that all positions below it, of all files, are different clusters, in
    the bitmap and not the system's, and that only a chain in the table breaks off
    (contiguous ones are whole), with `END` or for want of a start;
  - `Place`, where the locals are along the chain: `previous` is its end,
    `next` nobody's, and a file that is being converted has as many entries in
    the table as the loop has written;
  - `Freeing`, that what hangs off the cut is in use, all different, and nobody's:
    else a failure in the middle of a free would give away a file's clusters;
  - `Cached`, that a cached position is right or is what a failed read left;
  - `Amounts`, the arithmetic of the locals, with `fptr_index` below what the file has
    grown to, without which undoing a growth may walk from behind the end.

  One lemma for each action and part. `NeverCrossLinked`, `GuardsAlwaysHold`,
  `ContentsAlwaysStay` and `GrownIsAlwaysZero` follow from `Safe` and, for the last two,
  from what a step does to chains (`Steady`).
  `WholeAlways`: as long as no read or write has failed, at every label every chain
  is whole (`Intact`), ends in `END` unless the call has still to write it (`Open`), and each cluster in use is a file's, the one
  that was allocated and is not linked yet, or one of those that were cut off and
  are not freed yet (`Used`). `NothingLeaks` is what this says between calls, with
  the cardinality of a chain by a bijection from its positions;
  `FptrAlwaysCoherent` and `NeverAborts` are parts of it. After a failure `Whole`
  does not hold, and the code leaks: that is what its errors mean.
* `ExfatDir_proofs`. From `ExfatDirAssumption`, for volumes of any size, any
  names and paths, every sequence of calls, and writes that fail, are done in part, or are
  the last before a crash: `RefsAlwaysBalanced` (`RefsBalanced`) and
  `AbortsAreExplained` (`AbortsOnlyFor`). A call goes through many worlds, and the account
  r is what it relies on in the world where it is: how many references each node should
  have, which nodes callers hold, how the volume is mounted, which directories have
  been read, and where a node is that is about to be removed. `Sound(r, w)` says
  that the call has been stopped for a reason that `Blame` names, or that the world
  is as r says; `Take(r, n)` is r after `exfat_get_node`, `Know(r, d)` after
  `exfat_cache_directory`, `Pin(r, n, d)` knows that n is in d. An operation that
  gives back what it took maps r to r on each of its ends (`SoundEraseNode`,
  `SoundRename`, ...); a lookup leaves one reference more (`Found`), `exfat_split` one
  or two (`Divided`, `Spare`), and whoever calls them must give them back
  (`SoundPutAfter`, `SoundUse`). The counts are what keeps an abort away:
  `exfat_put_node` finds the reference it gives back (`CountedPut`), `exfat_truncate` one
  on the node, or a node that has been removed (`SoundTruncate`), `find_slot` and
  `shrink_directory` a directory that the lookup before has read (`SoundFindSlot`,
  `SoundShrinkDirectory`), and `exfat_cleanup_node` a reference only if a caller has it
  (`Free`). `r.refs[d] # 0` is why the directory that is worked on is not freed in
  between. Nodes are dirty on a read-only volume only if it is repaired (`Moded`). The
  inductive invariant `Balanced` is what remains between calls: r is the root's own
  reference and what callers hold, the root has been read, no node is in itself,
  one that was removed is in no directory, and nothing is held
  without a mounted volume. New nodes keep it because they take places where
  no node was (`GoingNodes`, `GoingSettled`), nodes that are freed because
  they had no references (`GoingFreed`). Where two entries have named the same clusters
  nothing is claimed; `Lost(r)` is the account that says so. The lemmas assume nothing of
  what is in the directories, so they do not need the tree to match the volume.
* `VtoyLinux_proofs`. From `VtoyLinuxAssumption`: `TypeCorrect`; `FindInvariant`,
  with `FindInv` the inductive invariant. `FoundIsVentoyDisk`,
  `FoundIsUnambiguous` and `RefusalIsRight` speak of the end of the search; to be
  preserved they need what the scans know on the way: while no device changes,
  `count` and `diskname` tell which of the entries already read match
  (`SizeKnown`, `IdKnown`), or the directory could not be opened. One lemma per
  action that the scans consist of. The corollaries `PrintsVentoyDisk`,
  `NoTwoDisks` and `RefusesRightly` are the three properties.
  `TableIsTheImage` (`TableIsImage`) for any number of regions and any start that is taken for
  the partition's, from `TableInv`: where the location and the disk of the table come
  from, at each point before it is printed, and that nothing changes afterwards.
* `VtoyWindows_proofs`. From `WindowsAssumption`, with any number of moves of
  others: `TypeCorrect` (types); `DiskIsTheParamsAlways`, from `FoundInv`: disks have numbers of
  their own (`Plugged`), and as long as the disk and the letter have not changed hands the
  letter stands for a volume of the disk with the number that `QueryDrive` got (`QueryInv`),
  which is the disk that `ReadDisk` finds under this number (`DriveInv`), so that the file
  is on it (`FileInv`); each move of another either concerns neither, or is noticed
  (`MovesNoticed`);
  `ResultIsHonestAlways`, from `HonestInv`, which ties `attached` and `printed` to
  where the program is, since the result alone is no longer true of a state one
  step earlier; and `LetterIsTheImagesAlways`, from `LetterInv`: before the
  image is attached no letter is the image's, and while the program waits the
  drives other than the image are those of `Drives0` unless others moved any, so
  a letter that differs is the image's. `LeastExists` (the natural numbers are
  well-founded) gives the letters that `Min` and `Max` choose.

* `Fat_proofs`. From `FatTableAssumption` and `FatAssumption`, for any number of
  buffers, any sizes and names, every sequence of calls and every failing read or
  write: `BuffersCohere` (`BuffersAreCoherent`) and `LookingKeepsTheTable`
  (`TableIsKept`). A call is one step of `Spec` but many of the library, so the
  invariant is not about states but about the worlds that a call goes through:
  `Sound(r, w)`. It says that the records and lists have their shape; that a buffer
  that is not dirty holds the device's sector and is the only one of its sector
  (`Coherent`); and, if the call is one that only looks (`r.quiet`), that each
  sector of the table is found as it was before the call, and that the handle has no
  unwritten data that would have to be given a cluster (`Kept`). There is one lemma
  per operation, in the order in which they call each other, from `SoundLoad`,
  where a buffer is evicted, written back and filled, with a failure at each place, up
  to `SoundClose`, and each loop is an instance of `StepsKeep`. `SpecCalm` is the
  invariant `Sound(AnyCall, World)` between calls: nothing but the buffers is promised there.
  Both properties hold of a table whose chains are anything, so nothing is assumed
  of what the calls before have left.
  `HandlesKept` (`HandlesAreKept`) is about the two lists of handles, under any
  failures. The invariant `Ordered` says that they are each handle once (`Split`),
  that open handles have paths apart from each other (`Apart`), and that those which
  callers hold are open. `Split` is kept by taking the last of the free ones
  (`SplitTake`), and by removing a handle from one list and adding it to the other
  (`SplitGive`, from `ListRemoved`). What is not about handles keeps them:
  `Keeping(w)` is a `Sound` world whose lists and paths are those of `w`, and the lemmas
  about operations are used again with it. `Opens` is what opening or creating a
  file leaves of the lists, on success and where it is undone. That closing leaves no
  dirty buffer follows from `CleanPurge`, by induction over the turns of the purge:
  after turn k the first k buffers are clean, unless a write has failed.

Only model-checked: `Terminates`, `Exits`, `CallsEnd` and `Ends` (liveness, out of this
prover's reach); of `ExfatDir` `TreeMatchesVolume` and `CleanMeansWhole` (folds over
entries and trees); and of `Fat` `ChainsAreWhole`, `NamesAreFound` and
`FilesKeepTheirText`, which speak of what a fold over a chain or a directory
computes: that a removal leaves no handle behind is there too, since it needs that
the entry of a file that could be opened is found again. `ContiguousIfInARow`,
`StartFitsSize`, `TableForDmsetup`, `LabelStays` and `EraseEmpties` are false (findings 1 to 5).

## 6. Not modelled

`PROJECT.json` lists each part with its reason. Left out:

* messages and logging (`log.c`), device handles (`io.c` up to line 327);
* checks of the boot sectors (`mount.c:121-180`, `fat_access.c:60-160`): they look at
  a sector once and refuse it;
* pure conversions (`time.c`, `utf.c`, `utils.c`, `fat_string.c`, the letters of short
  names, dates): they have no state and are tested by their values;
* formatting of a FAT volume (`fat_format.c`), the cluster cache (`fat_cache.c`,
  switched off by `fat_opts.h:41`) and the wrappers of single characters and strings
  (`fl_fgetc` .. `fl_fputs`), none of which vtoydump calls;
* privileges on Windows beyond their effect on the source of the parameters, and
  platform headers.
