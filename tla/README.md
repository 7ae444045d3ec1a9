# lsvpd in TLA+

`lsvpd` collects the vital product data (VPD) of a POWER or x86 Linux machine.
`vpdupdate` walks sysfs and the device tree, asks the firmware and the devices,
makes one tree of components and stores it in an SQLite database,
`/var/lib/lsvpd/vpd.db`; `lsvpd`, `lscfg`, `lsmcode` and `lsvio` read it. This
directory holds TLA+ models of the parts whose behaviour is hard to test, the
TLC configurations that check them and proofs checked with TLAPS.

All paths are relative to the repository. libvpd (`VpdDbEnv`, `VpdRetriever`,
`Component`, `DataItem`), librtas and sg3_utils are outside it; what the models
assume of them is said where it is used, and marked external in the map.

## Inventory

| part | code | state | operations | how it interacts |
|---|---|---|---|---|
| updater | `src/internal/updater.cpp` | `vpd.db`, archives `vpd.db.<time>.gz`, `spyre.db`, lock files; `db`, `dblock`, `spyreDb`, `spyreDbLock`; signal handlers | an update, `--archive`, the signal handler | run by hand, by systemd at boot, from the package's scripts in the background (`vpdupdate &`): several may run at once, with readers |
| Gatherer | `src/internal/sys_interface/gatherer.cpp` | the vector of components, the tree | `getComponentTree`, `buildTree`, `fillTree` | calls each collector in turn on one vector |
| SysFSTreeCollector | `sysfstreecollector.cpp` | components found below `/sys/devices`, `pci.ids`/`usb.ids` tables | discovery, duplicates, filling of PCI, USB, network, Spyre components | first collector; reads `spyre.db` for Spyre adapters in use |
| DeviceTreeCollector | `devicetreecollector.cpp` | components found below `/proc/device-tree` | discovery, merging, location codes, VPD buffers | second; changes the list the first one made, and visits the finished tree once more (`postProcess`) |
| RtasCollector | `rtascollector.cpp` | the list of pages of one retrieval | `rtasGetVPD` | the firmware may change its VPD between two calls |
| SCSI/NVMe inquiry | `sysfs_SCSI_Fill.cpp` | templates of `scsi_templates.conf` | inquiry, template interpretation | called by SysFSTreeCollector |
| id tables | `devicelookup.cpp`, `manufacturer.cpp`, `device.cpp`, `subdevice.cpp` | three levels of maps | read the file, look a name up | used by SysFSTreeCollector |
| ICollector, ProcCollector, PlatformCollector, FSWalk | as named | none that lasts | look-ups and reads | helpers of the above |
| readers | `src/output/*.cpp` | the unpacked archive of `-z` | lock, load, print | shared lock on `vpd.db` |

What is hard in them:

* **failure**: every step of `archiveDB` may fail, and the old inventory must
  not be lost; a store may fail after others were done; a process may be
  killed anywhere and the next one starts on what it left;
* **signals**: the handler runs between any two steps of the program, touches
  the same pointers and removes `vpd.db`;
* **concurrency**: updaters, archivers and readers meet at two file locks,
  one of which is on a file that is itself unlinked;
* **a changing world**: devices come and go while the two walks run, the
  firmware's VPD changes while its pages are read;
* **two representations**: a device is in sysfs, in the device tree or in both,
  who is whose parent is kept in two fields, and the tree is built from one;
* **one field, many writers**: a location is set at eight places in three
  passes, each with a preference, from locations that other passes set.

What makes each part correct: no inventory is lost or published half, and a run
that returns 0 has published what it gathered and nothing else (updater); nobody
reads or writes while another writes, and everybody ends (locks); what is
returned is one version of the firmware's VPD and the buffers are freed (RTAS);
the two walks can always be merged, with each device in the tree once and below
the device it hangs on (trees); what firmware says of a place is kept, and the
rest is placed below what it hangs on (location codes); a field comes from the
record or the page it belongs to, and a damaged or refused one takes no other
with it (parsers and inquiries).

## Modules

| module | what it is | code |
|---|---|---|
| `InventoryStore` | abstract: what the updater promises of `vpd.db` | - |
| `VpdUpdate` | one `vpdupdate` after another, every step and failure | `updater.cpp` |
| `VpdUpdateProofs` | theorems about it | - |
| `UpdateLocks` | several updaters, archivers and readers at once | `updater.cpp`, `lsvpd.cpp` |
| `UpdateLocksProofs` | theorems about it | - |
| `VpdSnapshot` | abstract: one retrieval of the firmware's VPD | - |
| `RtasGetVpd`, `MCRtasGetVpd` | the page loop | `rtascollector.cpp` |
| `RtasGetVpdProofs` | theorems about it | - |
| `ComponentTree`, `MCComponentTree` | the two walks, their merging, the tree | `sysfstreecollector.cpp`, `devicetreecollector.cpp`, `gatherer.cpp` |
| `ComponentTreeProofs` | theorems about it | - |
| `LocationCode`, `MCLocationCode` | three passes that say where a component is | `devicetreecollector.cpp`, `sysfstreecollector.cpp`, `icollector.cpp`, `gatherer.cpp` |
| `VpdBuffer`, `MCVpdBuffer` | the parsers of binary VPD | `sysfstreecollector.cpp`, `devicetreecollector.cpp`, `icollector.cpp` |
| `VpdBufferProofs` | theorems about it | - |
| `ScsiTemplates` | how a template's patterns are matched | `sysfs_SCSI_Fill.cpp` |
| `ScsiInquiry`, `MCScsiInquiry` | one SCSI or NVMe device is asked | `sysfs_SCSI_Fill.cpp` |
| `ScsiInquiryProofs` | theorems about it | - |
| `PciIds`, `MCPciIds` | the tables of `pci.ids` and `usb.ids`, and the names of PCI and USB devices | `devicelookup.cpp`, `manufacturer.cpp`, `device.cpp`, `subdevice.cpp`, `sysfstreecollector.cpp` |
| `DeviceNamesProofs` | theorems about `LocationCode` and `PciIds`: where a device is and what it is called | - |
| `ArchiveReader` | readers of archives (`-z`) and an updater that prunes | `src/output/*.cpp`, `updater.cpp` |
| `ArchiveReaderProofs` | theorems about it | - |

### VpdUpdate

The state is the disk (`vpdDb` with the run that created it and a row for each
component, `archives`, `spyre`), the environment (which components are plugged
in, and how many hot-plugs are left), the process (`pc`, the command, the
pointers `db` and `dblock`, whether handlers are installed, how many signals
may still come) and the data of the run (keys to extract, archive name, buffer,
tree, what is still to be stored, return code). `archiveDB` is one action for
each system call after which a kill makes a difference: `LinkArchive`,
`UnlinkDb`, `ReadLink`, `GzOpen`, `GzWrite`; the deletion in `__lsvpdFini` is
three (delete, clear `dblock`, clear `db`), as the handler can come between
them. The handler is `SigUnlink`, `SigDelete`, `SigClear`.

`Faults` lists the classes of failures a run of TLC allows: a file system that
fills up, a store that fails, a VFIO group that fails, and so on; with the class
absent the failing alternative is disabled, with it present it may always
happen. Some failures the code does not notice: a `read` in `archiveDB` that
brings too little leaves zeros, which are compressed as an archive after the
link is gone (`ReadLink`; such an archiving counts as failed). `Kill` ends the
process at any step, `Throw` is an exception that reaches `terminate` (SIGABRT,
which is handled once handlers are installed), `Signal` is one of the five
handled signals. `history` variables (`before`, `failed`, `clean`,
`wholeBefore`) record what a run found and whether its archiving failed; no
action's guard depends on them.

`InventoryStore` is the abstract view: `vpd.db` is absent, torn or whole, and
changes only by being withdrawn, begun, completed or left torn. `VpdUpdate`
implements it under the mapping given at its end (`PublishedSpec`).

### UpdateLocks

Two lock files, `vpd.db-updatelock` and `spyre.db-updatelock`. The second is
unlinked at the end of a run, so that a lock is held on an inode, not on a
name: `OpenSpyreLock` remembers the inode, `TakeSpyreLock` waits for the lock
on it, `UnlinkLock` makes the next open create another. A `VpdDbEnv` is given
its lock by reference and the updater never deletes a lock, so locks go with
the process (`Gone`). That matters: were the lock given up with `db`, a signal
between `delete db` and `dblock = NULL` would remove a `vpd.db` the process no
longer holds (the mutant `FiniDeleteReleases`).

The shared lock of `extractSpyreData` is kept too, until the same process asks
for the exclusive one. Two runs that slipped past each other at the unlinked
lock file (`LocksSpyre`), which takes a third that unlinked it, both hold it
when there is a `vpd.db` and then wait for each other for ever
(`UpgradeDeadlock`). The run `Locks` reaches that state with three updaters, and
`AllRunsEnd` says that it is the only thing that keeps a program from its end.

`vpd` is the database as readers find it: which update wrote in it last, whether
that one's whole tree is there, and whether rows of earlier updates may be
(`mixed`). `Archive` is `archiveDB` as far as others can tell: it moves `vpd.db`
away or, when `link` fails, leaves it, and the new rows go over the old
(`CreateNew`, `StoreFirst`). A store may fail before or after the first
component was stored (`StoreFails`); the run then goes on to its end and gives
its lock up. The history variables `cut` (a store failed, or the updater was
killed before it was through) and `kept` (the last archiving failed) are in no
guard; `ReaderSeesOneInventory` excepts by them what the code does leave behind:
what a reader finds is torn only if `cut`, and of several updates only if
`kept`, and in no case does it change while it is read.

### RtasGetVpd

`Change` is the firmware, `Call` one RTAS call with the code's treatment of its
result: `Continue`, `Success`, `VpdChanged` (which restarts or gives up) and
`RtasError`. Memory may run out at each of the five allocations. `strdup`
returns, and the buffer is deleted (`Allocate`); a `new`, of the first buffer, the
next page's, a restart's or the result's, throws past the tests of its result,
nobody catches the exception, and the process ends with what was allocated
(`Throws`). A page is the pair of
the version it comes from and its number. `heap` counts buffers and `copies` the
location code, apart from `list`: `BuffersFreed` says that the two agree at every
step, that a return of any kind leaves neither, and so that a throw leaves
exactly what the list then holds. `VpdSnapshot` is the abstract
retrieval: it returns all pages of one version, or nothing.

### ComponentTree

A directory is in the forest `up`; `near` is the component its children will
belong to. `FindDevice` visits a directory of sysfs that may be a device, be
looked through, be filtered or be gone by now, and `FindNode` one of the device
tree; the pointer `of_node` of a device may name any node, also one that another
device names, that has vanished or never existed. `LinkDevices`,
`RemoveDuplicate`, `DetermineTree`, `MarkDead`, `MergeDead`, `MergeTop`,
`MergeInner` and `Attach` are the steps between the lists and the tree.
`mergeTrees` works from the leaves up (`NextNode`), which is all its recursion
order decides. Only the exceptions and the dereference of a parent that was not
found end it badly (`thrown`, `crashed`).

Ids are paths and are taken to be distinct; for the records the platform adds
(`/proc/device-tree/rtas/<location>`) this holds only where no two have the
same location code.

### LocationCode

A location is a sequence of parts: a code of the platform's form (it begins with
`U`), another code of the firmware, one that begins with a dash, a built
`H..-B..-T..-L..`, a slot, a name on the bus. `sys` is a system as the walks and
the merging left it: the line of components from the top of the tree to each,
the directories of its node's path, which have an XB keyword, codes of nodes and
of ports, and what inquiries may report. `Locate` is the loop at the end of
`getComponents` (`fillQuickVPD`, then `buildSCSILocCode` with `findSCSIParent`
and `fillLocCode`), `Fill` is `fillTree` with `fillComponent` of both
collectors, `PostProcess` is `postProcess` (`checkLocation`, `getBaseLoc`,
`parseMajorMinor`, the slot). Each takes one component, after the one above it;
`NextPass` comes when nothing is left to take. `Assigned` is
`DataItem::setValue`, which belongs to libvpd: a lower preference never replaces
a higher one, and of two that are alike either may stay.

What the code does with locations, and the properties therefore leave out:

* A built code begins with `H` (`devicetreecollector.cpp:1011`). The branch of
  `checkLocation` that puts the base in front of a code (comment at line 1569)
  asks for a dash, and so applies to relative codes of a VPD only, not to the
  built ones the comment names.
* Where `parseMajorMinor` finds a number that is not 0, `checkLocation` puts a
  code together and returns without setting it (lines 1590-1596). A disk of host
  0 gets its parent's location as it is, which all disks of that host share.
* The slot of an enclosure is set with preference 70, so it does not replace a
  location of a higher one, but `mSecondLocation` is overwritten all the same.
* `fillLocCode` counts ports as if the root hubs of a controller had equally
  many and were the first buses of the machine. `OwnPort` is about disks on
  controllers whose root hubs do have equally many (`Numbered`); of one whose
  buses are not the first it says that the wrong code is never found, not that
  the right one is. It leaves out disks of which something else says that they,
  or what they hang on, are at another port (`Unclaimed`), as a code of the
  firmware or an inquiry is taken at its word.

Left out: directory names shorter than the port's suffix, components without a
bus address, and the temporary string whose `basename` is read after it is gone
(line 808), of which the tail is intact in the builds looked at.

### VpdBuffer

A call (`input`) names the parser, the buffer and what was encoded in it. The
three headers (`PciHeader`, `RtasHeader`, `OpalHeader`) set where the records
begin and end, `ReadRecord` sets one field, `CorruptRecord` ends the parse and
`NoMoreRecords` ends a section: for `parseRtasVpd` that pushes a component and
goes on to the next section. A field is kept as the place of its bytes, so that
a property can say where they come from; `Shown` turns places into bytes.
`input` also carries the layout the buffer was made of (`sections`: the places
and the contents of its records), which no action reads: `Encoded` says that the
buffer is that layout, whole or damaged, and `ReadAsSent` compares it with what
is found. The
three bounds the parsers use differ and are `RunsOver`. A read beyond the
buffer may find any byte. `MCVpdBuffer` encodes lists of records the way PCI,
RTAS and OPAL lay them out (`Pci`, `Rtas`, `Opal`), independently of the
parsers, and damages some of them; that each is `Encoded` is `InputsEncoded`.

The first section header is skipped by the PCI parser; those of later sections
are read as records of length 0 and of a keyword nobody knows, which works
because the third byte of a header, the high byte of its length, is 0 for a
section below 256 bytes. The encodings keep to that.

### ScsiInquiry

A call names the device (which pages it lists, how long its answers are), the
lines of the template file and whether `--scsi` limits the inquiry. `Ask` and
`AskAgain` are the two inquiries of `doSGQuery`. The device may refuse either,
or answer any inquiry with its base data, its list of pages, or a VPD page
(`Wrong`). The code looks at answers to VPD inquiries only (`Insane`; "No sanity
checking for non-EVPD pages", `sysfs_SCSI_Fill.cpp:917`): what it takes for the
length of another kind of answer is `Claim`. `buf` records what the buffer was
asked for, what it was answered with and how many bytes of it there are, so that
a field, kept as a place, can be traced to the answer it was cut from. A
repeated inquiry asks for as much as the first answer claims, be it more than
the buffer of 4096 bytes; of an answer that is longer only what fits is
modelled. `NextPage` walks the template's pages, `InterpretPage` and `ReadField`
the fields of one. `ReadLog` and `NoLog` are the NVMe log page and the MI buffer
that replaces it.

The text of a template is a sequence of marks, codes, fields and semicolons;
page codes are the numbers `atoi` makes of them. Since `eof` of a page's last
field is written one place too far, `ReadLastCut` may lose that field or cut its
size, in its digits too (`CutSizes`: 12 read as 1). `ScsiTemplates` is
`matches()` on sequences of characters. It calls itself with what both strings
hold from the pattern's next star on, cut at the same place, so its calls are
told by that place (`Cuts`): it says yes when a call ends so (`Ended`) and the
part before each earlier cut was the same (`SamePart`). `Glob` is what its
comment says of the star, and the two agree on patterns that end in a star or
have none. One shipped line, `DGHS*U`, has the star inside: `matches()` takes it
for any model with a U behind `DGHS`, last or not. `Fits` says this of it: a
beginning of the name is what the pattern stands for.

### PciIds

`OpenIds` is the collector's constructor, which reads `pci.ids` and then
`usb.ids`; the directory of the first `pci.ids` found is used for both
(`idsPrefix`), so that a `usb.ids` elsewhere is not read. Three constructors
read one stream: `FillManus` is `DeviceLookup`'s loop,
`ReadManufacturer` and `ReadDevice` are the loops of `Manufacturer` and
`Device`, one action for each turn. `at` is the place in the file, a line and
the tabs of it that are read; what a reader looks at and does not want stays
for the one that called it. `Device` keeps the character it took in `next` and
does not look again behind a sub-device: it takes the next character whatever
it is and puts it back unless a tab follows, which is `SubFollows`. So a comment
between two sub-devices ends the device, and the sub-devices behind it become
devices of the vendor, named with their second id in front; a blank line takes
the device that follows for a sub-device, whose id is then whatever `strtol`
makes of the first word of its name. `Clean` says where comments and blank
lines must stand for that not to happen; the vendors are right wherever they
stand. The stream's end and failure are kept apart (`stream`), as the loops ask
for different ones.

Sub-devices are kept by their own id only, without the vendor of the subsystem
that stands before it: two cards of one device with the same subsystem id and
different subsystem vendors get the name of the first. `TablesAsListed` says
exactly that. A name is the line and the number of words taken from it, so that
a name can be traced. `IdsAssumption` is the syntax that the files state of
themselves (`IdFile`): devices stand under a vendor and sub-devices under a
device, with any comments and blank lines between them. Lines longer than 4096
characters, and a tab directly behind a comment's mark, are left out. The `C`
lines of the class list are read as vendors of the id `C`, 12, which no vendor
has.

### ArchiveReader

The file a reader unpacks into has the archive's name without `.gz` and stands
beside it; `name` is the inode of that name. `Open` neither truncates nor
excludes, so a reader writes over what another, or an earlier one that failed,
has put there; `Unpack` writes a block at the reader's own offset, or loses it,
as a `write` that fails ends only the inner loop; `Close` is the end of the
data, of which an error of `gzread` looks the same, and the check of `gzclose`.
`Retrieve`, `Load` and `Unlink` are the rest. The four programs differ in where
else they return, which leaves the file behind: `lscfg` for a device that is not
found, `lsvio` for a path that is not absolute and on a system without virtual
I/O. `Prune` is `removeOldArchiveDB`, whose pattern fits unpacked files too.
`joined` and `spoilt` record which readers were not alone and which data had an
error; no guard depends on them.

## What is checked

| run | shows | bounds |
|---|---|---|
| `UpdateRuns` | type invariant; the old inventory survives a run that archives without failing (`OldInventoryKept`); a run that returns 0 stored all of its tree (`SuccessIsComplete`) and nothing older (`SuccessIsFresh`); after a handled signal no half inventory is left (`NoPartialAfterAbort`); a busy Spyre adapter keeps its VPD (`RetainedWithinRun`); the database object is not used after it is deleted, nor deleted twice unless a signal came in between (`DeletedOnceUnlessSignalled`); the abstract store is implemented (`PublishedSpec`); every run ends (`RunEnds`) | two runs on an empty directory or on one with an old archive, two components one of which is a Spyre adapter, two signals, one hot-plug, every class of faults, kills |
| `UpdateArmed` | *violated*: `dblock` is set, and the handler will remove `vpd.db`, although archiving failed | as above |
| `Locks` | a reader sees one state of the database, torn or mixed only after a store or an archiving that failed or a kill (`ReaderSeesOneInventory`), only the holder of the exclusive lock writes (`OnlyTheHolderWrites`), all programs end unless two updaters wait for each other at the end of their extraction (`AllRunsEnd`) | three updaters, an archiver and a reader, each started once, so that one can unlink the lock two others slip past; signals, kills, links and stores that fail |
| `LocksSpyre` | *violated*: two runs have the same `spyre.db` | two updaters, each run twice |
| `RtasSnapshot` | one version is returned, or nothing (`SnapshotSpec`), every return has freed its buffers once (`BuffersFreed`), the loop ends when the firmware is quiet (`EndsWhenQuiet`) | versions of one, two and four pages, the threshold of the code, every failing answer, memory that runs out at any allocation |
| `MergeTrees` | the lists can always be built into a tree (`NeverCorrupted`), each device is in the tree once (`EachDeviceInTree`), below the device it was found below (`AncestryKept`) | every forest of three sysfs directories and three nodes, up to renaming |
| `MergeParents` | *violated*: `mParent` names a component outside the tree | two and two |
| `LocationCodes` | whatever is below a component with a code of the platform's form ends with one (`LocatedBelow`); the firmware's code of a component stays (`FirmwareCodeStays`); a disk in a slot is below the location its parent ends with (`SlotBelowParent`); in every pass a disk on USB has no other port's code, and its own where that was built (`OwnPort`) | 480 systems: an adapter, a host, two disks and a part without sysfs directory with every combination of codes, nodes and reports; a chain of five on USB with two controllers of two root hubs with two ports each, and the same with a host that only an XB keyword shows as SCSI |
| `VpdRecords` | the parsers give back exactly the records encoded, or those before the damage, and text as the whole value (`ReadAsSent`); no field comes from outside its section (`FieldsInsideSection`) | bytes of nine values, up to two records and two sections, six kinds of values and a record that makes its section need the high byte of its length; every cut, a wrong length of the last record, a wrong type |
| `ScsiInquiry` | a field comes from the answer to the inquiry for its page or from zeros, and where pages are asked for as VPD pages from that VPD page (`FieldsFromOwnPage`); each page the device has is interpreted and each field set from its place (`FieldsAsTemplated`), by the first line that fits (`FirstLineThatFits`); collecting ends (`CollectionEnds`) | answers shorter than the header, than the buffer, and longer; four lists of pages, one of them empty and one unordered; three templates and all patterns of up to three letters with a star behind them, in front of the last or nowhere; every inquiry refused or answered with something else; a page longer than the buffer |
| `PciIds` | the vendors are those listed, wherever comments stand, and in a clean file the devices and sub-devices are (`TablesAsListed`); a card and a USB device get names of their own (`NamedAsListed`) | every file of up to five lines that begins with a vendor, with two vendors, two device ids one of which is the id for unknown ones, three sub-devices, comments of every indentation, blank lines; two directories with either file in any of them |
| `ArchiveReaders` | nothing but a beginning of the archive is loaded (`OnlyFromArchive`), the whole of it by a reader that was alone (`WholeWhenAlone`), whatever was left behind but an inode in which a write was lost | two readers started any number of times, an archive of two blocks, every failing step, kills, pruning |

The bounds are the smallest in which every interesting case happens. Two runs in
sequence are enough for every state one run can leave to be met by another, and
runs carry nothing over but the disk, which two runs and an older archive fill
in every way. Two components show a tree stored in part; more stores are more of
the same step. Two signals are needed for the second to interrupt the handler of
the first. At the spyre lock one updater ends, one waits and one comes:
`LocksSpyre` has two that run twice, `Locks` three, so that two may meet at the
shared lock. A reader's two reads stand for any number, and readers do not
change what others find; more of them are in the theorems. Three nodes give a
chain with a merged node at its top, in its middle, at its end, and two merged
siblings. Five lines hold a vendor listed twice with the same device and a
sub-device, and a comment or blank line between two sub-devices. A host between
adapter and disk, and a part without one, give every way a location can be
inherited, and a second disk one that is shared. Two blocks can be half
unpacked, and a third inode is only needed while two readers hold an unlinked
one each.

Fairness: `WF_vars(Program)` in `VpdUpdate`, as the program is one thread that
the scheduler runs again and again, and none of its calls but the locks waits;
weak fairness of each process's own steps in `UpdateLocks`: no lock request is
assumed to win against others that come again and again (programs are started a
bounded number of times); weak fairness of `Call` in `RtasGetVpd`; weak fairness
of `Next` in `ScsiInquiry`, one thread whose inquiries the driver answers or
times out. The others state safety only. Signals, kills, hot-plugs, starts and
the firmware's changes have no fairness. Deadlock checking is off only where
every program may have ended.

## What the violated runs say

* `UpdateArmed`: the comment at `updater.cpp:525` says the database "is now
  archived"; when `link` fails it is not, and a signal then deletes the only
  copy.
* `LocksSpyre`: the ChangeLog's "Resolve critical race conditions" does not
  cover the lock file that is unlinked while others wait on it.
* `MergeParents`: `gatherer.hpp:88` promises "all of the appropriate parentage
  information updated"; the children of a merged node keep naming it, and the
  readers print that as "Parent ID".

Other limits met while modelling are left as they are. The comment at
`rtascollector.cpp:182` promises not to loop for ever, but CONTINUE resets the
count, so a firmware that changes after each first page keeps the loop going:
`EndsWhenQuiet` therefore asks it to be quiet in the end. `parseOpalVPDHeader`
swaps the two bytes of the length on a little-endian host
(`devicetreecollector.cpp:403`); mostly the size then is too large and the end
tag hides it, so `VpdRecords` reads OPAL buffers as a big-endian host does.
After an archiving that failed the new components are stored over the old ones
(`SuccessIsFresh` excludes it), and the Spyre VPD of an adapter in use is lost
when the run before was aborted (`RetainedWithinRun` speaks of one run). A
signal between `delete db` and `db = NULL` makes the handler delete the object
again (`DeletedOnceUnlessSignalled` says that this is the only way).
`collectVpd` decides that page 0 is the base inquiry and overwrites the decision
(`sysfs_SCSI_Fill.cpp:1578-1585`): unless `--scsi` is given, the fields of page
0, laid out for the base inquiry (the comment at line 703), are read from the
list of supported pages, where they find zeros. With `--scsi` every page is
asked for as a base inquiry, whose answer nobody looks at: a device that does
not heed the page code has its base data read as the fields of every page.
`FieldsFromOwnPage` says what an answer is for VPD inquiries only, and of the
others just which inquiry it answers. Of two readers that unpack one archive at
the same time, one may load a beginning of it, or find nothing, as the other
removes the file; a `gzread` that fails may go unnoticed (`WholeWhenAlone`
excludes both).

## What is proved

TLAPS checks the theorems for every set of components, of faults and every
bound.

`VpdUpdateProofs`: `TypeCorrect`, `OldInventorySurvives`,
`SuccessMeansComplete`, `AbortLeavesNoPartial`, `SuccessMeansFresh`,
`DatabaseDeletedOnce`, `BusyAdaptersKeepVpd` and `ImplementsStore`. Each has its
own inductive invariant over `pc`: where the process stands says which files
must exist. For the old inventory it says, at each step between `LinkArchive`
and `GzWrite`, in which of the two names or the buffer the inventory is, and
that `dblock` is set only after it reached the archive or archiving failed; the
property alone is not inductive, since it speaks of the moment the run is over.
For completeness the invariant ties the rows of `vpd.db` to the components no
longer in `todo`, for freshness it adds that the rows that are not from this run
are empty. What the old database held of a Spyre adapter is followed from the
keys to `spyre.db` and from there into the tree (`RetainInv`). The refinement
maps each action to a step of `InventoryStore` or to a stutter, and uses the
invariants of completeness and abort. `NextCases` splits `Next` once; each proof
has one step for each group of actions.

`RtasGetVpdProofs`: `RtasTypeCorrect`, `ReturnsOneVersion`, `FreesItsBuffers`
and `ImplementsSnapshot`, from the invariant that the pages in the list are the
first `seq - 1` pages of the version being read, and that the firmware gives a
page only out of that version. `FreesItsBuffers` is inductive with where the
loop stands, and covers every allocation that fails: only strdup's returns, the
other four throw.

`VpdBufferProofs`: `TypeCorrect` and `FieldsStayInside`, for every buffer and
every base. The invariant adds that a header finds no fields (so that moving
`base` and `end` cannot leave one outside) and that only RTAS buffers have a
second section. What a read beyond the buffer finds is arbitrary, so these hold
however a buffer was damaged. `ReadsWhatWasSent` is about buffers that hold a
layout (`Encoded`), of any number of sections and records: the invariant
`SentInv` says that the parser stands at the beginning of a section or of a
record of the layout, or behind the last, and has found exactly what comes
before. That the text of a value is the whole value uses that no byte 0 is
printable (`LookedAt`, `TextReaches`).

`UpdateLocksProofs`: `LocksTypeCorrect`, `HolderWrites` and
`ReadersSeeOneInventory`, for any number of updaters, archivers and readers and
any number of runs of each. The lock's own state says nothing of why a process
may write, so `LockInv` ties it to places: whoever is where `vpd.db` is written,
or in a handler with `dblock` set, has the exclusive lock (`WriterPlaces`),
whoever reads has a shared one (`ReaderPlaces`), and an exclusive lock is alone
(`Alone`). `DataInv` adds that a database that is not complete is being written by
an updater whose handler would remove it (`BeingWritten`, `Armed`), or was left
so by a store that failed or a kill (`cut`), that what new rows are stored over
is nothing, or is there because archiving failed (`OldRows`), and that what a
reader saw is what is there while it reads (`OneRead`). The theorems hold in
the presence of all four kinds of faults; of the upgrade deadlock they say
nothing, as it breaks no safety property.

`ComponentTreeProofs`: `TypeCorrect`, `ListsNeverCorrupted`, `EveryDeviceOnce`
and `AncestryOfAll`, for any two forests. None of the three properties is
inductive: they speak of the end. The invariant says, for each phase, what `near`
is while the walk has come so far (`NearInv`, `Unwalked`), which devices are
listed and why one is not (`DeviceInv`, `DuplicatesInv`), that the nodes done
with are closed downwards and which of them moved to the vector (`MovedInv`),
what each list of children holds (`KidsInv`) and that the tree agrees with
`StandsAbove` (`TreeInv`). That a listed component without a parent in the tree
cannot be left is the absence of a set that hangs below itself; it follows from
the directories being a forest (`NearestWellFounded`), and takes the place of an
induction over depth.

`DeviceNamesProofs`, for `LocationCode`: `TypeCorrect`, `FirmwareCodeSurvives`,
`SlotsBelowParents`, `EverythingLocated` and `PortsAreOwn`, for any systems.
`FirmInv` says that from `Locate` on a component the firmware places has its
code with preference 90 and that nothing set later is preferred; `PostInv` says
of the components `postProcess` has visited what the properties say of all in
the end, and that those above a visited one are visited, so that their locations
no longer change. That there is a nearest component above with a code is
`Greatest`, from the well-foundedness of the naturals. `PortsAreOwn` is for any
number of controllers, root hubs and ports: that the number `fillLocCode` comes
to is that of no other port is the uniqueness of quotient and rest (`OneRest`,
`ListedPort`), for which the port has to be within those of a root hub. The
property is not inductive for the disk alone, since what is built takes the
location of the component above and `checkLocation` that of any above; `OwnInv`
says of the whole line a disk hangs on that nothing in it has another port's
code, and `BehindOther` and `TwoParts` that nothing made of two parts is one.

`DeviceNamesProofs`, for `PciIds`: `IdsTypeCorrect`, `TablesHoldTheLists` and
`CardsAndDevicesNamed`, for files of any length in any directories. The
invariant says of each reader, at line `c` of its file, what was made of the
lines before `c` (`ManusMade`, `DevicesMade`, `SubsMade`) and which entry can
come next (`FirstIs`): a vendor where `DeviceLookup` looks, a vendor or a device
where `Manufacturer` does. `Device` is not inductive by itself, as it trusts
what it keeps in `next`: a tab there is still in front of it, or the line before
is a sub-device's (`DeviceOf`). In a file that is not clean this fails, and no
more is claimed than that the vendors are right. Two facts about files carry
the levels up: once a vendor or a device follows, all sub-devices that come
stand under a later device (`DeviceBefore`, `SubsDone`), and once a vendor
follows, all devices stand under a later vendor (`DevicesDone`), so that what
is put into the table above is complete. `FilesInv` ties the tables to the files
that were read to their end, which is how `usb.ids` is independent of `pci.ids`.
That a card's model stands behind its device in the file (`SubBehindDevice`)
gives that no card is described by its own model.

`ScsiInquiryProofs`: `FieldsOwned`, with no assumption on devices, templates or
answers, which may be anything to any inquiry. What it says of VPD pages rests
on the code's own check (`Insane`), and on that base data do not pass it; of
base inquiries, which are not checked, it claims no more than which one was
answered. `QueryInv` ties the inquiry under way to the page being collected,
`BufInv` says that when fields are cut the buffer is empty or answers that
inquiry, `FieldsInv` carries it to what was cut before. `TypeCorrect` and
`FieldsAsTheTemplateSays` assume of templates what the shipped files hold
(`CallsAssumption`: a code behind each mark, and no field that begins before its
page, though sizes may be negative). For the types the invariant says where in
the template the interpreter is (`TInv`, `PageInv`, `FormatInv`); for the
fields, `RInv` follows which pages were interpreted (`TakenInv`, `PagesInv`) and
that each field of theirs was set from its place, and no other (`SetInv`).
`FirstLineIsTaken` is about files whose patterns have one star at most
(`StarredCalls`: every shipped line). Its core is `MatchesFits`, for every such
pattern and every name. With a last star, or none, `matches()` does what its
comment says of a star (`MatchesAsPromised`): both mean that the name begins as
the pattern does, or is the pattern. With a star inside it takes the names of
which a beginning fits (`MatchesInside`, `FitsInside`): what is before the star
is at the front, what follows it anywhere behind. `CInv` says that the line
chosen is kept.

`ArchiveReaderProofs`: `TypeCorrect`, `LoadsFromArchive` and `AloneLoadsAll`,
for any number of readers and an archive of any size. `Content` says that an
inode no write was lost in holds a beginning of the archive whoever wrote it,
since every reader's offset is the number of blocks it took out; `Lonely` says
of a reader that met nobody that the name, if it is still there, is its own
inode and, from `Retrieve` on, whole. `NewInodeIsFree` counts inodes and readers
to show that there is one nobody has.

The theorems assume what the modules state under `ASSUME` (finite or disjoint
sets, natural bounds, systems whose lines of components fit together, templates
and id files of their syntax), and TLC evaluates each assumption on the
instance of a run. Where a theorem compares an input of any length with what is
made of it, the place of an induction is taken by the least place where it would
fail (`Minimum`, `FirstOf`), from the well-foundedness of the naturals. Only
model-checked is liveness under fairness (`RunEnds`, `AllRunsEnd`,
`EndsWhenQuiet`, `CollectionEnds`), which is out of the prover's reach: each
invariant and each action property a run checks has a theorem.

## What is not modelled

The text of fields (descriptions, FRU names, VPD keywords), the
printing of the readers, logging, option parsing, and the helpers without state.
`PROJECT.json` lists each part with the reason. SQLite's own atomicity is
assumed per stored component; a power failure (as opposed to a kill) is not
modelled, as the code does not sync.

## Plan

1. The VFIO groups of Spyre adapters step by step; `fillIPRData` and the
   descriptions made from page 199 in `ScsiInquiry`.
2. Fields of PCI, network and firmware components that are filled from several
   files of one sysfs directory.
