------------------------------- MODULE PciIds -------------------------------
(***************************************************************************)
(* The tables made of pci.ids and usb.ids.  DeviceLookup, Manufacturer,    *)
(* Device and SubDevice read one stream; each looks at the next character  *)
(* and leaves the line it does not want to the one that called it.  A file *)
(* is a sequence of lines, a name is the line it stands in and the number  *)
(* of words taken from the line before it.                                 *)
(***************************************************************************)
EXTENDS Integers, Sequences, FiniteSets

CONSTANTS
  Setups,     \* what is installed: the lines of both files and where the files are
  Ids,
  UnknownId,
  Dirs        \* the directories that are searched, in order

\* A line: its tabs, what comes first after them, and the ids it begins with.
Vendor(v) == [tabs |-> 0, head |-> "text", ids |-> <<v>>]
Dev(d) == [tabs |-> 1, head |-> "text", ids |-> <<d>>]
Sub(v, s) == [tabs |-> 2, head |-> "text", ids |-> <<v, s>>]
Comment(t) == [tabs |-> t, head |-> "#", ids |-> <<>>]
Blank == [tabs |-> 0, head |-> "newline", ids |-> <<>>]

FileLine ==
  {Vendor(v) : v \in Ids} \cup {Dev(d) : d \in Ids} \cup {Sub(p[1], p[2]) : p \in Ids \X Ids}
    \cup {Comment(t) : t \in 0 .. 2} \cup {Blank}

Entries(f, tabs) == {l \in DOMAIN f : f[l].tabs = tabs /\ f[l].head = "text"}

\* No entry in the lines from a on and before b.
NoEntry(f, a, b) == \A l \in a .. b - 1 : f[l].head # "text"

\* What the syntax the files state of themselves makes of one: devices stand
\* under a vendor, sub-devices under a device, with anything between them.
IdFile(f) ==
  /\ f \in Seq(FileLine)
  /\ \A l \in DOMAIN f : f[l].tabs > 0 => ~NoEntry(f, 1, l)
  /\ \A l \in Entries(f, 2) : \E k \in Entries(f, 1) \cup Entries(f, 2) : k < l /\ NoEntry(f, k + 1, l)

ASSUME IdsAssumption ==
  /\ UnknownId \in Ids /\ 0 \notin Ids /\ Ids \subseteq Nat
  /\ \A s \in Setups : IdFile(s.pci) /\ IdFile(s.usb)

Unknown == <<"Unknown">>
Empty == <<"">>

VARIABLES
  setup,
  which,   \* the file being read, "pci" or "usb"
  tables,  \* mPciTable and mUsbTable
  file,    \* its lines
  at,      \* the place in it: a line and how many of its tabs are read
  stream,  \* "good", "eof" (its end was seen) or "fail"
  level,   \* who is reading: "open", "manus", "manu", "device", and "done"
  next,    \* Device's next
  manu,    \* the Manufacturer in the making, without its devices
  dev,     \* the Device in the making
  devices, \* its Manufacturer's mDevices
  manus    \* mManus

both == <<setup, which, tables>>
idsVars == <<both, file, at, stream, level, next, manu, dev, devices, manus>>

Place(l, t) == [line |-> l, tabs |-> t]
Eof(p) == p.line > Len(file)
Peek(p) == IF Eof(p) THEN "eof" ELSE IF p.tabs < file[p.line].tabs THEN "tab" ELSE file[p.line].head
NextLine(p) == Place(p.line + 1, 0)
AfterTab(p) == Place(p.line, p.tabs + 1)

\* Where the first word from p on begins: tabs and ends of lines are skipped.
WordAt(p) ==
  LET lines == {l \in p.line .. Len(file) : file[l].head # "newline"}
  IN Place(IF lines = {} THEN Len(file) + 1 ELSE CHOOSE l \in lines : \A k \in lines : l <= k, 0)

\* What strtol may make of the k-th word there: of a word of a name or a
\* comment anything, of a comment's mark 0, and 0 when there is none.
Id(p, k) ==
  IF Eof(p) THEN {0}
  ELSE IF k <= Len(file[p.line].ids) THEN {file[p.line].ids[k]}
  ELSE IF file[p.line].head = "#" /\ k = 1 THEN {0} ELSE Ids \cup {0}

Name(p, k) == IF Eof(p) THEN Empty ELSE <<p.line, k>>

\* The place behind the comments a constructor skips before its first word.
BehindComments(p) ==
  LET lines == {l \in p.line + 1 .. Len(file) + 1 : l > Len(file) \/ Peek(Place(l, 0)) # "#"}
  IN IF Peek(p) = "#" THEN Place(CHOOSE l \in lines : \A k \in lines : l <= k, 0) ELSE p

\* map::insert: what is there stays.
Insert(map, id, x) == IF id \in DOMAIN map THEN map ELSE [i \in DOMAIN map \cup {id} |-> IF i = id THEN x ELSE map[i]]

NoMap == [i \in {} |-> Empty]
NoTable == [made |-> FALSE, manus |-> NoMap]

IdsInit ==
  /\ setup \in Setups /\ which = "pci" /\ file = <<>>
  /\ tables = [t \in {"pci", "usb"} |-> NoTable]
  /\ at = Place(1, 0) /\ stream = "good" /\ level = "open" /\ next = "eof"
  /\ manu = [id |-> UnknownId, name |-> Unknown]
  /\ dev = [id |-> UnknownId, name |-> Unknown, subs |-> NoMap]
  /\ devices = NoMap /\ manus = NoMap

-----------------------------------------------------------------------------
(* SysFSTreeCollector's constructor, DeviceLookup::fillManus, Manufacturer. *)

\* The first directory with pci.ids is the one both files are read from; 0
\* stands for none.
idsPrefix ==
  LET found == {k \in DOMAIN Dirs : <<Dirs[k], "pci">> \in setup.present}
  IN IF found = {} THEN 0 ELSE CHOOSE k \in found : \A j \in found : k <= j

Readable(t) == idsPrefix # 0 /\ <<Dirs[idsPrefix], t>> \in setup.present

\* The constructor goes on with the other file, or is done.
Proceed == IF which = "pci" THEN which' = "usb" /\ level' = "open" ELSE level' = "done" /\ UNCHANGED which

\* Opening a file clears the stream.
OpenIds ==
  /\ level = "open"
  /\ \/ /\ Readable(which)
        /\ file' = setup[which] /\ at' = Place(1, 0) /\ stream' = "good" /\ manus' = NoMap
        /\ level' = "manus" /\ UNCHANGED <<both, next, manu, dev, devices>>
     \/ ~Readable(which) /\ Proceed /\ UNCHANGED <<setup, tables, file, at, stream, next, manu, dev, devices, manus>>

\* The stream after a look at p: at its end it says so, and then fails.
Looked(p) == IF ~Eof(p) THEN stream ELSE IF stream = "good" THEN "eof" ELSE "fail"

SkipLine == at' = NextLine(at) /\ UNCHANGED <<both, file, stream, level, next, manu, dev, devices, manus>>

\* Manufacturer's constructor, up to its loop.
StartManufacturer ==
  LET p == WordAt(at)
  IN /\ \E i \in Id(p, 1) : manu' = [id |-> i, name |-> Name(p, 1)]
     /\ at' = NextLine(p) /\ stream' = IF Eof(p) THEN "fail" ELSE stream
     /\ devices' = NoMap /\ level' = "manu" /\ UNCHANGED <<both, file, next, dev, manus>>

FillManus ==
  /\ level = "manus"
  /\ \/ stream = "good" /\ Peek(at) \in {"#", "newline"} /\ SkipLine
     \/ stream = "good" /\ Peek(at) \notin {"#", "newline"} /\ StartManufacturer
     \/ /\ stream # "good" /\ Proceed
        /\ tables' = [tables EXCEPT ![which] = [made |-> TRUE, manus |-> manus]]
        /\ UNCHANGED <<setup, file, at, stream, next, manu, dev, devices, manus>>

\* The line is another's, or there is none; fillManus puts the Manufacturer in
\* its table.
EndManufacturer ==
  /\ manus' = Insert(manus, manu.id, [name |-> manu.name, devices |-> devices])
  /\ level' = "manus" /\ stream' = Looked(at) /\ UNCHANGED <<both, file, at, next, manu, dev, devices>>

\* Device's constructor, up to its loop.
StartDevice ==
  LET p == WordAt(BehindComments(AfterTab(at)))
  IN /\ \E i \in Id(p, 1) : dev' = [id |-> i, name |-> Name(p, 1), subs |-> NoMap]
     /\ at' = NextLine(p) /\ stream' = IF Eof(p) THEN "fail" ELSE Looked(NextLine(p))
     /\ next' = Peek(NextLine(p)) /\ level' = "device" /\ UNCHANGED <<both, file, manu, devices, manus>>

ReadManufacturer ==
  /\ level = "manu"
  /\ \/ stream # "fail" /\ Peek(at) \in {"#", "newline"} /\ SkipLine
     \/ stream # "fail" /\ Peek(at) = "tab" /\ StartDevice
     \/ (stream = "fail" \/ Peek(at) \in {"text", "eof"}) /\ EndManufacturer

-----------------------------------------------------------------------------
(* Device and SubDevice.                                                   *)

\* Mutant: a Device without an id of its own is taken, too.
EndDeviceTakesAll ==
  /\ devices' = Insert(devices, dev.id, [name |-> dev.name, subs |-> dev.subs])
  /\ level' = "manu" /\ UNCHANGED <<both, file, at, next, manu, dev, manus>>

\* Manufacturer takes the Device, unless it has none of its own id.
EndDevice ==
  /\ devices' = IF dev.id = UnknownId THEN devices ELSE Insert(devices, dev.id, [name |-> dev.name, subs |-> dev.subs])
  /\ level' = "manu" /\ UNCHANGED <<both, file, at, next, manu, dev, manus>>

\* The place behind the one character Device takes from the stream, when that
\* character can be followed by a tab.
Taken == IF Peek(at) = "tab" THEN AfterTab(at) ELSE NextLine(at)
SubFollows == Peek(at) \in {"tab", "newline"} /\ Peek(Taken) = "tab"

\* SubDevice's constructor; its id is not set when the stream fails before.
\* next stays what was taken.
ReadSubDevice ==
  LET p == WordAt(BehindComments(AfterTab(Taken)))
  IN /\ \E s \in IF Eof(p) THEN Ids \cup {0} ELSE Id(p, 2) : dev' = [dev EXCEPT !.subs = Insert(@, s, Name(p, 2))]
     /\ at' = NextLine(p) /\ stream' = IF Eof(p) THEN "fail" ELSE stream
     /\ next' = "tab" /\ UNCHANGED <<both, file, level, manu, devices, manus>>

\* Mutant: a comment is skipped without another look at what follows.
SkipCommentStays ==
  /\ at' = NextLine(at) /\ stream' = Looked(NextLine(at))
  /\ UNCHANGED <<both, file, level, next, manu, dev, devices, manus>>

SkipComment ==
  /\ at' = NextLine(at) /\ next' = Peek(NextLine(at)) /\ stream' = Looked(NextLine(at))
  /\ UNCHANGED <<both, file, level, manu, dev, devices, manus>>

\* What is not a second tab is put back; next may be a tab that was read long ago.
ReadDevice ==
  /\ level = "device"
  /\ \/ stream # "fail" /\ next = "tab" /\ SubFollows /\ ReadSubDevice
     \/ stream # "fail" /\ next = "tab" /\ ~SubFollows /\ EndDevice /\ stream' = IF Eof(at) THEN "fail" ELSE stream
     \/ stream # "fail" /\ next = "#" /\ SkipComment
     \/ (stream = "fail" \/ next \in {"newline", "text", "eof"}) /\ EndDevice /\ UNCHANGED stream

IdsNext == OpenIds \/ FillManus \/ ReadManufacturer \/ ReadDevice

\* One thread reads the file when a collector is made.
IdsSpec == IdsInit /\ [][IdsNext]_idsVars

-----------------------------------------------------------------------------
(* Lookups in the finished tables.                                         *)

getManufacturer(t, man) ==
  LET all == tables[t].manus
  IN IF man = UnknownId \/ man \notin DOMAIN all THEN [id |-> UnknownId, name |-> Unknown, devices |-> NoMap]
     ELSE [id |-> man, name |-> all[man].name, devices |-> all[man].devices]

getDevice(m, d) ==
  IF m.id = UnknownId \/ d \notin DOMAIN m.devices THEN [name |-> Unknown, subs |-> NoMap] ELSE m.devices[d]

getSubDevice(d, s) == IF s = UnknownId \/ s \notin DOMAIN d.subs THEN Unknown ELSE d.subs[s]

ManuName(t, man) == getManufacturer(t, man).name
DevName(t, man, d) == getDevice(getManufacturer(t, man), d).name
SubName(t, man, d, s) == getSubDevice(getDevice(getManufacturer(t, man), d), s)

NoNames == [manufacturer |-> Empty, model |-> Empty, description |-> Empty]

\* Mutant: the sub-device is asked for with the vendor of the subsystem.
fillPCIDevBySubVendor(man, d, subMan, s) ==
  [manufacturer |-> ManuName("pci", man), model |-> SubName("pci", subMan, d, s), description |-> Empty]

\* What SysFSTreeCollector::fillPCIDev sets of a card with these four ids;
\* Empty stands for what it does not set.
fillPCIDev(man, d, subMan, s) ==
  LET maker == IF ManuName("pci", subMan) = Unknown THEN man ELSE subMan
      card == SubName("pci", man, d, s)
  IN IF ~tables["pci"].made THEN NoNames
     ELSE [manufacturer |-> IF maker = UnknownId THEN Empty ELSE ManuName("pci", maker),
           model |-> IF card # Unknown THEN card ELSE IF man = UnknownId THEN Empty ELSE DevName("pci", man, d),
           description |-> IF card # Unknown THEN DevName("pci", man, d) ELSE Empty]

\* What fillUSBDev takes from the table.
fillUSBDev(man, d) ==
  IF ~tables["usb"].made THEN NoNames
  ELSE [NoNames EXCEPT !.manufacturer = IF man = UnknownId THEN Empty ELSE ManuName("usb", man),
                       !.model = IF d = UnknownId THEN Empty ELSE DevName("usb", man, d)]

-----------------------------------------------------------------------------
(* What the file lists.                                                    *)

First(S) == CHOOSE l \in S : \A k \in S : l <= k

\* The entry of the level above that an entry stands under.
Under(f, l, tabs) == CHOOSE k \in Entries(f, tabs) : k < l /\ \A j \in Entries(f, tabs) : j < l => j <= k

VendorLines(f, v) == {l \in Entries(f, 0) : f[l].ids[1] = v}
DeviceLines(f, v, d) ==
  {l \in Entries(f, 1) :
     VendorLines(f, v) # {} /\ Under(f, l, 0) = First(VendorLines(f, v)) /\ f[l].ids[1] = d}
SubLines(f, v, d, s) ==
  {l \in Entries(f, 2) :
     DeviceLines(f, v, d) # {} /\ Under(f, l, 1) = First(DeviceLines(f, v, d)) /\ f[l].ids[2] = s}

Listed(S, words) == IF S = {} THEN Unknown ELSE <<First(S), words>>

Unindented(f) == \A l \in DOMAIN f : f[l].head = "#" => f[l].tabs = 0

\* The entry of k follows that of j, with comments or blank lines between them.
Follows(f, k, j) == j < k - 1 /\ NoEntry(f, j + 1, k)

\* Blank lines stand before vendors only, and no comment between sub-devices.
Clean(f) ==
  /\ Unindented(f)
  /\ \A j, k \in UNION {Entries(f, t) : t \in 0 .. 2} : Follows(f, k, j) /\ f[k].tabs > 0 =>
       /\ \A l \in j + 1 .. k - 1 : f[l].head = "#"
       /\ f[j].tabs < 2 \/ f[k].tabs < 2

Known == Ids \ {UnknownId}
Done == level = "done"

-----------------------------------------------------------------------------
(* Properties.                                                             *)

IdsTypeOK ==
  /\ at.line \in 1 .. Len(file) + 2 /\ at.tabs = 0 /\ which \in DOMAIN tables
  /\ stream \in {"good", "eof", "fail"} /\ level \in {"open", "manus", "manu", "device", "done"}
  /\ next \in {"tab", "#", "newline", "text", "eof"}
  /\ DOMAIN manus \subseteq Ids \cup {0} /\ DOMAIN devices \subseteq Known \cup {0}
  /\ DOMAIN dev.subs \subseteq Ids \cup {0} /\ manu.id \in Ids \cup {0} /\ dev.id \in Ids \cup {0}

\* Wherever comments and blank lines stand, as long as they are not indented,
\* every vendor has the name the file lists first for it, and no other.  In a
\* clean file the devices of a vendor are those listed under it, each with its
\* first name, and so are the sub-devices of a device, whatever vendor they are
\* listed for.  usb.ids is no worse for what pci.ids holds, read before it.
TablesAsListed ==
  Done => \A t \in {u \in DOMAIN tables : Readable(u)} :
    LET f == setup[t]
    IN Unindented(f) => \A v \in Known :
         /\ ManuName(t, v) = Listed(VendorLines(f, v), 1)
         /\ Clean(f) => \A d \in Known :
              /\ DevName(t, v, d) = Listed(DeviceLines(f, v, d), 1)
              /\ \A k \in Known : SubName(t, v, d, k) = Listed(SubLines(f, v, d, k), 2)

\* A card gets names of its own: its model is listed under its vendor and its
\* device, and a card that is not listed has the device's name as model and no
\* description.
CardNamed ==
  Done /\ Readable("pci") /\ Clean(setup.pci) => \A man, d, subMan, s \in Known :
    LET card == fillPCIDev(man, d, subMan, s)
        vendors(v) == VendorLines(setup.pci, v)
        devs == DeviceLines(setup.pci, man, d)
        subs == SubLines(setup.pci, man, d, s)
    IN /\ card.manufacturer = Listed(vendors(IF vendors(subMan) = {} THEN man ELSE subMan), 1)
       /\ card.model = IF subs = {} THEN Listed(devs, 1) ELSE Listed(subs, 2)
       /\ card.description # Empty => card.description = Listed(devs, 1) /\ card.description[1] < card.model[1]

\* A USB device gets names where usb.ids stands beside the first pci.ids, and
\* only there, whatever vendors pci.ids has.
UsbDeviceNamed ==
  Done => \A man, d \in Known :
    LET f == setup.usb
        device == fillUSBDev(man, d)
    IN IF ~Readable("usb") THEN device = NoNames
       ELSE Clean(f) => /\ device.manufacturer = Listed(VendorLines(f, man), 1)
                        /\ device.model = Listed(DeviceLines(f, man, d), 1)

\* Cards and USB devices are named as the files say.
NamedAsListed == CardNamed /\ UsbDeviceNamed
=============================================================================
