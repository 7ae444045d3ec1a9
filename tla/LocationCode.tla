----------------------------- MODULE LocationCode -----------------------------
(***************************************************************************)
(* Where the location code of a component comes from.  Three passes over   *)
(* the same components write it: the loop at the end of                    *)
(* DeviceTreeCollector::getComponents, fillTree, and postProcess.          *)
(*                                                                         *)
(* A location is a sequence of parts, a pair of its kind and a name: "U"   *)
(* is a code of the platform's form, "plain" any other the firmware gives, *)
(* "dash" one that begins with a dash; "hbtl" is H..-B..-T..-L.., "slot"   *)
(* is -D.. and "addr" a name on the bus.  The first part decides what the  *)
(* code sees of it, the first character.                                   *)
(*                                                                         *)
(* A DataItem belongs to libvpd.  It keeps the preference it was set with, *)
(* and a lower one does not replace its value; which of two that are alike *)
(* stays is not said by this code, and both may.                           *)
(*                                                                         *)
(* The system is as the two walks and the merging left it (ComponentTree): *)
(* a component of sysfs stands in the tree below the nearest directory     *)
(* that is one, and comes later in the list; findSCSIParent, which looks   *)
(* that directory up in sysfs paths, finds the same one.                   *)
(***************************************************************************)
EXTENDS Naturals, Sequences, FiniteSets

CONSTANTS
  Systems,  \* the systems that are looked at
  Names,    \* codes, slots and components, as they are named in locations
  Nodes,    \* directories of the device tree
  None

Kinds == {"U", "plain", "dash", "hbtl", "slot", "addr"}
Location == Seq(Kinds \X Names)
Level == 0 .. 100
Item == [val : Location, pref : Level]
\* What an inquiry may find: nothing, what was kept of a Spyre adapter, a YL
\* keyword, iprconfig's answer; and the slot of an enclosure.
Report == [told : [val : Location, pref : {0, 80, 90, 100}], slot : Location]

\* A system: its components and those sysfs has; the components from the top
\* of the tree down to each; bus, whether the name is h:b:t:l, whether there is a
\* keyword XB, and the first number of the name; the directories of its node's
\* path, which is empty where there is no node; what inquiries may report; and
\* what the firmware has: codes of nodes, codes of the ports of a hub, the hubs
\* below a node.  A controller has rootHubs buses, each of hubPorts ports.
System(s) ==
  /\ s.comps \subseteq Names /\ s.sysfs \subseteq s.comps
  /\ s.line \in [s.comps -> Seq(s.comps)]
  /\ s.bus \in [s.comps -> {"scsi", "usb", "ide", "other"}]
  /\ s.hbtl \subseteq s.xb /\ s.xb \subseteq s.sysfs
  /\ s.major \in [s.comps -> {"none", "zero", "other"}]
  /\ s.path \in [s.comps -> Seq(Nodes)]
  /\ s.given \in [s.comps -> Location]
  /\ s.reports \in [s.comps -> SUBSET Report]
  /\ s.code \in [Nodes -> Location]
  /\ s.ports \in [Nodes -> [1 .. s.maxPort -> Location \cup {None}]]
  /\ s.hubs \in [Nodes -> SUBSET Nodes]
  /\ s.usb \in [s.comps -> [bus : Nat, port : Nat, maxChild : Nat]]

\* The last part of a line is the component itself, and the lines of the
\* components above it are its beginnings.  A disk in a slot hangs on something.
Lined(s) ==
  \A c \in s.comps :
    /\ \A r \in s.reports[c] : r.slot # << >> => Len(s.line[c]) > 1
    /\ s.line[c] # << >> /\ s.line[c][Len(s.line[c])] = c
    /\ \A i \in DOMAIN s.line[c] : s.line[s.line[c][i]] = SubSeq(s.line[c], 1, i)

\* The ports of the root hubs, a bus and a port each, have codes of their own.
Socketed(s) ==
  /\ s.rootHubs \in Nat /\ s.hubPorts \in Nat
  /\ DOMAIN s.socket \subseteq (Nat \ {0}) \X (1 .. s.hubPorts)
  /\ \A t \in DOMAIN s.socket : \E x \in Names : s.socket[t] = << <<"U", x>> >>
  /\ \A t, u \in DOMAIN s.socket : s.socket[t] = s.socket[u] => t = u

ASSUME LocationAssumption ==
  /\ \A s \in Systems : System(s) /\ Lined(s) /\ Socketed(s)
  /\ None \notin Names \cup Location

VARIABLES
  sys,    \* the system
  loc,    \* mPhysicalLocation of each component
  second, \* mSecondLocation
  todo,   \* components the pass has not come to
  stage

vars == <<sys, loc, second, todo, stage>>

Unset == [val |-> << >>, pref |-> 0]

Init ==
  /\ sys \in Systems
  /\ loc = [c \in sys.comps |->
              IF sys.given[c] = << >> THEN Unset ELSE [val |-> sys.given[c], pref |-> 90]]
  /\ second = [c \in sys.comps |-> Unset]
  /\ todo = sys.comps
  /\ stage = "locate"

\* DataItem::setValue.
Assigned(old, val, pref) ==
  {item \in {old, [val |-> val, pref |-> pref]} :
     /\ pref > old.pref => item.val = val /\ item.pref = pref
     /\ pref < old.pref => item = old}

IsU(l) == l # << >> /\ l[1][1] = "U"
StartsWithDash(l) == l # << >> /\ l[1][1] \in {"dash", "slot"}

Line(c) == sys.line[c]
Above(c) == IF Len(Line(c)) = 1 THEN None ELSE Line(c)[Len(Line(c)) - 1]
LocOf(c) == IF c = None THEN << >> ELSE loc[c].val

\* A pass takes a component after the one above it.  The order is that of a
\* list in which parents come first, or of a recursion that ends with calls for
\* the children; nothing else of it matters, as only what is above is read.
Take(c, s) ==
  /\ stage = s /\ c \in todo /\ Above(c) \notin todo
  /\ todo' = todo \ {c}

-----------------------------------------------------------------------------
(* DeviceTreeCollector::getComponents, "Get Location Codes for device".    *)

\* ibm,loc-code of a component's own node.
NodeCode(c) ==
  IF c = None \/ sys.path[c] = << >> THEN << >> ELSE sys.code[sys.path[c][Len(sys.path[c])]]

\* fillQuickVPD: the code of the node, or of the nearest one above that has one.
NearestCode(c) ==
  LET p == sys.path[c]
      coded == {i \in DOMAIN p : sys.code[p[i]] # << >>}
  IN IF coded = {} THEN << >>
     ELSE sys.code[p[CHOOSE i \in coded : \A j \in coded : j <= i]]

Quick(c) ==
  IF NearestCode(c) = << >> THEN {loc[c]} ELSE Assigned(loc[c], NearestCode(c), 90)

\* findSCSIParent: of a component on these buses, or with an XB keyword whatever
\* its bus.  "/sys/devices" has no link target and is not found.
ScsiParent(c) ==
  IF c # None /\ c \in sys.sysfs /\ (c \in sys.xb \/ sys.bus[c] \in {"scsi", "usb"})
  THEN Above(c) ELSE None

\* Mutant: the ports of the lower buses are not counted.
RawPortBus(d, hub) == sys.usb[d].port

\* fillLocCode numbers the ports of a controller through its root hubs; d is
\* the device, called bus-port, and hub the root hub whose ports are counted.
RawPort(d, hub) ==
  (IF sys.usb[d].bus > 1 THEN (sys.usb[d].bus - 1) * sys.usb[hub].maxChild ELSE 0)
  + sys.usb[d].port

\* Mutant: a port that has no code is taken as one that has.
PortsBelowUncoded(n, raw) == IF raw \in DOMAIN sys.ports[n] THEN {sys.ports[n][raw]} ELSE {}

PortsBelow(n, raw) == IF raw \in DOMAIN sys.ports[n] THEN {sys.ports[n][raw]} \ {None} ELSE {}

\* Last directory of a component's node, as a set.
NodeOf(c) == IF sys.path[c] = << >> THEN {} ELSE {sys.path[c][Len(sys.path[c])]}

\* fillLocCode: the port is looked for below the node of the interface, then
\* below every hub of the controller.  One that is found and has no code ends
\* the search.  In which order hubs are listed is not known.
PortCodes(if, d, hub) ==
  LET raw == RawPort(d, hub)
      near == UNION {PortsBelow(n, raw) : n \in NodeOf(if)}
      far == UNION {PortsBelow(h, raw) : h \in UNION {sys.hubs[n] : n \in NodeOf(hub)}}
  IN IF near # {} THEN near ELSE IF far # {} THEN far ELSE {<< >>}

\* What a disk on USB hangs on, as buildSCSILocCode looks it up above its host.
Interface(c) == ScsiParent(ScsiParent(c))
UsbDevice(c) == ScsiParent(Interface(c))
RootHub(c) == ScsiParent(UsbDevice(c))
OnUsb(c) == RootHub(c) # None /\ sys.bus[RootHub(c)] = "usb"

\* buildSCSILocCode: the codes of the port of a disk on USB.
UsbCodes(c) == IF OnUsb(c) THEN PortCodes(Interface(c), UsbDevice(c), RootHub(c)) ELSE {<< >>}

\* ... and the code made of host, bus, target and lun where there is none.
Built(c, item) ==
  (IF item.val # << >> THEN item.val
   ELSE IF LocOf(ScsiParent(c)) # << >> THEN LocOf(ScsiParent(c))
   ELSE NodeCode(ScsiParent(c)))
  \o << <<"hbtl", c>> >>

\* Mutant: what was built wins over what firmware says.
LocateBuilt(c) ==
  /\ Take(c, "locate")
  /\ \E item \in Quick(c) :
       IF sys.bus[c] = "scsi" /\ ScsiParent(c) # None /\ c \in sys.hbtl
       THEN \E port \in UsbCodes(c) :
              \E new \in Assigned(item, IF port # << >> THEN port ELSE Built(c, item), 95) :
                loc' = [loc EXCEPT ![c] = new]
       ELSE loc' = [loc EXCEPT ![c] = item]
  /\ UNCHANGED <<sys, second, stage>>

\* One turn of the loop.  A built code is set after what firmware says, and
\* less preferred.
Locate(c) ==
  /\ Take(c, "locate")
  /\ \E item \in Quick(c) :
       IF sys.bus[c] = "scsi" /\ ScsiParent(c) # None /\ c \in sys.hbtl
       THEN \E port \in UsbCodes(c) :
              \E new \in Assigned(item, IF port # << >> THEN port ELSE Built(c, item), 60) :
                loc' = [loc EXCEPT ![c] = new]
       ELSE loc' = [loc EXCEPT ![c] = item]
  /\ UNCHANGED <<sys, second, stage>>

-----------------------------------------------------------------------------
(* Gatherer::fillTree.                                                     *)

\* The name below that of the parent (SysFSTreeCollector::fillComponent).
BusName(c) ==
  LET above == LocOf(Above(c)) IN
  (IF above = << >> THEN << >>
   ELSE IF ~IsU(above) THEN above ELSE << <<"addr", Above(c)>> >>)
  \o << <<"addr", c>> >>

\* fillComponent of both collectors: an inquiry may find a location (iprconfig,
\* the YL keyword of a VPD, what was kept of a Spyre adapter) and the slot of
\* the enclosure; a component of sysfs gets its bus name for want of anything.
Fill(c) ==
  /\ Take(c, "fill")
  /\ \E r \in sys.reports[c] :
       /\ \E told \in Assigned(loc[c], r.told.val, r.told.pref) :
            IF c \in sys.sysfs
            THEN \E new \in Assigned(told, BusName(c), 50) : loc' = [loc EXCEPT ![c] = new]
            ELSE loc' = [loc EXCEPT ![c] = told]
       /\ second' = IF r.slot = << >> THEN second
                    ELSE [second EXCEPT ![c] = [val |-> r.slot, pref |-> 60]]
  /\ UNCHANGED <<sys, stage>>

-----------------------------------------------------------------------------
(* DeviceTreeCollector::postProcess.                                       *)

\* getBaseLoc: the nearest component above with a code of the platform's form.
BaseLoc(c) ==
  LET l == Line(c)
      coded == {i \in 1 .. Len(l) - 1 : IsU(loc[l[i]].val)}
  IN IF coded = {} THEN << >>
     ELSE loc[l[CHOOSE i \in coded : \A j \in coded : j <= i]].val

\* Mutant: the code put together is dropped for every number, 0 too.
CheckedNumbers(c) ==
  LET l == loc[c].val
      base == BaseLoc(c)
  IN IF IsU(l) \/ base = << >> \/ (~StartsWithDash(l) /\ sys.major[c] # "none") THEN {loc[c]}
     ELSE Assigned(loc[c], IF StartsWithDash(l) THEN base \o l ELSE base, 90)

\* checkLocation.  Where parseMajorMinor finds a number that is not 0, a code
\* is put together and not set.
Checked(c) ==
  LET l == loc[c].val
      base == BaseLoc(c)
  IN IF IsU(l) \/ base = << >> \/ (~StartsWithDash(l) /\ sys.major[c] = "other") THEN {loc[c]}
     ELSE Assigned(loc[c], IF StartsWithDash(l) THEN base \o l ELSE base, 90)

\* The slot, below the location of the parent.
Physical(c) ==
  (IF LocOf(Above(c)) # << >> THEN LocOf(Above(c)) ELSE NodeCode(Above(c))) \o second[c].val

\* Mutant: children come before their parents.
PostProcessUpward(c) ==
  /\ stage = "post" /\ c \in todo /\ \A d \in todo : Above(d) # c
  /\ todo' = todo \ {c}
  /\ \E checked \in Checked(c) :
       IF sys.bus[c] = "scsi" /\ second[c].val # << >>
       THEN /\ \E new \in Assigned(checked, Physical(c), 70) : loc' = [loc EXCEPT ![c] = new]
            /\ \E new \in Assigned(second[c], checked.val, 90) : second' = [second EXCEPT ![c] = new]
       ELSE loc' = [loc EXCEPT ![c] = checked] /\ UNCHANGED second
  /\ UNCHANGED <<sys, stage>>

PostProcess(c) ==
  /\ Take(c, "post")
  /\ \E checked \in Checked(c) :
       IF sys.bus[c] = "scsi" /\ second[c].val # << >>
       THEN /\ \E new \in Assigned(checked, Physical(c), 70) : loc' = [loc EXCEPT ![c] = new]
            /\ \E new \in Assigned(second[c], checked.val, 90) : second' = [second EXCEPT ![c] = new]
       ELSE loc' = [loc EXCEPT ![c] = checked] /\ UNCHANGED second
  /\ UNCHANGED <<sys, stage>>

-----------------------------------------------------------------------------
After(s) == CASE s = "locate" -> "fill" [] s = "fill" -> "post" [] s = "post" -> "done"

NextPass ==
  /\ stage # "done" /\ todo = {}
  /\ stage' = After(stage)
  /\ todo' = IF stage' = "done" THEN {} ELSE sys.comps
  /\ UNCHANGED <<sys, loc, second>>

Next ==
  \/ \E c \in sys.comps : Locate(c) \/ Fill(c) \/ PostProcess(c)
  \/ NextPass

Spec == Init /\ [][Next]_vars

-----------------------------------------------------------------------------
(* Properties.                                                             *)

TypeOK ==
  /\ sys \in Systems
  /\ loc \in [sys.comps -> Item] /\ second \in [sys.comps -> Item]
  /\ todo \in SUBSET sys.comps
  /\ stage \in {"locate", "fill", "post", "done"}

AboveOf(c) == {Line(c)[i] : i \in 1 .. Len(Line(c)) - 1}

\* Whatever stands below a component with a code of the platform's form ends
\* with such a code too.  The exceptions are one whose own code has another form,
\* one in a slot of a parent that has none itself, and one whose name begins with
\* a number that is not 0, for checkLocation drops the code it made for it.
LocatedBelow ==
  stage = "done" =>
    \A c \in sys.comps : (\E a \in AboveOf(c) : IsU(loc[a].val)) =>
      \/ IsU(loc[c].val)
      \/ loc[c].pref >= 90
      \/ loc[c].pref = 70 /\ ~IsU(LocOf(Above(c)))
      \/ sys.major[c] = "other"

\* A component the firmware places and no inquiry places better.
Placed(c) ==
  /\ IsU(NearestCode(c)) /\ sys.given[c] = << >>
  /\ \A r \in sys.reports[c] : r.told.pref < 90

\* What firmware says of a component's place survives what is built for it,
\* filled in and post-processed, where no inquiry of its own says otherwise.
FirmwareCodeStays ==
  stage = "done" => \A c \in sys.comps : Placed(c) => loc[c].val = NearestCode(c)

\* A disk in a slot is placed below the location its parent ends with.
SlotBelowParent ==
  stage = "done" =>
    \A c \in sys.comps : loc[c].pref = 70 =>
      \E r \in sys.reports[c] :
        loc[c].val = (IF LocOf(Above(c)) # << >> THEN LocOf(Above(c)) ELSE NodeCode(Above(c))) \o r.slot

\* The port a disk on USB is plugged in, and a location that is another port's.
Socket(c) == <<sys.usb[UsbDevice(c)].bus, sys.usb[UsbDevice(c)].port>>
OfOther(c, l) == \E t \in DOMAIN sys.socket \ {Socket(c)} : l = sys.socket[t]

\* The comment of fillLocCode: the root hubs of a controller have equally many
\* ports, and its node numbers them through.  Below n are those of the
\* controller that has the bus b, the first, the second or any other.
Lists(n, b) ==
  \E k \in 0 .. b :
    /\ k * sys.rootHubs < b /\ b <= k * sys.rootHubs + sys.rootHubs
    /\ \A i \in DOMAIN sys.ports[n] :
         sys.ports[n][i] # None =>
           \E h \in 1 .. sys.rootHubs, p \in 1 .. sys.hubPorts :
             /\ i = (h - 1) * sys.hubPorts + p
             /\ <<k * sys.rootHubs + h, p>> \in DOMAIN sys.socket
             /\ sys.ports[n][i] = sys.socket[<<k * sys.rootHubs + h, p>>]
Numbered(c) ==
  /\ Socket(c) \in DOMAIN sys.socket
  /\ sys.usb[RootHub(c)].maxChild = sys.hubPorts
  /\ \A n \in NodeOf(Interface(c)) \cup UNION {sys.hubs[m] : m \in NodeOf(RootHub(c))} :
       Lists(n, sys.usb[UsbDevice(c)].bus)

\* Nobody says of a component that it is at a port c is not plugged in.
Said(a) ==
  {sys.given[a]} \cup {sys.code[sys.path[a][i]] : i \in DOMAIN sys.path[a]}
  \cup {r.told.val : r \in sys.reports[a]}
Unclaimed(c, a) ==
  /\ \A l \in Said(a) : ~OfOther(c, l)
  /\ \A r \in sys.reports[a] : ~IsU(r.slot)

\* A disk on a port of a numbered controller, with no disk above it.
Plugged(c) ==
  /\ c \in sys.hbtl /\ sys.bus[c] = "scsi" /\ OnUsb(c) /\ Numbered(c)
  /\ Unclaimed(c, c) /\ \A a \in AboveOf(c) : Unclaimed(c, a) /\ a \notin sys.hbtl

\* A disk on USB never has the code of a port it is not plugged in, whichever
\* root hub counts that port, wherever the ports' node is found, and whatever is
\* built on the components above; and one that is left with what was built for
\* it has the code of its own port, if that was found.
OwnPort ==
  \A c \in sys.comps : Plugged(c) =>
    /\ ~OfOther(c, loc[c].val)
    /\ stage # "locate" /\ loc[c].pref = 60 /\ UsbCodes(c) # {<< >>} => loc[c].val = sys.socket[Socket(c)]
=============================================================================
