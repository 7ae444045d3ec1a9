-------------------------- MODULE DeviceNamesProofs --------------------------
(***************************************************************************)
(* Proofs about where a device is and what it is called: LocationCode, for *)
(* every system (any forest of components, any codes of nodes and ports,   *)
(* any reports), and PciIds, for every pci.ids and usb.ids.                *)
(***************************************************************************)
EXTENDS LocationCode, PciIds, WellFoundedInduction, SequenceTheorems, TLAPS

\* A bounded set of numbers that is not empty has a greatest.
LEMMA Greatest ==
  ASSUME NEW n \in Nat, NEW T \in SUBSET (0 .. n), T # {}
  PROVE  \E m \in T : \A t \in T : t <= m
<1> DEFINE D == {n - t : t \in T}
<1>1. D \subseteq Nat /\ D # {}
  <2>1. \A t \in T : n - t \in Nat
    OBVIOUS
  <2> QED
    BY <2>1
<1>2. PICK d \in D : \A e \in D : ~ (<<e, d>> \in OpToRel(<, Nat))
  BY <1>1, NatLessThanWellFounded, WFMin
<1>3. \A e \in D : ~ (e < d)
  BY <1>1, <1>2 DEF OpToRel
<1>4. PICK m \in T : d = n - m
  OBVIOUS
<1>5. ASSUME NEW t \in T PROVE t <= m
  <2>1. ~(n - t < d)
    BY <1>3
  <2> QED
    BY <2>1, <1>4
<1> QED
  BY <1>5

\* What setValue leaves is one of the two.
LEMMA AssignedCases ==
  ASSUME NEW old, NEW val, NEW pref \in Nat, old.pref \in Nat, NEW new \in Assigned(old, val, pref)
  PROVE  \/ new = old /\ old.pref >= pref
         \/ new = [val |-> val, pref |-> pref] /\ old.pref <= pref
<1>1. CASE new = old
  <2>1. CASE pref > old.pref
    <3>1. new = [val |-> val, pref |-> pref] \/ (new.pref = pref /\ new = old)
      BY <2>1 DEF Assigned
    <3> QED
      BY <3>1, <2>1
  <2> QED
    BY <1>1, <2>1
<1>2. CASE new = [val |-> val, pref |-> pref] /\ new # old
  <2>1. ~(pref < old.pref)
    BY <1>2 DEF Assigned
  <2> QED
    BY <1>2, <2>1
<1> QED
  BY <1>1, <1>2 DEF Assigned

LEMMA AssignedTyped ==
  ASSUME NEW old \in Item, NEW val \in Location, NEW pref \in Level, NEW new \in Assigned(old, val, pref)
  PROVE  new \in Item
BY DEF Assigned, Item

-----------------------------------------------------------------------------
LEMMA SystemTyped == TypeOK => System(sys) /\ Lined(sys)
BY LocationAssumption DEF TypeOK

LEMMA HeadIsFirst ==
  ASSUME NEW l \in Location, NEW k \in Location, IsU(l)
  PROVE  IsU(l \o k)
<1>1. l \o k \in Location /\ Len(l \o k) = Len(l) + Len(k)
  BY ConcatProperties DEF Location
<1>2. Len(l) > 0 /\ Len(l) \in Nat /\ Len(k) \in Nat
  BY EmptySeq, LenProperties DEF IsU, Location
<1>3. (l \o k)[1] = l[1]
  BY <1>2, ConcatProperties DEF Location
<1> QED
  BY <1>1, <1>2, <1>3, EmptySeq DEF IsU, Location

-----------------------------------------------------------------------------
(* The codes the passes put together are locations.                        *)

LEMMA NearestCodeTyped ==
  ASSUME System(sys), NEW c \in sys.comps
  PROVE  NearestCode(c) \in Location
<1> DEFINE p == sys.path[c]
           coded == {i \in DOMAIN p : sys.code[p[i]] # << >>}
<1>1. p \in Seq(Nodes) /\ sys.code \in [Nodes -> Location]
  BY DEF System
<1>2. CASE coded = {}
  BY <1>2 DEF NearestCode, Location
<1>3. CASE coded # {}
  <2>1. Len(p) \in Nat /\ coded \in SUBSET (0 .. Len(p))
    BY <1>1, LenProperties
  <2>2. \E i \in coded : \A j \in coded : j <= i
    <3> HIDE DEF coded
    <3> QED
      BY <1>3, <2>1, Greatest
  <2>3. PICK i \in coded : NearestCode(c) = sys.code[p[i]]
    BY <1>3, <2>2 DEF NearestCode
  <2>4. p[i] \in Nodes
    BY <1>1, <2>3, ElementOfSeq, LenProperties
  <2> QED
    BY <1>1, <2>3, <2>4
<1> QED
  BY <1>2, <1>3

LEMMA NodeCodeTyped ==
  ASSUME System(sys), NEW c, c = None \/ c \in sys.comps
  PROVE  NodeCode(c) \in Location
<1>1. CASE c = None
  BY <1>1 DEF NodeCode, Location
<1>2. CASE c \in sys.comps
  <2>1. sys.path[c] \in Seq(Nodes) /\ sys.code \in [Nodes -> Location]
    BY <1>2 DEF System
  <2>2. CASE sys.path[c] = << >>
    BY <2>2 DEF NodeCode, Location
  <2>3. CASE sys.path[c] # << >> /\ c # None
    <3>1. sys.path[c][Len(sys.path[c])] \in Nodes
      BY <2>1, <2>3, EmptySeq, LenProperties, ElementOfSeq
    <3> QED
      BY <2>1, <2>3, <3>1 DEF NodeCode
  <2> QED
    BY <1>1, <2>2, <2>3
<1> QED
  BY <1>1, <1>2

LEMMA AboveTyped ==
  ASSUME System(sys), Lined(sys), NEW c \in sys.comps
  PROVE  Above(c) = None \/ Above(c) \in sys.comps
<1>1. sys.line[c] \in Seq(sys.comps) /\ sys.line[c] # << >>
  BY DEF System, Lined
<1>2. CASE Len(Line(c)) = 1
  BY <1>2 DEF Above
<1>3. CASE Len(Line(c)) # 1
  <2>1. Len(Line(c)) - 1 \in 1 .. Len(Line(c))
    <3>1. Len(sys.line[c]) \in Nat /\ Len(sys.line[c]) # 0
      BY <1>1, EmptySeq, LenProperties
    <3>2. \A k \in Nat : k # 0 /\ k # 1 => k - 1 \in 1 .. k
      OBVIOUS
    <3> QED
      BY <1>3, <3>1, <3>2 DEF Line
  <2>2. Line(c)[Len(Line(c)) - 1] \in sys.comps
    BY <1>1, <2>1, ElementOfSeq DEF Line
  <2> QED
    BY <1>3, <2>2 DEF Above
<1> QED
  BY <1>2, <1>3

LEMMA LocTyped ==
  ASSUME loc \in [sys.comps -> Item], NEW c, c = None \/ c \in sys.comps
  PROVE  LocOf(c) \in Location
BY DEF LocOf, Item, Location

LEMMA ScsiParentTyped ==
  ASSUME System(sys), Lined(sys), NEW c, c = None \/ c \in sys.comps
  PROVE  ScsiParent(c) = None \/ ScsiParent(c) \in sys.comps
<1>1. CASE ScsiParent(c) = None
  BY <1>1
<1>2. CASE ScsiParent(c) # None
  <2>1. c \in sys.comps /\ ScsiParent(c) = Above(c)
    BY <1>2 DEF ScsiParent, System
  <2> QED
    BY <2>1, AboveTyped
<1> QED
  BY <1>1, <1>2

\* A location and what is put behind it.
LEMMA Appended ==
  ASSUME NEW l \in Location, NEW k \in Location
  PROVE  l \o k \in Location
BY ConcatProperties DEF Location

LEMMA OnePart ==
  ASSUME NEW kind \in Kinds, NEW x \in Names
  PROVE  << <<kind, x>> >> \in Location
BY DEF Location

LEMMA BuiltTyped ==
  ASSUME TypeOK, NEW c \in sys.comps, NEW item \in Item
  PROVE  Built(c, item) \in Location
<1>1. System(sys) /\ Lined(sys) /\ loc \in [sys.comps -> Item]
  BY SystemTyped DEF TypeOK
<1>2. ScsiParent(c) = None \/ ScsiParent(c) \in sys.comps
  BY <1>1, ScsiParentTyped
<1>3. LocOf(ScsiParent(c)) \in Location /\ NodeCode(ScsiParent(c)) \in Location
  BY <1>1, <1>2, LocTyped, NodeCodeTyped
<1>4. << <<"hbtl", c>> >> \in Location
  BY <1>1, OnePart DEF System, Kinds
<1>5. item.val \in Location
  BY DEF Item
<1> QED
  BY <1>3, <1>4, <1>5, Appended DEF Built

LEMMA PortCodesTyped ==
  ASSUME System(sys), NEW i, NEW d, NEW hub, NEW l \in PortCodes(i, d, hub),
         NodeOf(i) \subseteq Nodes, NodeOf(hub) \subseteq Nodes
  PROVE  l \in Location
<1> DEFINE raw == RawPort(d, hub)
<1>1. ASSUME NEW nd \in Nodes PROVE PortsBelow(nd, raw) \subseteq Location
  <2> HIDE DEF raw
  <2>1. sys.ports[nd] \in [1 .. sys.maxPort -> Location \cup {None}]
    BY DEF System
  <2>2. CASE raw \in DOMAIN sys.ports[nd]
    <3>1. sys.ports[nd][raw] \in Location \cup {None}
      BY <2>1, <2>2
    <3> QED
      BY <2>2, <3>1 DEF PortsBelow
  <2>3. CASE raw \notin DOMAIN sys.ports[nd]
    BY <2>3 DEF PortsBelow
  <2> QED
    BY <2>2, <2>3
<1>2. \A nd \in Nodes : sys.hubs[nd] \subseteq Nodes
  BY DEF System
<1>3. << >> \in Location
  BY DEF Location
<1> QED
  BY <1>1, <1>2, <1>3 DEF PortCodes

LEMMA NodeOfTyped ==
  ASSUME System(sys), NEW c \in sys.comps
  PROVE  NodeOf(c) \subseteq Nodes
<1>1. sys.path[c] \in Seq(Nodes)
  BY DEF System
<1> QED
  BY <1>1, EmptySeq, LenProperties, ElementOfSeq DEF NodeOf

LEMMA UsbCodesTyped ==
  ASSUME TypeOK, NEW c \in sys.comps, NEW l \in UsbCodes(c)
  PROVE  l \in Location
<1>1. System(sys) /\ Lined(sys)
  BY SystemTyped
<1>2. CASE OnUsb(c)
  <2>1. /\ Interface(c) = None \/ Interface(c) \in sys.comps
        /\ UsbDevice(c) = None \/ UsbDevice(c) \in sys.comps
        /\ RootHub(c) \in sys.comps
    BY <1>1, <1>2, ScsiParentTyped DEF OnUsb, Interface, UsbDevice, RootHub
  <2>2. Interface(c) \in sys.comps
    BY <1>2, <2>1 DEF OnUsb, UsbDevice, RootHub, ScsiParent
  <2>3. NodeOf(Interface(c)) \subseteq Nodes /\ NodeOf(RootHub(c)) \subseteq Nodes
    BY <1>1, <2>1, <2>2, NodeOfTyped
  <2>4. l \in PortCodes(Interface(c), UsbDevice(c), RootHub(c))
    BY <1>2 DEF UsbCodes
  <2> QED
    BY <1>1, <2>3, <2>4, PortCodesTyped
<1>3. CASE ~OnUsb(c)
  BY <1>3 DEF UsbCodes, Location
<1> QED
  BY <1>2, <1>3

LEMMA BusNameTyped ==
  ASSUME TypeOK, NEW c \in sys.comps
  PROVE  BusName(c) \in Location
<1>1. System(sys) /\ Lined(sys) /\ loc \in [sys.comps -> Item] /\ sys.comps \subseteq Names
  BY SystemTyped DEF TypeOK, System
<1>2. Above(c) = None \/ Above(c) \in sys.comps
  BY <1>1, AboveTyped
<1>3. LocOf(Above(c)) \in Location
  BY <1>1, <1>2, LocTyped
<1>4. << <<"addr", c>> >> \in Location /\ << >> \in Location
  BY <1>1, OnePart DEF Kinds, Location
<1>5. LocOf(Above(c)) # << >> => << <<"addr", Above(c)>> >> \in Location
  BY <1>1, <1>2, OnePart DEF Kinds, LocOf
<1> DEFINE front == IF LocOf(Above(c)) = << >> THEN << >>
                    ELSE IF ~IsU(LocOf(Above(c))) THEN LocOf(Above(c)) ELSE << <<"addr", Above(c)>> >>
<1>6. front \in Location
  BY <1>3, <1>4, <1>5
<1>7. BusName(c) = front \o << <<"addr", c>> >>
  BY DEF BusName
<1> HIDE DEF front
<1> QED
  BY <1>4, <1>6, <1>7, Appended

\* The components above c, which are in its line before it.
LEMMA AboveOfTyped ==
  ASSUME System(sys), Lined(sys), NEW c \in sys.comps
  PROVE  /\ Line(c) \in Seq(sys.comps) /\ Len(Line(c)) \in Nat /\ Len(Line(c)) # 0
         /\ \A i \in 1 .. Len(Line(c)) : Line(c)[i] \in sys.comps
         /\ AboveOf(c) \subseteq sys.comps
<1>1. Line(c) \in Seq(sys.comps) /\ Line(c) # << >>
  BY DEF System, Lined, Line
<1>2. Len(Line(c)) \in Nat /\ Len(Line(c)) # 0
  BY <1>1, EmptySeq, LenProperties
<1>3. \A i \in 1 .. Len(Line(c)) : Line(c)[i] \in sys.comps
  BY <1>1, ElementOfSeq
<1>4. AboveOf(c) \subseteq sys.comps
  BY <1>2, <1>3 DEF AboveOf
<1> QED
  BY <1>1, <1>2, <1>3, <1>4

\* The base is a code of the platform's form; there is one where a component
\* above has one.
LEMMA BaseLocFound ==
  ASSUME TypeOK, NEW c \in sys.comps
  PROVE  \/ BaseLoc(c) = << >> /\ \A a \in AboveOf(c) : ~IsU(loc[a].val)
         \/ BaseLoc(c) \in Location /\ IsU(BaseLoc(c))
<1> DEFINE l == Line(c)
           coded == {i \in 1 .. Len(l) - 1 : IsU(loc[l[i]].val)}
<1>1. loc \in [sys.comps -> Item] /\ System(sys) /\ Lined(sys)
  BY SystemTyped DEF TypeOK
<1>2. Len(l) \in Nat /\ Len(l) # 0 /\ \A i \in 1 .. Len(l) : l[i] \in sys.comps
  BY <1>1, AboveOfTyped
<1>3. CASE coded = {}
  <2>1. BaseLoc(c) = << >>
    BY <1>3 DEF BaseLoc
  <2>2. \A a \in AboveOf(c) : ~IsU(loc[a].val)
    BY <1>3 DEF AboveOf
  <2> QED
    BY <2>1, <2>2
<1>4. CASE coded # {}
  <2>1. Len(l) - 1 \in Nat /\ coded \in SUBSET (0 .. Len(l) - 1)
    BY <1>2
  <2>2. \E i \in coded : \A j \in coded : j <= i
    <3> DEFINE n == Len(l) - 1
    <3>1. n \in Nat /\ coded \in SUBSET (0 .. n)
      BY <2>1
    <3> HIDE DEF coded, n
    <3> QED
      BY <1>4, <3>1, Greatest
  <2>3. PICK i \in coded : BaseLoc(c) = loc[l[i]].val
    BY <1>4, <2>2 DEF BaseLoc
  <2>4. i \in 1 .. Len(l)
    BY <1>2, <2>3
  <2>5. l[i] \in sys.comps /\ IsU(loc[l[i]].val)
    BY <1>2, <2>3, <2>4
  <2>6. loc[l[i]].val \in Location
    BY <1>1, <2>5 DEF Item
  <2> QED
    BY <2>3, <2>5, <2>6
<1> QED
  BY <1>3, <1>4

LEMMA PhysicalTyped ==
  ASSUME TypeOK, NEW c \in sys.comps
  PROVE  Physical(c) \in Location
<1>1. System(sys) /\ Lined(sys) /\ loc \in [sys.comps -> Item] /\ second[c] \in Item
  BY SystemTyped DEF TypeOK
<1>2. Above(c) = None \/ Above(c) \in sys.comps
  BY <1>1, AboveTyped
<1>3. LocOf(Above(c)) \in Location /\ NodeCode(Above(c)) \in Location
  BY <1>1, <1>2, LocTyped, NodeCodeTyped
<1>4. second[c].val \in Location
  BY <1>1 DEF Item
<1> QED
  BY <1>3, <1>4, Appended DEF Physical

\* checkLocation leaves a location as it is, for one of four reasons, or sets one
\* of the platform's form.
LEMMA CheckedCases ==
  ASSUME TypeOK, NEW c \in sys.comps, NEW new \in Checked(c)
  PROVE  /\ new \in Item
         /\ \/ /\ new = loc[c]
               /\ \/ IsU(loc[c].val)
                  \/ \A a \in AboveOf(c) : ~IsU(loc[a].val)
                  \/ sys.major[c] = "other"
                  \/ loc[c].pref >= 90
            \/ IsU(new.val) /\ new.pref = 90
<1> DEFINE l == loc[c].val
           base == BaseLoc(c)
           code == IF StartsWithDash(l) THEN base \o l ELSE base
<1>1. loc[c] \in Item /\ l \in Location /\ loc[c].pref \in Nat
  BY DEF TypeOK, Item, Level
<1>2. CASE IsU(l)
  BY <1>1, <1>2 DEF Checked
<1>3. CASE base = << >>
  <2>1. \A a \in AboveOf(c) : ~IsU(loc[a].val)
    BY <1>3, BaseLocFound DEF IsU
  <2> QED
    BY <1>1, <1>3, <2>1 DEF Checked
<1>4. CASE ~StartsWithDash(l) /\ sys.major[c] = "other"
  BY <1>1, <1>4 DEF Checked
<1>5. CASE ~IsU(l) /\ base # << >> /\ ~(~StartsWithDash(l) /\ sys.major[c] = "other")
  <2>1. new \in Assigned(loc[c], code, 90)
    BY <1>5 DEF Checked
  <2>2. base \in Location /\ IsU(base)
    BY <1>5, BaseLocFound
  <2>3. code \in Location /\ IsU(code)
    BY <1>1, <2>2, Appended, HeadIsFirst
  <2> HIDE DEF code, base
  <2>4. (new = loc[c] /\ loc[c].pref >= 90) \/ new = [val |-> code, pref |-> 90]
    BY <1>1, <2>1, AssignedCases
  <2>5. new \in Item
    BY <1>1, <2>1, <2>3, AssignedTyped DEF Level
  <2> QED
    BY <2>3, <2>4, <2>5
<1> QED
  BY <1>2, <1>3, <1>4, <1>5

-----------------------------------------------------------------------------
\* The steps that are taken.
LEMMA NextCases ==
  ASSUME Next
  PROVE  \/ \E c \in sys.comps : Locate(c) \/ Fill(c) \/ PostProcess(c)
         \/ NextPass
BY DEF Next

LEMMA QuickTyped ==
  ASSUME TypeOK, NEW c \in sys.comps, NEW item \in Quick(c)
  PROVE  item \in Item
<1>1. System(sys) /\ loc[c] \in Item
  BY SystemTyped DEF TypeOK
<1>2. NearestCode(c) \in Location
  BY <1>1, NearestCodeTyped
<1>3. 90 \in Level
  BY DEF Level
<1>4. CASE NearestCode(c) = << >>
  BY <1>1, <1>4 DEF Quick
<1>5. CASE NearestCode(c) # << >>
  <2>1. item \in Assigned(loc[c], NearestCode(c), 90)
    BY <1>5 DEF Quick
  <2> QED
    BY <1>1, <1>2, <1>3, <2>1, AssignedTyped
<1> QED
  BY <1>4, <1>5

\* What Locate leaves: what was found quickly, or what is built then.
LEMMA LocateCases ==
  ASSUME TypeOK, NEW c \in sys.comps, Locate(c)
  PROVE  /\ UNCHANGED <<sys, second, stage>> /\ stage = "locate"
         /\ c \in todo /\ todo' = todo \ {c}
         /\ \E item \in Quick(c) :
              \/ loc' = [loc EXCEPT ![c] = item]
              \/ \E code \in Location : \E new \in Assigned(item, code, 60) :
                   loc' = [loc EXCEPT ![c] = new]
<1>1. UNCHANGED <<sys, second, stage>> /\ stage = "locate" /\ c \in todo /\ todo' = todo \ {c}
  BY DEF Locate, Take
<1>2. PICK item \in Quick(c) :
        IF sys.bus[c] = "scsi" /\ ScsiParent(c) # None /\ c \in sys.hbtl
        THEN \E port \in UsbCodes(c) :
               \E new \in Assigned(item, IF port # << >> THEN port ELSE Built(c, item), 60) :
                 loc' = [loc EXCEPT ![c] = new]
        ELSE loc' = [loc EXCEPT ![c] = item]
  BY DEF Locate
<1>3. CASE ~(sys.bus[c] = "scsi" /\ ScsiParent(c) # None /\ c \in sys.hbtl)
  BY <1>1, <1>2, <1>3
<1>4. CASE sys.bus[c] = "scsi" /\ ScsiParent(c) # None /\ c \in sys.hbtl
  <2>1. PICK port \in UsbCodes(c) :
          \E new \in Assigned(item, IF port # << >> THEN port ELSE Built(c, item), 60) :
            loc' = [loc EXCEPT ![c] = new]
    BY <1>2, <1>4
  <2>2. System(sys) /\ Lined(sys)
    BY SystemTyped
  <2>3. port \in Location /\ Built(c, item) \in Location
    BY UsbCodesTyped, QuickTyped, BuiltTyped
  <2> QED
    BY <1>1, <2>1, <2>3
<1> QED
  BY <1>3, <1>4

LEMMA FillCases ==
  ASSUME TypeOK, NEW c \in sys.comps, Fill(c)
  PROVE  /\ UNCHANGED <<sys, stage>> /\ stage = "fill"
         /\ c \in todo /\ todo' = todo \ {c}
         /\ \E r \in sys.reports[c] :
              /\ r \in Report
              /\ \E told \in Assigned(loc[c], r.told.val, r.told.pref) :
                   \/ loc' = [loc EXCEPT ![c] = told]
                   \/ \E new \in Assigned(told, BusName(c), 50) : loc' = [loc EXCEPT ![c] = new]
              /\ \/ second' = second
                 \/ second' = [second EXCEPT ![c] = [val |-> r.slot, pref |-> 60]]
<1>1. UNCHANGED <<sys, stage>> /\ stage = "fill" /\ c \in todo /\ todo' = todo \ {c}
  BY DEF Fill, Take
<1>2. PICK r \in sys.reports[c] :
        /\ \E told \in Assigned(loc[c], r.told.val, r.told.pref) :
             IF c \in sys.sysfs
             THEN \E new \in Assigned(told, BusName(c), 50) : loc' = [loc EXCEPT ![c] = new]
             ELSE loc' = [loc EXCEPT ![c] = told]
        /\ second' = IF r.slot = << >> THEN second
                     ELSE [second EXCEPT ![c] = [val |-> r.slot, pref |-> 60]]
  BY DEF Fill
<1>3. r \in Report
  BY SystemTyped DEF System
<1> QED
  BY <1>1, <1>2, <1>3

LEMMA PostCases ==
  ASSUME TypeOK, NEW c \in sys.comps, PostProcess(c)
  PROVE  /\ UNCHANGED <<sys, stage>> /\ stage = "post"
         /\ c \in todo /\ todo' = todo \ {c} /\ Above(c) \notin todo
         /\ \E checked \in Checked(c) :
              \/ loc' = [loc EXCEPT ![c] = checked] /\ second' = second
              \/ /\ \E new \in Assigned(checked, Physical(c), 70) : loc' = [loc EXCEPT ![c] = new]
                 /\ \E new \in Assigned(second[c], checked.val, 90) : second' = [second EXCEPT ![c] = new]
BY DEF PostProcess, Take

-----------------------------------------------------------------------------
(* Type correctness.                                                       *)

LEMMA InitTyped == Init => TypeOK
<1> SUFFICES ASSUME Init PROVE TypeOK
  OBVIOUS
<1>1. sys \in Systems /\ System(sys)
  BY LocationAssumption DEF Init
<1>2. Unset \in Item
  BY DEF Unset, Item, Location, Level
<1>3. loc \in [sys.comps -> Item]
  <2>1. \A c \in sys.comps : [val |-> sys.given[c], pref |-> 90] \in Item
    BY <1>1 DEF System, Item, Level
  <2> QED
    BY <1>2, <2>1 DEF Init
<1> QED
  BY <1>1, <1>2, <1>3 DEF Init, TypeOK

LEMMA NextTyped == TypeOK /\ [Next]_vars => TypeOK'
<1> SUFFICES ASSUME TypeOK, [Next]_vars PROVE TypeOK'
  OBVIOUS
<1>1. ASSUME NEW c \in sys.comps, Locate(c) PROVE TypeOK'
  <2>1. PICK item \in Quick(c) :
          \/ loc' = [loc EXCEPT ![c] = item]
          \/ \E code \in Location : \E new \in Assigned(item, code, 60) : loc' = [loc EXCEPT ![c] = new]
    BY <1>1, LocateCases
  <2>2. item \in Item
    BY QuickTyped
  <2>3. loc' \in [sys.comps -> Item]
    BY <2>1, <2>2, AssignedTyped DEF TypeOK, Level
  <2> QED
    BY <1>1, <2>3, LocateCases DEF TypeOK
<1>2. ASSUME NEW c \in sys.comps, Fill(c) PROVE TypeOK'
  <2>1. PICK r \in sys.reports[c] :
          /\ r \in Report
          /\ \E told \in Assigned(loc[c], r.told.val, r.told.pref) :
               \/ loc' = [loc EXCEPT ![c] = told]
               \/ \E new \in Assigned(told, BusName(c), 50) : loc' = [loc EXCEPT ![c] = new]
          /\ \/ second' = second
             \/ second' = [second EXCEPT ![c] = [val |-> r.slot, pref |-> 60]]
    BY <1>2, FillCases
  <2>2. BusName(c) \in Location /\ loc[c] \in Item
    BY BusNameTyped DEF TypeOK
  <2>3. r.told.val \in Location /\ r.told.pref \in Level /\ r.slot \in Location
    BY <2>1 DEF Report, Level
  <2>4. loc' \in [sys.comps -> Item]
    <3>1. PICK told \in Assigned(loc[c], r.told.val, r.told.pref) :
            \/ loc' = [loc EXCEPT ![c] = told]
            \/ \E new \in Assigned(told, BusName(c), 50) : loc' = [loc EXCEPT ![c] = new]
      BY <2>1
    <3>2. told \in Item
      BY <2>2, <2>3, AssignedTyped
    <3>3. 50 \in Level
      BY DEF Level
    <3> QED
      BY <2>2, <3>1, <3>2, <3>3, AssignedTyped DEF TypeOK
  <2>5. second' \in [sys.comps -> Item]
    <3>1. [val |-> r.slot, pref |-> 60] \in Item
      BY <2>3 DEF Item, Level
    <3>2. second \in [sys.comps -> Item]
      BY DEF TypeOK
    <3> QED
      BY <2>1, <3>1, <3>2
  <2> QED
    BY <1>2, <2>4, <2>5, FillCases DEF TypeOK
<1>3. ASSUME NEW c \in sys.comps, PostProcess(c) PROVE TypeOK'
  <2>1. PICK checked \in Checked(c) :
          \/ loc' = [loc EXCEPT ![c] = checked] /\ second' = second
          \/ /\ \E new \in Assigned(checked, Physical(c), 70) : loc' = [loc EXCEPT ![c] = new]
             /\ \E new \in Assigned(second[c], checked.val, 90) : second' = [second EXCEPT ![c] = new]
    BY <1>3, PostCases
  <2>2. checked \in Item /\ checked.val \in Location /\ Physical(c) \in Location /\ second[c] \in Item
    BY CheckedCases, PhysicalTyped DEF TypeOK, Item
  <2>3. loc' \in [sys.comps -> Item] /\ second' \in [sys.comps -> Item]
    BY <2>1, <2>2, AssignedTyped DEF TypeOK, Level
  <2> QED
    BY <1>3, <2>3, PostCases DEF TypeOK
<1>4. CASE NextPass
  BY <1>4 DEF NextPass, After, TypeOK
<1>5. CASE UNCHANGED vars
  BY <1>5 DEF vars, TypeOK
<1> QED
  BY <1>1, <1>2, <1>3, <1>4, <1>5, NextCases

\* Type correctness of the three passes, for every system.
THEOREM TypeCorrect == Spec => []TypeOK
BY InitTyped, NextTyped, PTL DEF Spec

-----------------------------------------------------------------------------
(* What firmware says stays.                                               *)

\* It has its code from the first pass on.
FirmInv ==
  \A c \in sys.comps : Placed(c) =>
    IF stage = "locate" /\ c \in todo THEN loc[c] = Unset
    ELSE loc[c] = [val |-> NearestCode(c), pref |-> 90]

\* A code that is less preferred is not set.
LEMMA LessPreferred ==
  ASSUME NEW old, NEW val, NEW pref \in Nat, old.pref \in Nat, pref < old.pref,
         NEW new \in Assigned(old, val, pref)
  PROVE  new = old
BY DEF Assigned

LEMMA FirmNext == TypeOK /\ FirmInv /\ [Next]_vars => FirmInv'
<1> SUFFICES ASSUME TypeOK, FirmInv, [Next]_vars PROVE FirmInv'
  OBVIOUS
<1>1. sys' = sys
  BY NextCases, LocateCases, FillCases, PostCases DEF NextPass, vars
<1>0. ASSUME NEW d \in sys.comps
      PROVE  NearestCode(d)' = NearestCode(d) /\ (Placed(d)' <=> Placed(d))
  <2>1. NearestCode(d)' = NearestCode(d)
    BY <1>1 DEF NearestCode
  <2> QED
    BY <1>1, <2>1 DEF Placed
<1> SUFFICES ASSUME NEW d \in sys.comps, Placed(d)
             PROVE  (IF stage = "locate" /\ d \in todo THEN loc[d] = Unset
                     ELSE loc[d] = [val |-> NearestCode(d), pref |-> 90])'
  BY <1>0, <1>1 DEF FirmInv
<1>2. NearestCode(d)' = NearestCode(d)
  BY <1>0
<1>3. IF stage = "locate" /\ d \in todo THEN loc[d] = Unset
      ELSE loc[d] = [val |-> NearestCode(d), pref |-> 90]
  BY DEF FirmInv
<1>4. d \in DOMAIN loc /\ loc \in [sys.comps -> Item]
  BY DEF TypeOK
<1>5. ASSUME NEW c \in sys.comps, Locate(c) PROVE (IF stage = "locate" /\ d \in todo THEN loc[d] = Unset
                     ELSE loc[d] = [val |-> NearestCode(d), pref |-> 90])'
  <2>1. PICK item \in Quick(c) :
          \/ loc' = [loc EXCEPT ![c] = item]
          \/ \E code \in Location : \E new \in Assigned(item, code, 60) : loc' = [loc EXCEPT ![c] = new]
    BY <1>5, LocateCases
  <2>2. CASE d # c
    BY <1>2, <1>3, <1>4, <1>5, <2>1, <2>2, LocateCases
  <2>3. CASE d = c
    <3>1. loc[c] = Unset /\ d \notin todo'
      BY <1>3, <1>5, <2>3, LocateCases
    <3>2. item \in Assigned(Unset, NearestCode(c), 90)
      BY <2>3, <3>1 DEF Quick, Placed, IsU
    <3>3. item = [val |-> NearestCode(c), pref |-> 90]
      BY <3>2, AssignedCases DEF Unset
    <3>4. loc'[c] = item
      BY <1>4, <2>1, <3>3, LessPreferred DEF TypeOK
    <3> QED
      BY <1>2, <2>3, <3>1, <3>3, <3>4
  <2> QED
    BY <2>2, <2>3
<1>6. ASSUME NEW c \in sys.comps, Fill(c) PROVE (IF stage = "locate" /\ d \in todo THEN loc[d] = Unset
                     ELSE loc[d] = [val |-> NearestCode(d), pref |-> 90])'
  <2>1. PICK r \in sys.reports[c] :
          /\ r \in Report
          /\ \E told \in Assigned(loc[c], r.told.val, r.told.pref) :
               \/ loc' = [loc EXCEPT ![c] = told]
               \/ \E new \in Assigned(told, BusName(c), 50) : loc' = [loc EXCEPT ![c] = new]
    BY <1>6, FillCases
  <2>2. CASE d # c
    BY <1>2, <1>3, <1>4, <1>6, <2>1, <2>2, FillCases
  <2>3. CASE d = c
    <3>1. loc[c] = [val |-> NearestCode(c), pref |-> 90] /\ stage' = "fill"
      BY <1>3, <1>6, <2>3, FillCases
    <3>2. r.told.pref \in Nat /\ r.told.pref < 90
      BY <2>1, <2>3 DEF Placed, Report
    <3>3. PICK told \in Assigned(loc[c], r.told.val, r.told.pref) :
               \/ loc' = [loc EXCEPT ![c] = told]
               \/ \E new \in Assigned(told, BusName(c), 50) : loc' = [loc EXCEPT ![c] = new]
      BY <2>1
    <3>4. told = loc[c]
      BY <3>1, <3>2, LessPreferred
    <3>5. loc'[c] = loc[c]
      BY <1>4, <3>1, <3>3, <3>4, LessPreferred
    <3> QED
      BY <1>2, <2>3, <3>1, <3>5
  <2> QED
    BY <2>2, <2>3
<1>7. ASSUME NEW c \in sys.comps, PostProcess(c) PROVE (IF stage = "locate" /\ d \in todo THEN loc[d] = Unset
                     ELSE loc[d] = [val |-> NearestCode(d), pref |-> 90])'
  <2>1. PICK checked \in Checked(c) :
          \/ loc' = [loc EXCEPT ![c] = checked]
          \/ \E new \in Assigned(checked, Physical(c), 70) : loc' = [loc EXCEPT ![c] = new]
    BY <1>7, PostCases
  <2>2. CASE d # c
    BY <1>2, <1>3, <1>4, <1>7, <2>1, <2>2, PostCases
  <2>3. CASE d = c
    <3>1. loc[c] = [val |-> NearestCode(c), pref |-> 90] /\ stage' = "post"
      BY <1>3, <1>7, <2>3, PostCases
    <3>2. checked = loc[c]
      BY <2>3, <3>1 DEF Checked, Placed
    <3>3. loc'[c] = loc[c]
      BY <1>4, <2>1, <3>1, <3>2, LessPreferred
    <3> QED
      BY <1>2, <2>3, <3>1, <3>3
  <2> QED
    BY <2>2, <2>3
<1>8. CASE NextPass
  BY <1>2, <1>3, <1>8 DEF NextPass, After, TypeOK
<1>9. CASE UNCHANGED vars
  BY <1>2, <1>3, <1>9 DEF vars
<1> QED
  BY <1>5, <1>6, <1>7, <1>8, <1>9, NextCases

\* What firmware says of a component's place survives the three passes.
THEOREM FirmwareCodeSurvives == Spec => []FirmwareCodeStays
<1>1. Init => FirmInv
  BY DEF Init, FirmInv, Placed
<1>2. FirmInv => FirmwareCodeStays
  <2> SUFFICES ASSUME FirmInv, stage = "done", NEW c \in sys.comps, Placed(c)
               PROVE  loc[c].val = NearestCode(c)
    BY DEF FirmwareCodeStays
  <2>1. loc[c] = [val |-> NearestCode(c), pref |-> 90]
    <3>1. stage # "locate"
      OBVIOUS
    <3> QED
      BY <3>1 DEF FirmInv
  <2> QED
    BY <2>1
<1> QED
  BY <1>1, <1>2, FirmNext, TypeCorrect, PTL DEF Spec

-----------------------------------------------------------------------------
(* What postProcess leaves of a component.                                 *)

LEMMA LineAbove ==
  ASSUME System(sys), Lined(sys), NEW c \in sys.comps
  PROVE  /\ c \notin AboveOf(c)
         /\ Above(c) = None => AboveOf(c) = {}
         /\ Above(c) # None => /\ Above(c) \in sys.comps
                              /\ AboveOf(c) = AboveOf(Above(c)) \cup {Above(c)}
<1> DEFINE l == Line(c)
           n == Len(l)
<1>1. l \in Seq(sys.comps) /\ n \in Nat /\ n # 0 /\ \A i \in 1 .. n : l[i] \in sys.comps
  BY AboveOfTyped
<1>2. \A i \in 1 .. n : sys.line[l[i]] = SubSeq(l, 1, i)
  BY <1>1 DEF Lined, Line
<1>3. \A i \in 1 .. n : /\ Len(SubSeq(l, 1, i)) = i
                         /\ \A j \in 1 .. i : SubSeq(l, 1, i)[j] = l[j]
  BY <1>1, SubSeqProperties
<1>4. c \notin AboveOf(c)
  <2> SUFFICES ASSUME NEW i \in 1 .. n - 1, l[i] = c PROVE FALSE
    BY DEF AboveOf
  <2>1. l = SubSeq(l, 1, i) /\ i \in 1 .. n
    BY <1>1, <1>2 DEF Line
  <2> QED
    BY <1>1, <1>3, <2>1
<1>5. ASSUME n = 1 PROVE Above(c) = None /\ AboveOf(c) = {}
  BY <1>5 DEF Above, AboveOf
<1>6. ASSUME n # 1
      PROVE  Above(c) # None /\ Above(c) \in sys.comps /\ AboveOf(c) = AboveOf(Above(c)) \cup {Above(c)}
  <2> DEFINE m == n - 1
  <2>1. m \in 1 .. n /\ m \in Nat /\ m # 0
    <3>1. \A k \in Nat : k # 0 /\ k # 1 => k - 1 \in 1 .. k /\ k - 1 \in Nat /\ k - 1 # 0
      OBVIOUS
    <3> QED
      BY <1>1, <1>6, <3>1
  <2>2. Above(c) = l[m] /\ Above(c) \in sys.comps
    BY <1>1, <1>6, <2>1 DEF Above
  <2>3. Above(c) # None
    BY <2>2, LocationAssumption DEF System
  <2>4. Line(Above(c)) = SubSeq(l, 1, m) /\ Len(Line(Above(c))) = m
    BY <1>2, <1>3, <2>1, <2>2 DEF Line
  <2>5. AboveOf(Above(c)) = {l[i] : i \in 1 .. m - 1}
    BY <1>3, <2>1, <2>4 DEF AboveOf
  <2>6. 1 .. n - 1 = (1 .. m - 1) \cup {m}
    BY <2>1
  <2>7. AboveOf(c) = {l[i] : i \in (1 .. m - 1) \cup {m}}
    BY <2>6 DEF AboveOf
  <2> QED
    BY <2>2, <2>3, <2>5, <2>7
<1> QED
  BY <1>4, <1>5, <1>6

\* Before it is post-processed a component has no code made of a slot, and what
\* is kept for one is a slot that was reported.
Unslotted(c) ==
  /\ loc[c].pref # 70
  /\ second[c].val # << >> => \E r \in sys.reports[c] : second[c].val = r.slot

\* The two properties, of one component.
SlotOk(c) ==
  loc[c].pref = 70 =>
    \E r \in sys.reports[c] :
      loc[c].val = (IF LocOf(Above(c)) # << >> THEN LocOf(Above(c)) ELSE NodeCode(Above(c))) \o r.slot

LocatedOk(c) ==
  (\E a \in AboveOf(c) : IsU(loc[a].val)) =>
    \/ IsU(loc[c].val)
    \/ loc[c].pref >= 90
    \/ loc[c].pref = 70 /\ ~IsU(LocOf(Above(c)))
    \/ sys.major[c] = "other"

\* They hold of what is post-processed, which changes no more: nothing above it
\* is still to be visited.
PostInv ==
  /\ stage = "done" => todo = {}
  /\ \A c \in sys.comps : stage \in {"locate", "fill"} \/ c \in todo => Unslotted(c)
  /\ \A c \in sys.comps : stage \in {"post", "done"} /\ c \notin todo =>
       AboveOf(c) \cap todo = {} /\ SlotOk(c) /\ LocatedOk(c)

LEMMA PostStep ==
  ASSUME TypeOK, NEW c \in sys.comps, PostProcess(c), Unslotted(c)
  PROVE  SlotOk(c)' /\ LocatedOk(c)'
<1>1. System(sys) /\ Lined(sys) /\ loc \in [sys.comps -> Item] /\ c \in DOMAIN loc
  BY SystemTyped DEF TypeOK
<1>2. PICK checked \in Checked(c) :
        \/ loc' = [loc EXCEPT ![c] = checked] /\ (sys.bus[c] # "scsi" \/ second[c].val = << >>)
        \/ /\ second[c].val # << >>
           /\ \E new \in Assigned(checked, Physical(c), 70) : loc' = [loc EXCEPT ![c] = new]
  BY <1>1 DEF PostProcess
<1>3. sys' = sys
  BY PostCases
<1>4. \A a \in AboveOf(c) : loc'[a] = loc[a]
  <2>1. c \notin AboveOf(c) /\ AboveOf(c) \subseteq sys.comps
    BY <1>1, LineAbove, AboveOfTyped
  <2>2. \E new : loc' = [loc EXCEPT ![c] = new]
    BY <1>2
  <2> QED
    BY <1>1, <2>1, <2>2
<1>5. AboveOf(c)' = AboveOf(c) /\ Above(c)' = Above(c) /\ NodeCode(Above(c))' = NodeCode(Above(c))
  BY <1>3 DEF AboveOf, Above, NodeCode, Line
<1>6. LocOf(Above(c))' = LocOf(Above(c))
  BY <1>1, <1>4, <1>5, LineAbove DEF LocOf
<1>7. /\ checked \in Item /\ checked.pref \in Nat
      /\ \/ /\ checked = loc[c]
            /\ \/ IsU(loc[c].val)
               \/ \A a \in AboveOf(c) : ~IsU(loc[a].val)
               \/ sys.major[c] = "other"
               \/ loc[c].pref >= 90
         \/ IsU(checked.val) /\ checked.pref = 90
  BY CheckedCases DEF Item, Level
<1>8. checked.pref # 70
  BY <1>7 DEF Unslotted
<1>9. CASE loc'[c] = checked
  <2>1. SlotOk(c)'
    BY <1>8, <1>9 DEF SlotOk
  <2>2. LocatedOk(c)'
    BY <1>3, <1>4, <1>5, <1>7, <1>9 DEF LocatedOk
  <2> QED
    BY <2>1, <2>2
<1>10. CASE loc'[c] # checked
  <2>1. loc'[c] \in Assigned(checked, Physical(c), 70) /\ second[c].val # << >>
    BY <1>1, <1>2, <1>10
  <2>2. loc'[c] = [val |-> Physical(c), pref |-> 70]
    BY <1>7, <1>10, <2>1, AssignedCases
  <2>3. PICK r \in sys.reports[c] : second[c].val = r.slot
    BY <2>1 DEF Unslotted
  <2>4. SlotOk(c)'
    <3>0. Physical(c) = (IF LocOf(Above(c)) # << >> THEN LocOf(Above(c)) ELSE NodeCode(Above(c))) \o r.slot
      BY <2>3, Zenon DEF Physical
    <3>1. loc'[c].val = (IF LocOf(Above(c)) # << >> THEN LocOf(Above(c)) ELSE NodeCode(Above(c))) \o r.slot
      <4>1. [val |-> Physical(c), pref |-> 70].val = Physical(c)
        OBVIOUS
      <4> QED
        BY <2>2, <3>0, <4>1, Zenon
    <3> QED
      BY <1>3, <1>5, <1>6, <3>1 DEF SlotOk
  <2>5. LocatedOk(c)'
    <3>1. CASE IsU(LocOf(Above(c)))
      <4>1. LocOf(Above(c)) # << >>
        BY <3>1 DEF IsU
      <4>2. LocOf(Above(c)) \in Location /\ second[c].val \in Location
        BY <1>1, AboveTyped, LocTyped DEF TypeOK, Item
      <4>3. IsU(Physical(c))
        BY <3>1, <4>1, <4>2, HeadIsFirst DEF Physical
      <4>4. IsU(loc'[c].val)
        BY <2>2, <4>3
      <4> QED
        BY <4>4 DEF LocatedOk, IsU
    <3>2. CASE ~IsU(LocOf(Above(c)))
      <4>1. ~IsU(LocOf(Above(c))')
        BY <1>6, <3>2
      <4> QED
        BY <2>2, <4>1 DEF LocatedOk, IsU
    <3> QED
      BY <3>1, <3>2
  <2> QED
    BY <2>4, <2>5
<1> QED
  BY <1>9, <1>10

LEMMA PostInvNext == TypeOK /\ PostInv /\ [Next]_vars => PostInv'
<1> SUFFICES ASSUME TypeOK, PostInv, [Next]_vars PROVE PostInv'
  OBVIOUS
<1>1. /\ System(sys) /\ Lined(sys)
      /\ loc \in [sys.comps -> Item] /\ second \in [sys.comps -> Item] /\ todo \subseteq sys.comps
      /\ stage \in {"locate", "fill", "post", "done"}
  BY SystemTyped DEF TypeOK
<1>2. sys' = sys
  BY NextCases, LocateCases, FillCases, PostCases DEF NextPass, vars
<1>3. ASSUME NEW c \in sys.comps, Locate(c) PROVE PostInv'
  <2>1. PICK item \in Quick(c) :
          \/ loc' = [loc EXCEPT ![c] = item]
          \/ \E code \in Location : \E new \in Assigned(item, code, 60) : loc' = [loc EXCEPT ![c] = new]
    BY <1>3, LocateCases
  <2>2. stage = "locate" /\ stage' = "locate" /\ second' = second /\ todo' = todo \ {c}
    BY <1>3, LocateCases
  <2>3. item.pref \in Nat /\ item.pref # 70
    <3>1. loc[c].pref # 70 /\ loc[c].pref \in Nat
      <4>1. Unslotted(c)
        BY <2>2 DEF PostInv
      <4>2. loc[c].pref # 70
        BY <4>1 DEF Unslotted
      <4>3. loc[c] \in Item
        BY <1>1
      <4>4. loc[c].pref \in Level
        BY <4>3 DEF Item
      <4> QED
        BY <4>2, <4>4 DEF Level
    <3> QED
      BY <3>1, AssignedCases DEF Quick
  <2>4. loc'[c].pref # 70
    <3>1. ASSUME NEW code \in Location, NEW new \in Assigned(item, code, 60) PROVE new.pref # 70
      BY <2>3, AssignedCases
    <3> QED
      BY <1>1, <2>1, <2>3, <3>1
  <2>5. \A d \in sys.comps : d # c => loc'[d] = loc[d]
    BY <1>1, <2>1
  <2>6. \A d \in sys.comps : Unslotted(d)'
    BY <1>1, <1>2, <2>2, <2>4, <2>5 DEF PostInv, Unslotted
  <2> QED
    BY <1>2, <2>2, <2>6 DEF PostInv
<1>4. ASSUME NEW c \in sys.comps, Fill(c) PROVE PostInv'
  <2>1. PICK r \in sys.reports[c] :
          /\ r \in Report
          /\ \E told \in Assigned(loc[c], r.told.val, r.told.pref) :
               \/ loc' = [loc EXCEPT ![c] = told]
               \/ \E new \in Assigned(told, BusName(c), 50) : loc' = [loc EXCEPT ![c] = new]
          /\ \/ second' = second
             \/ second' = [second EXCEPT ![c] = [val |-> r.slot, pref |-> 60]]
    BY <1>4, FillCases
  <2>2. stage = "fill" /\ stage' = "fill" /\ todo' = todo \ {c}
    BY <1>4, FillCases
  <2>3. PICK told \in Assigned(loc[c], r.told.val, r.told.pref) :
               \/ loc' = [loc EXCEPT ![c] = told]
               \/ \E new \in Assigned(told, BusName(c), 50) : loc' = [loc EXCEPT ![c] = new]
    BY <2>1
  <2>4. told.pref \in Nat /\ told.pref # 70
    <3>1. loc[c].pref # 70 /\ loc[c].pref \in Nat
      <4>1. Unslotted(c)
        BY <2>2 DEF PostInv
      <4>2. loc[c].pref # 70
        BY <4>1 DEF Unslotted
      <4>3. loc[c] \in Item
        BY <1>1
      <4>4. loc[c].pref \in Level
        BY <4>3 DEF Item
      <4> QED
        BY <4>2, <4>4 DEF Level
    <3>2. r.told.pref \in Nat /\ r.told.pref # 70
      BY <2>1 DEF Report
    <3> QED
      BY <3>1, <3>2, AssignedCases
  <2>5. loc'[c].pref # 70
    <3>1. ASSUME NEW new \in Assigned(told, BusName(c), 50) PROVE new.pref # 70
      BY <2>4, AssignedCases
    <3> QED
      BY <1>1, <2>3, <2>4, <3>1
  <2>6. \A d \in sys.comps : d # c => loc'[d] = loc[d] /\ second'[d] = second[d]
    BY <1>1, <2>1, <2>3
  <2>7. \A d \in sys.comps : Unslotted(d)
    BY <2>2 DEF PostInv
  <2>8. Unslotted(c)'
    <3>1. second'[c] = second[c] \/ second'[c].val = r.slot
      BY <1>1, <2>1
    <3> QED
      BY <1>2, <2>5, <2>7, <3>1 DEF Unslotted
  <2>9. \A d \in sys.comps : Unslotted(d)'
    BY <1>2, <2>6, <2>7, <2>8 DEF Unslotted
  <2> QED
    BY <1>2, <2>2, <2>9 DEF PostInv
<1>5. ASSUME NEW c \in sys.comps, PostProcess(c) PROVE PostInv'
  <2>1. stage = "post" /\ stage' = "post" /\ c \in todo /\ todo' = todo \ {c} /\ Above(c) \notin todo
    BY <1>5, PostCases
  <2>2. \A d \in sys.comps : d # c => loc'[d] = loc[d] /\ second'[d] = second[d]
    BY <1>1, <1>5, PostCases
  <2>3. SlotOk(c)' /\ LocatedOk(c)'
    BY <1>5, <2>1, PostStep DEF PostInv
  <2>4. AboveOf(c) \cap todo = {}
    BY <1>1, <2>1, LineAbove DEF PostInv
  <2>5. ASSUME NEW d \in sys.comps PROVE AboveOf(d)' = AboveOf(d)
    BY <1>2 DEF AboveOf, Line
  <2>6. ASSUME NEW d \in sys.comps, d \notin todo
        PROVE  AboveOf(d) \cap todo' = {} /\ SlotOk(d)' /\ LocatedOk(d)'
    <3>1. AboveOf(d) \cap todo = {} /\ SlotOk(d) /\ LocatedOk(d) /\ d # c
      BY <2>1, <2>6 DEF PostInv
    <3>2. \A a \in AboveOf(d) \cup {d} : loc'[a] = loc[a]
      BY <1>1, <2>1, <2>2, <3>1, AboveOfTyped
    <3>3. Above(d)' = Above(d) /\ NodeCode(Above(d))' = NodeCode(Above(d))
      BY <1>2 DEF Above, NodeCode, Line
    <3>4. LocOf(Above(d))' = LocOf(Above(d))
      BY <1>1, <3>2, <3>3, LineAbove DEF LocOf
    <3>5. SlotOk(d)'
      <4>1. loc'[d] = loc[d] /\ sys'.reports[d] = sys.reports[d]
        BY <1>2, <3>2
      <4> QED
        BY <3>1, <3>3, <3>4, <4>1, Zenon DEF SlotOk
    <3>6. LocatedOk(d)'
      BY <1>2, <2>5, <3>1, <3>2, <3>4 DEF LocatedOk, IsU
    <3> QED
      BY <2>1, <3>1, <3>5, <3>6
  <2>7. \A d \in sys.comps : d \in todo' => Unslotted(d)'
    BY <1>2, <2>1, <2>2 DEF PostInv, Unslotted
  <2> QED
    BY <1>2, <2>1, <2>3, <2>4, <2>5, <2>6, <2>7 DEF PostInv
<1>6. CASE NextPass
  <2>1. loc' = loc /\ second' = second /\ todo = {} /\ stage' = After(stage) /\ stage # "done"
        /\ todo' = IF stage' = "done" THEN {} ELSE sys.comps
    BY <1>6 DEF NextPass
  <2>2. \A d \in sys.comps : Unslotted(d)' <=> Unslotted(d)
    BY <1>2, <2>1 DEF Unslotted
  <2>3. \A d \in sys.comps : /\ SlotOk(d)' <=> SlotOk(d)
                             /\ LocatedOk(d)' <=> LocatedOk(d)
    BY <1>2, <2>1 DEF SlotOk, LocatedOk, LocOf, Above, NodeCode, Line, IsU, AboveOf
  <2>4. CASE stage \in {"locate", "fill"}
    BY <1>2, <2>1, <2>2, <2>4 DEF PostInv, After
  <2>5. CASE stage = "post"
    <3>1. stage' = "done" /\ todo' = {}
      BY <2>1, <2>5 DEF After
    <3> QED
      BY <1>2, <2>1, <2>3, <2>5, <3>1 DEF PostInv
  <2> QED
    BY <1>1, <2>1, <2>4, <2>5
<1>7. CASE UNCHANGED vars
  <2>1. loc' = loc /\ second' = second /\ todo' = todo /\ stage' = stage
    BY <1>7 DEF vars
  <2>2. \A d \in sys.comps : /\ Unslotted(d)' <=> Unslotted(d)
                             /\ SlotOk(d)' <=> SlotOk(d)
                             /\ LocatedOk(d)' <=> LocatedOk(d)
                             /\ AboveOf(d)' = AboveOf(d)
    BY <1>2, <2>1 DEF Unslotted, SlotOk, LocatedOk, LocOf, Above, NodeCode, Line, IsU, AboveOf
  <2> QED
    BY <1>2, <2>1, <2>2 DEF PostInv
<1> QED
  BY <1>3, <1>4, <1>5, <1>6, <1>7, NextCases

LEMMA PostInvHolds == Spec => []PostInv
<1>1. Init => PostInv
  <2> SUFFICES ASSUME Init, NEW c \in sys.comps PROVE Unslotted(c) /\ stage = "locate"
    BY DEF Init, PostInv
  <2>1. loc[c].pref \in {0, 90} /\ second[c].val = << >>
    BY DEF Init, Unset
  <2> QED
    BY <2>1 DEF Init, Unslotted
<1> QED
  BY <1>1, PostInvNext, TypeCorrect, PTL DEF Spec

\* A disk in a slot is below the location its parent ends with.
THEOREM SlotsBelowParents == Spec => []SlotBelowParent
<1>1. PostInv => SlotBelowParent
  BY DEF PostInv, SlotBelowParent, SlotOk
<1> QED
  BY <1>1, PostInvHolds, PTL

\* Below a component with a code of the platform's form others have one too.
THEOREM EverythingLocated == Spec => []LocatedBelow
<1>1. PostInv => LocatedBelow
  BY DEF PostInv, LocatedBelow, LocatedOk
<1> QED
  BY <1>1, PostInvHolds, PTL

-----------------------------------------------------------------------------
(* The port of a disk on USB.                                              *)

\* A number has one quotient and one rest.
LEMMA OneRest ==
  ASSUME NEW m \in Nat, NEW a \in Nat, NEW b \in Nat, NEW p \in 1 .. m, NEW q \in 1 .. m, a * m + p = b * m + q
  PROVE  a = b /\ p = q
<1>1. \A x, y \in Nat : x < y => x * m + m <= y * m
  <2>1. ASSUME NEW x \in Nat, NEW y \in Nat, x < y PROVE x * m + m <= y * m
    <3>1. PICK z \in Nat : y = x + 1 + z
      <4>1. y - x - 1 \in Nat /\ y = x + 1 + (y - x - 1)
        BY <2>1
      <4> QED
        BY <4>1
    <3>2. y * m = x * m + m + z * m
      BY <3>1
    <3>3. z * m \in Nat /\ x * m \in Nat
      OBVIOUS
    <3> QED
      BY <3>2, <3>3
  <2> QED
    BY <2>1
<1>2. a * m \in Nat /\ b * m \in Nat
  OBVIOUS
<1>3. ~ (a < b) /\ ~ (b < a)
  BY <1>1, <1>2
<1>4. a = b
  BY <1>3
<1> QED
  BY <1>2, <1>4

\* What a node that lists the ports of a disk's controller has at the number
\* fillLocCode comes to is nothing, or the code of the disk's own port.
LEMMA ListedPort ==
  ASSUME Socketed(sys), NEW c, Numbered(c), NEW n, Lists(n, sys.usb[UsbDevice(c)].bus),
         NEW l \in PortsBelow(n, RawPort(UsbDevice(c), RootHub(c)))
  PROVE  l = sys.socket[Socket(c)]
<1> DEFINE b == sys.usb[UsbDevice(c)].bus
           p == sys.usb[UsbDevice(c)].port
           m == sys.hubPorts
           r == sys.rootHubs
           raw == RawPort(UsbDevice(c), RootHub(c))
<1>1. b \in Nat /\ b # 0 /\ p \in 1 .. m /\ m \in Nat /\ r \in Nat
  BY DEF Socketed, Numbered, Socket
<1>2. raw = (b - 1) * m + p
  <2>1. raw = (IF b > 1 THEN (b - 1) * m ELSE 0) + p
    BY DEF RawPort, Numbered
  <2>2. b > 1 \/ b - 1 = 0
    BY <1>1
  <2>3. 0 * m = 0
    BY <1>1
  <2> HIDE DEF b, p, m, raw
  <2> QED
    BY <1>1, <2>1, <2>2, <2>3
<1>3. raw \in DOMAIN sys.ports[n] /\ l = sys.ports[n][raw] /\ l # None
  BY DEF PortsBelow
<1>4. PICK k \in 0 .. b, h \in 1 .. r, q \in 1 .. m :
        /\ k * r < b /\ raw = (h - 1) * m + q /\ l = sys.socket[<<k * r + h, q>>]
  BY <1>3 DEF Lists
<1> HIDE DEF raw, b, p, m, r
<1>5. b - 1 \in Nat /\ h - 1 \in Nat
  BY <1>1, <1>4
<1>6. b - 1 = h - 1 /\ p = q
  BY <1>1, <1>2, <1>4, <1>5, OneRest
<1>7. b = h
  BY <1>1, <1>4, <1>6
<1>8. k = 0
  <2> SUFFICES ASSUME k # 0 PROVE FALSE
    OBVIOUS
  <2>1. PICK j \in Nat : k = 1 + j
    <3>1. k - 1 \in Nat /\ k = 1 + (k - 1)
      BY <1>1, <1>4
    <3> QED
      BY <3>1
  <2>2. k * r = r + j * r /\ j * r \in Nat
    BY <1>1, <2>1
  <2> QED
    BY <1>1, <1>4, <1>7, <2>2
<1>9. k * r + h = b
  BY <1>1, <1>4, <1>7, <1>8
<1> QED
  BY <1>4, <1>6, <1>9 DEF Socket, b, p

\* What buildSCSILocCode finds is the code of the disk's own port, or nothing.
LEMMA PortFound ==
  ASSUME Socketed(sys), NEW c, Plugged(c), UsbCodes(c) # {<< >>}
  PROVE  \A l \in UsbCodes(c) : l = sys.socket[Socket(c)]
<1> DEFINE raw == RawPort(UsbDevice(c), RootHub(c))
           near == UNION {PortsBelow(n, raw) : n \in NodeOf(Interface(c))}
           far == UNION {PortsBelow(h, raw) : h \in UNION {sys.hubs[n] : n \in NodeOf(RootHub(c))}}
<1>1. Numbered(c) /\ UsbCodes(c) = IF near # {} THEN near ELSE IF far # {} THEN far ELSE {<< >>}
  BY DEF Plugged, UsbCodes, PortCodes
<1>2. ASSUME NEW n \in NodeOf(Interface(c)), NEW l \in PortsBelow(n, raw)
      PROVE  l = sys.socket[Socket(c)]
  BY <1>1, ListedPort DEF Numbered
<1>3. ASSUME NEW n \in NodeOf(RootHub(c)), NEW h \in sys.hubs[n], NEW l \in PortsBelow(h, raw)
      PROVE  l = sys.socket[Socket(c)]
  BY <1>1, ListedPort DEF Numbered
<1> HIDE DEF raw
<1>4. \A l \in near : l = sys.socket[Socket(c)]
  BY <1>2
<1>5. \A l \in far : l = sys.socket[Socket(c)]
  BY <1>3
<1> QED
  BY <1>1, <1>4, <1>5

-----------------------------------------------------------------------------
(* What is not another port's code.                                        *)

\* What is put behind something is no port's code, unless it is one itself.
LEMMA BehindOther ==
  ASSUME Socketed(sys), NEW c, NEW l \in Location, NEW k \in Location, k # << >>, ~IsU(k)
  PROVE  ~OfOther(c, l \o k)
<1> SUFFICES ASSUME OfOther(c, l \o k) PROVE FALSE
  OBVIOUS
<1>1. PICK x \in Names : l \o k = << <<"U", x>> >>
  BY DEF OfOther, Socketed
<1>2. Len(l \o k) = Len(l) + Len(k) /\ Len(l) \in Nat /\ Len(k) \in Nat /\ Len(k) # 0
  BY ConcatProperties, EmptySeq, LenProperties DEF Location
<1>3. Len(l \o k) = 1
  BY <1>1
<1>4. Len(l) = 0
  BY <1>2, <1>3
<1>5. l = << >>
  BY <1>4, EmptySeq DEF Location
<1>6. l \o k = k
  BY <1>5 DEF Location
<1>7. k = << <<"U", x>> >>
  BY <1>1, <1>6
<1>8. k[1] = <<"U", x>>
  BY <1>7
<1>9. k[1][1] = "U"
  BY <1>8
<1> QED
  BY <1>9 DEF IsU

\* A code of two parts is no port's.
LEMMA TwoParts ==
  ASSUME Socketed(sys), NEW c, NEW l \in Location, NEW k \in Location, l # << >>, k # << >>
  PROVE  ~OfOther(c, l \o k)
<1> SUFFICES ASSUME OfOther(c, l \o k) PROVE FALSE
  OBVIOUS
<1>1. PICK x \in Names : l \o k = << <<"U", x>> >>
  BY DEF OfOther, Socketed
<1>2. Len(l \o k) = Len(l) + Len(k) /\ Len(l) \in Nat /\ Len(k) \in Nat /\ Len(k) # 0 /\ Len(l) # 0
  BY ConcatProperties, EmptySeq, LenProperties DEF Location
<1>3. Len(l \o k) = 1
  BY <1>1
<1> QED
  BY <1>2, <1>3

\* Nothing is no port's code.
LEMMA NothingOther == ASSUME Socketed(sys), NEW c PROVE ~OfOther(c, << >>)
<1> SUFFICES ASSUME OfOther(c, << >>) PROVE FALSE
  OBVIOUS
<1>1. PICK x \in Names : << >> = << <<"U", x>> >>
  BY DEF OfOther, Socketed
<1>2. Len(<< <<"U", x>> >>) = 1 /\ Len(<< >>) = 0
  OBVIOUS
<1> QED
  BY <1>1, <1>2

\* The nearest code is one of the component's path.
LEMMA NearestSaid ==
  ASSUME System(sys), NEW a \in sys.comps
  PROVE  NearestCode(a) = << >> \/ NearestCode(a) \in Said(a)
<1> DEFINE p == sys.path[a]
           coded == {i \in DOMAIN p : sys.code[p[i]] # << >>}
<1>1. p \in Seq(Nodes)
  BY DEF System
<1>2. CASE coded = {}
  BY <1>2 DEF NearestCode
<1>3. CASE coded # {}
  <2>1. Len(p) \in Nat /\ coded \in SUBSET (0 .. Len(p))
    BY <1>1, LenProperties
  <2>2. \E i \in coded : \A j \in coded : j <= i
    <3> HIDE DEF coded
    <3> QED
      BY <1>3, <2>1, Greatest
  <2>3. PICK i \in coded : NearestCode(a) = sys.code[p[i]]
    BY <1>3, <2>2 DEF NearestCode
  <2> QED
    BY <2>3 DEF Said
<1> QED
  BY <1>2, <1>3

\* The base is the location of a component above.
LEMMA BaseAbove ==
  ASSUME System(sys), Lined(sys), NEW c \in sys.comps
  PROVE  BaseLoc(c) = << >> \/ \E a \in AboveOf(c) : BaseLoc(c) = loc[a].val
<1> DEFINE l == Line(c)
           coded == {i \in 1 .. Len(l) - 1 : IsU(loc[l[i]].val)}
<1>1. Len(l) \in Nat /\ Len(l) # 0
  BY AboveOfTyped
<1>2. CASE coded = {}
  BY <1>2 DEF BaseLoc
<1>3. CASE coded # {}
  <2>1. Len(l) - 1 \in Nat /\ coded \in SUBSET (0 .. Len(l) - 1)
    BY <1>1
  <2>2. \E i \in coded : \A j \in coded : j <= i
    <3> DEFINE n == Len(l) - 1
    <3>1. n \in Nat /\ coded \in SUBSET (0 .. n)
      BY <2>1
    <3> HIDE DEF coded, n
    <3> QED
      BY <1>3, <3>1, Greatest
  <2>3. PICK i \in coded : BaseLoc(c) = loc[l[i]].val
    BY <1>3, <2>2 DEF BaseLoc
  <2> QED
    BY <2>3 DEF AboveOf
<1> QED
  BY <1>2, <1>3

\* What is above a component above is above too.
LEMMA AboveAbove ==
  ASSUME System(sys), Lined(sys), NEW c \in sys.comps, NEW a \in AboveOf(c)
  PROVE  a \in sys.comps /\ AboveOf(a) \subseteq AboveOf(c)
<1> DEFINE l == Line(c)
<1>1. l \in Seq(sys.comps) /\ Len(l) \in Nat /\ Len(l) # 0 /\ \A i \in 1 .. Len(l) : l[i] \in sys.comps
  BY AboveOfTyped
<1>2. PICK i \in 1 .. Len(l) - 1 : a = l[i]
  BY DEF AboveOf
<1>3. i \in 1 .. Len(l)
  BY <1>1, <1>2
<1>4. Line(a) = SubSeq(l, 1, i)
  BY <1>1, <1>2, <1>3 DEF Lined, Line
<1>5. Len(SubSeq(l, 1, i)) = i /\ \A j \in 1 .. i : SubSeq(l, 1, i)[j] = l[j]
  BY <1>1, <1>3, SubSeqProperties
<1>6. ASSUME NEW j \in 1 .. i - 1 PROVE Line(a)[j] = l[j] /\ j \in 1 .. Len(l) - 1
  BY <1>1, <1>2, <1>3, <1>4, <1>5
<1>7. AboveOf(a) \subseteq AboveOf(c)
  BY <1>4, <1>5, <1>6 DEF AboveOf
<1> QED
  BY <1>1, <1>2, <1>3, <1>7

-----------------------------------------------------------------------------
(* The steps of the components a disk hangs on.                            *)

OnLine(c) == AboveOf(c) \cup {c}

\* No component a disk hangs on has another port's code, and what is built for
\* the disk is its own port's where that is found.
OwnOf(c) ==
  /\ \A a \in OnLine(c) : ~OfOther(c, loc[a].val)
  /\ stage = "locate" /\ c \in todo => loc[c].pref # 60
  /\ ~(stage = "locate" /\ c \in todo) /\ loc[c].pref = 60 /\ UsbCodes(c) # {<< >>}
       => loc[c].val = sys.socket[Socket(c)]
OwnInv == \A c \in sys.comps : Plugged(c) => OwnOf(c)

\* What is said of the components a disk hangs on.
LEMMA SaidOfLine ==
  ASSUME TypeOK, NEW c \in sys.comps, Plugged(c), NEW a \in OnLine(c)
  PROVE  /\ a \in sys.comps /\ OnLine(a) \subseteq OnLine(c)
         /\ Unclaimed(c, a) /\ (a # c => a \notin sys.hbtl)
<1>1. System(sys) /\ Lined(sys)
  BY SystemTyped
<1>2. CASE a = c
  BY <1>2 DEF Plugged
<1>3. CASE a \in AboveOf(c)
  <2>1. a \in sys.comps /\ AboveOf(a) \subseteq AboveOf(c)
    BY <1>1, <1>3, AboveAbove
  <2> QED
    BY <1>3, <2>1 DEF Plugged, OnLine
<1> QED
  BY <1>2, <1>3 DEF OnLine

LEMMA BoardTyped == TypeOK => Socketed(sys)
BY LocationAssumption DEF TypeOK

\* A location that may be set for a component c hangs on.
NewOwn(c, a, new) ==
  /\ ~OfOther(c, new.val)
  /\ a = c /\ new.pref = 60 /\ UsbCodes(c) # {<< >>} => new.val = sys.socket[Socket(c)]

\* The first pass.
LEMMA LocateOwn ==
  ASSUME TypeOK, NEW c \in sys.comps, Plugged(c), OwnOf(c), NEW a \in OnLine(c), Locate(a)
  PROVE  \E new : loc' = [loc EXCEPT ![a] = new] /\ NewOwn(c, a, new)
<1>1. System(sys) /\ Lined(sys) /\ Socketed(sys)
  BY SystemTyped, BoardTyped
<1>2. a \in sys.comps /\ Unclaimed(c, a) /\ (a # c => a \notin sys.hbtl)
  BY SaidOfLine
<1>3. PICK item \in Quick(a) :
        IF sys.bus[a] = "scsi" /\ ScsiParent(a) # None /\ a \in sys.hbtl
        THEN \E port \in UsbCodes(a) :
               \E new \in Assigned(item, IF port # << >> THEN port ELSE Built(a, item), 60) :
                 loc' = [loc EXCEPT ![a] = new]
        ELSE loc' = [loc EXCEPT ![a] = item]
  BY DEF Locate
<1>4. item \in Item /\ ~OfOther(c, loc[a].val) /\ loc[a] \in Item
  BY <1>2, QuickTyped DEF OwnOf, TypeOK
<1>5. item = loc[a] \/ (item = [val |-> NearestCode(a), pref |-> 90] /\ NearestCode(a) # << >>)
  <2>1. CASE NearestCode(a) = << >>
    BY <2>1 DEF Quick
  <2>2. CASE NearestCode(a) # << >>
    <3>1. item \in Assigned(loc[a], NearestCode(a), 90)
      BY <2>2 DEF Quick
    <3> QED
      BY <2>2, <3>1 DEF Assigned
  <2> QED
    BY <2>1, <2>2
<1>6. ~OfOther(c, item.val)
  <2>1. NearestCode(a) # << >> => ~OfOther(c, NearestCode(a))
    BY <1>1, <1>2, NearestSaid DEF Unclaimed
  <2> QED
    BY <1>4, <1>5, <2>1
<1>7. a = c => item.pref # 60
  <2>1. a = c => loc[a].pref # 60
    BY DEF OwnOf, Locate, Take
  <2> QED
    BY <1>5, <2>1
<1>8. CASE loc' = [loc EXCEPT ![a] = item]
  BY <1>6, <1>7, <1>8 DEF NewOwn
<1>9. CASE a \in sys.hbtl /\ ~(loc' = [loc EXCEPT ![a] = item])
  <2>1. a = c
    BY <1>2, <1>9
  <2>0. PICK port \in UsbCodes(a) :
          \E new \in Assigned(item, IF port # << >> THEN port ELSE Built(a, item), 60) : loc' = [loc EXCEPT ![a] = new]
    BY <1>3, <1>9
  <2>2. PICK new \in Assigned(item, IF port # << >> THEN port ELSE Built(a, item), 60) : loc' = [loc EXCEPT ![a] = new]
    BY <2>0
  <2>3. new = item \/ new = [val |-> IF port # << >> THEN port ELSE Built(a, item), pref |-> 60]
    BY <2>2 DEF Assigned
  <2>4. CASE new = item
    BY <1>6, <1>7, <2>2, <2>4 DEF NewOwn
  <2>5. CASE new = [val |-> port, pref |-> 60] /\ port # << >>
    <3>1. port = sys.socket[Socket(c)]
      BY <1>1, <2>0, <2>1, <2>5, PortFound
    <3>2. ~OfOther(c, port)
      <4>1. Socket(c) \in DOMAIN sys.socket
        BY DEF Plugged, Numbered
      <4> QED
        BY <1>1, <3>1, <4>1 DEF OfOther, Socketed
    <3>3. new.val = port
      BY <2>5
    <3> QED
      BY <2>2, <3>1, <3>2, <3>3 DEF NewOwn
  <2>6. CASE new = [val |-> Built(a, item), pref |-> 60] /\ port = << >>
    <3>1. UsbCodes(c) = {<< >>}
      <4>1. CASE UsbCodes(c) # {<< >>}
        <5>1. << >> = sys.socket[Socket(c)]
          BY <1>1, <2>0, <2>1, <2>6, <4>1, PortFound
        <5>2. PICK x \in Names : << >> = << <<"U", x>> >>
          BY <1>1, <5>1 DEF Plugged, Numbered, Socketed
        <5>3. Len(<< <<"U", x>> >>) = 1 /\ Len(<< >>) = 0
          OBVIOUS
        <5> QED
          BY <5>2, <5>3
      <4> QED
        BY <4>1
    <3>2. ~OfOther(c, Built(a, item))
      <4> DEFINE front == IF item.val # << >> THEN item.val
                          ELSE IF LocOf(ScsiParent(a)) # << >> THEN LocOf(ScsiParent(a))
                          ELSE NodeCode(ScsiParent(a))
                 tail == << <<"hbtl", a>> >>
      <4>1. ScsiParent(a) = None \/ ScsiParent(a) \in sys.comps
        BY <1>1, <1>2, ScsiParentTyped
      <4>2. front \in Location
        BY <1>1, <1>4, <4>1, LocTyped, NodeCodeTyped DEF TypeOK, Item
      <4>3. tail \in Location
        BY <1>1, <1>2, OnePart DEF System, Kinds
      <4>4. tail # << >> /\ ~IsU(tail)
        <5>1. Len(tail) = 1 /\ Len(<< >>) = 0 /\ tail[1] = <<"hbtl", a>>
          OBVIOUS
        <5>2. tail[1][1] = "hbtl"
          BY <5>1
        <5> QED
          BY <5>1, <5>2 DEF IsU
      <4>5. Built(a, item) = front \o tail
        BY DEF Built
      <4> HIDE DEF front, tail
      <4> QED
        BY <1>1, <4>2, <4>3, <4>4, <4>5, BehindOther
    <3>3. new.val = Built(a, item)
      BY <2>6
    <3> QED
      BY <2>2, <3>1, <3>2, <3>3 DEF NewOwn
  <2> QED
    BY <2>3, <2>4, <2>5, <2>6
<1> QED
  BY <1>3, <1>8, <1>9

\* The second pass.
LEMMA FillOwn ==
  ASSUME TypeOK, NEW c \in sys.comps, Plugged(c), OwnOf(c), NEW a \in OnLine(c), Fill(a)
  PROVE  \E new : loc' = [loc EXCEPT ![a] = new] /\ NewOwn(c, a, new)
<1>1. System(sys) /\ Lined(sys) /\ Socketed(sys) /\ loc \in [sys.comps -> Item]
  BY SystemTyped, BoardTyped DEF TypeOK
<1>2. a \in sys.comps /\ Unclaimed(c, a)
  BY SaidOfLine
<1>3. NewOwn(c, a, loc[a])
  BY DEF OwnOf, NewOwn, Fill, Take
<1>4. PICK r \in sys.reports[a] :
        \E told \in Assigned(loc[a], r.told.val, r.told.pref) :
          \/ loc' = [loc EXCEPT ![a] = told]
          \/ \E new \in Assigned(told, BusName(a), 50) : loc' = [loc EXCEPT ![a] = new]
  BY <1>2, FillCases
<1>5. PICK told \in Assigned(loc[a], r.told.val, r.told.pref) :
         \/ loc' = [loc EXCEPT ![a] = told]
         \/ \E new \in Assigned(told, BusName(a), 50) : loc' = [loc EXCEPT ![a] = new]
  BY <1>4
<1>6. r \in Report /\ r.told.pref # 60
  BY <1>1, <1>2, <1>4 DEF System, Report
<1>7. NewOwn(c, a, told)
  <2>1. CASE told = loc[a]
    BY <1>3, <2>1
  <2>2. CASE told = [val |-> r.told.val, pref |-> r.told.pref]
    <3>1. ~OfOther(c, r.told.val)
      BY <1>2, <1>4 DEF Unclaimed, Said
    <3>2. told.val = r.told.val /\ told.pref # 60
      BY <1>6, <2>2
    <3> QED
      BY <3>1, <3>2 DEF NewOwn
  <2> QED
    BY <1>5, <2>1, <2>2 DEF Assigned
<1>8. ~OfOther(c, BusName(a))
  <2> DEFINE front == IF LocOf(Above(a)) = << >> THEN << >>
                      ELSE IF ~IsU(LocOf(Above(a))) THEN LocOf(Above(a)) ELSE << <<"addr", Above(a)>> >>
             tail == << <<"addr", a>> >>
  <2>1. Above(a) = None \/ Above(a) \in sys.comps
    BY <1>1, <1>2, AboveTyped
  <2>2. LocOf(Above(a)) \in Location /\ tail \in Location /\ << >> \in Location
    BY <1>1, <1>2, <2>1, LocTyped, OnePart DEF System, Kinds, Location
  <2>3. LocOf(Above(a)) # << >> => << <<"addr", Above(a)>> >> \in Location
    BY <1>1, <2>1, OnePart DEF Kinds, LocOf, System
  <2>4. front \in Location
    BY <2>2, <2>3
  <2>5. tail # << >> /\ ~IsU(tail)
    <3>1. Len(tail) = 1 /\ Len(<< >>) = 0 /\ tail[1] = <<"addr", a>>
      OBVIOUS
    <3>2. tail[1][1] = "addr"
      BY <3>1
    <3> QED
      BY <3>1, <3>2 DEF IsU
  <2>6. BusName(a) = front \o tail
    BY DEF BusName
  <2> HIDE DEF front, tail
  <2> QED
    BY <1>1, <2>2, <2>4, <2>5, <2>6, BehindOther
<1>9. CASE loc' = [loc EXCEPT ![a] = told]
  BY <1>7, <1>9
<1>10. CASE \E new \in Assigned(told, BusName(a), 50) : loc' = [loc EXCEPT ![a] = new]
  <2>1. PICK new \in Assigned(told, BusName(a), 50) : loc' = [loc EXCEPT ![a] = new]
    BY <1>10
  <2>2. CASE new = told
    BY <1>7, <2>1, <2>2
  <2>3. CASE new = [val |-> BusName(a), pref |-> 50]
    <3>1. new.val = BusName(a) /\ new.pref # 60
      BY <2>3
    <3> QED
      BY <1>8, <2>1, <3>1 DEF NewOwn
  <2> QED
    BY <2>1, <2>2, <2>3 DEF Assigned
<1> QED
  BY <1>5, <1>9, <1>10

\* The third pass.
LEMMA PostOwn ==
  ASSUME TypeOK, PostInv, NEW c \in sys.comps, Plugged(c), OwnOf(c), NEW a \in OnLine(c), PostProcess(a)
  PROVE  \E new : loc' = [loc EXCEPT ![a] = new] /\ NewOwn(c, a, new)
<1>1. System(sys) /\ Lined(sys) /\ Socketed(sys) /\ loc \in [sys.comps -> Item] /\ second \in [sys.comps -> Item]
  BY SystemTyped, BoardTyped DEF TypeOK
<1>2. a \in sys.comps /\ Unclaimed(c, a) /\ OnLine(a) \subseteq OnLine(c)
  BY SaidOfLine
<1>3. NewOwn(c, a, loc[a]) /\ a \in todo
  BY DEF OwnOf, NewOwn, PostProcess, Take
<1>4. ASSUME NEW checked \in Checked(a)
      PROVE  NewOwn(c, a, checked) /\ checked \in Item
  <2> DEFINE l == loc[a].val
             base == BaseLoc(a)
             code == IF StartsWithDash(l) THEN base \o l ELSE base
  <2>0. checked \in Item
    BY <1>2, CheckedCases
  <2>1. checked = loc[a] \/ (base # << >> /\ checked \in Assigned(loc[a], code, 90))
    BY DEF Checked
  <2>2. CASE checked = loc[a]
    BY <1>3, <2>0, <2>2
  <2>3. CASE base # << >> /\ checked = [val |-> code, pref |-> 90]
    <3>1. base \in Location /\ l \in Location
      BY <1>1, <1>2, <2>3, BaseLocFound DEF Item
    <3>2. PICK b \in AboveOf(a) : base = loc[b].val
      BY <1>1, <1>2, <2>3, BaseAbove
    <3>3. ~OfOther(c, base)
      BY <1>2, <3>2 DEF OwnOf, OnLine
    <3>4. ~OfOther(c, code)
      <4>1. CASE StartsWithDash(l)
        <5>1. l # << >>
          BY <4>1 DEF StartsWithDash
        <5> QED
          BY <1>1, <2>3, <3>1, <4>1, <5>1, TwoParts
      <4> QED
        BY <3>3, <4>1
    <3>5. checked.val = code /\ checked.pref # 60
      BY <2>3
    <3> QED
      BY <2>0, <3>4, <3>5 DEF NewOwn
  <2> QED
    BY <2>1, <2>2, <2>3 DEF Assigned
<1>5. PICK checked \in Checked(a) :
        IF sys.bus[a] = "scsi" /\ second[a].val # << >>
        THEN \E new \in Assigned(checked, Physical(a), 70) : loc' = [loc EXCEPT ![a] = new]
        ELSE loc' = [loc EXCEPT ![a] = checked]
  BY DEF PostProcess
<1>6. CASE loc' = [loc EXCEPT ![a] = checked]
  BY <1>4, <1>6
<1>7. CASE /\ second[a].val # << >>
           /\ \E new \in Assigned(checked, Physical(a), 70) : loc' = [loc EXCEPT ![a] = new]
  <2>1. PICK new \in Assigned(checked, Physical(a), 70) : loc' = [loc EXCEPT ![a] = new]
    BY <1>7
  <2>2. ~OfOther(c, Physical(a))
    <3> DEFINE front == IF LocOf(Above(a)) # << >> THEN LocOf(Above(a)) ELSE NodeCode(Above(a))
    <3>1. Above(a) = None \/ Above(a) \in sys.comps
      BY <1>1, <1>2, AboveTyped
    <3>2. front \in Location /\ second[a].val \in Location
      BY <1>1, <1>2, <3>1, LocTyped, NodeCodeTyped DEF Item
    <3>3. ~IsU(second[a].val)
      BY <1>2, <1>3, <1>7 DEF PostInv, Unslotted, Unclaimed
    <3>4. Physical(a) = front \o second[a].val
      BY DEF Physical
    <3> HIDE DEF front
    <3> QED
      BY <1>1, <1>7, <3>2, <3>3, <3>4, BehindOther
  <2>3. CASE new = checked
    BY <1>4, <2>1, <2>3
  <2>4. CASE new = [val |-> Physical(a), pref |-> 70]
    <3>1. new.val = Physical(a) /\ new.pref # 60
      BY <2>4
    <3> QED
      BY <2>1, <2>2, <3>1 DEF NewOwn
  <2> QED
    BY <2>1, <2>3, <2>4 DEF Assigned
<1> QED
  BY <1>5, <1>6, <1>7

\* What holds of a disk, and what it hangs on, are the system's.
LEMMA SystemStays ==
  ASSUME sys' = sys, NEW c
  PROVE  /\ Plugged(c)' <=> Plugged(c)
         /\ OnLine(c)' = OnLine(c) /\ UsbCodes(c)' = UsbCodes(c) /\ Socket(c)' = Socket(c)
         /\ \A l : OfOther(c, l)' <=> OfOther(c, l)
<1>1. OnLine(c)' = OnLine(c) /\ AboveOf(c)' = AboveOf(c)
  BY DEF OnLine, AboveOf, Line
<1>2. Interface(c)' = Interface(c) /\ UsbDevice(c)' = UsbDevice(c) /\ RootHub(c)' = RootHub(c)
  <2>1. ScsiParent(c)' = ScsiParent(c)
    BY DEF ScsiParent, Above, Line
  <2>2. Interface(c)' = Interface(c)
    BY DEF Interface, ScsiParent, Above, Line
  <2>3. UsbDevice(c)' = UsbDevice(c)
    BY <2>2 DEF Interface, UsbDevice, ScsiParent, Above, Line
  <2>4. RootHub(c)' = RootHub(c)
    BY <2>3 DEF RootHub, ScsiParent, Above, Line
  <2> QED
    BY <2>2, <2>3, <2>4
<1>3. Socket(c)' = Socket(c)
  BY <1>2 DEF Socket
<1>4. \A l : OfOther(c, l)' <=> OfOther(c, l)
  BY <1>3 DEF OfOther
<1>5. OnUsb(c)' <=> OnUsb(c)
  BY <1>2 DEF OnUsb
<1>6. UsbCodes(c)' = UsbCodes(c)
  <2> DEFINE raw == RawPort(UsbDevice(c), RootHub(c))
             near == UNION {PortsBelow(n, raw) : n \in NodeOf(Interface(c))}
             hubs == UNION {sys.hubs[n] : n \in NodeOf(RootHub(c))}
             far == UNION {PortsBelow(h, raw) : h \in hubs}
  <2>1. raw' = raw
    BY <1>2 DEF RawPort
  <2>2. NodeOf(Interface(c))' = NodeOf(Interface(c)) /\ NodeOf(RootHub(c))' = NodeOf(RootHub(c))
    BY <1>2 DEF NodeOf
  <2> HIDE DEF raw
  <2>3. \A n : PortsBelow(n, raw)' = PortsBelow(n, raw)
    BY <2>1 DEF PortsBelow
  <2>4. near' = near
    BY <2>2, <2>3
  <2>5. hubs' = hubs
    BY <2>2
  <2> HIDE DEF hubs
  <2>6. far' = far
    BY <2>3, <2>5
  <2>7. UsbCodes(c) = IF OnUsb(c) THEN IF near # {} THEN near ELSE IF far # {} THEN far ELSE {<< >>} ELSE {<< >>}
    BY DEF UsbCodes, PortCodes, raw, hubs
  <2>8. UsbCodes(c)' = IF OnUsb(c)' THEN IF near' # {} THEN near' ELSE IF far' # {} THEN far' ELSE {<< >>} ELSE {<< >>}
    BY DEF UsbCodes, PortCodes, raw, hubs
  <2> QED
    BY <1>5, <2>4, <2>6, <2>7, <2>8
<1>7. Numbered(c)' <=> Numbered(c)
  BY <1>2, <1>3 DEF Numbered, Lists, NodeOf
<1>8. \A a : Unclaimed(c, a)' <=> Unclaimed(c, a)
  BY <1>4 DEF Unclaimed, Said
<1>9. Plugged(c)' <=> Plugged(c)
  BY <1>1, <1>5, <1>7, <1>8 DEF Plugged
<1> QED
  BY <1>1, <1>3, <1>4, <1>6, <1>9

-----------------------------------------------------------------------------
\* A component off the line of a disk is none of its business.
LEMMA Elsewhere ==
  ASSUME TypeOK, NEW c \in sys.comps, Plugged(c), OwnOf(c), sys' = sys,
         stage' = stage, NEW d \in sys.comps, todo' = todo \ {d}, d \notin OnLine(c),
         NEW new, loc' = [loc EXCEPT ![d] = new]
  PROVE  OwnOf(c)'
<1>1. \A a \in OnLine(c) : a \in sys.comps /\ loc'[a] = loc[a]
  BY SaidOfLine DEF TypeOK
<1>2. c \in OnLine(c) /\ c # d
  BY DEF OnLine
<1>3. OnLine(c)' = OnLine(c) /\ UsbCodes(c)' = UsbCodes(c) /\ Socket(c)' = Socket(c)
  BY SystemStays
<1>4. \A l : OfOther(c, l)' <=> OfOther(c, l)
  BY SystemStays
<1>5. \A a \in OnLine(c)' : ~OfOther(c, loc[a].val)'
  BY <1>1, <1>3, <1>4 DEF OwnOf, OfOther
<1> QED
  BY <1>1, <1>2, <1>3, <1>5 DEF OwnOf

\* What a component of the line is given, if it may be given it, keeps the rest.
LEMMA OnTheLine ==
  ASSUME TypeOK, NEW c \in sys.comps, Plugged(c), OwnOf(c), sys' = sys,
         stage' = stage, NEW a \in OnLine(c), todo' = todo \ {a},
         NEW new, loc' = [loc EXCEPT ![a] = new], NewOwn(c, a, new)
  PROVE  OwnOf(c)'
<1>1. \A b \in OnLine(c) : b \in sys.comps /\ loc'[b] = IF b = a THEN new ELSE loc[b]
  BY SaidOfLine DEF TypeOK
<1>2. c \in OnLine(c)
  BY DEF OnLine
<1>3. OnLine(c)' = OnLine(c) /\ UsbCodes(c)' = UsbCodes(c) /\ Socket(c)' = Socket(c)
  BY SystemStays
<1>4. \A b \in OnLine(c) : ~OfOther(c, loc'[b].val)
  BY <1>1 DEF OwnOf, NewOwn
<1>5. \A b \in OnLine(c)' : ~OfOther(c, loc[b].val)'
  BY <1>3, <1>4 DEF OfOther
<1>6. CASE a = c
  <2>1. c \notin todo' /\ loc'[c] = new
    BY <1>1, <1>2, <1>6
  <2> QED
    BY <1>3, <1>5, <1>6, <2>1 DEF OwnOf, NewOwn
<1>7. CASE a # c
  <2>1. (c \in todo' <=> c \in todo) /\ loc'[c] = loc[c]
    BY <1>1, <1>2, <1>7
  <2> QED
    BY <1>3, <1>5, <2>1 DEF OwnOf
<1> QED
  BY <1>6, <1>7

\* No step gives a disk, or what it hangs on, another port's code.
LEMMA OwnNext == TypeOK /\ PostInv /\ OwnInv /\ [Next]_vars => OwnInv'
<1> SUFFICES ASSUME TypeOK, PostInv, OwnInv, [Next]_vars PROVE OwnInv'
  OBVIOUS
<1>1. sys' = sys
  BY NextCases, LocateCases, FillCases, PostCases DEF NextPass, vars
<1>2. ASSUME NEW c \in sys.comps, Plugged(c) PROVE OwnOf(c)'
  <2>1. OwnOf(c)
    BY <1>2 DEF OwnInv
  <2>2. OnLine(c)' = OnLine(c) /\ UsbCodes(c)' = UsbCodes(c) /\ Socket(c)' = Socket(c)
    BY <1>1, SystemStays
  <2>3. ASSUME NEW d \in sys.comps, Locate(d) \/ Fill(d) \/ PostProcess(d) PROVE OwnOf(c)'
    <3>1. stage' = stage /\ todo' = todo \ {d}
      BY <2>3, LocateCases, FillCases, PostCases
    <3>2. CASE d \in OnLine(c)
      <4>1. \E new : loc' = [loc EXCEPT ![d] = new] /\ NewOwn(c, d, new)
        BY <1>2, <2>1, <2>3, <3>2, LocateOwn, FillOwn, PostOwn
      <4> QED
        BY <1>1, <1>2, <2>1, <3>1, <3>2, <4>1, OnTheLine
    <3>3. CASE d \notin OnLine(c)
      <4>1. \E new : loc' = [loc EXCEPT ![d] = new]
        BY <2>3, LocateCases, FillCases, PostCases
      <4> QED
        BY <1>1, <1>2, <2>1, <3>1, <3>3, <4>1, Elsewhere
    <3> QED
      BY <3>2, <3>3
  <2>4. CASE loc' = loc /\ ((stage' = stage /\ todo' = todo) \/ (todo = {} /\ stage' # "locate"))
    <3>1. \A a \in OnLine(c)' : ~OfOther(c, loc[a].val)'
      BY <1>1, <2>1, <2>2, <2>4 DEF OwnOf, OfOther
    <3> QED
      BY <1>1, <2>1, <2>2, <2>4, <3>1 DEF OwnOf
  <2>5. NextPass \/ UNCHANGED vars
          => loc' = loc /\ ((stage' = stage /\ todo' = todo) \/ (todo = {} /\ stage' # "locate"))
    BY DEF NextPass, After, vars, TypeOK
  <2> QED
    BY <2>3, <2>4, <2>5, NextCases
<1>3. \A c : Plugged(c)' <=> Plugged(c)
  BY <1>1, SystemStays
<1> QED
  BY <1>1, <1>2, <1>3 DEF OwnInv

LEMMA OwnInit == Init => OwnInv
<1> SUFFICES ASSUME Init, NEW c \in sys.comps, Plugged(c) PROVE OwnOf(c)
  BY DEF OwnInv
<1>1. TypeOK /\ Socketed(sys) /\ todo = sys.comps /\ stage = "locate"
  BY InitTyped, BoardTyped DEF Init
<1>2. ASSUME NEW a \in sys.comps
      PROVE  loc[a].pref # 60 /\ (loc[a].val = << >> \/ loc[a].val = sys.given[a])
  BY DEF Init, Unset
<1>3. ASSUME NEW a \in OnLine(c) PROVE ~OfOther(c, loc[a].val)
  <2>1. a \in sys.comps /\ Unclaimed(c, a)
    BY <1>1, SaidOfLine
  <2>2. ~OfOther(c, sys.given[a])
    BY <2>1 DEF Unclaimed, Said
  <2> QED
    BY <1>1, <1>2, <2>1, <2>2, NothingOther
<1> QED
  BY <1>1, <1>2, <1>3 DEF OwnOf

\* A disk on USB never has the code of a port it is not plugged in, and what is
\* built for it is the code of its own port where that is found.
THEOREM PortsAreOwn == Spec => []OwnPort
<1>1. OwnInv => OwnPort
  BY DEF OwnInv, OwnOf, OwnPort, OnLine
<1> QED
  BY <1>1, OwnInit, OwnNext, PostInvHolds, TypeCorrect, PTL DEF Spec

-----------------------------------------------------------------------------
(* What is read of pci.ids and usb.ids up to a line c of the file f.       *)

\* The first entry from line c on has one of these depths.
FirstIs(f, c, depths) ==
  \A e \in DOMAIN f : e >= c /\ f[e].head = "text" /\ NoEntry(f, c, e) => f[e].tabs \in depths

\* The entries of a level between two lines.
NoneOf(f, tabs, a, b) == \A l \in Entries(f, tabs) : ~(a <= l /\ l < b)

VendorsTo(f, v, c) == {l \in Entries(f, 0) : l < c /\ f[l].ids[1] = v}
DevicesTo(f, V, d, c) == {l \in Entries(f, 1) : l < c /\ Under(f, l, 0) = V /\ f[l].ids[1] = d}
SubsTo(f, D, k, c) == {l \in Entries(f, 2) : l < c /\ Under(f, l, 1) = D /\ f[l].ids[2] = k}

\* A Device's mSubs, whose line is D; a Manufacturer's mDevices, whose line is
\* V; and mManus.
SubsMade(f, subs, D, c) ==
  \A k \in Known :
    LET S == SubsTo(f, D, k, c)
    IN IF S = {} THEN k \notin DOMAIN subs ELSE k \in DOMAIN subs /\ subs[k] = <<First(S), 2>>

DevicesMade(f, ds, V, c) ==
  \A d \in Known :
    LET S == DevicesTo(f, V, d, c)
    IN IF S = {} THEN d \notin DOMAIN ds
       ELSE d \in DOMAIN ds /\ ds[d].name = <<First(S), 1>> /\ SubsMade(f, ds[d].subs, First(S), Len(f) + 1)

ManusMade(f, ms, c) ==
  \A v \in Known :
    LET S == VendorsTo(f, v, c)
    IN IF S = {} THEN v \notin DOMAIN ms
       ELSE /\ v \in DOMAIN ms /\ ms[v].name = <<First(S), 1>>
            /\ Clean(f) => DevicesMade(f, ms[v].devices, First(S), Len(f) + 1)

\* The Manufacturer in the making is of line V, or of none, behind the end.
OfNoLine(f, c) == manu.id = 0 /\ c > Len(f) /\ level = "manu"
OfLine(f, V, c) ==
  /\ V \in Entries(f, 0) /\ V < c /\ NoneOf(f, 0, V + 1, c)
  /\ manu = [id |-> f[V].ids[1], name |-> <<V, 1>>]

\* The Device in the making is of line D.
DeviceOf(f, V, D, c) ==
  /\ D \in Entries(f, 1) /\ V < D /\ D < c
  /\ NoneOf(f, 0, D + 1, c) /\ NoneOf(f, 1, D + 1, c)
  /\ dev.id = f[D].ids[1] /\ dev.name = <<D, 1>>
  /\ DevicesMade(f, devices, V, D) /\ SubsMade(f, dev.subs, D, c)
  /\ IF next = "tab" THEN Peek(at) = "tab" \/ c - 1 \in Entries(f, 2) ELSE NoEntry(f, D + 1, c)

ManusInv(f, c) ==
  level = "manus" => ManusMade(f, manus, c) /\ IF stream = "good" THEN FirstIs(f, c, {0}) ELSE c > Len(f)

ManuInv(f, c) ==
  level \in {"manu", "device"} =>
    \/ OfNoLine(f, c) /\ ManusMade(f, manus, c)
    \/ \E V \in Entries(f, 0) :
         /\ OfLine(f, V, c) /\ ManusMade(f, manus, V)
         /\ Clean(f) /\ level = "manu" => DevicesMade(f, devices, V, c) /\ FirstIs(f, c, {0, 1})
         /\ Clean(f) /\ level = "device" => \E D \in Entries(f, 1) : DeviceOf(f, V, D, c)

\* The files that are read to their end.
Finished(t) == level = "done" \/ (t = "pci" /\ which = "usb")

FilesInv ==
  /\ level \in {"manus", "manu", "device"} => Readable(which) /\ file = setup[which]
  /\ level = "done" => which = "usb"
  /\ \A t \in {"pci", "usb"} :
       IF Finished(t) /\ Readable(t)
       THEN tables[t].made /\ (Unindented(setup[t]) => ManusMade(setup[t], tables[t].manus, Len(setup[t]) + 1))
       ELSE tables[t] = NoTable

\* The stream is not good only at the end, and what Device peeked at is there,
\* but for a tab.
StreamInv == stream # "good" => Eof(at)
NextInv == level = "device" /\ next # "tab" => next = Peek(at)

ReadInv ==
  level \in {"manus", "manu", "device"} /\ Unindented(file) => ManusInv(file, at.line) /\ ManuInv(file, at.line)

TypedIds ==
  /\ IdsTypeOK /\ setup \in Setups /\ (file = <<>> \/ file = setup.pci \/ file = setup.usb)
  /\ which \in {"pci", "usb"} /\ DOMAIN tables = {"pci", "usb"} /\ at = Place(at.line, 0)
  /\ manu = [id |-> manu.id, name |-> manu.name] /\ dev = [id |-> dev.id, name |-> dev.name, subs |-> dev.subs]

IdsInv == TypedIds /\ StreamInv /\ NextInv /\ FilesInv /\ ReadInv

-----------------------------------------------------------------------------
(* Sets of lines.                                                          *)

\* The first of some lines is one of them.
LEMMA FirstOf ==
  ASSUME NEW S \in SUBSET Nat, S # {}
  PROVE  First(S) \in S /\ \A k \in S : First(S) <= k
<1>1. PICK m \in S : \A x \in S : <<x, m>> \notin OpToRel(<, Nat)
  BY NatLessThanWellFounded, WFMin, Zenon
<1>2. \A x \in S : ~(x < m)
  BY <1>1 DEF OpToRel
<1>3. \A x, y \in Nat : ~(x < y) => y <= x
  OBVIOUS
<1>4. \E l \in S : \A k \in S : l <= k
  BY <1>2, <1>3
<1> QED
  BY <1>4, Zenon DEF First

\* The first of some lines is known by being it.
LEMMA FirstIsThat ==
  ASSUME NEW S \in SUBSET Nat, NEW m \in S, \A k \in S : m <= k
  PROVE  First(S) = m
<1>1. First(S) \in S /\ First(S) <= m
  BY FirstOf
<1>2. m <= First(S)
  BY <1>1
<1>3. \A x, y \in Nat : x <= y /\ y <= x => x = y
  OBVIOUS
<1>4. m \in Nat /\ First(S) \in Nat
  BY <1>1
<1> QED
  BY <1>1, <1>2, <1>3, <1>4

\* A line behind them does not change which is the first of some.
LEMMA FirstStays ==
  ASSUME NEW S \in SUBSET Nat, NEW c \in Nat, \A k \in S : k < c
  PROVE  First(S \cup {c}) = IF S = {} THEN c ELSE First(S)
<1>1. CASE S = {}
  <2>1. c \in S \cup {c} /\ \A k \in S \cup {c} : c <= k
    BY <1>1
  <2>2. S \cup {c} \in SUBSET Nat
    OBVIOUS
  <2> QED
    BY <1>1, <2>1, <2>2, FirstIsThat
<1>2. CASE S # {}
  <2>1. First(S) \in S /\ \A k \in S : First(S) <= k
    BY <1>2, FirstOf
  <2>2. \A k \in S \cup {c} : First(S) <= k
    <3>1. First(S) < c /\ First(S) \in Nat
      BY <2>1
    <3>2. First(S) <= c
      BY <3>1
    <3> QED
      BY <2>1, <3>2
  <2>3. S \cup {c} \in SUBSET Nat /\ First(S) \in S \cup {c}
    BY <2>1
  <2> QED
    BY <1>2, <2>2, <2>3, FirstIsThat
<1> QED
  BY <1>1, <1>2

\* The lines of a file.
LEMMA LinesOf ==
  ASSUME NEW f, IdFile(f)
  PROVE  /\ Len(f) \in Nat /\ DOMAIN f = 1 .. Len(f) /\ DOMAIN f \subseteq Nat /\ f \in Seq(FileLine)
         /\ \A t : Entries(f, t) \in SUBSET Nat /\ Entries(f, t) \subseteq DOMAIN f
<1>1. f \in Seq(FileLine)
  BY DEF IdFile
<1>2. Len(f) \in Nat /\ DOMAIN f = 1 .. Len(f)
  BY <1>1, LenProperties
<1> QED
  BY <1>1, <1>2 DEF Entries

LEMMA LineKinds ==
  ASSUME NEW f, IdFile(f), NEW l \in DOMAIN f
  PROVE  /\ f[l].tabs \in 0 .. 2 /\ f[l].head \in {"text", "#", "newline"}
         /\ f[l].ids \in Seq(Ids)
         /\ f[l].head = "newline" => f[l].tabs = 0
         /\ f[l].head = "text" => Len(f[l].ids) = (IF f[l].tabs = 2 THEN 2 ELSE 1) /\ f[l].ids[1] \in Ids
         /\ f[l].head = "text" /\ f[l].tabs = 2 => f[l].ids[2] \in Ids
         /\ f[l].head # "text" => Len(f[l].ids) = 0
<1>1. f[l] \in FileLine
  BY LinesOf, ElementOfSeq
<1>2. CASE \E v \in Ids : f[l] = Vendor(v)
  BY <1>2 DEF Vendor
<1>3. CASE \E d \in Ids : f[l] = Dev(d)
  BY <1>3 DEF Dev
<1>4. CASE \E p \in Ids \X Ids : f[l] = Sub(p[1], p[2])
  <2>1. PICK v \in Ids, s \in Ids : f[l] = Sub(v, s)
    BY <1>4
  <2> QED
    BY <2>1 DEF Sub
<1>5. CASE \E t \in 0 .. 2 : f[l] = Comment(t)
  <2>1. PICK t \in 0 .. 2 : f[l] = [tabs |-> t, head |-> "#", ids |-> <<>>]
    BY <1>5 DEF Comment
  <2>2. f[l].ids = <<>> /\ f[l].tabs = t /\ f[l].head = "#"
    BY <2>1
  <2>3. <<>> \in Seq(Ids) /\ Len(<<>>) = 0
    OBVIOUS
  <2> QED
    BY <2>2, <2>3
<1>6. CASE f[l] = Blank
  <2>1. f[l].ids = <<>> /\ f[l].tabs = 0 /\ f[l].head = "newline"
    BY <1>6 DEF Blank
  <2>2. <<>> \in Seq(Ids) /\ Len(<<>>) = 0
    OBVIOUS
  <2> QED
    BY <2>1, <2>2
<1> QED
  BY <1>1, <1>2, <1>3, <1>4, <1>5, <1>6 DEF FileLine

\* Where there is an entry there is a first one.
LEMMA FirstEntry ==
  ASSUME NEW f, IdFile(f), NEW a \in Nat \ {0}, NEW l \in DOMAIN f, a <= l, f[l].head = "text"
  PROVE  \E e \in DOMAIN f : a <= e /\ e <= l /\ f[e].head = "text" /\ NoEntry(f, a, e)
<1> DEFINE S == {e \in DOMAIN f : a <= e /\ f[e].head = "text"}
<1>1. S \in SUBSET Nat /\ l \in S
  BY LinesOf
<1>2. First(S) \in S /\ \A k \in S : First(S) <= k
  BY <1>1, FirstOf
<1> DEFINE e == First(S)
<1>3. e \in DOMAIN f /\ a <= e /\ f[e].head = "text" /\ e <= l /\ e \in Nat
  BY <1>1, <1>2
<1> HIDE DEF e
<1>4. ASSUME NEW i \in a .. e - 1, f[i].head = "text" PROVE FALSE
  <2>1. i \in Nat /\ i < e /\ a <= i /\ DOMAIN f = 1 .. Len(f) /\ Len(f) \in Nat
    BY <1>3, LinesOf
  <2>2. i \in DOMAIN f
    BY <1>3, <2>1
  <2>3. e <= i
    BY <1>2, <1>4, <2>1, <2>2 DEF e
  <2> QED
    BY <1>3, <2>1, <2>3
<1> QED
  BY <1>3, <1>4 DEF NoEntry

-----------------------------------------------------------------------------
(* What the stream gives.                                                  *)

LEMMA PeekAt ==
  ASSUME IdFile(file), NEW c \in Nat \ {0}, NEW t \in Nat
  PROVE  /\ Eof(Place(c, t)) <=> c > Len(file)
         /\ Peek(Place(c, t)) = IF c > Len(file) THEN "eof" ELSE IF t < file[c].tabs THEN "tab" ELSE file[c].head
         /\ Peek(Place(c, t)) \in {"tab", "#", "newline", "text", "eof"}
         /\ c \in DOMAIN file <=> ~(c > Len(file))
<1>1. Len(file) \in Nat /\ DOMAIN file = 1 .. Len(file)
  BY LinesOf
<1>2. c \in DOMAIN file <=> ~(c > Len(file))
  BY <1>1
<1>3. Eof(Place(c, t)) <=> c > Len(file)
  BY DEF Eof, Place
<1>4. Peek(Place(c, t)) = IF c > Len(file) THEN "eof" ELSE IF t < file[c].tabs THEN "tab" ELSE file[c].head
  BY <1>3 DEF Peek, Place
<1>5. c \in DOMAIN file => file[c].head \in {"text", "#", "newline"}
  BY LineKinds
<1> QED
  BY <1>2, <1>3, <1>4, <1>5

\* The first word from a line on stands in it, or behind; there may be none.
LEMMA WordFound ==
  ASSUME IdFile(file), NEW c \in Nat \ {0}, NEW t
  PROVE  /\ \E m \in 1 .. Len(file) + 1 : WordAt(Place(c, t)) = Place(m, 0)
         /\ c \in DOMAIN file /\ file[c].head # "newline" => WordAt(Place(c, t)) = Place(c, 0)
         /\ c > Len(file) => WordAt(Place(c, t)) = Place(Len(file) + 1, 0)
<1> DEFINE lines == {l \in c .. Len(file) : file[l].head # "newline"}
<1>1. Len(file) \in Nat /\ DOMAIN file = 1 .. Len(file)
  BY LinesOf
<1>2. WordAt(Place(c, t)) = Place(IF lines = {} THEN Len(file) + 1 ELSE First(lines), 0)
  BY DEF WordAt, Place, First
<1>3. lines \in SUBSET Nat /\ lines \subseteq 1 .. Len(file)
  BY <1>1
<1>4. lines # {} => First(lines) \in lines /\ \A k \in lines : First(lines) <= k
  BY <1>3, FirstOf
<1>5. c \in DOMAIN file /\ file[c].head # "newline" => lines # {} /\ First(lines) = c
  <2> SUFFICES ASSUME c \in DOMAIN file, file[c].head # "newline" PROVE First(lines) = c /\ lines # {}
    OBVIOUS
  <2>1. c \in lines
    BY <1>1
  <2>2. \A k \in lines : c <= k
    BY <1>1
  <2> QED
    BY <1>3, <2>1, <2>2, FirstIsThat
<1>6. c > Len(file) => lines = {}
  BY <1>1
<1> HIDE DEF lines
<1>7. \E m \in 1 .. Len(file) + 1 : WordAt(Place(c, t)) = Place(m, 0)
  <2>1. CASE lines = {}
    <3>1. Len(file) + 1 \in 1 .. Len(file) + 1
      BY <1>1
    <3> QED
      BY <1>2, <2>1, <3>1
  <2>2. CASE lines # {}
    <3>1. First(lines) \in 1 .. Len(file)
      BY <1>3, <1>4, <2>2
    <3>2. 1 .. Len(file) \subseteq 1 .. Len(file) + 1
      BY <1>1
    <3> QED
      BY <1>2, <2>2, <3>1, <3>2
  <2> QED
    BY <2>1, <2>2
<1> QED
  BY <1>2, <1>5, <1>6, <1>7

\* Behind the comments there is a line, or the end.
LEMMA CommentsSkipped ==
  ASSUME IdFile(file), NEW c \in Nat \ {0}, NEW t \in Nat
  PROVE  /\ \E m \in Nat \ {0}, u \in Nat : BehindComments(Place(c, t)) = Place(m, u)
         /\ Peek(Place(c, t)) # "#" => BehindComments(Place(c, t)) = Place(c, t)
<1> DEFINE lines == {l \in c + 1 .. Len(file) + 1 : l > Len(file) \/ Peek(Place(l, 0)) # "#"}
<1>1. Len(file) \in Nat /\ DOMAIN file = 1 .. Len(file)
  BY LinesOf
<1>2. BehindComments(Place(c, t)) = IF Peek(Place(c, t)) = "#" THEN Place(First(lines), 0) ELSE Place(c, t)
  BY DEF BehindComments, Place, First
<1>3. lines \in SUBSET Nat /\ 0 \notin lines
  BY <1>1
<1>4. ASSUME Peek(Place(c, t)) = "#" PROVE Len(file) + 1 \in lines
  <2>1. ~(c > Len(file))
    BY <1>4, PeekAt
  <2> QED
    BY <1>1, <2>1
<1>5. ASSUME Peek(Place(c, t)) = "#" PROVE First(lines) \in Nat \ {0}
  <2>1. First(lines) \in lines
    BY <1>3, <1>4, <1>5, FirstOf
  <2> QED
    BY <1>3, <2>1
<1> HIDE DEF lines
<1> QED
  BY <1>2, <1>5

\* An id is an id, or 0; that of an entry is the one it has.
LEMMA IdFound ==
  ASSUME IdFile(file), NEW c \in Nat \ {0}, NEW k \in {1, 2}
  PROVE  /\ Id(Place(c, 0), k) \subseteq Ids \cup {0}
         /\ c \in DOMAIN file /\ file[c].head = "text" /\ (k = 1 \/ file[c].tabs = 2) =>
              Id(Place(c, 0), k) = {file[c].ids[k]} /\ file[c].ids[k] \in Ids
         /\ c > Len(file) => Id(Place(c, 0), k) = {0}
<1>1. Eof(Place(c, 0)) <=> c > Len(file)
  BY PeekAt
<1>2. c \in DOMAIN file <=> ~(c > Len(file))
  BY PeekAt
<1>3. Place(c, 0).line = c
  BY DEF Place
<1>4. CASE c > Len(file)
  BY <1>1, <1>2, <1>4 DEF Id
<1>5. CASE ~(c > Len(file))
  <2>1. c \in DOMAIN file /\ file[c].ids \in Seq(Ids) /\ Len(file[c].ids) \in Nat
    BY <1>2, <1>5, LineKinds
  <2>2. k <= Len(file[c].ids) => file[c].ids[k] \in Ids
    <3>1. k <= Len(file[c].ids) => k \in 1 .. Len(file[c].ids)
      BY <2>1
    <3> QED
      BY <2>1, <3>1, ElementOfSeq
  <2>3. Id(Place(c, 0), k) = IF k <= Len(file[c].ids) THEN {file[c].ids[k]}
                             ELSE IF file[c].head = "#" /\ k = 1 THEN {0} ELSE Ids \cup {0}
    BY <1>1, <1>3, <1>5 DEF Id
  <2>4. file[c].head = "text" /\ (k = 1 \/ file[c].tabs = 2) => k <= Len(file[c].ids)
    <3>1. file[c].head = "text" => Len(file[c].ids) = IF file[c].tabs = 2 THEN 2 ELSE 1
      BY <2>1, LineKinds
    <3> QED
      BY <3>1
  <2> QED
    BY <1>5, <2>2, <2>3, <2>4
<1> QED
  BY <1>4, <1>5

\* What stands behind tabs in a file whose comments are not indented is an
\* entry.
LEMMA TabsLead ==
  ASSUME IdFile(file), Unindented(file), NEW c \in Nat \ {0}, NEW t \in Nat, Peek(Place(c, t)) = "tab"
  PROVE  c \in DOMAIN file /\ file[c].head = "text" /\ file[c].tabs \in {1, 2} /\ t < file[c].tabs
<1>1. c \in DOMAIN file /\ t < file[c].tabs
  <2>1. c \in DOMAIN file => file[c].head # "tab"
    BY LineKinds
  <2> QED
    BY <2>1, PeekAt
<1>2. file[c].tabs \in 0 .. 2 /\ file[c].head \in {"text", "#", "newline"} /\ (file[c].head = "newline" => file[c].tabs = 0)
  BY <1>1, LineKinds
<1>3. file[c].tabs # 0 /\ file[c].tabs \in {1, 2}
  BY <1>1, <1>2
<1> QED
  BY <1>1, <1>2, <1>3 DEF Unindented

\* An entry that is read from behind its tabs is read from its own line.
LEMMA EntryRead ==
  ASSUME IdFile(file), NEW c \in DOMAIN file, file[c].head = "text", NEW t \in Nat
  PROVE  WordAt(BehindComments(Place(c, t))) = Place(c, 0)
<1>1. c \in Nat \ {0}
  BY LinesOf
<1>2. Peek(Place(c, t)) # "#"
  BY <1>1, PeekAt
<1>3. BehindComments(Place(c, t)) = Place(c, t)
  BY <1>1, <1>2, CommentsSkipped
<1>4. file[c].head # "newline"
  OBVIOUS
<1>5. WordAt(Place(c, t)) = Place(c, 0)
  BY <1>1, <1>4, WordFound
<1> QED
  BY <1>3, <1>5

-----------------------------------------------------------------------------
(* Types.                                                                  *)

LEMMA FileRead == ASSUME TypedIds PROVE IdFile(file) /\ at.line \in Nat \ {0} /\ at = Place(at.line, 0)
<1>1. IdFile(<<>>)
  <2>1. <<>> \in Seq(FileLine) /\ DOMAIN <<>> = {}
    OBVIOUS
  <2> QED
    BY <2>1 DEF IdFile, Entries
<1>2. IdFile(setup.pci) /\ IdFile(setup.usb)
  BY IdsAssumption DEF TypedIds
<1>3. IdFile(file)
  BY <1>1, <1>2 DEF TypedIds
<1>4. at.line \in 1 .. Len(file) + 2 /\ Len(file) \in Nat
  BY <1>3, LinesOf DEF TypedIds, IdsTypeOK
<1>5. at.line \in Nat \ {0}
  BY <1>4
<1> QED
  BY <1>3, <1>5 DEF TypedIds

\* Where the stream is after a step.
LEMMA MovedTo ==
  ASSUME IdFile(file), UNCHANGED file, NEW m \in 1 .. Len(file) + 2, at' = Place(m, 0)
  PROVE  /\ at' = Place(at'.line, 0) /\ at'.line = m /\ at'.line \in 1 .. Len(file') + 2 /\ at'.tabs = 0
         /\ Eof(at)' <=> m > Len(file)
         /\ Peek(at)' = Peek(Place(m, 0))
BY DEF Place, Peek, Eof

\* The first word behind a tab, and the line behind it.
LEMMA WordBehind ==
  ASSUME IdFile(file), NEW c \in Nat \ {0}, NEW t \in Nat
  PROVE  \E m \in 1 .. Len(file) + 1 : /\ WordAt(BehindComments(Place(c, t))) = Place(m, 0)
                                       /\ m \in Nat \ {0} /\ m + 1 \in 1 .. Len(file) + 2
                                       /\ Eof(Place(m, 0)) <=> m > Len(file)
                                       /\ m > Len(file) => m + 1 > Len(file)
<1>1. PICK b \in Nat \ {0}, u \in Nat : BehindComments(Place(c, t)) = Place(b, u)
  BY CommentsSkipped
<1>2. PICK m \in 1 .. Len(file) + 1 : WordAt(Place(b, u)) = Place(m, 0)
  BY WordFound
<1>3. Len(file) \in Nat
  BY LinesOf
<1>4. m \in Nat \ {0} /\ m + 1 \in 1 .. Len(file) + 2 /\ (m > Len(file) => m + 1 > Len(file))
  BY <1>3
<1>5. Eof(Place(m, 0)) <=> m > Len(file)
  BY <1>4, PeekAt
<1> QED
  BY <1>1, <1>2, <1>4, <1>5

LEMMA InsertKeys ==
  ASSUME NEW map, NEW id, NEW x
  PROVE  /\ DOMAIN Insert(map, id, x) = DOMAIN map \cup {id}
         /\ \A i \in DOMAIN map : Insert(map, id, x)[i] = map[i]
         /\ id \notin DOMAIN map => Insert(map, id, x)[id] = x
BY DEF Insert

StreamTyped == TypedIds /\ StreamInv /\ NextInv

LEMMA OpenTyped ==
  ASSUME StreamTyped, OpenIds
  PROVE  StreamTyped'
<1>1. CASE Readable(which) /\ file' = setup[which]
  <2>1. /\ at' = Place(1, 0) /\ stream' = "good" /\ manus' = NoMap /\ level' = "manus"
        /\ UNCHANGED <<setup, which, tables, next, manu, dev, devices>>
    BY <1>1 DEF OpenIds, both, Proceed
  <2>2. file' = setup.pci \/ file' = setup.usb
    BY <1>1 DEF StreamTyped, TypedIds
  <2>3. IdFile(file')
    BY <2>2, IdsAssumption DEF StreamTyped, TypedIds
  <2>4. Len(file') \in Nat
    BY <2>3, LinesOf
  <2>5. at'.line = 1 /\ at'.tabs = 0 /\ 1 \in 1 .. Len(file') + 2 /\ at' = Place(at'.line, 0)
    BY <2>1, <2>4 DEF Place
  <2>6. DOMAIN manus' = {}
    BY <2>1 DEF NoMap
  <2>7. IdsTypeOK'
    BY <2>1, <2>5, <2>6 DEF StreamTyped, TypedIds, IdsTypeOK
  <2>8. TypedIds'
    BY <2>1, <2>2, <2>5, <2>7 DEF StreamTyped, TypedIds
  <2> QED
    BY <2>1, <2>8 DEF StreamTyped, StreamInv, NextInv
<1>2. CASE ~Readable(which) /\ Proceed
  <2>1. /\ UNCHANGED <<setup, tables, file, at, stream, next, manu, dev, devices, manus>>
        /\ which' \in {"pci", "usb"} /\ level' \in {"open", "done"}
    BY <1>2 DEF OpenIds, Proceed, StreamTyped, TypedIds
  <2> QED
    BY <2>1 DEF StreamTyped, TypedIds, IdsTypeOK, StreamInv, NextInv, Eof
<1> QED
  BY <1>1, <1>2 DEF OpenIds

LEMMA SkipTyped ==
  ASSUME StreamTyped, SkipLine, Peek(at) \in {"#", "newline"}, level # "device"
  PROVE  StreamTyped'
<1> DEFINE c == at.line
<1>1. IdFile(file) /\ c \in Nat \ {0} /\ at = Place(c, 0) /\ Len(file) \in Nat
  BY FileRead, LinesOf DEF StreamTyped
<1>2. ~Eof(at) /\ ~(c > Len(file))
  BY <1>1, PeekAt
<1>3. /\ at' = Place(c + 1, 0) /\ UNCHANGED <<setup, which, tables, file, stream, level, next, manu, dev, devices, manus>>
  BY DEF SkipLine, NextLine, both
<1>4. c + 1 \in 1 .. Len(file) + 2
  BY <1>1, <1>2
<1>5. /\ at' = Place(at'.line, 0) /\ at'.line \in 1 .. Len(file') + 2 /\ at'.tabs = 0
  BY <1>1, <1>3, <1>4, MovedTo
<1>6. TypedIds'
  BY <1>3, <1>5 DEF StreamTyped, TypedIds, IdsTypeOK
<1> QED
  BY <1>2, <1>3, <1>6 DEF StreamTyped, StreamInv, NextInv

LEMMA StartManufacturerTyped ==
  ASSUME StreamTyped, StartManufacturer, stream = "good"
  PROVE  StreamTyped'
<1> DEFINE c == at.line
           p == WordAt(at)
<1>1. IdFile(file) /\ c \in Nat \ {0} /\ at = Place(c, 0) /\ Len(file) \in Nat
  BY FileRead, LinesOf DEF StreamTyped
<1>2. PICK m \in 1 .. Len(file) + 1 : p = Place(m, 0)
  BY <1>1, WordFound
<1>3. m \in Nat \ {0} /\ m + 1 \in 1 .. Len(file) + 2 /\ (m > Len(file) => m + 1 > Len(file))
  BY <1>1
<1>4. Eof(p) <=> m > Len(file)
  BY <1>1, <1>2, <1>3, PeekAt
<1>5. /\ \E i \in Id(p, 1) : manu' = [id |-> i, name |-> Name(p, 1)]
      /\ at' = Place(m + 1, 0) /\ stream' = (IF Eof(p) THEN "fail" ELSE stream)
      /\ devices' = NoMap /\ level' = "manu" /\ UNCHANGED <<setup, which, tables, file, next, dev, manus>>
  BY <1>2 DEF StartManufacturer, NextLine, Place, both
<1>6. manu'.id \in Ids \cup {0} /\ manu' = [id |-> manu'.id, name |-> manu'.name]
  <2>1. Id(p, 1) \subseteq Ids \cup {0}
    BY <1>1, <1>2, <1>3, IdFound
  <2> QED
    BY <1>5, <2>1
<1>7. /\ at' = Place(at'.line, 0) /\ at'.line \in 1 .. Len(file') + 2 /\ at'.tabs = 0
      /\ Eof(at)' <=> m + 1 > Len(file)
  BY <1>1, <1>3, <1>5, MovedTo
<1>8. DOMAIN devices' = {}
  BY <1>5 DEF NoMap
<1>9. stream' \in {"good", "fail"} /\ (stream' # "good" => Eof(at)')
  BY <1>3, <1>4, <1>5, <1>7
<1>10. TypedIds'
  BY <1>5, <1>6, <1>7, <1>8, <1>9 DEF StreamTyped, TypedIds, IdsTypeOK
<1> QED
  BY <1>5, <1>9, <1>10 DEF StreamTyped, StreamInv, NextInv

LEMMA EndManufacturerTyped ==
  ASSUME StreamTyped, EndManufacturer
  PROVE  StreamTyped'
<1>1. /\ manus' = Insert(manus, manu.id, [name |-> manu.name, devices |-> devices])
      /\ level' = "manus" /\ stream' = Looked(at)
      /\ UNCHANGED <<setup, which, tables, file, at, next, manu, dev, devices>>
  BY DEF EndManufacturer, both
<1>2. DOMAIN manus' \subseteq Ids \cup {0}
  <2>1. DOMAIN manus \subseteq Ids \cup {0} /\ manu.id \in Ids \cup {0}
    BY DEF StreamTyped, TypedIds, IdsTypeOK
  <2>2. DOMAIN manus' = DOMAIN manus \cup {manu.id}
    BY <1>1 DEF Insert
  <2> QED
    BY <2>1, <2>2
<1>3. stream' \in {"good", "eof", "fail"} /\ (stream' # "good" => Eof(at))
  BY <1>1 DEF Looked, StreamTyped, TypedIds, IdsTypeOK, StreamInv
<1> QED
  BY <1>1, <1>2, <1>3 DEF StreamTyped, TypedIds, IdsTypeOK, StreamInv, NextInv, Eof

LEMMA StartDeviceTyped ==
  ASSUME StreamTyped, StartDevice, Peek(at) = "tab"
  PROVE  StreamTyped'
<1> DEFINE c == at.line
           p == WordAt(BehindComments(AfterTab(at)))
<1>1. IdFile(file) /\ c \in Nat \ {0} /\ at = Place(c, 0) /\ Len(file) \in Nat
  BY FileRead, LinesOf DEF StreamTyped
<1>2. ~Eof(at) /\ stream = "good"
  <2>1. ~Eof(at)
    BY <1>1, PeekAt DEF Peek
  <2> QED
    BY <2>1 DEF StreamTyped, StreamInv
<1>3. AfterTab(at) = Place(c, 1)
  BY <1>1 DEF AfterTab, Place
<1>4. PICK m \in 1 .. Len(file) + 1 : /\ p = Place(m, 0) /\ m \in Nat \ {0} /\ m + 1 \in 1 .. Len(file) + 2
                                      /\ Eof(Place(m, 0)) <=> m > Len(file)
                                      /\ m > Len(file) => m + 1 > Len(file)
  BY <1>1, <1>3, WordBehind
<1>5. NextLine(p) = Place(m + 1, 0)
  BY <1>4 DEF NextLine, Place
<1>6. /\ \E i \in Id(p, 1) : dev' = [id |-> i, name |-> Name(p, 1), subs |-> NoMap]
      /\ at' = Place(m + 1, 0) /\ stream' = (IF Eof(p) THEN "fail" ELSE Looked(Place(m + 1, 0)))
      /\ next' = Peek(Place(m + 1, 0)) /\ level' = "device"
      /\ UNCHANGED <<setup, which, tables, file, manu, devices, manus>>
  BY <1>5 DEF StartDevice, both
<1>7. dev'.id \in Ids \cup {0} /\ dev' = [id |-> dev'.id, name |-> dev'.name, subs |-> dev'.subs] /\ DOMAIN dev'.subs = {}
  <2>1. Id(p, 1) \subseteq Ids \cup {0}
    BY <1>1, <1>4, IdFound
  <2> QED
    BY <1>6, <2>1 DEF NoMap
<1>8. /\ at' = Place(at'.line, 0) /\ at'.line \in 1 .. Len(file') + 2 /\ at'.tabs = 0
      /\ (Eof(at)' <=> m + 1 > Len(file)) /\ Peek(at)' = Peek(Place(m + 1, 0))
  BY <1>1, <1>4, <1>6, MovedTo
<1>9. m + 1 \in Nat \ {0}
  BY <1>4
<1>10. stream' \in {"good", "eof", "fail"} /\ (stream' # "good" => Eof(at)')
  <2>1. Eof(Place(m + 1, 0)) <=> m + 1 > Len(file)
    BY <1>1, <1>9, PeekAt
  <2> QED
    BY <1>2, <1>4, <1>6, <1>8, <2>1 DEF Looked
<1>11. next' \in {"tab", "#", "newline", "text", "eof"}
  BY <1>1, <1>6, <1>9, PeekAt
<1>12. TypedIds'
  BY <1>6, <1>7, <1>8, <1>10, <1>11 DEF StreamTyped, TypedIds, IdsTypeOK
<1> QED
  BY <1>6, <1>8, <1>10, <1>12 DEF StreamTyped, StreamInv, NextInv

LEMMA ReadSubDeviceTyped ==
  ASSUME StreamTyped, ReadSubDevice, SubFollows
  PROVE  StreamTyped'
<1> DEFINE c == at.line
           p == WordAt(BehindComments(AfterTab(Taken)))
<1>1. IdFile(file) /\ c \in Nat \ {0} /\ at = Place(c, 0) /\ Len(file) \in Nat
  BY FileRead, LinesOf DEF StreamTyped
<1>2. ~Eof(at) /\ stream = "good"
  <2>1. ~Eof(at)
    BY <1>1, PeekAt DEF SubFollows
  <2> QED
    BY <2>1 DEF StreamTyped, StreamInv
<1>3. \E b \in Nat \ {0}, t \in Nat : AfterTab(Taken) = Place(b, t)
  <2>1. AfterTab(AfterTab(at)) = Place(c, 2) /\ AfterTab(NextLine(at)) = Place(c + 1, 1)
    BY <1>1 DEF AfterTab, NextLine, Place
  <2>2. c + 1 \in Nat \ {0}
    BY <1>1
  <2> QED
    BY <1>1, <2>1, <2>2 DEF Taken
<1>4. PICK m \in 1 .. Len(file) + 1 : /\ p = Place(m, 0) /\ m \in Nat \ {0} /\ m + 1 \in 1 .. Len(file) + 2
                                      /\ Eof(Place(m, 0)) <=> m > Len(file)
                                      /\ m > Len(file) => m + 1 > Len(file)
  BY <1>1, <1>3, WordBehind
<1>5. NextLine(p) = Place(m + 1, 0)
  BY <1>4 DEF NextLine, Place
<1>6. PICK s \in (IF Eof(p) THEN Ids \cup {0} ELSE Id(p, 2)) : dev' = [dev EXCEPT !.subs = Insert(@, s, Name(p, 2))]
  BY DEF ReadSubDevice
<1>7. /\ at' = Place(m + 1, 0) /\ stream' = (IF Eof(p) THEN "fail" ELSE stream) /\ next' = "tab"
      /\ UNCHANGED <<setup, which, tables, file, level, manu, devices, manus>>
  BY <1>5 DEF ReadSubDevice, both
<1>8. s \in Ids \cup {0}
  <2>1. Id(p, 2) \subseteq Ids \cup {0}
    BY <1>1, <1>4, IdFound
  <2> QED
    BY <2>1
<1>9. dev' = [id |-> dev.id, name |-> dev.name, subs |-> Insert(dev.subs, s, Name(p, 2))]
  <2>1. dev = [id |-> dev.id, name |-> dev.name, subs |-> dev.subs]
    BY DEF StreamTyped, TypedIds
  <2> QED
    BY <1>6, <2>1
<1>10. DOMAIN dev'.subs \subseteq Ids \cup {0}
  <2>1. DOMAIN dev.subs \subseteq Ids \cup {0}
    BY DEF StreamTyped, TypedIds, IdsTypeOK
  <2>2. dev'.subs = Insert(dev.subs, s, Name(p, 2))
    BY <1>9
  <2>3. DOMAIN dev'.subs = DOMAIN dev.subs \cup {s}
    BY <2>2 DEF Insert
  <2> QED
    BY <1>8, <2>1, <2>3
<1>11. /\ at' = Place(at'.line, 0) /\ at'.line \in 1 .. Len(file') + 2 /\ at'.tabs = 0
       /\ (Eof(at)' <=> m + 1 > Len(file))
  BY <1>1, <1>4, <1>7, MovedTo
<1>12. stream' \in {"good", "eof", "fail"} /\ (stream' # "good" => Eof(at)')
  BY <1>2, <1>4, <1>7, <1>11
<1>13. dev'.id = dev.id /\ dev' = [id |-> dev'.id, name |-> dev'.name, subs |-> dev'.subs]
  BY <1>9
<1>14. TypedIds'
  BY <1>7, <1>10, <1>11, <1>12, <1>13 DEF StreamTyped, TypedIds, IdsTypeOK
<1> QED
  BY <1>7, <1>12, <1>14 DEF StreamTyped, StreamInv, NextInv

LEMMA SkipCommentTyped ==
  ASSUME StreamTyped, SkipComment, level = "device", next = "#"
  PROVE  StreamTyped'
<1> DEFINE c == at.line
<1>1. IdFile(file) /\ c \in Nat \ {0} /\ at = Place(c, 0) /\ Len(file) \in Nat
  BY FileRead, LinesOf DEF StreamTyped
<1>2. ~Eof(at) /\ ~(c > Len(file)) /\ stream = "good"
  <2>1. Peek(at) = "#"
    BY DEF StreamTyped, NextInv
  <2>2. ~Eof(at) /\ ~(c > Len(file))
    BY <1>1, <2>1, PeekAt
  <2> QED
    BY <2>2 DEF StreamTyped, StreamInv
<1>3. /\ at' = Place(c + 1, 0) /\ next' = Peek(Place(c + 1, 0)) /\ stream' = Looked(Place(c + 1, 0))
      /\ UNCHANGED <<setup, which, tables, file, level, manu, dev, devices, manus>>
  BY DEF SkipComment, NextLine, both
<1>4. c + 1 \in 1 .. Len(file) + 2 /\ c + 1 \in Nat \ {0}
  BY <1>1, <1>2
<1>5. /\ at' = Place(at'.line, 0) /\ at'.line \in 1 .. Len(file') + 2 /\ at'.tabs = 0
      /\ (Eof(at)' <=> c + 1 > Len(file)) /\ Peek(at)' = Peek(Place(c + 1, 0))
  BY <1>1, <1>3, <1>4, MovedTo
<1>6. stream' \in {"good", "eof", "fail"} /\ (stream' # "good" => Eof(at)')
  <2>1. Eof(Place(c + 1, 0)) <=> c + 1 > Len(file)
    BY <1>1, <1>4, PeekAt
  <2> QED
    BY <1>2, <1>3, <1>5, <2>1 DEF Looked
<1>7. next' \in {"tab", "#", "newline", "text", "eof"}
  BY <1>1, <1>3, <1>4, PeekAt
<1>8. TypedIds'
  BY <1>3, <1>5, <1>6, <1>7 DEF StreamTyped, TypedIds, IdsTypeOK
<1> QED
  BY <1>3, <1>5, <1>6, <1>8 DEF StreamTyped, StreamInv, NextInv

LEMMA EndDeviceTyped ==
  ASSUME StreamTyped, EndDevice, stream' = stream \/ (stream' = "fail" /\ Eof(at))
  PROVE  StreamTyped'
<1>1. /\ devices' = (IF dev.id = UnknownId THEN devices ELSE Insert(devices, dev.id, [name |-> dev.name, subs |-> dev.subs]))
      /\ level' = "manu" /\ UNCHANGED <<setup, which, tables, file, at, next, manu, dev, manus>>
  BY DEF EndDevice, both
<1>2. DOMAIN devices' \subseteq Known \cup {0}
  <2>1. DOMAIN devices \subseteq Known \cup {0} /\ dev.id \in Ids \cup {0}
    BY DEF StreamTyped, TypedIds, IdsTypeOK
  <2>2. dev.id # UnknownId => dev.id \in Known \cup {0}
    BY <2>1 DEF Known
  <2>3. dev.id # UnknownId => DOMAIN devices' = DOMAIN devices \cup {dev.id}
    BY <1>1, InsertKeys
  <2> QED
    BY <1>1, <2>1, <2>2, <2>3
<1> QED
  BY <1>1, <1>2 DEF StreamTyped, TypedIds, IdsTypeOK, StreamInv, NextInv, Eof

LEMMA FillManusTyped ==
  ASSUME StreamTyped, FillManus
  PROVE  StreamTyped'
<1>1. CASE Peek(at) \in {"#", "newline"} /\ SkipLine
  BY <1>1, SkipTyped DEF FillManus
<1>2. CASE stream = "good" /\ StartManufacturer
  BY <1>2, StartManufacturerTyped
<1>3. CASE Proceed /\ tables' = [tables EXCEPT ![which] = [made |-> TRUE, manus |-> manus]]
           /\ UNCHANGED <<setup, file, at, stream, next, manu, dev, devices, manus>>
  <2>1. which' \in {"pci", "usb"} /\ level' \in {"open", "done"} /\ DOMAIN tables' = DOMAIN tables
    BY <1>3 DEF Proceed, StreamTyped, TypedIds
  <2> QED
    BY <1>3, <2>1 DEF StreamTyped, TypedIds, IdsTypeOK, StreamInv, NextInv, Eof
<1> QED
  BY <1>1, <1>2, <1>3 DEF FillManus

LEMMA StepTyped == StreamTyped /\ [IdsNext]_idsVars => StreamTyped'
<1> SUFFICES ASSUME StreamTyped, [IdsNext]_idsVars PROVE StreamTyped'
  OBVIOUS
<1>1. CASE OpenIds
  BY <1>1, OpenTyped
<1>2. CASE FillManus
  BY <1>2, FillManusTyped
<1>3. CASE ReadManufacturer
  BY <1>3, SkipTyped, StartDeviceTyped, EndManufacturerTyped DEF ReadManufacturer
<1>4. CASE ReadDevice
  BY <1>4, ReadSubDeviceTyped, EndDeviceTyped, SkipCommentTyped DEF ReadDevice
<1>5. CASE UNCHANGED idsVars
  BY <1>5 DEF idsVars, both, StreamTyped, TypedIds, IdsTypeOK, StreamInv, NextInv, Eof, Peek
<1> QED
  BY <1>1, <1>2, <1>3, <1>4, <1>5 DEF IdsNext

LEMMA InitTypedIds == IdsInit => StreamTyped
<1> SUFFICES ASSUME IdsInit PROVE StreamTyped
  OBVIOUS
<1>1. at = Place(at.line, 0) /\ at.line = 1 /\ at.tabs = 0 /\ Len(file) = 0 /\ 1 \in 1 .. 0 + 2
  BY DEF IdsInit, Place
<1>2. UnknownId \in Ids
  BY IdsAssumption
<1>3. /\ manu.id = UnknownId /\ dev.id = UnknownId /\ dev.subs = NoMap /\ DOMAIN NoMap = {}
      /\ manu = [id |-> manu.id, name |-> manu.name] /\ dev = [id |-> dev.id, name |-> dev.name, subs |-> dev.subs]
  BY DEF IdsInit, NoMap
<1>4. DOMAIN tables = {"pci", "usb"}
  BY DEF IdsInit
<1>5. IdsTypeOK
  BY <1>1, <1>2, <1>3, <1>4 DEF IdsInit, IdsTypeOK
<1> QED
  BY <1>1, <1>3, <1>4, <1>5 DEF IdsInit, StreamTyped, TypedIds, StreamInv, NextInv

-----------------------------------------------------------------------------
(* Which entries stand under which.                                        *)

LEMMA UnderFound ==
  ASSUME NEW f, IdFile(f), NEW l \in Nat, NEW t, NEW e \in Entries(f, t), e < l
  PROVE  /\ Under(f, l, t) \in Entries(f, t) /\ Under(f, l, t) < l
         /\ \A j \in Entries(f, t) : j < l => j <= Under(f, l, t)
<1> DEFINE T == {j \in Entries(f, t) : j < l}
           Is(k) == k < l /\ \A j \in Entries(f, t) : j < l => j <= k
<1>1. T \in SUBSET (0 .. l) /\ T # {}
  <2>1. Entries(f, t) \in SUBSET Nat
    BY LinesOf
  <2> QED
    BY <2>1
<1>2. \E m \in T : \A j \in T : j <= m
  <2> HIDE DEF T
  <2> QED
    BY <1>1, Greatest
<1>3. \E k \in Entries(f, t) : Is(k)
  BY <1>2
<1>4. Under(f, l, t) = CHOOSE k \in Entries(f, t) : Is(k)
  BY DEF Under
<1> HIDE DEF Is
<1>5. Under(f, l, t) \in Entries(f, t) /\ Is(Under(f, l, t))
  BY <1>3, <1>4
<1> QED
  BY <1>5 DEF Is

LEMMA UnderIs ==
  ASSUME NEW f, IdFile(f), NEW l \in Nat, NEW t, NEW V \in Entries(f, t), V < l, NoneOf(f, t, V + 1, l)
  PROVE  Under(f, l, t) = V
<1> DEFINE U == Under(f, l, t)
<1>1. U \in Entries(f, t) /\ U < l /\ V <= U
  BY UnderFound
<1>2. V \in Nat /\ U \in Nat
  BY <1>1, LinesOf
<1>3. ~(V + 1 <= U /\ U < l)
  BY <1>1 DEF NoneOf
<1> HIDE DEF U
<1>4. U = V
  BY <1>1, <1>2, <1>3
<1> QED
  BY <1>4 DEF U

\* A sub-device stands under a device, so where no sub-device comes first there
\* is a device before it.
LEMMA DeviceBefore ==
  ASSUME NEW f, IdFile(f), NEW c \in Nat \ {0}, FirstIs(f, c, {0, 1}), NEW l \in Entries(f, 2), c <= l
  PROVE  \E k \in Entries(f, 1) : c <= k /\ k < l
<1> DEFINE T == {k \in DOMAIN f : c <= k /\ k < l /\ f[k].head = "text" /\ f[k].tabs \in {0, 1}}
<1>1. DOMAIN f = 1 .. Len(f) /\ Len(f) \in Nat /\ l \in DOMAIN f /\ l \in Nat /\ f[l].head = "text" /\ f[l].tabs = 2
  BY LinesOf DEF Entries
<1>2. T \in SUBSET (0 .. Len(f))
  BY <1>1
<1>3. T # {}
  <2>1. PICK e \in DOMAIN f : c <= e /\ e <= l /\ f[e].head = "text" /\ NoEntry(f, c, e)
    BY <1>1, FirstEntry
  <2>2. f[e].tabs \in {0, 1}
    <3>1. e >= c
      BY <1>1, <2>1
    <3> QED
      BY <2>1, <3>1 DEF FirstIs
  <2>3. e # l
    BY <1>1, <2>2
  <2>4. e < l
    BY <1>1, <2>1, <2>3
  <2> QED
    BY <2>1, <2>2, <2>4
<1>4. PICK m \in T : \A k \in T : k <= m
  <2> HIDE DEF T
  <2> QED
    BY <1>1, <1>2, <1>3, Greatest
<1>5. m \in DOMAIN f /\ m \in Nat /\ c <= m /\ m < l /\ f[m].head = "text" /\ f[m].tabs \in {0, 1}
  BY <1>1
<1>6. CASE f[m].tabs = 1
  BY <1>5, <1>6 DEF Entries
<1>7. CASE f[m].tabs = 0
  <2>1. m + 1 \in Nat \ {0} /\ m + 1 <= l
    BY <1>1, <1>5
  <2>2. PICK e \in DOMAIN f : m + 1 <= e /\ e <= l /\ f[e].head = "text" /\ NoEntry(f, m + 1, e)
    BY <1>1, <2>1, FirstEntry
  <2>3. f[e].tabs = 2
    <3>1. CASE e = l
      BY <1>1, <3>1
    <3>2. CASE e # l
      <4>1. e < l /\ c <= e /\ ~(e <= m)
        BY <1>1, <1>5, <2>2, <3>2
      <4>2. e \notin T
        BY <1>4, <4>1
      <4>3. f[e].tabs \notin {0, 1}
        BY <2>2, <4>1, <4>2
      <4> QED
        BY <4>3, LineKinds
    <3> QED
      BY <3>1, <3>2
  <2>4. PICK k \in Entries(f, 1) \cup Entries(f, 2) : k < e /\ NoEntry(f, k + 1, e)
    BY <2>2, <2>3 DEF IdFile, Entries
  <2>5. k \in DOMAIN f /\ k \in Nat /\ e \in Nat /\ f[k].head = "text" /\ f[k].tabs \in {1, 2}
    BY <1>1, <2>4 DEF Entries
  <2>6. ~(k < m)
    <3> SUFFICES ASSUME k < m PROVE FALSE
      OBVIOUS
    <3>1. m \in k + 1 .. e - 1
      BY <1>5, <2>2, <2>5
    <3> QED
      BY <1>5, <2>4, <3>1 DEF NoEntry
  <2>7. ~(m < k)
    <3> SUFFICES ASSUME m < k PROVE FALSE
      OBVIOUS
    <3>1. k \in m + 1 .. e - 1
      BY <1>5, <2>4, <2>5
    <3> QED
      BY <2>2, <2>5, <3>1 DEF NoEntry
  <2>8. k = m
    BY <1>5, <2>5, <2>6, <2>7
  <2> QED
    BY <1>7, <2>5, <2>8
<1> QED
  BY <1>5, <1>6, <1>7

\* A file begins with a vendor.
LEMMA VendorFirst ==
  ASSUME NEW f, IdFile(f)
  PROVE  FirstIs(f, 1, {0})
<1> SUFFICES ASSUME NEW e \in DOMAIN f, NoEntry(f, 1, e) PROVE f[e].tabs = 0
  BY DEF FirstIs
<1>1. ~(f[e].tabs > 0)
  BY DEF IdFile
<1>2. f[e].tabs \in 0 .. 2
  BY LineKinds
<1> QED
  BY <1>1, <1>2

LEMMA FirstPasses ==
  ASSUME NEW f, IdFile(f), NEW c \in Nat \ {0}, NEW T, FirstIs(f, c, T), c \in DOMAIN f => f[c].head # "text"
  PROVE  FirstIs(f, c + 1, T)
<1> SUFFICES ASSUME NEW e \in DOMAIN f, e >= c + 1, f[e].head = "text", NoEntry(f, c + 1, e) PROVE f[e].tabs \in T
  BY DEF FirstIs
<1>1. e \in Nat /\ e >= c /\ DOMAIN f = 1 .. Len(f) /\ Len(f) \in Nat
  BY LinesOf
<1>2. ASSUME NEW i \in c .. e - 1 PROVE f[i].head # "text"
  <2>1. CASE i = c
    <3>1. c \in DOMAIN f
      BY <1>1
    <3> QED
      BY <2>1, <3>1
  <2>2. CASE i # c
    <3>1. i \in c + 1 .. e - 1
      BY <1>1, <2>2
    <3> QED
      BY <3>1 DEF NoEntry
  <2> QED
    BY <2>1, <2>2
<1>3. NoEntry(f, c, e)
  BY <1>2 DEF NoEntry
<1> QED
  BY <1>1, <1>3 DEF FirstIs

LEMMA FirstHere ==
  ASSUME NEW f, IdFile(f), NEW c \in Nat \ {0}, NEW T,
         c > Len(f) \/ (c \in DOMAIN f /\ f[c].head = "text" /\ f[c].tabs \in T)
  PROVE  FirstIs(f, c, T)
<1> SUFFICES ASSUME NEW e \in DOMAIN f, e >= c, f[e].head = "text", NoEntry(f, c, e) PROVE f[e].tabs \in T
  BY DEF FirstIs
<1>1. e \in Nat /\ DOMAIN f = 1 .. Len(f) /\ Len(f) \in Nat
  BY LinesOf
<1>2. ~(c > Len(f))
  BY <1>1
<1>3. c \in DOMAIN f /\ f[c].head = "text" /\ f[c].tabs \in T
  BY <1>2
<1>4. e = c
  <2> SUFFICES ASSUME e # c PROVE FALSE
    OBVIOUS
  <2>1. c \in c .. e - 1
    BY <1>1
  <2> QED
    BY <1>3, <2>1 DEF NoEntry
<1> QED
  BY <1>3, <1>4

-----------------------------------------------------------------------------
(* What the tables hold as the reader goes on.                             *)

\* The lines of some kind before c, and those before a later line.
LEMMA NoneBetween ==
  ASSUME NEW E \in SUBSET Nat, NEW a \in Nat, NEW c \in Nat, a <= c, \A l \in E : ~(a <= l /\ l < c)
  PROVE  \A l \in E : l < c <=> l < a
BY SMT

LEMMA SubsPass ==
  ASSUME NEW f, IdFile(f), NEW D, NEW a \in Nat, NEW c \in Nat, a <= c,
         \A l \in Entries(f, 2) : a <= l /\ l < c => Under(f, l, 1) # D, NEW subs, SubsMade(f, subs, D, a)
  PROVE  SubsMade(f, subs, D, c)
<1>1. ASSUME NEW k PROVE SubsTo(f, D, k, c) = SubsTo(f, D, k, a)
  <2>1. \A l \in Entries(f, 2) : Under(f, l, 1) = D => (l < c <=> l < a)
    <3>1. Entries(f, 2) \in SUBSET Nat
      BY LinesOf
    <3>2. ASSUME NEW l \in Entries(f, 2), Under(f, l, 1) = D PROVE l < c <=> l < a
      <4>1. ~(a <= l /\ l < c) /\ l \in Nat
        BY <3>1, <3>2
      <4> QED
        BY <4>1
    <3> QED
      BY <3>2
  <2> QED
    BY <2>1 DEF SubsTo
<1> QED
  BY <1>1 DEF SubsMade

LEMMA DevicesPass ==
  ASSUME NEW f, IdFile(f), NEW V, NEW a \in Nat, NEW c \in Nat, a <= c,
         \A l \in Entries(f, 1) : a <= l /\ l < c => Under(f, l, 0) # V, NEW ds, DevicesMade(f, ds, V, a)
  PROVE  DevicesMade(f, ds, V, c)
<1>1. ASSUME NEW d PROVE DevicesTo(f, V, d, c) = DevicesTo(f, V, d, a)
  <2>1. \A l \in Entries(f, 1) : Under(f, l, 0) = V => (l < c <=> l < a)
    <3>1. Entries(f, 1) \in SUBSET Nat
      BY LinesOf
    <3>2. ASSUME NEW l \in Entries(f, 1), Under(f, l, 0) = V PROVE l < c <=> l < a
      <4>1. ~(a <= l /\ l < c) /\ l \in Nat
        BY <3>1, <3>2
      <4> QED
        BY <4>1
    <3> QED
      BY <3>2
  <2> QED
    BY <2>1 DEF DevicesTo
<1> QED
  BY <1>1 DEF DevicesMade

LEMMA ManusPass ==
  ASSUME NEW f, IdFile(f), NEW a \in Nat, NEW c \in Nat, a <= c, NoneOf(f, 0, a, c), NEW ms, ManusMade(f, ms, a)
  PROVE  ManusMade(f, ms, c)
<1>1. ASSUME NEW v PROVE VendorsTo(f, v, c) = VendorsTo(f, v, a)
  <2>1. \A l \in Entries(f, 0) : l < c <=> l < a
    <3>1. Entries(f, 0) \in SUBSET Nat
      BY LinesOf
    <3> QED
      BY <3>1, NoneBetween DEF NoneOf
  <2> QED
    BY <2>1 DEF VendorsTo
<1> QED
  BY <1>1 DEF ManusMade

\* Once a vendor or a device follows, all sub-devices of a device were read.
LEMMA SubsDone ==
  ASSUME NEW f, IdFile(f), NEW c \in Nat \ {0}, c <= Len(f) + 1, FirstIs(f, c, {0, 1}),
         NEW D \in Nat, D < c, NEW subs, SubsMade(f, subs, D, c)
  PROVE  SubsMade(f, subs, D, Len(f) + 1)
<1>1. ASSUME NEW l \in Entries(f, 2), c <= l PROVE Under(f, l, 1) # D
  <2>1. PICK k \in Entries(f, 1) : c <= k /\ k < l
    BY <1>1, DeviceBefore
  <2>2. l \in Nat /\ k \in Nat
    BY <2>1, LinesOf
  <2>3. k <= Under(f, l, 1) /\ Under(f, l, 1) \in Nat
    BY <2>1, <2>2, UnderFound, LinesOf
  <2> QED
    BY <2>1, <2>2, <2>3
<1>2. Len(f) + 1 \in Nat
  BY LinesOf
<1> QED
  BY <1>1, <1>2, SubsPass

\* Once a vendor follows, all devices of the one before were read.
LEMMA DevicesDone ==
  ASSUME NEW f, IdFile(f), NEW c \in Nat \ {0}, c <= Len(f) + 1, FirstIs(f, c, {0}),
         NEW V \in Nat, V < c, NEW ds, DevicesMade(f, ds, V, c)
  PROVE  DevicesMade(f, ds, V, Len(f) + 1)
<1>1. ASSUME NEW l \in Entries(f, 1), c <= l PROVE Under(f, l, 0) # V
  <2>1. l \in DOMAIN f /\ f[l].head = "text" /\ f[l].tabs = 1 /\ l \in Nat
    BY LinesOf DEF Entries
  <2>2. PICK e \in DOMAIN f : c <= e /\ e <= l /\ f[e].head = "text" /\ NoEntry(f, c, e)
    BY <1>1, <2>1, FirstEntry
  <2>3. e \in Nat
    BY LinesOf
  <2>4. f[e].tabs = 0
    <3>1. e >= c
      BY <2>2, <2>3
    <3> QED
      BY <2>2, <3>1 DEF FirstIs
  <2>5. e \in Entries(f, 0) /\ e < l
    <3>1. e # l
      BY <2>1, <2>4
    <3> QED
      BY <2>1, <2>2, <2>3, <2>4, <3>1 DEF Entries
  <2>6. e <= Under(f, l, 0) /\ Under(f, l, 0) \in Nat
    BY <2>1, <2>5, UnderFound, LinesOf
  <2> QED
    BY <2>2, <2>3, <2>6
<1>2. Len(f) + 1 \in Nat
  BY LinesOf
<1> QED
  BY <1>1, <1>2, DevicesPass

\* A sub-device is put in, unless its device has one with that id.
LEMMA SubAdded ==
  ASSUME NEW f, IdFile(f), NEW c \in Entries(f, 2), NEW D, Under(f, c, 1) = D, NEW subs, SubsMade(f, subs, D, c)
  PROVE  SubsMade(f, Insert(subs, f[c].ids[2], <<c, 2>>), D, c + 1)
<1> DEFINE s == f[c].ids[2]
           new == Insert(subs, s, <<c, 2>>)
<1>1. c \in Nat /\ Entries(f, 2) \in SUBSET Nat
  BY LinesOf
<1> SUFFICES ASSUME NEW k \in Known
             PROVE  LET S == SubsTo(f, D, k, c + 1)
                    IN IF S = {} THEN k \notin DOMAIN new ELSE k \in DOMAIN new /\ new[k] = <<First(S), 2>>
  BY DEF SubsMade
<1> DEFINE Old == SubsTo(f, D, k, c)
<1>2. SubsTo(f, D, k, c + 1) = IF k = s THEN Old \cup {c} ELSE Old
  <2>1. \A l \in Entries(f, 2) : l < c + 1 <=> l < c \/ l = c
    BY <1>1
  <2> QED
    BY <2>1 DEF SubsTo
<1>3. Old \in SUBSET Nat /\ (\A l \in Old : l < c)
  BY <1>1 DEF SubsTo
<1>4. IF Old = {} THEN k \notin DOMAIN subs ELSE k \in DOMAIN subs /\ subs[k] = <<First(Old), 2>>
  BY DEF SubsMade
<1>5. DOMAIN new = DOMAIN subs \cup {s} /\ (\A i \in DOMAIN subs : new[i] = subs[i]) /\ (s \notin DOMAIN subs => new[s] = <<c, 2>>)
  BY DEF Insert
<1>6. First(Old \cup {c}) = IF Old = {} THEN c ELSE First(Old)
  BY <1>1, <1>3, FirstStays
<1> HIDE DEF Old, new, s
<1>7. CASE k = s
  <2>1. SubsTo(f, D, k, c + 1) = Old \cup {c} /\ Old \cup {c} # {}
    BY <1>2, <1>7
  <2> QED
    BY <1>4, <1>5, <1>6, <1>7, <2>1
<1>8. CASE k # s
  BY <1>2, <1>4, <1>5, <1>8
<1> QED
  BY <1>7, <1>8

\* A device is put in with its sub-devices, unless it is the unknown one or its
\* vendor has one with that id.
LEMMA DeviceAdded ==
  ASSUME NEW f, IdFile(f), NEW D \in Entries(f, 1), NEW V, Under(f, D, 0) = V, NEW c \in Nat, D < c, NoneOf(f, 1, D + 1, c),
         NEW subs, SubsMade(f, subs, D, Len(f) + 1), NEW ds, DevicesMade(f, ds, V, D)
  PROVE  DevicesMade(f, IF f[D].ids[1] = UnknownId THEN ds ELSE Insert(ds, f[D].ids[1], [name |-> <<D, 1>>, subs |-> subs]), V, c)
<1> DEFINE i == f[D].ids[1]
           x == [name |-> <<D, 1>>, subs |-> subs]
           new == IF i = UnknownId THEN ds ELSE Insert(ds, i, x)
<1>1. D \in Nat /\ Entries(f, 1) \in SUBSET Nat
  BY LinesOf
<1> SUFFICES ASSUME NEW d \in Known
             PROVE  LET S == DevicesTo(f, V, d, c)
                    IN IF S = {} THEN d \notin DOMAIN new
                       ELSE /\ d \in DOMAIN new /\ new[d].name = <<First(S), 1>>
                            /\ SubsMade(f, new[d].subs, First(S), Len(f) + 1)
  BY DEF DevicesMade
<1> DEFINE Old == DevicesTo(f, V, d, D)
<1>2. DevicesTo(f, V, d, c) = IF d = i THEN Old \cup {D} ELSE Old
  <2>1. ASSUME NEW l \in Entries(f, 1) PROVE l < c <=> l < D \/ l = D
    <3>1. l \in Nat /\ ~(D + 1 <= l /\ l < c)
      BY <1>1, <2>1 DEF NoneOf
    <3> QED
      BY <1>1, <3>1
  <2> QED
    BY <2>1 DEF DevicesTo
<1>3. Old \in SUBSET Nat /\ (\A l \in Old : l < D)
  BY <1>1 DEF DevicesTo
<1>4. IF Old = {} THEN d \notin DOMAIN ds
      ELSE d \in DOMAIN ds /\ ds[d].name = <<First(Old), 1>> /\ SubsMade(f, ds[d].subs, First(Old), Len(f) + 1)
  BY DEF DevicesMade
<1>5. First(Old \cup {D}) = IF Old = {} THEN D ELSE First(Old)
  BY <1>1, <1>3, FirstStays
<1>6. d # UnknownId
  BY DEF Known
<1>7. x.name = <<D, 1>> /\ x.subs = subs
  OBVIOUS
<1>8. i # UnknownId => /\ DOMAIN new = DOMAIN ds \cup {i} /\ (\A j \in DOMAIN ds : new[j] = ds[j])
                       /\ i \notin DOMAIN ds => new[i] = x
  <2> HIDE DEF x, i
  <2> QED
    BY DEF Insert
<1>9. i = UnknownId => new = ds
  OBVIOUS
<1> HIDE DEF Old, new, i, x
<1>10. CASE d = i
  <2>1. DevicesTo(f, V, d, c) = Old \cup {D} /\ Old \cup {D} # {}
    BY <1>2, <1>10
  <2>2. CASE Old = {}
    <3>1. new[d] = x /\ d \in DOMAIN new /\ First(Old \cup {D}) = D
      BY <1>4, <1>5, <1>6, <1>8, <1>10, <2>2
    <3> QED
      BY <1>7, <2>1, <3>1
  <2>3. CASE Old # {}
    <3>1. new[d] = ds[d] /\ d \in DOMAIN new /\ First(Old \cup {D}) = First(Old)
      BY <1>4, <1>5, <1>6, <1>8, <1>10, <2>3
    <3> QED
      BY <1>4, <2>1, <2>3, <3>1
  <2> QED
    BY <2>2, <2>3
<1>11. CASE d # i
  <2>1. DevicesTo(f, V, d, c) = Old
    BY <1>2, <1>11
  <2>2. (d \in DOMAIN new <=> d \in DOMAIN ds) /\ (d \in DOMAIN ds => new[d] = ds[d])
    BY <1>8, <1>9, <1>11
  <2> QED
    BY <1>4, <2>1, <2>2
<1> QED
  BY <1>10, <1>11

\* A vendor is put in with its devices, unless one with that id is there.
LEMMA ManuAdded ==
  ASSUME NEW f, IdFile(f), NEW V \in Entries(f, 0), NEW c \in Nat, V < c, NoneOf(f, 0, V + 1, c),
         NEW ds, Clean(f) => DevicesMade(f, ds, V, Len(f) + 1), NEW ms, ManusMade(f, ms, V)
  PROVE  ManusMade(f, Insert(ms, f[V].ids[1], [name |-> <<V, 1>>, devices |-> ds]), c)
<1> DEFINE i == f[V].ids[1]
           x == [name |-> <<V, 1>>, devices |-> ds]
           new == Insert(ms, i, x)
<1>1. V \in Nat /\ Entries(f, 0) \in SUBSET Nat
  BY LinesOf
<1> SUFFICES ASSUME NEW v \in Known
             PROVE  LET S == VendorsTo(f, v, c)
                    IN IF S = {} THEN v \notin DOMAIN new
                       ELSE /\ v \in DOMAIN new /\ new[v].name = <<First(S), 1>>
                            /\ Clean(f) => DevicesMade(f, new[v].devices, First(S), Len(f) + 1)
  BY DEF ManusMade
<1> DEFINE Old == VendorsTo(f, v, V)
<1>2. VendorsTo(f, v, c) = IF v = i THEN Old \cup {V} ELSE Old
  <2>1. ASSUME NEW l \in Entries(f, 0) PROVE l < c <=> l < V \/ l = V
    <3>1. l \in Nat /\ ~(V + 1 <= l /\ l < c)
      BY <1>1, <2>1 DEF NoneOf
    <3> QED
      BY <1>1, <3>1
  <2> QED
    BY <2>1 DEF VendorsTo
<1>3. Old \in SUBSET Nat /\ (\A l \in Old : l < V)
  BY <1>1 DEF VendorsTo
<1>4. IF Old = {} THEN v \notin DOMAIN ms
      ELSE /\ v \in DOMAIN ms /\ ms[v].name = <<First(Old), 1>>
           /\ Clean(f) => DevicesMade(f, ms[v].devices, First(Old), Len(f) + 1)
  BY DEF ManusMade
<1>5. First(Old \cup {V}) = IF Old = {} THEN V ELSE First(Old)
  BY <1>1, <1>3, FirstStays
<1>6. x.name = <<V, 1>> /\ x.devices = ds
  OBVIOUS
<1>7. DOMAIN new = DOMAIN ms \cup {i} /\ (\A j \in DOMAIN ms : new[j] = ms[j]) /\ (i \notin DOMAIN ms => new[i] = x)
  <2> HIDE DEF x, i
  <2> QED
    BY DEF Insert
<1> HIDE DEF Old, new, i, x
<1>8. CASE v = i
  <2>1. VendorsTo(f, v, c) = Old \cup {V} /\ Old \cup {V} # {}
    BY <1>2, <1>8
  <2>2. CASE Old = {}
    <3>1. new[v] = x /\ v \in DOMAIN new /\ First(Old \cup {V}) = V
      BY <1>4, <1>5, <1>7, <1>8, <2>2
    <3> QED
      BY <1>6, <2>1, <3>1
  <2>3. CASE Old # {}
    <3>1. new[v] = ms[v] /\ v \in DOMAIN new /\ First(Old \cup {V}) = First(Old)
      BY <1>4, <1>5, <1>7, <1>8, <2>3
    <3> QED
      BY <1>4, <2>1, <2>3, <3>1
  <2> QED
    BY <2>2, <2>3
<1>9. CASE v # i
  <2>1. VendorsTo(f, v, c) = Old
    BY <1>2, <1>9
  <2>2. (v \in DOMAIN new <=> v \in DOMAIN ms) /\ (v \in DOMAIN ms => new[v] = ms[v])
    BY <1>7, <1>9
  <2> QED
    BY <1>4, <2>1, <2>2
<1> QED
  BY <1>8, <1>9

-----------------------------------------------------------------------------
(* What the reader sees of the next line.                                  *)

\* What there is to be read in a file f from line c on.
AtLine(f, c) == file = f /\ at = Place(c, 0) /\ IdFile(f) /\ Unindented(f) /\ c \in Nat \ {0}

LEMMA NextCharacter ==
  ASSUME NEW f, NEW c, AtLine(f, c)
  PROVE  /\ Eof(at) <=> c > Len(f)
         /\ Peek(at) \in {"#", "newline"} => c \in DOMAIN f /\ f[c].head = Peek(at) /\ f[c].tabs = 0
         /\ Peek(at) = "text" => c \in Entries(f, 0)
         /\ Peek(at) = "tab" => c \in Entries(f, 1) \/ c \in Entries(f, 2)
         /\ Peek(at) = "eof" <=> c > Len(f)
         /\ Peek(at) \in {"tab", "#", "newline", "text", "eof"}
<1> file = f /\ at = Place(c, 0) /\ IdFile(f) /\ Unindented(f) /\ c \in Nat \ {0} /\ 0 \in Nat
  BY DEF AtLine
<1>1. /\ Eof(at) <=> c > Len(f)
      /\ Peek(at) = IF c > Len(f) THEN "eof" ELSE IF 0 < f[c].tabs THEN "tab" ELSE f[c].head
      /\ Peek(at) \in {"tab", "#", "newline", "text", "eof"}
      /\ c \in DOMAIN f <=> ~(c > Len(f))
  BY PeekAt
<1>2. c \in DOMAIN f => f[c].tabs \in 0 .. 2 /\ f[c].head \in {"text", "#", "newline"}
  BY LineKinds
<1>3. Peek(at) = "tab" => c \in DOMAIN f /\ f[c].head = "text" /\ f[c].tabs \in {1, 2}
  BY TabsLead
<1>4. ASSUME Peek(at) \in {"#", "newline", "text"} PROVE c \in DOMAIN f /\ f[c].head = Peek(at) /\ f[c].tabs = 0
  <2>1. ~(c > Len(f)) /\ c \in DOMAIN f
    BY <1>1, <1>4
  <2>2. ~(0 < f[c].tabs) /\ f[c].head = Peek(at)
    BY <1>1, <1>4, <2>1
  <2> QED
    BY <1>2, <2>1, <2>2
<1>5. Peek(at) = "eof" <=> c > Len(f)
  BY <1>1, <1>2
<1> QED
  BY <1>1, <1>3, <1>4, <1>5 DEF Entries

LEMMA LineRead ==
  ASSUME NEW f, NEW c, StreamTyped, Unindented(file), f = file, c = at.line
  PROVE  AtLine(f, c) /\ c <= Len(f) + 2 /\ Len(f) \in Nat
<1>1. IdFile(file) /\ at.line \in Nat \ {0} /\ at = Place(at.line, 0)
  BY FileRead DEF StreamTyped
<1>2. Len(f) \in Nat
  BY <1>1, LinesOf
<1>3. at.line \in 1 .. Len(file) + 2
  BY DEF StreamTyped, TypedIds, IdsTypeOK
<1> QED
  BY <1>1, <1>2, <1>3 DEF AtLine

\* Where the invariant stands after a step.
LEMMA ReadNext ==
  ASSUME NEW f, NEW c, file' = f, at' = Place(c, 0), ManusInv(f, c)', ManuInv(f, c)'
  PROVE  ReadInv'
<1>1. at'.line = c
  BY DEF Place
<1> QED
  BY <1>1 DEF ReadInv, ManusInv, ManuInv, OfNoLine, OfLine, DeviceOf

\* A line that is none of them leaves a stretch without entries.
LEMMA NoneOnward ==
  ASSUME NEW f, IdFile(f), NEW t, NEW a \in Nat, NEW c \in Nat, NoneOf(f, t, a, c), c \notin Entries(f, t)
  PROVE  NoneOf(f, t, a, c + 1)
<1> SUFFICES ASSUME NEW l \in Entries(f, t), a <= l, l < c + 1 PROVE FALSE
  BY DEF NoneOf
<1>1. l \in Nat /\ ~(a <= l /\ l < c)
  BY LinesOf DEF NoneOf
<1>2. l = c
  BY <1>1
<1> QED
  BY <1>2

LEMMA NoneYet ==
  ASSUME NEW f, IdFile(f), NEW t, NEW c \in Nat
  PROVE  NoneOf(f, t, c + 1, c + 1)
<1> SUFFICES ASSUME NEW l \in Entries(f, t), c + 1 <= l, l < c + 1 PROVE FALSE
  BY DEF NoneOf
<1>1. l \in Nat
  BY LinesOf
<1> QED
  BY <1>1

\* A line that holds no entry is of no level.
LEMMA NotText ==
  ASSUME NEW f, NEW c, f[c].head # "text", NEW t
  PROVE  c \notin Entries(f, t)
BY DEF Entries

LEMMA OtherLevel ==
  ASSUME NEW f, NEW t, NEW c \in Entries(f, t), NEW u, u # t
  PROVE  c \notin Entries(f, u)
BY DEF Entries

\* Nothing stands behind the end.
LEMMA ManusEnd ==
  ASSUME NEW f, IdFile(f), NEW c \in Nat, NEW b \in Nat, c > Len(f), b > Len(f), NEW ms, ManusMade(f, ms, c)
  PROVE  ManusMade(f, ms, b)
<1>1. \A l \in Entries(f, 0) : l < c /\ l < b
  BY LinesOf
<1>2. \A v : VendorsTo(f, v, c) = VendorsTo(f, v, b)
  BY <1>1 DEF VendorsTo
<1> QED
  BY <1>2 DEF ManusMade

LEMMA DevicesEnd ==
  ASSUME NEW f, IdFile(f), NEW c \in Nat, NEW b \in Nat, c > Len(f), b > Len(f), NEW V, NEW ds, DevicesMade(f, ds, V, c)
  PROVE  DevicesMade(f, ds, V, b)
<1>1. \A l \in Entries(f, 1) : l < c /\ l < b
  BY LinesOf
<1>2. \A d : DevicesTo(f, V, d, c) = DevicesTo(f, V, d, b)
  BY <1>1 DEF DevicesTo
<1> QED
  BY <1>2 DEF DevicesMade

LEMMA SubsEnd ==
  ASSUME NEW f, IdFile(f), NEW c \in Nat, NEW b \in Nat, c > Len(f), b > Len(f), NEW D, NEW subs, SubsMade(f, subs, D, c)
  PROVE  SubsMade(f, subs, D, b)
<1>1. \A l \in Entries(f, 2) : l < c /\ l < b
  BY LinesOf
<1>2. \A k : SubsTo(f, D, k, c) = SubsTo(f, D, k, b)
  BY <1>1 DEF SubsTo
<1> QED
  BY <1>2 DEF SubsMade

\* Every device stands under a vendor, and every sub-device under a device.
LEMMA VendorBefore ==
  ASSUME NEW f, IdFile(f), NEW l \in DOMAIN f, f[l].head = "text", f[l].tabs # 0
  PROVE  \E e \in Entries(f, 0) : e < l
<1>1. DOMAIN f = 1 .. Len(f) /\ Len(f) \in Nat /\ l \in Nat /\ 1 \in Nat \ {0} /\ 1 <= l
  BY LinesOf
<1>2. PICK e \in DOMAIN f : 1 <= e /\ e <= l /\ f[e].head = "text" /\ NoEntry(f, 1, e)
  BY <1>1, FirstEntry
<1>3. f[e].tabs = 0 /\ e # l
  <2>1. e >= 1
    BY <1>1, <1>2
  <2> QED
    BY <1>2, <2>1, VendorFirst DEF FirstIs
<1> QED
  BY <1>1, <1>2, <1>3 DEF Entries

LEMMA NoDevicesYet ==
  ASSUME NEW f, IdFile(f), NEW V \in Nat
  PROVE  DevicesMade(f, NoMap, V, V + 1)
<1>1. ASSUME NEW d, NEW l \in DevicesTo(f, V, d, V + 1) PROVE FALSE
  <2>1. l \in Entries(f, 1) /\ l < V + 1 /\ Under(f, l, 0) = V
    BY <1>1 DEF DevicesTo
  <2>2. l \in Nat /\ l \in DOMAIN f /\ f[l].head = "text" /\ f[l].tabs = 1
    BY <2>1, LinesOf DEF Entries
  <2>3. V < l
    BY <2>1, <2>2, VendorBefore, UnderFound
  <2> QED
    BY <2>1, <2>2, <2>3
<1>2. DOMAIN NoMap = {}
  BY DEF NoMap
<1> QED
  BY <1>1, <1>2 DEF DevicesMade

LEMMA NoSubsYet ==
  ASSUME NEW f, IdFile(f), NEW D \in Nat
  PROVE  SubsMade(f, NoMap, D, D + 1)
<1>1. ASSUME NEW k, NEW l \in SubsTo(f, D, k, D + 1) PROVE FALSE
  <2>1. l \in Entries(f, 2) /\ l < D + 1 /\ Under(f, l, 1) = D
    BY <1>1 DEF SubsTo
  <2>2. l \in Nat /\ 1 <= l
    BY <2>1, LinesOf
  <2>3. FirstIs(f, 1, {0, 1}) /\ 1 \in Nat \ {0}
    BY VendorFirst DEF FirstIs
  <2>4. \E e \in Entries(f, 1) : e < l
    BY <2>1, <2>2, <2>3, DeviceBefore
  <2>5. D < l
    BY <2>1, <2>2, <2>4, UnderFound
  <2> QED
    BY <2>1, <2>2, <2>5
<1>2. DOMAIN NoMap = {}
  BY DEF NoMap
<1> QED
  BY <1>1, <1>2 DEF SubsMade

LEMMA NoManusYet ==
  ASSUME NEW f, IdFile(f)
  PROVE  ManusMade(f, NoMap, 1)
<1>1. ASSUME NEW v, NEW l \in VendorsTo(f, v, 1) PROVE FALSE
  <2>1. l \in Entries(f, 0) /\ l < 1
    BY <1>1 DEF VendorsTo
  <2> QED
    BY <2>1, LinesOf
<1>2. DOMAIN NoMap = {}
  BY DEF NoMap
<1> QED
  BY <1>1, <1>2 DEF ManusMade

\* No sub-device stands directly under a vendor.
LEMMA BehindVendor ==
  ASSUME NEW f, IdFile(f), NEW V \in Entries(f, 0)
  PROVE  FirstIs(f, V + 1, {0, 1})
<1> SUFFICES ASSUME NEW e \in DOMAIN f, e >= V + 1, f[e].head = "text", NoEntry(f, V + 1, e) PROVE f[e].tabs \in {0, 1}
  BY DEF FirstIs
<1>1. e \in Nat /\ V \in Nat /\ V < e /\ f[V].head = "text" /\ f[V].tabs = 0
  BY LinesOf DEF Entries
<1>2. f[e].tabs # 2
  <2> SUFFICES ASSUME f[e].tabs = 2 PROVE FALSE
    OBVIOUS
  <2>1. PICK k \in Entries(f, 1) \cup Entries(f, 2) : k < e /\ NoEntry(f, k + 1, e)
    BY <1>1 DEF IdFile, Entries
  <2>2. k \in Nat /\ f[k].head = "text" /\ f[k].tabs \in {1, 2}
    BY LinesOf DEF Entries
  <2>3. ~(k < V)
    <3> SUFFICES ASSUME k < V PROVE FALSE
      OBVIOUS
    <3>1. V \in k + 1 .. e - 1
      BY <1>1, <2>2
    <3> QED
      BY <1>1, <2>1, <3>1 DEF NoEntry
  <2>4. ~(V < k)
    <3> SUFFICES ASSUME V < k PROVE FALSE
      OBVIOUS
    <3>1. k \in V + 1 .. e - 1
      BY <1>1, <2>1, <2>2
    <3> QED
      BY <2>2, <3>1 DEF NoEntry
  <2>5. k = V
    BY <1>1, <2>2, <2>3, <2>4
  <2> QED
    BY <1>1, <2>2, <2>5
<1> QED
  BY <1>2, LineKinds

-----------------------------------------------------------------------------
(* What is read is listed: fillManus and Manufacturer.                     *)

\* fillManus passes over comments and blank lines.
LEMMA SkipManus ==
  ASSUME StreamTyped, ReadInv, level = "manus", Unindented(file), stream = "good", Peek(at) \in {"#", "newline"}, SkipLine
  PROVE  ReadInv'
<1>1. PICK f, c : f = file /\ c = at.line
  OBVIOUS
<1>2. AtLine(f, c) /\ c <= Len(f) + 2 /\ Len(f) \in Nat
  BY <1>1, LineRead
<1>3. IdFile(f) /\ c \in Nat \ {0} /\ c + 1 \in Nat /\ at = Place(c, 0)
  BY <1>2 DEF AtLine
<1>4. c \in DOMAIN f /\ f[c].head # "text"
  BY <1>2, NextCharacter
<1>5. ManusMade(f, manus, c) /\ FirstIs(f, c, {0})
  BY <1>1 DEF ReadInv, ManusInv
<1>6. file' = f /\ at' = Place(c + 1, 0) /\ level' = "manus" /\ stream' = "good" /\ manus' = manus
  BY <1>1, <1>3 DEF SkipLine, NextLine, Place
<1>7. NoneOf(f, 0, c, c) /\ c <= c + 1
  BY <1>3, LinesOf DEF NoneOf
<1>8. NoneOf(f, 0, c, c + 1)
  BY <1>3, <1>4, <1>7, NotText, NoneOnward
<1>9. ManusMade(f, manus, c + 1) /\ FirstIs(f, c + 1, {0})
  BY <1>3, <1>4, <1>5, <1>7, <1>8, ManusPass, FirstPasses
<1>10. ManusInv(f, c + 1)' /\ ManuInv(f, c + 1)'
  BY <1>6, <1>9 DEF ManusInv, ManuInv
<1> QED
  BY <1>6, <1>10, ReadNext

\* Manufacturer passes over them, too.
LEMMA SkipManu ==
  ASSUME StreamTyped, ReadInv, level = "manu", Unindented(file), Peek(at) \in {"#", "newline"}, SkipLine
  PROVE  ReadInv'
<1>1. PICK f, c : f = file /\ c = at.line
  OBVIOUS
<1>2. AtLine(f, c) /\ c <= Len(f) + 2 /\ Len(f) \in Nat
  BY <1>1, LineRead
<1>3. IdFile(f) /\ c \in Nat \ {0} /\ c + 1 \in Nat /\ at = Place(c, 0) /\ c <= c + 1
  BY <1>2 DEF AtLine
<1>4. c \in DOMAIN f /\ f[c].head # "text" /\ ~(c > Len(f))
  BY <1>2, NextCharacter
<1>5. PICK V \in Entries(f, 0) : /\ OfLine(f, V, c) /\ ManusMade(f, manus, V)
                                 /\ Clean(f) => DevicesMade(f, devices, V, c) /\ FirstIs(f, c, {0, 1})
  BY <1>1, <1>4 DEF ReadInv, ManuInv, OfNoLine
<1>6. /\ file' = f /\ at' = Place(c + 1, 0) /\ level' = "manu"
      /\ manus' = manus /\ manu' = manu /\ devices' = devices
  BY <1>1, <1>3 DEF SkipLine, NextLine, Place
<1>7. V \in Nat /\ V < c /\ V + 1 \in Nat /\ V < c + 1
  BY <1>3, LinesOf, <1>5 DEF OfLine
<1>8. NoneOf(f, 0, V + 1, c + 1)
  BY <1>3, <1>4, <1>5, <1>7, NotText, NoneOnward DEF OfLine
<1>9. OfLine(f, V, c + 1)'
  BY <1>5, <1>6, <1>7, <1>8 DEF OfLine
<1>10. ASSUME Clean(f) PROVE DevicesMade(f, devices, V, c + 1) /\ FirstIs(f, c + 1, {0, 1})
  <2>1. ASSUME NEW l \in Entries(f, 1), c <= l, l < c + 1 PROVE FALSE
    <3>1. l = c
      BY <1>3, <2>1, LinesOf
    <3> QED
      BY <1>4, <2>1, <3>1, NotText
  <2>2. \A l \in Entries(f, 1) : c <= l /\ l < c + 1 => Under(f, l, 0) # V
    BY <2>1
  <2>3. DevicesMade(f, devices, V, c + 1)
    BY <1>3, <1>5, <1>10, <2>2, DevicesPass
  <2>4. FirstIs(f, c + 1, {0, 1})
    BY <1>3, <1>4, <1>5, <1>10, FirstPasses
  <2> QED
    BY <2>3, <2>4
<1>11. ManuInv(f, c + 1)' /\ ManusInv(f, c + 1)'
  BY <1>5, <1>6, <1>9, <1>10 DEF ManuInv, ManusInv
<1> QED
  BY <1>6, <1>11, ReadNext

\* A Manufacturer begins in its own line.
LEMMA ManuStarts ==
  ASSUME StreamTyped, ReadInv, level = "manus", Unindented(file), stream = "good", Peek(at) \notin {"#", "newline"},
         StartManufacturer
  PROVE  ReadInv'
<1>1. PICK f, c : f = file /\ c = at.line
  OBVIOUS
<1>2. AtLine(f, c) /\ c <= Len(f) + 2 /\ Len(f) \in Nat
  BY <1>1, LineRead
<1>3. IdFile(f) /\ c \in Nat \ {0} /\ c \in Nat /\ c + 1 \in Nat /\ at = Place(c, 0)
  BY <1>2 DEF AtLine
<1>4. ManusMade(f, manus, c) /\ FirstIs(f, c, {0})
  BY <1>1 DEF ReadInv, ManusInv
<1> DEFINE p == WordAt(at)
<1>5. /\ \E i \in Id(p, 1) : manu' = [id |-> i, name |-> Name(p, 1)]
      /\ at' = NextLine(p) /\ devices' = NoMap /\ level' = "manu" /\ file' = f /\ manus' = manus
  BY <1>1 DEF StartManufacturer
<1> HIDE DEF p
<1>6. Peek(at) # "tab"
  <2> SUFFICES ASSUME Peek(at) = "tab" PROVE FALSE
    OBVIOUS
  <2>1. c \in DOMAIN f /\ f[c].head = "text" /\ f[c].tabs \in {1, 2}
    BY <1>2, NextCharacter DEF Entries
  <2>2. NoEntry(f, c, c)
    BY <1>3 DEF NoEntry
  <2>3. c >= c
    BY <1>3
  <2>4. f[c].tabs \in {0}
    BY <1>4, <2>1, <2>2, <2>3 DEF FirstIs
  <2> QED
    BY <2>1, <2>4
<1>7. CASE Peek(at) = "text"
  <2>1. c \in Entries(f, 0) /\ c \in DOMAIN f /\ f[c].head = "text" /\ f[c].head # "newline"
    BY <1>2, <1>7, NextCharacter DEF Entries
  <2>2. p = Place(c, 0)
    BY <1>1, <1>3, <2>1, WordFound DEF p
  <2>3. Id(p, 1) = {f[c].ids[1]}
    BY <1>1, <1>3, <2>1, <2>2, IdFound
  <2>4. Name(p, 1) = <<c, 1>>
    <3>1. ~Eof(Place(c, 0)) /\ Place(c, 0).line = c
      BY <1>1, <1>3, <2>1, PeekAt DEF Place
    <3> QED
      BY <2>2, <3>1 DEF Name
  <2>5. manu' = [id |-> f[c].ids[1], name |-> <<c, 1>>] /\ at' = Place(c + 1, 0)
    BY <1>5, <2>2, <2>3, <2>4 DEF NextLine, Place
  <2>6. c < c + 1 /\ NoneOf(f, 0, c + 1, c + 1)
    BY <1>3, NoneYet
  <2>7. OfLine(f, c, c + 1)'
    BY <2>1, <2>5, <2>6 DEF OfLine
  <2>8. DevicesMade(f, NoMap, c, c + 1) /\ FirstIs(f, c + 1, {0, 1})
    BY <1>3, <2>1, NoDevicesYet, BehindVendor
  <2>9. ManuInv(f, c + 1)' /\ ManusInv(f, c + 1)'
    BY <1>4, <1>5, <2>1, <2>7, <2>8 DEF ManuInv, ManusInv
  <2> QED
    BY <1>5, <2>5, <2>9, ReadNext
<1>8. CASE Peek(at) = "eof"
  <2>1. c > Len(f)
    BY <1>2, <1>8, NextCharacter
  <2>2. p = Place(Len(f) + 1, 0)
    BY <1>1, <1>3, <2>1, WordFound DEF p
  <2>3. Len(f) + 1 \in Nat \ {0} /\ Len(f) + 1 > Len(f) /\ Len(f) + 2 \in Nat /\ Len(f) + 2 > Len(f) /\ Len(f) + 1 + 1 = Len(f) + 2
    BY <1>2
  <2>4. Id(p, 1) = {0}
    BY <1>1, <1>3, <2>2, <2>3, IdFound
  <2>5. manu'.id = 0 /\ at' = Place(Len(f) + 2, 0)
    BY <1>5, <2>2, <2>3, <2>4 DEF NextLine, Place
  <2>6. OfNoLine(f, Len(f) + 2)'
    BY <1>5, <2>3, <2>5 DEF OfNoLine
  <2>7. ManusMade(f, manus, Len(f) + 2)
    BY <1>3, <1>4, <2>1, <2>3, ManusEnd
  <2>8. ManuInv(f, Len(f) + 2)' /\ ManusInv(f, Len(f) + 2)'
    BY <1>5, <2>6, <2>7 DEF ManuInv, ManusInv
  <2> QED
    BY <1>5, <2>5, <2>8, ReadNext
<1> QED
  BY <1>2, <1>6, <1>7, <1>8, NextCharacter

\* A Manufacturer that read no vendor changes nothing that is listed.
LEMMA NoManuAdded ==
  ASSUME NEW f, NEW ms, NEW c, ManusMade(f, ms, c), NEW x
  PROVE  ManusMade(f, Insert(ms, 0, x), c)
<1>1. \A v \in Known : v # 0
  BY IdsAssumption DEF Known
<1>2. \A v \in Known : (v \in DOMAIN Insert(ms, 0, x) <=> v \in DOMAIN ms) /\ (v \in DOMAIN ms => Insert(ms, 0, x)[v] = ms[v])
  BY <1>1 DEF Insert
<1> QED
  BY <1>2 DEF ManusMade

\* At the next vendor, or the end, the table has every vendor before it.
LEMMA ManuEnds ==
  ASSUME StreamTyped, ReadInv, level = "manu", Unindented(file), stream = "fail" \/ Peek(at) \in {"text", "eof"},
         EndManufacturer
  PROVE  ReadInv'
<1>1. PICK f, c : f = file /\ c = at.line
  OBVIOUS
<1>2. AtLine(f, c) /\ c <= Len(f) + 2 /\ Len(f) \in Nat
  BY <1>1, LineRead
<1>3. IdFile(f) /\ c \in Nat \ {0} /\ c \in Nat /\ Len(f) + 1 \in Nat /\ Len(f) + 1 > Len(f) /\ at = Place(c, 0)
  BY <1>2 DEF AtLine
<1>4. /\ manus' = Insert(manus, manu.id, [name |-> manu.name, devices |-> devices])
      /\ level' = "manus" /\ stream' = Looked(at) /\ file' = f /\ at' = Place(c, 0)
  BY <1>1, <1>3 DEF EndManufacturer
<1>5. c > Len(f) \/ c \in Entries(f, 0)
  BY <1>2, NextCharacter DEF StreamTyped, StreamInv
<1>6. FirstIs(f, c, {0})
  <2>1. c > Len(f) \/ (c \in DOMAIN f /\ f[c].head = "text" /\ f[c].tabs \in {0})
    BY <1>5 DEF Entries
  <2> QED
    BY <1>3, <2>1, FirstHere
<1>7. stream' # "good" => c > Len(f)
  BY <1>2, <1>4, NextCharacter DEF Looked, StreamTyped, StreamInv
<1>8. ManusMade(f, manus', c)
  <2>1. CASE OfNoLine(f, c) /\ ManusMade(f, manus, c)
    BY <1>4, <2>1, NoManuAdded DEF OfNoLine
  <2>2. CASE \E V \in Entries(f, 0) : /\ OfLine(f, V, c) /\ ManusMade(f, manus, V)
                                      /\ Clean(f) => DevicesMade(f, devices, V, c)
    <3>1. PICK V \in Entries(f, 0) : /\ OfLine(f, V, c) /\ ManusMade(f, manus, V)
                                     /\ Clean(f) => DevicesMade(f, devices, V, c)
      BY <2>2
    <3>2. V \in Nat /\ V < c /\ NoneOf(f, 0, V + 1, c) /\ manu.id = f[V].ids[1] /\ manu.name = <<V, 1>>
      BY <1>3, <3>1, LinesOf DEF OfLine
    <3>3. ASSUME Clean(f) PROVE DevicesMade(f, devices, V, Len(f) + 1)
      <4>1. CASE c > Len(f)
        BY <1>3, <3>1, <3>3, <4>1, DevicesEnd
      <4>2. CASE ~(c > Len(f))
        <5>1. c <= Len(f) + 1
          BY <1>2, <1>3, <4>2
        <5> QED
          BY <1>3, <1>6, <3>1, <3>2, <3>3, <5>1, DevicesDone
      <4> QED
        BY <4>1, <4>2
    <3>4. ManusMade(f, Insert(manus, f[V].ids[1], [name |-> <<V, 1>>, devices |-> devices]), c)
      BY <1>3, <3>1, <3>2, <3>3, ManuAdded
    <3> QED
      BY <1>4, <3>2, <3>4
  <2> QED
    BY <1>1, <2>1, <2>2 DEF ReadInv, ManuInv
<1>9. ManuInv(f, c)' /\ ManusInv(f, c)'
  BY <1>4, <1>6, <1>7, <1>8 DEF ManuInv, ManusInv
<1> QED
  BY <1>4, <1>9, ReadNext

-----------------------------------------------------------------------------
(* What is read is listed: Device and SubDevice.                           *)

\* The Manufacturer under way while there is a Device.
LEMMA DeviceUnderWay ==
  ASSUME ReadInv, level = "device", NEW f, f = file, Unindented(f), NEW c, c = at.line, AtLine(f, c)
  PROVE  \E V \in Entries(f, 0) : /\ OfLine(f, V, c) /\ ManusMade(f, manus, V) /\ V \in Nat /\ V + 1 \in Nat /\ V < c
                                  /\ NoneOf(f, 0, V + 1, c)
                                  /\ Clean(f) => \E D \in Entries(f, 1) : DeviceOf(f, V, D, c)
<1>1. PICK V \in Entries(f, 0) : /\ OfLine(f, V, c) /\ ManusMade(f, manus, V)
                                 /\ Clean(f) => \E D \in Entries(f, 1) : DeviceOf(f, V, D, c)
  BY DEF ReadInv, ManuInv, OfNoLine
<1>2. IdFile(f)
  BY DEF AtLine
<1>3. V \in Nat /\ V + 1 \in Nat
  BY <1>1, <1>2, LinesOf
<1> QED
  BY <1>1, <1>3 DEF OfLine

\* A Device begins in its own line; in a clean file that line is a device's.
LEMMA DeviceStarts ==
  ASSUME StreamTyped, ReadInv, level = "manu", Unindented(file), Peek(at) = "tab", StartDevice
  PROVE  ReadInv'
<1>1. PICK f, c : f = file /\ c = at.line
  OBVIOUS
<1>2. AtLine(f, c) /\ c <= Len(f) + 2 /\ Len(f) \in Nat
  BY <1>1, LineRead
<1>3. IdFile(f) /\ c \in Nat \ {0} /\ c \in Nat /\ c + 1 \in Nat \ {0} /\ c < c + 1 /\ at = Place(c, 0) /\ 1 \in Nat
  BY <1>2 DEF AtLine
<1>4. c \in DOMAIN f /\ f[c].head = "text" /\ f[c].tabs \in {1, 2} /\ ~(c > Len(f))
  BY <1>2, <1>3, NextCharacter, LinesOf DEF Entries
<1>5. PICK V \in Entries(f, 0) : /\ OfLine(f, V, c) /\ ManusMade(f, manus, V)
                                 /\ Clean(f) => DevicesMade(f, devices, V, c) /\ FirstIs(f, c, {0, 1})
  BY <1>1, <1>4 DEF ReadInv, ManuInv, OfNoLine
<1> DEFINE p == WordAt(BehindComments(AfterTab(at)))
<1>6. p = Place(c, 0)
  <2>1. AfterTab(at) = Place(c, 1)
    BY <1>3 DEF AfterTab, Place
  <2> QED
    BY <1>1, <1>3, <1>4, <2>1, EntryRead
<1>7. /\ \E i \in Id(p, 1) : dev' = [id |-> i, name |-> Name(p, 1), subs |-> NoMap]
      /\ at' = NextLine(p) /\ next' = Peek(NextLine(p)) /\ level' = "device"
      /\ file' = f /\ manu' = manu /\ devices' = devices /\ manus' = manus
  BY <1>1 DEF StartDevice
<1> HIDE DEF p
<1>8. Id(p, 1) = {f[c].ids[1]}
  BY <1>1, <1>3, <1>4, <1>6, IdFound
<1>9. Name(p, 1) = <<c, 1>>
  <2>1. ~Eof(Place(c, 0)) /\ Place(c, 0).line = c
    BY <1>1, <1>3, <1>4, PeekAt DEF Place
  <2> QED
    BY <1>6, <2>1 DEF Name
<1>10. dev'.id = f[c].ids[1] /\ dev'.name = <<c, 1>> /\ dev'.subs = NoMap
  BY <1>7, <1>8, <1>9
<1>11. at' = Place(c + 1, 0) /\ next' = Peek(Place(c + 1, 0))
  BY <1>6, <1>7 DEF NextLine, Place
<1>12. Peek(at)' = next'
  BY <1>1, <1>7, <1>11 DEF Peek, Eof
<1>13. V \in Nat /\ V + 1 \in Nat /\ V < c /\ V < c + 1
  BY <1>3, <1>5, LinesOf DEF OfLine
<1>14. c \notin Entries(f, 0)
  BY <1>4 DEF Entries
<1>15. NoneOf(f, 0, V + 1, c + 1)
  BY <1>3, <1>5, <1>13, <1>14, NoneOnward DEF OfLine
<1>16. OfLine(f, V, c + 1)'
  BY <1>5, <1>7, <1>13, <1>15 DEF OfLine
<1>17. ASSUME Clean(f) PROVE c \in Entries(f, 1) /\ DeviceOf(f, V, c, c + 1)'
  <2>1. DevicesMade(f, devices, V, c) /\ FirstIs(f, c, {0, 1})
    BY <1>5, <1>17
  <2>2. c \in Entries(f, 1)
    <3>1. NoEntry(f, c, c) /\ c >= c
      BY <1>3 DEF NoEntry
    <3>2. f[c].tabs \in {0, 1}
      BY <1>4, <2>1, <3>1 DEF FirstIs
    <3> QED
      BY <1>4, <3>2 DEF Entries
  <2>3. NoneOf(f, 0, c + 1, c + 1) /\ NoneOf(f, 1, c + 1, c + 1) /\ SubsMade(f, NoMap, c, c + 1)
    BY <1>3, NoneYet, NoSubsYet
  <2>4. NoEntry(f, c + 1, c + 1)
    BY <1>3 DEF NoEntry
  <2>5. DeviceOf(f, V, c, c + 1)'
    BY <1>3, <1>7, <1>10, <1>12, <1>13, <2>1, <2>2, <2>3, <2>4 DEF DeviceOf
  <2> QED
    BY <2>2, <2>5
<1>18. ManuInv(f, c + 1)' /\ ManusInv(f, c + 1)'
  BY <1>5, <1>7, <1>16, <1>17 DEF ManuInv, ManusInv
<1> QED
  BY <1>7, <1>11, <1>18, ReadNext

\* Device passes over a comment.
LEMMA DeviceSkips ==
  ASSUME StreamTyped, ReadInv, level = "device", Unindented(file), next = "#", SkipComment
  PROVE  ReadInv'
<1>1. PICK f, c : f = file /\ c = at.line
  OBVIOUS
<1>2. AtLine(f, c) /\ c <= Len(f) + 2 /\ Len(f) \in Nat
  BY <1>1, LineRead
<1>3. IdFile(f) /\ c \in Nat \ {0} /\ c \in Nat /\ c + 1 \in Nat \ {0} /\ c <= c + 1 /\ at = Place(c, 0)
  BY <1>2 DEF AtLine
<1>4. Peek(at) = "#"
  BY DEF StreamTyped, NextInv
<1>5. c \in DOMAIN f /\ f[c].head # "text" /\ ~(c > Len(f))
  BY <1>2, <1>4, NextCharacter
<1>6. PICK V \in Entries(f, 0) : /\ OfLine(f, V, c) /\ ManusMade(f, manus, V) /\ V \in Nat /\ V + 1 \in Nat /\ V < c
                                 /\ NoneOf(f, 0, V + 1, c)
                                 /\ Clean(f) => \E D \in Entries(f, 1) : DeviceOf(f, V, D, c)
  BY <1>1, <1>2, DeviceUnderWay
<1>7. /\ at' = Place(c + 1, 0) /\ next' = Peek(Place(c + 1, 0)) /\ level' = "device"
      /\ file' = f /\ manu' = manu /\ dev' = dev /\ devices' = devices /\ manus' = manus
  BY <1>1, <1>3 DEF SkipComment, NextLine, Place
<1>8. Peek(at)' = next'
  BY <1>1, <1>7 DEF Peek, Eof
<1>9. NoneOf(f, 0, V + 1, c + 1) /\ V < c + 1
  BY <1>3, <1>5, <1>6, NotText, NoneOnward
<1>10. OfLine(f, V, c + 1)'
  BY <1>6, <1>7, <1>9 DEF OfLine
<1>11. ASSUME Clean(f) PROVE \E D \in Entries(f, 1) : DeviceOf(f, V, D, c + 1)'
  <2>1. PICK D \in Entries(f, 1) : DeviceOf(f, V, D, c)
    BY <1>6, <1>11
  <2>2. D \in Nat /\ D + 1 \in Nat /\ V < D /\ D < c /\ D < c + 1
    BY <1>3, <2>1, LinesOf DEF DeviceOf
  <2>3. NoneOf(f, 0, D + 1, c + 1) /\ NoneOf(f, 1, D + 1, c + 1)
    BY <1>3, <1>5, <2>1, <2>2, NotText, NoneOnward DEF DeviceOf
  <2>4. ASSUME NEW l \in Entries(f, 2), c <= l, l < c + 1 PROVE FALSE
    <3>1. l = c
      BY <1>3, <2>4, LinesOf
    <3> QED
      BY <1>5, <2>4, <3>1, NotText
  <2>5. \A l \in Entries(f, 2) : c <= l /\ l < c + 1 => Under(f, l, 1) # D
    BY <2>4
  <2>6. SubsMade(f, dev.subs, D, c) /\ DevicesMade(f, devices, V, D) /\ dev.id = f[D].ids[1] /\ dev.name = <<D, 1>>
    BY <2>1 DEF DeviceOf
  <2>7. SubsMade(f, dev.subs, D, c + 1)
    BY <1>3, <2>5, <2>6, SubsPass
  <2>8. NoEntry(f, D + 1, c + 1)
    <3>1. NoEntry(f, D + 1, c)
      BY <2>1 DEF DeviceOf
    <3>2. ASSUME NEW l \in D + 1 .. c PROVE f[l].head # "text"
      <4>1. l = c \/ l \in D + 1 .. c - 1
        BY <1>3, <2>2
      <4> QED
        BY <1>5, <3>1, <4>1 DEF NoEntry
    <3>3. (c + 1) - 1 = c
      BY <1>3
    <3> QED
      BY <3>2, <3>3 DEF NoEntry
  <2>9. DeviceOf(f, V, D, c + 1)'
    BY <1>7, <1>8, <2>2, <2>3, <2>6, <2>7, <2>8 DEF DeviceOf
  <2> QED
    BY <2>9
<1>12. ManuInv(f, c + 1)' /\ ManusInv(f, c + 1)'
  BY <1>6, <1>7, <1>10, <1>11 DEF ManuInv, ManusInv
<1> QED
  BY <1>7, <1>12, ReadNext

\* A sub-device that is read from its own line is put into the Device.
LEMMA SubReads ==
  ASSUME StreamTyped, ReadInv, level = "device", Unindented(file), next = "tab", SubFollows, ReadSubDevice, Peek(at) = "tab"
  PROVE  ReadInv'
<1>1. PICK f, c : f = file /\ c = at.line
  OBVIOUS
<1>2. AtLine(f, c) /\ c <= Len(f) + 2 /\ Len(f) \in Nat
  BY <1>1, LineRead
<1>3. IdFile(f) /\ c \in Nat \ {0} /\ c \in Nat /\ c + 1 \in Nat \ {0} /\ c < c + 1 /\ (c + 1) - 1 = c /\ at = Place(c, 0)
      /\ 1 \in Nat /\ 2 \in Nat
  BY <1>2 DEF AtLine
<1>4. Taken = Place(c, 1) /\ Peek(Place(c, 1)) = "tab"
  BY <1>3 DEF Taken, SubFollows, AfterTab, Place
<1>5. c \in DOMAIN f /\ f[c].head = "text" /\ f[c].tabs = 2 /\ ~(c > Len(f)) /\ c \in Entries(f, 2)
  <2>1. c \in DOMAIN f /\ f[c].head = "text" /\ f[c].tabs \in {1, 2} /\ 1 < f[c].tabs
    BY <1>1, <1>3, <1>4, TabsLead
  <2>2. f[c].tabs = 2
    BY <2>1
  <2> QED
    BY <1>2, <1>3, <2>1, <2>2, LinesOf DEF Entries
<1>6. PICK V \in Entries(f, 0) : /\ OfLine(f, V, c) /\ ManusMade(f, manus, V) /\ V \in Nat /\ V + 1 \in Nat /\ V < c
                                 /\ NoneOf(f, 0, V + 1, c)
                                 /\ Clean(f) => \E D \in Entries(f, 1) : DeviceOf(f, V, D, c)
  BY <1>1, <1>2, DeviceUnderWay
<1> DEFINE p == WordAt(BehindComments(AfterTab(Taken)))
<1>7. p = Place(c, 0) /\ ~Eof(p)
  <2>1. AfterTab(Taken) = Place(c, 2)
    BY <1>4 DEF AfterTab, Place
  <2>2. p = Place(c, 0)
    BY <1>1, <1>3, <1>5, <2>1, EntryRead
  <2>3. ~Eof(Place(c, 0))
    BY <1>1, <1>3, <1>5, PeekAt
  <2> QED
    BY <2>2, <2>3
<1>8. /\ \E s \in IF Eof(p) THEN Ids \cup {0} ELSE Id(p, 2) : dev' = [dev EXCEPT !.subs = Insert(@, s, Name(p, 2))]
      /\ at' = NextLine(p) /\ next' = "tab" /\ level' = "device"
      /\ file' = f /\ manu' = manu /\ devices' = devices /\ manus' = manus
  BY <1>1 DEF ReadSubDevice
<1> HIDE DEF p
<1>9. Id(p, 2) = {f[c].ids[2]}
  BY <1>1, <1>3, <1>5, <1>7, IdFound
<1>10. Name(p, 2) = <<c, 2>>
  <2>1. Place(c, 0).line = c
    BY DEF Place
  <2> QED
    BY <1>7, <2>1 DEF Name
<1>11. dev'.id = dev.id /\ dev'.name = dev.name /\ dev'.subs = Insert(dev.subs, f[c].ids[2], <<c, 2>>)
  <2>1. dev = [id |-> dev.id, name |-> dev.name, subs |-> dev.subs]
    BY DEF StreamTyped, TypedIds
  <2>2. dev' = [dev EXCEPT !.subs = Insert(dev.subs, f[c].ids[2], <<c, 2>>)]
    BY <1>7, <1>8, <1>9, <1>10
  <2>3. dev' = [id |-> dev.id, name |-> dev.name, subs |-> Insert(dev.subs, f[c].ids[2], <<c, 2>>)]
    BY <2>1, <2>2
  <2> QED
    BY <2>3
<1>12. at' = Place(c + 1, 0)
  BY <1>7, <1>8 DEF NextLine, Place
<1>13. c \notin Entries(f, 0) /\ c \notin Entries(f, 1)
  BY <1>5 DEF Entries
<1>14. NoneOf(f, 0, V + 1, c + 1) /\ V < c + 1
  BY <1>3, <1>6, <1>13, NoneOnward
<1>15. OfLine(f, V, c + 1)'
  BY <1>6, <1>8, <1>14 DEF OfLine
<1>16. ASSUME Clean(f) PROVE \E D \in Entries(f, 1) : DeviceOf(f, V, D, c + 1)'
  <2>1. PICK D \in Entries(f, 1) : DeviceOf(f, V, D, c)
    BY <1>6, <1>16
  <2>2. D \in Nat /\ D + 1 \in Nat /\ V < D /\ D < c /\ D < c + 1
    BY <1>3, <2>1, LinesOf DEF DeviceOf
  <2>3. NoneOf(f, 0, D + 1, c + 1) /\ NoneOf(f, 1, D + 1, c + 1)
    BY <1>3, <1>13, <2>1, <2>2, NoneOnward DEF DeviceOf
  <2>4. /\ SubsMade(f, dev.subs, D, c) /\ DevicesMade(f, devices, V, D) /\ dev.id = f[D].ids[1] /\ dev.name = <<D, 1>>
        /\ NoneOf(f, 1, D + 1, c)
    BY <2>1 DEF DeviceOf
  <2>5. Under(f, c, 1) = D
    BY <1>3, <2>1, <2>2, <2>4, UnderIs
  <2>6. SubsMade(f, Insert(dev.subs, f[c].ids[2], <<c, 2>>), D, c + 1)
    BY <1>3, <1>5, <2>4, <2>5, SubAdded
  <2>7. DeviceOf(f, V, D, c + 1)'
    BY <1>3, <1>5, <1>8, <1>11, <2>2, <2>3, <2>4, <2>6 DEF DeviceOf
  <2> QED
    BY <2>7
<1>17. ManuInv(f, c + 1)' /\ ManusInv(f, c + 1)'
  BY <1>6, <1>8, <1>15, <1>16 DEF ManuInv, ManusInv
<1> QED
  BY <1>8, <1>12, <1>17, ReadNext

\* A line that is read for a sub-device behind a blank line: no clean file has
\* one.
LEMMA SubGuessed ==
  ASSUME StreamTyped, ReadInv, level = "device", Unindented(file), next = "tab", SubFollows, ReadSubDevice,
         Peek(at) = "newline"
  PROVE  ReadInv'
<1>1. PICK f, c : f = file /\ c = at.line
  OBVIOUS
<1>2. AtLine(f, c) /\ c <= Len(f) + 2 /\ Len(f) \in Nat
  BY <1>1, LineRead
<1>3. IdFile(f) /\ c \in Nat \ {0} /\ c \in Nat /\ c + 1 \in Nat \ {0} /\ c + 1 \in Nat /\ at = Place(c, 0)
      /\ 0 \in Nat /\ 1 \in Nat /\ (c + 1) + 1 = c + 2
  BY <1>2 DEF AtLine
<1>4. Taken = Place(c + 1, 0) /\ Peek(Place(c + 1, 0)) = "tab"
  BY <1>3 DEF Taken, SubFollows, NextLine, Place
<1>5. c + 1 \in DOMAIN f /\ f[c + 1].head = "text" /\ f[c + 1].tabs \in {1, 2}
  BY <1>1, <1>3, <1>4, TabsLead
<1>6. c \in DOMAIN f /\ f[c].head = "newline" /\ ~(c > Len(f))
  BY <1>2, NextCharacter
<1>7. PICK V \in Entries(f, 0) : /\ OfLine(f, V, c) /\ ManusMade(f, manus, V) /\ V \in Nat /\ V + 1 \in Nat /\ V < c
                                 /\ NoneOf(f, 0, V + 1, c)
                                 /\ Clean(f) => \E D \in Entries(f, 1) : DeviceOf(f, V, D, c)
  BY <1>1, <1>2, DeviceUnderWay
<1> DEFINE p == WordAt(BehindComments(AfterTab(Taken)))
<1>8. p = Place(c + 1, 0)
  <2>1. AfterTab(Taken) = Place(c + 1, 1)
    BY <1>4 DEF AfterTab, Place
  <2> QED
    BY <1>1, <1>3, <1>5, <2>1, EntryRead
<1>9. at' = NextLine(p) /\ level' = "device" /\ file' = f /\ manu' = manu /\ manus' = manus
  BY <1>1 DEF ReadSubDevice
<1>10. at' = Place(c + 2, 0)
  BY <1>3, <1>8, <1>9 DEF NextLine, Place
<1>11. NoneOf(f, 0, V + 1, c + 2) /\ V < c + 2
  <2>1. c \notin Entries(f, 0) /\ c + 1 \notin Entries(f, 0)
    BY <1>5, <1>6 DEF Entries
  <2>2. NoneOf(f, 0, V + 1, c + 1)
    BY <1>3, <1>7, <2>1, NoneOnward
  <2>3. NoneOf(f, 0, V + 1, (c + 1) + 1)
    BY <1>3, <1>7, <2>1, <2>2, NoneOnward
  <2> QED
    BY <1>3, <1>7, <2>3
<1>12. OfLine(f, V, c + 2)'
  BY <1>7, <1>9, <1>11 DEF OfLine
<1>13. ~Clean(f)
  <2> SUFFICES ASSUME Clean(f) PROVE FALSE
    OBVIOUS
  <2>1. PICK D \in Entries(f, 1) : DeviceOf(f, V, D, c)
    BY <1>7
  <2>2. c - 1 \in Entries(f, 2)
    BY <2>1 DEF DeviceOf
  <2>3. c + 1 \in Entries(f, 1) \cup Entries(f, 2)
    BY <1>5 DEF Entries
  <2>4. c - 1 \in UNION {Entries(f, t) : t \in 0 .. 2} /\ c + 1 \in UNION {Entries(f, t) : t \in 0 .. 2}
    BY <2>2, <2>3
  <2>5. Follows(f, c + 1, c - 1)
    <3>1. \A l \in (c - 1) + 1 .. (c + 1) - 1 : l = c
      BY <1>3
    <3>2. c - 1 < (c + 1) - 1
      BY <1>3
    <3> QED
      BY <1>6, <3>1, <3>2 DEF Follows, NoEntry
  <2>6. f[c + 1].tabs > 0
    BY <1>5
  <2>7. \A l \in (c - 1) + 1 .. (c + 1) - 1 : f[l].head = "#"
    BY <2>4, <2>5, <2>6 DEF Clean
  <2>8. c \in (c - 1) + 1 .. (c + 1) - 1
    BY <1>3
  <2> QED
    BY <1>6, <2>7, <2>8
<1>14. ManuInv(f, c + 2)' /\ ManusInv(f, c + 2)'
  BY <1>7, <1>9, <1>12, <1>13 DEF ManuInv, ManusInv
<1> QED
  BY <1>9, <1>10, <1>14, ReadNext

\* In a clean file no sub-device is left when Device puts back what it took.
LEMMA NoSubLeft ==
  ASSUME StreamTyped, NEW f, NEW c, AtLine(f, c), level = "device", Clean(f), Len(f) \in Nat,
         NEW V, NEW D \in Entries(f, 1), DeviceOf(f, V, D, c),
         \/ next = "tab" /\ ~SubFollows
         \/ stream = "fail"
         \/ next \in {"newline", "text", "eof"}
  PROVE  FirstIs(f, c, {0, 1})
<1>1. file = f /\ IdFile(f) /\ c \in Nat \ {0} /\ c \in Nat /\ at = Place(c, 0) /\ 1 \in Nat
  BY DEF AtLine
<1>2. CASE c > Len(f)
  BY <1>1, <1>2, FirstHere
<1>3. CASE c \in Entries(f, 0) \cup Entries(f, 1)
  <2>1. c \in DOMAIN f /\ f[c].head = "text" /\ f[c].tabs \in {0, 1}
    BY <1>3 DEF Entries
  <2> QED
    BY <1>1, <2>1, FirstHere
<1>4. ASSUME ~(c > Len(f)), c \notin Entries(f, 0) \cup Entries(f, 1)
      PROVE  /\ c \in DOMAIN f /\ f[c].head # "text"
             /\ \E j \in Entries(f, 1) \cup Entries(f, 2) :
                  /\ j < c /\ NoEntry(f, j + 1, c)
                  /\ j \in Entries(f, 2) \/ f[c].head = "newline"
  <2>1. stream # "fail"
    BY <1>4, NextCharacter DEF StreamTyped, StreamInv
  <2>2. ASSUME next = "tab", ~SubFollows, Peek(at) = "tab" PROVE FALSE
    <3>1. c \in Entries(f, 2)
      BY <1>4, <2>2, NextCharacter
    <3>2. c \in DOMAIN f /\ f[c].head = "text" /\ f[c].tabs = 2
      BY <3>1 DEF Entries
    <3>3. Peek(Place(c, 1)) = "tab"
      <4>1. 1 < f[c].tabs
        BY <3>2
      <4> QED
        BY <1>1, <1>4, <4>1, PeekAt
    <3>4. Taken = Place(c, 1)
      BY <1>1, <2>2 DEF Taken, AfterTab, Place
    <3> QED
      BY <2>2, <3>3, <3>4 DEF SubFollows
  <2>3. CASE next = "tab"
    <3>1. ~SubFollows /\ Peek(at) # "tab"
      BY <2>1, <2>2, <2>3
    <3>2. c - 1 \in Entries(f, 2)
      BY <2>3, <3>1 DEF DeviceOf
    <3>3. Peek(at) \in {"#", "newline"}
      BY <1>4, <3>1, NextCharacter
    <3>4. c \in DOMAIN f /\ f[c].head # "text"
      BY <3>3, NextCharacter
    <3>5. c - 1 < c /\ (c - 1) + 1 = c /\ NoEntry(f, c, c)
      BY <1>1 DEF NoEntry
    <3> QED
      BY <3>2, <3>4, <3>5
  <2>4. CASE next \in {"newline", "text", "eof"}
    <3>1. next = Peek(at)
      BY <2>4 DEF StreamTyped, NextInv
    <3>2. next = "newline"
      BY <1>4, <2>4, <3>1, NextCharacter
    <3>3. c \in DOMAIN f /\ f[c].head = "newline"
      BY <3>1, <3>2, NextCharacter
    <3>4. D < c /\ NoEntry(f, D + 1, c)
      BY <3>2 DEF DeviceOf
    <3> QED
      BY <3>3, <3>4
  <2> QED
    BY <2>1, <2>3, <2>4
<1>5. ASSUME ~(c > Len(f)), c \notin Entries(f, 0) \cup Entries(f, 1)
      PROVE  FirstIs(f, c, {0, 1})
  <2>1. c \in DOMAIN f /\ f[c].head # "text"
    BY <1>4, <1>5
  <2>2. PICK j \in Entries(f, 1) \cup Entries(f, 2) :
               /\ j < c /\ NoEntry(f, j + 1, c)
               /\ j \in Entries(f, 2) \/ f[c].head = "newline"
    BY <1>4, <1>5
  <2> SUFFICES ASSUME NEW e \in DOMAIN f, e >= c, f[e].head = "text", NoEntry(f, c, e), f[e].tabs \notin {0, 1}
               PROVE  FALSE
    BY DEF FirstIs
  <2>3. j \in Nat /\ e \in Nat
    BY <1>1, LinesOf
  <2>4. f[e].tabs = 2
    BY <1>1, LineKinds
  <2>5. e # c /\ c < e
    BY <1>1, <2>1, <2>3
  <2>6. Follows(f, e, j)
    <3>1. ASSUME NEW l \in j + 1 .. e - 1 PROVE f[l].head # "text"
      <4>1. l \in j + 1 .. c - 1 \/ l \in c .. e - 1
        BY <1>1, <2>3
      <4> QED
        BY <2>2, <4>1 DEF NoEntry
    <3>2. j < e - 1
      BY <1>1, <2>2, <2>3, <2>5
    <3> QED
      BY <3>1, <3>2 DEF Follows, NoEntry
  <2>7. e \in Entries(f, 2)
    BY <2>4 DEF Entries
  <2>8. e \in UNION {Entries(f, t) : t \in 0 .. 2} /\ j \in UNION {Entries(f, t) : t \in 0 .. 2}
    BY <2>7
  <2>9. /\ \A l \in j + 1 .. e - 1 : f[l].head = "#"
        /\ f[j].tabs < 2 \/ f[e].tabs < 2
    BY <2>4, <2>6, <2>8 DEF Clean
  <2>10. c \in j + 1 .. e - 1
    BY <1>1, <2>2, <2>3, <2>5
  <2>11. f[c].head = "#" /\ f[j].tabs < 2
    BY <2>4, <2>9, <2>10
  <2>12. j \in Entries(f, 2)
    BY <2>2, <2>11
  <2> QED
    BY <2>11, <2>12 DEF Entries
<1> QED
  BY <1>2, <1>3, <1>5

\* Device ends: in a clean file with all of its sub-devices, in Manufacturer's
\* table with all before it.
LEMMA DeviceEnds ==
  ASSUME StreamTyped, ReadInv, level = "device", Unindented(file), EndDevice,
         \/ next = "tab" /\ ~SubFollows
         \/ stream = "fail"
         \/ next \in {"newline", "text", "eof"}
  PROVE  ReadInv'
<1>1. PICK f, c : f = file /\ c = at.line
  OBVIOUS
<1>2. AtLine(f, c) /\ c <= Len(f) + 2 /\ Len(f) \in Nat
  BY <1>1, LineRead
<1>3. IdFile(f) /\ c \in Nat \ {0} /\ c \in Nat /\ at = Place(c, 0) /\ Len(f) + 1 \in Nat /\ Len(f) + 1 > Len(f)
  BY <1>2 DEF AtLine
<1>4. PICK V \in Entries(f, 0) : /\ OfLine(f, V, c) /\ ManusMade(f, manus, V) /\ V \in Nat /\ V + 1 \in Nat /\ V < c
                                 /\ NoneOf(f, 0, V + 1, c)
                                 /\ Clean(f) => \E D \in Entries(f, 1) : DeviceOf(f, V, D, c)
  BY <1>1, <1>2, DeviceUnderWay
<1>5. /\ devices' = (IF dev.id = UnknownId THEN devices ELSE Insert(devices, dev.id, [name |-> dev.name, subs |-> dev.subs]))
      /\ level' = "manu" /\ file' = f /\ at' = Place(c, 0) /\ manu' = manu /\ manus' = manus
  BY <1>1, <1>3 DEF EndDevice
<1>6. OfLine(f, V, c)'
  BY <1>4, <1>5 DEF OfLine
<1>7. ASSUME Clean(f) PROVE DevicesMade(f, devices', V, c) /\ FirstIs(f, c, {0, 1})
  <2>1. PICK D \in Entries(f, 1) : DeviceOf(f, V, D, c)
    BY <1>4, <1>7
  <2>2. D \in Nat /\ D + 1 \in Nat /\ V < D /\ D < c
    BY <1>3, <2>1, LinesOf DEF DeviceOf
  <2>3. FirstIs(f, c, {0, 1})
    BY <1>2, <1>7, <2>1, NoSubLeft
  <2>4. /\ SubsMade(f, dev.subs, D, c) /\ DevicesMade(f, devices, V, D) /\ dev.id = f[D].ids[1] /\ dev.name = <<D, 1>>
        /\ NoneOf(f, 1, D + 1, c)
    BY <2>1 DEF DeviceOf
  <2>5. SubsMade(f, dev.subs, D, Len(f) + 1)
    <3>1. CASE c > Len(f)
      BY <1>3, <2>4, <3>1, SubsEnd
    <3>2. CASE ~(c > Len(f))
      <4>1. c <= Len(f) + 1
        BY <1>2, <1>3, <3>2
      <4> QED
        BY <1>3, <2>2, <2>3, <2>4, <4>1, SubsDone
    <3> QED
      BY <3>1, <3>2
  <2>6. Under(f, D, 0) = V
    <3>1. NoneOf(f, 0, V + 1, D)
      <4>1. ASSUME NEW l \in Entries(f, 0), V + 1 <= l, l < D PROVE FALSE
        <5>1. l \in Nat /\ l < c
          BY <1>3, <2>2, <4>1, LinesOf
        <5> QED
          BY <1>4, <4>1, <5>1 DEF NoneOf
      <4> QED
        BY <4>1 DEF NoneOf
    <3> QED
      BY <1>3, <1>4, <2>2, <3>1, UnderIs
  <2>7. DevicesMade(f, IF f[D].ids[1] = UnknownId THEN devices
                       ELSE Insert(devices, f[D].ids[1], [name |-> <<D, 1>>, subs |-> dev.subs]), V, c)
    BY <1>3, <2>1, <2>2, <2>4, <2>5, <2>6, DeviceAdded
  <2> QED
    BY <1>5, <2>3, <2>4, <2>7
<1>8. ManuInv(f, c)' /\ ManusInv(f, c)'
  BY <1>4, <1>5, <1>6, <1>7 DEF ManuInv, ManusInv
<1> QED
  BY <1>5, <1>8, ReadNext

-----------------------------------------------------------------------------
(* The two files, one after the other.                                     *)

LEMMA SubDeviceReads ==
  ASSUME StreamTyped, ReadInv, level = "device", Unindented(file), next = "tab", SubFollows, ReadSubDevice
  PROVE  ReadInv'
BY SubReads, SubGuessed DEF SubFollows

LEMMA ReadStep == StreamTyped /\ ReadInv /\ [IdsNext]_idsVars => ReadInv'
<1> SUFFICES ASSUME StreamTyped, ReadInv, [IdsNext]_idsVars PROVE ReadInv'
  OBVIOUS
<1>1. CASE OpenIds
  <2>1. CASE Readable(which) /\ file' = setup[which] /\ at' = Place(1, 0) /\ stream' = "good" /\ manus' = NoMap /\ level' = "manus"
    <3>1. IdFile(file')
      <4>1. file' = setup.pci \/ file' = setup.usb
        BY <2>1 DEF StreamTyped, TypedIds
      <4> QED
        BY <4>1, IdsAssumption DEF StreamTyped, TypedIds
    <3>2. ManusMade(file', NoMap, 1) /\ FirstIs(file', 1, {0})
      BY <3>1, NoManusYet, VendorFirst
    <3>3. PICK f : f = file'
      OBVIOUS
    <3>4. ManusMade(f, NoMap, 1) /\ FirstIs(f, 1, {0})
      BY <3>2, <3>3
    <3>5. ManusInv(f, 1)' /\ ManuInv(f, 1)'
      BY <2>1, <3>4 DEF ManusInv, ManuInv
    <3> QED
      BY <2>1, <3>3, <3>5, ReadNext
  <2>2. CASE Proceed /\ level = "open"
    BY <2>2 DEF Proceed, ReadInv
  <2> QED
    BY <1>1, <2>1, <2>2 DEF OpenIds
<1>2. CASE FillManus
  <2>1. CASE ~Unindented(file)
    BY <1>2, <2>1 DEF FillManus, SkipLine, StartManufacturer, ReadInv
  <2>2. CASE Unindented(file) /\ stream = "good"
    BY <1>2, <2>2, SkipManus, ManuStarts DEF FillManus
  <2>3. CASE stream # "good"
    <3>1. level' \in {"open", "done"}
      BY <1>2, <2>3 DEF FillManus, Proceed
    <3> QED
      BY <3>1 DEF ReadInv
  <2> QED
    BY <2>1, <2>2, <2>3
<1>3. CASE ReadManufacturer
  <2>1. CASE ~Unindented(file)
    <3>1. file' = file
      BY <1>3 DEF ReadManufacturer, SkipLine, StartDevice, EndManufacturer
    <3> QED
      BY <2>1, <3>1 DEF ReadInv
  <2>2. CASE Unindented(file)
    BY <1>3, <2>2, SkipManu, DeviceStarts, ManuEnds DEF ReadManufacturer
  <2> QED
    BY <2>1, <2>2
<1>4. CASE ReadDevice
  <2>1. CASE ~Unindented(file)
    <3>1. file' = file
      BY <1>4 DEF ReadDevice, ReadSubDevice, SkipComment, EndDevice
    <3> QED
      BY <2>1, <3>1 DEF ReadInv
  <2>2. CASE Unindented(file)
    BY <1>4, <2>2, SubDeviceReads, DeviceSkips, DeviceEnds DEF ReadDevice
  <2> QED
    BY <2>1, <2>2
<1>5. CASE UNCHANGED idsVars
  BY <1>5 DEF idsVars, both, ReadInv, ManusInv, ManuInv, OfNoLine, OfLine, DeviceOf, Peek, Eof
<1> QED
  BY <1>1, <1>2, <1>3, <1>4, <1>5 DEF IdsNext

\* Which files are where does not change.
LEMMA PlacesStay ==
  ASSUME setup' = setup
  PROVE  \A t : Readable(t)' = Readable(t)
BY DEF Readable, idsPrefix

LEMMA FilesKept ==
  ASSUME FilesInv, UNCHANGED <<setup, which, tables, file>>, level' # "done", level # "done",
         level' \in {"manus", "manu", "device"} => level \in {"manus", "manu", "device"}
  PROVE  FilesInv'
<1>1. \A t : Finished(t)' = Finished(t)
  BY DEF Finished
<1>2. \A t : Readable(t)' = Readable(t)
  BY PlacesStay
<1> QED
  BY <1>1, <1>2 DEF FilesInv

LEMMA OpenFiles ==
  ASSUME StreamTyped, FilesInv, OpenIds
  PROVE  FilesInv'
<1>1. setup' = setup /\ tables' = tables /\ level = "open" /\ which \in {"pci", "usb"}
  BY DEF OpenIds, both, Proceed, StreamTyped, TypedIds
<1>2. \A t : Readable(t)' = Readable(t)
  BY <1>1, PlacesStay
<1>3. CASE Readable(which) /\ file' = setup[which] /\ level' = "manus" /\ which' = which
  <2>1. \A t : Finished(t)' = Finished(t)
    BY <1>1, <1>3 DEF Finished
  <2> QED
    BY <1>1, <1>2, <1>3, <2>1 DEF FilesInv
<1>4. CASE ~Readable(which) /\ which = "pci" /\ which' = "usb" /\ level' = "open"
  BY <1>1, <1>2, <1>4 DEF FilesInv, Finished
<1>5. CASE ~Readable(which) /\ which = "usb" /\ which' = which /\ level' = "done"
  BY <1>1, <1>2, <1>5 DEF FilesInv, Finished
<1> QED
  BY <1>1, <1>3, <1>4, <1>5 DEF OpenIds, Proceed, both

\* At the end of a file its vendors become the collector's.
LEMMA FillFiles ==
  ASSUME StreamTyped, FilesInv, ReadInv, level = "manus", stream # "good", Proceed,
         tables' = [tables EXCEPT ![which] = [made |-> TRUE, manus |-> manus]], setup' = setup
  PROVE  FilesInv'
<1>1. \A t : Readable(t)' = Readable(t)
  BY PlacesStay
<1>2. which \in {"pci", "usb"} /\ DOMAIN tables = {"pci", "usb"} /\ Readable(which) /\ file = setup[which]
  BY DEF StreamTyped, TypedIds, FilesInv
<1>3. ASSUME Unindented(file) PROVE ManusMade(file, manus, Len(file) + 1)
  <2>1. PICK f, c : f = file /\ c = at.line
    OBVIOUS
  <2>2. AtLine(f, c) /\ Len(f) \in Nat
    BY <1>3, <2>1, LineRead
  <2>3. ManusMade(f, manus, c) /\ c > Len(f)
    BY <1>3, <2>1 DEF ReadInv, ManusInv
  <2>4. IdFile(f) /\ c \in Nat /\ Len(f) + 1 \in Nat /\ Len(f) + 1 > Len(f)
    BY <2>2 DEF AtLine
  <2>5. ManusMade(f, manus, Len(f) + 1)
    BY <2>3, <2>4, ManusEnd
  <2> QED
    BY <2>1, <2>5
<1>4. /\ tables'[which].made /\ tables'[which].manus = manus
      /\ \A t \in {"pci", "usb"} : t # which => tables'[t] = tables[t]
  BY <1>2
<1>5. CASE which = "pci"
  <2>1. which' = "usb" /\ level' = "open"
    BY <1>5 DEF Proceed
  <2>2. ~Finished("usb") /\ ~Finished("usb")' /\ Finished("pci")'
    BY <1>5, <2>1 DEF Finished
  <2>3. tables'["usb"] = NoTable
    BY <1>4, <1>5, <2>2 DEF FilesInv
  <2>4. tables'["pci"].made /\ (Unindented(setup'["pci"]) => ManusMade(setup'["pci"], tables'["pci"].manus, Len(setup'["pci"]) + 1))
    BY <1>2, <1>3, <1>4, <1>5
  <2> QED
    BY <1>1, <1>2, <1>5, <2>1, <2>2, <2>3, <2>4 DEF FilesInv
<1>6. CASE which = "usb"
  <2>1. which' = "usb" /\ level' = "done"
    BY <1>6 DEF Proceed
  <2>2. Finished("pci") /\ Finished("pci")' /\ Finished("usb")'
    BY <1>6, <2>1 DEF Finished
  <2>3. tables'["pci"] = tables["pci"]
    BY <1>4, <1>6
  <2>4. tables'["usb"].made /\ (Unindented(setup'["usb"]) => ManusMade(setup'["usb"], tables'["usb"].manus, Len(setup'["usb"]) + 1))
    BY <1>2, <1>3, <1>4, <1>6
  <2> QED
    BY <1>1, <1>2, <1>6, <2>1, <2>2, <2>3, <2>4 DEF FilesInv
<1> QED
  BY <1>2, <1>5, <1>6

LEMMA FilesStep == StreamTyped /\ FilesInv /\ ReadInv /\ [IdsNext]_idsVars => FilesInv'
<1> SUFFICES ASSUME StreamTyped, FilesInv, ReadInv, [IdsNext]_idsVars PROVE FilesInv'
  OBVIOUS
<1>1. CASE OpenIds
  BY <1>1, OpenFiles
<1>2. CASE FillManus
  <2>1. CASE stream = "good"
    <3>1. UNCHANGED <<setup, which, tables, file>> /\ level' \in {"manus", "manu"} /\ level = "manus"
      BY <1>2, <2>1 DEF FillManus, SkipLine, StartManufacturer, both
    <3> QED
      BY <3>1, FilesKept
  <2>2. CASE stream # "good"
    BY <1>2, <2>2, FillFiles DEF FillManus
  <2> QED
    BY <2>1, <2>2
<1>3. CASE ReadManufacturer
  <2>1. UNCHANGED <<setup, which, tables, file>> /\ level' \in {"manus", "manu", "device"} /\ level = "manu"
    BY <1>3 DEF ReadManufacturer, SkipLine, StartDevice, EndManufacturer, both
  <2> QED
    BY <2>1, FilesKept
<1>4. CASE ReadDevice
  <2>1. UNCHANGED <<setup, which, tables, file>> /\ level' \in {"manu", "device"} /\ level = "device"
    BY <1>4 DEF ReadDevice, ReadSubDevice, SkipComment, EndDevice, both
  <2> QED
    BY <2>1, FilesKept
<1>5. CASE UNCHANGED idsVars
  BY <1>5 DEF idsVars, both, FilesInv, Finished, Readable, idsPrefix
<1> QED
  BY <1>1, <1>2, <1>3, <1>4, <1>5 DEF IdsNext

\* The invariant of reading both files.
LEMMA IdsInvariant == IdsSpec => []IdsInv
<1>1. IdsInit => IdsInv
  <2> SUFFICES ASSUME IdsInit PROVE IdsInv
    OBVIOUS
  <2>1. StreamTyped
    BY InitTypedIds
  <2>2. level = "open" /\ which = "pci" /\ tables["pci"] = NoTable /\ tables["usb"] = NoTable
    BY DEF IdsInit
  <2> QED
    BY <2>1, <2>2 DEF IdsInv, StreamTyped, FilesInv, Finished, ReadInv
<1>2. IdsInv /\ [IdsNext]_idsVars => IdsInv'
  <2> SUFFICES ASSUME IdsInv, [IdsNext]_idsVars PROVE IdsInv'
    OBVIOUS
  <2>1. StreamTyped /\ FilesInv /\ ReadInv
    BY DEF IdsInv, StreamTyped
  <2>2. StreamTyped' /\ FilesInv' /\ ReadInv'
    BY <2>1, StepTyped, FilesStep, ReadStep
  <2> QED
    BY <2>2 DEF IdsInv, StreamTyped
<1> QED
  BY <1>1, <1>2, PTL DEF IdsSpec

\* Type correctness of DeviceLookup and its constructors, whatever the files
\* hold: the stream stays in the file, no Manufacturer keeps a Device without
\* an id of its own.
THEOREM IdsTypeCorrect == IdsSpec => []IdsTypeOK
<1>1. IdsInv => IdsTypeOK
  BY DEF IdsInv, TypedIds
<1> QED
  BY <1>1, IdsInvariant, PTL

-----------------------------------------------------------------------------
(* Lookups.                                                                *)

\* A table that was read, and its file.
LEMMA ReadTable ==
  ASSUME IdsInv, Done, NEW t \in {"pci", "usb"}, Readable(t), NEW f, f = setup[t]
  PROVE  /\ IdFile(f) /\ tables[t].made /\ Len(f) \in Nat /\ \A u : \A l \in Entries(f, u) : l < Len(f) + 1
         /\ Unindented(f) => ManusMade(f, tables[t].manus, Len(f) + 1)
<1>1. IdFile(f)
  BY IdsAssumption DEF IdsInv, TypedIds
<1>2. \A u : \A l \in Entries(f, u) : l < Len(f) + 1
  BY <1>1, LinesOf
<1>3. Finished(t)
  BY DEF Finished, Done
<1> QED
  BY <1>1, <1>2, <1>3, LinesOf DEF IdsInv, FilesInv

LEMMA VendorNamed ==
  ASSUME IdsInv, Done, NEW t \in {"pci", "usb"}, Readable(t), NEW f, f = setup[t], Unindented(f), NEW v \in Known
  PROVE  LET m == getManufacturer(t, v)
             S == VendorLines(f, v)
         IN /\ m.name = Listed(S, 1)
            /\ S = {} => m.id = UnknownId
            /\ S # {} => m.id = v /\ (Clean(f) => DevicesMade(f, m.devices, First(S), Len(f) + 1))
<1>1. ManusMade(f, tables[t].manus, Len(f) + 1) /\ \A l \in Entries(f, 0) : l < Len(f) + 1
  BY ReadTable
<1>2. VendorsTo(f, v, Len(f) + 1) = VendorLines(f, v)
  BY <1>1 DEF VendorsTo, VendorLines
<1> DEFINE S == VendorLines(f, v)
           all == tables[t].manus
<1>3. IF S = {} THEN v \notin DOMAIN all
      ELSE /\ v \in DOMAIN all /\ all[v].name = <<First(S), 1>>
           /\ Clean(f) => DevicesMade(f, all[v].devices, First(S), Len(f) + 1)
  BY <1>1, <1>2 DEF ManusMade
<1>4. v # UnknownId
  BY DEF Known
<1>5. getManufacturer(t, v) = IF v \notin DOMAIN all THEN [id |-> UnknownId, name |-> Unknown, devices |-> NoMap]
                              ELSE [id |-> v, name |-> all[v].name, devices |-> all[v].devices]
  BY <1>4 DEF getManufacturer
<1>6. Listed(S, 1) = IF S = {} THEN Unknown ELSE <<First(S), 1>>
  BY DEF Listed
<1> HIDE DEF S, all
<1>7. CASE S = {}
  BY <1>3, <1>5, <1>6, <1>7 DEF S
<1>8. CASE S # {}
  BY <1>3, <1>5, <1>6, <1>8 DEF S
<1> QED
  BY <1>7, <1>8

LEMMA DeviceNamed ==
  ASSUME IdsInv, Done, NEW t \in {"pci", "usb"}, Readable(t), NEW f, f = setup[t], Clean(f), NEW v \in Known, NEW d \in Known
  PROVE  LET x == getDevice(getManufacturer(t, v), d)
             S == DeviceLines(f, v, d)
         IN /\ x.name = Listed(S, 1)
            /\ S = {} => x.subs = NoMap
            /\ S # {} => SubsMade(f, x.subs, First(S), Len(f) + 1)
<1> DEFINE m == getManufacturer(t, v)
           S == DeviceLines(f, v, d)
           V == First(VendorLines(f, v))
<1>1. Unindented(f)
  BY DEF Clean
<1>2. Listed(S, 1) = IF S = {} THEN Unknown ELSE <<First(S), 1>>
  BY DEF Listed
<1>3. getDevice(m, d) = IF m.id = UnknownId \/ d \notin DOMAIN m.devices THEN [name |-> Unknown, subs |-> NoMap] ELSE m.devices[d]
  BY DEF getDevice
<1>4. CASE VendorLines(f, v) = {}
  <2>1. S = {}
    BY <1>4 DEF DeviceLines
  <2>2. m.id = UnknownId
    BY <1>1, <1>4, VendorNamed
  <2> HIDE DEF m, S
  <2> QED
    BY <1>2, <1>3, <2>1, <2>2 DEF m, S
<1>5. CASE VendorLines(f, v) # {}
  <2>1. m.id = v /\ DevicesMade(f, m.devices, V, Len(f) + 1) /\ v # UnknownId
    BY <1>1, <1>5, VendorNamed DEF Known
  <2>2. \A l \in Entries(f, 1) : l < Len(f) + 1
    BY ReadTable
  <2>3. DevicesTo(f, V, d, Len(f) + 1) = S
    BY <1>5, <2>2 DEF DevicesTo, DeviceLines
  <2> HIDE DEF m, S, V
  <2>4. IF S = {} THEN d \notin DOMAIN m.devices
        ELSE /\ d \in DOMAIN m.devices /\ m.devices[d].name = <<First(S), 1>>
             /\ SubsMade(f, m.devices[d].subs, First(S), Len(f) + 1)
    BY <2>1, <2>3 DEF DevicesMade
  <2>5. CASE S = {}
    BY <1>2, <1>3, <2>4, <2>5 DEF S, m
  <2>6. CASE S # {}
    BY <1>2, <1>3, <2>1, <2>4, <2>6 DEF S, m
  <2> QED
    BY <2>5, <2>6
<1> QED
  BY <1>4, <1>5

LEMMA SubNamed ==
  ASSUME IdsInv, Done, NEW t \in {"pci", "usb"}, Readable(t), NEW f, f = setup[t], Clean(f), NEW v \in Known, NEW d \in Known,
         NEW k \in Known
  PROVE  SubName(t, v, d, k) = Listed(SubLines(f, v, d, k), 2)
<1> DEFINE x == getDevice(getManufacturer(t, v), d)
           S == SubLines(f, v, d, k)
           D == First(DeviceLines(f, v, d))
<1>1. Listed(S, 2) = IF S = {} THEN Unknown ELSE <<First(S), 2>>
  BY DEF Listed
<1>2. SubName(t, v, d, k) = IF k \notin DOMAIN x.subs THEN Unknown ELSE x.subs[k]
  BY DEF SubName, getSubDevice, Known
<1>3. CASE DeviceLines(f, v, d) = {}
  <2>1. S = {}
    BY <1>3 DEF SubLines
  <2>2. x.subs = NoMap /\ DOMAIN NoMap = {}
    BY <1>3, DeviceNamed DEF NoMap
  <2> HIDE DEF x, S
  <2> QED
    BY <1>1, <1>2, <2>1, <2>2 DEF S
<1>4. CASE DeviceLines(f, v, d) # {}
  <2>1. SubsMade(f, x.subs, D, Len(f) + 1)
    BY <1>4, DeviceNamed
  <2>2. \A l \in Entries(f, 2) : l < Len(f) + 1
    BY ReadTable
  <2>3. SubsTo(f, D, k, Len(f) + 1) = S
    BY <1>4, <2>2 DEF SubsTo, SubLines
  <2> HIDE DEF x, S, D
  <2>4. IF S = {} THEN k \notin DOMAIN x.subs ELSE k \in DOMAIN x.subs /\ x.subs[k] = <<First(S), 2>>
    BY <2>1, <2>3 DEF SubsMade
  <2> QED
    BY <1>1, <1>2, <2>4 DEF S
<1> QED
  BY <1>3, <1>4

\* What DeviceLookup finds in its tables is what the files list, whatever
\* their length and wherever comments and blank lines stand in them, as far as
\* the code can read that.
THEOREM TablesHoldTheLists == IdsSpec => []TablesAsListed
<1>1. IdsInv => TablesAsListed
  <2> SUFFICES ASSUME IdsInv, Done, NEW t \in {u \in DOMAIN tables : Readable(u)}, Unindented(setup[t]), NEW v \in Known
               PROVE  /\ ManuName(t, v) = Listed(VendorLines(setup[t], v), 1)
                      /\ Clean(setup[t]) => \A d \in Known :
                           /\ DevName(t, v, d) = Listed(DeviceLines(setup[t], v, d), 1)
                           /\ \A k \in Known : SubName(t, v, d, k) = Listed(SubLines(setup[t], v, d, k), 2)
    BY DEF TablesAsListed
  <2>1. t \in {"pci", "usb"} /\ Readable(t)
    BY DEF IdsInv, TypedIds
  <2>2. PICK f : f = setup[t]
    OBVIOUS
  <2>3. ManuName(t, v) = Listed(VendorLines(f, v), 1)
    BY <2>1, <2>2, VendorNamed DEF ManuName
  <2>4. ASSUME Clean(f), NEW d \in Known PROVE DevName(t, v, d) = Listed(DeviceLines(f, v, d), 1)
    BY <2>1, <2>2, <2>4, DeviceNamed DEF DevName
  <2>5. ASSUME Clean(f), NEW d \in Known, NEW k \in Known PROVE SubName(t, v, d, k) = Listed(SubLines(f, v, d, k), 2)
    BY <2>1, <2>2, <2>5, SubNamed
  <2> QED
    BY <2>2, <2>3, <2>4, <2>5
<1> QED
  BY <1>1, IdsInvariant, PTL

\* A line's words are not what stands for a name that is not listed, nor none.
LEMMA ListedIsNamed ==
  ASSUME NEW S, NEW n
  PROVE  /\ Listed(S, n) = Unknown <=> S = {}
         /\ S # {} => Listed(S, n) = <<First(S), n>> /\ Listed(S, n)[1] = First(S)
<1>1. \A a, b : <<a, b>> # <<"Unknown">>
  <2> SUFFICES ASSUME NEW a, NEW b, <<a, b>> = <<"Unknown">> PROVE FALSE
    OBVIOUS
  <2>1. Len(<<a, b>>) = 2 /\ Len(<<"Unknown">>) = 1
    OBVIOUS
  <2> QED
    BY <2>1
<1> QED
  BY <1>1 DEF Listed, Unknown

\* A card's model stands in the file behind its device.
LEMMA SubBehindDevice ==
  ASSUME NEW f, IdFile(f), NEW v, NEW d, NEW s, NEW l \in SubLines(f, v, d, s)
  PROVE  DeviceLines(f, v, d) # {} /\ First(DeviceLines(f, v, d)) < l
<1>1. l \in Entries(f, 2) /\ DeviceLines(f, v, d) # {} /\ Under(f, l, 1) = First(DeviceLines(f, v, d))
  BY DEF SubLines
<1>2. l \in Nat /\ 1 <= l /\ 1 \in Nat \ {0}
  BY <1>1, LinesOf
<1>3. FirstIs(f, 1, {0, 1})
  BY VendorFirst DEF FirstIs
<1>4. \E e \in Entries(f, 1) : e < l
  BY <1>1, <1>2, <1>3, DeviceBefore
<1> QED
  BY <1>1, <1>2, <1>4, UnderFound

LEMMA CardsNamed == IdsInv => CardNamed
<1> SUFFICES ASSUME IdsInv, Done, Readable("pci"), Clean(setup.pci),
                    NEW man \in Known, NEW d \in Known, NEW subMan \in Known, NEW s \in Known
             PROVE  LET card == fillPCIDev(man, d, subMan, s)
                        vendors(v) == VendorLines(setup.pci, v)
                        devs == DeviceLines(setup.pci, man, d)
                        subs == SubLines(setup.pci, man, d, s)
                    IN /\ card.manufacturer = Listed(vendors(IF vendors(subMan) = {} THEN man ELSE subMan), 1)
                       /\ card.model = IF subs = {} THEN Listed(devs, 1) ELSE Listed(subs, 2)
                       /\ card.description # Empty => /\ card.description = Listed(devs, 1)
                                                      /\ card.description[1] < card.model[1]
  BY DEF CardNamed
<1>1. PICK f : f = setup["pci"]
  OBVIOUS
<1>2. Clean(f) /\ Unindented(f) /\ IdFile(f) /\ tables["pci"].made
  BY <1>1, ReadTable DEF Clean
<1> DEFINE card == fillPCIDev(man, d, subMan, s)
           devs == DeviceLines(f, man, d)
           subs == SubLines(f, man, d, s)
           vendors(v) == VendorLines(f, v)
           maker == IF ManuName("pci", subMan) = Unknown THEN man ELSE subMan
<1>3. \A v \in Known : ManuName("pci", v) = Listed(vendors(v), 1)
  BY <1>1, <1>2, VendorNamed DEF ManuName
<1>4. DevName("pci", man, d) = Listed(devs, 1)
  BY <1>1, <1>2, DeviceNamed DEF DevName
<1>5. SubName("pci", man, d, s) = Listed(subs, 2)
  BY <1>1, <1>2, SubNamed
<1>6. maker = (IF vendors(subMan) = {} THEN man ELSE subMan) /\ maker \in Known /\ maker # UnknownId /\ man # UnknownId
  BY <1>3, ListedIsNamed DEF Known
<1>7. card = [manufacturer |-> ManuName("pci", maker),
              model |-> IF SubName("pci", man, d, s) # Unknown THEN SubName("pci", man, d, s) ELSE DevName("pci", man, d),
              description |-> IF SubName("pci", man, d, s) # Unknown THEN DevName("pci", man, d) ELSE Empty]
  BY <1>2, <1>6 DEF fillPCIDev
<1>8. card.manufacturer = Listed(vendors(maker), 1)
  BY <1>3, <1>6, <1>7
<1>9. SubName("pci", man, d, s) = Unknown <=> subs = {}
  BY <1>5, ListedIsNamed
<1>10. card.model = IF subs = {} THEN Listed(devs, 1) ELSE Listed(subs, 2)
  BY <1>4, <1>5, <1>7, <1>9
<1>11. ASSUME card.description # Empty PROVE card.description = Listed(devs, 1) /\ card.description[1] < card.model[1]
  <2>1. subs # {} /\ card.description = Listed(devs, 1)
    BY <1>4, <1>7, <1>9, <1>11
  <2>2. subs \in SUBSET Nat
    BY <1>2, LinesOf DEF SubLines
  <2>3. First(subs) \in subs
    BY <2>1, <2>2, FirstOf
  <2>4. devs # {} /\ First(devs) < First(subs)
    BY <1>2, <2>3, SubBehindDevice
  <2>5. card.description[1] = First(devs) /\ card.model[1] = First(subs)
    BY <1>10, <2>1, <2>4, ListedIsNamed
  <2> QED
    BY <2>1, <2>4, <2>5
<1> HIDE DEF card, devs, subs, maker
<1>12. /\ card.manufacturer = Listed(vendors(IF vendors(subMan) = {} THEN man ELSE subMan), 1)
       /\ card.model = IF subs = {} THEN Listed(devs, 1) ELSE Listed(subs, 2)
       /\ card.description # Empty => card.description = Listed(devs, 1) /\ card.description[1] < card.model[1]
  BY <1>6, <1>8, <1>10, <1>11
<1> QED
  BY <1>1, <1>12 DEF card, devs, subs

LEMMA UsbDevicesNamed == IdsInv => UsbDeviceNamed
<1> SUFFICES ASSUME IdsInv, Done, NEW man \in Known, NEW d \in Known
             PROVE  LET f == setup.usb
                        device == fillUSBDev(man, d)
                    IN IF ~Readable("usb") THEN device = NoNames
                       ELSE Clean(f) => /\ device.manufacturer = Listed(VendorLines(f, man), 1)
                                        /\ device.model = Listed(DeviceLines(f, man, d), 1)
  BY DEF UsbDeviceNamed
<1>1. PICK f : f = setup["usb"]
  OBVIOUS
<1>2. CASE ~Readable("usb")
  <2>1. tables["usb"] = NoTable
    BY <1>2 DEF IdsInv, FilesInv
  <2>2. ~tables["usb"].made
    BY <2>1 DEF NoTable
  <2> QED
    BY <1>2, <2>2 DEF fillUSBDev
<1>3. ASSUME Readable("usb"), Clean(f)
      PROVE  /\ fillUSBDev(man, d).manufacturer = Listed(VendorLines(f, man), 1)
             /\ fillUSBDev(man, d).model = Listed(DeviceLines(f, man, d), 1)
  <2>1. Unindented(f) /\ tables["usb"].made /\ man # UnknownId /\ d # UnknownId
    BY <1>1, <1>3, ReadTable DEF Clean, Known
  <2>2. ManuName("usb", man) = Listed(VendorLines(f, man), 1)
    BY <1>1, <1>3, <2>1, VendorNamed DEF ManuName
  <2>3. DevName("usb", man, d) = Listed(DeviceLines(f, man, d), 1)
    BY <1>1, <1>3, DeviceNamed DEF DevName
  <2> QED
    BY <2>1, <2>2, <2>3 DEF fillUSBDev, NoNames
<1> QED
  BY <1>1, <1>2, <1>3

\* fillPCIDev and fillUSBDev name cards and USB devices as the files say,
\* whatever else the files hold.
THEOREM CardsAndDevicesNamed == IdsSpec => []NamedAsListed
<1>1. IdsInv => NamedAsListed
  BY CardsNamed, UsbDevicesNamed DEF NamedAsListed
<1> QED
  BY <1>1, IdsInvariant, PTL
=============================================================================
