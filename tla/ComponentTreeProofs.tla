-------------------------- MODULE ComponentTreeProofs --------------------------
(***************************************************************************)
(* Proofs about ComponentTree, for every two directory trees and everything*)
(* the two walks may find in them: one tree can be made of the two lists,  *)
(* with each device once, below what it was found below.                   *)
(***************************************************************************)
EXTENDS ComponentTree, TLAPS

\* The components the vector and the tree hold; what mergeTrees is done with.
Members == Listed \cup InTree
Merging == {"mark", "merge", "build", "done"}
Done == IF phase = "merge" THEN visited ELSE IF phase \in {"build", "done"} THEN nodes ELSE {}
Living == {n \in nodes : ~Dead(n)}

-----------------------------------------------------------------------------
(* The parts of the invariant.                                             *)

UpOK ==
  /\ up \in [Comps -> Comps \cup Roots]
  /\ \A d \in SysDirs : up[d] \in SysDirs \cup {SysRoot}
  /\ \A n \in DtNodes : up[n] \in DtNodes \cup {DtRoot}
  /\ WellFounded(up, Comps)

\* The nearest component is the directory's own or the one of the directory above.
NearInv ==
  /\ near[SysRoot] = SysRoot /\ near[DtRoot] = DtRoot
  /\ \A d \in SysDirs : near[d] \in SysDirs \cup {SysRoot, None}
  /\ \A n \in DtNodes : near[n] \in DtNodes \cup {DtRoot, None}
  /\ \A d \in Comps : near[d] # None => /\ near[up[d]] # None
                                        /\ near[d] \in {d, near[up[d]]}
                                        /\ near[near[d]] = near[d]
Unwalked ==
  /\ phase = "sysfs" => \A d \in SysDirs \ visited : near[d] = None
  /\ phase \in {"sysfs", "duplicates"} => \A n \in DtNodes : near[n] = None
  /\ phase = "devtree" => \A n \in DtNodes \ visited : near[n] = None

\* Devices have their parents in the list; what is missing is a duplicate.
DeviceInv ==
  /\ \A d \in SysDirs : mParent[d] = IF near[d] = d THEN near[up[d]] ELSE None
  /\ \A d \in SysDirs \cap Members :
       near[d] = d /\ mParent[d] \in (SysDirs \cap Members) \cup {SysRoot}
  /\ phase = "sysfs" => \A d \in SysDirs : near[d] = d => d \in Members
  /\ phase # "sysfs" => \A d \in SysDirs \ Members : near[d] = d =>
       /\ mParent[d] \in SysDirs \cap Members
       /\ \A e \in SysDirs \ {d} : mParent[e] # mParent[d]
DuplicatesInv ==
  phase = "duplicates" =>
    /\ \A d \in visited : d \in SysDirs /\ mParent[d] \in visited \cup {SysRoot}
    /\ \A d \in SysDirs \ Members : near[d] = d => mParent[d] \in visited

\* The nodes, and which of them mergeTrees has moved.
NodeInv ==
  /\ nodes \subseteq DtNodes
  /\ \A n \in DtNodes : n \in nodes <=> near[n] = n
  /\ \A n \in DtNodes : Dead(n) => n \in nodes /\ self[n] \in SysDirs \cap Members
  /\ phase \notin {"merge", "build", "done"} => \A n \in DtNodes : ~Dead(n) /\ n \notin Members
  /\ phase \in Merging => \A n \in nodes : mParent[n] # None /\ (n \notin Done => mParent[n] = near[up[n]])
MovedInv ==
  /\ Done \subseteq nodes
  /\ \A n \in Done, m \in nodes : near[up[m]] = n => m \in Done
  /\ \A c \in DtNodes \cap Members : c \in Done /\ ~Dead(c)
  /\ \A c \in Done : ~Dead(c) =>
       (c \in Members <=> \/ near[up[c]] = DtRoot \/ near[up[c]] \in Members
                          \/ near[up[c]] \in Done /\ Dead(near[up[c]]))

KidsInv ==
  /\ phase = "sysfs" => \A p \in Comps \cup Roots : kids[p] = {}
  /\ phase # "sysfs" => \A p \in SysDirs \cup {SysRoot} : kids[p] = {c \in Members : StandsAbove(c) = p}
  /\ phase \in Merging => \A p \in nodes : kids[p] = {n \in nodes : near[up[n]] = p /\ (p \in Done => ~Dead(n))}

TreeInv ==
  /\ \A c \in Comps : list[c] \in {0, 1}
  /\ \A c \in Comps : tree[c] # None => tree[c] = StandsAbove(c) /\ list[c] = 0 /\ phase \in {"build", "done"}
  /\ phase = "done" => Listed = {}
  /\ phase \notin {"thrown", "crashed"}

WalkInv == UpOK /\ NearInv /\ Unwalked
ListInv == DeviceInv /\ DuplicatesInv
MergeInv == NodeInv /\ MovedInv
IInv == TypeOK /\ WalkInv /\ ListInv /\ MergeInv /\ KidsInv /\ TreeInv

-----------------------------------------------------------------------------
(* What the parts say together.                                            *)

LEMMA Disjoint ==
  /\ SysDirs \cap DtNodes = {} /\ SysRoot # DtRoot
  /\ SysRoot \notin Comps /\ DtRoot \notin Comps /\ None \notin Comps \cup Roots
  /\ SysDirs \subseteq Comps /\ DtNodes \subseteq Comps
  /\ \A c \in Comps : c \in SysDirs \/ c \in DtNodes
BY TreeAssumption DEF Comps, Roots

\* No set of components hangs below itself, when each hangs below the nearest.
LEMMA NearestWellFounded ==
  ASSUME UpOK, NearInv, NEW T \in SUBSET Comps, T # {}, \A c \in T : near[c] = c
  PROVE  \E c \in T : near[up[c]] \notin T
<1>1. SUFFICES ASSUME \A c \in T : near[up[c]] \in T PROVE FALSE
  OBVIOUS
<1> DEFINE U == {d \in Comps : near[d] \in T}
<1>2. U \in SUBSET Comps /\ U # {}
  OBVIOUS
<1>3. PICK d \in U : up[d] \notin U
  BY <1>2 DEF UpOK, WellFounded
<1>4. near[d] \in T /\ near[d] # None /\ d \in Comps
  BY <1>3, Disjoint
<1>5. near[up[d]] \in T
  BY <1>1, <1>4 DEF NearInv
<1>6. up[d] \in Comps
  BY <1>4, <1>5, Disjoint DEF NearInv, UpOK, Roots
<1> QED
  BY <1>3, <1>5, <1>6

\* What is above a device, and above a node.
LEMMA DeviceAbove ==
  ASSUME WalkInv, NEW d \in SysDirs
  PROVE  near[up[d]] \in SysDirs \cup {SysRoot, None}
BY DEF WalkInv, UpOK, NearInv

LEMMA AboveDevice ==
  ASSUME WalkInv, NodeInv, NEW d \in SysDirs
  PROVE  StandsAbove(d) = near[up[d]]
<1>1. near[up[d]] # DtRoot /\ near[up[d]] \notin nodes
  BY DeviceAbove, Disjoint DEF NodeInv, Roots
<1> QED
  BY <1>1 DEF StandsAbove

LEMMA NodeAbove ==
  ASSUME WalkInv, NodeInv, NEW n \in nodes
  PROVE  near[up[n]] \in nodes \cup {DtRoot}
<1>1. near[n] = n /\ n # None /\ n \in Comps /\ n \in DtNodes
  BY Disjoint DEF NodeInv
<1>2. near[up[n]] # None /\ up[n] \in DtNodes \cup {DtRoot}
  BY <1>1 DEF WalkInv, UpOK, NearInv
<1>3. near[up[n]] \in DtNodes \cup {DtRoot}
  BY <1>2, Disjoint DEF WalkInv, NearInv
<1>4. up[n] \in DtNodes => near[near[up[n]]] = near[up[n]]
  BY <1>2, Disjoint DEF WalkInv, NearInv
<1>5. up[n] = DtRoot => near[up[n]] = DtRoot
  BY DEF WalkInv, NearInv
<1> QED
  BY <1>2, <1>3, <1>4, <1>5 DEF NodeInv

LEMMA AboveNode ==
  ASSUME WalkInv, NodeInv, NEW n \in nodes
  PROVE  /\ near[up[n]] = DtRoot => StandsAbove(n) = SysRoot
         /\ near[up[n]] \in nodes /\ Dead(near[up[n]]) => StandsAbove(n) = self[near[up[n]]]
         /\ near[up[n]] \in nodes /\ ~Dead(near[up[n]]) => StandsAbove(n) = near[up[n]]
<1>1. n \notin SysDirs /\ (near[up[n]] \in nodes => near[up[n]] # DtRoot)
  BY Disjoint DEF NodeInv
<1> QED
  BY <1>1 DEF StandsAbove

-----------------------------------------------------------------------------
(* The steps over /sys/devices.                                            *)

\* A walk that is over: what is nearest stays what it is.
LEMMA WalkKept ==
  ASSUME WalkInv, up' = up, near' = near,
         phase' # phase => phase' \notin {"sysfs"} /\ (phase' \in {"duplicates", "devtree"} => \A n \in DtNodes : near[n] = None),
         phase \in {"sysfs", "devtree"} /\ phase' = phase => visited' = visited
  PROVE  WalkInv'
<1>1. UpOK' /\ NearInv'
  BY DEF WalkInv, UpOK, NearInv, WellFounded
<1>2. Unwalked'
  BY DEF WalkInv, Unwalked
<1> QED
  BY <1>1, <1>2 DEF WalkInv

\* A directory gets its nearest component.
LEMMA WalkStep ==
  ASSUME WalkInv, TypeOK, up' = up, phase' = phase, phase \in {"sysfs", "devtree"}, NEW d \in Comps,
         IF phase = "sysfs" THEN d \in SysDirs ELSE d \in DtNodes,
         Reached(d), visited' = visited \cup {d}, NEW x \in {None, d, near[up[d]]}, near' = [near EXCEPT ![d] = x]
  PROVE  /\ WalkInv' /\ near[d] = None
         /\ \A c \in Comps \cup Roots : c # d => near'[c] = near[c]
         /\ \A c \in Comps : near[up[c]] # None => near'[up[c]] = near[up[c]]
<1>0. /\ near[d] = None /\ d \notin Roots /\ near[up[d]] # None /\ d # None /\ up[d] \in Comps \cup Roots
      /\ (d \in SysDirs => d \notin DtNodes)
  <2>1. d \notin visited /\ near[up[d]] # None
    BY DEF Reached
  <2>2. near[d] = None
    BY <2>1 DEF WalkInv, Unwalked
  <2>3. d \notin Roots /\ d # None /\ (d \in SysDirs => d \notin DtNodes)
    BY Disjoint DEF Roots
  <2> QED
    BY <2>1, <2>2, <2>3 DEF WalkInv, UpOK
<1>1. near'[d] = x /\ \A c \in Comps \cup Roots : c # d => near'[c] = near[c]
  BY DEF TypeOK
<1>2. \A c \in Comps : near[up[c]] # None => near'[up[c]] = near[up[c]]
  BY <1>0, <1>1 DEF WalkInv, UpOK
<1>3. up[d] # d /\ near'[up[d]] = near[up[d]] /\ near[up[d]] # d
  <2>1. up[d] # d
    BY <1>0
  <2>2. near[up[d]] # d
    <3>1. CASE up[d] \in Roots
      BY <1>0, <3>1 DEF WalkInv, NearInv, Roots
    <3>2. CASE up[d] \in Comps
      <4>1. near[near[up[d]]] = near[up[d]]
        BY <1>0, <3>2 DEF WalkInv, NearInv
      <4> QED
        BY <1>0, <4>1
    <3> QED
      BY <1>0, <3>1, <3>2
  <2> QED
    BY <1>0, <1>2, <2>1, <2>2
<1>4. UpOK'
  BY DEF WalkInv, UpOK, WellFounded
<1>5. NearInv'
  <2>1. near'[SysRoot] = SysRoot /\ near'[DtRoot] = DtRoot
    BY <1>0, <1>1 DEF WalkInv, NearInv, Roots
  <2>2. \A c \in SysDirs : near'[c] \in SysDirs \cup {SysRoot, None}
    BY <1>1, Disjoint DEF WalkInv, NearInv, UpOK
  <2>3. \A c \in DtNodes : near'[c] \in DtNodes \cup {DtRoot, None}
    BY <1>1, Disjoint DEF WalkInv, NearInv, UpOK
  <2>4. ASSUME NEW c \in Comps, near'[c] # None
        PROVE  near'[up[c]] # None /\ near'[c] \in {c, near'[up[c]]} /\ near'[near'[c]] = near'[c]
    <3>1. CASE c = d
      <4>1. x \in {d, near[up[d]]}
        BY <1>1, <2>4, <3>1
      <4>2. CASE x = d
        BY <1>0, <1>1, <1>3, <3>1, <4>2
      <4>3. CASE x = near[up[d]]
        <5>1. near[up[d]] \in Comps \cup Roots
          BY <1>0 DEF TypeOK
        <5>2. near[near[up[d]]] = near[up[d]]
          BY <1>0, Disjoint DEF WalkInv, NearInv, Roots
        <5> QED
          BY <1>0, <1>1, <1>3, <3>1, <4>3, <5>1, <5>2
      <4> QED
        BY <4>1, <4>2, <4>3
    <3>2. CASE c # d
      <4>1. near'[c] = near[c] /\ near[c] # None
        BY <1>1, <2>4, <3>2
      <4>2. near[up[c]] # None /\ near[c] \in {c, near[up[c]]} /\ near[near[c]] = near[c]
        BY <4>1 DEF WalkInv, NearInv
      <4>3. near[c] # d /\ near[c] \in Comps \cup Roots
        BY <1>0, <4>1, <4>2 DEF TypeOK
      <4> QED
        BY <1>1, <1>2, <4>1, <4>2, <4>3
    <3> QED
      BY <3>1, <3>2
  <2> QED
    BY <2>1, <2>2, <2>3, <2>4 DEF NearInv
<1>6. Unwalked'
  BY <1>0, <1>1, Disjoint DEF WalkInv, Unwalked
<1> QED
  BY <1>0, <1>1, <1>2, <1>4, <1>5, <1>6 DEF WalkInv

LEMMA FindDeviceInv ==
  ASSUME IInv, NEW d \in SysDirs, FindDevice(d)
  PROVE  IInv'
<1>0. /\ phase = "sysfs" /\ phase' = phase /\ Reached(d) /\ visited' = visited \cup {d}
      /\ up' = up /\ nodes' = nodes /\ kids' = kids /\ self' = self /\ tree' = tree
  BY DEF FindDevice
<1>1. d \in Comps /\ d \notin DtNodes /\ d # None /\ TypeOK /\ WalkInv
  BY Disjoint DEF IInv
<1>2. PICK x \in {None, d, near[up[d]]} : near' = [near EXCEPT ![d] = x]
  <2>1. near[d] = None
    BY <1>0, <1>1 DEF WalkInv, Unwalked, Reached
  <2>2. CASE near' = near
    <3>1. near' = [near EXCEPT ![d] = None]
      BY <1>1, <2>1, <2>2 DEF TypeOK
    <3> QED
      BY <3>1
  <2>3. CASE near' = [near EXCEPT ![d] = near[up[d]]]
    BY <2>3
  <2>4. CASE near' = [near EXCEPT ![d] = d]
    BY <2>4
  <2> QED
    BY <2>2, <2>3, <2>4 DEF FindDevice
<1>3. /\ WalkInv' /\ near[d] = None /\ near'[d] = x
      /\ \A c \in Comps \cup Roots : c # d => near'[c] = near[c]
      /\ \A c \in Comps : near[up[c]] # None => near'[up[c]] = near[up[c]]
  BY <1>0, <1>1, <1>2, WalkStep DEF TypeOK
<1>4. \/ /\ x = d /\ list' = [list EXCEPT ![d] = @ + 1] /\ mParent' = [mParent EXCEPT ![d] = near[up[d]]]
         /\ \E n \in DtNodes \cup {None} : ofNode' = [ofNode EXCEPT ![d] = n]
      \/ /\ x # d /\ list' = list /\ mParent' = mParent /\ ofNode' = ofNode
  <2>1. CASE near' = [near EXCEPT ![d] = d] /\ list' = [list EXCEPT ![d] = @ + 1]
             /\ mParent' = [mParent EXCEPT ![d] = near[up[d]]]
             /\ \E n \in DtNodes \cup {None} : ofNode' = [ofNode EXCEPT ![d] = n]
    BY <1>1, <1>3, <2>1 DEF TypeOK
  <2>2. CASE near' \in {near, [near EXCEPT ![d] = near[up[d]]]} /\ UNCHANGED <<list, mParent, ofNode>>
    <3>1. near'[d] = None \/ near'[d] = near[up[d]]
      BY <1>1, <1>3, <2>2 DEF TypeOK
    <3>2. near[up[d]] # d
      <4>1. near[up[d]] # None /\ up[d] \in SysDirs \cup {SysRoot}
        BY <1>0, <1>1 DEF Reached, WalkInv, UpOK
      <4>2. near[near[up[d]]] = near[up[d]]
        BY <1>1, <4>1, Disjoint DEF WalkInv, NearInv
      <4> QED
        BY <1>3, <4>1, <4>2
    <3> QED
      BY <1>1, <1>3, <2>2, <3>1, <3>2
  <2> QED
    BY <2>1, <2>2 DEF FindDevice
<1>5. near[up[d]] # None /\ near[up[d]] \in SysDirs \cup {SysRoot} /\ near[d] # d /\ tree[d] = None
      /\ (near[up[d]] \in SysDirs => near[near[up[d]]] = near[up[d]])
  <2>1. near[up[d]] # None /\ up[d] \in SysDirs \cup {SysRoot}
    BY <1>0, <1>1 DEF Reached, WalkInv, UpOK
  <2>2. near[up[d]] \in SysDirs \cup {SysRoot} /\ (up[d] \in SysDirs => near[near[up[d]]] = near[up[d]])
    BY <1>1, <2>1, Disjoint DEF WalkInv, NearInv
  <2>3. up[d] = SysRoot => near[up[d]] = SysRoot
    BY <1>1 DEF WalkInv, NearInv
  <2>4. near[d] # d
    BY <1>1, <1>3
  <2>5. tree[d] = None
    BY <1>0, <1>1 DEF IInv, TreeInv
  <2> QED
    BY <2>1, <2>2, <2>3, <2>4, <2>5, Disjoint
<1>6. list[d] = 0 /\ mParent[d] = None /\ d \notin Members
  <2>1. d \notin Members /\ mParent[d] = None
    BY <1>1, <1>5 DEF IInv, ListInv, DeviceInv
  <2> QED
    BY <1>1, <2>1 DEF Members, Listed, IInv, TreeInv, TypeOK
<1>7. Members' = (IF x = d THEN Members \cup {d} ELSE Members)
  BY <1>0, <1>1, <1>4, <1>6 DEF Members, Listed, InTree, TypeOK
<1>8. TypeOK'
  <2>1. near' \in [Comps \cup Roots -> Comps \cup Roots \cup {None}]
    BY <1>1, <1>2, <1>5, Disjoint DEF TypeOK, Roots
  <2>2. list' \in [Comps -> Nat] /\ mParent' \in [Comps -> Comps \cup Roots \cup {None}]
        /\ ofNode' \in [SysDirs -> DtNodes \cup {None}]
    BY <1>1, <1>4, <1>5, Disjoint DEF TypeOK, Roots
  <2>3. \A c \in Comps : list'[c] > 0 => mParent'[c] # None
    BY <1>1, <1>4, <1>5 DEF TypeOK
  <2> QED
    BY <1>0, <1>1, <2>1, <2>2, <2>3 DEF TypeOK
<1>9. ListInv'
  <2>1. \A e \in SysDirs : mParent'[e] = IF near'[e] = e THEN near'[up[e]] ELSE None
    <3>1. TAKE e \in SysDirs
    <3>2. e \in Comps /\ mParent[e] = IF near[e] = e THEN near[up[e]] ELSE None
      BY Disjoint DEF IInv, ListInv, DeviceInv
    <3>3. CASE e = d
      BY <1>1, <1>3, <1>4, <1>5, <1>6, <3>3 DEF TypeOK
    <3>4. CASE e # d
      <4>1. near[e] = e => near'[up[e]] = near[up[e]]
        BY <1>1, <1>3, <3>2, Disjoint DEF WalkInv, NearInv
      <4> QED
        BY <1>1, <1>3, <1>4, <3>2, <3>4, <4>1 DEF TypeOK
    <3> QED
      BY <3>3, <3>4
  <2>2. \A e \in SysDirs : near'[e] = e <=> e \in Members'
    BY <1>1, <1>3, <1>4, <1>5, <1>6, <1>7, <1>0, Disjoint DEF IInv, ListInv, DeviceInv
  <2>3. \A e \in SysDirs \cap Members' : mParent'[e] \in (SysDirs \cap Members') \cup {SysRoot}
    <3>1. TAKE e \in SysDirs \cap Members'
    <3>2. CASE e = d
      <4>1. mParent'[e] = near[up[d]]
        BY <1>1, <1>4, <1>6, <1>7, <3>1, <3>2 DEF TypeOK
      <4>2. near[up[d]] \in SysDirs => near[up[d]] \in Members
        BY <1>0, <1>5 DEF IInv, ListInv, DeviceInv
      <4> QED
        BY <1>5, <1>6, <1>7, <3>1, <3>2, <4>1, <4>2
    <3>3. CASE e # d
      <4>1. e \in SysDirs \cap Members
        BY <1>7, <3>1, <3>3
      <4>2. mParent[e] \in (SysDirs \cap Members) \cup {SysRoot}
        BY <4>1 DEF IInv, ListInv, DeviceInv
      <4>3. mParent'[e] = mParent[e]
        BY <1>1, <1>4, <3>3, <4>1, Disjoint DEF TypeOK
      <4> QED
        BY <1>7, <4>2, <4>3
    <3> QED
      BY <3>2, <3>3
  <2> QED
    BY <1>0, <2>1, <2>2, <2>3 DEF ListInv, DeviceInv, DuplicatesInv
<1>10. MergeInv'
  BY <1>0, <1>1, <1>3, <1>7, Disjoint DEF IInv, MergeInv, NodeInv, MovedInv, Done, Dead, Merging
<1>11. KidsInv' /\ TreeInv'
  BY <1>0, <1>1, <1>4, <1>6 DEF IInv, KidsInv, TreeInv, TypeOK, Merging
<1> QED
  BY <1>3, <1>8, <1>9, <1>10, <1>11 DEF IInv

LEMMA LinkDevicesInv ==
  ASSUME IInv, LinkDevices
  PROVE  IInv'
<1>0. /\ phase = "sysfs" /\ phase' = "duplicates" /\ visited' = {} /\ up' = up /\ near' = near
      /\ list' = list /\ nodes' = nodes /\ mParent' = mParent /\ ofNode' = ofNode /\ self' = self
      /\ tree' = tree
  BY DEF LinkDevices, Goto
<1>1. TypeOK /\ WalkInv /\ NodeInv /\ TreeInv /\ DeviceInv
  BY DEF IInv, MergeInv, ListInv
<1>2. Members' = Members /\ Members = Listed
  <2>1. InTree = {}
    BY <1>0, <1>1 DEF TreeInv, InTree
  <2> QED
    BY <1>0, <2>1 DEF Members, Listed, InTree
<1>3. TypeOK'
  BY <1>0, <1>1 DEF TypeOK, LinkDevices, Listed, Phases
<1>4. WalkInv'
  BY <1>0, <1>1, WalkKept DEF WalkInv, Unwalked
<1>5. ListInv'
  <2>1. \A d \in SysDirs \ Members : near[d] # d
    BY <1>0, <1>1 DEF DeviceInv
  <2> QED
    BY <1>0, <1>1, <1>2, <2>1 DEF ListInv, DeviceInv, DuplicatesInv
<1>6. MergeInv'
  BY <1>0, <1>1, <1>2 DEF IInv, MergeInv, NodeInv, MovedInv, Done, Dead, Merging
<1>7. KidsInv'
  <2>1. \A d \in Members : d \in SysDirs /\ StandsAbove(d) = mParent[d]
    <3>1. TAKE d \in Members
    <3>2. d \in SysDirs
      BY <1>0, <1>1, <1>2, Disjoint DEF NodeInv, Listed
    <3>3. near[d] = d /\ mParent[d] = near[up[d]]
      BY <1>1, <3>2 DEF DeviceInv
    <3> QED
      BY <1>1, <3>2, <3>3, AboveDevice
  <2>2. \A c : StandsAbove(c)' = StandsAbove(c)
    BY <1>0 DEF StandsAbove, Dead
  <2>3. ASSUME NEW p \in SysDirs \cup {SysRoot}
        PROVE  kids'[p] = {c \in Members' : StandsAbove(c)' = p}
    <3>1. kids'[p] = IF p = SysRoot \/ p \in Listed THEN {d \in Listed : mParent[d] = p} ELSE {}
      BY <2>3, Disjoint DEF LinkDevices, Roots
    <3>2. \A d \in Members : StandsAbove(d) = p => p = SysRoot \/ p \in Listed
      BY <1>1, <1>2, <2>1 DEF DeviceInv
    <3> QED
      BY <1>2, <2>1, <2>2, <3>1, <3>2
  <2> QED
    BY <1>0, <2>3 DEF KidsInv, Merging
<1>8. TreeInv'
  BY <1>0, <1>1 DEF TreeInv
<1> QED
  BY <1>3, <1>4, <1>5, <1>6, <1>7, <1>8 DEF IInv

LEMMA RemoveDuplicateInv ==
  ASSUME IInv, NEW p \in SysDirs, RemoveDuplicate(p)
  PROVE  IInv'
<1>0. /\ phase = "duplicates" /\ phase' = phase /\ visited' = visited \cup {p} /\ up' = up /\ near' = near
      /\ nodes' = nodes /\ mParent' = mParent /\ ofNode' = ofNode /\ self' = self /\ tree' = tree
      /\ p \in Listed /\ p \notin visited /\ (mParent[p] = SysRoot \/ mParent[p] \in visited)
  BY DEF RemoveDuplicate, NextDevice
<1>1. TypeOK /\ WalkInv /\ NodeInv /\ TreeInv /\ DeviceInv /\ DuplicatesInv /\ KidsInv
  BY DEF IInv, MergeInv, ListInv
<1>2. Members = Listed /\ Members' = Listed'
  BY <1>0, <1>1 DEF TreeInv, InTree, Members
<1>3. p \in Comps /\ p \in Members /\ near[p] = p
  BY <1>0, <1>1, <1>2, Disjoint DEF DeviceInv
<1>4. WalkInv'
  BY <1>0, <1>1, WalkKept
<1>5. \A d \in SysDirs : StandsAbove(d) = near[up[d]] /\ StandsAbove(d)' = near[up[d]]
      /\ (d \in Members => mParent[d] = near[up[d]])
  <2>1. \A c : StandsAbove(c)' = StandsAbove(c)
    BY <1>0 DEF StandsAbove, Dead
  <2>2. \A d \in SysDirs : StandsAbove(d) = near[up[d]]
    BY <1>1, AboveDevice
  <2> QED
    BY <1>1, <2>1, <2>2 DEF DeviceInv
<1>6. \A c \in Members : c \in SysDirs
  BY <1>0, <1>1, <1>2, Disjoint DEF NodeInv, Listed
<1>7. \A q \in SysDirs \cup {SysRoot} : kids[q] = {c \in Members : near[up[c]] = q}
  BY <1>0, <1>1, <1>5, <1>6 DEF KidsInv
<1>8. CASE list' = list /\ kids' = kids
  <2>1. Members' = Members
    BY <1>2, <1>8 DEF Listed
  <2>2. TypeOK'
    BY <1>0, <1>1, <1>3, <1>8 DEF TypeOK
  <2>3. ListInv'
    BY <1>0, <1>1, <1>3, <2>1 DEF ListInv, DeviceInv, DuplicatesInv
  <2>4. MergeInv'
    BY <1>0, <1>1, <2>1 DEF IInv, MergeInv, NodeInv, MovedInv, Done, Dead, Merging
  <2>5. KidsInv'
    BY <1>0, <1>1, <1>5, <1>6, <1>7, <1>8, <2>1 DEF KidsInv, Merging
  <2>6. TreeInv'
    BY <1>0, <1>1, <1>8 DEF TreeInv
  <2> QED
    BY <1>4, <2>2, <2>3, <2>4, <2>5, <2>6 DEF IInv
<1>9. ASSUME NEW c \in Listed, kids[p] = {c}, kids[c] = {},
             list' = [list EXCEPT ![c] = 0], kids' = [kids EXCEPT ![p] = {}]
      PROVE  IInv'
  <2>1. c \in SysDirs /\ c \in Comps /\ c \in Members /\ near[c] = c /\ mParent[c] = p /\ near[up[c]] = p
    BY <1>1, <1>2, <1>3, <1>5, <1>6, <1>7, <1>9 DEF DeviceInv, Listed
  <2>2. c # p
    <3>1. CASE c = p
      <4>1. mParent[p] = p
        BY <2>1, <3>1
      <4>2. p \in visited
        BY <1>0, <4>1, Disjoint DEF Roots
      <4> QED
        BY <1>0, <4>2
    <3> QED
      BY <3>1
  <2>3. c \notin visited
    BY <1>0, <1>1, <2>1, Disjoint DEF DuplicatesInv, Roots
  <2>4. Members' = Members \ {c}
    BY <1>1, <1>2, <2>1, <1>9 DEF Listed, TypeOK
  <2>5. TypeOK'
    BY <1>0, <1>1, <1>3, <1>9, <2>1 DEF TypeOK
  <2>6. \A d \in Members : mParent[d] # c
    BY <1>5, <1>6, <1>7, <1>9, <2>1
  <2>7. \A e \in SysDirs \ {c} : mParent[e] # p
    <3>1. TAKE e \in SysDirs \ {c}
    <3>2. SUFFICES ASSUME mParent[e] = p PROVE FALSE
      OBVIOUS
    <3>3. near[e] = e /\ e \in Comps
      BY <1>1, <1>3, <3>2, Disjoint DEF DeviceInv
    <3>4. e \notin Members
      BY <1>3, <1>5, <1>7, <1>9, <3>2
    <3> QED
      BY <1>0, <1>1, <2>1, <3>2, <3>3, <3>4 DEF DeviceInv
  <2>8. DeviceInv'
    <3>1. \A d \in SysDirs \cap Members' : near[d] = d /\ mParent[d] \in (SysDirs \cap Members') \cup {SysRoot}
      BY <1>1, <2>4, <2>6 DEF DeviceInv
    <3>2. ASSUME NEW d \in SysDirs \ Members', near[d] = d
          PROVE  /\ mParent[d] \in SysDirs \cap Members' /\ \A e \in SysDirs \ {d} : mParent[e] # mParent[d]
      <4>1. CASE d = c
        BY <1>3, <2>1, <2>2, <2>4, <2>7, <4>1
      <4>2. CASE d # c
        <5>1. d \notin Members
          BY <2>4, <3>2, <4>2
        <5>2. mParent[d] \in SysDirs \cap Members /\ mParent[d] \in visited
          BY <1>0, <1>1, <3>2, <5>1 DEF DeviceInv, DuplicatesInv
        <5> QED
          BY <1>0, <1>1, <2>3, <2>4, <3>2, <5>1, <5>2 DEF DeviceInv
      <4> QED
        BY <4>1, <4>2
    <3> QED
      BY <1>0, <1>1, <3>1, <3>2 DEF DeviceInv
  <2>9. DuplicatesInv'
    <3>1. \A d \in visited' : d \in SysDirs /\ mParent[d] \in visited' \cup {SysRoot}
      BY <1>0, <1>1 DEF DuplicatesInv
    <3>2. \A d \in SysDirs \ Members' : near[d] = d => mParent[d] \in visited'
      BY <1>0, <1>1, <2>1, <2>4 DEF DuplicatesInv
    <3> QED
      BY <1>0, <3>1, <3>2 DEF DuplicatesInv
  <2>10. MergeInv'
    BY <1>0, <1>1, <2>4 DEF IInv, MergeInv, NodeInv, MovedInv, Done, Dead, Merging
  <2>11. KidsInv'
    <3>1. ASSUME NEW q \in SysDirs \cup {SysRoot}
          PROVE  kids'[q] = {d \in Members' : StandsAbove(d)' = q}
      <4>1. kids'[q] = IF q = p THEN {} ELSE kids[q]
        BY <1>1, <1>3, <1>9, <3>1, Disjoint DEF TypeOK, Roots
      <4>2. CASE q = p
        BY <1>5, <1>6, <1>7, <1>9, <2>4, <4>1, <4>2
      <4>3. CASE q # p
        BY <1>5, <1>6, <1>7, <2>1, <2>4, <4>1, <4>3
      <4> QED
        BY <4>2, <4>3
    <3> QED
      BY <1>0, <3>1 DEF KidsInv, Merging
  <2>12. TreeInv'
    <3>1. \A d \in Comps : list'[d] \in {0, 1} /\ tree'[d] = None
      BY <1>0, <1>1, <1>9, <2>1 DEF TreeInv, TypeOK
    <3> QED
      BY <1>0, <3>1 DEF TreeInv
  <2> QED
    BY <1>4, <2>5, <2>8, <2>9, <2>10, <2>11, <2>12 DEF IInv, ListInv
<1> QED
  BY <1>8, <1>9 DEF RemoveDuplicate

LEMMA SysfsDoneInv ==
  ASSUME IInv, SysfsDone
  PROVE  IInv'
<1>0. /\ phase = "duplicates" /\ phase' = "devtree" /\ visited' = {}
      /\ UNCHANGED <<up, near, list, nodes, mParent, kids, ofNode, self, tree>>
  BY DEF SysfsDone, Goto
<1>1. Members' = Members /\ \A c : StandsAbove(c)' = StandsAbove(c)
  BY <1>0 DEF Members, Listed, InTree, StandsAbove, Dead
<1>2. WalkInv'
  BY <1>0, WalkKept DEF IInv, WalkInv, Unwalked
<1>3. TypeOK'
  BY <1>0 DEF IInv, TypeOK, Phases
<1>4. ListInv' /\ TreeInv'
  BY <1>0, <1>1 DEF IInv, ListInv, DeviceInv, DuplicatesInv, TreeInv, Listed
<1>5. MergeInv'
  BY <1>0, <1>1 DEF IInv, MergeInv, NodeInv, MovedInv, Done, Dead, Merging
<1>6. KidsInv'
  BY <1>0, <1>1 DEF IInv, KidsInv, Merging
<1> QED
  BY <1>2, <1>3, <1>4, <1>5, <1>6 DEF IInv

-----------------------------------------------------------------------------
(* The steps over the device tree, before the merge.                       *)

LEMMA FindNodeInv ==
  ASSUME IInv, NEW n \in DtNodes, FindNode(n)
  PROVE  IInv'
<1>0. /\ phase = "devtree" /\ phase' = phase /\ Reached(n) /\ visited' = visited \cup {n}
      /\ UNCHANGED <<up, list, mParent, kids, ofNode, self, tree>>
  BY DEF FindNode
<1>1. n \in Comps /\ n \notin SysDirs /\ n # None /\ n # DtRoot
      /\ TypeOK /\ WalkInv /\ NodeInv /\ TreeInv /\ DeviceInv
  BY Disjoint DEF IInv, MergeInv, ListInv, Roots
<1>2. near[n] = None /\ n \notin nodes /\ near[up[n]] # None
  BY <1>0, <1>1 DEF WalkInv, Unwalked, Reached, NodeInv
<1>3. PICK x \in {None, n, near[up[n]]} :
        near' = [near EXCEPT ![n] = x] /\ nodes' = IF x = n THEN nodes \cup {n} ELSE nodes
  <2>1. CASE nodes' = nodes \cup {n} /\ near' = [near EXCEPT ![n] = n]
    BY <2>1
  <2>2. CASE near' = near /\ nodes' = nodes
    <3>1. near' = [near EXCEPT ![n] = None]
      BY <1>1, <1>2, <2>2 DEF TypeOK
    <3> QED
      BY <1>1, <2>2, <3>1
  <2>3. CASE near' = [near EXCEPT ![n] = near[up[n]]] /\ nodes' = nodes
    <3>1. near[up[n]] # n
      <4>1. up[n] \in DtNodes \cup {DtRoot}
        BY <1>1 DEF WalkInv, UpOK
      <4>2. near[near[up[n]]] = near[up[n]]
        BY <1>1, <1>2, <4>1, Disjoint DEF WalkInv, NearInv
      <4> QED
        BY <1>1, <1>2, <4>2
    <3> QED
      BY <2>3, <3>1
  <2> QED
    BY <2>1, <2>2, <2>3 DEF FindNode
<1>4. /\ WalkInv' /\ near'[n] = x
      /\ \A c \in Comps \cup Roots : c # n => near'[c] = near[c]
      /\ \A c \in Comps : near[up[c]] # None => near'[up[c]] = near[up[c]]
  BY <1>0, <1>1, <1>3, WalkStep DEF TypeOK
<1>5. Members' = Members
  BY <1>0 DEF Members, Listed, InTree
<1>6. TypeOK'
  <2>1. near' \in [Comps \cup Roots -> Comps \cup Roots \cup {None}]
    BY <1>1, <1>3 DEF TypeOK, WalkInv, UpOK
  <2> QED
    BY <1>0, <1>1, <1>3, <2>1 DEF TypeOK
<1>7. \A d \in SysDirs : near'[d] = near[d] /\ near'[up[d]] = near[up[d]]
  <2>1. \A d \in SysDirs : d # n /\ up[d] # n /\ d \in Comps /\ up[d] \in Comps \cup Roots
    BY <1>1, Disjoint DEF WalkInv, UpOK, Roots
  <2> QED
    BY <1>4, <2>1
<1>8. ListInv'
  BY <1>0, <1>1, <1>5, <1>7, <1>4 DEF ListInv, DeviceInv, DuplicatesInv
<1>9. MergeInv'
  BY <1>0, <1>1, <1>2, <1>3, <1>4, <1>5 DEF IInv, MergeInv, NodeInv, MovedInv, Done, Dead, Merging
<1>10. KidsInv'
  <2>1. \A c \in Members : c \in SysDirs /\ StandsAbove(c) = near[up[c]]
    <3>1. \A c \in Members : c \in SysDirs
      BY <1>0, <1>1, Disjoint DEF NodeInv, Members, Listed, InTree
    <3> QED
      BY <1>1, <3>1, AboveDevice
  <2>2. \A c \in Members : StandsAbove(c)' = near[up[c]]
    <3>1. NodeInv'
      BY <1>9 DEF MergeInv
    <3>2. \A c \in SysDirs : near'[up[c]] # DtRoot /\ near'[up[c]] \notin nodes'
      <4>1. \A c \in SysDirs : near[up[c]] \in SysDirs \cup {SysRoot, None}
        BY <1>1, DeviceAbove
      <4> QED
        BY <1>7, <3>1, <4>1, Disjoint DEF NodeInv, Roots
    <3>3. \A c \in SysDirs : StandsAbove(c)' = near'[up[c]]
      BY <1>0, <3>2 DEF StandsAbove
    <3> QED
      BY <1>7, <2>1, <3>3
  <2> QED
    BY <1>0, <1>5, <2>1, <2>2 DEF IInv, KidsInv, Merging
<1>11. TreeInv'
  BY <1>0, <1>1 DEF TreeInv
<1> QED
  BY <1>4, <1>6, <1>8, <1>9, <1>10, <1>11 DEF IInv

LEMMA DetermineTreeInv ==
  ASSUME IInv, DetermineTree
  PROVE  IInv'
<1>0. /\ phase = "devtree" /\ phase' = "mark" /\ visited' = {}
      /\ UNCHANGED <<up, near, list, nodes, ofNode, self, tree>>
  BY DEF DetermineTree, Goto
<1>1. TypeOK /\ WalkInv /\ NodeInv /\ TreeInv /\ DeviceInv
  BY DEF IInv, MergeInv, ListInv
<1>2. Members' = Members /\ \A c : StandsAbove(c)' = StandsAbove(c)
  BY <1>0 DEF Members, Listed, InTree, StandsAbove, Dead
<1>3. \A c \in Comps : mParent'[c] = IF c \in nodes THEN near[up[c]] ELSE mParent[c]
  BY DEF DetermineTree
<1>4. \A n \in nodes : n \in DtNodes /\ n \in Comps /\ near[up[n]] \in nodes \cup {DtRoot} /\ near[up[n]] # None
  BY <1>1, NodeAbove, Disjoint DEF NodeInv, Roots
<1>5. TypeOK'
  <2>1. mParent' \in [Comps -> Comps \cup Roots \cup {None}]
    BY <1>1, <1>4 DEF DetermineTree, TypeOK, Roots
  <2>2. kids' \in [Comps \cup Roots -> SUBSET Comps]
    BY <1>1, <1>4 DEF DetermineTree, TypeOK
  <2>3. \A c \in Comps : list[c] > 0 => mParent'[c] # None
    BY <1>1, <1>3, <1>4, Disjoint DEF TypeOK
  <2> QED
    BY <1>0, <1>1, <2>1, <2>2, <2>3 DEF TypeOK, Phases
<1>6. WalkInv'
  BY <1>0, <1>1, WalkKept
<1>7. ListInv'
  <2>1. \A d \in SysDirs : mParent'[d] = mParent[d]
    BY <1>1, <1>3, Disjoint DEF NodeInv
  <2> QED
    BY <1>0, <1>1, <1>2, <2>1 DEF ListInv, DeviceInv, DuplicatesInv
<1>8. MergeInv'
  <2>1. \A n \in nodes : mParent'[n] = near[up[n]] /\ near[up[n]] # None
    BY <1>1, <1>3, <1>4, Disjoint
  <2> QED
    BY <1>0, <1>1, <1>2, <2>1 DEF IInv, MergeInv, NodeInv, MovedInv, Done, Dead, Merging
<1>9. KidsInv'
  <2>1. \A p \in SysDirs \cup {SysRoot} : kids'[p] = kids[p]
    BY <1>1, Disjoint DEF DetermineTree, NodeInv, Roots
  <2>2. \A p \in nodes : kids'[p] = {n \in nodes : near[up[n]] = p}
    BY <1>4 DEF DetermineTree
  <2> QED
    BY <1>0, <1>2, <2>1, <2>2 DEF IInv, KidsInv, Done, Merging
<1>10. TreeInv'
  BY <1>0, <1>1 DEF TreeInv
<1> QED
  BY <1>5, <1>6, <1>7, <1>8, <1>9, <1>10 DEF IInv

LEMMA MarkDeadInv ==
  ASSUME IInv, MarkDead
  PROVE  IInv'
<1>0. /\ phase = "mark" /\ phase' = "merge" /\ visited' = {}
      /\ UNCHANGED <<up, near, list, nodes, mParent, kids, ofNode, tree>>
  BY DEF MarkDead, Goto
<1>1. TypeOK /\ WalkInv /\ NodeInv /\ TreeInv /\ DeviceInv /\ KidsInv
  BY DEF IInv, MergeInv, ListInv
<1>2. Members' = Members /\ Members = Listed
  BY <1>0, <1>1 DEF Members, Listed, InTree, TreeInv
<1>3. /\ self' \in [DtNodes -> SysDirs \cup {None}]
      /\ \A n \in DtNodes : self'[n] # None => n \in nodes /\ self'[n] \in SysDirs \cap Members
  BY <1>2 DEF MarkDead, Claimants
<1>4. TypeOK'
  BY <1>0, <1>1, <1>3 DEF TypeOK, Phases
<1>5. WalkInv'
  BY <1>0, <1>1, WalkKept
<1>6. ListInv' /\ TreeInv'
  BY <1>0, <1>1, <1>2 DEF ListInv, DeviceInv, DuplicatesInv, TreeInv
<1>7. MergeInv'
  BY <1>0, <1>1, <1>2, <1>3 DEF MergeInv, NodeInv, MovedInv, Done, Dead, Merging
<1>8. KidsInv'
  <2>1. \A c \in Members : c \in SysDirs
    BY <1>0, <1>1, <1>2, Disjoint DEF NodeInv, Listed
  <2>2. \A c \in SysDirs : StandsAbove(c)' = StandsAbove(c)
    <3>1. \A c \in SysDirs : near[up[c]] # DtRoot /\ near[up[c]] \notin nodes
      <4>1. \A c \in SysDirs : near[up[c]] \in SysDirs \cup {SysRoot, None}
        BY <1>1, DeviceAbove
      <4> QED
        BY <1>1, <4>1, Disjoint DEF NodeInv, Roots
    <3> QED
      BY <1>0, <3>1 DEF StandsAbove
  <2> QED
    BY <1>0, <1>1, <1>2, <2>1, <2>2 DEF KidsInv, Done, Merging
<1> QED
  BY <1>4, <1>5, <1>6, <1>7, <1>8 DEF IInv

-----------------------------------------------------------------------------
(* mergeTrees.                                                             *)

\* What transferChildren finds below children that mergeTrees is done with:
\* living nodes it has not moved yet, and with each all that is below it.
LEMMA BelowFresh ==
  ASSUME IInv, phase = "merge", NEW n \in nodes, n \notin visited, kids[n] \subseteq visited
  PROVE  LET S == Alive(kids[n]) IN
         /\ S = {c \in nodes : near[up[c]] = n /\ ~Dead(c)}
         /\ S \subseteq Below(S)
         /\ \A c \in Below(S) : /\ c \in nodes /\ c \in visited /\ ~Dead(c) /\ c \notin Members
                                /\ c \in S \/ near[up[c]] \in Below(S)
         /\ \A c \in nodes : near[up[c]] \in Below(S) /\ ~Dead(c) => c \in Below(S)
<1> DEFINE S == Alive(kids[n])
<1> DEFINE B == Below(S)
<1>0. NodeInv /\ MovedInv /\ KidsInv /\ Done = visited /\ nodes \subseteq DtNodes
  BY DEF IInv, MergeInv, NodeInv, Done
<1>1. /\ S = {c \in nodes : near[up[c]] = n /\ ~Dead(c)}
      /\ S \subseteq visited /\ S \subseteq nodes
  BY <1>0 DEF KidsInv, Alive, Merging
<1>2. \A p \in visited : p \in nodes /\ kids[p] = {c \in nodes : near[up[c]] = p /\ ~Dead(c)} /\ kids[p] \subseteq visited
  BY <1>0 DEF KidsInv, MovedInv, Merging
<1>3. S \subseteq B /\ B \subseteq nodes
  BY <1>1 DEF Below
<1>4. \A T \in SUBSET nodes : S \subseteq T /\ (\A x \in T : kids[x] \subseteq T) => B \subseteq T
  BY DEF Below
<1>5. \A c \in B : kids[c] \subseteq B
  <2>1. TAKE c \in B
  <2>2. ASSUME NEW x \in kids[c], NEW T \in SUBSET nodes, S \subseteq T, \A y \in T : kids[y] \subseteq T
        PROVE  x \in T
    BY <1>4, <2>2
  <2>3. kids[c] \subseteq nodes
    BY <1>0, <1>3 DEF KidsInv, Merging
  <2> QED
    BY <2>2, <2>3 DEF Below
<1>6. \A c \in B : c \in visited /\ ~Dead(c) /\ c \notin Members
  <2> DEFINE T == {c \in visited : ~Dead(c) /\ c \notin Members}
  <2>1. T \in SUBSET nodes
    BY <1>2
  <2>2. ASSUME NEW c \in S PROVE c \in T
    <3>2. c \in nodes /\ c \in visited /\ near[up[c]] = n /\ ~Dead(c)
      BY <1>1
    <3>3. n \notin Members /\ n # DtRoot
      BY <1>0, Disjoint DEF MovedInv, Roots
    <3>4. c \notin Members
      BY <1>0, <3>2, <3>3 DEF MovedInv
    <3> QED
      BY <3>2, <3>4
  <2>3. ASSUME NEW x \in T, NEW c \in kids[x] PROVE c \in T
    <3>3. c \in visited /\ ~Dead(c) /\ near[up[c]] = x /\ x \in nodes
      BY <1>2
    <3>4. x # DtRoot /\ x \notin Members /\ ~Dead(x)
      BY <1>0, <3>3, Disjoint DEF Roots
    <3>5. c \notin Members
      BY <1>0, <3>3, <3>4 DEF MovedInv
    <3> QED
      BY <3>3, <3>5
  <2>4. B \subseteq T
    BY <1>4, <2>1, <2>2, <2>3
  <2> QED
    BY <2>4
<1>7. \A c \in B : c \in S \/ near[up[c]] \in B
  <2> DEFINE T == {c \in B : c \in S \/ near[up[c]] \in B}
  <2>1. T \in SUBSET nodes /\ S \subseteq T
    BY <1>3
  <2>2. ASSUME NEW x \in T, NEW c \in kids[x] PROVE c \in T
    <3>1. c \in B
      BY <1>5
    <3>2. near[up[c]] = x
      BY <1>2, <1>6
    <3> QED
      BY <3>1, <3>2
  <2> QED
    BY <1>4, <2>1, <2>2
<1>8. \A c \in nodes : near[up[c]] \in B /\ ~Dead(c) => c \in B
  <2>1. ASSUME NEW c \in nodes, near[up[c]] \in B, ~Dead(c) PROVE c \in B
    <3>1. c \in kids[near[up[c]]]
      BY <1>2, <1>6, <2>1
    <3> QED
      BY <1>5, <2>1, <3>1
  <2> QED
    BY <2>1
<1> QED
  BY <1>1, <1>3, <1>6, <1>7, <1>8

\* What a call of mergeTrees changes beside the children: the components it
\* pushes, none of them pushed before, and the parent of its node.
LEMMA MoveStep ==
  ASSUME IInv, NEW n \in DtNodes, NextNode(n), phase = "merge", phase' = phase,
         NEW Q \in SUBSET nodes, \A c \in Q : c \in visited' /\ ~Dead(c) /\ c \notin Members, Push(Q),
         NEW m \in Comps \cup Roots, mParent' = [mParent EXCEPT ![n] = m],
         kids' \in [Comps \cup Roots -> SUBSET Comps]
  PROVE  /\ TypeOK' /\ WalkInv' /\ ListInv' /\ NodeInv' /\ TreeInv'
         /\ Members' = Members \cup Q /\ Members = Listed /\ Done = visited /\ Done' = visited \cup {n}
         /\ \A c : StandsAbove(c)' = StandsAbove(c)
<1>0. /\ n \in nodes \ visited /\ visited' = visited \cup {n}
      /\ UNCHANGED <<up, near, nodes, ofNode, self, tree>>
  BY DEF NextNode
<1>1. TypeOK /\ WalkInv /\ NodeInv /\ TreeInv /\ DeviceInv /\ n \in Comps /\ n \notin SysDirs
      /\ m # None /\ \A c \in Q : c \in Comps /\ c \notin SysDirs
  BY Disjoint DEF IInv, MergeInv, ListInv, NodeInv, Roots
<1>2. /\ Members = Listed /\ Members' = Listed' /\ Done = visited /\ Done' = visited'
      /\ \A c : StandsAbove(c)' = StandsAbove(c)
  BY <1>0, <1>1 DEF Members, Listed, InTree, TreeInv, StandsAbove, Dead, Done
<1>3. \A c \in Comps : list'[c] = IF c \in Q THEN 1 ELSE list[c]
  BY <1>1, <1>2 DEF Push, Members, Listed, TreeInv, TypeOK
<1>4. Members' = Members \cup Q
  BY <1>1, <1>2, <1>3 DEF Listed
<1>5. TypeOK'
  <2>1. list' \in [Comps -> Nat] /\ mParent' \in [Comps -> Comps \cup Roots \cup {None}] /\ visited' \subseteq Comps
    BY <1>0, <1>1 DEF Push, TypeOK
  <2>2. \A c \in Comps : list'[c] > 0 => mParent'[c] # None
    <3>1. \A c \in Q : mParent[c] # None
      BY <1>1 DEF NodeInv, Merging
    <3> QED
      BY <1>1, <1>3, <3>1 DEF TypeOK
  <2> QED
    BY <1>0, <1>1, <2>1, <2>2 DEF TypeOK
<1>6. WalkInv'
  BY <1>0, <1>1, WalkKept
<1>7. ListInv'
  <2>1. \A d \in SysDirs : mParent'[d] = mParent[d] /\ (d \in Members' <=> d \in Members)
    BY <1>1, <1>4, Disjoint DEF TypeOK
  <2> QED
    BY <1>0, <1>1, <2>1 DEF ListInv, DeviceInv, DuplicatesInv
<1>8. NodeInv'
  <2>1. \A c \in nodes : mParent'[c] # None /\ (c \notin visited' => mParent'[c] = near[up[c]])
    BY <1>0, <1>1, <1>2, Disjoint DEF NodeInv, TypeOK, Merging
  <2> QED
    BY <1>0, <1>1, <1>2, <1>4, <2>1 DEF NodeInv, Dead
<1>9. TreeInv'
  BY <1>0, <1>1, <1>2, <1>3 DEF TreeInv
<1> QED
  BY <1>0, <1>2, <1>4, <1>5, <1>6, <1>7, <1>8, <1>9

LEMMA MergeDeadInv ==
  ASSUME IInv, NEW n \in DtNodes, MergeDead(n)
  PROVE  IInv'
<1> DEFINE S == Alive(kids[n])
<1> DEFINE B == Below(S)
<1>0. /\ phase = "merge" /\ n \in nodes /\ n \notin visited /\ kids[n] \subseteq visited
      /\ visited' = visited \cup {n} /\ Dead(n) /\ NextNode(n)
      /\ UNCHANGED <<up, near, nodes, ofNode, self, tree>>
  BY DEF MergeDead, NextNode
<1>1. TypeOK /\ WalkInv /\ NodeInv /\ MovedInv /\ KidsInv /\ TreeInv /\ DeviceInv
  BY DEF IInv, MergeInv, ListInv
<1>2. /\ S = {c \in nodes : near[up[c]] = n /\ ~Dead(c)}
      /\ S \subseteq B
      /\ \A c \in B : /\ c \in nodes /\ c \in visited /\ ~Dead(c) /\ c \notin Members
                      /\ c \in S \/ near[up[c]] \in B
      /\ \A c \in nodes : near[up[c]] \in B /\ ~Dead(c) => c \in B
  BY <1>0, BelowFresh
<1>3. /\ self[n] \in SysDirs \cap Members /\ n \in Comps /\ n \notin SysDirs /\ self[n] \notin DtNodes
      /\ self[n] \in Comps /\ self[n] # SysRoot
  BY <1>0, <1>1, Disjoint DEF NodeInv, Roots
<1>4. mParent[self[n]] \in Listed \cup {SysRoot}
  <2>1. Members = Listed
    BY <1>0, <1>1 DEF Members, Listed, InTree, TreeInv
  <2> QED
    BY <1>1, <1>3, <2>1 DEF DeviceInv
<1>5. /\ Push(B) /\ phase' = phase /\ mParent' = [mParent EXCEPT ![n] = mParent[self[n]]]
      /\ kids' = [kids EXCEPT ![n] = S, ![self[n]] = @ \cup S]
  BY <1>4 DEF MergeDead, Transfer, Alive
<1>6. /\ kids' \in [Comps \cup Roots -> SUBSET Comps]
      /\ kids'[n] = S /\ kids'[self[n]] = kids[self[n]] \cup S
      /\ \A p \in Comps \cup Roots : p \notin {n, self[n]} => kids'[p] = kids[p]
  <2>1. S \subseteq Comps
    BY <1>1, <1>2, Disjoint DEF NodeInv
  <2> QED
    BY <1>1, <1>3, <1>5, <2>1 DEF TypeOK
<1>7. mParent[self[n]] \in Comps \cup Roots
  BY <1>4 DEF Listed, Roots
<1>8. /\ TypeOK' /\ WalkInv' /\ ListInv' /\ NodeInv' /\ TreeInv'
      /\ Members' = Members \cup B /\ Done = visited /\ Done' = visited \cup {n}
      /\ \A c : StandsAbove(c)' = StandsAbove(c)
  <2>1. B \in SUBSET nodes /\ \A c \in B : c \in visited' /\ ~Dead(c) /\ c \notin Members
    BY <1>0, <1>2
  <2>2. \A Q \in SUBSET nodes : (\A c \in Q : c \in visited' /\ ~Dead(c) /\ c \notin Members) /\ Push(Q) =>
          /\ TypeOK' /\ WalkInv' /\ ListInv' /\ NodeInv' /\ TreeInv'
          /\ Members' = Members \cup Q /\ Done = visited /\ Done' = visited \cup {n}
          /\ \A c : StandsAbove(c)' = StandsAbove(c)
    BY <1>0, <1>5, <1>6, <1>7, MoveStep
  <2> QED
    BY <1>5, <2>1, <2>2
<1>9. MovedInv'
  <2>1. \A p \in Done', c \in nodes : near[up[c]] = p => c \in Done'
    <3>1. \A c \in nodes : near[up[c]] = n => c \in visited
      BY <1>0, <1>1, <1>8 DEF KidsInv, Merging
    <3> QED
      BY <1>1, <1>8, <3>1 DEF MovedInv
  <2>2. \A c \in DtNodes \cap Members' : c \in Done' /\ ~Dead(c)
    BY <1>1, <1>2, <1>8 DEF MovedInv
  <2>3. ASSUME NEW c \in Done', ~Dead(c)
        PROVE  c \in Members' <=> \/ near[up[c]] = DtRoot \/ near[up[c]] \in Members'
                                  \/ near[up[c]] \in Done' /\ Dead(near[up[c]])
    <3>1. c \in Done /\ c \in nodes
      BY <1>0, <1>1, <1>8, <2>3 DEF MovedInv
    <3>2. c \in Members <=> \/ near[up[c]] = DtRoot \/ near[up[c]] \in Members
                            \/ near[up[c]] \in Done /\ Dead(near[up[c]])
      BY <1>1, <2>3, <3>1 DEF MovedInv
    <3>3. c \in B => near[up[c]] = n \/ near[up[c]] \in B
      BY <1>2
    <3>4. near[up[c]] = n \/ near[up[c]] \in B => c \in B
      BY <1>2, <2>3, <3>1
    <3> QED
      BY <1>0, <1>8, <3>2, <3>3, <3>4
  <2> QED
    BY <1>0, <1>1, <1>8, <2>1, <2>2, <2>3 DEF MovedInv, Dead
<1>10. KidsInv'
  <2>1. \A c \in B : IF c \in S THEN StandsAbove(c) = self[n] ELSE StandsAbove(c) \in nodes
    <3>1. TAKE c \in B
    <3>2. CASE c \in S
      <4>1. c \in nodes /\ near[up[c]] = n
        BY <1>2, <3>2
      <4> QED
        BY <1>0, <1>1, <3>2, <4>1, AboveNode
    <3>3. CASE c \notin S
      <4>1. c \in nodes /\ near[up[c]] \in nodes /\ ~Dead(near[up[c]])
        BY <1>2, <3>3
      <4> QED
        BY <1>1, <3>3, <4>1, AboveNode
    <3> QED
      BY <3>2, <3>3
  <2>2. ASSUME NEW p \in SysDirs \cup {SysRoot}
        PROVE  kids'[p] = {c \in Members' : StandsAbove(c) = p}
    <3>1. p \notin nodes /\ p # n /\ p \in Comps \cup Roots
      BY <1>0, <1>1, Disjoint DEF NodeInv, Roots
    <3>2. kids[p] = {c \in Members : StandsAbove(c) = p}
      BY <1>0, <1>1 DEF KidsInv
    <3>3. kids'[p] = IF p = self[n] THEN kids[p] \cup S ELSE kids[p]
      BY <1>6, <3>1
    <3> QED
      BY <1>2, <1>8, <2>1, <3>1, <3>2, <3>3
  <2>3. ASSUME NEW p \in nodes
        PROVE  kids'[p] = {c \in nodes : near[up[c]] = p /\ (p \in Done' => ~Dead(c))}
    <3>1. p # self[n] /\ p \in Comps
      BY <1>1, <1>3, Disjoint DEF NodeInv
    <3>2. kids[p] = {c \in nodes : near[up[c]] = p /\ (p \in Done => ~Dead(c))}
      BY <1>0, <1>1 DEF KidsInv, Merging
    <3> QED
      BY <1>2, <1>6, <1>8, <3>1, <3>2
  <2> QED
    BY <1>0, <1>5, <1>8, <2>2, <2>3 DEF KidsInv, Merging, Dead
<1> QED
  BY <1>8, <1>9, <1>10 DEF IInv, MergeInv

LEMMA MergeTopInv ==
  ASSUME IInv, NEW n \in DtNodes, MergeTop(n)
  PROVE  IInv'
<1> DEFINE S == Alive(kids[n])
<1> DEFINE B == Below(S)
<1> DEFINE Q == {n} \cup B
<1>0. /\ phase = "merge" /\ n \in nodes /\ n \notin visited /\ kids[n] \subseteq visited
      /\ visited' = visited \cup {n} /\ ~Dead(n) /\ mParent[n] = DtRoot /\ NextNode(n) /\ phase' = phase
      /\ mParent' = [mParent EXCEPT ![n] = SysRoot]
      /\ kids' = [kids EXCEPT ![n] = S, ![SysRoot] = @ \cup {n}] /\ Push(Q)
      /\ UNCHANGED <<up, near, nodes, ofNode, self, tree>>
  BY DEF MergeTop, NextNode, Alive
<1>1. TypeOK /\ WalkInv /\ NodeInv /\ MovedInv /\ KidsInv /\ TreeInv /\ DeviceInv
  BY DEF IInv, MergeInv, ListInv
<1>2. /\ S = {c \in nodes : near[up[c]] = n /\ ~Dead(c)}
      /\ S \subseteq B
      /\ \A c \in B : /\ c \in nodes /\ c \in visited /\ ~Dead(c) /\ c \notin Members
                      /\ c \in S \/ near[up[c]] \in B
      /\ \A c \in nodes : near[up[c]] \in B /\ ~Dead(c) => c \in B
  BY <1>0, BelowFresh
<1>3. /\ n \in Comps /\ n \notin SysDirs /\ n # SysRoot /\ n # DtRoot /\ near[up[n]] = DtRoot /\ n \notin Members
      /\ n \notin B
  <2>1. n \notin Done
    BY <1>0 DEF Done
  <2> QED
    BY <1>0, <1>1, <1>2, <2>1, Disjoint DEF NodeInv, MovedInv, Roots, Merging
<1>4. /\ kids' \in [Comps \cup Roots -> SUBSET Comps]
      /\ kids'[n] = S /\ kids'[SysRoot] = kids[SysRoot] \cup {n}
      /\ \A p \in Comps \cup Roots : p \notin {n, SysRoot} => kids'[p] = kids[p]
  <2>1. S \subseteq Comps
    BY <1>1, <1>2, Disjoint DEF NodeInv
  <2> QED
    BY <1>0, <1>1, <1>3, <2>1 DEF TypeOK, Roots
<1>5. /\ TypeOK' /\ WalkInv' /\ ListInv' /\ NodeInv' /\ TreeInv'
      /\ Members' = Members \cup Q /\ Done = visited /\ Done' = visited \cup {n}
      /\ \A c : StandsAbove(c)' = StandsAbove(c)
  <2>1. Q \in SUBSET nodes /\ \A c \in Q : c \in visited' /\ ~Dead(c) /\ c \notin Members
    BY <1>0, <1>2, <1>3
  <2>2. \A R \in SUBSET nodes : (\A c \in R : c \in visited' /\ ~Dead(c) /\ c \notin Members) /\ Push(R) =>
          /\ TypeOK' /\ WalkInv' /\ ListInv' /\ NodeInv' /\ TreeInv'
          /\ Members' = Members \cup R /\ Done = visited /\ Done' = visited \cup {n}
          /\ \A c : StandsAbove(c)' = StandsAbove(c)
    <3>1. SysRoot \in Comps \cup Roots
      BY DEF Roots
    <3> QED
      BY <1>0, <1>4, <3>1, MoveStep
  <2> QED
    BY <1>0, <2>1, <2>2
<1>6. MovedInv'
  <2>1. \A p \in Done', c \in nodes : near[up[c]] = p => c \in Done'
    <3>1. \A c \in nodes : near[up[c]] = n => c \in visited
      BY <1>0, <1>1, <1>5 DEF KidsInv, Merging
    <3> QED
      BY <1>1, <1>5, <3>1 DEF MovedInv
  <2>2. \A c \in DtNodes \cap Members' : c \in Done' /\ ~Dead(c)
    BY <1>0, <1>1, <1>2, <1>5 DEF MovedInv
  <2>3. ASSUME NEW c \in Done', ~Dead(c)
        PROVE  c \in Members' <=> \/ near[up[c]] = DtRoot \/ near[up[c]] \in Members'
                                  \/ near[up[c]] \in Done' /\ Dead(near[up[c]])
    <3>1. CASE c = n
      BY <1>3, <1>5, <3>1
    <3>2. CASE c # n
      <4>1. c \in Done /\ c \in nodes
        BY <1>0, <1>1, <1>5, <2>3, <3>2 DEF MovedInv
      <4>2. c \in Members <=> \/ near[up[c]] = DtRoot \/ near[up[c]] \in Members
                              \/ near[up[c]] \in Done /\ Dead(near[up[c]])
        BY <1>1, <2>3, <4>1 DEF MovedInv
      <4>3. c \in B => near[up[c]] = n \/ near[up[c]] \in B
        BY <1>2
      <4>4. near[up[c]] = n \/ near[up[c]] \in B => c \in B
        BY <1>2, <2>3, <4>1
      <4> QED
        BY <1>0, <1>5, <3>2, <4>2, <4>3, <4>4
    <3> QED
      BY <3>1, <3>2
  <2> QED
    BY <1>0, <1>1, <1>5, <2>1, <2>2, <2>3 DEF MovedInv, Dead
<1>7. KidsInv'
  <2>1. StandsAbove(n) = SysRoot /\ \A c \in B : StandsAbove(c) \in nodes
    <3>1. StandsAbove(n) = SysRoot
      BY <1>0, <1>1, <1>3, AboveNode
    <3>2. ASSUME NEW c \in B PROVE StandsAbove(c) \in nodes
      <4>1. c \in nodes /\ near[up[c]] \in nodes /\ ~Dead(near[up[c]])
        BY <1>0, <1>2
      <4> QED
        BY <1>1, <4>1, AboveNode
    <3> QED
      BY <3>1, <3>2
  <2>2. ASSUME NEW p \in SysDirs \cup {SysRoot}
        PROVE  kids'[p] = {c \in Members' : StandsAbove(c) = p}
    <3>1. p \notin nodes /\ p # n /\ p \in Comps \cup Roots
      BY <1>0, <1>1, Disjoint DEF NodeInv, Roots
    <3>2. kids[p] = {c \in Members : StandsAbove(c) = p}
      BY <1>0, <1>1 DEF KidsInv
    <3>3. kids'[p] = IF p = SysRoot THEN kids[p] \cup {n} ELSE kids[p]
      BY <1>4, <3>1
    <3> QED
      BY <1>5, <2>1, <3>1, <3>2, <3>3
  <2>3. ASSUME NEW p \in nodes
        PROVE  kids'[p] = {c \in nodes : near[up[c]] = p /\ (p \in Done' => ~Dead(c))}
    <3>1. p # SysRoot /\ p \in Comps
      BY <1>1, Disjoint DEF NodeInv, Roots
    <3>2. kids[p] = {c \in nodes : near[up[c]] = p /\ (p \in Done => ~Dead(c))}
      BY <1>0, <1>1 DEF KidsInv, Merging
    <3> QED
      BY <1>2, <1>4, <1>5, <3>1, <3>2
  <2> QED
    BY <1>0, <1>5, <2>2, <2>3 DEF KidsInv, Merging, Dead
<1> QED
  BY <1>5, <1>6, <1>7 DEF IInv, MergeInv

LEMMA MergeInnerInv ==
  ASSUME IInv, NEW n \in DtNodes, MergeInner(n)
  PROVE  IInv'
<1> DEFINE S == Alive(kids[n])
<1>0. /\ phase = "merge" /\ n \in nodes /\ n \notin visited /\ kids[n] \subseteq visited
      /\ visited' = visited \cup {n} /\ ~Dead(n) /\ mParent[n] # DtRoot /\ NextNode(n) /\ phase' = phase
      /\ mParent' = mParent /\ list' = list /\ kids' = [kids EXCEPT ![n] = S]
      /\ UNCHANGED <<up, near, nodes, ofNode, self, tree>>
  BY DEF MergeInner, NextNode, Alive
<1>1. TypeOK /\ WalkInv /\ NodeInv /\ MovedInv /\ KidsInv /\ TreeInv /\ DeviceInv /\ n \in Comps
  BY Disjoint DEF IInv, MergeInv, ListInv
<1>2. /\ Members' = Members /\ Done = visited /\ Done' = visited \cup {n}
      /\ \A c : StandsAbove(c)' = StandsAbove(c)
  BY <1>0 DEF Members, Listed, InTree, StandsAbove, Dead, Done
<1>3. S = {c \in nodes : near[up[c]] = n /\ ~Dead(c)} /\ S \subseteq Comps
  BY <1>0, <1>1, <1>2, Disjoint DEF KidsInv, Alive, Merging, NodeInv
<1>4. near[up[n]] \in nodes /\ near[up[n]] # DtRoot /\ near[up[n]] \notin Done /\ n \notin Members
  <2>1. mParent[n] = near[up[n]] /\ near[up[n]] # DtRoot
    BY <1>0, <1>1, <1>2 DEF NodeInv, Merging
  <2>2. near[up[n]] \in nodes
    BY <1>0, <1>1, <2>1, NodeAbove
  <2> QED
    BY <1>0, <1>1, <1>2, <2>1, <2>2 DEF MovedInv
<1>5. TypeOK'
  BY <1>0, <1>1, <1>3 DEF TypeOK
<1>6. WalkInv'
  BY <1>0, <1>1, WalkKept
<1>7. ListInv' /\ TreeInv'
  BY <1>0, <1>1, <1>2 DEF ListInv, DeviceInv, DuplicatesInv, TreeInv
<1>8. NodeInv'
  BY <1>0, <1>1, <1>2 DEF NodeInv, Dead, Merging
<1>9. MovedInv'
  <2>1. \A p \in Done', c \in nodes : near[up[c]] = p => c \in Done'
    <3>1. \A c \in nodes : near[up[c]] = n => c \in visited
      BY <1>0, <1>1, <1>2 DEF KidsInv, Merging
    <3> QED
      BY <1>1, <1>2, <3>1 DEF MovedInv
  <2>2. ASSUME NEW c \in Done', ~Dead(c)
        PROVE  c \in Members' <=> \/ near[up[c]] = DtRoot \/ near[up[c]] \in Members'
                                  \/ near[up[c]] \in Done' /\ Dead(near[up[c]])
    <3>1. CASE c = n
      <4>1. near[up[n]] # n
        <5>1. near[up[n]] = n => n \in Done
          BY <1>0, <1>1, <1>2 DEF KidsInv, Merging
        <5> QED
          BY <1>0, <1>2, <5>1
      <4>2. near[up[n]] \notin Members /\ near[up[n]] \notin Done'
        BY <1>1, <1>2, <1>4, <4>1 DEF MovedInv, NodeInv
      <4> QED
        BY <1>2, <1>4, <3>1, <4>2
    <3>2. CASE c # n
      BY <1>0, <1>1, <1>2, <1>4, <2>2, <3>2 DEF MovedInv
    <3> QED
      BY <3>1, <3>2
  <2> QED
    BY <1>0, <1>1, <1>2, <2>1, <2>2 DEF MovedInv, Dead
<1>10. KidsInv'
  <2>1. ASSUME NEW p \in SysDirs \cup {SysRoot}
        PROVE  kids'[p] = kids[p]
    BY <1>0, <1>1, Disjoint DEF TypeOK, Roots
  <2>2. ASSUME NEW p \in nodes
        PROVE  kids'[p] = {c \in nodes : near[up[c]] = p /\ (p \in Done' => ~Dead(c))}
    <3>1. p \in Comps
      BY <1>1, Disjoint DEF NodeInv
    <3>2. kids[p] = {c \in nodes : near[up[c]] = p /\ (p \in Done => ~Dead(c))}
      BY <1>0, <1>1 DEF KidsInv, Merging
    <3>3. kids'[p] = IF p = n THEN S ELSE kids[p]
      BY <1>0, <1>1, <3>1 DEF TypeOK
    <3> QED
      BY <1>2, <1>3, <3>2, <3>3
  <2> QED
    BY <1>0, <1>1, <1>2, <2>1, <2>2 DEF KidsInv, Merging, Dead
<1> QED
  BY <1>5, <1>6, <1>7, <1>8, <1>9, <1>10 DEF IInv, MergeInv

LEMMA MergedInv ==
  ASSUME IInv, Merged
  PROVE  IInv'
<1>0. /\ phase = "merge" /\ phase' = "build" /\ nodes \subseteq visited /\ visited' = {}
      /\ UNCHANGED <<up, near, list, nodes, mParent, kids, ofNode, self, tree>>
  BY DEF Merged, Goto
<1>1. TypeOK /\ WalkInv /\ NodeInv /\ MovedInv /\ KidsInv /\ TreeInv /\ DeviceInv
  BY DEF IInv, MergeInv, ListInv
<1>2. Members' = Members /\ Done' = Done /\ Done = nodes /\ \A c : StandsAbove(c)' = StandsAbove(c)
  BY <1>0, <1>1 DEF Members, Listed, InTree, StandsAbove, Dead, Done, MovedInv
<1>3. TypeOK' /\ WalkInv'
  BY <1>0, <1>1, WalkKept DEF TypeOK, Phases
<1>4. ListInv' /\ TreeInv'
  BY <1>0, <1>1, <1>2 DEF ListInv, DeviceInv, DuplicatesInv, TreeInv, Listed
<1>5. MergeInv' /\ KidsInv'
  BY <1>0, <1>1, <1>2 DEF MergeInv, NodeInv, MovedInv, KidsInv, Merging, Dead
<1> QED
  BY <1>3, <1>4, <1>5 DEF IInv

-----------------------------------------------------------------------------
(* Gatherer::buildTree.                                                    *)

\* After the merge every living node is in the list, and no other.
LEMMA AllLiving ==
  ASSUME IInv, phase \in {"build", "done"}
  PROVE  \A n \in DtNodes : n \in Members <=> n \in nodes /\ ~Dead(n)
<1>1. WalkInv /\ NearInv /\ UpOK /\ NodeInv /\ MovedInv /\ Done = nodes
  BY DEF IInv, MergeInv, WalkInv, Done
<1> DEFINE T == {n \in nodes : ~Dead(n) /\ n \notin Members}
<1>2. T = {}
  <2>1. SUFFICES ASSUME T # {} PROVE FALSE
    OBVIOUS
  <2>2. T \in SUBSET Comps /\ \A c \in T : near[c] = c
    BY <1>1, Disjoint DEF NodeInv
  <2>3. PICK c \in T : near[up[c]] \notin T
    BY <1>1, <2>1, <2>2, NearestWellFounded
  <2>4. c \in nodes /\ near[up[c]] \in nodes \cup {DtRoot}
    BY <1>1, NodeAbove
  <2> QED
    BY <1>1, <2>3, <2>4 DEF MovedInv
<1> QED
  BY <1>1, <1>2 DEF MovedInv

\* The components are a forest below /sys/devices, and their children's lists say so.
LEMMA Forest ==
  ASSUME IInv, phase \in {"build", "done"}
  PROVE  /\ \A c \in Members : StandsAbove(c) \in Members \cup {SysRoot}
         /\ \A p \in Members \cup {SysRoot} : kids[p] = {c \in Members : StandsAbove(c) = p}
         /\ \A T \in SUBSET Members : T # {} => \E c \in T : StandsAbove(c) \notin T
<1>1. WalkInv /\ NearInv /\ UpOK /\ NodeInv /\ MovedInv /\ KidsInv /\ DeviceInv /\ Done = nodes
  BY DEF IInv, MergeInv, ListInv, WalkInv, Done
<1>2. \A n \in DtNodes : n \in Members <=> n \in nodes /\ ~Dead(n)
  BY AllLiving
<1>3. \A d \in SysDirs \cap Members : StandsAbove(d) = near[up[d]]
                                      /\ StandsAbove(d) \in (SysDirs \cap Members) \cup {SysRoot}
  <2>1. \A d \in SysDirs : StandsAbove(d) = near[up[d]]
    BY <1>1, AboveDevice
  <2> QED
    BY <1>1, <2>1 DEF DeviceInv
<1>4. \A n \in DtNodes \cap Members :
        /\ near[up[n]] = DtRoot => StandsAbove(n) = SysRoot
        /\ near[up[n]] \in nodes /\ Dead(near[up[n]]) => StandsAbove(n) \in SysDirs \cap Members
        /\ near[up[n]] \in nodes /\ ~Dead(near[up[n]]) => StandsAbove(n) = near[up[n]] /\ StandsAbove(n) \in Members
        /\ near[up[n]] \in nodes \cup {DtRoot} /\ n \in nodes
  <2>1. TAKE n \in DtNodes \cap Members
  <2>2. n \in nodes /\ near[up[n]] \in nodes \cup {DtRoot}
    BY <1>1, <1>2, NodeAbove
  <2>3. /\ near[up[n]] = DtRoot => StandsAbove(n) = SysRoot
        /\ near[up[n]] \in nodes /\ Dead(near[up[n]]) => StandsAbove(n) = self[near[up[n]]]
        /\ near[up[n]] \in nodes /\ ~Dead(near[up[n]]) => StandsAbove(n) = near[up[n]]
    BY <1>1, <2>2, AboveNode
  <2> QED
    BY <1>1, <1>2, <2>2, <2>3 DEF NodeInv
<1>5. \A c \in Members : c \in SysDirs \/ c \in DtNodes
  BY Disjoint DEF Members, Listed, InTree
<1>6. \A c \in Members : StandsAbove(c) \in Members \cup {SysRoot}
  BY <1>3, <1>4, <1>5
<1>7. ASSUME NEW p \in Members \cup {SysRoot}
      PROVE  kids[p] = {c \in Members : StandsAbove(c) = p}
  <2>1. CASE p \in SysDirs \cup {SysRoot}
    BY <1>1, <2>1 DEF KidsInv
  <2>2. CASE p \in DtNodes
    <3>1. p \in nodes /\ ~Dead(p) /\ p \notin SysDirs /\ p # DtRoot /\ p # SysRoot
      BY <1>2, <1>7, <2>2, Disjoint DEF Roots
    <3>2. kids[p] = {n \in nodes : near[up[n]] = p /\ ~Dead(n)}
      BY <1>1, <3>1 DEF KidsInv, Merging
    <3>3. ASSUME NEW c \in Members, StandsAbove(c) = p PROVE c \in kids[p]
      <4>1. c \in DtNodes
        BY <1>3, <1>5, <3>1, <3>3
      <4> QED
        BY <1>2, <1>4, <3>1, <3>2, <3>3, <4>1
    <3>4. ASSUME NEW c \in kids[p] PROVE c \in Members /\ StandsAbove(c) = p
      <4>1. c \in nodes /\ near[up[c]] = p /\ ~Dead(c)
        BY <3>2
      <4>2. c \in DtNodes /\ c \in Members
        BY <1>1, <1>2, <4>1 DEF NodeInv
      <4> QED
        BY <1>4, <3>1, <4>1, <4>2
    <3> QED
      BY <3>3, <3>4
  <2> QED
    BY <1>5, <1>7, <2>1, <2>2
<1>8. ASSUME NEW T \in SUBSET Members, T # {}
      PROVE  \E c \in T : StandsAbove(c) \notin T
  <2>0. T \subseteq Comps /\ \A c \in T : near[c] = c
    BY <1>1, <1>2, <1>5, Disjoint DEF DeviceInv, NodeInv
  <2>1. CASE T \cap SysDirs # {}
    <3>1. PICK d \in T \cap SysDirs : near[up[d]] \notin T \cap SysDirs
      BY <1>1, <2>0, <2>1, NearestWellFounded
    <3>2. StandsAbove(d) \in SysDirs \cup {SysRoot}
      BY <1>3, <3>1
    <3>3. StandsAbove(d) \notin T
      BY <1>3, <2>0, <3>1, <3>2, Disjoint
    <3> QED
      BY <3>1, <3>3
  <2>2. CASE T \cap SysDirs = {}
    <3>1. PICK n \in T : near[up[n]] \notin T
      BY <1>1, <1>8, <2>0, NearestWellFounded
    <3>2. n \in DtNodes \cap Members
      BY <1>5, <2>2, <3>1
    <3>3. StandsAbove(n) \in {SysRoot, near[up[n]]} \cup SysDirs
      BY <1>4, <3>2
    <3> QED
      BY <2>0, <2>2, <3>1, <3>3, Disjoint
  <2> QED
    BY <2>1, <2>2
<1> QED
  BY <1>6, <1>7, <1>8

LEMMA AttachInv ==
  ASSUME IInv, NEW p \in Comps \cup {SysRoot}, NEW c \in Comps, Attach(p, c)
  PROVE  IInv'
<1>0. /\ phase = "build" /\ c \in kids[p] /\ tree[c] # p /\ p \in InTree \cup {SysRoot}
      /\ UNCHANGED <<up, near, nodes, mParent, kids, ofNode, self, visited>>
  BY DEF Attach, ToAttach
<1>1. TypeOK /\ WalkInv /\ NodeInv /\ MovedInv /\ KidsInv /\ TreeInv /\ DeviceInv
  BY DEF IInv, MergeInv, ListInv
<1>2. c \in Members /\ StandsAbove(c) = p /\ p # None
  <2>1. p \in Members \cup {SysRoot} /\ p # None
    BY <1>0, Disjoint DEF Members, Roots
  <2> QED
    BY <1>0, <2>1, Forest
<1>3. c \in Listed /\ list[c] = 1
  BY <1>0, <1>1, <1>2 DEF Members, InTree, Listed, TreeInv
<1>4. phase' = phase /\ list' = [list EXCEPT ![c] = 0] /\ tree' = [tree EXCEPT ![c] = p]
  BY <1>1, <1>3 DEF Attach, TypeOK
<1>5. /\ Members' = Members /\ Done' = Done
      /\ \A d : StandsAbove(d)' = StandsAbove(d)
  BY <1>0, <1>1, <1>2, <1>3, <1>4 DEF Members, Listed, InTree, TypeOK, StandsAbove, Dead, Done
<1>6. TypeOK' /\ WalkInv'
  <2>1. TypeOK'
    BY <1>0, <1>1, <1>4 DEF TypeOK, Roots
  <2> QED
    BY <1>0, <1>1, <1>4, <2>1, WalkKept
<1>7. ListInv' /\ MergeInv' /\ KidsInv'
  BY <1>0, <1>1, <1>4, <1>5 DEF ListInv, DeviceInv, DuplicatesInv, MergeInv, NodeInv, MovedInv, KidsInv, Dead, Merging
<1>8. TreeInv'
  <2>1. \A d \in Comps : tree'[d] = IF d = c THEN p ELSE tree[d]
    BY <1>1, <1>4 DEF TypeOK
  <2>2. \A d \in Comps : list'[d] = IF d = c THEN 0 ELSE list[d]
    BY <1>1, <1>4 DEF TypeOK
  <2> QED
    BY <1>0, <1>1, <1>2, <1>4, <1>5, <2>1, <2>2 DEF TreeInv
<1> QED
  BY <1>6, <1>7, <1>8 DEF IInv

LEMMA CompleteInv ==
  ASSUME IInv, Complete
  PROVE  IInv'
<1>0. /\ phase = "build" /\ ToAttach = {}
      /\ UNCHANGED <<up, near, list, nodes, mParent, kids, ofNode, self, visited, tree>>
  BY DEF Complete
<1>1. TypeOK /\ WalkInv /\ NodeInv /\ MovedInv /\ KidsInv /\ TreeInv /\ DeviceInv
  BY DEF IInv, MergeInv, ListInv
<1>2. Listed = {}
  <2>1. SUFFICES ASSUME Listed # {} PROVE FALSE
    OBVIOUS
  <2>2. PICK c \in Listed : StandsAbove(c) \notin Listed
    BY <1>0, <2>1, Forest DEF Members
  <2>3. c \in Comps /\ tree[c] = None /\ c \in Members
    BY <1>1, <2>2 DEF Listed, Members, TreeInv
  <2>4. StandsAbove(c) \in InTree \cup {SysRoot} /\ c \in kids[StandsAbove(c)]
    BY <1>0, <2>2, <2>3, Forest DEF Members
  <2>5. StandsAbove(c) # None
    BY <2>4, Disjoint DEF InTree, Roots
  <2>6. <<StandsAbove(c), c>> \in ToAttach
    BY <2>3, <2>4, <2>5 DEF ToAttach
  <2> QED
    BY <1>0, <2>6
<1>3. phase' = "done"
  BY <1>2 DEF Complete
<1>4. /\ Members' = Members /\ Done' = Done /\ Listed' = Listed
      /\ \A d : StandsAbove(d)' = StandsAbove(d)
  BY <1>0, <1>3 DEF Members, Listed, InTree, StandsAbove, Dead, Done
<1>5. TypeOK' /\ WalkInv'
  BY <1>0, <1>1, <1>3, WalkKept DEF TypeOK, Phases
<1>6. ListInv' /\ MergeInv' /\ KidsInv'
  BY <1>0, <1>1, <1>3, <1>4 DEF ListInv, DeviceInv, DuplicatesInv, MergeInv, NodeInv, MovedInv, KidsInv, Dead, Merging
<1>7. TreeInv'
  BY <1>0, <1>1, <1>2, <1>3, <1>4 DEF TreeInv
<1> QED
  BY <1>5, <1>6, <1>7 DEF IInv

-----------------------------------------------------------------------------
(* The theorems.                                                           *)

LEMMA StartsWell == Init => IInv
<1> SUFFICES ASSUME Init PROVE IInv
  OBVIOUS
<1>1. Members = {} /\ nodes = {} /\ Done = {} /\ phase = "sysfs" /\ visited = {}
  BY DEF Init, Members, Listed, InTree, Done
<1>2. TypeOK
  BY DEF Init, TypeOK, Phases, Roots
<1>3. WalkInv
  <2>1. UpOK
    BY DEF Init, UpOK
  <2>2. near[SysRoot] = SysRoot /\ near[DtRoot] = DtRoot /\ \A c \in Comps : near[c] = None
    BY Disjoint DEF Init, Roots
  <2> QED
    BY <1>1, <2>1, <2>2, Disjoint DEF WalkInv, NearInv, Unwalked
<1>4. ListInv
  <2>1. \A d \in SysDirs : mParent[d] = None /\ near[d] # d
    BY Disjoint DEF Init, Roots
  <2> QED
    BY <1>1, <2>1 DEF ListInv, DeviceInv, DuplicatesInv
<1>5. MergeInv
  <2>1. \A n \in DtNodes : near[n] # n /\ ~Dead(n)
    BY Disjoint DEF Init, Roots, Dead
  <2> QED
    BY <1>1, <2>1, Disjoint DEF MergeInv, NodeInv, MovedInv, Merging
<1>6. KidsInv /\ TreeInv
  BY <1>1 DEF Init, KidsInv, TreeInv, Merging
<1> QED
  BY <1>2, <1>3, <1>4, <1>5, <1>6 DEF IInv

LEMMA NextKeepsIInv == IInv /\ [Next]_vars => IInv'
<1> SUFFICES ASSUME IInv, [Next]_vars PROVE IInv'
  OBVIOUS
<1>1. CASE Sysfs
  BY <1>1, FindDeviceInv, RemoveDuplicateInv DEF Sysfs
<1>2. CASE LinkDevices \/ SysfsDone
  BY <1>2, LinkDevicesInv, SysfsDoneInv
<1>3. CASE DeviceTree
  BY <1>3, FindNodeInv, MergeDeadInv, MergeTopInv, MergeInnerInv DEF DeviceTree
<1>4. CASE DetermineTree \/ MarkDead \/ Merged
  BY <1>4, DetermineTreeInv, MarkDeadInv, MergedInv
<1>5. CASE Build
  BY <1>5, AttachInv DEF Build
<1>6. CASE Complete
  BY <1>6, CompleteInv
<1>7. CASE UNCHANGED vars
  <2>1. Members' = Members /\ Done' = Done /\ \A c : StandsAbove(c)' = StandsAbove(c)
    BY <1>7 DEF vars, Members, Listed, InTree, Done, StandsAbove, Dead
  <2>2. TypeOK' /\ WalkInv'
    BY <1>7, WalkKept DEF vars, IInv, TypeOK, WalkInv, UpOK, NearInv, Unwalked, WellFounded
  <2>3. ListInv' /\ MergeInv' /\ KidsInv' /\ TreeInv'
    BY <1>7, <2>1 DEF vars, IInv, ListInv, DeviceInv, DuplicatesInv, MergeInv, NodeInv, MovedInv, KidsInv,
                      TreeInv, Dead, Merging, Listed
  <2> QED
    BY <2>2, <2>3 DEF IInv
<1> QED
  BY <1>1, <1>2, <1>3, <1>4, <1>5, <1>6, <1>7 DEF Next, Over

LEMMA AlwaysIInv == Spec => []IInv
BY StartsWell, NextKeepsIInv, PTL DEF Spec

\* Type correctness of the walks, the merge and the building of the tree.
THEOREM TypeCorrect == Spec => []TypeOK
<1>1. IInv => TypeOK
  BY DEF IInv
<1> QED
  BY <1>1, AlwaysIInv, PTL

\* However many directories there are, and whatever the two walks find in
\* them at whatever moment, the merged lists can be built into a tree: no
\* "incomplete or corrupted device list" ends an update.
THEOREM ListsNeverCorrupted == Spec => []NeverCorrupted
<1>1. IInv => NeverCorrupted
  BY DEF IInv, TreeInv, NeverCorrupted
<1> QED
  BY <1>1, AlwaysIInv, PTL

\* Each device is in the tree once: as its sysfs component or as its node, and
\* what is left out is a duplicate of its parent.
THEOREM EveryDeviceOnce == Spec => []EachDeviceInTree
<1>1. ASSUME IInv PROVE EachDeviceInTree
  <2>1. SUFFICES ASSUME phase = "done"
                 PROVE  /\ \A n \in nodes : n \in InTree <=> ~Dead(n)
                        /\ \A n \in nodes : Dead(n) => self[n] \in InTree
                        /\ \A d \in SysDirs :
                             mParent[d] # None /\ d \notin InTree =>
                               /\ mParent[d] \in InTree
                               /\ \A e \in SysDirs \ {d} : mParent[e] # mParent[d]
    BY DEF EachDeviceInTree
  <2>2. Members = InTree /\ NodeInv /\ DeviceInv
    BY <1>1, <2>1 DEF IInv, TreeInv, Members, MergeInv, ListInv
  <2>3. \A n \in nodes : n \in InTree <=> ~Dead(n)
    BY <1>1, <2>1, <2>2, AllLiving DEF NodeInv
  <2>4. \A n \in nodes : Dead(n) => self[n] \in InTree
    BY <2>2 DEF NodeInv
  <2>5. \A d \in SysDirs :
          mParent[d] # None /\ d \notin InTree =>
            /\ mParent[d] \in InTree
            /\ \A e \in SysDirs \ {d} : mParent[e] # mParent[d]
    BY <2>1, <2>2 DEF DeviceInv
  <2> QED
    BY <2>3, <2>4, <2>5
<1> QED
  BY <1>1, AlwaysIInv, PTL

\* Each device is in the tree below what it was found below.
THEOREM AncestryOfAll == Spec => []AncestryKept
<1>1. IInv => AncestryKept
  BY DEF IInv, TreeInv, AncestryKept, InTree
<1> QED
  BY <1>1, AlwaysIInv, PTL
===============================================================================
