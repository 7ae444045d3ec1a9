---------------------------- MODULE ComponentTree ----------------------------
(***************************************************************************)
(* How Gatherer::getComponentTree makes one tree out of two: the devices   *)
(* below /sys/devices (SysFSTreeCollector::getComponents) and the nodes of *)
(* the device tree (DeviceTreeCollector::getComponents, which also takes   *)
(* in the platform's VPD records as nodes of their own).  A device that    *)
(* has both keeps its sysfs component; the node's component is marked DEAD *)
(* and its children are handed over.                                       *)
(*                                                                         *)
(* Both walks look at a system that changes under them, so that what a     *)
(* directory is (a device, a directory to look through, or gone) and the   *)
(* node it points to are found out when it is visited, not before.         *)
(* A component is named by its path (idNode); ids are distinct.  Readdir's *)
(* order is arbitrary: only what comes after what is kept of it.  The      *)
(* directories directly below /sys/devices are never devices themselves    *)
(* (findDevicePaths only looks through them) and stand in SysRoot.         *)
(***************************************************************************)
EXTENDS Naturals, FiniteSets

CONSTANTS
  SysDirs,  \* directories below those in /sys/devices
  DtNodes,  \* directories below /proc/device-tree
  SysRoot,  \* "/sys/devices"
  DtRoot,   \* DEVTREEPATH, "/proc/device-tree"
  None

Comps == SysDirs \cup DtNodes
Roots == {SysRoot, DtRoot}

ASSUME TreeAssumption ==
  /\ IsFiniteSet(Comps)
  /\ SysDirs \cap DtNodes = {} /\ SysRoot # DtRoot
  /\ Comps \cap Roots = {} /\ None \notin Comps \cup Roots

VARIABLES
  up,      \* the directory above each directory
  near,    \* the component below which the children of a directory are found
  list,    \* how often a component is in the vector that is built (sysdevs)
  nodes,   \* the components of the device tree, before merging (devs)
  mParent, \* Component::mParent
  kids,    \* Component::mChildren
  ofNode,  \* the device-tree node a sysfs component points to
  self,    \* devSelfInSysfs of a node that is DEAD, None for the others
  visited, \* what the phase's loop or recursion has dealt with
  tree,    \* Component::mpParent, None for what is not in the tree
  phase

vars == <<up, near, list, nodes, mParent, kids, ofNode, self, visited, tree, phase>>

\* No set of directories hangs below itself.
WellFounded(f, S) ==
  \A T \in SUBSET S : T # {} => \E d \in T : f[d] \notin T

Init ==
  /\ up \in {f \in [Comps -> Comps \cup Roots] :
               /\ \A d \in SysDirs : f[d] \in SysDirs \cup {SysRoot}
               /\ \A n \in DtNodes : f[n] \in DtNodes \cup {DtRoot}
               /\ WellFounded(f, Comps)}
  /\ near = [d \in Comps \cup Roots |-> IF d \in Roots THEN d ELSE None]
  /\ list = [c \in Comps |-> 0]
  /\ nodes = {}
  /\ mParent = [c \in Comps |-> None]
  /\ kids = [c \in Comps \cup Roots |-> {}]
  /\ ofNode = [d \in SysDirs |-> None]
  /\ self = [n \in DtNodes |-> None]
  /\ visited = {}
  /\ tree = [c \in Comps |-> None]
  /\ phase = "sysfs"

\* A vector's components, and a component whose parent was looked at already.
Listed == {c \in Comps : list[c] > 0}
Reached(d) == d \notin visited /\ near[up[d]] # None
Goto(p) == phase' = p /\ visited' = {}

-----------------------------------------------------------------------------
(* SysFSTreeCollector::getComponents.                                      *)

\* Mutant: a device directly below "/sys/devices" keeps an empty parent.
FindDeviceNoRoot(d) ==
  /\ phase = "sysfs" /\ d \in SysDirs /\ Reached(d)
  /\ visited' = visited \cup {d}
  /\ \/ /\ list' = [list EXCEPT ![d] = @ + 1]
        /\ mParent' = [mParent EXCEPT ![d] = IF near[up[d]] = SysRoot THEN None ELSE near[up[d]]]
        /\ \E n \in DtNodes \cup {None} : ofNode' = [ofNode EXCEPT ![d] = n]
        /\ near' = [near EXCEPT ![d] = d]
     \/ /\ near' \in {near, [near EXCEPT ![d] = near[up[d]]]}
        /\ UNCHANGED <<list, mParent, ofNode>>
  /\ UNCHANGED <<up, nodes, kids, self, tree, phase>>

\* findDevices: the directory is a device and gets a component with all that
\* getInitialDetails finds; or it is looked through, and what is in it belongs
\* to the device above; or it is filtered, or gone.
FindDevice(d) ==
  /\ phase = "sysfs" /\ d \in SysDirs /\ Reached(d)
  /\ visited' = visited \cup {d}
  /\ \/ /\ list' = [list EXCEPT ![d] = @ + 1]
        /\ mParent' = [mParent EXCEPT ![d] = near[up[d]]]
        /\ \E n \in DtNodes \cup {None} : ofNode' = [ofNode EXCEPT ![d] = n]
        /\ near' = [near EXCEPT ![d] = d]
     \/ /\ near' \in {near, [near EXCEPT ![d] = near[up[d]]]}
        /\ UNCHANGED <<list, mParent, ofNode>>
  /\ UNCHANGED <<up, nodes, kids, self, tree, phase>>

\* getComponents, once every directory was visited: each device is added to
\* the children of its parent, where that is found.
LinkDevices ==
  /\ phase = "sysfs" /\ \A d \in SysDirs : ~Reached(d)
  /\ kids' = [p \in Comps \cup Roots |->
                IF p = SysRoot \/ p \in Listed
                THEN {d \in Listed : mParent[d] = p} ELSE {}]
  /\ Goto("duplicates")
  /\ UNCHANGED <<up, near, list, nodes, mParent, ofNode, self, tree>>

\* Devices are listed after their parents, and looked at in that order.
NextDevice(p) ==
  /\ phase = "duplicates" /\ p \in Listed \ visited
  /\ mParent[p] = SysRoot \/ mParent[p] \in visited
  /\ visited' = visited \cup {p}

\* Mutant: the duplicate is erased from the vector and stays a child.
RemoveDuplicateKept(p) ==
  /\ NextDevice(p)
  /\ \/ UNCHANGED list
     \/ \E c \in Listed :
          /\ kids[p] = {c} /\ kids[c] = {}
          /\ list' = [list EXCEPT ![c] = 0]
  /\ UNCHANGED <<up, near, nodes, mParent, kids, ofNode, self, tree, phase>>

\* removeDuplicateDevices: an only child that is a leaf, and whose name is one
\* of its parent's AIX names, is merged into the parent.
RemoveDuplicate(p) ==
  /\ NextDevice(p)
  /\ \/ UNCHANGED <<list, kids>>
     \/ \E c \in Listed :
          /\ kids[p] = {c} /\ kids[c] = {}
          /\ list' = [list EXCEPT ![c] = 0]
          /\ kids' = [kids EXCEPT ![p] = {}]
  /\ UNCHANGED <<up, near, nodes, mParent, ofNode, self, tree, phase>>

SysfsDone ==
  /\ phase = "duplicates" /\ Listed \subseteq visited
  /\ Goto("devtree")
  /\ UNCHANGED <<up, near, list, nodes, mParent, kids, ofNode, self, tree>>

-----------------------------------------------------------------------------
(* DeviceTreeCollector::getComponents.                                     *)

\* getComponentsVector: a node with a unit address gets a component and is
\* walked; a "memory" node is walked and has none; others are not walked.
FindNode(n) ==
  /\ phase = "devtree" /\ n \in DtNodes /\ Reached(n)
  /\ visited' = visited \cup {n}
  /\ \/ /\ nodes' = nodes \cup {n}
        /\ near' = [near EXCEPT ![n] = n]
     \/ /\ near' \in {near, [near EXCEPT ![n] = near[up[n]]]}
        /\ UNCHANGED nodes
  /\ UNCHANGED <<up, list, mParent, kids, ofNode, self, tree, phase>>

\* A node's parent is the nearest directory above that has a component.
DetermineTree ==
  /\ phase = "devtree" /\ \A n \in DtNodes : ~Reached(n)
  /\ mParent' = [c \in Comps |-> IF c \in nodes THEN near[up[c]] ELSE mParent[c]]
  /\ kids' = [p \in Comps \cup Roots |->
                IF p \in nodes \cup {DtRoot} THEN {n \in nodes : near[up[n]] = p}
                ELSE kids[p]]
  /\ Goto("mark")
  /\ UNCHANGED <<up, near, list, nodes, ofNode, self, tree>>

\* Every sysfs component that points to a node marks it; the last one stays.
Claimants(n) == {d \in SysDirs \cap Listed : ofNode[d] = n}

MarkDead ==
  /\ phase = "mark"
  /\ \E s \in [DtNodes -> SysDirs \cup {None}] :
       /\ \A n \in DtNodes :
            IF n \in nodes /\ Claimants(n) # {} THEN s[n] \in Claimants(n) ELSE s[n] = None
       /\ self' = s
  /\ Goto("merge")
  /\ UNCHANGED <<up, near, list, nodes, mParent, kids, ofNode, tree>>

Dead(n) == self[n] # None
Alive(S) == {c \in S : ~Dead(c)}

\* transferChildren: the nodes below S, S included, along mChildren.
Below(S) ==
  {c \in nodes : \A T \in SUBSET nodes :
                   S \subseteq T /\ (\A x \in T : kids[x] \subseteq T) => c \in T}

Push(S) == list' = [c \in Comps |-> IF c \in S THEN list[c] + 1 ELSE list[c]]
Transfer(S) == Push(Below(S))

\* mergeTrees is called for a node when it has returned for all its children.
NextNode(n) ==
  /\ phase = "merge" /\ n \in nodes \ visited
  /\ kids[n] \subseteq visited
  /\ visited' = visited \cup {n}
  /\ UNCHANGED <<up, near, nodes, ofNode, self, tree>>

\* Mutant: the children that are DEAD are not removed first.
MergeDeadKept(n) ==
  /\ NextNode(n) /\ Dead(n)
  /\ Transfer(kids[n])
  /\ kids' = [kids EXCEPT ![self[n]] = @ \cup kids[n]]
  /\ mParent' = [mParent EXCEPT ![n] = mParent[self[n]]]
  /\ UNCHANGED phase

\* Mutant: the children go to the parent of the component in sysfs.
MergeDeadAbove(n) ==
  /\ NextNode(n) /\ Dead(n)
  /\ Transfer(Alive(kids[n]))
  /\ kids' = [kids EXCEPT ![n] = Alive(@), ![mParent[self[n]]] = @ \cup Alive(kids[n])]
  /\ mParent' = [mParent EXCEPT ![n] = mParent[self[n]]]
  /\ UNCHANGED phase

\* The node is DEAD: its children go to its component in sysfs (cpyinto).  The
\* parent of that component is looked up, and used unseen.
MergeDead(n) ==
  /\ NextNode(n) /\ Dead(n)
  /\ Transfer(Alive(kids[n]))
  /\ kids' = [kids EXCEPT ![n] = Alive(@), ![self[n]] = @ \cup Alive(kids[n])]
  /\ IF mParent[self[n]] \in Listed \cup {SysRoot}
     THEN mParent' = [mParent EXCEPT ![n] = mParent[self[n]]] /\ UNCHANGED phase
     ELSE phase' = "crashed" /\ UNCHANGED mParent

\* The node is at the top: it moves to "/sys/devices" with all below it.
MergeTop(n) ==
  /\ NextNode(n) /\ ~Dead(n) /\ mParent[n] = DtRoot
  /\ mParent' = [mParent EXCEPT ![n] = SysRoot]
  /\ kids' = [kids EXCEPT ![n] = Alive(@), ![SysRoot] = @ \cup {n}]
  /\ Push({n} \cup Below(Alive(kids[n])))
  /\ UNCHANGED phase

\* Any other node only loses its DEAD children and waits for its parent.
MergeInner(n) ==
  /\ NextNode(n) /\ ~Dead(n) /\ mParent[n] # DtRoot
  /\ kids' = [kids EXCEPT ![n] = Alive(@)]
  /\ UNCHANGED <<list, mParent, phase>>

Merged ==
  /\ phase = "merge" /\ nodes \subseteq visited
  /\ Goto("build")
  /\ UNCHANGED <<up, near, list, nodes, mParent, kids, ofNode, self, tree>>

-----------------------------------------------------------------------------
(* Gatherer::buildTree, from "/sys/devices" down.                          *)

InTree == {c \in Comps : tree[c] # None}
ToAttach == {e \in (InTree \cup {SysRoot}) \X Comps :
               e[2] \in kids[e[1]] /\ tree[e[2]] # e[1]}

\* A child is taken out of the vector and becomes a leaf of its parent; the
\* tree cannot be built when the vector does not have it.
Attach(p, c) ==
  /\ phase = "build" /\ <<p, c>> \in ToAttach
  /\ IF c \in Listed
     THEN /\ list' = [list EXCEPT ![c] = @ - 1]
          /\ tree' = [tree EXCEPT ![c] = p]
          /\ UNCHANGED phase
     ELSE phase' = "thrown" /\ UNCHANGED <<list, tree>>
  /\ UNCHANGED <<up, near, nodes, mParent, kids, ofNode, self, visited>>

\* "Incomplete or corrupted device list": nothing may be left in the vector.
Complete ==
  /\ phase = "build" /\ ToAttach = {}
  /\ phase' = IF Listed = {} THEN "done" ELSE "thrown"
  /\ UNCHANGED <<up, near, list, nodes, mParent, kids, ofNode, self, visited, tree>>

\* The tree is filled and stored, or the exception ends the run (VpdUpdate).
Over == phase \in {"done", "thrown", "crashed"} /\ UNCHANGED vars

-----------------------------------------------------------------------------
Sysfs == \E d \in SysDirs : FindDevice(d) \/ RemoveDuplicate(d)
DeviceTree == \E n \in DtNodes : FindNode(n) \/ MergeDead(n) \/ MergeTop(n) \/ MergeInner(n)
Build == \E p \in Comps \cup {SysRoot}, c \in Comps : Attach(p, c)

Next ==
  \/ Sysfs \/ LinkDevices \/ SysfsDone
  \/ DeviceTree \/ DetermineTree \/ MarkDead \/ Merged
  \/ Build \/ Complete \/ Over

Spec == Init /\ [][Next]_vars

-----------------------------------------------------------------------------
(* Properties.                                                             *)

Phases == {"sysfs", "duplicates", "devtree", "mark", "merge", "build",
           "done", "thrown", "crashed"}

TypeOK ==
  /\ up \in [Comps -> Comps \cup Roots]
  /\ near \in [Comps \cup Roots -> Comps \cup Roots \cup {None}]
  /\ list \in [Comps -> Nat]
  /\ nodes \subseteq DtNodes
  /\ mParent \in [Comps -> Comps \cup Roots \cup {None}]
  /\ kids \in [Comps \cup Roots -> SUBSET Comps]
  /\ ofNode \in [SysDirs -> DtNodes \cup {None}]
  /\ self \in [DtNodes -> SysDirs \cup {None}]
  /\ visited \subseteq Comps
  /\ tree \in [Comps -> Comps \cup Roots \cup {None}]
  /\ phase \in Phases
  /\ \A c \in Comps : list[c] > 0 => mParent[c] # None

\* Whatever the two walks found, at whatever moment, the lists the collectors
\* hand over can be built into a tree: the exceptions of Gatherer, which end
\* vpdupdate without an inventory, never happen, and mergeTrees never follows
\* a parent it did not find.
NeverCorrupted == phase \notin {"thrown", "crashed"}

\* A device is in the tree as its sysfs component or as its node, not as both
\* and not as neither.  The only devices left out are duplicates of a parent
\* that is in the tree and has no other child from sysfs.
EachDeviceInTree ==
  phase = "done" =>
    /\ \A n \in nodes : n \in InTree <=> ~Dead(n)
    /\ \A n \in nodes : Dead(n) => self[n] \in InTree
    /\ \A d \in SysDirs :
         mParent[d] # None /\ d \notin InTree =>
           /\ mParent[d] \in InTree
           /\ \A e \in SysDirs \ {d} : mParent[e] # mParent[d]

\* The component that stands for the nearest device above: for a node, the
\* one above in the device tree or, where that is DEAD, its sysfs component.
StandsAbove(c) ==
  LET p == near[up[c]] IN
  CASE c \in SysDirs -> p
    [] p = DtRoot -> SysRoot
    [] p \in nodes -> IF Dead(p) THEN self[p] ELSE p

\* Merging keeps every device below the device it was found below.
AncestryKept == phase = "done" => \A c \in InTree : tree[c] = StandsAbove(c)

-----------------------------------------------------------------------------
(* What the documentation says and the code does not do.                   *)

\* gatherer.hpp, getComponentTree: the tree is returned "with all of the
\* appropriate parentage information updated": mParent, which is stored and
\* shown as "Parent ID", names the parent in the tree.
ParentageUpdated == phase = "done" => \A c \in InTree : mParent[c] = tree[c]
=============================================================================
