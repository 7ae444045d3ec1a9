---------------------------- MODULE MCLocationCode ----------------------------
(* Systems for LocationCode: an adapter with a SCSI host and its disks, a   *)
(* disk on a USB port, and nodes of the device tree below a device.         *)
EXTENDS LocationCode, TLC

CONSTANTS adapter, host, disk, disk2, rootHub, device, interface, u1, u2, u3, u4, slot1, part,
          top, node, port, other

MCNames == {adapter, host, disk, disk2, rootHub, device, interface, u1, u2, u3, u4, slot1, part}
MCNodes == {top, node, port, other}

U(x) == << <<"U", x>> >>
Plain(x) == << <<"plain", x>> >>
Dash(x) == << <<"dash", x>> >>
Slot(x) == << <<"slot", x>> >>

\* A function that is g on its domain and v elsewhere on S.
Filled(S, v, g) == [x \in S |-> IF x \in DOMAIN g THEN g[x] ELSE v]

Silent == [told |-> Unset, slot |-> << >>]
Told(l, p) == [Silent EXCEPT !.told = [val |-> l, pref |-> p]]
InSlot == [Silent EXCEPT !.slot = Slot(slot1)]

\* A system of components that all are in sysfs, each below the one before it in
\* its line, without nodes, ports or reports.
Bare(lines) ==
  LET comps == DOMAIN lines IN
  [comps |-> comps, sysfs |-> comps, line |-> lines,
   bus |-> [c \in comps |-> "other"], hbtl |-> {}, xb |-> {}, major |-> [c \in comps |-> "none"],
   path |-> [c \in comps |-> << >>], given |-> [c \in comps |-> << >>],
   reports |-> [c \in comps |-> {Silent}],
   code |-> [n \in MCNodes |-> << >>], ports |-> [n \in MCNodes |-> << >>],
   maxPort |-> 0, hubs |-> [n \in MCNodes |-> {}],
   usb |-> [c \in comps |-> [bus |-> 0, port |-> 0, maxChild |-> 0]],
   rootHubs |-> 2, hubPorts |-> 2, socket |-> << >>]

\* Two disks on a SCSI host, and a part of the adapter that only the device tree
\* has.  The codes of the adapter's node and of the one above it, which of the
\* others have a node, the host's number, and what inquiries and the platform's
\* VPD say are arbitrary.
ScsiComps == {adapter, host, disk, disk2, part}
ScsiLines ==
  [c \in ScsiComps |->
     CASE c = adapter -> <<adapter>> [] c = host -> <<adapter, host>>
       [] c = part -> <<adapter, part>>
       [] c = disk -> <<adapter, host, disk>> [] c = disk2 -> <<adapter, host, disk2>>]

AdapterReports == {{Silent, Told(U(u3), 80)}, {Told(Plain(u3), 80)}, {Told(Plain(u3), 90)}}
DiskReports == {{Silent, InSlot}, {InSlot, Told(U(u3), 100), Told(Plain(u3), 90)}}

ScsiSystem(code, hostPath, diskPath, major, onAdapter, onDisk) ==
  [Bare(ScsiLines) EXCEPT
     !.sysfs = ScsiComps \ {part},
     !.bus = [c \in ScsiComps |-> IF c \in {adapter, part} THEN "other" ELSE "scsi"],
     !.hbtl = {disk, disk2}, !.xb = {disk, disk2},
     !.major = [c \in ScsiComps |-> IF c \in {disk, disk2} THEN major ELSE "none"],
     !.code = Filled(MCNodes, << >>, (top :> code[1]) @@ (node :> code[2])),
     !.path = Filled(ScsiComps, << >>,
                     (adapter :> <<top, node>>) @@ (host :> hostPath) @@ (disk :> diskPath)
                     @@ (part :> <<top, node, other>>)),
     !.reports = Filled(ScsiComps, {Silent},
                        (adapter :> onAdapter) @@ (disk :> onDisk) @@ (disk2 :> {Silent, InSlot})
                        @@ (part :> {Silent, Told(Dash(u3), 90)})),
     !.given = Filled(ScsiComps, << >>, part :> U(u4))]

ScsiSystems ==
  {ScsiSystem(code, hostPath, diskPath, major, onAdapter, onDisk) :
     code \in {<< >>, U(u1)} \X {<< >>, U(u2), Plain(u2)},
     hostPath \in {<< >>, <<top, node>>}, diskPath \in {<< >>, <<top, node, port>>},
     major \in {"zero", "other"}, onAdapter \in AdapterReports, onDisk \in DiskReports}

\* A disk on USB: usbB, B-P, B-P:1.0, host, disk.  A controller has two root
\* hubs of equally many ports, and the device tree lists the ports of both, the
\* first hub's first, below one hub.  Buses 1 and 2 are the first controller's
\* root hubs, 3 and 4 the second's.
UsbComps == {rootHub, device, interface, host, disk}
UsbLine == <<rootHub, device, interface, host, disk>>
UsbLines ==
  [c \in UsbComps |-> SubSeq(UsbLine, 1, CHOOSE i \in 1 .. 5 : UsbLine[i] = c)]

FirstHub == <<U(u1), U(u2)>>
SecondHub == <<U(u3), U(u4)>>

UsbSystem(bus, p, at, hubCode, shown) ==
  LET ports == FirstHub \o SecondHub IN
  [Bare(UsbLines) EXCEPT
     !.bus = [c \in UsbComps |-> IF c \in {host, disk} THEN "scsi" ELSE "usb"],
     !.hbtl = {disk}, !.xb = {disk},
     !.major = [c \in UsbComps |-> IF c \in {interface, disk} THEN "other" ELSE "none"],
     !.path = Filled(UsbComps, << >>, (rootHub :> <<top, node>>) @@ (interface :> at)),
     !.code = Filled(MCNodes, << >>, (node :> hubCode)),
     !.maxPort = 4,
     !.ports = Filled(MCNodes, [i \in 1 .. 4 |-> None],
                      (port :> [i \in 1 .. 4 |-> IF i \in shown THEN ports[i] ELSE None])),
     !.hubs = Filled(MCNodes, {}, node :> {port, other}),
     !.socket = [t \in {IF bus > 2 THEN 3 ELSE 1, IF bus > 2 THEN 4 ELSE 2} \X (1 .. 2) |->
                   IF t[1] \in {1, 3} THEN FirstHub[t[2]] ELSE SecondHub[t[2]]],
     !.usb = [c \in UsbComps |-> [bus |-> bus, port |-> p, maxChild |-> 2]],
     !.reports = Filled(UsbComps, {Silent}, disk :> {Silent, InSlot})]

UsbSystems ==
  {UsbSystem(bus, p, at, hubCode, shown) :
     bus \in 1 .. 4, p \in 1 .. 2, at \in {<< >>, <<top, node, port>>},
     hubCode \in {<< >>, Plain(u1)}, shown \in {{}, {1, 4}, 1 .. 4}}

\* The same with a host that is known by its XB keyword only.
KeywordSystems ==
  {[s EXCEPT !.bus[host] = "other", !.xb = {disk, host}] : s \in UsbSystems}

MCSystems == ScsiSystems \cup UsbSystems \cup KeywordSystems
=============================================================================
