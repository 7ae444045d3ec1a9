------------------------------ MODULE MCPciIds ------------------------------
(* Every file of up to MaxLines lines that begins with a vendor, with       *)
(* sub-devices only under devices.                                         *)
EXTENDS PciIds

CONSTANT MaxLines

LineKinds ==
  {Vendor(v) : v \in {1, 2}} \cup {Dev(d) : d \in {1, UnknownId}}
    \cup {Sub(1, 1), Sub(2, 1), Sub(1, 2)} \cup {Comment(t) : t \in 0 .. 2} \cup {Blank}

\* Whether the line may stand behind the lines f.
MayFollow(l, f) ==
  LET entries == {k \in DOMAIN f : f[k].head = "text"}
      last == CHOOSE k \in entries : \A j \in entries : j <= k
  IN l.tabs > 0 => entries # {} /\ (l.head = "text" => l.tabs <= f[last].tabs + 1)

FilesOf[n \in Nat] ==
  IF n = 0 THEN {<<>>} ELSE {Append(x[1], x[2]) : x \in {y \in FilesOf[n - 1] \X LineKinds : MayFollow(y[2], y[1])}}

IdFiles == UNION {FilesOf[n] : n \in 0 .. MaxLines}

UsbFile == <<Vendor(2), Dev(1), Blank, Vendor(1), Dev(1)>>
SearchedDirs == <<"/usr/share", "/usr/share/hwdata">>
Both(d) == {<<d, "pci">>, <<d, "usb">>}
Installed == SUBSET (Both("/usr/share") \cup Both("/usr/share/hwdata"))

\* Every pci.ids with one usb.ids, and one of each in any directories.
IdSetups ==
  {[pci |-> f, usb |-> UsbFile, present |-> Both("/usr/share")] : f \in IdFiles}
    \cup {[pci |-> <<Vendor(1), Dev(1)>>, usb |-> UsbFile, present |-> p] : p \in Installed}
=============================================================================
