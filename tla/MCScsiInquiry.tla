--------------------------- MODULE MCScsiInquiry ---------------------------
(***************************************************************************)
(* The devices and template files ScsiInquiry is checked on: lines as they *)
(* are in scsi_templates.conf and nvme_templates.conf, and patterns that   *)
(* have a star at the end, in front of a last letter, or none, as theirs.  *)
(***************************************************************************)
EXTENDS ScsiInquiry

\* "?0x0=RL:4,SN:8,_:42,FN:12;?0xDIAG=_:7,AA:4;?0x131=_:8,Z7:8;?0x199=_:32"
Disk == <<Mark, Code(0), Field("RL", 4), Field("SN", 8), Field("_", 42), Field("FN", 12), Semicolon,
          Mark, Code(Diag), Field("_", 7), Field("AA", 4), Semicolon,
          Mark, Code(131), Field("_", 8), Field("UL", 4), Field("Z7", 8), Semicolon,
          Mark, Code(Description), Field("_", 32)>>
\* "?0x0=RL:4;0x80=_:4,SN:20;?0x199=_:32": one field only, and a page without a mark
Ata == <<Mark, Code(0), Field("RL", 4), Semicolon, Code(80), Field("_", 4), Field("SN", 20), Semicolon,
         Mark, Code(Description), Field("_", 32)>>
\* "?0x0=RL:4,_:60,ZZ:100,_:-100,_:14,TM:8,SE_VSCSI:50;?0x03=_:8,UL:4"
Virtual == <<Mark, Code(0), Field("RL", 4), Field("_", 60), Field("ZZ", 100), Field("_", -100),
             Field("_", 14), Field("TM", 8), Field("SE_VSCSI", 50), Semicolon,
             Mark, Code(3), Field("_", 8), Field("UL", 4)>>
\* "0001", "_:4,ID:40,PN:12,EC:10,FN:12,SN:8"
Log1 == <<Field("_", 4), Field("ID", 40), Field("PN", 12), Field("EC", 10), Field("FN", 12), Field("SN", 8)>>

\* Two letters; the patterns end in a star, are a star, have one before the last
\* letter, or none.
Letters == {1, 2}
Names == UNION {[1 .. m -> Letters] : m \in 0 .. 3}
Patterns ==
  Names \cup {Append(p, Star) : p \in Names}
  \cup {p \o <<Star, x>> : p \in {q \in Names : Len(q) < 2}, x \in Letters}

Line(p, q, r, t) == [names |-> <<p, q, r>>, text |-> t]
File == <<Line(<<1, Star>>, <<1>>, <<1, 2>>, Virtual), Line(<<1, Star>>, <<1>>, <<Star>>, Disk),
          Line(<<Star>>, <<2>>, <<Star>>, Ata)>>
Lists == {<<>>, <<0, 2, 3, 131, 199>>, <<2, 80, 131, 199>>, <<0, 3, 2, 80, 131, 131, 199>>}

\* The byte read as the length of a VPD page that answers a base inquiry: of a
\* short page a low one.
Device(vendor, type, model, base, codes, size) ==
  [names |-> <<vendor, type, model>>, base |-> base, capable |-> TRUE, codes |-> codes,
   pages |-> [p \in {2, 3, 80, 131, 199} |-> size], fifth |-> IF size > 20 THEN 250 ELSE 0, log |-> 0, mi |-> 0]
Asked(device, file, limit) == [job |-> "scsi", limit |-> limit, device |-> device, file |-> file]
Nvme(job, log, mi, version) ==
  [job |-> job, limit |-> FALSE, file |-> <<[names |-> <<<<1, 1>>>>, text |-> Log1]>>,
   device |-> [names |-> <<version>>, base |-> 0, capable |-> TRUE, codes |-> <<>>, pages |-> [p \in {} |-> 0], fifth |-> 0,
               log |-> log, mi |-> mi]]

MCCalls ==
  {Asked(Device(<<1, 2>>, type, model, base, codes, size), File, FALSE)
     : type \in {<<1>>, <<2>>}, model \in {<<1>>, <<1, 2>>}, base \in {0, 20, 36, 240}, codes \in Lists,
       size \in {6, 20, 300}}
  \cup {Asked(Device(<<1, 2>>, type, model, base, codes, size), File, TRUE)
         : type \in {<<1>>, <<2>>}, model \in {<<1>>, <<1, 2>>}, base \in {20, 36, 240}, codes \in Lists, size \in {20, 300}}
  \cup {Asked([Device(<<1, 2>>, <<1>>, <<1>>, 36, <<0, 131>>, 20) EXCEPT !.capable = FALSE], File, FALSE),
        Asked(Device(<<1, 2>>, <<1>>, <<1>>, 36, <<0, 131>>, 5000), File, FALSE),
        Asked(Device(<<2, 1>>, <<1>>, <<2>>, 36, <<0, 131>>, 20), File, TRUE),
        Asked(Device(<<1>>, <<1>>, <<1>>, 36, <<0, 131>>, 20), <<>>, FALSE)}
  \cup {Nvme(job, log, mi, version) : job \in {"nvme", "pci"}, log \in {0, 1024}, mi \in {0, 256}, version \in {<<1, 1>>, <<1, 2>>}}
  \cup {Asked(Device(v, <<1>>, m, 240, <<0, 131>>, 20), <<Line(p, <<1>>, q, Disk), Line(<<Star>>, <<Star>>, <<Star>>, Ata)>>, FALSE)
         : v \in {<<1>>, <<1, 2>>}, m \in Names, p \in {<<1, Star>>, <<1, 2>>}, q \in Patterns}
=============================================================================
