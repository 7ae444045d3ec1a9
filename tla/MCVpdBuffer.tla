---------------------------- MODULE MCVpdBuffer ----------------------------
(***************************************************************************)
(* The buffers VpdBuffer is checked on: what devices and firmware encode,  *)
(* whole, cut off, or with one length or one type that is wrong.  A byte   *)
(* has nine values, so that a section may need the high byte of its length.*)
(***************************************************************************)
EXTENDS VpdBuffer, SequencesExt

MCKeys == {<<3, 3>>, <<3, 4>>}
MCSystemName == <<4, 4>>

LowFirst(n) == <<n % Base, n \div Base>>
HighFirst(n) == <<n \div Base ^ 3, (n \div Base ^ 2) % Base, (n \div Base) % Base, n % Base>>

\* Records: text, padded text, binary, blank, empty, unknown, holding end tags.
Rec(key, val) == [key |-> key, val |-> val]
Recs == {Rec(<<3, 3>>, <<3>>), Rec(<<3, 4>>, <<4, 2, 0>>), Rec(<<3, 3>>, <<3, 0, 4>>),
         Rec(<<3, 4>>, <<2>>), Rec(<<3, 3>>, <<>>), Rec(<<3, 1>>, <<EndTag, 3>>)}
Long == Rec(<<3, 4>>, <<3, 4, 3, 4, 3, 4, 3>>)
FewRecs == {Rec(<<3, 3>>, <<3>>), Rec(<<3, 4>>, <<4, 2, 0>>), Rec(<<3, 1>>, <<EndTag, 3>>)}

Encode(r) == r.key \o <<Len(r.val)>> \o r.val
Body(rs) == FlattenSeq([i \in DOMAIN rs |-> Encode(rs[i])])
Known(rs) == SelectSeq(rs, LAMBDA r : r.key \in Keys)

Pci(nameLen, ss) ==
  <<LargeTag>> \o LowFirst(nameLen) \o [i \in 1 .. nameLen |-> 3]
  \o FlattenSeq([i \in DOMAIN ss |-> <<1>> \o LowFirst(Len(Body(ss[i]))) \o Body(ss[i])])
  \o <<EndTag>>
Opal(rs, tag) == <<OpalTag>> \o LowFirst(Len(Body(rs)) + 1) \o Body(rs) \o <<tag>>
Rtas(nm, rs, tag) ==
  LET rest == <<LargeTag>> \o LowFirst(Len(nm)) \o nm \o <<1>> \o LowFirst(Len(Body(rs))) \o Body(rs) \o <<tag>>
  IN HighFirst(Len(rest)) \o rest

\* The length byte of the last record made too long.
Lengthened(b, r, behind) == [b EXCEPT ![Len(b) - behind - Len(r.val)] = Base - 1]

\* How a section with these records is laid out.
Kept(job, rs) == IF job = "system" THEN rs ELSE Known(rs)
Section(job, from, to, system, shown, rs, first) ==
  [from |-> from, to |-> to, system |-> system, shown |-> shown, sent |-> Kept(job, rs),
   recs |-> [k \in 1 .. Len(rs) + 1 |-> [at |-> first + Len(Body(SubSeq(rs, 1, k - 1))),
                                         known |-> Len(Kept(job, SubSeq(rs, 1, k - 1)))]]]
NoSection(from, shown) == [from |-> from, to |-> from, system |-> FALSE, shown |-> shown, sent |-> <<>>, recs |-> <<>>]
PciOf(buf, nameLen, rs) == <<Section("pci", 0, Len(buf), FALSE, 0, rs, 6 + nameLen)>>
OpalOf(job, rs) == <<Section(job, 0, 4 + Len(Body(rs)), FALSE, 0, rs, 3)>>
RtasOf(job, from, shown, nm, rs) ==
  Section(job, from, from + Len(Rtas(nm, rs, EndTag)), nm = MCSystemName, shown, rs, from + 10 + Len(nm))

Call(job, format, little, buf, whole, sent, sections) ==
  [job |-> job, format |-> format, little |-> little, buf |-> buf, whole |-> whole, sent |-> sent, sections |-> sections]

Lists == BoundedSeq(Recs, 2) \cup {<<Long>>} \cup {<<r, Long>> : r \in Recs}
Short == {rs \in BoundedSeq(Recs, 2) : Len(Body(rs)) + 1 < Base}

\* The header of a further section, as a record.
Header(rs) == Rec(<<1, Len(Body(rs))>>, <<>>)
PciWhole ==
  {Call("pci", "pci", FALSE, Pci(n, <<rs>>), TRUE, Known(rs), PciOf(Pci(n, <<rs>>), n, rs)) : n \in {0, 3, Base}, rs \in Lists \ {<<>>}}
  \cup {Call("pci", "pci", FALSE, Pci(2, <<rs, qs>>), TRUE, Known(rs \o qs),
              PciOf(Pci(2, <<rs, qs>>), 2, rs \o <<Header(qs)>> \o qs)) : rs \in Lists, qs \in Short}

\* The records that still have something behind them in so many bytes.
Survive(rs, bytes) ==
  LET sound == {n \in DOMAIN rs : Len(Body(SubSeq(rs, 1, n))) < bytes}
  IN SubSeq(rs, 1, Cardinality(sound))
PciCut ==
  UNION {{LET buf == SubSeq(Pci(2, <<rs>>), 1, n)
              left == IF n <= 8 THEN <<>> ELSE Survive(rs, n - 8)
          IN Call("pci", "pci", FALSE, buf, FALSE, Known(left), IF n <= 8 THEN <<NoSection(0, 0)>> ELSE PciOf(buf, 2, left))
            : n \in 1 .. Len(Pci(2, <<rs>>)) - 1}
           : rs \in Lists \ {<<>>}}

NodeWhole ==
  {Call("node", "opal", FALSE, Opal(rs, tag), TRUE, Known(rs), OpalOf("node", rs)) : rs \in Lists, tag \in {EndTag, OtherEndTag}}
  \cup {Call("node", "rtas", l, Rtas(nm, rs, tag), TRUE, Known(rs), <<RtasOf("node", 0, 0, nm, rs)>>)
          : l \in BOOLEAN, nm \in {<<>>, <<3>>}, rs \in Lists, tag \in {EndTag, OtherEndTag}}

\* The section is as long as the record that is wrong would have it.
Damaged(ss, to) == [ss EXCEPT ![Len(ss)].to = to]
NodeLong ==
  {LET buf == Lengthened(Opal(Append(rs, r), EndTag), r, 1)
   IN Call("node", "opal", FALSE, buf, FALSE, Known(rs), Damaged(OpalOf("node", rs), Len(buf)))
     : rs \in BoundedSeq(Recs, 1), r \in Recs}
  \cup {LET buf == Lengthened(Pci(1, <<Append(rs, r)>>), r, 1)
         IN Call("pci", "pci", FALSE, buf, FALSE, Known(rs), PciOf(buf, 1, rs))
     : rs \in BoundedSeq(Recs, 1), r \in Recs}

System ==
  {Call("system", "rtas", l, Rtas(MCSystemName, rs, EndTag), TRUE, rs, <<RtasOf("system", 0, 0, MCSystemName, rs)>>)
     : l \in BOOLEAN, rs \in Lists}
  \cup {Call("system", "opal", l, Opal(rs, EndTag), TRUE, rs, OpalOf("system", rs)) : l \in BOOLEAN, rs \in Short}

\* One RTAS buffer: a section is a name and a list of records.
Sections == {<<>>, <<3>>, MCSystemName} \X (BoundedSeq(FewRecs, 1) \cup {<<r, s>> : r, s \in {Rec(<<3, 3>>, <<3>>), Long}})
Mine(ss) == SelectSeq(ss, LAMBDA s : s[1] # MCSystemName)
Shows(ss) == [i \in DOMAIN Mine(ss) |-> Known(Mine(ss)[i][2])]
Encode2(s) == Rtas(s[1], s[2], OtherEndTag)
All(ss) == FlattenSeq([i \in DOMAIN ss |-> Encode2(ss[i])])
Behinds(ss, i) == Len(All(SubSeq(ss, 1, i - 1)))
LaidOut(ss) == [i \in DOMAIN ss |-> RtasOf("rtas", Behinds(ss, i), Len(Mine(SubSeq(ss, 1, i - 1))), ss[i][1], ss[i][2])]

RtasWhole ==
  {Call("rtas", "rtas", TRUE, All(ss), TRUE, Shows(ss), LaidOut(ss)) : ss \in BoundedSeq(Sections, 2) \ {<<>>}}
\* The first section is sound, the second has a record or a type that is wrong.
RtasWrong ==
  {LET n == Len(t[2])
       sound == <<t[1], SubSeq(t[2], 1, n - 1)>>
   IN Call("rtas", "rtas", TRUE, Encode2(s) \o Lengthened(Encode2(t), t[2][n], 1) \o Encode2(s), FALSE, Shows(<<s>>),
           Damaged(LaidOut(<<s, sound>>), Len(All(<<s, t>>))))
     : s \in Sections, t \in {u \in Sections : u[2] # <<>> /\ u[2][Len(u[2])] # Long}}
  \cup {Call("rtas", "rtas", TRUE, Encode2(s) \o [Encode2(t) EXCEPT ![5] = OpalTag] \o Encode2(s), FALSE, Shows(<<s>>),
              LaidOut(<<s>>) \o <<NoSection(Len(Encode2(s)), Len(Mine(<<s>>)))>>)
     : s, t \in Sections}

MCInputs ==
  PciWhole \cup PciCut \cup NodeWhole \cup NodeLong \cup System \cup RtasWhole \cup RtasWrong

\* Every one of them is laid out as the formats have it, so that the properties
\* speak of all.
ASSUME InputsEncoded == \A in \in Inputs : Encoded(in)
=============================================================================
