---------------------------- MODULE ScsiTemplates ----------------------------
(***************************************************************************)
(* How a template of scsi_templates.conf or nvme_templates.conf is chosen: *)
(* matches() compares a pattern of the file with what the device said.     *)
(* Strings are sequences of characters; names hold no star.                *)
(*                                                                         *)
(* matches() calls itself with what both strings hold from the pattern's   *)
(* next star on, cut at the same place: its calls are told by that place.  *)
(***************************************************************************)
EXTENDS Integers, Sequences

CONSTANT Star

Contains(s, part) == \E k \in 0 .. Len(s) - Len(part) : SubSeq(s, k + 1, k + Len(part)) = part

\* What substr gives when the string is shorter.
UpTo(s, beg, end) == SubSeq(s, beg, IF end < Len(s) THEN end ELSE Len(s))
From(s, cut) == UpTo(s, cut, Len(s))

\* The places matches() is called for: the first, and the stars behind it.
Cuts(p) == {1} \cup {j \in 2 .. Len(p) : p[j] = Star}
NextCut(p, cut) == {j \in Cuts(p) : j > cut /\ \A m \in Cuts(p) : m > cut => j <= m}

\* The part before the next star is the same: that star is of the part when it
\* begins with one.
SamePart(p, s, cut) ==
  /\ cut <= Len(s)
  /\ \E e \in NextCut(p, cut) :
       IF p[cut] = Star THEN UpTo(p, cut + 1, e) = UpTo(s, cut + 1, e)
                        ELSE UpTo(p, cut, e - 1) = UpTo(s, cut, e - 1)

\* The call for this place says yes by itself.
Ended(p, s, cut) ==
  \/ From(p, cut) = From(s, cut)
  \/ From(p, cut) = <<>> /\ From(s, cut) = <<Star>>
  \/ From(p, cut) = <<Star>>
  \/ /\ cut <= Len(p) /\ cut <= Len(s)
     /\ p[cut] = Star /\ NextCut(p, cut) = {} /\ Contains(From(s, cut), From(p, cut + 1))

\* Mutant: a star must stand for something.
MatchesSomething(p, s) ==
  \E cut \in Cuts(p) :
    /\ Ended(p, s, cut) /\ (From(p, cut) = <<Star>> => From(s, cut) # <<>>)
    /\ \A c \in Cuts(p) : c < cut => SamePart(p, s, c)

Matches(p, s) ==
  \E cut \in Cuts(p) :
    /\ Ended(p, s, cut)
    /\ \A c \in Cuts(p) : c < cut => SamePart(p, s, c)

-----------------------------------------------------------------------------
\* What the comment above matches() says of a star: "zero or more of anything".
\* Each character of the pattern stands for the name's up to a place of its own.
Glob(p, s) ==
  \E to \in [0 .. Len(p) -> 0 .. Len(s)] :
    /\ to[0] = 0 /\ to[Len(p)] = Len(s)
    /\ \A j \in 1 .. Len(p) :
         IF p[j] = Star THEN to[j - 1] <= to[j]
         ELSE to[j] = to[j - 1] + 1 /\ s[to[j]] = p[j]

\* Names, patterns with a last star or none, as those of the shipped files are
\* but for one, and patterns with a star at most, as that one is too.
Word(s) == s \in Seq({s[j] : j \in DOMAIN s})
Name(s) == Word(s) /\ \A j \in 1 .. Len(s) : s[j] # Star
PlainPattern(p) == Word(p) /\ \A j \in 1 .. Len(p) - 1 : p[j] # Star
OneStar(p) == Word(p) /\ \A j, k \in 1 .. Len(p) : p[j] = Star /\ p[k] = Star => j = k

\* Behind what follows a star the name may go on.
Fits(p, s) ==
  IF PlainPattern(p) THEN Glob(p, s) ELSE \E n \in 0 .. Len(s) : Glob(p, SubSeq(s, 1, n))
=============================================================================
