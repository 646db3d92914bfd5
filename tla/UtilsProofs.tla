----------------------------- MODULE UtilsProofs -----------------------------
(***************************************************************************)
(* Lemmas about the paths of Utils: prefixes, parents, children, the       *)
(* directories of a home and the place share gives a copy.                 *)
(***************************************************************************)
EXTENDS Utils, SequenceTheorems, TLAPS

\* Arithmetic the provers do not see through Len.
LEMMA OneOrMore == \A k : k \in Nat /\ k > 0 => k = 1 \/ k > 1
    OBVIOUS

LEMMA AtMostThree == \A k : k \in 1 .. 2 \/ k = 3 => k <= 3 /\ ~ (k > 3)
    OBVIOUS

LEMMA RootIsPath == Root \in Path
    BY EmptySeq DEF Root, Path

\* A prefix of a path is a path, and agrees with it.
LEMMA PrefixOfPath ==
    ASSUME NEW p \in Path, NEW k \in 0 .. Len(p)
    PROVE  /\ SubSeq(p, 1, k) \in Path
           /\ Len(SubSeq(p, 1, k)) = k
           /\ \A i \in 1 .. k : SubSeq(p, 1, k)[i] = p[i]
<1>1. Len(p) \in Nat /\ \A i \in 1 .. Len(p) : p[i] \in Seg
    BY LenProperties, ElementOfSeq DEF Path
<1>2. \A i \in 1 .. k : p[i] \in Seg
    BY <1>1
<1>3. k \in Int /\ 1 \in Int
    BY <1>1
<1> QED
    BY <1>1, <1>2, <1>3, SubSeqProperties DEF Path

\* The parent of a path other than "/" is one segment shorter.
LEMMA ParentOfPath ==
    ASSUME NEW p \in Path
    PROVE  /\ Parent(p) \in Path
           /\ p # Root => /\ Len(p) > 0
                          /\ Len(Parent(p)) = Len(p) - 1
                          /\ \A i \in 1 .. Len(p) - 1 : Parent(p)[i] = p[i]
<1>1. CASE p = Root
    BY <1>1 DEF Parent
<1>2. CASE p # Root
  <2>1. Len(p) \in Nat \ {0}
    BY <1>2, EmptySeq, LenProperties DEF Path, Root
  <2>2. Len(p) - 1 \in 0 .. Len(p)
    BY <2>1
  <2> DEFINE k == Len(p) - 1
  <2>3. /\ SubSeq(p, 1, k) \in Path /\ Len(SubSeq(p, 1, k)) = k
        /\ \A i \in 1 .. k : SubSeq(p, 1, k)[i] = p[i]
    BY <2>2, PrefixOfPath
  <2>4. Parent(p) = SubSeq(p, 1, k)
    BY <1>2 DEF Parent, Front
  <2> QED
    BY <2>1, <2>3, <2>4
<1> QED
    BY <1>1, <1>2

\* A name in a directory: the path it makes, and back.
LEMMA ChildOfPath ==
    ASSUME NEW d \in Path, NEW name \in Name
    PROVE  /\ Append(d, name) \in Path
           /\ Len(Append(d, name)) = Len(d) + 1
           /\ \A i \in 1 .. Len(d) : Append(d, name)[i] = d[i]
           /\ Append(d, name) # Root
           /\ Parent(Append(d, name)) = d
<1> DEFINE p == Append(d, name)
<1>1. name \in Seg /\ Len(d) \in Nat
    BY LenProperties DEF Seg, Path
<1>2. /\ p \in Path /\ Len(p) = Len(d) + 1 /\ p # Root
      /\ \A i \in 1 .. Len(d) : p[i] = d[i]
    BY <1>1, AppendProperties DEF Path, Root
<1>3. /\ Parent(p) \in Path
      /\ Len(Parent(p)) = Len(d)
      /\ \A i \in 1 .. Len(d) : Parent(p)[i] = d[i]
  <2> HIDE DEF p
  <2>1. /\ Parent(p) \in Path /\ Len(Parent(p)) = Len(p) - 1
        /\ \A i \in 1 .. Len(p) - 1 : Parent(p)[i] = p[i]
    BY <1>2, ParentOfPath
  <2>2. Len(p) - 1 = Len(d)
    BY <1>1, <1>2
  <2> QED
    BY <1>2, <2>1, <2>2
<1>4. Parent(p) = d
    BY <1>3, SeqEqual DEF Path
<1> QED
    BY <1>2, <1>4

\* The directories of a home.
LEMMA HomePaths ==
    ASSUME NEW u \in User
    PROVE  /\ HomeDirs(u) \subseteq Path
           /\ \A d \in HomeDirs(u) : /\ d # Root /\ d[1] = u /\ Len(d) \in 1 .. 2
                                     /\ Len(d) = 2 => d[2] \in {Personal, Shared}
           /\ Len(Home(u)) = 1 /\ Home(u)[1] = u
           /\ Parent(PersonalDir(u)) = Home(u)
           /\ Parent(SharedDir(u)) = Home(u)
<1>1. {u, Personal, Shared} \subseteq Seg
    BY DEF Seg
<1>2. HomeDirs(u) \subseteq Path
    BY <1>1 DEF HomeDirs, Home, PersonalDir, SharedDir, Path
<1>3. \A d \in HomeDirs(u) : /\ d # Root /\ d[1] = u /\ Len(d) \in 1 .. 2
                             /\ Len(d) = 2 => d[2] \in {Personal, Shared}
    BY DEF HomeDirs, Home, PersonalDir, SharedDir, Root
<1>4. Len(Home(u)) = 1 /\ Home(u)[1] = u /\ Home(u) \in Path
    BY <1>1 DEF Home, Path
<1>5. ASSUME NEW s \in {Personal, Shared}
      PROVE  Parent(<<u, s>>) = <<u>>
  <2> DEFINE d == <<u, s>>
  <2>1. d \in Path
    BY <1>1 DEF Path
  <2>2. d # Root /\ Len(d) = 2 /\ d[1] = u
    BY DEF Root
  <2> HIDE DEF d
  <2>3. /\ Parent(d) \in Path /\ Len(Parent(d)) = Len(d) - 1
        /\ \A i \in 1 .. Len(d) - 1 : Parent(d)[i] = d[i]
    BY <2>1, <2>2, ParentOfPath
  <2>4. Len(Parent(d)) = 1 /\ Parent(d)[1] = u
    BY <2>2, <2>3
  <2>5. Parent(d) = <<u>>
    BY <1>1, <2>3, <2>4 DEF Path
  <2> QED
    BY <2>5 DEF d
<1> QED
    BY <1>2, <1>3, <1>4, <1>5 DEF PersonalDir, SharedDir, Home

\* The copy share makes of a file below the current directory.
LEMMA CopyPath ==
    ASSUME NEW d \in Path, NEW src \in Path, IsStrictPrefix(d, src),
           NEW t \in User, NEW u \in User
    PROVE  LET dir == <<t, Shared, u>>
               dst == dir \o Below(d, src)
           IN  /\ dir \in Path /\ Len(dir) = 3
               /\ dst \in Path /\ Len(dst) > 3
               /\ SubSeq(dst, 1, 3) = dir
               /\ dst[1] = t /\ dst[2] = Shared /\ dst[3] = u
               /\ dst # Root
               /\ Len(d) < Len(src)
               /\ \A i \in 1 .. Len(d) : src[i] = d[i]
<1> DEFINE dir  == <<t, Shared, u>>
           name == Below(d, src)
           dst  == dir \o name
<1>1. dir \in Path /\ Len(dir) = 3
    BY DEF Path, Seg
<1>2. /\ Len(d) \in Nat /\ Len(src) \in Nat /\ Len(d) <= Len(src)
      /\ SubSeq(d, 1, Len(d)) = SubSeq(src, 1, Len(d)) /\ d # src
    BY LenProperties DEF IsStrictPrefix, IsPrefix, Path
<1>3. SubSeq(d, 1, Len(d)) = d
    BY SubSeqFull DEF Path
<1>4. Len(d) < Len(src)
  <2>1. SUFFICES ASSUME Len(d) = Len(src) PROVE FALSE
    BY <1>2
  <2>2. SubSeq(src, 1, Len(src)) = src
    BY SubSeqFull DEF Path
  <2> QED
    BY <1>2, <1>3, <2>1, <2>2
<1>5. \A i \in 1 .. Len(d) : src[i] = d[i]
    BY <1>2, <1>3, PrefixOfPath
<1>6. name \in Path /\ Len(name) = Len(src) - Len(d)
  <2>1. \A i \in Len(d) + 1 .. Len(src) : src[i] \in Seg
    BY <1>2, ElementOfSeq DEF Path
  <2>2. Len(d) + 1 \in Int /\ Len(src) \in Int /\ Len(d) + 1 <= Len(src)
    BY <1>2, <1>4
  <2>3. /\ name \in Seq(Seg)
        /\ Len(name) = IF Len(d) + 1 <= Len(src) THEN Len(src) - (Len(d) + 1) + 1 ELSE 0
    BY <2>1, <2>2, SubSeqProperties DEF Below
  <2> QED
    BY <1>2, <2>2, <2>3 DEF Path
<1>7. dst \in Path /\ Len(dst) = 3 + Len(name)
    BY <1>1, <1>6, ConcatProperties DEF Path
<1>8. Len(dst) \in Nat /\ Len(dst) > 3
    BY <1>2, <1>4, <1>6, <1>7
<1>9. \A i \in 1 .. 3 : dst[i] = dir[i]
  <2>1. \A i \in 1 .. Len(dir) + Len(name) :
            dst[i] = IF i <= Len(dir) THEN dir[i] ELSE name[i - Len(dir)]
    BY <1>1, <1>6, ConcatProperties DEF Path
  <2> QED
    BY <1>1, <1>2, <1>4, <1>6, <2>1
<1>10. SubSeq(dst, 1, 3) = dir
  <2>1. 3 \in 0 .. Len(dst)
    BY <1>8
  <2>2. /\ SubSeq(dst, 1, 3) \in Path /\ Len(SubSeq(dst, 1, 3)) = 3
        /\ \A i \in 1 .. 3 : SubSeq(dst, 1, 3)[i] = dst[i]
    BY <1>7, <2>1, PrefixOfPath
  <2>3. \A i \in 1 .. 3 : SubSeq(dst, 1, 3)[i] = dir[i]
    BY <1>9, <2>2
  <2> HIDE DEF dir, dst
  <2> QED
    BY <1>1, <2>2, <2>3, SeqEqual DEF Path
<1>11. dir[1] = t /\ dir[2] = Shared /\ dir[3] = u
    OBVIOUS
<1>12. dst # Root
    BY <1>8 DEF Root
<1> QED
    BY <1>1, <1>4, <1>5, <1>7, <1>8, <1>9, <1>10, <1>11, <1>12

\* A directory whose parent is in a set that has every directory above its
\* own can be added to that set.
LEMMA ClosedExtension ==
    ASSUME NEW S \in SUBSET Path,
           Closed(S),
           NEW d \in Path, d # Root, Len(d) = 1 \/ Parent(d) \in S
    PROVE  /\ Closed(S \cup {d})
           /\ \A i \in 1 .. Len(d) : SubSeq(d, 1, i) \in S \cup {d}
           /\ SubSeq(d, 1, 0) = Root
           /\ SubSeq(d, 1, Len(d)) = d
           /\ Len(d) \in Nat \ {0}
<1>1. Len(d) \in Nat \ {0}
    BY EmptySeq, LenProperties DEF Path, Root
<1>2. SubSeq(d, 1, 0) = Root
    BY SubSeqEmpty DEF Root
<1>3. SubSeq(d, 1, Len(d)) = d
    BY SubSeqFull DEF Path
<1>4. ASSUME NEW i \in 1 .. Len(d), i # Len(d)
      PROVE  SubSeq(d, 1, i) \in S
  <2> DEFINE q == Parent(d)
  <2>1. /\ q \in S /\ q \in Path /\ Len(q) = Len(d) - 1
        /\ \A j \in 1 .. Len(d) - 1 : q[j] = d[j]
    <3>1. i \in Int /\ 1 <= i /\ i < Len(d)
      BY <1>1, <1>4
    <3>2. Len(d) > 1
      BY <1>1, <3>1
    <3> QED
      BY <1>1, <3>2, ParentOfPath
  <2>2. i \in 1 .. Len(q) /\ i \in 0 .. Len(q) /\ i \in 0 .. Len(d)
    BY <1>1, <1>4, <2>1
  <2>3. SubSeq(q, 1, i) \in S
    BY <2>1, <2>2 DEF Closed
  <2> HIDE DEF q
  <2>4. /\ SubSeq(q, 1, i) \in Path /\ Len(SubSeq(q, 1, i)) = i
        /\ \A j \in 1 .. i : SubSeq(q, 1, i)[j] = q[j]
    BY <2>1, <2>2, PrefixOfPath
  <2>5. /\ SubSeq(d, 1, i) \in Path /\ Len(SubSeq(d, 1, i)) = i
        /\ \A j \in 1 .. i : SubSeq(d, 1, i)[j] = d[j]
    BY <2>2, PrefixOfPath
  <2>6. \A j \in 1 .. i : SubSeq(q, 1, i)[j] = SubSeq(d, 1, i)[j]
    BY <1>1, <2>1, <2>2, <2>4, <2>5
  <2>7. SubSeq(q, 1, i) = SubSeq(d, 1, i)
    BY <2>4, <2>5, <2>6, SeqEqual DEF Path
  <2> QED
    BY <2>3, <2>7
<1>5. \A i \in 1 .. Len(d) : SubSeq(d, 1, i) \in S \cup {d}
    BY <1>3, <1>4
<1>6. Closed(S \cup {d})
    BY <1>5 DEF Closed
<1> QED
    BY <1>1, <1>2, <1>3, <1>5, <1>6

\* A prefix of a prefix.
LEMMA PrefixOfPrefix ==
    ASSUME NEW p \in Path, NEW k \in 0 .. Len(p), NEW j \in 0 .. k
    PROVE  SubSeq(SubSeq(p, 1, k), 1, j) = SubSeq(p, 1, j)
<1> DEFINE q == SubSeq(p, 1, k)
<1>1. /\ q \in Path /\ Len(q) = k /\ \A i \in 1 .. k : q[i] = p[i]
    BY PrefixOfPath
<1>2. j \in 0 .. Len(p) /\ j \in Nat /\ k \in Nat
    BY LenProperties DEF Path
<1> HIDE DEF q
<1>3. /\ SubSeq(q, 1, j) \in Path /\ Len(SubSeq(q, 1, j)) = j
      /\ \A i \in 1 .. j : SubSeq(q, 1, j)[i] = q[i]
    BY <1>1, PrefixOfPath
<1>4. /\ SubSeq(p, 1, j) \in Path /\ Len(SubSeq(p, 1, j)) = j
      /\ \A i \in 1 .. j : SubSeq(p, 1, j)[i] = p[i]
    BY <1>2, PrefixOfPath
<1>5. \A i \in 1 .. j : i \in 1 .. k
    BY <1>2
<1>6. \A i \in 1 .. j : SubSeq(q, 1, j)[i] = SubSeq(p, 1, j)[i]
    BY <1>1, <1>3, <1>4, <1>5
<1>7. SubSeq(q, 1, j) = SubSeq(p, 1, j)
    BY <1>3, <1>4, <1>6, SeqEqual DEF Path
<1> QED
    BY <1>7 DEF q

\* The entry of a directory that leads to a path below it.
LEMMA EntryOfPath ==
    ASSUME NEW d \in Path, NEW q \in Path, IsStrictPrefix(d, q)
    PROVE  /\ Len(d) \in Nat /\ Len(q) \in Nat /\ Len(d) < Len(q)
           /\ \A i \in 1 .. Len(d) : q[i] = d[i]
           /\ Append(d, q[Len(d) + 1]) = SubSeq(q, 1, Len(d) + 1)
           /\ Len(q) = Len(d) + 1 => SubSeq(q, 1, Len(d) + 1) = q
<1> DEFINE k == Len(d)
           len == Len(q)
<1>1. /\ k \in Nat /\ len \in Nat /\ k <= len
      /\ SubSeq(d, 1, k) = SubSeq(q, 1, k) /\ d # q
    BY LenProperties DEF IsStrictPrefix, IsPrefix, Path
<1>2. SubSeq(d, 1, k) = d /\ SubSeq(q, 1, len) = q
    BY SubSeqFull DEF Path
<1> HIDE DEF k, len
<1>3. k < len /\ k + 1 \in 0 .. len /\ k \in 0 .. len /\ k + 1 \in 1 .. len
    BY <1>1, <1>2
<1>4. /\ SubSeq(q, 1, k + 1) \in Path /\ Len(SubSeq(q, 1, k + 1)) = k + 1
      /\ \A i \in 1 .. k + 1 : SubSeq(q, 1, k + 1)[i] = q[i]
    BY <1>3, PrefixOfPath DEF len
<1>5. \A i \in 1 .. k : d[i] = q[i]
  <2>1. \A i \in 1 .. k : SubSeq(q, 1, k)[i] = q[i]
    BY <1>3, PrefixOfPath DEF len
  <2> QED
    BY <1>1, <1>2, <2>1
<1>6. q[k + 1] \in Seg
    BY <1>3, ElementOfSeq DEF Path, len
<1> DEFINE e == q[k + 1]
           longer == Append(d, e)
<1>7. /\ longer \in Seq(Seg) /\ Len(longer) = k + 1
      /\ \A i \in 1 .. k : longer[i] = d[i]
      /\ longer[k + 1] = e
    BY <1>6, AppendProperties DEF Path, k
<1>8. \A i \in 1 .. k + 1 : longer[i] = SubSeq(q, 1, k + 1)[i]
  <2> HIDE DEF longer
  <2> TAKE i \in 1 .. k + 1
  <2>1. i \in 1 .. k \/ i = k + 1
    BY <1>1
  <2> QED
    BY <1>4, <1>5, <1>7, <2>1
<1>9. longer = SubSeq(q, 1, k + 1)
  <2> HIDE DEF longer
  <2> QED
    BY <1>4, <1>7, <1>8, SeqEqual DEF Path
<1> QED
    BY <1>1, <1>2, <1>3, <1>5, <1>9 DEF k, len
=============================================================================
