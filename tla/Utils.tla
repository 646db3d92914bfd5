------------------------------- MODULE Utils -------------------------------
(***************************************************************************)
(* Virtual paths, and the pure helpers of include/Utils.h on them.         *)
(*                                                                         *)
(* CipherFS keeps a path as a string: "/alice/personal/notes" is a file    *)
(* and "/alice/personal/" a directory.  Here a path is the sequence of its *)
(* segments, the empty sequence being "/".  What the trailing slash says   *)
(* (file or directory) is told by the set the path is registered in, see   *)
(* DataStoreHelper.                                                        *)
(***************************************************************************)
EXTENDS Naturals, Sequences, SequencesExt

CONSTANTS
    User,   \* the user names that may be given to adduser
    Name    \* the names checkName accepts that are used in mkfile and mkdir

Admin    == "admin"
Personal == "personal"
Shared   == "shared"
DotDot   == ".."
NoUser   == ""      \* what fetchOwner returns for "/"

\* adduser lets the empty name through; that name is left to a later module,
\* and excluded here because fetchOwner could not tell it from "no owner".
ASSUME UserAssumption == Admin \in User /\ NoUser \notin User
\* adduser refuses '.', checkName refuses "..".
ASSUME NameAssumption == DotDot \notin User \cup Name

Seg  == User \cup Name \cup {Personal, Shared}
Path == Seq(Seg)
Root == <<>>

Home(u)        == <<u>>
PersonalDir(u) == <<u, Personal>>
SharedDir(u)   == <<u, Shared>>
HomeDirs(u)    == {Home(u), PersonalDir(u), SharedDir(u)}

-----------------------------------------------------------------------------
\* The first segment of a path.
fetchOwner(p) == IF p = Root THEN NoUser ELSE p[1]

\* Mutant: any directory of the user is taken for personal.
checkPersonalOwnerOnly(p, username) == Len(p) >= 2 /\ p[1] = username

\* Is a directory inside /username/personal/ ?
checkPersonal(p, username) ==
    Len(p) >= 2 /\ p[1] = username /\ p[2] = Personal

\* The segments of a path below one of its prefixes.
Below(dir, p) == SubSeq(p, Len(dir) + 1, Len(p))

\* The directory a path is in; "/" is in itself.
Parent(p) == IF p = Root THEN Root ELSE Front(p)

\* Where a relative path given to cd leads: ".." drops a segment, any other
\* segment is appended, and a leading "/" makes no difference.
Resolve(dir, destination) ==
    FoldLeft(LAMBDA p, s : IF s = DotDot THEN Parent(p) ELSE Append(p, s),
             dir, destination)

\* With a path, a set has every path above it.
Closed(paths) ==
    \A p \in paths : \A i \in 1 .. Len(p) : SubSeq(p, 1, i) \in paths

\* Mutant: what was shared is not told apart.
InSharedNever(p) == FALSE

\* Does the string of a file's path contain "/shared/" ?  Every segment but
\* the last is followed by a slash.
InShared(p) == \E i \in 1 .. Len(p) - 1 : p[i] = Shared
=============================================================================
