------------------------------- MODULE MCCLI -------------------------------
(***************************************************************************)
(* Small instances of CLI for TLC: admin and two users, one or two names   *)
(* that serve for files and directories alike.                             *)
(***************************************************************************)
EXTENDS CLI, TLC

CONSTANTS
    alice, bob,     \* the users next to admin
    n,              \* a name
    c,              \* a content that is not empty
    MaxDepth,       \* bound on the length of a directory's path
    MaxDirs,        \* bound on the number of directories besides those of homes
    MaxFiles        \* bound on the number of registered files

MCUser    == {Admin, alice, bob}
MCContent == {Empty, c}

\* Into a directory, out of it and into another, up beyond a home and "/", and
\* into somebody else's files.
MCDestination ==
    {<<Personal>>, <<Shared>>, <<n>>, <<Personal, n>>, <<DotDot, DotDot>>,
     <<DotDot, Personal>>, <<DotDot, DotDot, DotDot, DotDot>>}
    \cup {<<DotDot, u>> : u \in MCUser}
    \cup {<<DotDot, u, Personal>> : u \in MCUser}
    \cup {<<u>> : u \in MCUser}

\* alice and bob are interchangeable.
Symmetry == Permutations({alice, bob})

Bounded ==
    /\ \A d \in dirs : Len(d) <= MaxDepth
    /\ Cardinality(dirs \ UNION {HomeDirs(u) : u \in User}) <= MaxDirs
    /\ Cardinality(files) <= MaxFiles
=============================================================================
