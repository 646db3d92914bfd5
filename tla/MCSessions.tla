----------------------------- MODULE MCSessions -----------------------------
(***************************************************************************)
(* Small instances of Sessions for TLC.                                    *)
(***************************************************************************)
EXTENDS Sessions, TLC

CONSTANTS
    alice,      \* the user next to admin
    n,          \* a name
    c,          \* a content that is not empty
    MaxKeys,    \* bound on the key pairs generated
    MaxDirs,    \* bound on the directories on the host besides those of homes
    MaxFiles    \* bound on the files registered on the host

MCUser    == {Admin, alice}
MCContent == {Empty, c}

Bounded ==
    /\ Len(keys) <= MaxKeys
    /\ Cardinality(tree \ ({Root} \cup UNION {HomeDirs(u) : u \in User})) <= MaxDirs
    /\ \A p \in Proc : Cardinality(knownFiles(p)) <= MaxFiles
=============================================================================
