--------------------------- MODULE StorageService ---------------------------
(***************************************************************************)
(* The encrypted tree below FS_STORAGE/ on the host: StorageService and    *)
(* the file half of EncryptDecrypt.                                        *)
(*                                                                         *)
(* Every segment of a path is hashed on the way to the host, file or       *)
(* directory alike, so a path names at most one host entry.  A file's      *)
(* ciphertext is abstracted to the content and the owner of the key pair   *)
(* it was encrypted for; an empty file has no ciphertext, and opens with   *)
(* any key.                                                                *)
(***************************************************************************)
EXTENDS Utils

CONSTANTS
    Content,      \* what mkfile may write
    Empty,        \* the empty content
    Unreadable    \* what a failed read gives: FileReadError

ASSUME ContentAssumption == Empty \in Content /\ Unreadable \notin Content

VARIABLES
    tree,   \* the directories that exist on the host
    data    \* host file |-> the key it is encrypted for, and its content

storageVars == <<tree, data>>

StorageTypeOK ==
    /\ tree \subseteq Path
    /\ DOMAIN data \subseteq Path
    /\ \A p \in DOMAIN data : data[p] \in [key : User, text : Content]

StorageInit == tree = {Root} /\ data = <<>>

-----------------------------------------------------------------------------
\* A component of the path is a file on the host (ENOTDIR).
Blocked(p) == \E i \in 1 .. Len(p) - 1 : SubSeq(p, 1, i) \in DOMAIN data

\* Does decrypting p with a key give a content?
CanFetch(p, key) ==
    p \in DOMAIN data /\ (data[p].text = Empty \/ data[p].key = key)

fetchFileContent(p, key) ==
    IF CanFetch(p, key) THEN data[p].text ELSE Unreadable

\* create_directories makes the missing parents too.
establishDirectory(dirs, p) == dirs \cup {SubSeq(p, 1, i) : i \in 0 .. Len(p)}

establishHome(dirs, u) ==
    establishDirectory(
        establishDirectory(establishDirectory(dirs, Home(u)), PersonalDir(u)),
        SharedDir(u))

\* Writing each path of DOMAIN keyOf, encrypted for keyOf[path].  Where the
\* parent directory is missing the ofstream does not open, secureFile returns
\* early, and nothing is written nor reported.
generateFiles(dirs, keyOf, content) ==
    LET written == {p \in DOMAIN keyOf : Parent(p) \in dirs}
    IN  [p \in DOMAIN data \cup written |->
            IF p \in written THEN [key |-> keyOf[p], text |-> content]
                             ELSE data[p]]

generateFile(dirs, p, key, content) ==
    generateFiles(dirs, [q \in {p} |-> key], content)

\* Mutant: the source is copied without being decrypted.
CanReplicateAny(src, dst, key) == src \in DOMAIN data /\ ~Blocked(dst)

\* replicateFile reads the source, removes the destination and writes it
\* again.  It throws when the source cannot be read, and when the removal
\* fails: remove() ignores a missing entry but not a file in the middle of
\* the path.
CanReplicate(src, dst, key) == CanFetch(src, key) /\ ~Blocked(dst)
=============================================================================
