-------------------------- MODULE DataStoreHelper --------------------------
(***************************************************************************)
(* The data stores: FileMappings.json (FileDataStore), UserInfo.json and   *)
(* AdminKeys.json (UserDataStore) and SharedInfo.json (SharedDataStore),   *)
(* behind DataStoreHelper.                                                 *)
(*                                                                         *)
(* A process reads all of them when it starts.  FileMappings is written    *)
(* back at every registration, UserInfo and AdminKeys by addUser, so with  *)
(* one process at a time memory and disk agree on them between commands.   *)
(* SharedInfo is written back only by addUser and at a regular exit: its   *)
(* memory and its file are two variables.                                  *)
(*                                                                         *)
(* The stores are keyed by the SHA-256 of the path, which is taken to be   *)
(* injective: a key is the path itself.                                    *)
(***************************************************************************)
EXTENDS Utils

VARIABLES
    users,      \* UserInfo: the users, each with its public key
    adminKeys,  \* AdminKeys: the users whose private key admin holds
    dirs,       \* FileMappings: the registered directories
    files,      \* FileMappings: the registered files
    links,      \* SharedInfo in memory: pairs <<source, copy>>
    savedLinks  \* SharedInfo.json

storeVars == <<users, adminKeys, dirs, files, links, savedLinks>>

StoreTypeOK ==
    /\ users \subseteq User
    /\ adminKeys \subseteq User
    /\ dirs \subseteq Path
    /\ files \subseteq Path
    /\ links \subseteq Path \X Path
    /\ savedLinks \subseteq Path \X Path

StoreInit ==
    /\ users = {} /\ adminKeys = {}
    /\ dirs = {}  /\ files = {}
    /\ links = {} /\ savedLinks = {}

-----------------------------------------------------------------------------
\* The copies of a file the links know of.  (SharedInfo keeps them in the
\* order they were made; the order is abstracted.)
listSharedFiles(src) == {l[2] : l \in {m \in links : m[1] = src}}

\* The key admin holds for a user, or none.  (Asking for one that is missing
\* leaves a null record, which holds no key either.)
fetchPrivateKey(u) == IF u \in adminKeys THEN u ELSE NoUser

\* Mutant: the copy is recorded without its source.
shareFileCopyOnly(src, dst) == links' = links \cup {dst}

registerFile(p)      == files' = files \cup {p}
registerDirectory(p) == dirs' = dirs \cup {p}
shareFile(src, dst)  == links' = links \cup {<<src, dst>>}

\* Mutant: the private key of the new user is not kept for admin.
addUserKeyLost(u) ==
    /\ users' = users \cup {u}
    /\ dirs' = dirs \cup HomeDirs(u)
    /\ savedLinks' = links
    /\ UNCHANGED <<adminKeys, files, links>>

\* A new user: keys, the three directories, and all stores written back.
addUser(u) ==
    /\ users' = users \cup {u}
    /\ adminKeys' = adminKeys \cup {u}
    /\ dirs' = dirs \cup HomeDirs(u)
    /\ savedLinks' = links
    /\ UNCHANGED <<files, links>>

\* The destructors, at a regular exit.
persistData ==
    /\ savedLinks' = links
    /\ UNCHANGED <<users, adminKeys, dirs, files, links>>

\* The process dies without its destructors; the next one reads the disk.
reload ==
    /\ links' = savedLinks
    /\ UNCHANGED <<users, adminKeys, dirs, files, savedLinks>>
=============================================================================
