-------------------------------- MODULE CLI --------------------------------
(***************************************************************************)
(* One process of CipherFS at a time: the main loop of CipherFS.cpp and    *)
(* the commands of CLI.cpp, each a single step, over the data stores and   *)
(* the encrypted tree.  Sessions follow one another: a process may exit,   *)
(* which saves the stores, or die between two commands, which does not.    *)
(*                                                                         *)
(* A command that is refused changes nothing and is no step.               *)
(***************************************************************************)
EXTENDS StorageService, DataStoreHelper

CONSTANT Destination   \* the relative paths given to cd

ASSUME DestinationAssumption == Destination \subseteq Seq(Seg \cup {DotDot})

VARIABLES
    user,   \* who is logged in, NoUser when no process runs
    cwd     \* v_current_dir

sessionVars == <<user, cwd>>
vars == <<user, cwd, users, adminKeys, dirs, files, links, savedLinks, tree, data>>

TypeOK ==
    /\ user \in User \cup {NoUser}
    /\ cwd \in Path
    /\ StoreTypeOK
    /\ StorageTypeOK

Init ==
    /\ user = NoUser /\ cwd = Root
    /\ StoreInit
    /\ StorageInit

LoggedIn == user # NoUser
IsAdmin  == user = Admin

-----------------------------------------------------------------------------
(* Starting and ending a process *)

\* AccountHandler::createUser
createUser(u) ==
    /\ u \notin users
    /\ addUser(u)
    /\ tree' = establishHome(tree, u)

\* The first run creates admin, and exits.
FirstRun ==
    /\ ~LoggedIn
    /\ Admin \notin users
    /\ createUser(Admin)
    /\ UNCHANGED <<user, cwd, data>>

\* A start with the keyfile of a user.  (A start without one, or with one
\* that fits nobody, changes nothing.)
Login(u) ==
    /\ ~LoggedIn
    /\ Admin \in users
    /\ u \in users
    /\ user' = u
    /\ cwd' = Home(u)
    /\ UNCHANGED <<storeVars, storageVars>>

Leave == user' = NoUser /\ cwd' = Root

Exit ==
    /\ LoggedIn
    /\ persistData
    /\ Leave
    /\ UNCHANGED storageVars

\* The process is killed at its prompt; at the end of its input it never
\* leaves the prompt by itself.
Kill ==
    /\ LoggedIn
    /\ reload
    /\ Leave
    /\ UNCHANGED storageVars

-----------------------------------------------------------------------------
(* cd *)

MoveTo(dir) ==
    /\ cwd' = dir
    /\ UNCHANGED <<user, storeVars, storageVars>>

CdHome == LoggedIn /\ MoveTo(Home(user))

\* The parent is not looked up in the data stores.
CdUp ==
    /\ LoggedIn
    /\ cwd = Home(user) => IsAdmin
    /\ MoveTo(Parent(cwd))

\* Mutant: the owner of the directory is not asked for.
MayEnterAny(dir) == dir \in dirs \cup {Root}

\* Admin may enter every directory, and "/"; a user those of their own.
MayEnter(dir) ==
    IF IsAdmin THEN dir \in dirs \cup {Root}
               ELSE fetchOwner(dir) = user /\ dir \in dirs

CdTo(destination) ==
    LET newPath == Resolve(cwd, destination)
    IN  LoggedIn /\ MayEnter(newPath) /\ MoveTo(newPath)

-----------------------------------------------------------------------------
(* mkfile, mkdir, adduser *)

MayCreateHere == LoggedIn /\ checkPersonal(cwd, user)

\* A new file is registered before it is written.
MkfileCreate(name, content) ==
    LET path == Append(cwd, name)
    IN  /\ MayCreateHere
        /\ path \notin dirs
        /\ path \notin files
        /\ registerFile(path)
        /\ data' = generateFile(tree, path, user, content)
        /\ UNCHANGED <<user, cwd, users, adminKeys, dirs, links, savedLinks, tree>>

\* Mutant: the directory is only checked when the file is new.
MayOverwriteAny(path) == LoggedIn /\ path \notin dirs /\ path \in files

MayOverwrite(path) == MayCreateHere /\ path \notin dirs /\ path \in files

\* Mutant: the copies are written with the key of the writer too.
KeysForWriter(src, copies) == [p \in {src} \cup copies |-> user]

\* The keys the source and some of its copies are written with.
KeysFor(src, copies) ==
    [p \in {src} \cup copies |-> IF p = src THEN user ELSE fetchOwner(p)]

\* Mutant: the copies are not written.
MkfileOverwriteAlone(name, content) ==
    LET path == Append(cwd, name)
    IN  /\ MayOverwrite(path)
        /\ data' = generateFile(tree, path, user, content)
        /\ UNCHANGED <<user, cwd, storeVars, tree>>

\* An existing file is written, and then each copy of it that is linked.
MkfileOverwrite(name, content) ==
    LET path   == Append(cwd, name)
        copies == listSharedFiles(path)
    IN  /\ MayOverwrite(path)
        /\ \A p \in copies : ~Blocked(p)
        /\ data' = generateFiles(tree, KeysFor(path, copies), content)
        /\ UNCHANGED <<user, cwd, storeVars, tree>>

\* The copy loop is in no try block: where replicateFile throws, the process
\* dies.  The copies before that one in the list have been written.
MkfileAbort(name, content) ==
    LET path   == Append(cwd, name)
        copies == listSharedFiles(path)
    IN  /\ MayOverwrite(path)
        /\ \E p \in copies : Blocked(p)
        /\ \E before \in SUBSET {p \in copies : ~Blocked(p)} :
              data' = generateFiles(tree, KeysFor(path, before), content)
        /\ reload
        /\ Leave
        /\ UNCHANGED tree

\* Mutant: a file of the same name is not looked for.
MkdirOverFile(name) ==
    LET path == Append(cwd, name)
    IN  /\ MayCreateHere
        /\ path \notin dirs
        /\ registerDirectory(path)
        /\ tree' = establishDirectory(tree, path)
        /\ UNCHANGED <<user, cwd, users, adminKeys, files, links, savedLinks, data>>

Mkdir(name) ==
    LET path == Append(cwd, name)
    IN  /\ MayCreateHere
        /\ path \notin files
        /\ path \notin dirs
        /\ registerDirectory(path)
        /\ tree' = establishDirectory(tree, path)
        /\ UNCHANGED <<user, cwd, users, adminKeys, files, links, savedLinks, data>>

AddUser(u) ==
    /\ IsAdmin
    /\ createUser(u)
    /\ UNCHANGED <<user, cwd, data>>

-----------------------------------------------------------------------------
(* share *)

DestinationDir(target) == <<target, Shared, user>>

\* Mutant: the directory of the sharer is left out.
DestinationFileFlat(src, target) == <<target, Shared>> \o Below(cwd, src)

\* The copy of a file: the name given to share, slashes and all, below the
\* sharer's directory in the shared directory of the target.
DestinationFile(src, target) == DestinationDir(target) \o Below(cwd, src)

\* Mutant: sharing with oneself is not refused.
MayShareWithSelf(src, target) ==
    /\ LoggedIn
    /\ IsStrictPrefix(cwd, src)
    /\ ~InShared(src)
    /\ src \in files
    /\ target \in users
    /\ DestinationFile(src, target) \notin files

\* The checks of share, in order, for a name that gives the source path src.
MayShare(src, target) ==
    /\ LoggedIn
    /\ IsStrictPrefix(cwd, src)
    /\ ~InShared(src)
    /\ src \in files
    /\ target \in users
    /\ target # user
    /\ DestinationFile(src, target) \notin files

\* Mutant: the directory is registered, and not made.
EnsureDestinationDirUnmade(target) ==
    LET dir == DestinationDir(target)
    IN  IF dir \in dirs
        THEN UNCHANGED <<dirs, tree>>
        ELSE registerDirectory(dir) /\ UNCHANGED tree

\* The directory of the sharer below the target's shared directory, made
\* when it is missed, whatever becomes of the copy.
EnsureDestinationDir(target) ==
    LET dir == DestinationDir(target)
    IN  IF dir \in dirs
        THEN UNCHANGED <<dirs, tree>>
        ELSE tree' = establishDirectory(tree, dir) /\ registerDirectory(dir)

ShareDone(src, target) ==
    LET dst == DestinationFile(src, target)
    IN  /\ MayShare(src, target)
        /\ EnsureDestinationDir(target)
        /\ CanReplicate(src, dst, user)
        /\ data' = generateFile(tree', dst, target, data[src].text)
        /\ registerFile(dst)
        /\ shareFile(src, dst)
        /\ UNCHANGED <<user, cwd, users, adminKeys, savedLinks>>

\* replicateFile throws: the key of the sharer does not fit, as for admin, or
\* a file stands in the way of the copy.
ShareFailed(src, target) ==
    /\ MayShare(src, target)
    /\ ~CanReplicate(src, DestinationFile(src, target), user)
    /\ EnsureDestinationDir(target)
    /\ UNCHANGED <<user, cwd, users, adminKeys, files, links, savedLinks, data>>

\* "share  bob", with an empty name: the last character of an empty string is
\* undefined behaviour.  Unless it reads as a slash, which refuses, the current
\* directory passes for the file; it cannot be read, but the destination
\* directory is made, or taken for the copy when it is there.
ShareEmptyName(target) ==
    /\ LoggedIn
    /\ \A i \in 1 .. Len(cwd) : cwd[i] # Shared
    /\ cwd \in dirs
    /\ target \in users
    /\ target # user
    /\ DestinationDir(target) \notin dirs
    /\ EnsureDestinationDir(target)
    /\ UNCHANGED <<user, cwd, users, adminKeys, files, links, savedLinks, data>>

-----------------------------------------------------------------------------
(* cat and ls change nothing; what they show *)

\* What u reads in the file at a path.
cat(u, path) ==
    fetchFileContent(path, IF u = Admin THEN fetchPrivateKey(fetchOwner(path))
                                        ELSE u)

\* Mutant: paths are trimmed before the slash instead of after it.
lsTrimmedShort(dir) ==
    {[name |-> p[Len(dir) + 1], isDir |-> FALSE] :
        p \in {q \in dirs \cup files : IsStrictPrefix(dir, q)}}

\* The entries below a directory: its own files and directories, and a
\* directory for every longer path whether it is registered or not.
ls(dir) ==
    LET below(paths) == {p \in paths : IsStrictPrefix(dir, p)}
    IN  {[name |-> p[Len(dir) + 1], isDir |-> TRUE] : p \in below(dirs)}
        \cup
        {[name |-> p[Len(dir) + 1], isDir |-> Len(p) > Len(dir) + 1] :
            p \in below(files)}

-----------------------------------------------------------------------------
Next ==
    \/ FirstRun
    \/ \E u \in User : Login(u)
    \/ Exit
    \/ Kill
    \/ CdHome
    \/ CdUp
    \/ \E destination \in Destination : CdTo(destination)
    \/ \E name \in Name, content \in Content : MkfileCreate(name, content)
    \/ \E name \in Name, content \in Content : MkfileOverwrite(name, content)
    \/ \E name \in Name, content \in Content : MkfileAbort(name, content)
    \/ \E name \in Name : Mkdir(name)
    \/ \E u \in User : AddUser(u)
    \/ \E src \in files, target \in User : ShareDone(src, target)
    \/ \E src \in files, target \in User : ShareFailed(src, target)
    \/ \E target \in User : ShareEmptyName(target)

Spec == Init /\ [][Next]_vars

-----------------------------------------------------------------------------
(* Properties *)

\* The registered paths form a forest: with a directory every directory above
\* it is registered, every user has the three directories of a home, files lie
\* in a personal directory or below /target/shared/sharer/, directories never
\* lie deeper than that in a shared area, and no path is both a file and a
\* directory, which would be one entry on the host.
DirectoryPlaced(d) ==
    /\ d # Root /\ d[1] \in users
    /\ Len(d) > 1 => d[2] \in {Personal, Shared}
    /\ Len(d) > 3 => d[2] = Personal

FilePlaced(f) ==
    \/ Len(f) > 2 /\ f[2] = Personal /\ Parent(f) \in dirs
    \/ Len(f) > 3 /\ f[2] = Shared /\ SubSeq(f, 1, 3) \in dirs

Namespace ==
    /\ \A u \in users : HomeDirs(u) \subseteq dirs
    /\ Closed(dirs)
    /\ \A d \in dirs : DirectoryPlaced(d)
    /\ \A f \in files : FilePlaced(f)
    /\ dirs \cap files = {}

\* The host tree is what FileMappings says: the same directories, a host file
\* for every registered file whose directory is registered and no other, and
\* each encrypted for the owner of its path, whoever wrote it.
StorageMatches ==
    /\ tree = dirs \cup {Root}
    /\ DOMAIN data = {f \in files : Parent(f) \in dirs}
    /\ \A p \in DOMAIN data : data[p].key = fetchOwner(p)

\* Whatever way cd goes, a user stays in registered directories below their
\* own home; admin stays in registered directories, or "/".
CwdConfined ==
    LoggedIn =>
        /\ user \in users
        /\ cwd \in dirs \/ (IsAdmin /\ cwd = Root)
        /\ IsAdmin \/ fetchOwner(cwd) = user

\* A copy is a copy of one personal file that exists, never of another copy;
\* it lies where its sharer put it, and the sharer is the owner of the source
\* or admin, and not the recipient.  What is saved is known in memory too.
LinkShape ==
    /\ savedLinks \subseteq links
    /\ \A l \in links :
          /\ l[1] \in DOMAIN data /\ l[1][2] = Personal
          /\ l[2] \in files /\ Len(l[2]) > 3 /\ l[2][2] = Shared
          /\ l[2][3] \in {fetchOwner(l[1]), Admin}
          /\ l[2][3] # fetchOwner(l[2])
    /\ \A l, m \in links : l[2] = m[2] => l[1] = m[1]

\* Every copy that is linked and can be read holds what its source holds, in
\* a session and after a restart.  The exception is a copy whose place lies
\* below another file: it aborts the loop that updates the others.
CopiesFollow ==
    (\A f \in files : ~Blocked(f)) =>
        \A l \in links : l[2] \in DOMAIN data =>
            data[l[2]].text = data[l[1]].text

\* Admin reads every file there is on the host, with the owner's key.
AdminReads == \A p \in DOMAIN data : cat(Admin, p) = data[p].text

\* Outside the shared areas, what ls lists is what cd enters and cat reads.
ListingHonest ==
    \A d \in dirs \cup {Root} : (Len(d) > 1 => d[2] = Personal) =>
        \A e \in ls(d) :
            LET p == Append(d, e.name)
            IN  IF e.isDir THEN p \in dirs
                ELSE cat(fetchOwner(p), p) # Unreadable

\* The content of a file changes only by the hand of its owner or, for a copy,
\* of the owner of the source it is linked to; no file disappears.
OwnsSourceOf(p) == \E l \in links : l[2] = p /\ fetchOwner(l[1]) = user

WriteAuthority ==
    [][ /\ DOMAIN data \subseteq DOMAIN data'
        /\ \A p \in DOMAIN data : data'[p] # data[p] =>
              (fetchOwner(p) = user /\ p[2] = Personal) \/ OwnsSourceOf(p)
      ]_vars

\* The commands implement the service FileService describes, with the files
\* on the host for its contents and the links for its grants.
FS == INSTANCE FileService
      WITH accounts <- users,
           text     <- [p \in DOMAIN data |-> data[p].text],
           grants   <- links

ImplementsFileService == FS!Spec

-----------------------------------------------------------------------------
(* What the documentation and the messages say, and the code does not keep *)

\* README: share makes the file appear in the target's directory "with
\* read-only permissions": the recipient of a share can read the copy.
SharedIsReadable ==
    \A l \in links : cat(fetchOwner(l[2]), l[2]) # Unreadable
=============================================================================
