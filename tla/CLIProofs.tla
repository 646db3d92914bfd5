------------------------------ MODULE CLIProofs ------------------------------
(***************************************************************************)
(* Proofs about CLI, for all users, names, contents and destinations.      *)
(***************************************************************************)
EXTENDS CLI, UtilsProofs

\* The inductive invariant.  TypeOK is not inductive by itself: a copy is
\* encrypted for the first segment of its path, which is a user because files
\* lie where Namespace says.
IInv ==
    /\ TypeOK
    /\ Namespace
    /\ StorageMatches
    /\ CwdConfined
    /\ LinkShape

-----------------------------------------------------------------------------
(* What the invariant says of one directory and of one file *)

LEMMA DirFacts ==
    ASSUME TypeOK, Namespace, NEW d \in dirs
    PROVE  /\ d \in Path /\ d # Root /\ Len(d) \in Nat /\ Len(d) > 0
           /\ d[1] \in users /\ d[1] \in User
           /\ fetchOwner(d) = d[1]
           /\ Len(d) > 1 => Parent(d) \in dirs
<1>1. d \in Path /\ d # Root /\ d[1] \in users /\ d[1] \in User
    BY DEF TypeOK, StoreTypeOK, Namespace, DirectoryPlaced
<1>2. Len(d) \in Nat /\ Len(d) > 0
    BY <1>1, ParentOfPath, LenProperties DEF Path
<1>3. ASSUME Len(d) > 1
      PROVE  Parent(d) \in dirs
  <2>1. Len(d) - 1 \in 1 .. Len(d)
    BY <1>2, <1>3
  <2>2. SubSeq(d, 1, Len(d) - 1) \in dirs
    BY <2>1 DEF Namespace, Closed
  <2> QED
    BY <1>1, <2>2 DEF Parent, Front
<1> QED
    BY <1>1, <1>2, <1>3 DEF fetchOwner

LEMMA FileFacts ==
    ASSUME TypeOK, Namespace, NEW f \in files
    PROVE  /\ f \in Path /\ f # Root /\ Len(f) \in Nat /\ Len(f) > 2
           /\ f[1] \in users /\ f[1] \in User
           /\ fetchOwner(f) = f[1]
           /\ f \notin dirs
<1>1. f \in Path /\ FilePlaced(f) /\ f \notin dirs
    BY DEF TypeOK, StoreTypeOK, Namespace
<1>2. Len(f) \in Nat /\ Len(f) > 2
    BY <1>1, LenProperties DEF FilePlaced, Path
<1>3. f # Root
    BY <1>2 DEF Root
<1>4. f[1] \in users
  <2>1. CASE Parent(f) \in dirs
    <3>1. Parent(f)[1] = f[1]
      BY <1>1, <1>2, <1>3, ParentOfPath
    <3>2. Parent(f)[1] \in users
      BY <2>1, DirFacts
    <3> QED
      BY <3>1, <3>2
  <2>2. CASE Len(f) > 3 /\ SubSeq(f, 1, 3) \in dirs
    <3>1. 3 \in 0 .. Len(f)
      BY <1>2, <2>2
    <3>2. SubSeq(f, 1, 3)[1] = f[1]
      BY <1>1, <3>1, PrefixOfPath
    <3>3. SubSeq(f, 1, 3)[1] \in users
      BY <2>2, DirFacts
    <3> QED
      BY <3>2, <3>3
  <2> QED
    BY <1>1, <2>1, <2>2 DEF FilePlaced
<1>5. f[1] \in User
    BY <1>4 DEF TypeOK, StoreTypeOK
<1> QED
    BY <1>1, <1>2, <1>3, <1>4, <1>5 DEF fetchOwner

\* A new directory is the parent of no registered file.
LEMMA NoOrphan ==
    ASSUME TypeOK, Namespace, NEW f \in files,
           NEW d, d \notin dirs, Len(d) <= 3 \/ d[2] # Shared
    PROVE  Parent(f) # d
<1> SUFFICES ASSUME Parent(f) = d
             PROVE  FALSE
    OBVIOUS
<1>1. f \in Path /\ f # Root /\ Len(f) \in Nat
    BY FileFacts
<1>2. /\ Len(d) = Len(f) - 1 /\ d \in Path
      /\ \A i \in 1 .. Len(f) - 1 : d[i] = f[i]
    BY <1>1, ParentOfPath
<1>3. Len(f) > 3 /\ f[2] = Shared /\ SubSeq(f, 1, 3) \in dirs
    BY DEF Namespace, FilePlaced
<1>4. d[2] = Shared
    BY <1>1, <1>2, <1>3
<1>5. Len(f) = 4
    BY <1>1, <1>2, <1>3, <1>4
<1>6. Parent(f) = SubSeq(f, 1, 3)
    BY <1>1, <1>5 DEF Parent, Front
<1> QED
    BY <1>3, <1>6

-----------------------------------------------------------------------------
(* Directories that are registered and established *)

LEMMA EstablishOne ==
    ASSUME NEW S \in SUBSET Path, Closed(S),
           NEW d \in Path, d # Root, Len(d) = 1 \/ Parent(d) \in S
    PROVE  /\ Closed(S \cup {d})
           /\ establishDirectory(S \cup {Root}, d) = S \cup {d} \cup {Root}
<1> DEFINE prefixes == {SubSeq(d, 1, i) : i \in 0 .. Len(d)}
<1>1. /\ Closed(S \cup {d})
      /\ \A i \in 1 .. Len(d) : SubSeq(d, 1, i) \in S \cup {d}
      /\ SubSeq(d, 1, 0) = Root
      /\ SubSeq(d, 1, Len(d)) = d
    BY ClosedExtension
<1>2. Len(d) \in Nat \ {0}
    BY ClosedExtension
<1>3. /\ \A i \in 0 .. Len(d) : i = 0 \/ i \in 1 .. Len(d)
      /\ Len(d) \in 0 .. Len(d)
    BY <1>2
<1>4. prefixes \subseteq S \cup {d} \cup {Root}
    BY <1>1, <1>3
<1>5. d \in prefixes
    BY <1>1, <1>3
<1> QED
    BY <1>1, <1>4, <1>5 DEF establishDirectory

\* The three directories of a new user.
LEMMA EstablishHome ==
    ASSUME NEW S \in SUBSET Path, Closed(S), NEW u \in User
    PROVE  /\ Closed(S \cup HomeDirs(u))
           /\ establishHome(S \cup {Root}, u) = S \cup HomeDirs(u) \cup {Root}
<1> DEFINE h == Home(u)
           p == PersonalDir(u)
           s == SharedDir(u)
           S1 == S \cup {h}
           S2 == S1 \cup {p}
           S3 == S2 \cup {s}
<1>1. /\ h \in Path /\ p \in Path /\ s \in Path
      /\ h # Root /\ p # Root /\ s # Root
      /\ Len(h) = 1 /\ Parent(p) = h /\ Parent(s) = h
    BY HomePaths DEF HomeDirs
<1>2. S3 = S \cup HomeDirs(u)
    BY DEF HomeDirs
<1> HIDE DEF h, p, s
<1>3. Closed(S1) /\ establishDirectory(S \cup {Root}, h) = S1 \cup {Root}
    BY <1>1, EstablishOne
<1>4. Closed(S2) /\ establishDirectory(S1 \cup {Root}, p) = S2 \cup {Root}
  <2>1. S1 \in SUBSET Path /\ Parent(p) \in S1
    BY <1>1
  <2> QED
    BY <1>1, <1>3, <2>1, EstablishOne
<1>5. Closed(S3) /\ establishDirectory(S2 \cup {Root}, s) = S3 \cup {Root}
  <2>1. S2 \in SUBSET Path /\ Parent(s) \in S2
    BY <1>1
  <2> QED
    BY <1>1, <1>4, <2>1, EstablishOne
<1>6. establishHome(S \cup {Root}, u) = S3 \cup {Root}
    BY <1>3, <1>4, <1>5 DEF establishHome, h, p, s
<1> QED
    BY <1>2, <1>5, <1>6

-----------------------------------------------------------------------------
(* Steps that leave the files alone *)

\* A step that only moves the session, saves links or forgets some.
LEMMA SessionStep ==
    ASSUME IInv,
           UNCHANGED <<users, adminKeys, dirs, files, tree, data>>,
           links' \subseteq links, savedLinks' \subseteq links',
           user' \in User \cup {NoUser}, cwd' \in Path, CwdConfined'
    PROVE  IInv'
<1>1. TypeOK'
    BY DEF IInv, TypeOK, StoreTypeOK, StorageTypeOK
<1>2. Namespace'
    BY DEF IInv, Namespace, DirectoryPlaced, FilePlaced
<1>3. StorageMatches'
    BY DEF IInv, StorageMatches
<1>4. LinkShape'
    BY DEF IInv, LinkShape
<1> QED
    BY <1>1, <1>2, <1>3, <1>4 DEF IInv

LEMMA HomeIsDirectory ==
    ASSUME IInv, NEW u \in users
    PROVE  Home(u) \in dirs /\ Home(u) \in Path /\ fetchOwner(Home(u)) = u
<1>1. u \in User /\ Home(u) \in dirs
    BY DEF IInv, TypeOK, StoreTypeOK, Namespace, HomeDirs
<1> QED
    BY <1>1, HomePaths DEF HomeDirs, fetchOwner, Home, Root

LEMMA LoginStep ==
    ASSUME IInv, NEW u \in User, Login(u)
    PROVE  IInv'
<1>1. /\ UNCHANGED <<users, adminKeys, dirs, files, links, savedLinks, tree, data>>
      /\ u \in users /\ user' = u /\ cwd' = Home(u)
    BY DEF Login, storeVars, storageVars
<1>2. Home(u) \in dirs /\ Home(u) \in Path /\ fetchOwner(Home(u)) = u
    BY <1>1, HomeIsDirectory
<1>3. CwdConfined'
    BY <1>1, <1>2 DEF CwdConfined
<1>4. savedLinks' \subseteq links'
    BY <1>1 DEF IInv, LinkShape
<1> QED
    BY <1>1, <1>2, <1>3, <1>4, SessionStep

LEMMA LeaveStep ==
    ASSUME IInv, Exit \/ Kill
    PROVE  IInv'
<1>1. /\ UNCHANGED <<users, adminKeys, dirs, files, tree, data>>
      /\ user' = NoUser /\ cwd' = Root
      /\ \/ links' = links /\ savedLinks' = links
         \/ links' = savedLinks /\ savedLinks' = savedLinks
    BY DEF Exit, Kill, persistData, reload, Leave, storageVars
<1>2. savedLinks \subseteq links
    BY DEF IInv, LinkShape
<1>3. CwdConfined'
    BY <1>1 DEF CwdConfined, LoggedIn
<1>4. Root \in Path
    BY RootIsPath
<1> QED
    BY <1>1, <1>2, <1>3, <1>4, SessionStep

LEMMA CdStep ==
    ASSUME IInv, CdHome \/ CdUp \/ \E destination \in Destination : CdTo(destination)
    PROVE  IInv'
<1>1. /\ UNCHANGED <<user, users, adminKeys, dirs, files, links, savedLinks, tree, data>>
      /\ LoggedIn
    BY DEF CdHome, CdUp, CdTo, MoveTo, storeVars, storageVars
<1>2. /\ user \in users /\ user \in User
      /\ cwd \in dirs \/ (IsAdmin /\ cwd = Root)
      /\ IsAdmin \/ fetchOwner(cwd) = user
    BY <1>1 DEF IInv, CwdConfined, TypeOK, StoreTypeOK
<1>3. \/ cwd' \in dirs /\ (IsAdmin \/ fetchOwner(cwd') = user)
      \/ cwd' = Root /\ IsAdmin
  <2>1. CASE CdHome
    BY <2>1, <1>2, HomeIsDirectory DEF CdHome, MoveTo
  <2>2. CASE CdUp
    <3>1. cwd' = Parent(cwd) /\ (cwd = Home(user) => IsAdmin)
      BY <2>2 DEF CdUp, MoveTo
    <3>2. CASE cwd = Root
      BY <3>1, <3>2, <1>2, DirFacts DEF Parent, IInv
    <3>3. CASE cwd \in dirs /\ Len(cwd) > 1
      <4>1. /\ Parent(cwd) \in dirs /\ Parent(cwd) # Root
            /\ cwd # Root /\ Parent(cwd)[1] = cwd[1]
        <5>1. /\ cwd \in Path /\ cwd # Root /\ Len(cwd) \in Nat /\ Parent(cwd) \in dirs
          BY <3>3, DirFacts DEF IInv
        <5> QED
          BY <3>3, <5>1, ParentOfPath, DirFacts DEF IInv
      <4> QED
        BY <3>1, <1>2, <4>1 DEF fetchOwner
    <3>4. CASE cwd \in dirs /\ Len(cwd) = 1
      <4>1. /\ cwd \in Path /\ cwd # Root /\ Len(cwd) = 1 /\ fetchOwner(cwd) = cwd[1]
        <5>1. cwd \in Path /\ cwd # Root /\ fetchOwner(cwd) = cwd[1]
          BY <3>4, DirFacts DEF IInv
        <5> QED
          BY <3>4, <5>1
      <4>2. Parent(cwd) = Root
        <5>1. Parent(cwd) \in Path /\ Len(Parent(cwd)) = Len(cwd) - 1
          BY <4>1, ParentOfPath
        <5> QED
          BY <4>1, <5>1, EmptySeq DEF Path, Root
      <4>3. cwd = <<cwd[1]>>
        BY <4>1 DEF Path
      <4>4. IsAdmin
        BY <1>2, <3>1, <4>1, <4>3 DEF Home
      <4> QED
        BY <3>1, <4>2, <4>4
    <3>5. cwd \in dirs => Len(cwd) = 1 \/ Len(cwd) > 1
      <4>1. cwd \in dirs => Len(cwd) \in Nat /\ Len(cwd) > 0
        BY DirFacts DEF IInv
      <4> QED
        BY <4>1, OneOrMore, Zenon
    <3> QED
      BY <1>2, <3>2, <3>3, <3>4, <3>5
  <2>3. ASSUME NEW destination \in Destination, CdTo(destination)
        PROVE  \/ cwd' \in dirs /\ (IsAdmin \/ fetchOwner(cwd') = user)
               \/ cwd' = Root /\ IsAdmin
    <3>1. MayEnter(cwd')
      BY <2>3 DEF CdTo, MoveTo, MayEnter, IsAdmin
    <3> QED
      BY <3>1 DEF MayEnter
  <2> QED
    BY <2>1, <2>2, <2>3
<1>4. cwd' \in Path
    BY <1>3, RootIsPath DEF IInv, TypeOK, StoreTypeOK
<1>5. CwdConfined'
    BY <1>1, <1>2, <1>3 DEF CwdConfined, IsAdmin
<1>6. user' \in User \cup {NoUser} /\ savedLinks' \subseteq links'
    BY <1>1, <1>2 DEF IInv, LinkShape
<1> QED
    BY <1>1, <1>4, <1>5, <1>6, SessionStep

-----------------------------------------------------------------------------
(* Steps that make directories *)

\* Registering and establishing directories of the first three levels, or
\* personal ones, leaves the host files those of the registered files.
LEMMA NewDirectories ==
    ASSUME TypeOK, Namespace, NEW D \in SUBSET Path,
           \A d \in D : Len(d) <= 3 \/ d[2] # Shared
    PROVE  {f \in files : Parent(f) \in dirs \cup D}
              = {f \in files : Parent(f) \in dirs}
<1> SUFFICES ASSUME NEW f \in files, Parent(f) \in D, Parent(f) \notin dirs
             PROVE  FALSE
    OBVIOUS
<1> QED
    BY NoOrphan

\* Files stay where they are placed when directories are added.
LEMMA FilesStayPlaced ==
    ASSUME NEW f \in files, FilePlaced(f), dirs \subseteq dirs'
    PROVE  FilePlaced(f)'
<1> QED
    BY DEF FilePlaced

LEMMA CreateUserStep ==
    ASSUME IInv, NEW u \in User, createUser(u), UNCHANGED <<user, cwd, data>>
    PROVE  IInv'
<1>1. /\ u \notin users /\ users' = users \cup {u}
      /\ adminKeys' = adminKeys \cup {u}
      /\ dirs' = dirs \cup HomeDirs(u)
      /\ savedLinks' = links /\ links' = links /\ files' = files
      /\ tree' = establishHome(tree, u)
      /\ UNCHANGED <<user, cwd, data>>
    BY DEF createUser, addUser
<1>2. /\ TypeOK /\ Namespace /\ StorageMatches /\ CwdConfined /\ LinkShape
      /\ dirs \in SUBSET Path /\ Closed(dirs) /\ tree = dirs \cup {Root}
    BY DEF IInv, TypeOK, StoreTypeOK, Namespace, StorageMatches
<1>3. Closed(dirs') /\ tree' = dirs' \cup {Root}
    BY <1>1, <1>2, EstablishHome
<1>4. HomeDirs(u) \subseteq Path
    BY HomePaths
<1>5. \A d \in HomeDirs(u) : /\ d # Root /\ d[1] = u /\ Len(d) \in 1 .. 2
                             /\ Len(d) = 2 => d[2] \in {Personal, Shared}
    BY HomePaths
<1>6. TypeOK'
  <2>1. tree' \subseteq Path
    BY <1>1, <1>2, <1>3, <1>4, RootIsPath
  <2> QED
    BY <1>1, <1>2, <1>4, <2>1 DEF TypeOK, StoreTypeOK, StorageTypeOK
<1>7. Namespace'
  <2>1. \A v \in users' : HomeDirs(v) \subseteq dirs'
    BY <1>1, <1>2 DEF Namespace
  <2>2. ASSUME NEW d \in dirs'
        PROVE  DirectoryPlaced(d)'
    <3>1. CASE d \in dirs
      BY <1>1, <1>2, <3>1 DEF Namespace, DirectoryPlaced
    <3>2. CASE d \in HomeDirs(u)
      <4>1. d # Root /\ d[1] \in users'
        BY <1>1, <1>5, <3>2
      <4>2. Len(d) > 1 => d[2] \in {Personal, Shared}
        BY <1>5, <3>2
      <4>3. ~ (Len(d) > 3)
        BY <1>5, <3>2, AtMostThree, Zenon
      <4> QED
        BY <4>1, <4>2, <4>3 DEF DirectoryPlaced
    <3> QED
      BY <1>1, <3>1, <3>2
  <2>3. \A f \in files' : FilePlaced(f)'
    BY <1>1, <1>2, FilesStayPlaced DEF Namespace
  <2>4. dirs' \cap files' = {}
    <3>1. ASSUME NEW f \in files, f \in HomeDirs(u)
          PROVE  FALSE
      BY <1>1, <1>2, <1>5, <3>1, FileFacts
    <3> QED
      BY <1>1, <1>2, <3>1 DEF Namespace
  <2> QED
    BY <1>3, <2>1, <2>2, <2>3, <2>4 DEF Namespace
<1>8. StorageMatches'
  <2>1. \A d \in HomeDirs(u) : Len(d) <= 3
    BY <1>5, AtMostThree, Zenon
  <2>2. {f \in files : Parent(f) \in dirs'} = {f \in files : Parent(f) \in dirs}
    BY <1>1, <1>2, <1>4, <2>1, NewDirectories
  <2> QED
    BY <1>1, <1>2, <1>3, <2>2 DEF StorageMatches
<1>9. CwdConfined'
    BY <1>1, <1>2 DEF CwdConfined, LoggedIn, IsAdmin
<1>10. LinkShape'
    BY <1>1, <1>2 DEF LinkShape
<1> QED
    BY <1>6, <1>7, <1>8, <1>9, <1>10 DEF IInv

\* One new directory whose parent is registered.
LEMMA OneDirectoryStep ==
    ASSUME IInv, NEW d \in Path, d # Root, d \notin files,
           Parent(d) \in dirs, d[1] \in users,
           d[2] = Personal \/ (d[2] = Shared /\ Len(d) = 3),
           dirs' = dirs \cup {d}, tree' = establishDirectory(tree, d),
           UNCHANGED users, files \subseteq files'
    PROVE  /\ tree' = dirs' \cup {Root} /\ tree' \subseteq Path
           /\ dirs' \subseteq Path /\ Closed(dirs')
           /\ \A e \in dirs' : DirectoryPlaced(e)'
           /\ \A f \in files : FilePlaced(f)'
           /\ dirs' \cap files = {}
           /\ {f \in files : Parent(f) \in dirs'} = DOMAIN data
<1>1. /\ TypeOK /\ Namespace /\ StorageMatches
      /\ dirs \in SUBSET Path /\ Closed(dirs) /\ tree = dirs \cup {Root}
    BY DEF IInv, TypeOK, StoreTypeOK, Namespace, StorageMatches
<1>2. Closed(dirs') /\ tree' = dirs' \cup {Root}
    BY <1>1, EstablishOne
<1>3. dirs' \subseteq Path /\ tree' \subseteq Path
    BY <1>1, <1>2, RootIsPath
<1>4. ASSUME NEW e \in dirs'
      PROVE  DirectoryPlaced(e)'
  <2>1. CASE e \in dirs
    BY <1>1, <2>1 DEF Namespace, DirectoryPlaced
  <2>2. CASE e = d
    <3>1. Len(d) > 3 => d[2] = Personal
      BY AtMostThree, Zenon
    <3> QED
      BY <2>2, <3>1 DEF DirectoryPlaced
  <2> QED
    BY <2>1, <2>2
<1>5. \A f \in files : FilePlaced(f)'
    BY <1>1, FilesStayPlaced DEF Namespace
<1>6. dirs' \cap files = {}
    BY <1>1 DEF Namespace
<1>7. {f \in files : Parent(f) \in dirs'} = DOMAIN data
  <2>1. Len(d) <= 3 \/ d[2] # Shared
    <3>1. Personal # Shared
      BY DEF Personal, Shared
    <3> QED
      BY <3>1, AtMostThree, Zenon
  <2>2. {d} \in SUBSET Path /\ \A e \in {d} : Len(e) <= 3 \/ e[2] # Shared
    BY <2>1
  <2>3. {f \in files : Parent(f) \in dirs \cup {d}} = {f \in files : Parent(f) \in dirs}
    BY <1>1, <2>2, NewDirectories
  <2> QED
    BY <1>1, <2>3 DEF StorageMatches
<1> QED
    BY <1>2, <1>3, <1>4, <1>5, <1>6, <1>7

LEMMA MkdirStep ==
    ASSUME IInv, NEW name \in Name, Mkdir(name)
    PROVE  IInv'
<1> DEFINE path == Append(cwd, name)
<1>1. /\ LoggedIn /\ Len(cwd) >= 2 /\ cwd[1] = user /\ cwd[2] = Personal
      /\ path \notin files /\ path \notin dirs
      /\ dirs' = dirs \cup {path} /\ tree' = establishDirectory(tree, path)
      /\ UNCHANGED <<user, cwd, users, adminKeys, files, links, savedLinks, data>>
    BY DEF Mkdir, MayCreateHere, checkPersonal, registerDirectory
<1>2. /\ TypeOK /\ Namespace /\ StorageMatches /\ CwdConfined /\ LinkShape
      /\ cwd \in Path /\ Len(cwd) \in Nat
    BY LenProperties DEF IInv, TypeOK, Path
<1>3. cwd \in dirs /\ user \in users
  <2>1. cwd # Root
    BY <1>1, <1>2, EmptySeq DEF Root
  <2> QED
    BY <1>1, <1>2, <2>1 DEF CwdConfined
<1>4. /\ path \in Path /\ path # Root /\ Parent(path) = cwd
      /\ path[1] = user /\ path[2] = Personal
    BY <1>1, <1>2, ChildOfPath
<1> HIDE DEF path
<1>5. /\ tree' = dirs' \cup {Root} /\ tree' \subseteq Path
      /\ dirs' \subseteq Path /\ Closed(dirs')
      /\ \A e \in dirs' : DirectoryPlaced(e)'
      /\ \A f \in files : FilePlaced(f)'
      /\ dirs' \cap files = {}
      /\ {f \in files : Parent(f) \in dirs'} = DOMAIN data
    BY <1>1, <1>3, <1>4, OneDirectoryStep
<1>6. TypeOK'
    BY <1>1, <1>2, <1>5 DEF TypeOK, StoreTypeOK, StorageTypeOK
<1>7. Namespace'
    BY <1>1, <1>2, <1>5 DEF Namespace
<1>8. StorageMatches'
    BY <1>1, <1>2, <1>5 DEF StorageMatches
<1>9. CwdConfined' /\ LinkShape'
    BY <1>1, <1>2 DEF CwdConfined, LinkShape, LoggedIn, IsAdmin
<1> QED
    BY <1>6, <1>7, <1>8, <1>9 DEF IInv

-----------------------------------------------------------------------------
(* Steps that write files *)

\* The parent of a file is not "/", so it exists on the host if and only if
\* it is registered.
LEMMA ParentOfFile ==
    ASSUME IInv, NEW f \in files
    PROVE  Parent(f) \in tree <=> f \in DOMAIN data
<1>1. /\ f \in Path /\ f # Root /\ Len(f) \in Nat /\ Len(f) > 2
    BY FileFacts DEF IInv
<1>2. /\ Parent(f) \in Path /\ Parent(f)[1] = f[1]
      /\ Len(Parent(f)) = Len(f) - 1
    BY <1>1, ParentOfPath
<1>3. Parent(f) # Root
    BY <1>1, <1>2, EmptySeq DEF Root
<1> QED
    BY <1>3 DEF IInv, StorageMatches

\* The directory mkfile works in, and the path it makes.
LEMMA MkfilePath ==
    ASSUME IInv, NEW name \in Name, MayCreateHere
    PROVE  /\ Append(cwd, name) \in Path
           /\ Len(Append(cwd, name)) > 2 /\ Append(cwd, name) # Root
           /\ Append(cwd, name)[1] = user /\ Append(cwd, name)[2] = Personal
           /\ fetchOwner(Append(cwd, name)) = user
           /\ Parent(Append(cwd, name)) = cwd
           /\ cwd \in dirs /\ user \in users /\ user \in User
<1>1. /\ LoggedIn /\ Len(cwd) >= 2 /\ cwd[1] = user /\ cwd[2] = Personal
      /\ cwd \in Path /\ Len(cwd) \in Nat /\ CwdConfined /\ users \subseteq User
    BY LenProperties DEF MayCreateHere, checkPersonal, IInv, TypeOK, StoreTypeOK, Path
<1>2. cwd # Root
    BY <1>1, EmptySeq DEF Root
<1>3. cwd \in dirs /\ user \in users /\ user \in User
    BY <1>1, <1>2 DEF CwdConfined
<1> DEFINE p == Append(cwd, name)
<1>4. /\ p \in Path /\ p # Root /\ Parent(p) = cwd /\ Len(p) = Len(cwd) + 1
      /\ \A i \in 1 .. Len(cwd) : p[i] = cwd[i]
    BY <1>1, ChildOfPath
<1> HIDE DEF p
<1>5. Len(p) > 2 /\ p[1] = user /\ p[2] = Personal
    BY <1>1, <1>4
<1>6. fetchOwner(p) = user
    BY <1>4, <1>5 DEF fetchOwner
<1> QED
    BY <1>3, <1>4, <1>5, <1>6 DEF p

\* A file mkfile creates is on the host, and no other file changes.
LEMMA MkfileCreateData ==
    ASSUME IInv, NEW name \in Name, NEW content \in Content,
           MkfileCreate(name, content)
    PROVE  LET path == Append(cwd, name)
           IN  /\ path \notin DOMAIN data
               /\ DOMAIN data' = DOMAIN data \cup {path}
               /\ data'[path] = [key |-> user, text |-> content]
               /\ \A p \in DOMAIN data : p # path /\ data'[p] = data[p]
<1>1. PICK path : path = Append(cwd, name)
    OBVIOUS
<1>2. path \notin files /\ data' = generateFiles(tree, [q \in {path} |-> user], content)
    BY <1>1 DEF MkfileCreate, generateFile
<1>3. Parent(path) \in dirs
    BY <1>1, MkfilePath DEF MkfileCreate
<1>4. Parent(path) \in tree /\ path \notin DOMAIN data
    BY <1>2, <1>3 DEF IInv, StorageMatches
<1>5. /\ DOMAIN data' = DOMAIN data \cup {path}
      /\ data'[path] = [key |-> user, text |-> content]
      /\ \A p \in DOMAIN data \ {path} : data'[p] = data[p]
    BY <1>2, <1>4 DEF generateFiles
<1> QED
    BY <1>1, <1>4, <1>5

LEMMA MkfileCreateStep ==
    ASSUME IInv, NEW name \in Name, NEW content \in Content,
           MkfileCreate(name, content)
    PROVE  IInv'
<1>1. PICK path : path = Append(cwd, name)
    OBVIOUS
<1>2. /\ path \notin dirs /\ path \notin files
      /\ files' = files \cup {path}
      /\ UNCHANGED <<user, cwd, users, adminKeys, dirs, links, savedLinks, tree>>
    BY <1>1 DEF MkfileCreate, registerFile
<1>3. /\ path \in Path /\ Len(path) > 2 /\ path # Root
      /\ path[1] = user /\ path[2] = Personal /\ fetchOwner(path) = user
      /\ Parent(path) = cwd /\ cwd \in dirs /\ user \in users /\ user \in User
    BY <1>1, MkfilePath DEF MkfileCreate
<1>4. TypeOK /\ Namespace /\ StorageMatches /\ CwdConfined /\ LinkShape
    BY DEF IInv
<1>6. /\ DOMAIN data' = DOMAIN data \cup {path}
      /\ data'[path] = [key |-> user, text |-> content]
    BY <1>1, MkfileCreateData
<1>7. \A p \in DOMAIN data : p # path /\ data'[p] = data[p]
    BY <1>1, MkfileCreateData
<1>8. TypeOK'
  <2>1. StorageTypeOK'
    BY <1>2, <1>3, <1>4, <1>6, <1>7 DEF TypeOK, StorageTypeOK
  <2> QED
    BY <1>2, <1>3, <1>4, <2>1 DEF TypeOK, StoreTypeOK
<1>9. Namespace'
  <2>1. FilePlaced(path)'
    BY <1>2, <1>3 DEF FilePlaced
  <2>2. \A f \in files : FilePlaced(f)'
    BY <1>2, <1>4, FilesStayPlaced DEF Namespace
  <2> QED
    BY <1>2, <1>4, <2>1, <2>2 DEF Namespace, DirectoryPlaced
<1>10. StorageMatches'
  <2>1. DOMAIN data' = {f \in files' : Parent(f) \in dirs'}
    BY <1>2, <1>3, <1>4, <1>6 DEF StorageMatches
  <2>2. \A p \in DOMAIN data' : data'[p].key = fetchOwner(p)
    BY <1>3, <1>4, <1>6, <1>7 DEF StorageMatches
  <2> QED
    BY <1>2, <1>4, <2>1, <2>2 DEF StorageMatches
<1>11. CwdConfined' /\ LinkShape'
    BY <1>2, <1>4, <1>6 DEF CwdConfined, LinkShape, LoggedIn, IsAdmin
<1> QED
    BY <1>8, <1>9, <1>10, <1>11 DEF IInv

\* Writing a file that exists and some of its linked copies: what changes on
\* the host, and that the invariant survives.
LEMMA OverwriteData ==
    ASSUME IInv, NEW name \in Name, NEW content \in Content,
           MayOverwrite(Append(cwd, name)),
           NEW S \in SUBSET listSharedFiles(Append(cwd, name)),
           data' = generateFiles(tree, KeysFor(Append(cwd, name), S), content)
    PROVE  LET path == Append(cwd, name)
           IN  /\ path \in DOMAIN data
               /\ DOMAIN data' = DOMAIN data
               /\ \A p \in DOMAIN data :
                     IF p \in {path} \cup S
                     THEN data'[p] = [key |-> fetchOwner(p), text |-> content]
                     ELSE data'[p] = data[p]
<1> DEFINE path == Append(cwd, name)
           keyOf == KeysFor(path, S)
           written == {p \in DOMAIN keyOf : Parent(p) \in tree}
<1>1. path \in files /\ fetchOwner(path) = user /\ Parent(path) = cwd /\ cwd \in dirs
    BY MkfilePath DEF MayOverwrite
<1> HIDE DEF path
<1>2. S \subseteq files
    BY DEF listSharedFiles, IInv, LinkShape, path
<1>3. /\ DOMAIN keyOf = {path} \cup S
      /\ \A p \in DOMAIN keyOf : keyOf[p] = fetchOwner(p)
    BY <1>1 DEF KeysFor
<1> HIDE DEF keyOf
<1>4. written = ({path} \cup S) \cap DOMAIN data
    BY <1>1, <1>2, <1>3, ParentOfFile
<1>5. path \in DOMAIN data
    BY <1>1 DEF IInv, StorageMatches
<1>6. /\ DOMAIN data' = DOMAIN data \cup written
      /\ \A p \in written : data'[p] = [key |-> keyOf[p], text |-> content]
      /\ \A p \in DOMAIN data \ written : data'[p] = data[p]
  <2>1. data' = generateFiles(tree, keyOf, content)
    BY DEF path, keyOf
  <2> QED
    BY <2>1 DEF generateFiles
<1> QED
    BY <1>3, <1>4, <1>5, <1>6 DEF path

LEMMA OverwriteStep ==
    ASSUME IInv, NEW name \in Name, NEW content \in Content,
           MkfileOverwrite(name, content) \/ MkfileAbort(name, content)
    PROVE  IInv'
<1> DEFINE path == Append(cwd, name)
<1>1. PICK S \in SUBSET listSharedFiles(path) :
          data' = generateFiles(tree, KeysFor(path, S), content)
    BY DEF MkfileOverwrite, MkfileAbort
<1>2. /\ MayOverwrite(path)
      /\ UNCHANGED <<users, adminKeys, dirs, files, savedLinks, tree>>
      /\ \/ UNCHANGED <<user, cwd, links>>
         \/ user' = NoUser /\ cwd' = Root /\ links' = savedLinks
    BY DEF MkfileOverwrite, MkfileAbort, reload, Leave, storeVars
<1>3. /\ DOMAIN data' = DOMAIN data
      /\ \A p \in DOMAIN data :
            IF p \in {path} \cup S
            THEN data'[p] = [key |-> fetchOwner(p), text |-> content]
            ELSE data'[p] = data[p]
    BY <1>1, <1>2, OverwriteData
<1> HIDE DEF path
<1>4. TypeOK /\ Namespace /\ StorageMatches /\ CwdConfined /\ LinkShape
    BY DEF IInv
<1>5. ASSUME NEW p \in DOMAIN data
      PROVE  data'[p] \in [key : User, text : Content] /\ data'[p].key = fetchOwner(p)
  <2>1. p \in files /\ fetchOwner(p) \in User
    BY <1>4, FileFacts DEF StorageMatches
  <2>2. data[p] \in [key : User, text : Content] /\ data[p].key = fetchOwner(p)
    BY <1>4 DEF TypeOK, StorageTypeOK, StorageMatches
  <2> QED
    BY <1>3, <2>1, <2>2
<1>6. TypeOK'
  <2>1. StorageTypeOK'
    BY <1>2, <1>3, <1>4, <1>5 DEF TypeOK, StorageTypeOK
  <2>2. StoreTypeOK' /\ cwd' \in Path /\ user' \in User \cup {NoUser}
    BY <1>2, <1>4, RootIsPath DEF TypeOK, StoreTypeOK
  <2> QED
    BY <2>1, <2>2 DEF TypeOK
<1>7. Namespace'
    BY <1>2, <1>4 DEF Namespace, DirectoryPlaced, FilePlaced
<1>8. StorageMatches'
    BY <1>2, <1>3, <1>4, <1>5 DEF StorageMatches
<1>9. CwdConfined'
    BY <1>2, <1>4 DEF CwdConfined, LoggedIn, IsAdmin
<1>10. LinkShape'
    BY <1>2, <1>3, <1>4 DEF LinkShape
<1> QED
    BY <1>6, <1>7, <1>8, <1>9, <1>10 DEF IInv

-----------------------------------------------------------------------------
(* Steps of share *)

\* The sharer's directory below the target's shared directory, made or found.
LEMMA EnsuredDirectory ==
    ASSUME IInv, LoggedIn, NEW t \in users, EnsureDestinationDir(t),
           UNCHANGED users, files \subseteq files'
    PROVE  /\ DestinationDir(t) \in dirs' /\ dirs \subseteq dirs'
           /\ tree' = dirs' \cup {Root} /\ tree' \subseteq Path
           /\ dirs' \subseteq Path /\ Closed(dirs')
           /\ \A e \in dirs' : DirectoryPlaced(e)'
           /\ \A f \in files : FilePlaced(f)'
           /\ dirs' \cap files = {}
           /\ {f \in files : Parent(f) \in dirs'} = DOMAIN data
<1> DEFINE d == DestinationDir(t)
<1>1. /\ TypeOK /\ Namespace /\ StorageMatches
      /\ user \in User /\ t \in User
    BY DEF IInv, CwdConfined, TypeOK, StoreTypeOK
<1>2. CASE d \in dirs
  <2>1. UNCHANGED <<dirs, tree>>
    BY <1>2 DEF EnsureDestinationDir
  <2>2. tree = dirs \cup {Root} /\ dirs \subseteq Path /\ Closed(dirs)
    BY <1>1 DEF TypeOK, StoreTypeOK, Namespace, StorageMatches
  <2>3. \A e \in dirs' : DirectoryPlaced(e)'
    BY <1>1, <2>1 DEF Namespace, DirectoryPlaced
  <2>4. \A f \in files : FilePlaced(f)'
    BY <1>1, <2>1, FilesStayPlaced DEF Namespace
  <2>5. tree' \subseteq Path
    BY <2>1, <2>2, RootIsPath
  <2> QED
    BY <1>1, <1>2, <2>1, <2>2, <2>3, <2>4, <2>5 DEF Namespace, StorageMatches
<1>3. CASE d \notin dirs
  <2>1. dirs' = dirs \cup {d} /\ tree' = establishDirectory(tree, d)
    BY <1>3 DEF EnsureDestinationDir, registerDirectory
  <2>2. /\ d \in Path /\ Len(d) = 3 /\ d # Root /\ d[1] = t /\ d[2] = Shared
    BY <1>1 DEF DestinationDir, Path, Seg, Root
  <2>3. Parent(d) \in dirs
    <3>1. SharedDir(t) \in dirs /\ SharedDir(t) \in Path
      BY <1>1 DEF Namespace, HomeDirs, TypeOK, StoreTypeOK
    <3>2. Len(SharedDir(t)) = 2 /\ SharedDir(t)[1] = t /\ SharedDir(t)[2] = Shared
      BY DEF SharedDir
    <3>3. /\ Parent(d) \in Path /\ Len(Parent(d)) = Len(d) - 1
          /\ \A i \in 1 .. Len(d) - 1 : Parent(d)[i] = d[i]
      BY <2>2, ParentOfPath
    <3>4. Len(Parent(d)) = 2 /\ Parent(d)[1] = t /\ Parent(d)[2] = Shared
      BY <2>2, <3>3
    <3>5. \A i \in 1 .. 2 : Parent(d)[i] = SharedDir(t)[i]
      BY <3>2, <3>4
    <3> HIDE DEF d
    <3>6. Parent(d) = SharedDir(t)
      BY <3>1, <3>2, <3>3, <3>4, <3>5, SeqEqual DEF Path
    <3> QED
      BY <3>1, <3>6
  <2>4. d \notin files
    <3>1. SUFFICES ASSUME d \in files PROVE FALSE
      OBVIOUS
    <3>2. FilePlaced(d) /\ ~ (Len(d) > 3) /\ Personal # Shared
      BY <1>1, <2>2, <3>1, AtMostThree DEF Namespace, Personal, Shared
    <3> QED
      BY <2>2, <3>2 DEF FilePlaced
  <2> HIDE DEF d
  <2>5. /\ tree' = dirs' \cup {Root} /\ tree' \subseteq Path
        /\ dirs' \subseteq Path /\ Closed(dirs')
        /\ \A e \in dirs' : DirectoryPlaced(e)'
        /\ \A f \in files : FilePlaced(f)'
        /\ dirs' \cap files = {}
        /\ {f \in files : Parent(f) \in dirs'} = DOMAIN data
    BY <2>1, <2>2, <2>3, <2>4, OneDirectoryStep
  <2> QED
    BY <2>1, <2>5 DEF d
<1> QED
    BY <1>2, <1>3

\* A share that only makes the directory.
LEMMA ShareDirectoryStep ==
    ASSUME IInv, NEW t \in User,
           (\E src \in files : ShareFailed(src, t)) \/ ShareEmptyName(t)
    PROVE  IInv'
<1>1. /\ LoggedIn /\ t \in users /\ EnsureDestinationDir(t)
      /\ UNCHANGED <<user, cwd, users, adminKeys, files, links, savedLinks, data>>
    BY DEF ShareFailed, ShareEmptyName, MayShare
<1>2. /\ dirs \subseteq dirs'
      /\ tree' = dirs' \cup {Root} /\ tree' \subseteq Path
      /\ dirs' \subseteq Path /\ Closed(dirs')
      /\ \A e \in dirs' : DirectoryPlaced(e)'
      /\ \A f \in files : FilePlaced(f)'
      /\ dirs' \cap files = {}
      /\ {f \in files : Parent(f) \in dirs'} = DOMAIN data
    BY <1>1, EnsuredDirectory
<1>3. TypeOK /\ Namespace /\ StorageMatches /\ CwdConfined /\ LinkShape
    BY DEF IInv
<1>4. TypeOK'
    BY <1>1, <1>2, <1>3 DEF TypeOK, StoreTypeOK, StorageTypeOK
<1>5. Namespace'
    BY <1>1, <1>2, <1>3 DEF Namespace
<1>6. StorageMatches'
    BY <1>1, <1>2, <1>3 DEF StorageMatches
<1>7. CwdConfined' /\ LinkShape'
    BY <1>1, <1>2, <1>3 DEF CwdConfined, LinkShape, LoggedIn, IsAdmin
<1> QED
    BY <1>4, <1>5, <1>6, <1>7 DEF IInv

\* What a file that passes the checks of share is, and where its copy goes.
LEMMA SharedPaths ==
    ASSUME IInv, NEW src \in files, NEW t \in User, MayShare(src, t)
    PROVE  /\ src \in Path /\ src[2] = Personal
           /\ IsAdmin \/ fetchOwner(src) = user
           /\ user \in users /\ user \in User /\ t \in users /\ t # user
           /\ DestinationFile(src, t) \in Path
           /\ Len(DestinationFile(src, t)) > 3
           /\ Len(DestinationFile(src, t)) \in Nat
           /\ SubSeq(DestinationFile(src, t), 1, 3) = DestinationDir(t)
           /\ DestinationFile(src, t)[1] = t
           /\ DestinationFile(src, t)[2] = Shared
           /\ DestinationFile(src, t)[3] = user
           /\ fetchOwner(DestinationFile(src, t)) = t
           /\ DestinationFile(src, t) \notin files
<1>1. /\ LoggedIn /\ IsStrictPrefix(cwd, src) /\ ~InShared(src)
      /\ t \in users /\ t # user /\ DestinationFile(src, t) \notin files
    BY DEF MayShare
<1>2. /\ cwd \in Path /\ user \in users /\ user \in User
      /\ cwd \in dirs \/ IsAdmin
      /\ IsAdmin \/ fetchOwner(cwd) = user
    BY <1>1 DEF IInv, CwdConfined, TypeOK, StoreTypeOK
<1>3. /\ src \in Path /\ Len(src) \in Nat /\ Len(src) > 2 /\ src # Root
      /\ fetchOwner(src) = src[1] /\ FilePlaced(src)
    BY FileFacts DEF IInv, Namespace
<1> DEFINE dst == DestinationFile(src, t)
<1>4. /\ dst \in Path /\ Len(dst) > 3 /\ SubSeq(dst, 1, 3) = DestinationDir(t)
      /\ dst[1] = t /\ dst[2] = Shared /\ dst[3] = user /\ dst # Root
      /\ \A i \in 1 .. Len(cwd) : src[i] = cwd[i]
    BY <1>1, <1>2, <1>3, CopyPath DEF DestinationFile, DestinationDir
<1>5. Len(dst) \in Nat
    BY <1>4, LenProperties DEF Path
<1> HIDE DEF dst
<1>6. fetchOwner(dst) = t
    BY <1>4 DEF fetchOwner
<1>7. src[2] = Personal
  <2>1. ASSUME Len(src) > 3, src[2] = Shared
        PROVE  FALSE
    <3>1. 2 \in 1 .. Len(src) - 1
      BY <1>3, <2>1
    <3> QED
      BY <1>1, <2>1, <3>1 DEF InShared
  <2> QED
    BY <1>3, <2>1 DEF FilePlaced
<1>8. IsAdmin \/ fetchOwner(src) = user
  <2>1. ASSUME cwd \in dirs, fetchOwner(cwd) = user
        PROVE  fetchOwner(src) = user
    <3>1. fetchOwner(cwd) = cwd[1]
      BY <2>1, DirFacts DEF IInv
    <3>2. Len(cwd) \in Nat /\ Len(cwd) > 0
      BY <2>1, DirFacts DEF IInv
    <3>3. 1 \in 1 .. Len(cwd)
      BY <3>2
    <3> QED
      BY <1>3, <1>4, <2>1, <3>1, <3>3
  <2> QED
    BY <1>2, <2>1
<1> QED
    BY <1>1, <1>2, <1>3, <1>4, <1>5, <1>6, <1>7, <1>8 DEF dst

\* A share that succeeds adds the copy to the host, where its directory is,
\* and changes no other file.
LEMMA ShareDoneData ==
    ASSUME IInv, NEW src \in files, NEW t \in User, ShareDone(src, t),
           NEW dst, dst = DestinationFile(src, t)
    PROVE  /\ src \in DOMAIN data /\ data[src].text \in Content
           /\ IsAdmin => fetchOwner(src) = user \/ data[src].text = Empty
           /\ DOMAIN data' = DOMAIN data \cup {p \in {dst} : Parent(p) \in dirs'}
           /\ dst \in DOMAIN data' => data'[dst] = [key |-> t, text |-> data[src].text]
           /\ \A p \in DOMAIN data : p # dst /\ data'[p] = data[p]
<1>1. /\ MayShare(src, t) /\ EnsureDestinationDir(t)
      /\ CanReplicate(src, dst, user)
      /\ data' = generateFiles(tree', [q \in {dst} |-> t], data[src].text)
      /\ files' = files \cup {dst} /\ UNCHANGED users
    BY DEF ShareDone, generateFile, registerFile
<1>2. /\ dst \in Path /\ Len(dst) > 3 /\ Len(dst) \in Nat /\ dst \notin files
      /\ t \in users
    BY <1>1, SharedPaths
<1>3. tree' = dirs' \cup {Root}
  <2>1. LoggedIn /\ files \subseteq files'
    BY <1>1 DEF MayShare
  <2> QED
    BY <1>1, <1>2, <2>1, EnsuredDirectory
<1>4. /\ src \in DOMAIN data /\ data[src].text \in Content
      /\ data[src].text = Empty \/ fetchOwner(src) = user
    BY <1>1 DEF CanReplicate, CanFetch, IInv, TypeOK, StorageTypeOK, StorageMatches
<1>5. Parent(dst) # Root
  <2>1. dst # Root
    BY <1>2, EmptySeq DEF Root
  <2>2. Len(Parent(dst)) > 0
    BY <1>2, <2>1, ParentOfPath
  <2> QED
    BY <2>2, EmptySeq DEF Root
<1>6. dst \notin DOMAIN data
    BY <1>2 DEF IInv, StorageMatches
<1>7. Parent(dst) \in tree' <=> Parent(dst) \in dirs'
    BY <1>3, <1>5
<1>8. /\ DOMAIN data' = DOMAIN data \cup {p \in {dst} : Parent(p) \in dirs'}
      /\ dst \in DOMAIN data' => data'[dst] = [key |-> t, text |-> data[src].text]
      /\ \A p \in DOMAIN data : p # dst /\ data'[p] = data[p]
    BY <1>1, <1>6, <1>7 DEF generateFiles
<1> QED
    BY <1>4, <1>8

LEMMA ShareDoneStep ==
    ASSUME IInv, NEW src \in files, NEW t \in User, ShareDone(src, t)
    PROVE  IInv'
<1>1. PICK dst : dst = DestinationFile(src, t)
    OBVIOUS
<1>2. /\ MayShare(src, t) /\ EnsureDestinationDir(t)
      /\ files' = files \cup {dst}
      /\ links' = links \cup {<<src, dst>>}
      /\ UNCHANGED <<user, cwd, users, adminKeys, savedLinks>>
    BY <1>1 DEF ShareDone, registerFile, shareFile
<1>3. /\ src \in Path /\ src[2] = Personal
      /\ IsAdmin \/ fetchOwner(src) = user
      /\ user \in users /\ user \in User /\ t \in users /\ t # user
      /\ dst \in Path /\ Len(dst) > 3 /\ Len(dst) \in Nat
      /\ SubSeq(dst, 1, 3) = DestinationDir(t)
      /\ dst[1] = t /\ dst[2] = Shared /\ dst[3] = user
      /\ fetchOwner(dst) = t /\ dst \notin files
    BY <1>1, <1>2, SharedPaths
<1>4. /\ DestinationDir(t) \in dirs' /\ dirs \subseteq dirs'
      /\ tree' = dirs' \cup {Root} /\ tree' \subseteq Path
      /\ dirs' \subseteq Path /\ Closed(dirs')
      /\ \A e \in dirs' : DirectoryPlaced(e)'
      /\ \A f \in files : FilePlaced(f)'
      /\ dirs' \cap files = {}
      /\ {f \in files : Parent(f) \in dirs'} = DOMAIN data
  <2>1. LoggedIn /\ files \subseteq files'
    BY <1>2 DEF MayShare
  <2> QED
    BY <1>2, <1>3, <2>1, EnsuredDirectory
<1>5. TypeOK /\ Namespace /\ StorageMatches /\ CwdConfined /\ LinkShape
    BY DEF IInv
<1>6. src \in DOMAIN data /\ data[src].text \in Content
    BY <1>1, ShareDoneData
<1>8. /\ DOMAIN data' = DOMAIN data \cup {p \in {dst} : Parent(p) \in dirs'}
      /\ dst \in DOMAIN data' => data'[dst] = [key |-> t, text |-> data[src].text]
      /\ \A p \in DOMAIN data : p # dst /\ data'[p] = data[p]
    BY <1>1, ShareDoneData
<1>9. TypeOK'
  <2>1. StorageTypeOK'
    <3>1. ASSUME NEW p \in DOMAIN data'
          PROVE  p \in Path /\ data'[p] \in [key : User, text : Content]
      <4>1. CASE p \in DOMAIN data
        BY <1>5, <1>8, <4>1 DEF TypeOK, StorageTypeOK
      <4>2. CASE p = dst
        BY <1>3, <1>6, <1>8, <3>1, <4>2
      <4> QED
        BY <1>8, <4>1, <4>2
    <3> QED
      BY <1>4, <3>1 DEF StorageTypeOK
  <2>2. links' \subseteq Path \X Path /\ files' \subseteq Path
    BY <1>2, <1>3, <1>5 DEF TypeOK, StoreTypeOK
  <2> QED
    BY <1>2, <1>4, <1>5, <2>1, <2>2 DEF TypeOK, StoreTypeOK
<1>10. Namespace'
  <2>1. FilePlaced(dst)'
    BY <1>3, <1>4 DEF FilePlaced
  <2>2. dst \notin dirs'
    <3>1. ASSUME dst \in dirs'
          PROVE  FALSE
      <4>1. DirectoryPlaced(dst)' /\ Personal # Shared
        BY <1>4, <3>1 DEF Personal, Shared
      <4> QED
        BY <1>3, <4>1 DEF DirectoryPlaced
    <3> QED
      BY <3>1
  <2>3. \A u \in users' : HomeDirs(u) \subseteq dirs'
    BY <1>2, <1>4, <1>5 DEF Namespace
  <2> QED
    BY <1>2, <1>4, <2>1, <2>2, <2>3 DEF Namespace
<1>11. StorageMatches'
  <2>1. DOMAIN data' = {f \in files' : Parent(f) \in dirs'}
    BY <1>2, <1>4, <1>8
  <2>2. \A p \in DOMAIN data' : data'[p].key = fetchOwner(p)
    BY <1>3, <1>5, <1>8 DEF StorageMatches
  <2> QED
    BY <1>4, <2>1, <2>2 DEF StorageMatches
<1>12. CwdConfined'
    BY <1>2, <1>4, <1>5 DEF CwdConfined, LoggedIn, IsAdmin
<1>13. LinkShape'
  <2> DEFINE new == <<src, dst>>
  <2>1. /\ new[1] \in DOMAIN data' /\ new[1][2] = Personal
        /\ new[2] \in files' /\ Len(new[2]) > 3 /\ new[2][2] = Shared
        /\ new[2][3] \in {fetchOwner(new[1]), Admin}
        /\ new[2][3] # fetchOwner(new[2])
    BY <1>2, <1>3, <1>6, <1>8 DEF IsAdmin
  <2>2. \A l \in links : l[2] # dst
    BY <1>3, <1>5 DEF LinkShape
  <2>3. new[2] = dst
    OBVIOUS
  <2> HIDE DEF new
  <2>4. links' = links \cup {new}
    BY <1>2 DEF new
  <2>5. savedLinks' \subseteq links'
    BY <1>2, <1>5, <2>4 DEF LinkShape
  <2>6. ASSUME NEW l \in links'
        PROVE  /\ l[1] \in DOMAIN data' /\ l[1][2] = Personal
               /\ l[2] \in files' /\ Len(l[2]) > 3 /\ l[2][2] = Shared
               /\ l[2][3] \in {fetchOwner(l[1]), Admin}
               /\ l[2][3] # fetchOwner(l[2])
    <3>1. CASE l \in links
      BY <1>2, <1>5, <1>8, <3>1 DEF LinkShape
    <3>2. CASE l = new
      BY <2>1, <3>2
    <3> QED
      BY <2>4, <3>1, <3>2
  <2>7. \A l, m \in links' : l[2] = m[2] => l[1] = m[1]
    BY <1>5, <2>2, <2>3, <2>4 DEF LinkShape
  <2> QED
    BY <2>5, <2>6, <2>7 DEF LinkShape
<1> QED
    BY <1>9, <1>10, <1>11, <1>12, <1>13 DEF IInv

-----------------------------------------------------------------------------
(* The invariant *)

LEMMA InitIInv == Init => IInv
<1> SUFFICES ASSUME Init
             PROVE  IInv
    OBVIOUS
<1>1. /\ user = NoUser /\ cwd = Root /\ users = {} /\ adminKeys = {}
      /\ dirs = {} /\ files = {} /\ links = {} /\ savedLinks = {}
      /\ tree = {Root} /\ data = <<>> /\ DOMAIN data = {}
    BY DEF Init, StoreInit, StorageInit
<1>2. TypeOK
    BY <1>1, RootIsPath DEF TypeOK, StoreTypeOK, StorageTypeOK
<1>3. Namespace /\ StorageMatches /\ LinkShape
    BY <1>1 DEF Namespace, Closed, StorageMatches, LinkShape
<1>4. CwdConfined
    BY <1>1 DEF CwdConfined, LoggedIn
<1> QED
    BY <1>2, <1>3, <1>4 DEF IInv

LEMMA NextIInv == IInv /\ [Next]_vars => IInv'
<1> SUFFICES ASSUME IInv, [Next]_vars
             PROVE  IInv'
    OBVIOUS
<1>1. CASE FirstRun
  <2>1. createUser(Admin) /\ UNCHANGED <<user, cwd, data>> /\ Admin \in User
    BY <1>1, UserAssumption DEF FirstRun
  <2> QED
    BY <2>1, CreateUserStep
<1>2. CASE \E u \in User : Login(u)
    BY <1>2, LoginStep
<1>3. CASE Exit \/ Kill
    BY <1>3, LeaveStep
<1>4. CASE CdHome \/ CdUp \/ \E destination \in Destination : CdTo(destination)
    BY <1>4, CdStep
<1>5. CASE \E name \in Name, content \in Content : MkfileCreate(name, content)
    BY <1>5, MkfileCreateStep
<1>6. CASE \E name \in Name, content \in Content :
              MkfileOverwrite(name, content) \/ MkfileAbort(name, content)
    BY <1>6, OverwriteStep
<1>7. CASE \E name \in Name : Mkdir(name)
    BY <1>7, MkdirStep
<1>8. CASE \E u \in User : AddUser(u)
    BY <1>8, CreateUserStep DEF AddUser
<1>9. CASE \E src \in files, target \in User : ShareDone(src, target)
    BY <1>9, ShareDoneStep
<1>10. CASE \E target \in User :
               (\E src \in files : ShareFailed(src, target)) \/ ShareEmptyName(target)
    BY <1>10, ShareDirectoryStep
<1>11. CASE UNCHANGED vars
  <2>1. /\ UNCHANGED <<users, adminKeys, dirs, files, tree, data>>
        /\ links' \subseteq links /\ savedLinks' \subseteq links'
        /\ user' \in User \cup {NoUser} /\ cwd' \in Path
    BY <1>11 DEF vars, IInv, TypeOK, LinkShape
  <2>2. CwdConfined'
    BY <1>11 DEF vars, IInv, CwdConfined, LoggedIn, IsAdmin
  <2> QED
    BY <2>1, <2>2, SessionStep
<1> QED
    BY <1>1, <1>2, <1>3, <1>4, <1>5, <1>6, <1>7, <1>8, <1>9, <1>10, <1>11 DEF Next

THEOREM Invariance == Spec => []IInv
    BY InitIInv, NextIInv, PTL DEF Spec

\* Every variable keeps its type; in particular every key a file is encrypted
\* with is the key of a user.
THEOREM TypeCorrect == Spec => []TypeOK
<1>1. IInv => TypeOK
    BY DEF IInv
<1> QED
    BY <1>1, Invariance, PTL

\* The registered paths always form the forest Namespace describes.
THEOREM NamespaceKept == Spec => []Namespace
<1>1. IInv => Namespace
    BY DEF IInv
<1> QED
    BY <1>1, Invariance, PTL

\* FileMappings and the host tree agree between any two commands, and every
\* file is encrypted for its owner.
THEOREM StorageMatchesStores == Spec => []StorageMatches
<1>1. IInv => StorageMatches
    BY DEF IInv
<1> QED
    BY <1>1, Invariance, PTL

\* No sequence of cd leads a user out of their own directories.
THEOREM UsersStayAtHome == Spec => []CwdConfined
<1>1. IInv => CwdConfined
    BY DEF IInv
<1> QED
    BY <1>1, Invariance, PTL

\* Links lead from an existing personal file to a copy of its own.
THEOREM LinksWellFormed == Spec => []LinkShape
<1>1. IInv => LinkShape
    BY DEF IInv
<1> QED
    BY <1>1, Invariance, PTL

-----------------------------------------------------------------------------
(* What happens to contents *)

\* The steps that are neither a mkfile nor a share that succeeds.
LEMMA QuietSteps ==
    ASSUME IInv, [Next]_vars,
           ~ \E name \in Name, content \in Content :
                \/ MkfileCreate(name, content)
                \/ MkfileOverwrite(name, content)
                \/ MkfileAbort(name, content),
           ~ \E src \in files, t \in User : ShareDone(src, t)
    PROVE  /\ UNCHANGED <<files, data>> /\ links' \subseteq links
           /\ \/ UNCHANGED users
              \/ \E u \in User : u \notin users /\ users' = users \cup {u} /\ links' = links
<1>1. CASE FirstRun \/ \E u \in User : AddUser(u)
    BY <1>1, UserAssumption DEF FirstRun, AddUser, createUser, addUser
<1>2. CASE \E u \in User : Login(u)
    BY <1>2 DEF Login, storeVars, storageVars
<1>3. CASE Exit \/ Kill
    BY <1>3 DEF Exit, Kill, persistData, reload, storageVars, IInv, LinkShape
<1>4. CASE CdHome \/ CdUp \/ \E destination \in Destination : CdTo(destination)
    BY <1>4 DEF CdHome, CdUp, CdTo, MoveTo, storeVars, storageVars
<1>5. CASE \E name \in Name : Mkdir(name)
    BY <1>5 DEF Mkdir
<1>6. CASE \E t \in User :
              (\E src \in files : ShareFailed(src, t)) \/ ShareEmptyName(t)
    BY <1>6 DEF ShareFailed, ShareEmptyName
<1>7. CASE UNCHANGED vars
    BY <1>7 DEF vars
<1> QED
    BY <1>1, <1>2, <1>3, <1>4, <1>5, <1>6, <1>7 DEF Next

\* What an overwrite of path that reaches the copies in S does: all of them
\* take the content and the key of their owner, and all copies are reached
\* unless one of them is blocked.
Overwritten(path, S, content) ==
    /\ checkPersonal(path, user) /\ user \in users
    /\ fetchOwner(path) = user /\ path[2] = Personal
    /\ DOMAIN data' = DOMAIN data
    /\ \A p \in DOMAIN data :
          IF p \in {path} \cup S
          THEN data'[p] = [key |-> fetchOwner(p), text |-> content]
          ELSE data'[p] = data[p]
    /\ UNCHANGED <<users, files>>
    /\ \/ /\ \A p \in listSharedFiles(path) : ~Blocked(p)
          /\ S = listSharedFiles(path) /\ UNCHANGED links
       \/ /\ \E p \in listSharedFiles(path) : Blocked(p)
          /\ links' \subseteq links

\* Both ways an overwrite may end are of that form.
LEMMA OverwriteFacts ==
    ASSUME IInv, NEW name \in Name, NEW content \in Content,
           MkfileOverwrite(name, content) \/ MkfileAbort(name, content)
    PROVE  \E path \in DOMAIN data : \E S \in SUBSET listSharedFiles(path) :
              Overwritten(path, S, content)
<1>1. PICK path : path = Append(cwd, name)
    OBVIOUS
<1>2. PICK S \in SUBSET listSharedFiles(path) :
          /\ data' = generateFiles(tree, KeysFor(path, S), content)
          /\ \/ /\ \A p \in listSharedFiles(path) : ~Blocked(p)
                /\ S = listSharedFiles(path) /\ UNCHANGED links
             \/ /\ \E p \in listSharedFiles(path) : Blocked(p)
                /\ links' \subseteq links
    BY <1>1 DEF MkfileOverwrite, MkfileAbort, storeVars, reload, IInv, LinkShape
<1>3. MayOverwrite(path) /\ MayCreateHere /\ UNCHANGED <<users, files>>
    BY <1>1 DEF MkfileOverwrite, MkfileAbort, MayOverwrite, storeVars, reload
<1>4. /\ path[1] = user /\ path[2] = Personal /\ fetchOwner(path) = user
      /\ Len(path) > 2 /\ path \in Path /\ user \in users
    BY <1>1, <1>3, MkfilePath
<1>5. Len(path) \in Nat
    BY <1>4, LenProperties DEF Path
<1>6. checkPersonal(path, user)
    BY <1>4, <1>5 DEF checkPersonal
<1>7. /\ path \in DOMAIN data /\ DOMAIN data' = DOMAIN data
      /\ \A p \in DOMAIN data :
            IF p \in {path} \cup S
            THEN data'[p] = [key |-> fetchOwner(p), text |-> content]
            ELSE data'[p] = data[p]
    BY <1>1, <1>2, <1>3, OverwriteData
<1> QED
    BY <1>2, <1>3, <1>4, <1>6, <1>7 DEF Overwritten

\* No file is ever lost or unregistered.
LEMMA FilesGrow ==
    ASSUME IInv, [Next]_vars
    PROVE  files \subseteq files' /\ DOMAIN data \subseteq DOMAIN data'
<1>1. ASSUME NEW name \in Name, NEW content \in Content, MkfileCreate(name, content)
      PROVE  files \subseteq files' /\ DOMAIN data \subseteq DOMAIN data'
    BY <1>1, MkfileCreateData DEF MkfileCreate, registerFile
<1>2. ASSUME NEW name \in Name, NEW content \in Content,
             MkfileOverwrite(name, content) \/ MkfileAbort(name, content)
      PROVE  files \subseteq files' /\ DOMAIN data \subseteq DOMAIN data'
    BY <1>2, OverwriteFacts DEF Overwritten
<1>3. ASSUME NEW src \in files, NEW t \in User, ShareDone(src, t)
      PROVE  files \subseteq files' /\ DOMAIN data \subseteq DOMAIN data'
    BY <1>3, ShareDoneData DEF ShareDone, registerFile
<1> QED
    BY <1>1, <1>2, <1>3, QuietSteps

LEMMA CopiesFollowStep ==
    ASSUME IInv, CopiesFollow, [Next]_vars
    PROVE  CopiesFollow'
<1> SUFFICES ASSUME (\A f \in files : ~Blocked(f))',
                    NEW l \in links', l[2] \in DOMAIN data'
             PROVE  data'[l[2]].text = data'[l[1]].text
    BY DEF CopiesFollow
<1>1. files \subseteq files' /\ DOMAIN data \subseteq DOMAIN data'
    BY FilesGrow
<1>2. \A f \in files : ~Blocked(f)
    BY <1>1 DEF Blocked
<1>3. \A m \in links : m[2] \in DOMAIN data => data[m[2]].text = data[m[1]].text
    BY <1>2 DEF CopiesFollow
<1>4. /\ \A m \in links : m[1] \in DOMAIN data /\ m[1] \in files /\ m[2] \in files
                          /\ m[1][2] = Personal /\ m[2][2] = Shared
      /\ \A m, o \in links : m[2] = o[2] => m[1] = o[1]
      /\ DOMAIN data \subseteq files
    BY DEF IInv, LinkShape, StorageMatches
<1>5. Personal # Shared
    BY DEF Personal, Shared
<1>6. CASE \E name \in Name, content \in Content : MkfileCreate(name, content)
  <2>1. PICK name \in Name, content \in Content : MkfileCreate(name, content)
    BY <1>6
  <2>2. PICK path : path = Append(cwd, name)
    OBVIOUS
  <2>3. path \notin files /\ links' = links
    BY <2>1, <2>2 DEF MkfileCreate
  <2>4. /\ DOMAIN data' = DOMAIN data \cup {path}
        /\ \A p \in DOMAIN data : data'[p] = data[p]
    BY <2>1, <2>2, MkfileCreateData
  <2>5. l[2] \in DOMAIN data /\ l[1] \in DOMAIN data
    BY <1>4, <2>3, <2>4
  <2> QED
    BY <1>3, <2>3, <2>4, <2>5
<1>7. CASE \E name \in Name, content \in Content :
              MkfileOverwrite(name, content) \/ MkfileAbort(name, content)
  <2>1. PICK name \in Name, content \in Content :
            MkfileOverwrite(name, content) \/ MkfileAbort(name, content)
    BY <1>7
  <2>2. PICK path \in DOMAIN data : \E S \in SUBSET listSharedFiles(path) :
            Overwritten(path, S, content)
    BY <2>1, OverwriteFacts
  <2>3. PICK S \in SUBSET listSharedFiles(path) : Overwritten(path, S, content)
    BY <2>2
  <2>4. \A p \in listSharedFiles(path) : ~Blocked(p)
    BY <1>2, <1>4 DEF listSharedFiles
  <2>5. S = listSharedFiles(path) /\ l \in links
    BY <2>3, <2>4 DEF Overwritten
  <2>6. l[1] \in DOMAIN data /\ l[2] \in DOMAIN data /\ l[1][2] = Personal
        /\ l[2][2] = Shared /\ data[l[2]].text = data[l[1]].text
    BY <1>3, <1>4, <2>3, <2>5 DEF Overwritten
  <2>7. CASE l[1] = path
    <3>1. l[2] \in S
      BY <2>5, <2>7 DEF listSharedFiles
    <3> QED
      BY <2>3, <2>6, <2>7, <3>1 DEF Overwritten
  <2>8. CASE l[1] # path
    <3>1. l[2] \notin {path} \cup S
      BY <1>4, <1>5, <2>3, <2>5, <2>6, <2>8 DEF listSharedFiles, Overwritten
    <3>2. l[1] \notin {path} \cup S
      BY <1>4, <1>5, <2>5, <2>6, <2>8 DEF listSharedFiles
    <3> QED
      BY <2>3, <2>6, <3>1, <3>2 DEF Overwritten
  <2> QED
    BY <2>7, <2>8
<1>8. CASE \E src \in files, t \in User : ShareDone(src, t)
  <2>1. PICK src \in files, t \in User : ShareDone(src, t)
    BY <1>8
  <2>2. PICK dst : dst = DestinationFile(src, t)
    OBVIOUS
  <2>3. links' = links \cup {<<src, dst>>} /\ dst \notin files
    BY <2>1, <2>2 DEF ShareDone, shareFile, MayShare
  <2>4. /\ src \in DOMAIN data
        /\ DOMAIN data' \subseteq DOMAIN data \cup {dst}
        /\ dst \in DOMAIN data' => data'[dst] = [key |-> t, text |-> data[src].text]
        /\ \A p \in DOMAIN data : data'[p] = data[p]
    <3>1. dst \in DOMAIN data' => data'[dst] = [key |-> t, text |-> data[src].text]
      BY <2>1, <2>2, ShareDoneData
    <3>2. /\ src \in DOMAIN data
          /\ DOMAIN data' = DOMAIN data \cup {p \in {dst} : Parent(p) \in dirs'}
          /\ \A p \in DOMAIN data : data'[p] = data[p]
      BY <2>1, <2>2, ShareDoneData
    <3> QED
      BY <3>1, <3>2
  <2>5. CASE l \in links
    BY <1>3, <1>4, <2>3, <2>4, <2>5
  <2>6. CASE l = <<src, dst>>
    BY <2>4, <2>6
  <2> QED
    BY <2>3, <2>5, <2>6
<1>9. CASE UNCHANGED data /\ links' \subseteq links
    BY <1>3, <1>9
<1> QED
    BY <1>6, <1>7, <1>8, <1>9, QuietSteps

\* A linked copy that can be read always holds what its source holds, unless
\* a copy lies below another file.
THEOREM CopiesFollowSources == Spec => []CopiesFollow
<1>1. Init => CopiesFollow
    BY DEF Init, StoreInit, CopiesFollow
<1> QED
    BY <1>1, Invariance, CopiesFollowStep, PTL DEF Spec

-----------------------------------------------------------------------------
(* Who may read and write *)

\* Contents change by the hand of their owner, or of the owner of the file
\* they are a linked copy of; no file disappears.
THEOREM OnlyOwnersWrite == Spec => WriteAuthority
<1> DEFINE Authority ==
        /\ DOMAIN data \subseteq DOMAIN data'
        /\ \A p \in DOMAIN data : data'[p] # data[p] =>
              (fetchOwner(p) = user /\ p[2] = Personal) \/ OwnsSourceOf(p)
<1>1. ASSUME IInv, [Next]_vars
      PROVE  Authority
  <2>1. ASSUME NEW name \in Name, NEW content \in Content, MkfileCreate(name, content)
        PROVE  Authority
    BY <1>1, <2>1, MkfileCreateData
  <2>2. ASSUME NEW name \in Name, NEW content \in Content,
               MkfileOverwrite(name, content) \/ MkfileAbort(name, content)
        PROVE  Authority
    <3>1. PICK path \in DOMAIN data : \E S \in SUBSET listSharedFiles(path) :
              Overwritten(path, S, content)
      BY <1>1, <2>2, OverwriteFacts
    <3>2. PICK S \in SUBSET listSharedFiles(path) : Overwritten(path, S, content)
      BY <3>1
    <3>3. \A p \in S : OwnsSourceOf(p)
      BY <3>2 DEF listSharedFiles, OwnsSourceOf, Overwritten
    <3> QED
      BY <3>2, <3>3 DEF Overwritten
  <2>3. ASSUME NEW src \in files, NEW t \in User, ShareDone(src, t)
        PROVE  Authority
    BY <1>1, <2>3, ShareDoneData
  <2> QED
    BY <1>1, <2>1, <2>2, <2>3, QuietSteps
<1>2. IInv /\ [Next]_vars => [Authority]_vars
    BY <1>1
<1> QED
    BY <1>2, Invariance, PTL DEF Spec, WriteAuthority

\* Admin holds the private key of every user, and so reads every file.
KeysHeld == users \subseteq adminKeys

LEMMA KeysHeldStep == KeysHeld /\ [Next]_vars => KeysHeld'
<1> SUFFICES ASSUME KeysHeld, [Next]_vars
             PROVE  KeysHeld'
    OBVIOUS
<1>1. CASE FirstRun \/ \E u \in User : AddUser(u)
    BY <1>1 DEF FirstRun, AddUser, createUser, addUser, KeysHeld
<1>2. CASE UNCHANGED <<users, adminKeys>>
    BY <1>2 DEF KeysHeld
<1>3. \/ FirstRun \/ \E u \in User : AddUser(u)
      \/ UNCHANGED <<users, adminKeys>>
    BY DEF Next, vars, storeVars, Login, Exit, Kill, persistData, reload,
           CdHome, CdUp, CdTo, MoveTo, MkfileCreate, MkfileOverwrite,
           MkfileAbort, Mkdir, ShareDone, ShareFailed, ShareEmptyName
<1> QED
    BY <1>1, <1>2, <1>3

LEMMA KeysHeldAlways == Spec => []KeysHeld
<1>1. Init => KeysHeld
    BY DEF Init, StoreInit, KeysHeld
<1> QED
    BY <1>1, KeysHeldStep, PTL DEF Spec

\* Admin reads every file there is, with the key AdminKeys holds of its owner
\* (CLI.cpp:134-158).
THEOREM AdminReadsEverything == Spec => []AdminReads
<1>1. IInv /\ KeysHeld => AdminReads
  <2> SUFFICES ASSUME IInv, KeysHeld, NEW p \in DOMAIN data
               PROVE  cat(Admin, p) = data[p].text
    BY DEF AdminReads
  <2>1. p \in files /\ data[p].key = fetchOwner(p) /\ fetchOwner(p) \in users
    BY FileFacts DEF IInv, StorageMatches
  <2> QED
    BY <2>1 DEF KeysHeld, cat, fetchPrivateKey, fetchFileContent, CanFetch
<1> QED
    BY <1>1, KeysHeldAlways, Invariance, PTL

\* The entry of a directory that a registered directory gives.
LEMMA DirectoryEntry ==
    ASSUME IInv, NEW d \in dirs \cup {Root}, NEW q \in dirs, IsStrictPrefix(d, q)
    PROVE  Append(d, q[Len(d) + 1]) \in dirs
<1>1. d \in Path /\ q \in Path /\ Closed(dirs)
    BY RootIsPath DEF IInv, TypeOK, StoreTypeOK, Namespace
<1>2. /\ Len(d) + 1 \in 1 .. Len(q)
      /\ Append(d, q[Len(d) + 1]) = SubSeq(q, 1, Len(d) + 1)
  <2>1. /\ Len(d) \in Nat /\ Len(q) \in Nat /\ Len(d) < Len(q)
        /\ Append(d, q[Len(d) + 1]) = SubSeq(q, 1, Len(d) + 1)
    BY <1>1, EntryOfPath
  <2> QED
    BY <2>1
<1> QED
    BY <1>1, <1>2 DEF Closed

\* The entry that a file deeper down gives is a directory.
LEMMA DeepEntry ==
    ASSUME IInv, NEW d \in dirs \cup {Root}, Len(d) > 1 => d[2] = Personal,
           NEW q \in files, IsStrictPrefix(d, q), Len(q) > Len(d) + 1
    PROVE  Append(d, q[Len(d) + 1]) \in dirs
<1> DEFINE k == Len(d)
           len == Len(q)
<1>1. d \in Path /\ q \in Path /\ q # Root /\ Closed(dirs) /\ FilePlaced(q)
    BY RootIsPath, FileFacts DEF IInv, TypeOK, StoreTypeOK, Namespace
<1>2. /\ k \in Nat /\ len \in Nat /\ \A i \in 1 .. k : q[i] = d[i]
      /\ Append(d, q[k + 1]) = SubSeq(q, 1, k + 1)
    BY <1>1, EntryOfPath
<1>3. len > k + 1 /\ (k > 1 => d[2] = Personal)
    OBVIOUS
<1> HIDE DEF k, len
\* It is enough that a prefix of q that is long enough is a directory.
<1>4. ASSUME NEW n \in 0 .. len, k + 1 <= n, SubSeq(q, 1, n) \in dirs
      PROVE  SubSeq(q, 1, k + 1) \in dirs
  <2>1. n \in 0 .. Len(q) /\ k + 1 \in 0 .. n /\ k + 1 \in 1 .. n
    BY <1>2, <1>4 DEF len
  <2>2. Len(SubSeq(q, 1, n)) = n
    BY <1>1, <2>1, PrefixOfPath
  <2>3. SubSeq(SubSeq(q, 1, n), 1, k + 1) \in dirs
    BY <1>1, <1>4, <2>1, <2>2 DEF Closed
  <2> QED
    BY <1>1, <2>1, <2>3, PrefixOfPrefix
<1>5. CASE Parent(q) \in dirs
  <2>1. len - 1 \in 0 .. len /\ k + 1 <= len - 1
    BY <1>2, <1>3
  <2>2. SubSeq(q, 1, len - 1) \in dirs
    BY <1>1, <1>5 DEF Parent, Front, len
  <2> QED
    BY <1>2, <1>4, <2>1, <2>2 DEF k
<1>6. CASE len > 3 /\ q[2] = Shared /\ SubSeq(q, 1, 3) \in dirs
  <2>1. ~(k > 1)
    BY <1>2, <1>3, <1>6 DEF Personal, Shared
  <2>2. 3 \in 0 .. len /\ k + 1 <= 3
    BY <1>2, <1>6, <2>1
  <2> QED
    BY <1>2, <1>4, <1>6, <2>2 DEF k
<1> QED
    BY <1>1, <1>5, <1>6 DEF FilePlaced, len

\* The entry that a file gives is the file, which its owner reads.
LEMMA FileEntry ==
    ASSUME IInv, KeysHeld, NEW d \in dirs \cup {Root}, Len(d) > 1 => d[2] = Personal,
           NEW q \in files, IsStrictPrefix(d, q), ~(Len(q) > Len(d) + 1)
    PROVE  /\ Append(d, q[Len(d) + 1]) = q
           /\ cat(fetchOwner(q), q) # Unreadable
<1> DEFINE k == Len(d)
           len == Len(q)
<1>1. d \in Path /\ q \in Path /\ FilePlaced(q) /\ len > 2 /\ fetchOwner(q) \in users
    BY RootIsPath, FileFacts DEF IInv, TypeOK, StoreTypeOK, Namespace
<1>2. /\ k \in Nat /\ len \in Nat /\ k < len /\ \A i \in 1 .. k : q[i] = d[i]
      /\ Append(d, q[k + 1]) = SubSeq(q, 1, k + 1)
      /\ len = k + 1 => SubSeq(q, 1, k + 1) = q
    BY <1>1, EntryOfPath
<1>3. ~(len > k + 1) /\ (k > 1 => d[2] = Personal)
    OBVIOUS
<1> HIDE DEF k, len
<1>4. len = k + 1 /\ k > 1 /\ 2 \in 1 .. k
    BY <1>1, <1>2, <1>3
<1>5. q[2] = Personal
    BY <1>2, <1>3, <1>4
<1>6. Parent(q) \in dirs
    BY <1>1, <1>5 DEF FilePlaced, Personal, Shared
<1>7. q \in DOMAIN data /\ data[q].key = fetchOwner(q) /\ data[q].text # Unreadable
  <2>1. q \in DOMAIN data
    BY <1>6 DEF IInv, StorageMatches
  <2>2. data[q].text \in Content /\ data[q].key = fetchOwner(q)
    BY <2>1 DEF IInv, TypeOK, StorageTypeOK, StorageMatches
  <2> QED
    BY <2>1, <2>2, ContentAssumption
<1>8. cat(fetchOwner(q), q) = data[q].text
    BY <1>1, <1>7 DEF KeysHeld, cat, fetchPrivateKey, fetchFileContent, CanFetch
<1> QED
    BY <1>2, <1>4, <1>7, <1>8 DEF k

\* Outside the shared areas ls (CLI.cpp:14-57), which goes by the registered
\* paths alone, shows directories cd finds and files their owner reads.
THEOREM ListingsAreHonest == Spec => []ListingHonest
<1>1. IInv /\ KeysHeld => ListingHonest
  <2> SUFFICES ASSUME IInv, KeysHeld,
                      NEW d \in dirs \cup {Root}, Len(d) > 1 => d[2] = Personal,
                      NEW e \in ls(d)
               PROVE  IF e.isDir THEN Append(d, e.name) \in dirs
                      ELSE cat(fetchOwner(Append(d, e.name)), Append(d, e.name))
                               # Unreadable
    BY DEF ListingHonest
  <2>1. CASE \E q \in dirs :
                 IsStrictPrefix(d, q) /\ e = [name |-> q[Len(d) + 1], isDir |-> TRUE]
    BY <2>1, DirectoryEntry
  <2>2. ASSUME NEW q \in files, IsStrictPrefix(d, q),
               e = [name |-> q[Len(d) + 1], isDir |-> Len(q) > Len(d) + 1]
        PROVE  IF e.isDir THEN Append(d, e.name) \in dirs
               ELSE cat(fetchOwner(Append(d, e.name)), Append(d, e.name))
                        # Unreadable
    <3>1. e.name = q[Len(d) + 1] /\ e.isDir = (Len(q) > Len(d) + 1)
      BY <2>2
    <3>2. CASE Len(q) > Len(d) + 1
      BY <2>2, <3>1, <3>2, DeepEntry
    <3>3. CASE ~(Len(q) > Len(d) + 1)
      BY <2>2, <3>1, <3>3, FileEntry
    <3> QED
      BY <3>2, <3>3
  <2> QED
    BY <2>1, <2>2 DEF ls
<1> QED
    BY <1>1, KeysHeldAlways, Invariance, PTL
=============================================================================
