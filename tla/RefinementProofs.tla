--------------------------- MODULE RefinementProofs ---------------------------
(***************************************************************************)
(* CLI implements FileService: the accounts are the users, the contents    *)
(* those of the files on the host, and the grants the links.               *)
(***************************************************************************)
EXTENDS CLIProofs

Text == [p \in DOMAIN data |-> data[p].text]

\* A number that is more than three, and not four, is more than four.
LEMMA FourOrMore == \A k \in Nat : k > 3 => k = 4 \/ k > 4
    OBVIOUS

\* A file on the host is below directories only.
LEMMA OnHostNotBlocked ==
    ASSUME IInv, NEW f \in DOMAIN data
    PROVE  ~Blocked(f)
<1>1. /\ f \in files /\ Parent(f) \in dirs
      /\ DOMAIN data \subseteq files /\ dirs \cap files = {} /\ Closed(dirs)
    BY DEF IInv, StorageMatches, Namespace
<1>2. f \in Path /\ f # Root /\ Len(f) \in Nat /\ Len(f) > 2
    BY <1>1, FileFacts DEF IInv
<1>3. /\ Parent(f) \in Path /\ Len(Parent(f)) = Len(f) - 1
      /\ \A i \in 1 .. Len(f) - 1 : SubSeq(Parent(f), 1, i) = SubSeq(f, 1, i)
    BY <1>2, ParentOfPath
<1>4. ASSUME NEW i \in 1 .. Len(f) - 1
      PROVE  SubSeq(f, 1, i) \notin DOMAIN data
  <2>1. SubSeq(Parent(f), 1, i) \in dirs
    BY <1>1, <1>3 DEF Closed
  <2> QED
    BY <1>1, <1>3, <2>1
<1> QED
    BY <1>4 DEF Blocked

\* A step that changes no user and no host file, and at most forgets links.
LEMMA QuietMaps ==
    ASSUME UNCHANGED <<users, data>>, links' \subseteq links
    PROVE  FS!Next \/ UNCHANGED FS!fsVars
<1>1. Text' = Text
    BY DEF Text
<1>2. FS!Forget
    BY <1>1 DEF FS!Forget, Text
<1> QED
    BY <1>2 DEF FS!Next

\* A new user is a new account.
LEMMA CreateUserMaps ==
    ASSUME NEW u \in User, u \notin users, users' = users \cup {u},
           UNCHANGED <<data, links>>
    PROVE  FS!Next
<1>1. FS!CreateAccount(u)
    BY DEF FS!CreateAccount
<1> QED
    BY <1>1 DEF FS!Next

\* A new file of mkfile is a new file of its owner.
LEMMA MkfileCreateMaps ==
    ASSUME IInv, NEW name \in Name, NEW content \in Content,
           MkfileCreate(name, content)
    PROVE  FS!Next
<1>1. PICK path : path = Append(cwd, name)
    OBVIOUS
<1>2. /\ path[1] = user /\ path[2] = Personal /\ Len(path) > 2 /\ path \in Path
      /\ user \in users /\ user \in User
    BY <1>1, MkfilePath DEF MkfileCreate
<1>3. /\ path \notin DOMAIN data
      /\ DOMAIN data' = DOMAIN data \cup {path}
      /\ data'[path] = [key |-> user, text |-> content]
      /\ \A p \in DOMAIN data : p # path /\ data'[p] = data[p]
    BY <1>1, MkfileCreateData
<1>4. path \notin files /\ UNCHANGED <<users, links>>
    BY <1>1 DEF MkfileCreate
<1>6. Text' = [q \in DOMAIN Text \cup {path} |->
                  IF q = path THEN content ELSE Text[q]]
    BY <1>3 DEF Text
<1>7. FS!checkPersonal(path, user)
  <2>1. Len(path) \in Nat
    BY <1>2, LenProperties DEF Path
  <2> QED
    BY <1>2, <2>1 DEF FS!checkPersonal, FS!Personal, Personal
<1>8. path \notin DOMAIN Text /\ path \in DOMAIN Text'
    BY <1>3 DEF Text
<1>9. FS!Create(user, path, content)
    BY <1>2, <1>4, <1>6, <1>7, <1>8 DEF FS!Create, Text
<1> QED
    BY <1>2, <1>8, <1>9 DEF FS!Next, Text

\* An overwrite that finds no place blocked is an overwrite; one that does is
\* cut short, and the copy that has that place is not on the host.
LEMMA OverwriteMaps ==
    ASSUME IInv, NEW name \in Name, NEW content \in Content,
           MkfileOverwrite(name, content) \/ MkfileAbort(name, content)
    PROVE  FS!Next
<1>1. PICK path \in DOMAIN data : \E S \in SUBSET listSharedFiles(path) :
          Overwritten(path, S, content)
    BY OverwriteFacts
<1>2. PICK S \in SUBSET listSharedFiles(path) : Overwritten(path, S, content)
    BY <1>1
<1>3. /\ checkPersonal(path, user) /\ user \in users
      /\ DOMAIN data' = DOMAIN data
      /\ \A p \in DOMAIN data :
            IF p \in {path} \cup S
            THEN data'[p] = [key |-> fetchOwner(p), text |-> content]
            ELSE data'[p] = data[p]
      /\ UNCHANGED users
      /\ \/ S = listSharedFiles(path) /\ UNCHANGED links
         \/ /\ \E p \in listSharedFiles(path) : Blocked(p)
            /\ links' \subseteq links
    BY <1>2 DEF Overwritten
<1>4. user \in User /\ FS!checkPersonal(path, user)
    BY <1>3 DEF checkPersonal, FS!checkPersonal, Personal, FS!Personal, IInv,
           TypeOK, StoreTypeOK
<1>5. FS!CopiesOf(path) = listSharedFiles(path)
    BY DEF FS!CopiesOf, listSharedFiles
<1>6. Text' = [q \in DOMAIN Text |->
                  IF q \in {path} \cup S THEN content ELSE Text[q]]
    BY <1>3 DEF Text
<1>7. path \in DOMAIN Text /\ path \in DOMAIN Text'
    BY <1>3 DEF Text
<1>8. CASE S = listSharedFiles(path) /\ UNCHANGED links
  <2>1. FS!Overwrite(user, path, content)
    BY <1>3, <1>4, <1>5, <1>6, <1>7, <1>8 DEF FS!Overwrite, Text
  <2> QED
    BY <1>4, <1>7, <2>1 DEF FS!Next, Text
<1>9. CASE (\E p \in listSharedFiles(path) : Blocked(p)) /\ links' \subseteq links
  <2>1. ~(FS!CopiesOf(path) \subseteq DOMAIN Text)
    BY <1>5, <1>9, OnHostNotBlocked DEF Text
  <2>2. FS!CutShort(user, path, content)
    BY <1>2, <1>3, <1>4, <1>5, <1>6, <1>7, <1>9, <2>1 DEF FS!CutShort, Text
  <2> QED
    BY <1>4, <1>7, <2>2 DEF FS!Next, Text
<1> QED
    BY <1>3, <1>8, <1>9

\* A share is a grant; its copy is made where the sharer's directory is the
\* directory of the copy.
LEMMA ShareMaps ==
    ASSUME IInv, NEW src \in files, NEW t \in User, ShareDone(src, t)
    PROVE  FS!Next
<1>1. PICK dst : dst = DestinationFile(src, t)
    OBVIOUS
<1>2. /\ MayShare(src, t) /\ links' = links \cup {<<src, dst>>}
      /\ EnsureDestinationDir(t) /\ files' = files \cup {dst} /\ UNCHANGED users
    BY <1>1 DEF ShareDone, shareFile, registerFile
<1>3. /\ src[2] = Personal /\ src[1] = fetchOwner(src)
      /\ Len(src) \in Nat /\ Len(src) > 2
      /\ IsAdmin \/ fetchOwner(src) = user
      /\ user \in users /\ user \in User /\ t \in users /\ t # user
      /\ dst \in Path /\ Len(dst) > 3 /\ Len(dst) \in Nat
      /\ SubSeq(dst, 1, 3) = DestinationDir(t)
      /\ dst \notin files
    BY <1>1, <1>2, SharedPaths, FileFacts DEF IInv
<1>4. /\ src \in DOMAIN data
      /\ IsAdmin => fetchOwner(src) = user \/ data[src].text = Empty
      /\ DOMAIN data' = DOMAIN data \cup {p \in {dst} : Parent(p) \in dirs'}
      /\ \A p \in DOMAIN data : p # dst /\ data'[p] = data[p]
    BY <1>1, ShareDoneData
<1>5. dst \in DOMAIN data' => data'[dst] = [key |-> t, text |-> data[src].text]
    BY <1>1, ShareDoneData
<1>6. \/ Text' = [q \in DOMAIN Text \cup {dst} |->
                     IF q = dst THEN Text[src] ELSE Text[q]]
      \/ Len(dst) > 4 /\ Text' = Text
  <2>1. CASE dst \in DOMAIN data'
    <3>1. DOMAIN data' = DOMAIN data \cup {dst} /\ dst \notin DOMAIN data
      BY <1>4, <2>1
    <3> QED
      BY <1>4, <1>5, <3>1 DEF Text
  <2>2. CASE dst \notin DOMAIN data'
    <3>1. DOMAIN data' = DOMAIN data
      BY <1>4, <2>2
    <3>2. Text' = Text
      BY <1>4, <3>1 DEF Text
    <3>3. Parent(dst) \notin dirs'
      BY <1>4, <2>2
    <3>4. DestinationDir(t) \in dirs'
      <4>1. LoggedIn /\ files \subseteq files'
        BY <1>2 DEF MayShare
      <4> QED
        BY <1>2, <1>3, <4>1, EnsuredDirectory
    <3>5. ASSUME Len(dst) = 4
          PROVE  FALSE
      <4>1. dst # Root
        BY <1>3, EmptySeq DEF Root
      <4>2. Parent(dst) = SubSeq(dst, 1, 3)
        BY <3>5, <4>1 DEF Parent, Front
      <4> QED
        BY <1>3, <3>3, <3>4, <4>2
    <3>6. Len(dst) > 4
      BY <1>3, <3>5, FourOrMore, Zenon
    <3> QED
      BY <3>2, <3>6
  <2> QED
    BY <2>1, <2>2
<1>7. FS!checkPersonal(src, user) \/ (user = FS!Admin /\ Text[src] = Empty)
    BY <1>3, <1>4 DEF FS!checkPersonal, FS!Personal, Personal, FS!Admin, Admin,
           IsAdmin, Text
<1>8. Len(dst) >= 4 /\ SubSeq(dst, 1, 3) = <<t, FS!Shared, user>>
    BY <1>3 DEF FS!Shared, Shared, DestinationDir
<1>9. src \in DOMAIN Text /\ dst \notin DOMAIN Text
    BY <1>3, <1>4 DEF Text
<1>10. FS!Grant(user, src, t, dst)
    BY <1>2, <1>3, <1>6, <1>7, <1>8, <1>9 DEF FS!Grant, Text
<1>11. <<src, dst>> \in links' /\ <<src, dst>>[2] = dst
    BY <1>2
<1> QED
    BY <1>3, <1>9, <1>10, <1>11 DEF FS!Next, Text

\* Every step of CLI is one of FileService, or changes nothing it sees.
LEMMA StepMaps ==
    ASSUME IInv, [Next]_vars
    PROVE  [FS!Next]_FS!fsVars
<1>1. CASE \E name \in Name, content \in Content : MkfileCreate(name, content)
    BY <1>1, MkfileCreateMaps
<1>2. CASE \E name \in Name, content \in Content :
              MkfileOverwrite(name, content) \/ MkfileAbort(name, content)
    BY <1>2, OverwriteMaps
<1>3. CASE \E src \in files, t \in User : ShareDone(src, t)
    BY <1>3, ShareMaps
<1>4. CASE /\ UNCHANGED data /\ links' \subseteq links
           /\ \/ UNCHANGED users
              \/ \E u \in User : /\ u \notin users /\ users' = users \cup {u}
                                 /\ links' = links
  <2>1. CASE UNCHANGED users
    BY <1>4, <2>1, QuietMaps
  <2>2. CASE \E u \in User : /\ u \notin users /\ users' = users \cup {u}
                             /\ links' = links
    BY <1>4, <2>2, CreateUserMaps
  <2> QED
    BY <1>4, <2>1, <2>2
<1> QED
    BY <1>1, <1>2, <1>3, <1>4, QuietSteps

\* The commands, with sessions that end, die and follow one another, implement
\* the service: contents change by the hand of their owner and copies of them
\* with them, and grants come from owners, or from admin for empty files.
THEOREM Refinement == Spec => ImplementsFileService
<1>1. Init => FS!Init
    BY DEF Init, StoreInit, StorageInit, FS!Init
<1>2. IInv /\ [Next]_vars => [FS!Next]_FS!fsVars
    BY StepMaps
<1> QED
    BY <1>1, <1>2, Invariance, PTL DEF Spec, ImplementsFileService, FS!Spec
=============================================================================
