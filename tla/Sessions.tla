------------------------------ MODULE Sessions ------------------------------
(***************************************************************************)
(* Processes of CipherFS, several at a time, step by step: each access to  *)
(* a file of the host is a step, and a process may be killed between any   *)
(* two of them.                                                            *)
(*                                                                         *)
(* A process reads the stores when it starts, works on its copies, and     *)
(* writes whole stores back.  What it has left of the handler it is in is  *)
(* the sequence todo of steps; a handler that is entered puts its steps    *)
(* there, in the order of the code.  Steps on memory alone are taken       *)
(* together with the step they follow where no other process could tell.   *)
(*                                                                         *)
(* The commands are those of CLI, given in the home or in the personal     *)
(* directory and with names that hold no slash.                            *)
(*                                                                         *)
(* A text is written at once: it is shorter than the buffer of a stream.   *)
(* (Of a longer one others might read a beginning, which parses no better  *)
(* than an empty or a garbled text.)  A file that is removed and made      *)
(* again while another process has it open is taken for the same file.     *)
(***************************************************************************)
EXTENDS HostFiles, FiniteSets

CONSTANTS
    Proc,       \* the processes
    MaxLive,    \* how many of them may run at once
    MaxCrashes  \* how many may be killed in the middle of something

ASSUME SessionsAssumption == MaxLive \in Nat /\ MaxCrashes \in Nat

VARIABLES
    keys,     \* for whom each key pair was generated
    crashes,  \* how often a process was killed in the middle of something
    user,     \* who is logged in, NoUser before that and when not running
    key,      \* the private key the process was started with
    cwd,      \* the current directory
    mem,      \* the stores in memory
    hold,     \* the text the process is about to write
    todo      \* the steps left of the handler it is in

procVars == <<user, key, cwd, mem, hold, todo>>
vars == <<host, tree, keys, crashes, procVars>>

NoKey == Plain      \* the key of a record that is null or missing

\* A store before anything is in it.
NewStore(s) ==
    CASE s = FileMappings -> [dirs |-> {}, files |-> {}]
      [] s = SharedInfo   -> {}
      [] OTHER            -> <<>>

NewMemory == [s \in Store |-> NewStore(s)]

\* An empty text, or two written over each other, are no key, and cannot be
\* parsed to a table of keys.
ASSUME TextAssumption ==
    \A text \in {Empty, Garbled} :
        text \notin Nat /\ \A known \in SUBSET User : text \notin [known -> Nat]

Running(p)  == user[p] # NoUser \/ todo[p] # <<>>
AtPrompt(p) == user[p] # NoUser /\ todo[p] = <<>>

knownUsers(p) == DOMAIN mem[p][UserInfo]
knownDirs(p)  == mem[p][FileMappings].dirs
knownFiles(p) == mem[p][FileMappings].files
knownLinks(p) == mem[p][SharedInfo]

listSharedFiles(p, src) == {l[2] : l \in {m \in knownLinks(p) : m[1] = src}}

\* A record that is null, or missing, is no key.
publicKey(p, u) == IF u \in knownUsers(p) THEN mem[p][UserInfo][u] ELSE NoKey

privateKey(p, u) ==
    IF u \in DOMAIN mem[p][AdminKeys] THEN mem[p][AdminKeys][u] ELSE NoKey

Init ==
    /\ host = <<>> /\ tree = {Root}
    /\ keys = <<>> /\ crashes = 0
    /\ user = [p \in Proc |-> NoUser]
    /\ key  = [p \in Proc |-> NoKey]
    /\ cwd  = [p \in Proc |-> Root]
    /\ mem  = [p \in Proc |-> NewMemory]
    /\ hold = [p \in Proc |-> Empty]
    /\ todo = [p \in Proc |-> <<>>]

-----------------------------------------------------------------------------
(* The steps of the handlers *)

On(do, f) == [do |-> do, file |-> f]

\* A file is opened, and then written; or the next one is opened first.
Opening(f, write) == [do |-> "open", file |-> f, write |-> write]

\* A store, or a file of the tree with the text that is held.
Write(f) == <<Opening(f, On("put", f))>>

\* The files of a new key pair.  Both are open before the buffer of either is
\* written; that of the private key is the first.
PutKeyTo(f, k) == [do |-> "put key", file |-> f, key |-> k]

createKeyPair(u, k) ==
    <<Opening(KeyFile(u), Opening(PublicFile(u), PutKeyTo(KeyFile(u), k)))>>

\* secureFile: encryption in place, for a user.  What it throws is caught by
\* persistAdminData, by the command, or by nobody.
Secure(f, u, catcher) ==
    <<[do |-> "read", file |-> f, for |-> u, catcher |-> catcher]>>

\* Its second half, when the text has been read and encrypted in memory.
Replace(f, u) == <<Opening(f, [do |-> "seal", file |-> f, for |-> u])>>

\* Mutant: what is written is left as it is.
generateFileClear(f, u, catcher) == Write(f)

generateFile(f, u, catcher) == Write(f) \o Secure(f, u, catcher)

\* A copy that is not registered has an empty path, and removing the root of
\* the tree fails.
replicateFile(src, dst, registered, catcher) ==
    IF registered
    THEN <<[do |-> "fetch", file |-> src, catcher |-> catcher],
           On("remove", dst)>> \o generateFile(dst, fetchOwner(dst), catcher)
    ELSE <<On("abort", src)>>

\* The copies of a file that are still to be brought up to date.
replicateTo(src, copies) ==
    IF copies = {} THEN <<>>
    ELSE <<[do |-> "copies", file |-> src, left |-> copies]>>

registerDirectory(d) == <<On("register dir", d)>>
registerFile(f)      == <<On("register file", f)>>

\* Mutant: the private keys are saved before the users they belong to.
PersistAdminKeysFirst(isAdminMode) ==
    (IF isAdminMode
     THEN Write(AdminKeys) \o Secure(AdminKeys, Admin, "persist")
     ELSE <<>>)
    \o Write(UserInfo)

\* UserDataStore::persistData, and the two levels above.
PersistUsers(isAdminMode) ==
    Write(UserInfo)
    \o IF isAdminMode
       THEN Write(AdminKeys) \o Secure(AdminKeys, Admin, "persist")
       ELSE <<>>

PersistAll(isAdminMode) ==
    Write(FileMappings) \o PersistUsers(isAdminMode) \o Write(SharedInfo)

\* Mutant: the links are left to addUser.
DestroyKeepingLinks(isAdminMode) ==
    Write(FileMappings) \o PersistUsers(isAdminMode) \o <<On("quit", Root)>>

\* The destructor of the helper, and then those of its members.
Destroy(isAdminMode) ==
    PersistAll(isAdminMode)
    \o Write(SharedInfo) \o PersistUsers(isAdminMode) \o Write(FileMappings)
    \o <<On("quit", Root)>>

\* Mutant: the user is saved before the directories are registered.
createUserEarly(u, k) ==
    createKeyPair(u, k)
    \o <<On("learn", PublicFile(u)), On("learn", KeyFile(u))>>
    \o PersistAll(TRUE)
    \o registerDirectory(Home(u)) \o registerDirectory(PersonalDir(u))
    \o registerDirectory(SharedDir(u))
    \o <<On("establish", Home(u)), On("establish", PersonalDir(u)),
         On("establish", SharedDir(u))>>

\* AccountHandler::createUser, with the number of the new key pair.
createUser(u, k) ==
    createKeyPair(u, k)
    \o <<On("learn", PublicFile(u))>>
    \o registerDirectory(Home(u)) \o registerDirectory(PersonalDir(u))
    \o registerDirectory(SharedDir(u))
    \o <<On("learn", KeyFile(u))>>
    \o PersistAll(TRUE)
    \o <<On("establish", Home(u)), On("establish", PersonalDir(u)),
         On("establish", SharedDir(u))>>

-----------------------------------------------------------------------------
(* Taking a step *)

At(p, do) == todo[p] # <<>> /\ Head(todo[p]).do = do
Op(p)     == Head(todo[p])
File(p)   == Op(p).file

\* The step is done, or it goes on with more steps.
Done(p)          == todo' = [todo EXCEPT ![p] = Tail(@)]
Expand(p, steps) == todo' = [todo EXCEPT ![p] = steps \o Tail(@)]

Hold(p, text) == hold' = [hold EXCEPT ![p] = text]
Memory(p, s, value) == mem' = [mem EXCEPT ![p][s] = value]

\* The process is gone, with all it had in memory.
Gone(p) ==
    /\ user' = [user EXCEPT ![p] = NoUser]
    /\ key'  = [key EXCEPT ![p] = NoKey]
    /\ cwd'  = [cwd EXCEPT ![p] = Root]
    /\ mem'  = [mem EXCEPT ![p] = NewMemory]
    /\ hold' = [hold EXCEPT ![p] = Empty]
    /\ todo' = [todo EXCEPT ![p] = <<>>]

\* An exception: past the encryption, back to the prompt, or through main.
Throw(p, catcher) ==
    \/ /\ catcher = "persist"
       /\ Done(p) /\ Hold(p, Empty)
       /\ UNCHANGED <<user, key, cwd, mem>>
    \/ /\ catcher = "command"
       /\ todo' = [todo EXCEPT ![p] = <<>>] /\ Hold(p, Empty)
       /\ UNCHANGED <<user, key, cwd, mem>>
    \/ catcher = "nobody" /\ Gone(p)

-----------------------------------------------------------------------------
(* Starting *)

\* A start with the keyfile of a user, or with none that exists.
Start(p, u) ==
    /\ ~Running(p)
    /\ Cardinality({q \in Proc : Running(q)}) < MaxLive
    /\ todo' = [todo EXCEPT ![p] =
           <<On("load", FileMappings), On("load", UserInfo),
             On("load", SharedInfo), On("begin", KeyFile(u))>>]
    /\ UNCHANGED <<host, tree, keys, crashes, user, key, cwd, mem, hold>>

\* A store that does not exist is made first, empty.  json::parse throws for a
\* file that is not whole, outside any try block.
Load(p) ==
    /\ At(p, "load")
    /\ IF File(p) \notin DOMAIN host
       THEN /\ todo' = [todo EXCEPT ![p] = Write(File(p)) \o @]
            /\ UNCHANGED <<user, key, cwd, mem, hold>>
       ELSE IF ReadPlain(File(p)) \in {Empty, Garbled}
       THEN Gone(p)
       ELSE /\ Memory(p, File(p), host[File(p)].text)
            /\ Done(p)
            /\ UNCHANGED <<user, key, cwd, hold>>
    /\ UNCHANGED <<hostVars, keys, crashes>>

\* The users whose public key fits the private key in a file.
Fitting(p, f) ==
    {u \in knownUsers(p) : f \in DOMAIN host /\ host[f].text \in 1 .. Len(keys)
                        /\ mem[p][UserInfo][u] = host[f].text}

\* The first run creates admin, and exits.
FirstRun(p) ==
    /\ At(p, "begin")
    /\ Admin \notin knownUsers(p)
    /\ keys' = Append(keys, Admin)
    /\ todo' = [todo EXCEPT ![p] = createUser(Admin, Len(keys')) \o Destroy(TRUE)]
    /\ UNCHANGED <<hostVars, crashes, user, key, cwd, mem, hold>>

\* No keyfile, or one that fits nobody: the stores are saved all the same.
Refuse(p) ==
    /\ At(p, "begin")
    /\ Admin \in knownUsers(p)
    /\ Fitting(p, File(p)) = {}
    /\ todo' = [todo EXCEPT ![p] = Destroy(FALSE)]
    /\ UNCHANGED <<hostVars, keys, crashes, user, key, cwd, mem, hold>>

Login(p) ==
    /\ At(p, "begin")
    /\ Admin \in knownUsers(p)
    /\ \E u \in Fitting(p, File(p)) :
          /\ user' = [user EXCEPT ![p] = u]
          /\ cwd'  = [cwd EXCEPT ![p] = Home(u)]
          /\ todo' = [todo EXCEPT ![p] =
                         IF u = Admin THEN <<On("unlock", AdminKeys)>> ELSE <<>>]
    /\ key' = [key EXCEPT ![p] = host[File(p)].text]
    /\ UNCHANGED <<hostVars, keys, crashes, mem, hold>>

\* Mutant: what cannot be parsed is taken as it is.
UnlockUnparsed(p) ==
    /\ At(p, "unlock")
    /\ IF AdminKeys \notin DOMAIN host
       THEN /\ Expand(p, Write(AdminKeys))
            /\ UNCHANGED mem
       ELSE Memory(p, AdminKeys, host[AdminKeys].text) /\ Done(p)
    /\ UNCHANGED <<hostVars, keys, crashes, user, key, cwd, hold>>

\* setupAdminDataStore: an empty store is made in the clear; one that does not
\* open, or is empty, throws.
Unlock(p) ==
    /\ At(p, "unlock")
    /\ IF AdminKeys \notin DOMAIN host
       THEN /\ Expand(p, Write(AdminKeys))
            /\ UNCHANGED <<user, key, cwd, mem, hold>>
       ELSE IF Opens(AdminKeys, key[p])
               /\ host[AdminKeys].text \notin {Empty, Garbled}
            THEN /\ Memory(p, AdminKeys, host[AdminKeys].text)
                 /\ Done(p)
                 /\ UNCHANGED <<user, key, cwd, hold>>
            ELSE Gone(p)
    /\ UNCHANGED <<hostVars, keys, crashes>>

-----------------------------------------------------------------------------
(* Steps on files and memory *)

\* A stream that does not open is not looked at; what was to be written is lost.
Open(p) ==
    /\ At(p, "open")
    /\ IF Openable(File(p))
       THEN /\ host' = Set(File(p), Blank)
            /\ Expand(p, <<Op(p).write>>)
            /\ UNCHANGED hold
       ELSE Done(p) /\ Hold(p, Empty) /\ UNCHANGED host
    /\ UNCHANGED <<tree, keys, crashes, user, key, cwd, mem>>

\* A file that was removed in the meantime takes what is written with it.
Overwrite(f, content) ==
    host' \in IF f \in DOMAIN host
              THEN {Set(f, new) : new \in Overwritten(host[f], content)}
              ELSE {host}

Put(p) ==
    /\ At(p, "put")
    /\ Overwrite(File(p), Plaintext(IF File(p) \in Store THEN mem[p][File(p)]
                                                         ELSE hold[p]))
    /\ Done(p)
    /\ UNCHANGED <<tree, keys, crashes, user, key, cwd, mem, hold>>

PutKey(p) ==
    LET f == File(p)
        u == f[2]
    IN  /\ At(p, "put key")
        /\ Overwrite(f, Plaintext(Op(p).key))
        /\ IF f = KeyFile(u)
           THEN Expand(p, <<PutKeyTo(PublicFile(u), Op(p).key)>>)
           ELSE Done(p)
        /\ UNCHANGED <<tree, keys, crashes, user, key, cwd, mem, hold>>

\* secureFile reads the file, whosever text it finds, and encrypts that in
\* memory; reading a directory throws.  fetchPublicKey leaves a null record for
\* a user it does not know.
Read(p) ==
    LET f == File(p)
        u == Op(p).for
    IN  /\ At(p, "read")
        /\ IF \/ f \in tree
              \/ /\ f \in DOMAIN host /\ ReadPlain(f) # Empty
                 /\ publicKey(p, u) \notin 1 .. Len(keys)
           THEN Throw(p, Op(p).catcher)
           ELSE /\ IF f \in DOMAIN host
                   THEN Expand(p, Replace(f, u)) /\ Hold(p, ReadPlain(f))
                   ELSE Done(p) /\ Hold(p, Empty)
                /\ Memory(p, UserInfo,
                          [v \in knownUsers(p) \cup {u} |-> publicKey(p, v)])
                /\ UNCHANGED <<user, key, cwd>>
        /\ UNCHANGED <<hostVars, keys, crashes>>

\* Mutant: the ciphertext is made for the writer.
SealForWriter(p) ==
    /\ At(p, "seal")
    /\ Overwrite(File(p), Sealed(publicKey(p, user[p]), hold[p]))
    /\ Done(p)
    /\ Hold(p, Empty)
    /\ UNCHANGED <<tree, keys, crashes, user, key, cwd, mem>>

Seal(p) ==
    /\ At(p, "seal")
    /\ Overwrite(File(p), Sealed(publicKey(p, Op(p).for), hold[p]))
    /\ Done(p)
    /\ Hold(p, Empty)
    /\ UNCHANGED <<tree, keys, crashes, user, key, cwd, mem>>

\* addUser takes the keys of a new user from the files they were written to.
Learn(p) ==
    LET f == File(p)
        u == f[2]
        s == IF f = KeyFile(u) THEN AdminKeys ELSE UserInfo
    IN  /\ At(p, "learn")
        /\ Memory(p, s, [v \in DOMAIN mem[p][s] \cup {u} |->
                            IF v = u THEN host[f].text ELSE mem[p][s][v]])
        /\ Done(p)
        /\ UNCHANGED <<hostVars, keys, crashes, user, key, cwd, hold>>

\* Registration: in memory, and FileMappings is opened to be saved.
RegisterDirectory(p) ==
    /\ At(p, "register dir")
    /\ mem' = [mem EXCEPT ![p][FileMappings].dirs = @ \cup {File(p)}]
    /\ host' = Set(FileMappings, Blank)
    /\ Expand(p, <<On("put", FileMappings)>>)
    /\ UNCHANGED <<tree, keys, crashes, user, key, cwd, hold>>

RegisterFile(p) ==
    /\ At(p, "register file")
    /\ mem' = [mem EXCEPT ![p][FileMappings].files = @ \cup {File(p)}]
    /\ host' = Set(FileMappings, Blank)
    /\ Expand(p, <<On("put", FileMappings)>>)
    /\ UNCHANGED <<tree, keys, crashes, user, key, cwd, hold>>

Establish(p) ==
    /\ At(p, "establish")
    /\ establish(File(p))
    /\ Done(p)
    /\ UNCHANGED <<host, keys, crashes, user, key, cwd, mem, hold>>

\* The order of the copies is that in which they were shared; any order here.
NextCopy(p) ==
    /\ At(p, "copies")
    /\ \E dst \in Op(p).left :
          Expand(p, replicateFile(File(p), dst, dst \in knownFiles(p), "nobody")
                    \o replicateTo(File(p), Op(p).left \ {dst}))
    /\ UNCHANGED <<hostVars, keys, crashes, user, key, cwd, mem, hold>>

\* replicateFile: the source in memory, then the copy removed.
Fetch(p) ==
    /\ At(p, "fetch")
    /\ IF Opens(File(p), key[p])
       THEN /\ Hold(p, host[File(p)].text)
            /\ Done(p)
            /\ UNCHANGED <<user, key, cwd, mem>>
       ELSE Throw(p, Op(p).catcher)
    /\ UNCHANGED <<hostVars, keys, crashes>>

RemoveFile(p) ==
    /\ At(p, "remove")
    /\ host' = [f \in DOMAIN host \ {File(p)} |-> host[f]]
    /\ Done(p)
    /\ UNCHANGED <<tree, keys, crashes, user, key, cwd, mem, hold>>

Link(p) ==
    /\ At(p, "link")
    /\ Memory(p, SharedInfo, knownLinks(p) \cup {<<File(p), Op(p).copy>>})
    /\ Done(p)
    /\ UNCHANGED <<hostVars, keys, crashes, user, key, cwd, hold>>

\* The process ends: it has come to its end, or it dies of what removing the
\* root of the tree throws.
Quit(p) ==
    /\ At(p, "quit") \/ At(p, "abort")
    /\ Gone(p)
    /\ UNCHANGED <<hostVars, keys, crashes>>

-----------------------------------------------------------------------------
(* Commands: what they check, on the stores in memory, and the steps ahead *)

\* A command is entered, with a text to write.
Enter(p, steps, text) ==
    /\ todo' = [todo EXCEPT ![p] = steps]
    /\ Hold(p, text)
    /\ UNCHANGED <<hostVars, keys, crashes, user, key, cwd, mem>>

Cd(p, dir) ==
    /\ AtPrompt(p)
    /\ \/ dir = Home(user[p])
       \/ /\ dir = PersonalDir(user[p]) /\ cwd[p] = Home(user[p])
          /\ dir \in knownDirs(p)
    /\ cwd' = [cwd EXCEPT ![p] = dir]
    /\ UNCHANGED <<hostVars, keys, crashes, user, key, mem, hold, todo>>

\* cat reads one file.  But to read for admin it asks for the private key kept
\* for the owner, and asking leaves a null record where there is none.  Admin
\* reads any file: the way there by cd, and back, is part of the step.
Cat(p, path) ==
    /\ AtPrompt(p)
    /\ user[p] = Admin
    /\ path \in knownFiles(p)
    /\ Memory(p, AdminKeys,
              [u \in DOMAIN mem[p][AdminKeys] \cup {fetchOwner(path)} |->
                  privateKey(p, u)])
    /\ UNCHANGED <<hostVars, keys, crashes, user, key, cwd, hold, todo>>

MayCreateHere(p) == AtPrompt(p) /\ checkPersonal(cwd[p], user[p])

MkfileCreate(p, name, content) ==
    LET path == Append(cwd[p], name)
    IN  /\ MayCreateHere(p)
        /\ path \notin knownDirs(p) \cup knownFiles(p)
        /\ Enter(p, registerFile(path) \o generateFile(path, user[p], "command"),
                 content)

\* Mutant: the copies are not written.
MkfileOverwriteAlone(p, name, content) ==
    LET path == Append(cwd[p], name)
    IN  /\ MayCreateHere(p)
        /\ path \in knownFiles(p) \ knownDirs(p)
        /\ Enter(p, generateFile(path, user[p], "nobody"), content)

MkfileOverwrite(p, name, content) ==
    LET path == Append(cwd[p], name)
    IN  /\ MayCreateHere(p)
        /\ path \in knownFiles(p) \ knownDirs(p)
        /\ Enter(p, generateFile(path, user[p], "nobody")
                    \o replicateTo(path, listSharedFiles(p, path)), content)

Mkdir(p, name) ==
    LET path == Append(cwd[p], name)
    IN  /\ MayCreateHere(p)
        /\ path \notin knownDirs(p) \cup knownFiles(p)
        /\ Enter(p, registerDirectory(path) \o <<On("establish", path)>>, Empty)

\* Mutant: the directory of the sharer is made, and not registered.
EnsureDestinationDirUnregistered(p, dir) ==
    IF dir \in knownDirs(p) THEN <<>> ELSE <<On("establish", dir)>>

\* The directory of the sharer is made where it is missing.
EnsureDestinationDir(p, dir) ==
    IF dir \in knownDirs(p) THEN <<>>
    ELSE <<On("establish", dir)>> \o registerDirectory(dir)

\* Mutant: the copy is not registered.
ShareUnregistered(p, name, target) ==
    LET src == Append(cwd[p], name)
        dir == <<target, Shared, user[p]>>
        dst == Append(dir, name)
    IN  /\ AtPrompt(p)
        /\ ~InShared(src)
        /\ src \in knownFiles(p)
        /\ target \in knownUsers(p) \ {user[p]}
        /\ dst \notin knownFiles(p)
        /\ Enter(p, EnsureDestinationDir(p, dir)
                    \o replicateFile(src, dst, TRUE, "command")
                    \o <<[do |-> "link", file |-> src, copy |-> dst]>>, Empty)

Share(p, name, target) ==
    LET src == Append(cwd[p], name)
        dir == <<target, Shared, user[p]>>
        dst == Append(dir, name)
    IN  /\ AtPrompt(p)
        /\ ~InShared(src)
        /\ src \in knownFiles(p)
        /\ target \in knownUsers(p) \ {user[p]}
        /\ dst \notin knownFiles(p)
        /\ Enter(p, EnsureDestinationDir(p, dir)
                    \o replicateFile(src, dst, TRUE, "command")
                    \o registerFile(dst)
                    \o <<[do |-> "link", file |-> src, copy |-> dst]>>, Empty)

\* Mutant: whether there is such a user is not asked.
AddUserAgain(p, u) ==
    /\ AtPrompt(p)
    /\ user[p] = Admin
    /\ keys' = Append(keys, u)
    /\ todo' = [todo EXCEPT ![p] = createUser(u, Len(keys'))]
    /\ UNCHANGED <<hostVars, crashes, user, key, cwd, mem, hold>>

AddUser(p, u) ==
    /\ AtPrompt(p)
    /\ user[p] = Admin
    /\ u \notin knownUsers(p)
    /\ keys' = Append(keys, u)
    /\ todo' = [todo EXCEPT ![p] = createUser(u, Len(keys'))]
    /\ UNCHANGED <<hostVars, crashes, user, key, cwd, mem, hold>>

Exit(p) ==
    /\ AtPrompt(p)
    /\ Enter(p, Destroy(user[p] = Admin), Empty)

\* At the end of its input the loop reads empty lines for ever.
EndOfInput(p) ==
    /\ AtPrompt(p)
    /\ Enter(p, <<On("getline", Root)>>, Empty)

Getline(p) == At(p, "getline") /\ UNCHANGED vars

\* A process is killed: between two commands, or in the middle of one.
Kill(p) ==
    /\ AtPrompt(p) \/ At(p, "getline")
    /\ Gone(p)
    /\ UNCHANGED <<hostVars, keys, crashes>>

Crash(p) ==
    /\ todo[p] # <<>> /\ ~At(p, "getline")
    /\ crashes < MaxCrashes
    /\ crashes' = crashes + 1
    /\ Gone(p)
    /\ UNCHANGED <<hostVars, keys>>

-----------------------------------------------------------------------------
\* What a process does by itself.
Proceed(p) ==
    \/ Load(p)
    \/ FirstRun(p)
    \/ Refuse(p)
    \/ Login(p)
    \/ Unlock(p)
    \/ Open(p)
    \/ Put(p)
    \/ PutKey(p)
    \/ Read(p)
    \/ Seal(p)
    \/ Learn(p)
    \/ RegisterDirectory(p)
    \/ RegisterFile(p)
    \/ Establish(p)
    \/ NextCopy(p)
    \/ Fetch(p)
    \/ RemoveFile(p)
    \/ Link(p)
    \/ Quit(p)
    \/ Getline(p)

\* What its user makes it do.
Command(p) ==
    \/ \E dir \in {Home(user[p]), PersonalDir(user[p])} : Cd(p, dir)
    \/ \E path \in knownFiles(p) : Cat(p, path)
    \/ \E name \in Name, content \in Content : MkfileCreate(p, name, content)
    \/ \E name \in Name, content \in Content : MkfileOverwrite(p, name, content)
    \/ \E name \in Name : Mkdir(p, name)
    \/ \E name \in Name, target \in User : Share(p, name, target)
    \/ \E u \in User : AddUser(p, u)
    \/ Exit(p)
    \/ EndOfInput(p)

Step(p) == Proceed(p) \/ Command(p) \/ Kill(p) \/ Crash(p)

Next ==
    \/ \E p \in Proc, u \in User : Start(p, u)
    \/ \E p \in Proc : Step(p)

Spec == Init /\ [][Next]_vars

\* A process that has something to do is scheduled.  What is typed at its
\* prompt, and who kills it, is nobody's duty.
Fairness == \A p \in Proc : WF_vars(Proceed(p))

FairSpec == Spec /\ Fairness

-----------------------------------------------------------------------------
(* Properties *)

PublicKey == 0 .. Len(keys) \cup {Empty, Garbled}
KeyTable  == UNION {[known -> PublicKey] : known \in SUBSET User}

MemoryOK(m) ==
    /\ m[FileMappings].dirs \subseteq Path
    /\ m[FileMappings].files \subseteq Path
    /\ m[UserInfo] \in KeyTable
    /\ m[AdminKeys] \in KeyTable
    /\ m[SharedInfo] \subseteq Path \X Path

\* Types; and a process that is not logged in has no key, and none that waits
\* for its user has a text in hand it was going to write.
TypeOK ==
    /\ \A f \in DOMAIN host :
          host[f].key \in 0 .. Len(keys) /\ f \notin tree
    /\ tree \subseteq Path
    /\ keys \in Seq(User) /\ crashes \in 0 .. MaxCrashes
    /\ \A p \in Proc :
          /\ user[p] \in User \cup {NoUser}
          /\ key[p] \in 0 .. Len(keys)
          /\ cwd[p] \in Path
          /\ MemoryOK(mem[p])
          /\ user[p] = NoUser => key[p] = NoKey
          /\ AtPrompt(p) => hold[p] = Empty

IsWhole(s) ==
    s \in DOMAIN host /\ host[s].key = Plain
        /\ host[s].text \notin {Empty, Garbled}

saved(s) == host[s].text

\* No process is running.
AllQuiet == \A p \in Proc : ~Running(p)

\* Whatever step a process is killed at, and however often: a user the disk
\* knows has the three directories of a home registered on the disk.
HomesRegistered ==
    IsWhole(FileMappings) /\ IsWhole(UserInfo) =>
        \A u \in DOMAIN saved(UserInfo) :
            HomeDirs(u) \subseteq saved(FileMappings).dirs

\* The links on the disk are between files the disk knows.
LinksRegistered ==
    IsWhole(FileMappings) /\ IsWhole(SharedInfo) =>
        \A l \in saved(SharedInfo) :
            {l[1], l[2]} \subseteq saved(FileMappings).files

\* The keyfile on the host is the one that logs its user in.
KeyfileFits ==
    IsWhole(UserInfo) =>
        \A u \in DOMAIN saved(UserInfo) :
            /\ KeyFile(u) \in DOMAIN host
            /\ host[KeyFile(u)].text = saved(UserInfo)[u]

\* The private keys kept for admin are encrypted for admin and belong to users,
\* and each of them fits the public key of its user.  A user who was added by a
\* process that died may have none, or a null record cat has left: what is
\* there is never another key.
AdminKeysAgree ==
    IsWhole(UserInfo) /\ AdminKeys \in DOMAIN host
      /\ host[AdminKeys].key # Plain =>
        /\ Admin \in DOMAIN saved(UserInfo)
        /\ host[AdminKeys].key = saved(UserInfo)[Admin]
        /\ host[AdminKeys].text # Garbled
        /\ \A u \in DOMAIN saved(AdminKeys) :
              u \in DOMAIN saved(UserInfo)
                /\ saved(AdminKeys)[u] \in {NoKey, saved(UserInfo)[u]}

\* What is encrypted is encrypted for the one it belongs to: files for the
\* owner of their path, the private keys for admin.
SealedForOwner ==
    \A f \in DOMAIN host :
        host[f].key # Plain =>
            keys[host[f].key] = IF f = AdminKeys THEN Admin ELSE fetchOwner(f)

\* Some process is encrypting the file.
BeingSealed(f) ==
    \E p \in Proc :
        \/ At(p, "read") /\ File(p) = f
        \/ At(p, "open") /\ Op(p).write.do = "seal" /\ File(p) = f

\* A process is killed, or has no key to encrypt with.
LeavesPlaintext ==
    \/ crashes' # crashes
    \/ \E p \in Proc : /\ At(p, "read") /\ todo'[p] # todo[p]
                      /\ publicKey(p, Op(p).for) \notin 1 .. Len(keys)

\* Plaintext that is written is always about to be encrypted, whoever else
\* reads and writes the file at the same time; what leaves it behind is the
\* death of the process that was to encrypt it, or the want of a public key.
NoPlaintextLeft ==
    [][\A f \in DOMAIN host' :
          (InTree(f) \/ f = AdminKeys) /\ Exposed(f)' =>
              \/ BeingSealed(f)'
              \/ Exposed(f) /\ ~BeingSealed(f)
              \/ LeavesPlaintext]_vars

\* Every version of FileMappings there is, in a memory or on the disk, has
\* with a path the directory it is in, whoever wrote what over it.  Only that
\* which a share makes for the sharer may lack the one above it: FileMappings
\* may have been read before the user was added, and UserInfo after that.
Rooted(version) ==
    /\ \A d \in version.dirs :
          Parent(d) \in version.dirs \cup {Root} \cup {SharedDir(u) : u \in User}
    /\ \A f \in version.files : Parent(f) \in version.dirs

VersionsRooted ==
    /\ IsWhole(FileMappings) => Rooted(saved(FileMappings))
    /\ \A p \in Proc : Rooted(mem[p][FileMappings])

Leaving(p) == \E i \in DOMAIN todo[p] : todo[p][i].do = "quit"

\* What was shared in a session is saved when the session has ended by exit:
\* share itself leaves it to the destructors.
LinksSavedAtExit ==
    \A p \in Proc, u, v \in User, x \in Name :
        LET link == <<Append(PersonalDir(u), x), <<v, Shared, u, x>>>>
        IN  (Leaving(p) /\ link \in knownLinks(p))
                ~> (/\ ~Running(p) /\ IsWhole(SharedInfo)
                    /\ link \in saved(SharedInfo))

-----------------------------------------------------------------------------
(* What the documentation and the tests say, and the code does not keep *)

\* README: "designed to be used simultaneously by different users".  Sessions
\* that ran side by side leave stores behind that the next one can read,
StoresParse ==
    AllQuiet => \A s \in Store \ {AdminKeys} : s \in DOMAIN host => IsWhole(s)

\* in which all they have made is still to be found: the files on the host are
\* registered, and a keyfile there logs a user in.
NothingLost ==
    AllQuiet /\ IsWhole(FileMappings) /\ IsWhole(UserInfo) =>
        /\ \A f \in DOMAIN host : InTree(f) => f \in saved(FileMappings).files
        /\ \A u \in User : KeyFile(u) \in DOMAIN host =>
              /\ u \in DOMAIN saved(UserInfo)
              /\ saved(UserInfo)[u] = host[KeyFile(u)].text

\* README: "Encrypted secure file system".  Where nothing is running, nothing
\* can be read without a key.
EncryptedAtRest ==
    AllQuiet => \A f \in DOMAIN host : InTree(f) \/ f = AdminKeys => ~Exposed(f)

\* CipherFSTest: a session whose input ends comes to its own end.
EndsWithInput == \A p \in Proc : At(p, "getline") ~> ~Running(p)
=============================================================================
