--------------------------- MODULE SessionsProofs ---------------------------
(***************************************************************************)
(* Proofs about Sessions, for any number of processes that run at once and *)
(* are killed, and for all users, names and contents.                      *)
(***************************************************************************)
EXTENDS Sessions, UtilsProofs

(* What files, stores and steps look like, given the key pairs ks. *)

KeyPairFile == {KeyFile(u) : u \in User} \cup {PublicFile(u) : u \in User}
Sensitive   == TreeFile \cup {AdminKeys}
Owner(f)    == IF f = AdminKeys THEN Admin ELSE fetchOwner(f)

\* The directories handlers make.
UserDir == {d \in Path : Len(d) \in 1 .. 3 /\ d[1] \in User}

\* What may pass for a key of a user: none, the public half of a key pair of
\* theirs, or what is found in a file another process has begun to write.
KeyFor(u, ks) == {NoKey, Empty, Garbled} \cup {k \in 1 .. Len(ks) : ks[k] = u}

KeyTableOK(t, ks) ==
    /\ DOMAIN t \in SUBSET User
    /\ t \in [DOMAIN t -> 0 .. Len(ks) \cup {Empty, Garbled}]
    /\ \A u \in DOMAIN t : t[u] \in KeyFor(u, ks)

MappingsOK(t) ==
    t \in [dirs : SUBSET UserDir, files : SUBSET TreeFile] /\ Rooted(t)

StoreOK(s, t, ks) ==
    /\ s = FileMappings => MappingsOK(t)
    /\ s = SharedInfo => t \subseteq TreeFile \X TreeFile
    /\ s \in {UserInfo, AdminKeys} => KeyTableOK(t, ks)

TextOK(f, t, ks) ==
    \/ t \in {Empty, Garbled}
    \/ f \in TreeFile
    \/ f \in Store /\ StoreOK(f, t, ks)
    \/ f \in KeyPairFile /\ t \in KeyFor(f[2], ks)

Catcher == {"persist", "command", "nobody"}

PutStep == [do : {"put"}, file : Store \cup TreeFile]

PutKeyStep(ks) ==
    {s \in [do : {"put key"}, file : KeyPairFile, key : 1 .. Len(ks)] :
        s.file[2] = ks[s.key]}

WriteStep(ks) == PutStep \cup PutKeyStep(ks)

SealStep ==
    {s \in [do : {"seal"}, file : Sensitive, for : User] : s.for = Owner(s.file)}

OpenStep(steps) ==
    {s \in [do : {"open"}, file : HostFile, write : steps] : s.file = s.write.file}

\* The files of a key pair: the second opened, and both.
PublicOpen(ks) ==
    {s \in [do : {"open"}, file : KeyPairFile, write : PutKeyStep(ks)] :
        LET u == s.write.file[2]
        IN  s.write.file = KeyFile(u) /\ s.file = PublicFile(u)}

KeyOpen(ks) ==
    {s \in [do : {"open"}, file : KeyPairFile, write : PublicOpen(ks)] :
        s.file = s.write.write.file}

\* The steps of a process that is starting,
StartStep(u) ==
    {s \in [do : {"load"}, file : Store \ {AdminKeys}] : u = NoUser}
    \cup [do : {"begin"}, file : KeyPairFile]
    \cup {s \in [do : {"unlock"}, file : {AdminKeys}] : u # NoUser}
    \cup [do : {"put"}, file : Store]
    \cup OpenStep([do : {"put"}, file : Store])

\* those its handlers have ahead of them,
QueuedStep(ks) ==
    [do : {"learn"}, file : KeyPairFile]
    \cup [do : {"register dir", "establish"}, file : UserDir]
    \cup [do : {"register file", "remove", "abort"}, file : TreeFile]
    \cup [do : {"copies"}, file : TreeFile, left : SUBSET TreeFile]
    \cup [do : {"fetch"}, file : TreeFile, catcher : Catcher]
    \cup [do : {"link"}, file : TreeFile, copy : TreeFile]
    \cup [do : {"quit", "getline"}, file : {Root}]
    \cup {s \in [do : {"read"}, file : Sensitive, for : User, catcher : Catcher] :
              s.for = Owner(s.file)}
    \cup OpenStep(PutStep) \cup KeyOpen(ks)

\* and those that may be at the head of a handler once it is under way.
AnyStep(ks) ==
    QueuedStep(ks) \cup WriteStep(ks) \cup PublicOpen(ks)
        \cup SealStep \cup OpenStep(SealStep)

Puts(s)    == s.do = "put" \/ (s.do = "open" /\ s.write.do = "put")
Seals(s)   == s.do = "seal" \/ (s.do = "open" /\ s.write.do = "seal")
Reseals(s) == s.do = "read" \/ Seals(s)

-----------------------------------------------------------------------------
(* The steps of a handler, given the directories that are registered and    *)
(* the files that have been written before the first of them.               *)

RegisteredBy(s) == IF s.do = "register dir" THEN {s.file} ELSE {}
WrittenBy(s)    ==
    IF s.do = "open"
    THEN IF s.write.do = "open" THEN {s.file, s.write.file} ELSE {s.file}
    ELSE {}

\* The directories that need none above them.
Base == {Root} \cup {SharedDir(u) : u \in User}

RegisteredBefore(t, i) == UNION {RegisteredBy(t[j]) : j \in 1 .. i - 1}
WrittenBefore(t, i)    == UNION {WrittenBy(t[j]) : j \in 1 .. i - 1}

RegisteredIn(t) == UNION {RegisteredBy(t[j]) : j \in DOMAIN t}
WrittenIn(t)    == UNION {WrittenBy(t[j]) : j \in DOMAIN t}

\* A directory is registered before what is in it.
Placed(t, dirs) ==
    \A i \in DOMAIN t :
        LET above == Parent(t[i].file)
            there == dirs \cup RegisteredBefore(t, i)
        IN  /\ t[i].do = "register dir"  => above \in there \cup Base
            /\ t[i].do = "register file" => above \in there

\* A key is learnt from a file that was written.
Learnable(t, written) ==
    \A i \in DOMAIN t :
        t[i].do = "learn" => t[i].file \in written \cup WrittenBefore(t, i)

\* What is written in the clear is read next, to be encrypted.
ReadNext(f, t) == t # <<>> /\ t[1].do = "read" /\ t[1].file = f

Followed(t) ==
    \A i \in DOMAIN t :
        Puts(t[i]) /\ t[i].file \in Sensitive =>
            /\ i + 1 \in DOMAIN t
            /\ t[i + 1].do = "read" /\ t[i + 1].file = t[i].file

\* What is fetched will be encrypted.
Resealing(t) == \E i \in DOMAIN t : Reseals(t[i])

Fetchable(t) ==
    \A i \in DOMAIN t :
        t[i].do = "fetch" => \E j \in i + 1 .. Len(t) : Reseals(t[j])

Handler(t, dirs, written, ks) ==
    /\ t \in Seq(QueuedStep(ks))
    /\ Placed(t, dirs)
    /\ Learnable(t, written)
    /\ Followed(t)
    /\ Fetchable(t)

\* What a step needs, with t after it.
Ready(s, t, dirs, written) ==
    /\ s.do = "register dir"  => Parent(s.file) \in dirs \cup Base
    /\ s.do = "register file" => Parent(s.file) \in dirs
    /\ s.do = "learn"         => s.file \in written
    /\ Puts(s) /\ s.file \in Sensitive => ReadNext(s.file, t)
    /\ s.do = "fetch" => Resealing(t)

-----------------------------------------------------------------------------
(* The inductive invariant.  What it says of a process is said of its       *)
(* variables' values: u and k for user and key, c for cwd, m, h and t for   *)
(* mem, hold and todo.                                                      *)

MemOK(m, ks) == DOMAIN m = Store /\ \A s \in Store : StoreOK(s, m[s], ks)

UserOK(u, k, c, m, ks) ==
    /\ u \in User \cup {NoUser}
    /\ k \in 0 .. Len(ks)
    /\ u = NoUser => k = NoKey
    /\ c \in Path
    /\ u # NoUser => \/ c = Home(u)
                     \/ c = PersonalDir(u) /\ c \in m[FileMappings].dirs

\* Nothing is in hand yet, and no private keys but one's own.
StartOK(t, u, m, h) ==
    /\ t \in Seq(StartStep(u))
    /\ u # NoUser => Len(t) <= 1
    /\ h = Empty /\ m[AdminKeys] = <<>>

\* When the text to encrypt has been read, there is a key to encrypt it with.
SealOK(s, m, h, ks) ==
    Seals(s) =>
        /\ \/ h = Empty
           \/ /\ Owner(s.file) \in DOMAIN m[UserInfo]
              /\ m[UserInfo][Owner(s.file)] \in 1 .. Len(ks)
        /\ s.file = AdminKeys => h \in {Empty, Garbled} \/ KeyTableOK(h, ks)

\* A text in hand is one that will be encrypted.
HandleOK(t, m, h, ks, written) ==
    /\ t \in Seq(AnyStep(ks))
    /\ h # Empty => t # <<>> /\ (Reseals(Head(t)) \/ Resealing(Tail(t)))
    /\ t # <<>> =>
          LET s    == Head(t)
              dirs == m[FileMappings].dirs
          IN  /\ Ready(s, Tail(t), dirs, written)
              /\ SealOK(s, m, h, ks)
              /\ Handler(Tail(t), dirs \cup RegisteredBy(s),
                         written \cup WrittenBy(s), ks)

\* A process nobody is logged in to runs to its end: nothing that is thrown
\* takes it to a prompt.
Tame(s) == s.do \notin {"fetch", "copies"} /\ (s.do = "read" => s.catcher = "persist")

Unattended(t, ks) ==
    /\ t \in Seq({s \in AnyStep(ks) : Tame(s)})
    /\ \E i \in DOMAIN t : t[i].do = "quit"

Local(u, k, c, m, h, t, ks, written) ==
    /\ MemOK(m, ks)
    /\ UserOK(u, k, c, m, ks)
    /\ \/ StartOK(t, u, m, h)
       \/ /\ HandleOK(t, m, h, ks, written)
          /\ u = NoUser => Unattended(t, ks)

LocalOK(p) ==
    Local(user[p], key[p], cwd[p], mem[p], hold[p], todo[p], keys, DOMAIN host)

FileOK(f, content, ks, dirs) ==
    /\ f \in HostFile /\ f \notin dirs
    /\ InTree(f) => Parent(f) \in dirs
    /\ content.key \in 0 .. Len(ks)
    /\ content.key # Plain => f \in Sensitive /\ ks[content.key] = Owner(f)
    /\ TextOK(f, content.text, ks)

HostOK == \A f \in DOMAIN host : FileOK(f, host[f], keys, tree)

Shape ==
    /\ keys \in Seq(User) /\ crashes \in 0 .. MaxCrashes
    /\ tree \subseteq UserDir \cup {Root}
    /\ DOMAIN user = Proc /\ DOMAIN key = Proc /\ DOMAIN cwd = Proc
    /\ DOMAIN mem = Proc /\ DOMAIN hold = Proc /\ DOMAIN todo = Proc

IInv == Shape /\ HostOK /\ \A p \in Proc : LocalOK(p)

\* More key pairs have been generated.
Extends(ks, ks2) ==
    /\ ks \in Seq(User) /\ ks2 \in Seq(User) /\ Len(ks) <= Len(ks2)
    /\ \A i \in 1 .. Len(ks) : ks2[i] = ks[i]

-----------------------------------------------------------------------------
(* Files and steps *)

LEMMA MoreThanTwo == \A k \in Nat : k > 2 => k # 1 /\ k # 2
    OBVIOUS

LEMMA FileKinds ==
    /\ \A f \in Store : Len(f) = 1 /\ f \notin KeyPairFile \cup TreeFile
    /\ \A f \in KeyPairFile : /\ Len(f) = 2 /\ f[2] \in User
                              /\ f \notin Store \cup Sensitive
    /\ \A f \in TreeFile : /\ InTree(f) /\ f \in Path /\ f[1] \in User
                           /\ f \notin Store \cup KeyPairFile
                           /\ Owner(f) = f[1] /\ fetchOwner(f) = f[1]
    /\ \A f \in Store \cup KeyPairFile : ~InTree(f) /\ f \notin UserDir \cup {Root}
    /\ HostFile = Store \cup KeyPairFile \cup TreeFile
    /\ FileMappings # UserInfo /\ FileMappings # SharedInfo
    /\ FileMappings # AdminKeys /\ UserInfo # SharedInfo
    /\ UserInfo # AdminKeys /\ SharedInfo # AdminKeys
<1> USE DEF Store, FileMappings, UserInfo, SharedInfo, AdminKeys
<1>1. \A f \in Store : Len(f) = 1
    OBVIOUS
<1>2. \A f \in KeyPairFile : Len(f) = 2 /\ f[2] \in User
    BY DEF KeyPairFile, KeyFile, PublicFile
<1>3. \A f \in TreeFile : Len(f) > 2 /\ f \in Path /\ f[1] \in User
    BY DEF TreeFile, InTree
<1>4. \A f \in TreeFile : Len(f) \in Nat
    BY <1>3, LenProperties DEF Path
<1>5. \A f \in TreeFile : f \notin Store \cup KeyPairFile
  <2> SUFFICES ASSUME NEW f \in TreeFile
               PROVE  f \notin Store /\ f \notin KeyPairFile
    OBVIOUS
  <2>1. Len(f) \in Nat /\ Len(f) > 2
    BY <1>3, <1>4
  <2>2. Len(f) # 1 /\ Len(f) # 2
    BY <2>1, MoreThanTwo
  <2> QED
    BY <2>2, <1>1, <1>2
<1>6. \A f \in KeyPairFile : f \notin Store
    BY <1>1, <1>2
<1>7. \A f \in TreeFile : Owner(f) = f[1] /\ fetchOwner(f) = f[1]
  <2>1. \A f \in TreeFile : f # Root
    BY <1>3 DEF Root
  <2> QED
    BY <1>5, <2>1 DEF Owner, fetchOwner
<1>8. \A f \in Store \cup KeyPairFile : f # Root /\ f[1] \notin User
  <2>1. \A f \in Store : f # Root /\ f[1] \notin User
    BY FileNameAssumption DEF Root
  <2>2. \A f \in KeyPairFile : f # Root /\ f[1] \notin User
    BY FileNameAssumption DEF Root, KeyPairFile, KeyFile, PublicFile
  <2> QED
    BY <2>1, <2>2
<1>9. \A f \in Store \cup KeyPairFile : ~InTree(f) /\ f \notin UserDir \cup {Root}
    BY <1>1, <1>2, <1>8 DEF InTree, UserDir
<1>10. HostFile = Store \cup KeyPairFile \cup TreeFile
    BY DEF HostFile, KeyPairFile
<1>11. /\ FileMappings # UserInfo /\ FileMappings # SharedInfo
       /\ FileMappings # AdminKeys /\ UserInfo # SharedInfo
       /\ UserInfo # AdminKeys /\ SharedInfo # AdminKeys
    OBVIOUS
<1> QED
    BY <1>1, <1>2, <1>3, <1>5, <1>6, <1>7, <1>9, <1>10, <1>11 DEF InTree, Sensitive

\* What a step of each kind is about.
LEMMA StepFacts ==
    ASSUME NEW ks, NEW s \in AnyStep(ks)
    PROVE  /\ s.do \notin {"load", "begin", "unlock"}
           /\ s.do = "learn" => s.file \in KeyPairFile
           /\ s.do \in {"register dir", "establish"} => s.file \in UserDir
           /\ s.do \in {"register file", "remove", "abort"} => s.file \in TreeFile
           /\ s.do = "copies" => s.file \in TreeFile /\ s.left \subseteq TreeFile
           /\ s.do = "fetch" => s.file \in TreeFile /\ s.catcher \in Catcher
           /\ s.do = "link" => s.file \in TreeFile /\ s.copy \in TreeFile
           /\ s.do = "read" => /\ s.file \in Sensitive /\ s.for \in User
                               /\ s.for = Owner(s.file) /\ s.catcher \in Catcher
           /\ s.do = "open" => s.file \in HostFile
           /\ s.do = "put" => s.file \in Store \cup TreeFile
           /\ s.do = "put key" => /\ s.file \in KeyPairFile /\ s.key \in 1 .. Len(ks)
                                  /\ s.file[2] = ks[s.key]
           /\ s.do = "seal" => /\ s.file \in Sensitive /\ s.for \in User
                               /\ s.for = Owner(s.file)
<1> USE DEF AnyStep, QueuedStep, WriteStep, PutStep, SealStep, OpenStep,
            PutKeyStep, PublicOpen, KeyOpen
<1>1. /\ s.do \notin {"load", "begin", "unlock"}
      /\ s.do = "learn" => s.file \in KeyPairFile
    OBVIOUS
<1>2. /\ s.do \in {"register dir", "establish"} => s.file \in UserDir
      /\ s.do \in {"register file", "remove", "abort"} => s.file \in TreeFile
    OBVIOUS
<1>3. /\ s.do = "copies" => s.file \in TreeFile /\ s.left \subseteq TreeFile
      /\ s.do = "fetch" => s.file \in TreeFile /\ s.catcher \in Catcher
      /\ s.do = "link" => s.file \in TreeFile /\ s.copy \in TreeFile
    OBVIOUS
<1>4. s.do = "read" => /\ s.file \in Sensitive /\ s.for \in User
                       /\ s.for = Owner(s.file) /\ s.catcher \in Catcher
    OBVIOUS
<1>5. s.do = "open" => s.file \in HostFile
    BY FileKinds
<1>6. s.do = "put" => s.file \in Store \cup TreeFile
    OBVIOUS
<1>7. s.do = "put key" => /\ s.file \in KeyPairFile /\ s.key \in 1 .. Len(ks)
                          /\ s.file[2] = ks[s.key]
    OBVIOUS
<1>8. s.do = "seal" => /\ s.file \in Sensitive /\ s.for \in User
                       /\ s.for = Owner(s.file)
    OBVIOUS
<1> QED
    BY <1>1, <1>2, <1>3, <1>4, <1>5, <1>6, <1>7, <1>8

\* What is done with a file that is opened.
LEMMA OpenFacts ==
    ASSUME NEW ks, NEW s \in AnyStep(ks), s.do = "open"
    PROVE  /\ s.file \in HostFile /\ s.write \in AnyStep(ks)
           /\ s.write.do \in {"open", "put", "put key", "seal"}
           /\ s.write.do \in {"put", "seal"} => s.file = s.write.file
           /\ s.write.do \in {"open", "put key"} =>
                   s.file \in KeyPairFile /\ s.write.file \in KeyPairFile
           /\ s.write.do = "open" => s.write.write.do = "put key"
<1> USE DEF AnyStep, QueuedStep, WriteStep, PutStep, SealStep, OpenStep,
            PutKeyStep, PublicOpen, KeyOpen
<1>1. \/ s \in OpenStep(PutStep) \/ s \in OpenStep(SealStep)
      \/ s \in PublicOpen(ks) \/ s \in KeyOpen(ks)
    OBVIOUS
<1>2. HostFile = Store \cup KeyPairFile \cup TreeFile
    BY FileKinds
<1>3. CASE s \in OpenStep(PutStep)
    BY <1>3
<1>4. CASE s \in OpenStep(SealStep)
    BY <1>4
<1>5. CASE s \in PublicOpen(ks)
    BY <1>2, <1>5
<1>6. CASE s \in KeyOpen(ks)
    BY <1>2, <1>6
<1> QED
    BY <1>1, <1>3, <1>4, <1>5, <1>6

LEMMA StartFacts ==
    ASSUME NEW u, NEW s \in StartStep(u)
    PROVE  /\ s.do \in {"load", "begin", "unlock", "put", "open"}
           /\ s.do = "load" => s.file \in Store \ {AdminKeys} /\ u = NoUser
           /\ s.do = "begin" => s.file \in KeyPairFile
           /\ s.do = "unlock" => s.file = AdminKeys /\ u # NoUser
           /\ s.do = "put" => s.file \in Store
           /\ s.do = "open" => /\ s.file \in Store /\ s.file = s.write.file
                               /\ s.write.do = "put"
                               /\ s.write \in StartStep(u)
    BY DEF StartStep, OpenStep

-----------------------------------------------------------------------------
(* Sequences of steps *)

\* A step put before a sequence of them.
LEMMA ConsFacts ==
    ASSUME NEW S, NEW x \in S, NEW t \in Seq(S)
    PROVE  /\ <<x>> \o t \in Seq(S) /\ <<x>> \o t # <<>>
           /\ Len(t) \in Nat /\ Len(<<x>> \o t) = Len(t) + 1
           /\ DOMAIN (<<x>> \o t) = 1 .. Len(t) + 1
           /\ (<<x>> \o t)[1] = x
           /\ \A i \in 1 .. Len(t) : (<<x>> \o t)[i + 1] = t[i]
           /\ Head(<<x>> \o t) = x
           /\ Tail(<<x>> \o t) = t
<1> DEFINE s == <<x>> \o t
<1>1. <<x>> \in Seq(S) /\ Len(<<x>>) = 1 /\ <<x>>[1] = x
    OBVIOUS
<1>2. Len(t) \in Nat
    BY LenProperties
<1>3. /\ s \in Seq(S) /\ Len(s) = 1 + Len(t)
      /\ \A i \in 1 .. 1 + Len(t) : s[i] = IF i <= 1 THEN <<x>>[i] ELSE t[i - 1]
    BY <1>1, ConcatProperties
<1> HIDE DEF s
<1>4. /\ Len(s) = Len(t) + 1 /\ DOMAIN s = 1 .. Len(t) + 1 /\ s # <<>>
    BY <1>2, <1>3, LenProperties, EmptySeq
<1>5. s[1] = x /\ \A i \in 1 .. Len(t) : s[i + 1] = t[i]
    BY <1>1, <1>2, <1>3
<1>6. Head(s) = x
    BY <1>5
<1>7. Tail(s) \in Seq(S) /\ Len(Tail(s)) = Len(t)
      /\ \A i \in 1 .. Len(t) : Tail(s)[i] = t[i]
    BY <1>2, <1>3, <1>4, <1>5, HeadTailProperties
<1>8. Tail(s) = t
    BY <1>7, SeqEqual
<1> QED
    BY <1>2, <1>3, <1>4, <1>5, <1>6, <1>8 DEF s

\* A sequence taken apart.
LEMMA UnconsFacts ==
    ASSUME NEW S, NEW t \in Seq(S), t # <<>>
    PROVE  /\ Head(t) \in S /\ Tail(t) \in Seq(S) /\ Head(t) = t[1]
           /\ Len(t) \in Nat \ {0} /\ Len(Tail(t)) = Len(t) - 1
           /\ DOMAIN t = 1 .. Len(t) /\ DOMAIN Tail(t) = 1 .. Len(t) - 1
           /\ \A i \in 1 .. Len(t) - 1 : Tail(t)[i] = t[i + 1]
<1>1. /\ Head(t) \in S /\ Tail(t) \in Seq(S) /\ Len(Tail(t)) = Len(t) - 1
      /\ \A i \in 1 .. Len(Tail(t)) : Tail(t)[i] = t[i + 1]
    BY HeadTailProperties
<1>2. Head(t) = t[1]
    OBVIOUS
<1>3. Len(t) \in Nat \ {0} /\ DOMAIN t = 1 .. Len(t)
    BY LenProperties, EmptySeq
<1>4. DOMAIN Tail(t) = 1 .. Len(Tail(t))
    BY <1>1, LenProperties
<1> QED
    BY <1>1, <1>2, <1>3, <1>4

\* What was done before a step, but for the first, and what by a step.
LEMMA BeforeFacts ==
    ASSUME NEW S, NEW t \in Seq(S), t # <<>>, NEW k \in 1 .. Len(t) - 1
    PROVE  /\ RegisteredBefore(t, k + 1) =
                  RegisteredBy(Head(t)) \cup RegisteredBefore(Tail(t), k)
           /\ WrittenBefore(t, k + 1) =
                  WrittenBy(Head(t)) \cup WrittenBefore(Tail(t), k)
<1>1. /\ Head(t) = t[1] /\ Len(t) \in Nat \ {0}
      /\ \A i \in 1 .. Len(t) - 1 : Tail(t)[i] = t[i + 1]
    BY UnconsFacts
<1>2. \A j \in 1 .. k + 1 - 1 : j = 1 \/ (j - 1 \in 1 .. k - 1 /\ t[j] = Tail(t)[j - 1])
    BY <1>1
<1>3. 1 \in 1 .. k + 1 - 1
    BY <1>1
<1>4. \A j \in 1 .. k - 1 : j + 1 \in 1 .. k + 1 - 1 /\ t[j + 1] = Tail(t)[j]
    BY <1>1
<1>5. RegisteredBefore(t, k + 1) =
          RegisteredBy(Head(t)) \cup RegisteredBefore(Tail(t), k)
  <2>1. \A d : (\E j \in 1 .. k + 1 - 1 : d \in RegisteredBy(t[j])) <=>
                   \/ d \in RegisteredBy(t[1])
                   \/ \E j \in 1 .. k - 1 : d \in RegisteredBy(Tail(t)[j])
    BY <1>2, <1>3, <1>4
  <2>2. /\ \A d : d \in RegisteredBefore(t, k + 1) <=>
                    \E j \in 1 .. k + 1 - 1 : d \in RegisteredBy(t[j])
        /\ \A d : d \in RegisteredBefore(Tail(t), k) <=>
                    \E j \in 1 .. k - 1 : d \in RegisteredBy(Tail(t)[j])
    BY DEF RegisteredBefore
  <2>3. \A d : d \in RegisteredBefore(t, k + 1) <=>
                   d \in RegisteredBy(Head(t)) \cup RegisteredBefore(Tail(t), k)
    BY <1>1, <2>1, <2>2
  <2> QED
    BY <2>3
<1>6. WrittenBefore(t, k + 1) =
          WrittenBy(Head(t)) \cup WrittenBefore(Tail(t), k)
  <2>1. \A d : (\E j \in 1 .. k + 1 - 1 : d \in WrittenBy(t[j])) <=>
                   \/ d \in WrittenBy(t[1])
                   \/ \E j \in 1 .. k - 1 : d \in WrittenBy(Tail(t)[j])
    BY <1>2, <1>3, <1>4
  <2>2. /\ \A d : d \in WrittenBefore(t, k + 1) <=>
                    \E j \in 1 .. k + 1 - 1 : d \in WrittenBy(t[j])
        /\ \A d : d \in WrittenBefore(Tail(t), k) <=>
                    \E j \in 1 .. k - 1 : d \in WrittenBy(Tail(t)[j])
    BY DEF WrittenBefore
  <2>3. \A d : d \in WrittenBefore(t, k + 1) <=>
                   d \in WrittenBy(Head(t)) \cup WrittenBefore(Tail(t), k)
    BY <1>1, <2>1, <2>2
  <2> QED
    BY <2>3
<1> QED
    BY <1>5, <1>6

\* A handler is a step that is ready and a handler after it.
LEMMA HandlerStepwise ==
    ASSUME NEW ks, NEW t \in Seq(QueuedStep(ks)), t # <<>>, NEW D, NEW W
    PROVE  Handler(t, D, W, ks) <=>
               /\ Ready(Head(t), Tail(t), D, W)
               /\ Handler(Tail(t), D \cup RegisteredBy(Head(t)),
                          W \cup WrittenBy(Head(t)), ks)
<1> DEFINE r == Tail(t)
           n == Len(t) - 1
<1>1. /\ Head(t) = t[1] /\ Len(t) \in Nat \ {0} /\ r \in Seq(QueuedStep(ks))
      /\ DOMAIN t = 1 .. n + 1 /\ DOMAIN r = 1 .. n /\ n \in Nat
      /\ Len(t) = n + 1 /\ Len(r) = n
      /\ \A i \in 1 .. n : r[i] = t[i + 1]
    BY UnconsFacts
<1>2. RegisteredBefore(t, 1) = {} /\ WrittenBefore(t, 1) = {}
    BY DEF RegisteredBefore, WrittenBefore
<1>3. \A k \in 1 .. n :
          /\ RegisteredBefore(t, k + 1) = RegisteredBy(Head(t)) \cup RegisteredBefore(r, k)
          /\ WrittenBefore(t, k + 1) = WrittenBy(Head(t)) \cup WrittenBefore(r, k)
    BY BeforeFacts
<1> HIDE DEF r, n
<1>4. \A i \in 1 .. n + 1 : i = 1 \/ (i - 1 \in 1 .. n /\ i = i - 1 + 1)
    BY <1>1
<1>5. 1 \in 1 .. n + 1 /\ \A k \in 1 .. n : k + 1 \in 1 .. n + 1
    BY <1>1
<1>6. Placed(t, D) <=>
          /\ Head(t).do = "register dir"  => Parent(Head(t).file) \in D \cup Base
          /\ Head(t).do = "register file" => Parent(Head(t).file) \in D
          /\ Placed(r, D \cup RegisteredBy(Head(t)))
  <2>1. ASSUME Placed(t, D)
        PROVE  /\ t[1].do = "register dir"  => Parent(t[1].file) \in D \cup Base
               /\ t[1].do = "register file" => Parent(t[1].file) \in D
    BY <1>1, <1>2, <1>5, <2>1 DEF Placed
  <2>2. ASSUME Placed(t, D)
        PROVE  Placed(r, D \cup RegisteredBy(Head(t)))
    <3> SUFFICES ASSUME NEW k \in 1 .. n
                 PROVE  LET there == D \cup RegisteredBy(Head(t)) \cup RegisteredBefore(r, k)
                        IN  /\ r[k].do = "register dir"  =>
                                  Parent(r[k].file) \in there \cup Base
                            /\ r[k].do = "register file" => Parent(r[k].file) \in there
      BY <1>1 DEF Placed
    <3>1. /\ k + 1 \in 1 .. n + 1 /\ r[k] = t[k + 1]
          /\ RegisteredBefore(t, k + 1) = RegisteredBy(Head(t)) \cup RegisteredBefore(r, k)
      BY <1>1, <1>3, <1>5
    <3> QED
      BY <1>1, <2>2, <3>1 DEF Placed
  <2>3. ASSUME /\ t[1].do = "register dir"  => Parent(t[1].file) \in D \cup Base
               /\ t[1].do = "register file" => Parent(t[1].file) \in D,
               Placed(r, D \cup RegisteredBy(Head(t)))
        PROVE  Placed(t, D)
    <3> SUFFICES ASSUME NEW i \in 1 .. n + 1
                 PROVE  /\ t[i].do = "register dir"  =>
                              Parent(t[i].file) \in D \cup RegisteredBefore(t, i) \cup Base
                        /\ t[i].do = "register file" =>
                              Parent(t[i].file) \in D \cup RegisteredBefore(t, i)
      BY <1>1 DEF Placed
    <3>1. CASE i = 1
      BY <1>2, <2>3, <3>1
    <3>2. ASSUME NEW k \in 1 .. n, i = k + 1
          PROVE  /\ r[k] = t[i]
                 /\ RegisteredBefore(t, i) = RegisteredBy(Head(t)) \cup RegisteredBefore(r, k)
      BY <1>1, <1>3, <3>2
    <3>3. CASE \E k \in 1 .. n : i = k + 1
      BY <1>1, <2>3, <3>2, <3>3 DEF Placed
    <3> QED
      BY <1>4, <3>1, <3>3
  <2> QED
    BY <1>1, <2>1, <2>2, <2>3
<1>7. Learnable(t, W) <=> /\ Head(t).do = "learn" => Head(t).file \in W
                          /\ Learnable(r, W \cup WrittenBy(Head(t)))
  <2>1. ASSUME Learnable(t, W)
        PROVE  /\ t[1].do = "learn" => t[1].file \in W
               /\ Learnable(r, W \cup WrittenBy(Head(t)))
    BY <1>1, <1>2, <1>3, <1>5, <2>1 DEF Learnable
  <2>2. ASSUME t[1].do = "learn" => t[1].file \in W,
               Learnable(r, W \cup WrittenBy(Head(t)))
        PROVE  Learnable(t, W)
    <3> SUFFICES ASSUME NEW i \in 1 .. n + 1, t[i].do = "learn"
                 PROVE  t[i].file \in W \cup WrittenBefore(t, i)
      BY <1>1 DEF Learnable
    <3>1. CASE i = 1
      BY <1>2, <2>2, <3>1
    <3>2. CASE \E k \in 1 .. n : i = k + 1
      <4> PICK k \in 1 .. n : i = k + 1
        BY <3>2
      <4>1. /\ r[k] = t[i]
            /\ WrittenBefore(t, i) = WrittenBy(Head(t)) \cup WrittenBefore(r, k)
        BY <1>1, <1>3
      <4> QED
        BY <1>1, <2>2, <4>1 DEF Learnable
    <3> QED
      BY <1>4, <3>1, <3>2
  <2> QED
    BY <1>1, <2>1, <2>2
<1>8. Followed(t) <=>
          /\ Puts(Head(t)) /\ Head(t).file \in Sensitive => ReadNext(Head(t).file, r)
          /\ Followed(r)
  <2>1. r # <<>> <=> 2 \in DOMAIN t
    BY <1>1, EmptySeq
  <2>2. 2 \in DOMAIN t => r[1] = t[2]
    BY <1>1
  <2>3. \A k \in 1 .. n : k + 1 \in DOMAIN r <=> k + 1 + 1 \in DOMAIN t
    BY <1>1
  <2>4. ASSUME Followed(t)
        PROVE  /\ Puts(t[1]) /\ t[1].file \in Sensitive => ReadNext(t[1].file, r)
               /\ Followed(r)
    <3>1. Puts(t[1]) /\ t[1].file \in Sensitive => ReadNext(t[1].file, r)
      BY <1>1, <1>5, <2>1, <2>2, <2>4 DEF Followed, ReadNext
    <3>2. Followed(r)
      BY <1>1, <1>5, <2>3, <2>4 DEF Followed
    <3> QED
      BY <3>1, <3>2
  <2>5. ASSUME Puts(t[1]) /\ t[1].file \in Sensitive => ReadNext(t[1].file, r),
               Followed(r)
        PROVE  Followed(t)
    <3> SUFFICES ASSUME NEW i \in 1 .. n + 1, Puts(t[i]), t[i].file \in Sensitive
                 PROVE  /\ i + 1 \in DOMAIN t
                        /\ t[i + 1].do = "read" /\ t[i + 1].file = t[i].file
      BY <1>1 DEF Followed
    <3>1. CASE i = 1
      BY <1>1, <2>1, <2>2, <2>5, <3>1 DEF ReadNext
    <3>2. CASE \E k \in 1 .. n : i = k + 1
      <4> PICK k \in 1 .. n : i = k + 1
        BY <3>2
      <4>1. r[k] = t[i] /\ k \in DOMAIN r
        BY <1>1
      <4>2. k + 1 \in DOMAIN r /\ r[k + 1].do = "read" /\ r[k + 1].file = r[k].file
        BY <2>5, <4>1 DEF Followed
      <4>3. r[k + 1] = t[i + 1]
        BY <1>1, <4>2
      <4> QED
        BY <2>3, <4>1, <4>2, <4>3
    <3> QED
      BY <1>4, <3>1, <3>2
  <2> QED
    BY <1>1, <2>4, <2>5
<1>9. Fetchable(t) <=> (Head(t).do = "fetch" => Resealing(r)) /\ Fetchable(r)
  <2>1. \A k \in 1 .. n : (\E j \in k + 1 .. n : Reseals(r[j])) <=>
                              (\E j \in k + 1 + 1 .. n + 1 : Reseals(t[j]))
    <3> SUFFICES ASSUME NEW k \in 1 .. n
                 PROVE  (\E j \in k + 1 .. n : Reseals(r[j])) <=>
                            (\E j \in k + 1 + 1 .. n + 1 : Reseals(t[j]))
      OBVIOUS
    <3>1. \A j \in k + 1 .. n : j + 1 \in k + 1 + 1 .. n + 1 /\ r[j] = t[j + 1]
      BY <1>1
    <3>2. \A j \in k + 1 + 1 .. n + 1 : j - 1 \in k + 1 .. n /\ t[j] = r[j - 1]
      BY <1>1
    <3> QED
      BY <3>1, <3>2
  <2>2. Resealing(r) <=> \E j \in 1 + 1 .. n + 1 : Reseals(t[j])
    <3>1. \A j \in 1 .. n : j + 1 \in 1 + 1 .. n + 1 /\ r[j] = t[j + 1]
      BY <1>1
    <3>2. \A j \in 1 + 1 .. n + 1 : j - 1 \in 1 .. n /\ t[j] = r[j - 1]
      BY <1>1
    <3> QED
      BY <1>1, <3>1, <3>2 DEF Resealing
  <2>3. ASSUME Fetchable(t)
        PROVE  (t[1].do = "fetch" => Resealing(r)) /\ Fetchable(r)
    <3>1. t[1].do = "fetch" => Resealing(r)
      BY <1>1, <1>5, <2>2, <2>3 DEF Fetchable
    <3>2. ASSUME NEW k \in 1 .. n, r[k].do = "fetch"
          PROVE  \E j \in k + 1 .. n : Reseals(r[j])
      <4>1. k + 1 \in DOMAIN t /\ t[k + 1].do = "fetch"
        BY <1>1, <1>5, <3>2
      <4> QED
        BY <1>1, <2>1, <2>3, <4>1 DEF Fetchable
    <3> QED
      BY <1>1, <3>1, <3>2 DEF Fetchable
  <2>4. ASSUME t[1].do = "fetch" => Resealing(r), Fetchable(r)
        PROVE  Fetchable(t)
    <3> SUFFICES ASSUME NEW i \in 1 .. n + 1, t[i].do = "fetch"
                 PROVE  \E j \in i + 1 .. n + 1 : Reseals(t[j])
      BY <1>1 DEF Fetchable
    <3>1. CASE i = 1
      BY <2>2, <2>4, <3>1
    <3>2. CASE \E k \in 1 .. n : i = k + 1
      BY <1>1, <2>1, <2>4, <3>2 DEF Fetchable
    <3> QED
      BY <1>4, <3>1, <3>2
  <2> QED
    BY <1>1, <2>3, <2>4
<1> QED
    BY <1>1, <1>6, <1>7, <1>8, <1>9 DEF Handler, Ready, r

\* A handler of no steps, of one, and of one before others.
LEMMA HandlerOfNone == ASSUME NEW ks, NEW D, NEW W PROVE Handler(<<>>, D, W, ks)
    BY EmptySeq DEF Handler, Placed, Learnable, Followed, Fetchable

LEMMA HandlerCons ==
    ASSUME NEW ks, NEW x \in QueuedStep(ks), NEW t, NEW D, NEW W,
           Ready(x, t, D, W),
           Handler(t, D \cup RegisteredBy(x), W \cup WrittenBy(x), ks)
    PROVE  Handler(<<x>> \o t, D, W, ks)
<1>1. t \in Seq(QueuedStep(ks))
    BY DEF Handler
<1>2. /\ <<x>> \o t \in Seq(QueuedStep(ks)) /\ <<x>> \o t # <<>>
      /\ Head(<<x>> \o t) = x /\ Tail(<<x>> \o t) = t
    BY <1>1, ConsFacts
<1> QED
    BY <1>2, HandlerStepwise

LEMMA HandlerOfOne ==
    ASSUME NEW ks, NEW x \in QueuedStep(ks), NEW D, NEW W, Ready(x, <<>>, D, W)
    PROVE  /\ Handler(<<x>>, D, W, ks)
           /\ RegisteredIn(<<x>>) = RegisteredBy(x)
           /\ WrittenIn(<<x>>) = WrittenBy(x)
<1>1. Handler(<<x>> \o <<>>, D, W, ks)
    BY HandlerOfNone, HandlerCons
<1>2. <<x>> \o <<>> = <<x>>
    BY ConcatEmptySeq
<1>3. /\ RegisteredIn(<<x>>) = RegisteredBy(x)
      /\ WrittenIn(<<x>>) = WrittenBy(x)
    BY DEF RegisteredIn, WrittenIn
<1> QED
    BY <1>1, <1>2, <1>3

\* What is queued stays so when key pairs are generated, directories are
\* registered and keys written.
LEMMA StepsKept ==
    ASSUME NEW ks, NEW ks2, Extends(ks, ks2)
    PROVE  /\ WriteStep(ks) \subseteq WriteStep(ks2)
           /\ QueuedStep(ks) \subseteq QueuedStep(ks2)
           /\ AnyStep(ks) \subseteq AnyStep(ks2)
<1>1. 1 .. Len(ks) \subseteq 1 .. Len(ks2)
    BY LenProperties DEF Extends
<1>2. PutKeyStep(ks) \subseteq PutKeyStep(ks2)
    BY <1>1 DEF PutKeyStep, Extends
<1>3. PublicOpen(ks) \subseteq PublicOpen(ks2)
    BY <1>2 DEF PublicOpen
<1>4. KeyOpen(ks) \subseteq KeyOpen(ks2)
    BY <1>3 DEF KeyOpen
<1>5. QueuedStep(ks) \subseteq QueuedStep(ks2)
    BY <1>4 DEF QueuedStep
<1> QED
    BY <1>2, <1>3, <1>5 DEF AnyStep, WriteStep

LEMMA HandlerKept ==
    ASSUME NEW ks, NEW ks2, Extends(ks, ks2),
           NEW t, NEW D, NEW D2, NEW W, NEW W2,
           D \subseteq D2, W \cap KeyPairFile \subseteq W2,
           Handler(t, D, W, ks)
    PROVE  Handler(t, D2, W2, ks2)
<1>1. t \in Seq(QueuedStep(ks)) /\ t \in Seq(QueuedStep(ks2))
    BY StepsKept, SeqMonotonic DEF Handler
<1>2. Placed(t, D2)
    BY DEF Handler, Placed
<1>3. Learnable(t, W2)
  <2> SUFFICES ASSUME NEW i \in DOMAIN t, t[i].do = "learn"
               PROVE  t[i].file \in W2 \cup WrittenBefore(t, i)
    BY DEF Learnable
  <2>1. t[i] \in AnyStep(ks)
    BY <1>1, ElementOfSeq, LenProperties DEF AnyStep
  <2>2. t[i].file \in KeyPairFile
    BY <2>1, StepFacts
  <2> QED
    BY <2>2 DEF Handler, Learnable
<1> QED
    BY <1>1, <1>2, <1>3 DEF Handler

LEMMA HandlerMore ==
    ASSUME NEW ks \in Seq(User), NEW t, NEW D, NEW D2, NEW W, NEW W2,
           D \subseteq D2, W \subseteq W2, Handler(t, D, W, ks)
    PROVE  Handler(t, D2, W2, ks)
<1>1. Extends(ks, ks)
    BY LenProperties DEF Extends
<1> QED
    BY <1>1, HandlerKept

LEMMA BeforeMembers ==
    ASSUME NEW t, NEW i, NEW j \in 1 .. i - 1
    PROVE  /\ RegisteredBy(t[j]) \subseteq RegisteredBefore(t, i)
           /\ WrittenBy(t[j]) \subseteq WrittenBefore(t, i)
<1>1. RegisteredBy(t[j]) \in {RegisteredBy(t[l]) : l \in 1 .. i - 1}
    OBVIOUS
<1>2. WrittenBy(t[j]) \in {WrittenBy(t[l]) : l \in 1 .. i - 1}
    OBVIOUS
<1> QED
    BY <1>1, <1>2 DEF RegisteredBefore, WrittenBefore

\* One handler after another.
LEMMA HandlerConcat ==
    ASSUME NEW ks, NEW s, NEW t, NEW D, NEW W,
           Handler(s, D, W, ks),
           Handler(t, D \cup RegisteredIn(s), W \cup WrittenIn(s), ks)
    PROVE  /\ Handler(s \o t, D, W, ks)
           /\ RegisteredIn(s \o t) = RegisteredIn(s) \cup RegisteredIn(t)
           /\ WrittenIn(s \o t) = WrittenIn(s) \cup WrittenIn(t)
<1> DEFINE st == s \o t
           m == Len(s)
           n == Len(t)
<1>1. s \in Seq(QueuedStep(ks)) /\ t \in Seq(QueuedStep(ks))
    BY DEF Handler
<1>2. /\ m \in Nat /\ n \in Nat /\ DOMAIN s = 1 .. m /\ DOMAIN t = 1 .. n
      /\ st \in Seq(QueuedStep(ks)) /\ Len(st) = m + n /\ DOMAIN st = 1 .. m + n
      /\ \A i \in 1 .. m + n : st[i] = IF i <= m THEN s[i] ELSE t[i - m]
    BY <1>1, ConcatProperties, LenProperties
<1> HIDE DEF st, m, n
<1>3. /\ \A i \in 1 .. m : i \in 1 .. m + n /\ st[i] = s[i]
      /\ \A k \in 1 .. n : m + k \in 1 .. m + n /\ st[m + k] = t[k]
      /\ \A i \in 1 .. m + n : i \in 1 .. m \/ (i - m \in 1 .. n /\ i = m + (i - m))
    BY <1>2
<1>4. \A i \in 1 .. m : /\ RegisteredBefore(st, i) = RegisteredBefore(s, i)
                        /\ WrittenBefore(st, i) = WrittenBefore(s, i)
  <2> SUFFICES ASSUME NEW i \in 1 .. m
               PROVE  /\ RegisteredBefore(st, i) = RegisteredBefore(s, i)
                      /\ WrittenBefore(st, i) = WrittenBefore(s, i)
    OBVIOUS
  <2>1. \A j \in 1 .. i - 1 : st[j] = s[j]
    BY <1>2, <1>3
  <2> QED
    BY <2>1 DEF RegisteredBefore, WrittenBefore
<1>5. \A k \in 1 .. n :
          /\ RegisteredIn(s) \cup RegisteredBefore(t, k) \subseteq RegisteredBefore(st, m + k)
          /\ WrittenIn(s) \cup WrittenBefore(t, k) \subseteq WrittenBefore(st, m + k)
  <2> SUFFICES ASSUME NEW k \in 1 .. n, NEW i, i = m + k
               PROVE  /\ RegisteredIn(s) \cup RegisteredBefore(t, k)
                             \subseteq RegisteredBefore(st, i)
                      /\ WrittenIn(s) \cup WrittenBefore(t, k)
                             \subseteq WrittenBefore(st, i)
    OBVIOUS
  <2>1. \A j \in 1 .. m : j \in 1 .. i - 1 /\ st[j] = s[j]
    BY <1>2, <1>3
  <2>2. \A j \in 1 .. k - 1 : m + j \in 1 .. i - 1 /\ st[m + j] = t[j]
    BY <1>2, <1>3
  <2>3. RegisteredIn(s) \subseteq RegisteredBefore(st, i)
    BY <1>2, <2>1 DEF RegisteredIn, RegisteredBefore
  <2>4. RegisteredBefore(t, k) \subseteq RegisteredBefore(st, i)
    <3> SUFFICES ASSUME NEW d \in RegisteredBefore(t, k)
                 PROVE  d \in RegisteredBefore(st, i)
      OBVIOUS
    <3>1. PICK j \in 1 .. k - 1 : d \in RegisteredBy(t[j])
      BY DEF RegisteredBefore
    <3>2. m + j \in 1 .. i - 1 /\ d \in RegisteredBy(st[m + j])
      BY <2>2, <3>1
    <3> QED
      BY <3>2, BeforeMembers
  <2>5. WrittenIn(s) \subseteq WrittenBefore(st, i)
    BY <1>2, <2>1 DEF WrittenIn, WrittenBefore
  <2>6. WrittenBefore(t, k) \subseteq WrittenBefore(st, i)
    <3> SUFFICES ASSUME NEW d \in WrittenBefore(t, k)
                 PROVE  d \in WrittenBefore(st, i)
      OBVIOUS
    <3>1. PICK j \in 1 .. k - 1 : d \in WrittenBy(t[j])
      BY DEF WrittenBefore
    <3>2. m + j \in 1 .. i - 1 /\ d \in WrittenBy(st[m + j])
      BY <2>2, <3>1
    <3> QED
      BY <3>2, BeforeMembers
  <2> QED
    BY <2>3, <2>4, <2>5, <2>6
<1>6. Placed(st, D)
  <2> SUFFICES ASSUME NEW i \in 1 .. m + n
               PROVE  /\ st[i].do = "register dir"  =>
                            Parent(st[i].file) \in D \cup RegisteredBefore(st, i) \cup Base
                      /\ st[i].do = "register file" =>
                            Parent(st[i].file) \in D \cup RegisteredBefore(st, i)
    BY <1>2 DEF Placed
  <2>1. CASE i \in 1 .. m
    BY <1>2, <1>3, <1>4, <2>1 DEF Handler, Placed
  <2>2. CASE i - m \in 1 .. n /\ i = m + (i - m)
    <3> PICK k \in 1 .. n : i = m + k
      BY <2>2
    <3>1. /\ st[i] = t[k] /\ k \in DOMAIN t
          /\ RegisteredIn(s) \cup RegisteredBefore(t, k) \subseteq RegisteredBefore(st, i)
      BY <1>2, <1>3, <1>5
    <3>2. Placed(t, D \cup RegisteredIn(s))
      BY DEF Handler
    <3> QED
      BY <3>1, <3>2 DEF Placed
  <2> QED
    BY <1>3, <2>1, <2>2
<1>7. Learnable(st, W)
  <2> SUFFICES ASSUME NEW i \in 1 .. m + n, st[i].do = "learn"
               PROVE  st[i].file \in W \cup WrittenBefore(st, i)
    BY <1>2 DEF Learnable
  <2>1. CASE i \in 1 .. m
    BY <1>2, <1>3, <1>4, <2>1 DEF Handler, Learnable
  <2>2. CASE i - m \in 1 .. n /\ i = m + (i - m)
    <3> PICK k \in 1 .. n : i = m + k
      BY <2>2
    <3>1. /\ st[i] = t[k] /\ k \in DOMAIN t
          /\ WrittenIn(s) \cup WrittenBefore(t, k) \subseteq WrittenBefore(st, i)
      BY <1>2, <1>3, <1>5
    <3>2. Learnable(t, W \cup WrittenIn(s))
      BY DEF Handler
    <3> QED
      BY <3>1, <3>2 DEF Learnable
  <2> QED
    BY <1>3, <2>1, <2>2
<1>8. Followed(st)
  <2> SUFFICES ASSUME NEW i \in 1 .. m + n, Puts(st[i]), st[i].file \in Sensitive
               PROVE  /\ i + 1 \in 1 .. m + n
                      /\ st[i + 1].do = "read" /\ st[i + 1].file = st[i].file
    BY <1>2 DEF Followed
  <2>1. CASE i \in 1 .. m
    <3>1. i + 1 \in 1 .. m /\ s[i + 1].do = "read" /\ s[i + 1].file = s[i].file
      BY <1>2, <1>3, <2>1 DEF Handler, Followed
    <3> QED
      BY <1>3, <2>1, <3>1
  <2>2. CASE i - m \in 1 .. n /\ i = m + (i - m)
    <3> PICK k \in 1 .. n : i = m + k
      BY <2>2
    <3>1. st[i] = t[k] /\ k \in DOMAIN t
      BY <1>2, <1>3
    <3>2. k + 1 \in 1 .. n /\ t[k + 1].do = "read" /\ t[k + 1].file = t[k].file
      BY <1>2, <3>1 DEF Handler, Followed
    <3>3. i + 1 = m + (k + 1)
      BY <1>2
    <3> QED
      BY <1>3, <3>1, <3>2, <3>3
  <2> QED
    BY <1>3, <2>1, <2>2
<1>9. Fetchable(st)
  <2> SUFFICES ASSUME NEW i \in 1 .. m + n, st[i].do = "fetch"
               PROVE  \E j \in i + 1 .. m + n : Reseals(st[j])
    BY <1>2 DEF Fetchable
  <2>1. CASE i \in 1 .. m
    <3>0. i \in DOMAIN s /\ s[i].do = "fetch"
      BY <1>2, <1>3, <2>1
    <3>1. PICK j \in i + 1 .. m : Reseals(s[j])
      BY <3>0 DEF Handler, Fetchable, m
    <3>2. j \in 1 .. m /\ j \in i + 1 .. m + n
      BY <1>2, <2>1
    <3> QED
      BY <1>3, <3>1, <3>2
  <2>2. CASE i - m \in 1 .. n /\ i = m + (i - m)
    <3> PICK k \in 1 .. n : i = m + k
      BY <2>2
    <3>1. st[i] = t[k] /\ k \in DOMAIN t
      BY <1>2, <1>3
    <3>2. PICK j \in k + 1 .. n : Reseals(t[j])
      BY <3>1 DEF Handler, Fetchable, n
    <3>3. j \in 1 .. n /\ m + j \in i + 1 .. m + n
      BY <1>2
    <3> QED
      BY <1>3, <3>2, <3>3
  <2> QED
    BY <1>3, <2>1, <2>2
<1>10. RegisteredIn(st) = RegisteredIn(s) \cup RegisteredIn(t)
  <2>1. \A d : (\E i \in 1 .. m + n : d \in RegisteredBy(st[i])) <=>
                   \/ \E i \in 1 .. m : d \in RegisteredBy(s[i])
                   \/ \E i \in 1 .. n : d \in RegisteredBy(t[i])
    BY <1>2, <1>3
  <2> QED
    BY <1>2, <2>1 DEF RegisteredIn
<1>11. WrittenIn(st) = WrittenIn(s) \cup WrittenIn(t)
  <2>1. \A d : (\E i \in 1 .. m + n : d \in WrittenBy(st[i])) <=>
                   \/ \E i \in 1 .. m : d \in WrittenBy(s[i])
                   \/ \E i \in 1 .. n : d \in WrittenBy(t[i])
    BY <1>2, <1>3
  <2> QED
    BY <1>2, <2>1 DEF WrittenIn
<1> QED
    BY <1>2, <1>6, <1>7, <1>8, <1>9, <1>10, <1>11 DEF Handler, st

-----------------------------------------------------------------------------
(* The handlers *)

\* The steps of handlers are such that may be queued.
LEMMA QueuedFacts ==
    ASSUME NEW ks
    PROVE  /\ \A f \in KeyPairFile : On("learn", f) \in QueuedStep(ks)
           /\ \A d \in UserDir : /\ On("register dir", d) \in QueuedStep(ks)
                                 /\ On("establish", d) \in QueuedStep(ks)
           /\ \A f \in TreeFile : /\ On("register file", f) \in QueuedStep(ks)
                                  /\ On("remove", f) \in QueuedStep(ks)
                                  /\ On("abort", f) \in QueuedStep(ks)
           /\ \A f \in TreeFile, left \in SUBSET TreeFile :
                  [do |-> "copies", file |-> f, left |-> left] \in QueuedStep(ks)
           /\ \A f \in TreeFile, catcher \in Catcher :
                  [do |-> "fetch", file |-> f, catcher |-> catcher] \in QueuedStep(ks)
           /\ \A f, g \in TreeFile :
                  [do |-> "link", file |-> f, copy |-> g] \in QueuedStep(ks)
           /\ On("quit", Root) \in QueuedStep(ks)
           /\ On("getline", Root) \in QueuedStep(ks)
<1> USE DEF On, QueuedStep
<1>1. /\ \A f \in KeyPairFile : On("learn", f) \in QueuedStep(ks)
      /\ \A d \in UserDir : /\ On("register dir", d) \in QueuedStep(ks)
                            /\ On("establish", d) \in QueuedStep(ks)
    OBVIOUS
<1>2. \A f \in TreeFile : /\ On("register file", f) \in QueuedStep(ks)
                          /\ On("remove", f) \in QueuedStep(ks)
                          /\ On("abort", f) \in QueuedStep(ks)
    OBVIOUS
<1>3. /\ \A f \in TreeFile, left \in SUBSET TreeFile :
             [do |-> "copies", file |-> f, left |-> left] \in QueuedStep(ks)
      /\ \A f \in TreeFile, catcher \in Catcher :
             [do |-> "fetch", file |-> f, catcher |-> catcher] \in QueuedStep(ks)
      /\ \A f, g \in TreeFile :
             [do |-> "link", file |-> f, copy |-> g] \in QueuedStep(ks)
    OBVIOUS
<1>4. /\ On("quit", Root) \in QueuedStep(ks)
      /\ On("getline", Root) \in QueuedStep(ks)
    OBVIOUS
<1> QED
    BY <1>1, <1>2, <1>3, <1>4

LEMMA WriteSteps ==
    ASSUME NEW ks
    PROVE  /\ \A f \in Store \cup TreeFile :
                  /\ On("put", f) \in WriteStep(ks)
                  /\ Opening(f, On("put", f)) \in QueuedStep(ks)
           /\ \A f \in Sensitive, catcher \in Catcher :
                  Owner(f) \in User =>
                      [do |-> "read", file |-> f, for |-> Owner(f), catcher |-> catcher]
                          \in QueuedStep(ks)
<1>1. HostFile = Store \cup KeyPairFile \cup TreeFile
    BY FileKinds
<1>2. \A f \in Store \cup TreeFile : On("put", f) \in WriteStep(ks)
    BY DEF On, WriteStep, PutStep
<1>3. \A f \in Store \cup TreeFile : Opening(f, On("put", f)) \in OpenStep(PutStep)
    BY <1>1 DEF On, Opening, OpenStep, PutStep
<1>4. \A f \in Sensitive, catcher \in Catcher :
          Owner(f) \in User =>
              [do |-> "read", file |-> f, for |-> Owner(f), catcher |-> catcher]
                  \in QueuedStep(ks)
    BY DEF QueuedStep
<1> QED
    BY <1>2, <1>3, <1>4 DEF QueuedStep

\* The steps that write the files of a key pair.
LEMMA KeyPairSteps ==
    ASSUME NEW ks, NEW u \in User, NEW k \in 1 .. Len(ks), ks[k] = u
    PROVE  LET put  == PutKeyTo(KeyFile(u), k)
               open == Opening(PublicFile(u), put)
           IN  /\ PutKeyTo(PublicFile(u), k) \in PutKeyStep(ks)
               /\ put \in PutKeyStep(ks) /\ open \in PublicOpen(ks)
               /\ Opening(KeyFile(u), open) \in QueuedStep(ks)
               /\ createKeyPair(u, k) = <<Opening(KeyFile(u), open)>>
<1> DEFINE put  == PutKeyTo(KeyFile(u), k)
           open == Opening(PublicFile(u), put)
<1>1. /\ KeyFile(u) \in KeyPairFile /\ KeyFile(u)[2] = u
      /\ PublicFile(u) \in KeyPairFile /\ PublicFile(u)[2] = u
    BY DEF KeyPairFile, KeyFile, PublicFile
<1>2. put \in PutKeyStep(ks) /\ PutKeyTo(PublicFile(u), k) \in PutKeyStep(ks)
    BY <1>1 DEF PutKeyTo, PutKeyStep
<1>3. put.file = KeyFile(u)
    BY DEF PutKeyTo
<1> HIDE DEF put
<1>4. open \in PublicOpen(ks) /\ open.write = put
    BY <1>1, <1>2, <1>3 DEF Opening, PublicOpen
<1> HIDE DEF open
<1>5. Opening(KeyFile(u), open) \in KeyOpen(ks)
    BY <1>1, <1>3, <1>4 DEF Opening, KeyOpen
<1> QED
    BY <1>2, <1>4, <1>5 DEF QueuedStep, createKeyPair, put, open

LEMMA OwnerFacts ==
    /\ \A f \in Sensitive : Owner(f) \in User
    /\ \A f \in TreeFile : Owner(f) = fetchOwner(f)
    /\ AdminKeys \in Sensitive /\ Owner(AdminKeys) = Admin
    /\ TreeFile \subseteq Sensitive
    /\ Store \cap Sensitive = {AdminKeys} /\ KeyPairFile \cap Sensitive = {}
<1>1. \A f \in TreeFile : Owner(f) = f[1] /\ fetchOwner(f) = f[1] /\ f[1] \in User
    BY FileKinds
<1>2. Owner(AdminKeys) = Admin
    BY DEF Owner
<1> QED
    BY <1>1, <1>2, FileKinds, UserAssumption DEF Sensitive, Store

LEMMA WriteHandler ==
    ASSUME NEW ks, NEW f \in Store \ {AdminKeys}, NEW D, NEW W
    PROVE  Handler(Write(f), D, W, ks)
<1> DEFINE x == Opening(f, On("put", f))
<1>1. x \in QueuedStep(ks)
    BY WriteSteps
<1>2. f \notin Sensitive
    BY OwnerFacts
<1>3. Ready(x, <<>>, D, W)
    BY <1>2 DEF Ready, Opening, On
<1> QED
    BY <1>1, <1>3, HandlerOfOne DEF Write

LEMMA createKeyPairHandler ==
    ASSUME NEW ks, NEW u \in User, NEW k \in 1 .. Len(ks), ks[k] = u,
           NEW D, NEW W
    PROVE  /\ Handler(createKeyPair(u, k), D, W, ks)
           /\ WrittenIn(createKeyPair(u, k)) = {KeyFile(u), PublicFile(u)}
<1> DEFINE open == Opening(PublicFile(u), PutKeyTo(KeyFile(u), k))
           x == Opening(KeyFile(u), open)
<1>1. x \in QueuedStep(ks) /\ createKeyPair(u, k) = <<x>>
    BY KeyPairSteps
<1>2. /\ x.do = "open" /\ x.file = KeyFile(u) /\ x.write.do = "open"
      /\ x.write.file = PublicFile(u)
    BY DEF Opening
<1> HIDE DEF x
<1>3. Ready(x, <<>>, D, W) /\ WrittenBy(x) = {KeyFile(u), PublicFile(u)}
    BY <1>2 DEF Ready, Puts, WrittenBy
<1> QED
    BY <1>1, <1>3, HandlerOfOne

\* A file that holds secrets is written and then encrypted for its owner.
LEMMA SecuredHandler ==
    ASSUME NEW ks, NEW f \in Sensitive, NEW catcher \in Catcher, NEW D, NEW W
    PROVE  /\ Handler(Write(f) \o Secure(f, Owner(f), catcher), D, W, ks)
           /\ Resealing(Write(f) \o Secure(f, Owner(f), catcher))
<1> DEFINE x == Opening(f, On("put", f))
           y == [do |-> "read", file |-> f, for |-> Owner(f), catcher |-> catcher]
<1>1. x \in QueuedStep(ks) /\ y \in QueuedStep(ks)
    BY WriteSteps, OwnerFacts DEF Sensitive, Store
<1>2. Handler(<<y>>, D, W \cup WrittenBy(x), ks)
  <2>1. Ready(y, <<>>, D, W \cup WrittenBy(x))
    BY DEF Ready, Puts
  <2> QED
    BY <1>1, <2>1, HandlerOfOne
<1>3. Ready(x, <<y>>, D, W) /\ RegisteredBy(x) = {}
    BY DEF Ready, ReadNext, RegisteredBy, Opening
<1>4. Handler(<<x>> \o <<y>>, D, W, ks)
  <2>1. D \cup RegisteredBy(x) = D
    BY <1>3
  <2> QED
    BY <1>1, <1>2, <1>3, <2>1, HandlerCons
<1>5. Resealing(<<x>> \o <<y>>)
  <2> DEFINE t == <<x>> \o <<y>>
  <2>1. <<y>> \in Seq(QueuedStep(ks)) /\ Len(<<y>>) = 1 /\ <<y>>[1] = y
    BY <1>1
  <2>2. 2 \in DOMAIN t /\ t[2] = y /\ y.do = "read"
    BY <1>1, <2>1, ConsFacts
  <2> HIDE DEF t, y
  <2>3. Resealing(t)
    BY <2>2 DEF Resealing, Reseals
  <2> QED
    BY <2>3 DEF t
<1> QED
    BY <1>4, <1>5 DEF Write, Secure

LEMMA generateFileHandler ==
    ASSUME NEW ks, NEW f \in TreeFile, NEW catcher \in Catcher, NEW D, NEW W
    PROVE  /\ Handler(generateFile(f, fetchOwner(f), catcher), D, W, ks)
           /\ Resealing(generateFile(f, fetchOwner(f), catcher))
<1>1. Owner(f) = fetchOwner(f) /\ f \in Sensitive
    BY OwnerFacts
<1> QED
    BY <1>1, SecuredHandler DEF generateFile

LEMMA PairOfSteps ==
    ASSUME NEW S, NEW x \in S, NEW y \in S
    PROVE  <<x>> \o <<y>> = <<x, y>>
<1>1. /\ <<x>> \in Seq(S) /\ <<y>> \in Seq(S) /\ <<x, y>> \in Seq(S)
      /\ Len(<<y>>) = 1 /\ <<y>>[1] = y
      /\ Len(<<x, y>>) = 2 /\ <<x, y>>[1] = x /\ <<x, y>>[2] = y
    OBVIOUS
<1>2. <<x>> \o <<y>> = <<x, y>>
  <2> DEFINE s == <<x>> \o <<y>>
             t == <<x, y>>
  <2>1. s \in Seq(S) /\ Len(s) = 2 /\ s[1] = x /\ s[2] = y
    BY <1>1, ConsFacts
  <2>2. t \in Seq(S) /\ Len(t) = 2 /\ t[1] = x /\ t[2] = y
    BY <1>1
  <2> HIDE DEF s, t
  <2>3. s = t
    BY <2>1, <2>2, SeqEqual
  <2> QED
    BY <2>3 DEF s, t
<1> QED
    BY <1>2

LEMMA replicateFileHandler ==
    ASSUME NEW ks \in Seq(User), NEW src \in TreeFile, NEW dst \in TreeFile,
           NEW registered \in BOOLEAN, NEW catcher \in Catcher, NEW D, NEW W
    PROVE  Handler(replicateFile(src, dst, registered, catcher), D, W, ks)
<1> DEFINE x == [do |-> "fetch", file |-> src, catcher |-> catcher]
           y == On("remove", dst)
           g == generateFile(dst, fetchOwner(dst), catcher)
<1>1. x \in QueuedStep(ks) /\ y \in QueuedStep(ks) /\ On("abort", src) \in QueuedStep(ks)
    BY QueuedFacts
<1>2. Handler(g, D, W, ks) /\ Resealing(g)
    BY generateFileHandler
<1> HIDE DEF g
<1>3. /\ RegisteredBy(x) = {} /\ WrittenBy(x) = {}
      /\ RegisteredBy(y) = {} /\ WrittenBy(y) = {}
    BY DEF RegisteredBy, WrittenBy, On
<1>4. D \cup {} = D /\ W \cup {} = W
    OBVIOUS
<1>5. Handler(<<y>> \o g, D, W, ks)
  <2>1. Ready(y, g, D, W)
    BY DEF Ready, Puts, On
  <2> QED
    BY <1>1, <1>2, <1>3, <1>4, <2>1, HandlerCons
<1>6. Resealing(<<y>> \o g)
  <2>1. g \in Seq(QueuedStep(ks))
    BY <1>2 DEF Handler
  <2>2. PICK i \in DOMAIN g : Reseals(g[i])
    BY <1>2 DEF Resealing
  <2>3. i \in 1 .. Len(g) /\ Len(g) \in Nat
    BY <2>1, LenProperties
  <2>4. i + 1 \in DOMAIN (<<y>> \o g) /\ (<<y>> \o g)[i + 1] = g[i]
    BY <1>1, <2>1, <2>3, ConsFacts
  <2> QED
    BY <2>2, <2>4 DEF Resealing
<1>7. Handler(<<x>> \o (<<y>> \o g), D, W, ks)
  <2>1. Ready(x, <<y>> \o g, D, W)
    BY <1>6 DEF Ready, Puts
  <2> QED
    BY <1>1, <1>3, <1>4, <1>5, <2>1, HandlerCons
<1>8. <<x, y>> \o g = <<x>> \o (<<y>> \o g)
  <2>1. g \in Seq(QueuedStep(ks))
    BY <1>2 DEF Handler
  <2>2. x \in QueuedStep(ks) /\ y \in QueuedStep(ks)
    BY <1>1
  <2> HIDE DEF x, y
  <2>3. <<x>> \o <<y>> = <<x, y>>
    BY <2>2, PairOfSteps
  <2>4. (<<x>> \o <<y>>) \o g = <<x>> \o (<<y>> \o g)
    BY <2>1, <2>2, ConcatAssociative
  <2> QED
    BY <2>3, <2>4
<1>9. Handler(<<On("abort", src)>>, D, W, ks)
  <2>1. Ready(On("abort", src), <<>>, D, W)
    BY DEF Ready, Puts, On
  <2> QED
    BY <1>1, <2>1, HandlerOfOne
<1> QED
    BY <1>7, <1>8, <1>9 DEF replicateFile, g

LEMMA replicateToHandler ==
    ASSUME NEW ks, NEW src \in TreeFile, NEW copies \in SUBSET TreeFile,
           NEW D, NEW W
    PROVE  Handler(replicateTo(src, copies), D, W, ks)
<1> DEFINE x == [do |-> "copies", file |-> src, left |-> copies]
<1>1. x \in QueuedStep(ks)
    BY QueuedFacts
<1>2. Ready(x, <<>>, D, W)
    BY DEF Ready, Puts
<1>3. Handler(<<x>>, D, W, ks)
    BY <1>1, <1>2, HandlerOfOne
<1> QED
    BY <1>3, HandlerOfNone DEF replicateTo

\* Handlers that need nothing of what was done before them.
LEMMA HandlersInTurn ==
    ASSUME NEW ks, NEW D, NEW W, NEW s, NEW t,
           Handler(s, D, W, ks), \A D2, W2 : Handler(t, D2, W2, ks)
    PROVE  Handler(s \o t, D, W, ks)
    BY HandlerConcat

LEMMA PersistHandler ==
    ASSUME NEW ks, NEW isAdminMode \in BOOLEAN, NEW D, NEW W
    PROVE  /\ Handler(PersistUsers(isAdminMode), D, W, ks)
           /\ Handler(PersistAll(isAdminMode), D, W, ks)
<1>1. \A D2, W2 : /\ Handler(Write(UserInfo), D2, W2, ks)
                  /\ Handler(Write(FileMappings), D2, W2, ks)
                  /\ Handler(Write(SharedInfo), D2, W2, ks)
    BY WriteHandler, FileKinds DEF Store
<1>2. \A D2, W2 : Handler(Write(AdminKeys) \o Secure(AdminKeys, Admin, "persist"),
                          D2, W2, ks)
  <2>1. AdminKeys \in Sensitive /\ Owner(AdminKeys) = Admin /\ "persist" \in Catcher
    BY OwnerFacts DEF Catcher
  <2> QED
    BY <2>1, SecuredHandler
<1>3. \A D2, W2 : Handler(<<>>, D2, W2, ks)
    BY HandlerOfNone
<1>4. \A D2, W2 : Handler(PersistUsers(isAdminMode), D2, W2, ks)
  <2>1. CASE isAdminMode
    BY <1>1, <1>2, <2>1, HandlersInTurn DEF PersistUsers
  <2>2. CASE ~isAdminMode
    BY <1>1, <1>3, <2>2, HandlersInTurn DEF PersistUsers
  <2> QED
    BY <2>1, <2>2
<1>5. Handler(PersistAll(isAdminMode), D, W, ks)
  <2>1. Handler(Write(FileMappings) \o PersistUsers(isAdminMode), D, W, ks)
    BY <1>1, <1>4, HandlersInTurn
  <2> QED
    BY <1>1, <2>1, HandlersInTurn DEF PersistAll
<1> QED
    BY <1>4, <1>5

LEMMA DestroyHandler ==
    ASSUME NEW ks, NEW isAdminMode \in BOOLEAN, NEW D, NEW W
    PROVE  Handler(Destroy(isAdminMode), D, W, ks)
<1> DEFINE a == PersistAll(isAdminMode)
           b == Write(SharedInfo)
           c == PersistUsers(isAdminMode)
           d == Write(FileMappings)
           e == <<On("quit", Root)>>
<1>1. \A D2, W2 : Handler(a, D2, W2, ks) /\ Handler(c, D2, W2, ks)
    BY PersistHandler
<1>2. \A D2, W2 : Handler(b, D2, W2, ks) /\ Handler(d, D2, W2, ks)
    BY WriteHandler, FileKinds DEF Store
<1>3. \A D2, W2 : Handler(e, D2, W2, ks)
  <2>1. \A D2, W2 : Ready(On("quit", Root), <<>>, D2, W2)
    BY DEF Ready, Puts, On
  <2> QED
    BY <2>1, QueuedFacts, HandlerOfOne
<1>4. Destroy(isAdminMode) = a \o b \o c \o d \o e
    BY DEF Destroy
<1> HIDE DEF a, b, c, d, e
<1>5. Handler(a \o b, D, W, ks)
    BY <1>1, <1>2, HandlersInTurn
<1>6. Handler(a \o b \o c, D, W, ks)
    BY <1>1, <1>5, HandlersInTurn
<1>7. Handler(a \o b \o c \o d, D, W, ks)
    BY <1>2, <1>6, HandlersInTurn
<1>8. Handler(a \o b \o c \o d \o e, D, W, ks)
    BY <1>3, <1>7, HandlersInTurn
<1> QED
    BY <1>4, <1>8

LEMMA RegisterHandler ==
    ASSUME NEW ks, NEW D, NEW W
    PROVE  /\ \A d \in UserDir :
                  Parent(d) \in D \cup Base =>
                      /\ Handler(registerDirectory(d), D, W, ks)
                      /\ RegisteredIn(registerDirectory(d)) = {d}
           /\ \A f \in TreeFile :
                  Parent(f) \in D => Handler(registerFile(f), D, W, ks)
<1>1. ASSUME NEW d \in UserDir, Parent(d) \in D \cup Base
      PROVE  /\ Handler(registerDirectory(d), D, W, ks)
             /\ RegisteredIn(registerDirectory(d)) = {d}
  <2> DEFINE x == On("register dir", d)
  <2>1. x \in QueuedStep(ks)
    BY QueuedFacts
  <2>2. Ready(x, <<>>, D, W) /\ RegisteredBy(x) = {d}
    BY <1>1 DEF Ready, Puts, On, RegisteredBy
  <2> QED
    BY <2>1, <2>2, HandlerOfOne DEF registerDirectory
<1>2. ASSUME NEW f \in TreeFile, Parent(f) \in D
      PROVE  Handler(registerFile(f), D, W, ks)
  <2> DEFINE x == On("register file", f)
  <2>1. x \in QueuedStep(ks)
    BY QueuedFacts
  <2>2. Ready(x, <<>>, D, W)
    BY <1>2 DEF Ready, Puts, On
  <2> QED
    BY <2>1, <2>2, HandlerOfOne DEF registerFile
<1> QED
    BY <1>1, <1>2

LEMMA EstablishHandler ==
    ASSUME NEW ks, NEW d \in UserDir, NEW D, NEW W
    PROVE  Handler(<<On("establish", d)>>, D, W, ks)
<1>1. Ready(On("establish", d), <<>>, D, W)
    BY DEF Ready, Puts, On
<1> QED
    BY <1>1, QueuedFacts, HandlerOfOne

LEMMA LearnHandler ==
    ASSUME NEW ks, NEW f \in KeyPairFile, NEW D, NEW W, f \in W
    PROVE  Handler(<<On("learn", f)>>, D, W, ks)
<1>1. Ready(On("learn", f), <<>>, D, W)
    BY DEF Ready, Puts, On
<1> QED
    BY <1>1, QueuedFacts, HandlerOfOne

LEMMA LinkHandler ==
    ASSUME NEW ks, NEW f \in TreeFile, NEW g \in TreeFile, NEW D, NEW W
    PROVE  Handler(<<[do |-> "link", file |-> f, copy |-> g]>>, D, W, ks)
<1> DEFINE x == [do |-> "link", file |-> f, copy |-> g]
<1>1. x \in QueuedStep(ks)
    BY QueuedFacts
<1>2. Ready(x, <<>>, D, W)
    BY DEF Ready, Puts
<1> QED
    BY <1>1, <1>2, HandlerOfOne

\* The directories of a home.
LEMMA HomeFacts ==
    ASSUME NEW u \in User
    PROVE  /\ Home(u) \in UserDir /\ PersonalDir(u) \in UserDir
           /\ SharedDir(u) \in UserDir
           /\ Parent(Home(u)) = Root
           /\ Parent(PersonalDir(u)) = Home(u) /\ Parent(SharedDir(u)) = Home(u)
           /\ KeyFile(u) \in KeyPairFile /\ KeyFile(u)[2] = u
           /\ PublicFile(u) \in KeyPairFile /\ PublicFile(u)[2] = u
<1>1. /\ HomeDirs(u) \subseteq Path
      /\ \A d \in HomeDirs(u) : d[1] = u /\ Len(d) \in 1 .. 2
      /\ Len(Home(u)) = 1
      /\ Parent(PersonalDir(u)) = Home(u) /\ Parent(SharedDir(u)) = Home(u)
    BY HomePaths
<1>2. HomeDirs(u) \subseteq UserDir
  <2>1. 1 .. 2 \subseteq 1 .. 3
    OBVIOUS
  <2> QED
    BY <1>1, <2>1 DEF UserDir
<1>3. Parent(Home(u)) = Root
  <2>1. Home(u) \in Path /\ Home(u) # Root
    BY <1>1 DEF HomeDirs, Home, Root
  <2>2. Len(Parent(Home(u))) = 0 /\ Parent(Home(u)) \in Path
    BY <1>1, <2>1, ParentOfPath
  <2> QED
    BY <2>2, EmptySeq DEF Path, Root
<1>4. /\ KeyFile(u) \in KeyPairFile /\ KeyFile(u)[2] = u
      /\ PublicFile(u) \in KeyPairFile /\ PublicFile(u)[2] = u
    BY DEF KeyPairFile, KeyFile, PublicFile
<1> QED
    BY <1>1, <1>2, <1>3, <1>4 DEF HomeDirs

LEMMA TripleOfSteps ==
    \A x, y, z : <<x, y, z>> = (<<x>> \o <<y>>) \o <<z>>
<1> SUFFICES ASSUME NEW x, NEW y, NEW z
             PROVE  <<x, y, z>> = (<<x>> \o <<y>>) \o <<z>>
    OBVIOUS
<1> DEFINE S == {x, y, z}
           p == <<x, y>>
           s == p \o <<z>>
           t == <<x, y, z>>
<1>1. <<x>> \o <<y>> = p
  <2>1. x \in S /\ y \in S
    OBVIOUS
  <2> HIDE DEF S
  <2> QED
    BY <2>1, PairOfSteps
<1>2. /\ p \in Seq(S) /\ Len(p) = 2 /\ p[1] = x /\ p[2] = y
      /\ <<z>> \in Seq(S) /\ Len(<<z>>) = 1 /\ <<z>>[1] = z
    OBVIOUS
<1>3. t \in Seq(S) /\ Len(t) = 3 /\ t[1] = x /\ t[2] = y /\ t[3] = z
    OBVIOUS
<1> HIDE DEF p
<1>4. s \in Seq(S) /\ Len(s) = 3 /\ s[1] = x /\ s[2] = y /\ s[3] = z
    BY <1>2, ConcatProperties
<1> HIDE DEF s, t, S
<1>5. s = t
    BY <1>3, <1>4, SeqEqual
<1> QED
    BY <1>1, <1>5 DEF s, t

LEMMA createUserHandler ==
    ASSUME NEW ks, NEW u \in User, NEW k \in 1 .. Len(ks), ks[k] = u, NEW D, NEW W
    PROVE  Handler(createUser(u, k), D, W, ks)
<1> DEFINE a == createKeyPair(u, k)
           b == <<On("learn", PublicFile(u))>>
           c == registerDirectory(Home(u))
           d == registerDirectory(PersonalDir(u))
           e == registerDirectory(SharedDir(u))
           f == <<On("learn", KeyFile(u))>>
           g == PersistAll(TRUE)
           h == <<On("establish", Home(u)), On("establish", PersonalDir(u)),
                  On("establish", SharedDir(u))>>
<1>1. \A D2, W2 : Handler(a, D2, W2, ks) /\ WrittenIn(a) = {KeyFile(u), PublicFile(u)}
    BY createKeyPairHandler
<1>2. \A D2, W2 : PublicFile(u) \in W2 => Handler(b, D2, W2, ks)
    BY HomeFacts, LearnHandler
<1>3. \A D2, W2 : Handler(c, D2, W2, ks) /\ RegisteredIn(c) = {Home(u)}
    BY HomeFacts, RegisterHandler DEF Base
<1>4. \A D2, W2 : Home(u) \in D2 => Handler(d, D2, W2, ks) /\ Handler(e, D2, W2, ks)
    BY HomeFacts, RegisterHandler
<1>5. \A D2, W2 : KeyFile(u) \in W2 => Handler(f, D2, W2, ks)
    BY HomeFacts, LearnHandler
<1>6. \A D2, W2 : Handler(g, D2, W2, ks)
    BY PersistHandler
<1>7. \A D2, W2 : Handler(h, D2, W2, ks)
  <2> DEFINE x == On("establish", Home(u))
             y == On("establish", PersonalDir(u))
             z == On("establish", SharedDir(u))
  <2>1. \A D2, W2 : /\ Handler(<<x>>, D2, W2, ks) /\ Handler(<<y>>, D2, W2, ks)
                    /\ Handler(<<z>>, D2, W2, ks)
    BY HomeFacts, EstablishHandler
  <2> HIDE DEF x, y, z
  <2>2. <<x, y, z>> = (<<x>> \o <<y>>) \o <<z>>
    BY TripleOfSteps
  <2>3. \A D2, W2 : Handler(<<x>> \o <<y>>, D2, W2, ks)
    BY <2>1, HandlersInTurn
  <2>4. \A D2, W2 : Handler((<<x>> \o <<y>>) \o <<z>>, D2, W2, ks)
    BY <2>1, <2>3, HandlersInTurn
  <2> QED
    BY <2>2, <2>4 DEF x, y, z
<1>8. createUser(u, k) = a \o b \o c \o d \o e \o f \o g \o h
    BY DEF createUser
<1> HIDE DEF a, b, c, d, e, f, g, h
<1>9. Handler(a \o b, D, W, ks) /\ {KeyFile(u), PublicFile(u)} \subseteq WrittenIn(a \o b)
  <2> DEFINE s == a
  <2>1. Handler(s, D, W, ks) /\ {KeyFile(u), PublicFile(u)} \subseteq WrittenIn(s)
    BY <1>1
  <2>2. Handler(b, D \cup RegisteredIn(s), W \cup WrittenIn(s), ks)
    BY <1>2, <2>1
  <2> QED
    BY <2>1, <2>2, HandlerConcat, SMTT(60)
<1>10. /\ Handler(a \o b \o c, D, W, ks) /\ KeyFile(u) \in WrittenIn(a \o b \o c)
       /\ Home(u) \in RegisteredIn(a \o b \o c)
  <2> DEFINE s == a \o b
  <2>1. Handler(s, D, W, ks) /\ KeyFile(u) \in WrittenIn(s)
    BY <1>9
  <2>2. /\ Handler(c, D \cup RegisteredIn(s), W \cup WrittenIn(s), ks)
        /\ RegisteredIn(c) = {Home(u)}
    BY <1>3
  <2> HIDE DEF s
  <2>3. Handler(s \o c, D, W, ks) /\ KeyFile(u) \in WrittenIn(s \o c)
        /\ Home(u) \in RegisteredIn(s \o c)
    BY <2>1, <2>2, HandlerConcat, SMTT(60)
  <2> QED
    BY <2>3 DEF s
<1>11. /\ Handler(a \o b \o c \o d, D, W, ks) /\ KeyFile(u) \in WrittenIn(a \o b \o c \o d)
       /\ Home(u) \in RegisteredIn(a \o b \o c \o d)
  <2> DEFINE s == a \o b \o c
  <2>1. /\ Handler(s, D, W, ks) /\ KeyFile(u) \in WrittenIn(s)
        /\ Home(u) \in RegisteredIn(s)
    BY <1>10
  <2> HIDE DEF s
  <2>2. Handler(d, D \cup RegisteredIn(s), W \cup WrittenIn(s), ks)
    BY <1>4, <2>1
  <2>3. Handler(s, D, W, ks)
    BY <2>1
  <2>4. /\ Handler(s \o d, D, W, ks)
        /\ RegisteredIn(s \o d) = RegisteredIn(s) \cup RegisteredIn(d)
        /\ WrittenIn(s \o d) = WrittenIn(s) \cup WrittenIn(d)
    BY <2>2, <2>3, HandlerConcat, SMTT(60)
  <2> QED
    BY <2>1, <2>4 DEF s
<1>12. /\ Handler(a \o b \o c \o d \o e, D, W, ks)
       /\ KeyFile(u) \in WrittenIn(a \o b \o c \o d \o e)
  <2> DEFINE s == a \o b \o c \o d
  <2>1. /\ Handler(s, D, W, ks) /\ KeyFile(u) \in WrittenIn(s)
        /\ Home(u) \in RegisteredIn(s)
    BY <1>11
  <2> HIDE DEF s
  <2>2. Handler(e, D \cup RegisteredIn(s), W \cup WrittenIn(s), ks)
    BY <1>4, <2>1
  <2>3. Handler(s, D, W, ks)
    BY <2>1
  <2>4. /\ Handler(s \o e, D, W, ks)
        /\ RegisteredIn(s \o e) = RegisteredIn(s) \cup RegisteredIn(e)
        /\ WrittenIn(s \o e) = WrittenIn(s) \cup WrittenIn(e)
    BY <2>2, <2>3, HandlerConcat, SMTT(60)
  <2> QED
    BY <2>1, <2>4 DEF s
<1>13. Handler(a \o b \o c \o d \o e \o f, D, W, ks)
  <2> DEFINE s == a \o b \o c \o d \o e
  <2>1. Handler(s, D, W, ks) /\ KeyFile(u) \in WrittenIn(s)
    BY <1>12
  <2> HIDE DEF s
  <2>2. Handler(f, D \cup RegisteredIn(s), W \cup WrittenIn(s), ks)
    BY <1>5, <2>1
  <2>3. Handler(s, D, W, ks)
    BY <2>1
  <2>4. Handler(s \o f, D, W, ks)
    BY <2>2, <2>3, HandlerConcat, SMTT(60)
  <2> QED
    BY <2>4 DEF s
<1>14. Handler(a \o b \o c \o d \o e \o f \o g, D, W, ks)
    BY <1>6, <1>13, HandlersInTurn
<1>15. Handler(a \o b \o c \o d \o e \o f \o g \o h, D, W, ks)
    BY <1>7, <1>14, HandlersInTurn
<1> QED
    BY <1>8, <1>15

-----------------------------------------------------------------------------
(* What a process is in the middle of *)

LEMMA ResealingFacts ==
    ASSUME NEW S, NEW t \in Seq(S), t # <<>>
    PROVE  Resealing(t) <=> Reseals(Head(t)) \/ Resealing(Tail(t))
<1> DEFINE r == Tail(t)
           n == Len(t) - 1
<1>1. /\ Head(t) = t[1] /\ DOMAIN t = 1 .. n + 1 /\ DOMAIN r = 1 .. n /\ n \in Nat
      /\ \A i \in 1 .. n : r[i] = t[i + 1]
    BY UnconsFacts
<1> HIDE DEF r, n
<1>2. \A i \in 1 .. n + 1 : i = 1 \/ (i - 1 \in 1 .. n /\ r[i - 1] = t[i])
    BY <1>1
<1>3. 1 \in 1 .. n + 1 /\ \A i \in 1 .. n : i + 1 \in 1 .. n + 1 /\ r[i] = t[i + 1]
    BY <1>1
<1>4. (\E i \in 1 .. n + 1 : Reseals(t[i])) <=>
          Reseals(t[1]) \/ \E i \in 1 .. n : Reseals(r[i])
    BY <1>2, <1>3
<1> QED
    BY <1>1, <1>4 DEF Resealing, r

\* A step that is queued seals nothing yet.
LEMMA QueuedSealsNothing ==
    ASSUME NEW ks, NEW s \in QueuedStep(ks)
    PROVE  ~Seals(s)
    BY DEF Seals, QueuedStep, OpenStep, PutStep, KeyOpen, PublicOpen

\* A handler that is entered, or what is left of one.
LEMMA HandlerHandles ==
    ASSUME NEW ks, NEW t, NEW m, NEW h, NEW W,
           Handler(t, m[FileMappings].dirs, W, ks),
           h # Empty => Resealing(t)
    PROVE  HandleOK(t, m, h, ks, W)
<1> DEFINE D == m[FileMappings].dirs
<1>1. t \in Seq(QueuedStep(ks))
    BY DEF Handler
<1>2. t \in Seq(AnyStep(ks))
    BY <1>1, SeqMonotonic DEF AnyStep
<1>3. CASE t = <<>>
    BY <1>2, <1>3 DEF HandleOK, Resealing
<1>4. CASE t # <<>>
  <2>1. Head(t) \in QueuedStep(ks)
    BY <1>1, <1>4, UnconsFacts
  <2>2. SealOK(Head(t), m, h, ks)
    BY <2>1, QueuedSealsNothing DEF SealOK
  <2>3. /\ Ready(Head(t), Tail(t), D, W)
        /\ Handler(Tail(t), D \cup RegisteredBy(Head(t)), W \cup WrittenBy(Head(t)), ks)
    BY <1>1, <1>4, HandlerStepwise
  <2>4. h # Empty => Reseals(Head(t)) \/ Resealing(Tail(t))
    BY <1>1, <1>4, ResealingFacts
  <2> QED
    BY <1>2, <1>4, <2>2, <2>3, <2>4 DEF HandleOK
<1> QED
    BY <1>3, <1>4

\* A handler of which the first step is replaced by another.
LEMMA ReplacedHandles ==
    ASSUME NEW ks, NEW x \in AnyStep(ks), NEW t, NEW m, NEW h, NEW W,
           Ready(x, t, m[FileMappings].dirs, W),
           SealOK(x, m, h, ks),
           Handler(t, m[FileMappings].dirs \cup RegisteredBy(x), W \cup WrittenBy(x), ks),
           h # Empty => Reseals(x) \/ Resealing(t)
    PROVE  HandleOK(<<x>> \o t, m, h, ks, W)
<1>1. t \in Seq(AnyStep(ks))
    BY SeqMonotonic DEF Handler, AnyStep
<1>2. /\ <<x>> \o t \in Seq(AnyStep(ks)) /\ <<x>> \o t # <<>>
      /\ Head(<<x>> \o t) = x /\ Tail(<<x>> \o t) = t
    BY <1>1, ConsFacts
<1> QED
    BY <1>2 DEF HandleOK

\* What is left of a handler when its first step has been taken.
LEMMA RestOfHandler ==
    ASSUME NEW ks \in Seq(User), NEW t, t # <<>>, NEW m, NEW h, NEW W,
           HandleOK(t, m, h, ks, W),
           NEW D2, m[FileMappings].dirs \cup RegisteredBy(Head(t)) \subseteq D2,
           NEW W2, W \cup WrittenBy(Head(t)) \subseteq W2
    PROVE  /\ Head(t) \in AnyStep(ks) /\ Tail(t) \in Seq(QueuedStep(ks))
           /\ Handler(Tail(t), D2, W2, ks)
           /\ Ready(Head(t), Tail(t), m[FileMappings].dirs, W)
           /\ h # Empty => Reseals(Head(t)) \/ Resealing(Tail(t))
<1>1. Head(t) \in AnyStep(ks)
    BY UnconsFacts DEF HandleOK
<1>2. /\ Handler(Tail(t), m[FileMappings].dirs \cup RegisteredBy(Head(t)),
                 W \cup WrittenBy(Head(t)), ks)
      /\ Ready(Head(t), Tail(t), m[FileMappings].dirs, W)
      /\ h # Empty => Reseals(Head(t)) \/ Resealing(Tail(t))
    BY DEF HandleOK
<1>3. Handler(Tail(t), D2, W2, ks)
    BY <1>2, HandlerMore
<1> QED
    BY <1>1, <1>2, <1>3 DEF Handler

-----------------------------------------------------------------------------
(* What is so stays so when key pairs are generated and files are written *)

LEMMA KeyTableKept ==
    ASSUME NEW ks, NEW ks2, Extends(ks, ks2)
    PROVE  /\ \A u : KeyFor(u, ks) \subseteq KeyFor(u, ks2)
           /\ \A t : KeyTableOK(t, ks) => KeyTableOK(t, ks2)
<1>1. /\ Len(ks) \in Nat /\ Len(ks2) \in Nat
      /\ 1 .. Len(ks) \subseteq 1 .. Len(ks2) /\ 0 .. Len(ks) \subseteq 0 .. Len(ks2)
    BY LenProperties DEF Extends
<1>2. \A u : KeyFor(u, ks) \subseteq KeyFor(u, ks2)
    BY <1>1 DEF KeyFor, Extends
<1>3. ASSUME NEW t, KeyTableOK(t, ks)
      PROVE  KeyTableOK(t, ks2)
  <2>1. /\ DOMAIN t \in SUBSET User
        /\ t \in [DOMAIN t -> 0 .. Len(ks) \cup {Empty, Garbled}]
        /\ \A u \in DOMAIN t : t[u] \in KeyFor(u, ks)
    BY <1>3 DEF KeyTableOK
  <2>2. t \in [DOMAIN t -> 0 .. Len(ks2) \cup {Empty, Garbled}]
    BY <1>1, <2>1
  <2> QED
    BY <1>2, <2>1, <2>2 DEF KeyTableOK
<1> QED
    BY <1>2, <1>3

LEMMA TextKept ==
    ASSUME NEW ks, NEW ks2, Extends(ks, ks2)
    PROVE  /\ \A s, t : StoreOK(s, t, ks) => StoreOK(s, t, ks2)
           /\ \A f, t : TextOK(f, t, ks) => TextOK(f, t, ks2)
           /\ \A m : MemOK(m, ks) => MemOK(m, ks2)
<1>1. \A s, t : StoreOK(s, t, ks) => StoreOK(s, t, ks2)
    BY KeyTableKept DEF StoreOK
<1>2. \A f, t : TextOK(f, t, ks) => TextOK(f, t, ks2)
    BY <1>1, KeyTableKept DEF TextOK
<1>3. \A m : MemOK(m, ks) => MemOK(m, ks2)
    BY <1>1 DEF MemOK
<1> QED
    BY <1>1, <1>2, <1>3

LEMMA HandleKept ==
    ASSUME NEW ks, NEW ks2, Extends(ks, ks2), NEW t, NEW m, NEW h,
           NEW W, NEW W2, W \cap KeyPairFile \subseteq W2,
           HandleOK(t, m, h, ks, W)
    PROVE  HandleOK(t, m, h, ks2, W2)
<1> DEFINE D == m[FileMappings].dirs
<1>1. t \in Seq(AnyStep(ks)) /\ t \in Seq(AnyStep(ks2))
    BY StepsKept, SeqMonotonic DEF HandleOK
<1>2. ASSUME t # <<>>
      PROVE  /\ Ready(Head(t), Tail(t), D, W2)
             /\ SealOK(Head(t), m, h, ks2)
             /\ Handler(Tail(t), D \cup RegisteredBy(Head(t)),
                        W2 \cup WrittenBy(Head(t)), ks2)
  <2>1. /\ Ready(Head(t), Tail(t), D, W)
        /\ SealOK(Head(t), m, h, ks)
        /\ Handler(Tail(t), D \cup RegisteredBy(Head(t)),
                   W \cup WrittenBy(Head(t)), ks)
    BY <1>2 DEF HandleOK
  <2>2. Head(t) \in AnyStep(ks)
    BY <1>1, <1>2, UnconsFacts
  <2>3. Head(t).do = "learn" => Head(t).file \in KeyPairFile
    BY <2>2, StepFacts
  <2>4. Ready(Head(t), Tail(t), D, W2)
    BY <2>1, <2>3 DEF Ready
  <2>5. SealOK(Head(t), m, h, ks2)
    <3>1. 1 .. Len(ks) \subseteq 1 .. Len(ks2)
      BY LenProperties DEF Extends
    <3> QED
      BY <2>1, <3>1, KeyTableKept DEF SealOK
  <2>6. (W \cup WrittenBy(Head(t))) \cap KeyPairFile \subseteq W2 \cup WrittenBy(Head(t))
    OBVIOUS
  <2>7. Handler(Tail(t), D \cup RegisteredBy(Head(t)),
                W2 \cup WrittenBy(Head(t)), ks2)
    BY <2>1, <2>6, HandlerKept
  <2> QED
    BY <2>4, <2>5, <2>7
<1> QED
    BY <1>1, <1>2 DEF HandleOK

LEMMA LocalKept ==
    ASSUME NEW ks, NEW ks2, Extends(ks, ks2),
           NEW u, NEW k, NEW c, NEW m, NEW h, NEW t,
           NEW W, NEW W2, W \cap KeyPairFile \subseteq W2,
           Local(u, k, c, m, h, t, ks, W)
    PROVE  Local(u, k, c, m, h, t, ks2, W2)
<1>1. MemOK(m, ks2)
    BY TextKept DEF Local
<1>2. UserOK(u, k, c, m, ks2)
  <2>1. 0 .. Len(ks) \subseteq 0 .. Len(ks2)
    BY LenProperties DEF Extends
  <2> QED
    BY <2>1 DEF Local, UserOK
<1>3. HandleOK(t, m, h, ks, W) => HandleOK(t, m, h, ks2, W2)
    BY HandleKept
<1>4. Unattended(t, ks) => Unattended(t, ks2)
  <2>1. {s \in AnyStep(ks) : Tame(s)} \subseteq {s \in AnyStep(ks2) : Tame(s)}
    BY StepsKept
  <2> QED
    BY <2>1, SeqMonotonic DEF Unattended
<1> QED
    BY <1>1, <1>2, <1>3, <1>4 DEF Local

LEMMA FileKept ==
    ASSUME NEW ks, NEW ks2, Extends(ks, ks2), NEW dirs, NEW f, NEW content,
           FileOK(f, content, ks, dirs)
    PROVE  FileOK(f, content, ks2, dirs)
<1>1. /\ Len(ks) \in Nat /\ Len(ks2) \in Nat
      /\ 0 .. Len(ks) \subseteq 0 .. Len(ks2)
      /\ \A k \in 0 .. Len(ks) : k # 0 => ks2[k] = ks[k]
    BY LenProperties DEF Extends
<1> QED
    BY <1>1, TextKept DEF FileOK, Plain

-----------------------------------------------------------------------------
(* A step of one process *)

\* Nothing but what is this process's own is changed in what is the processes'.
StepBy(p) ==
    /\ DOMAIN user' = Proc /\ DOMAIN key' = Proc /\ DOMAIN cwd' = Proc
    /\ DOMAIN mem' = Proc /\ DOMAIN hold' = Proc /\ DOMAIN todo' = Proc
    /\ \A q \in Proc \ {p} :
          /\ user'[q] = user[q] /\ key'[q] = key[q] /\ cwd'[q] = cwd[q]
          /\ mem'[q] = mem[q] /\ hold'[q] = hold[q] /\ todo'[q] = todo[q]

LEMMA InvariantOfStep ==
    ASSUME IInv, NEW p \in Proc, StepBy(p), LocalOK(p)',
           Extends(keys, keys'), crashes' \in 0 .. MaxCrashes,
           tree' \subseteq UserDir \cup {Root}, HostOK',
           DOMAIN host \cap KeyPairFile \subseteq DOMAIN host'
    PROVE  IInv'
<1>1. Shape'
    BY DEF Shape, StepBy, Extends
<1>2. ASSUME NEW q \in Proc \ {p}
      PROVE  LocalOK(q)'
  <2>1. Local(user[q], key[q], cwd[q], mem[q], hold[q], todo[q], keys, DOMAIN host)
    BY DEF IInv, LocalOK
  <2>2. Local(user[q], key[q], cwd[q], mem[q], hold[q], todo[q], keys', DOMAIN host')
    BY <2>1, LocalKept
  <2>3. /\ user'[q] = user[q] /\ key'[q] = key[q] /\ cwd'[q] = cwd[q]
        /\ mem'[q] = mem[q] /\ hold'[q] = hold[q] /\ todo'[q] = todo[q]
    BY DEF StepBy
  <2> QED
    BY <2>2, <2>3 DEF LocalOK
<1>3. \A q \in Proc : LocalOK(q)'
    BY <1>2
<1> QED
    BY <1>1, <1>3 DEF IInv

\* No key pair is generated and no file written.
LEMMA InvariantOfQuietStep ==
    ASSUME IInv, NEW p \in Proc, StepBy(p), LocalOK(p)', UNCHANGED <<hostVars, keys>>,
           crashes' \in 0 .. MaxCrashes
    PROVE  IInv'
<1>1. Extends(keys, keys')
    BY LenProperties DEF Extends, IInv, Shape
<1>2. HostOK'
    BY DEF IInv, HostOK, hostVars
<1>3. tree' \subseteq UserDir \cup {Root} /\ DOMAIN host \cap KeyPairFile \subseteq DOMAIN host'
    BY DEF IInv, Shape, hostVars
<1> QED
    BY <1>1, <1>2, <1>3, InvariantOfStep

\* A file is written.
LEMMA InvariantOfWriting ==
    ASSUME IInv, NEW p \in Proc, StepBy(p), LocalOK(p)', UNCHANGED <<tree, keys, crashes>>,
           NEW f, NEW content, FileOK(f, content, keys, tree),
           host' = Set(f, content) \/ host' = host
    PROVE  IInv'
<1>1. Extends(keys, keys')
    BY LenProperties DEF Extends, IInv, Shape
<1>2. HostOK'
  <2>1. \A g \in DOMAIN host' : \/ host'[g] = content /\ g = f
                                \/ g \in DOMAIN host /\ host'[g] = host[g]
    BY DEF Set
  <2> QED
    BY <2>1 DEF IInv, HostOK
<1>3. DOMAIN host \cap KeyPairFile \subseteq DOMAIN host'
    BY DEF Set
<1>4. tree' \subseteq UserDir \cup {Root} /\ crashes' \in 0 .. MaxCrashes
    BY DEF IInv, Shape
<1> QED
    BY <1>1, <1>2, <1>3, <1>4, InvariantOfStep

\* A process that is not running.
LEMMA NewMemoryOK == ASSUME NEW ks \in Seq(User) PROVE MemOK(NewMemory, ks)
<1>1. DOMAIN NewMemory = Store
    BY DEF NewMemory
<1>2. MappingsOK(NewStore(FileMappings))
  <2>1. NewStore(FileMappings) = [dirs |-> {}, files |-> {}]
    BY FileKinds DEF NewStore
  <2> QED
    BY <2>1 DEF MappingsOK, Rooted
<1>3. NewStore(SharedInfo) = {}
    BY FileKinds DEF NewStore
<1>4. NewStore(UserInfo) = <<>> /\ NewStore(AdminKeys) = <<>>
    BY FileKinds DEF NewStore
<1>5. KeyTableOK(<<>>, ks)
    BY DEF KeyTableOK
<1>6. \A s \in Store : StoreOK(s, NewStore(s), ks)
    BY <1>2, <1>3, <1>4, <1>5, FileKinds DEF StoreOK, Store
<1> QED
    BY <1>1, <1>6 DEF MemOK, NewMemory

LEMMA GoneIsGone ==
    ASSUME IInv, NEW p \in Proc, Gone(p)
    PROVE  /\ StepBy(p)
           /\ \A ks \in Seq(User) :
                  Local(user'[p], key'[p], cwd'[p], mem'[p], hold'[p], todo'[p],
                        ks, DOMAIN host')
<1>1. StepBy(p)
    BY DEF StepBy, Gone, IInv, Shape
<1>2. /\ user'[p] = NoUser /\ key'[p] = NoKey /\ cwd'[p] = Root
      /\ mem'[p] = NewMemory /\ hold'[p] = Empty /\ todo'[p] = <<>>
    BY DEF Gone, IInv, Shape
<1>3. ASSUME NEW ks \in Seq(User)
      PROVE  Local(NoUser, NoKey, Root, NewMemory, Empty, <<>>, ks, DOMAIN host')
  <2>1. UserOK(NoUser, NoKey, Root, NewMemory, ks)
    BY RootIsPath, LenProperties DEF UserOK, NoKey, Plain
  <2>2. StartOK(<<>>, NoUser, NewMemory, Empty)
    <3>1. NewMemory[AdminKeys] = <<>>
      BY FileKinds DEF NewMemory, NewStore, Store
    <3> QED
      BY <3>1, EmptySeq DEF StartOK
  <2> QED
    BY <2>1, <2>2, NewMemoryOK DEF Local
<1> QED
    BY <1>1, <1>2, <1>3

LEMMA InvariantOfGone ==
    ASSUME IInv, NEW p \in Proc, Gone(p), UNCHANGED <<hostVars, keys>>,
           crashes' \in 0 .. MaxCrashes
    PROVE  IInv'
<1>1. keys' \in Seq(User)
    BY DEF IInv, Shape
<1>2. StepBy(p) /\ LocalOK(p)'
    BY <1>1, GoneIsGone DEF LocalOK
<1> QED
    BY <1>2, InvariantOfQuietStep

\* A process that is starting, and one that is in a handler.
LEMMA StartingFacts ==
    ASSUME IInv, NEW p \in Proc, NEW do \in {"load", "begin", "unlock"}, At(p, do)
    PROVE  /\ StartOK(todo[p], user[p], mem[p], hold[p])
           /\ Op(p) \in StartStep(user[p])
           /\ Tail(todo[p]) \in Seq(StartStep(user[p]))
<1>1. \/ StartOK(todo[p], user[p], mem[p], hold[p])
      \/ HandleOK(todo[p], mem[p], hold[p], keys, DOMAIN host)
    BY DEF IInv, LocalOK, Local
<1>2. ~HandleOK(todo[p], mem[p], hold[p], keys, DOMAIN host)
  <2>1. SUFFICES ASSUME HandleOK(todo[p], mem[p], hold[p], keys, DOMAIN host)
                 PROVE  FALSE
    OBVIOUS
  <2>2. Head(todo[p]) \in AnyStep(keys)
    BY <2>1, UnconsFacts DEF HandleOK, At
  <2> QED
    BY <2>2, StepFacts DEF At
<1>3. todo[p] \in Seq(StartStep(user[p])) /\ todo[p] # <<>>
    BY <1>1, <1>2 DEF StartOK, At
<1> QED
    BY <1>1, <1>2, <1>3, UnconsFacts DEF Op

LEMMA HandlingFacts ==
    ASSUME IInv, NEW p \in Proc, todo[p] # <<>>,
           Op(p).do \notin {"load", "begin", "unlock", "open", "put"}
    PROVE  /\ HandleOK(todo[p], mem[p], hold[p], keys, DOMAIN host)
           /\ user[p] = NoUser => Unattended(todo[p], keys)
<1>1. \/ StartOK(todo[p], user[p], mem[p], hold[p])
      \/ /\ HandleOK(todo[p], mem[p], hold[p], keys, DOMAIN host)
         /\ user[p] = NoUser => Unattended(todo[p], keys)
    BY DEF IInv, LocalOK, Local
<1>2. ~StartOK(todo[p], user[p], mem[p], hold[p])
  <2>1. SUFFICES ASSUME StartOK(todo[p], user[p], mem[p], hold[p])
                 PROVE  FALSE
    OBVIOUS
  <2>2. Op(p) \in StartStep(user[p])
    BY <2>1, UnconsFacts DEF StartOK, Op
  <2> QED
    BY <2>2, StartFacts
<1> QED
    BY <1>1, <1>2

\* Nobody is logged in, and the process goes on.
LEMMA UnattendedRest ==
    ASSUME NEW ks, NEW t, Unattended(t, ks), Head(t).do # "quit"
    PROVE  /\ t # <<>> /\ Tame(Head(t))
           /\ Unattended(Tail(t), ks)
           /\ \A x \in AnyStep(ks) : Tame(x) => Unattended(<<x>> \o Tail(t), ks)
<1> DEFINE S == {s \in AnyStep(ks) : Tame(s)}
           r == Tail(t)
           n == Len(t) - 1
<1>1. t \in Seq(S) /\ \E i \in DOMAIN t : t[i].do = "quit"
    BY DEF Unattended
<1>2. t # <<>>
    BY <1>1
<1>3. /\ Head(t) \in S /\ Head(t) = t[1] /\ r \in Seq(S)
      /\ DOMAIN t = 1 .. n + 1 /\ DOMAIN r = 1 .. n /\ n \in Nat /\ Len(r) = n
      /\ \A i \in 1 .. n : r[i] = t[i + 1]
    BY <1>1, <1>2, UnconsFacts
<1> HIDE DEF S, r, n
<1>4. PICK i \in 1 .. n + 1 : t[i].do = "quit"
    BY <1>1, <1>3
<1>5. i # 1 /\ i - 1 \in 1 .. n
    BY <1>3, <1>4
<1>6. i - 1 \in DOMAIN r /\ r[i - 1].do = "quit"
    BY <1>3, <1>4, <1>5
<1>7. Unattended(r, ks)
    BY <1>3, <1>6 DEF Unattended, S
<1>8. ASSUME NEW x \in AnyStep(ks), Tame(x)
      PROVE  Unattended(<<x>> \o r, ks)
  <2>1. x \in S
    BY <1>8 DEF S
  <2>2. /\ <<x>> \o r \in Seq(S) /\ i \in DOMAIN (<<x>> \o r)
        /\ (<<x>> \o r)[i] = r[i - 1]
    BY <1>3, <1>5, <2>1, ConsFacts
  <2> QED
    BY <1>6, <2>2 DEF Unattended, S
<1> QED
    BY <1>2, <1>3, <1>7, <1>8 DEF S, r

-----------------------------------------------------------------------------
(* Starting *)

LEMMA ExtendsItself == ASSUME IInv PROVE Extends(keys, keys)
    BY LenProperties DEF Extends, IInv, Shape

\* A store that is missing is written when it is looked for.
LEMMA StartWrite ==
    ASSUME NEW u, NEW s \in Store
    PROVE  Opening(s, On("put", s)) \in StartStep(u) /\ Write(s) \in Seq(StartStep(u))
<1>1. On("put", s) \in [do : {"put"}, file : Store]
    BY DEF On
<1>2. s \in HostFile
    BY FileKinds
<1>3. Opening(s, On("put", s)) \in OpenStep([do : {"put"}, file : Store])
    BY <1>1, <1>2 DEF Opening, On, OpenStep
<1>4. Opening(s, On("put", s)) \in StartStep(u)
    BY <1>3 DEF StartStep
<1> QED
    BY <1>4 DEF Write

LEMMA StartKeeps ==
    ASSUME IInv, NEW p \in Proc, NEW u \in User, Start(p, u)
    PROVE  IInv'
<1> DEFINE t == <<On("load", FileMappings), On("load", UserInfo),
                  On("load", SharedInfo), On("begin", KeyFile(u))>>
<1>1. user[p] = NoUser /\ todo[p] = <<>>
    BY DEF Start, Running
<1>2. /\ MemOK(mem[p], keys)
      /\ UserOK(user[p], key[p], cwd[p], mem[p], keys)
      /\ StartOK(todo[p], user[p], mem[p], hold[p])
  <2>1. ~Unattended(todo[p], keys)
    BY <1>1 DEF Unattended
  <2> QED
    BY <1>1, <2>1 DEF IInv, LocalOK, Local
<1>3. t \in Seq(StartStep(NoUser))
  <2>1. /\ On("load", FileMappings) \in StartStep(NoUser)
        /\ On("load", UserInfo) \in StartStep(NoUser)
        /\ On("load", SharedInfo) \in StartStep(NoUser)
        /\ On("begin", KeyFile(u)) \in StartStep(NoUser)
    BY FileKinds, HomeFacts DEF On, StartStep, Store
  <2> QED
    BY <2>1
<1> HIDE DEF t
<1>4. todo'[p] = t /\ StepBy(p) /\ UNCHANGED <<hostVars, keys, crashes>>
    BY DEF Start, t, StepBy, IInv, Shape, hostVars
<1>5. LocalOK(p)'
  <2>1. StartOK(t, user[p], mem[p], hold[p])
    BY <1>1, <1>2, <1>3 DEF StartOK
  <2> QED
    BY <1>2, <1>4, <2>1 DEF Start, LocalOK, Local
<1> QED
    BY <1>4, <1>5, InvariantOfQuietStep DEF IInv, Shape

\* What a process reads of a store that is whole.
LEMMA LoadedStore ==
    ASSUME IInv, NEW s \in Store, s \in DOMAIN host,
           host[s].text \notin {Empty, Garbled}
    PROVE  StoreOK(s, host[s].text, keys)
<1>1. TextOK(s, host[s].text, keys)
    BY DEF IInv, HostOK, FileOK
<1> QED
    BY <1>1, FileKinds DEF TextOK

LEMMA LoadKeeps ==
    ASSUME IInv, NEW p \in Proc, Load(p)
    PROVE  IInv'
<1> DEFINE f == File(p)
           u == user[p]
<1>1. /\ StartOK(todo[p], u, mem[p], hold[p])
      /\ Op(p) \in StartStep(u) /\ Tail(todo[p]) \in Seq(StartStep(u))
      /\ Op(p).do = "load"
    BY StartingFacts DEF Load, At, Op
<1>2. f \in Store \ {AdminKeys} /\ u = NoUser
    BY <1>1, StartFacts DEF File
<1>3. /\ MemOK(mem[p], keys)
      /\ UserOK(u, key[p], cwd[p], mem[p], keys)
    BY DEF IInv, LocalOK, Local
<1>4. UNCHANGED <<hostVars, keys, crashes>> /\ crashes' \in 0 .. MaxCrashes
    BY DEF Load, IInv, Shape
<1>5. CASE f \notin DOMAIN host
  <2>1. Write(f) \in Seq(StartStep(u))
    BY <1>2, StartWrite
  <2>2. Write(f) \o todo[p] \in Seq(StartStep(u))
    BY <1>1, <2>1, ConcatProperties DEF StartOK
  <2>3. /\ StepBy(p) /\ todo'[p] = Write(f) \o todo[p]
        /\ user' = user /\ key' = key /\ cwd' = cwd /\ mem' = mem /\ hold' = hold
    BY <1>5 DEF Load, StepBy, IInv, Shape
  <2>4. LocalOK(p)'
    <3>1. StartOK(todo'[p], u, mem[p], hold[p])
      BY <1>1, <1>2, <2>2, <2>3 DEF StartOK
    <3> QED
      BY <1>3, <1>4, <2>3, <3>1 DEF LocalOK, Local
  <2> QED
    BY <1>4, <2>3, <2>4, InvariantOfQuietStep
<1>6. CASE f \in DOMAIN host /\ ReadPlain(f) \in {Empty, Garbled}
    BY <1>4, <1>6, InvariantOfGone DEF Load
<1>7. CASE f \in DOMAIN host /\ ReadPlain(f) \notin {Empty, Garbled}
  <2>1. host[f].text \notin {Empty, Garbled}
    BY <1>7 DEF ReadPlain
  <2>2. StoreOK(f, host[f].text, keys)
    BY <1>2, <1>7, <2>1, LoadedStore
  <2>3. /\ StepBy(p) /\ todo'[p] = Tail(todo[p])
        /\ user' = user /\ key' = key /\ cwd' = cwd /\ hold' = hold
        /\ mem'[p] = [mem[p] EXCEPT ![f] = host[f].text]
    BY <1>7 DEF Load, Memory, Done, StepBy, IInv, Shape
  <2>4. MemOK(mem'[p], keys)
    BY <1>3, <2>2, <2>3 DEF MemOK
  <2>5. UserOK(u, key[p], cwd[p], mem'[p], keys)
    BY <1>2, <1>3 DEF UserOK
  <2>6. StartOK(todo'[p], u, mem'[p], hold[p])
    <3>1. mem'[p][AdminKeys] = mem[p][AdminKeys]
      BY <1>2, <1>3, <2>3, FileKinds DEF MemOK, Store
    <3> QED
      BY <1>1, <2>3, <3>1 DEF StartOK
  <2>7. LocalOK(p)'
    BY <1>4, <2>3, <2>4, <2>5, <2>6 DEF LocalOK, Local
  <2> QED
    BY <1>4, <2>3, <2>7, InvariantOfQuietStep
<1> QED
    BY <1>5, <1>6, <1>7

\* A key pair is generated.
LEMMA AppendedKeys ==
    ASSUME IInv, NEW u \in User, keys' = Append(keys, u)
    PROVE  /\ Extends(keys, keys') /\ keys' \in Seq(User)
           /\ Len(keys') \in 1 .. Len(keys') /\ keys'[Len(keys')] = u
<1>1. keys \in Seq(User) /\ Len(keys) \in Nat
    BY LenProperties DEF IInv, Shape
<1>2. /\ keys' \in Seq(User) /\ Len(keys') = Len(keys) + 1
      /\ \A i \in 1 .. Len(keys) : keys'[i] = keys[i]
      /\ keys'[Len(keys) + 1] = u
    BY <1>1, AppendProperties
<1> QED
    BY <1>1, <1>2 DEF Extends

LEMMA HostKept ==
    ASSUME IInv, Extends(keys, keys'), UNCHANGED hostVars
    PROVE  /\ HostOK' /\ tree' \subseteq UserDir \cup {Root}
           /\ DOMAIN host \cap KeyPairFile \subseteq DOMAIN host'
<1>1. \A f \in DOMAIN host : FileOK(f, host[f], keys', tree)
    BY FileKept DEF IInv, HostOK
<1> QED
    BY <1>1 DEF HostOK, IInv, Shape, hostVars

\* A handler is entered that generates a key pair, or does not.
LEMMA InvariantOfEntering ==
    ASSUME IInv, NEW p \in Proc, NEW t,
           todo' = [todo EXCEPT ![p] = t], Extends(keys, keys'),
           UNCHANGED <<hostVars, crashes, user, key, cwd, mem>>,
           DOMAIN hold' = Proc, \A q \in Proc \ {p} : hold'[q] = hold[q],
           hold'[p] # Empty => Resealing(t),
           Handler(t, mem[p][FileMappings].dirs, DOMAIN host, keys'),
           user[p] = NoUser => Unattended(t, keys')
    PROVE  IInv'
<1>1. StepBy(p) /\ todo'[p] = t
    BY DEF StepBy, IInv, Shape
<1>2. /\ MemOK(mem[p], keys')
      /\ UserOK(user[p], key[p], cwd[p], mem[p], keys')
  <2>1. Local(user[p], key[p], cwd[p], mem[p], hold[p], todo[p], keys, DOMAIN host)
    BY DEF IInv, LocalOK
  <2>2. Local(user[p], key[p], cwd[p], mem[p], hold[p], todo[p], keys', DOMAIN host)
    BY <2>1, LocalKept
  <2> QED
    BY <2>2 DEF Local
<1>3. HandleOK(t, mem[p], hold'[p], keys', DOMAIN host)
    BY HandlerHandles
<1>4. LocalOK(p)'
    BY <1>1, <1>2, <1>3 DEF LocalOK, Local, hostVars
<1>5. crashes' \in 0 .. MaxCrashes
    BY DEF IInv, Shape
<1> QED
    BY <1>1, <1>4, <1>5, HostKept, InvariantOfStep

LEMMA SeqOfOne == \A S, x : x \in S => <<x>> \in Seq(S)
    OBVIOUS

\* A handler that takes a process to its end.
LEMMA TameHandlers ==
    ASSUME NEW ks
    PROVE  /\ \A isAdminMode \in BOOLEAN :
                  Unattended(Destroy(isAdminMode), ks)
           /\ \A u \in User, k \in 1 .. Len(ks) :
                  ks[k] = u => createUser(u, k) \in Seq({s \in AnyStep(ks) : Tame(s)})
<1> DEFINE S == {s \in AnyStep(ks) : Tame(s)}
<1>0. \A s, t : s \in Seq(S) /\ t \in Seq(S) => s \o t \in Seq(S)
    BY ConcatProperties
<1>1. \A f \in Store \cup TreeFile : Write(f) \in Seq(S)
  <2> SUFFICES ASSUME NEW f \in Store \cup TreeFile
               PROVE  Write(f) \in Seq(S)
    OBVIOUS
  <2> DEFINE x == Opening(f, On("put", f))
  <2>1. x \in AnyStep(ks) /\ Tame(x)
    BY WriteSteps DEF AnyStep, Tame, Opening
  <2> HIDE DEF x
  <2>2. <<x>> \in Seq(S)
    BY <2>1
  <2> QED
    BY <2>2 DEF Write, x
<1>2. Secure(AdminKeys, Admin, "persist") \in Seq(S)
  <2> DEFINE x == [do |-> "read", file |-> AdminKeys, for |-> Admin, catcher |-> "persist"]
  <2>1. x \in AnyStep(ks)
    BY WriteSteps, OwnerFacts DEF AnyStep, Catcher
  <2>2. Tame(x)
    BY DEF Tame
  <2> HIDE DEF x
  <2>3. <<x>> \in Seq(S)
    BY <2>1, <2>2
  <2> QED
    BY <2>3 DEF Secure, x
<1>3. \A do \in {"learn", "register dir", "establish", "quit"} : \A f :
          On(do, f) \in AnyStep(ks) => <<On(do, f)>> \in Seq(S)
  <2> SUFFICES ASSUME NEW do \in {"learn", "register dir", "establish", "quit"}, NEW f,
                      On(do, f) \in AnyStep(ks)
               PROVE  <<On(do, f)>> \in Seq(S)
    OBVIOUS
  <2> DEFINE x == On(do, f)
  <2>1. x \in S
    BY DEF Tame, On
  <2> HIDE DEF x, S
  <2> QED
    BY <2>1, SeqOfOne DEF x
<1>4. \A b \in BOOLEAN : PersistUsers(b) \in Seq(S) /\ PersistAll(b) \in Seq(S)
  <2> SUFFICES ASSUME NEW b \in BOOLEAN
               PROVE  PersistUsers(b) \in Seq(S) /\ PersistAll(b) \in Seq(S)
    OBVIOUS
  <2>1. /\ Write(UserInfo) \in Seq(S) /\ Write(FileMappings) \in Seq(S)
        /\ Write(SharedInfo) \in Seq(S) /\ Write(AdminKeys) \in Seq(S)
    BY <1>1 DEF Store
  <2>2. Write(AdminKeys) \o Secure(AdminKeys, Admin, "persist") \in Seq(S)
    BY <1>0, <1>2, <2>1
  <2>3. <<>> \in Seq(S)
    BY EmptySeq
  <2> HIDE DEF S
  <2>4. PersistUsers(b) \in Seq(S)
    <3>1. CASE b
      BY <1>0, <2>1, <2>2, <3>1 DEF PersistUsers
    <3>2. CASE ~b
      BY <1>0, <2>1, <2>3, <3>2 DEF PersistUsers
    <3> QED
      BY <3>1, <3>2
  <2>5. Write(FileMappings) \o PersistUsers(b) \in Seq(S)
    BY <1>0, <2>1, <2>4
  <2>6. PersistAll(b) \in Seq(S)
    BY <1>0, <2>1, <2>5 DEF PersistAll
  <2> QED
    BY <2>4, <2>6
<1>5. \A b \in BOOLEAN : Unattended(Destroy(b), ks)
  <2> SUFFICES ASSUME NEW b \in BOOLEAN
               PROVE  Unattended(Destroy(b), ks)
    OBVIOUS
  <2> DEFINE x == On("quit", Root)
             s == PersistAll(b) \o Write(SharedInfo)
             t == s \o PersistUsers(b)
             v == t \o Write(FileMappings)
             w == v \o <<x>>
  <2>1. Write(SharedInfo) \in Seq(S) /\ Write(FileMappings) \in Seq(S)
    BY <1>1 DEF Store
  <2>2. <<x>> \in Seq(S) /\ Len(<<x>>) = 1 /\ <<x>>[1].do = "quit"
    <3>1. <<x>> \in Seq(S)
      BY <1>3, QueuedFacts DEF AnyStep
    <3> QED
      BY <3>1 DEF On
  <2>3. Destroy(b) = w
    BY DEF Destroy
  <2> HIDE DEF S, x
  <2>4. s \in Seq(S)
    BY <1>0, <1>4, <2>1
  <2> HIDE DEF s
  <2>5. t \in Seq(S)
    BY <1>0, <1>4, <2>4
  <2> HIDE DEF t
  <2>6. v \in Seq(S)
    BY <1>0, <2>1, <2>5
  <2> HIDE DEF v
  <2>7. /\ Len(v) \in Nat /\ w \in Seq(S) /\ Len(w) = Len(v) + 1
        /\ w[Len(v) + 1] = <<x>>[1]
    BY <2>2, <2>6, ConcatProperties, LenProperties
  <2> HIDE DEF w
  <2>8. Len(v) + 1 \in DOMAIN w
    BY <2>7, LenProperties
  <2>9. Unattended(w, ks)
    BY <2>2, <2>7, <2>8 DEF Unattended, S
  <2> QED
    BY <2>3, <2>9
<1>6. ASSUME NEW u \in User, NEW k \in 1 .. Len(ks), ks[k] = u
      PROVE  createUser(u, k) \in Seq(S)
  <2> DEFINE a == createKeyPair(u, k)
             b == <<On("learn", PublicFile(u))>>
             c == registerDirectory(Home(u))
             d == registerDirectory(PersonalDir(u))
             e == registerDirectory(SharedDir(u))
             f == <<On("learn", KeyFile(u))>>
             g == PersistAll(TRUE)
             h == <<On("establish", Home(u)), On("establish", PersonalDir(u)),
                    On("establish", SharedDir(u))>>
  <2>2. a \in Seq(S)
    <3> DEFINE x == Opening(KeyFile(u), Opening(PublicFile(u), PutKeyTo(KeyFile(u), k)))
    <3>1. x \in QueuedStep(ks) /\ a = <<x>>
      BY <1>6, KeyPairSteps
    <3>2. x.do = "open"
      BY DEF Opening
    <3> HIDE DEF x, a
    <3>3. x \in S
      BY <3>1, <3>2 DEF AnyStep, Tame
    <3> HIDE DEF S
    <3> QED
      BY <3>1, <3>3, SeqOfOne
  <2>3. b \in Seq(S) /\ f \in Seq(S)
    BY <1>3, QueuedFacts, HomeFacts DEF AnyStep
  <2>4. c \in Seq(S) /\ d \in Seq(S) /\ e \in Seq(S)
    BY <1>3, QueuedFacts, HomeFacts DEF AnyStep, registerDirectory
  <2>5. g \in Seq(S)
    BY <1>4
  <2>6. h \in Seq(S)
    <3> DEFINE x == On("establish", Home(u))
               y == On("establish", PersonalDir(u))
               z == On("establish", SharedDir(u))
    <3>1. x \in S /\ y \in S /\ z \in S
      BY QueuedFacts, HomeFacts DEF AnyStep, Tame, On
    <3> HIDE DEF x, y, z, S
    <3>2. <<x, y, z>> \in Seq(S)
      BY <3>1
    <3> QED
      BY <3>2 DEF x, y, z
  <2>7. createUser(u, k) = a \o b \o c \o d \o e \o f \o g \o h
    BY DEF createUser
  <2> HIDE DEF a, b, c, d, e, f, g, h, S
  <2>8. a \o b \in Seq(S)
    BY <1>0, <2>2, <2>3
  <2>9. a \o b \o c \in Seq(S)
    BY <1>0, <2>4, <2>8
  <2>10. a \o b \o c \o d \in Seq(S)
    BY <1>0, <2>4, <2>9
  <2>11. a \o b \o c \o d \o e \in Seq(S)
    BY <1>0, <2>4, <2>10
  <2>12. a \o b \o c \o d \o e \o f \in Seq(S)
    BY <1>0, <2>3, <2>11
  <2>13. a \o b \o c \o d \o e \o f \o g \in Seq(S)
    BY <1>0, <2>5, <2>12
  <2>14. a \o b \o c \o d \o e \o f \o g \o h \in Seq(S)
    BY <1>0, <2>6, <2>13
  <2> QED
    BY <2>7, <2>14
<1> QED
    BY <1>5, <1>6

LEMMA FirstRunKeeps ==
    ASSUME IInv, NEW p \in Proc, FirstRun(p)
    PROVE  IInv'
<1> DEFINE t == createUser(Admin, Len(keys')) \o Destroy(TRUE)
           D == mem[p][FileMappings].dirs
           W == DOMAIN host
<1>1. /\ keys' = Append(keys, Admin)
      /\ UNCHANGED <<hostVars, crashes, user, key, cwd, mem, hold>>
      /\ todo' = [todo EXCEPT ![p] = t]
    BY DEF FirstRun
<1>2. /\ Extends(keys, keys') /\ Len(keys') \in 1 .. Len(keys') /\ keys'[Len(keys')] = Admin
    BY <1>1, UserAssumption, AppendedKeys
<1>3. hold[p] = Empty
    BY StartingFacts DEF FirstRun, StartOK
<1>4. Handler(t, D, W, keys')
  <2>1. Handler(createUser(Admin, Len(keys')), D, W, keys')
    BY <1>2, UserAssumption, createUserHandler
  <2>2. \A D2, W2 : Handler(Destroy(TRUE), D2, W2, keys')
    BY DestroyHandler
  <2> QED
    BY <2>1, <2>2, HandlersInTurn
<1>5. Unattended(t, keys')
  <2> DEFINE S == {s \in AnyStep(keys') : Tame(s)}
             a == createUser(Admin, Len(keys'))
             b == Destroy(TRUE)
  <2>1. a \in Seq(S)
    BY <1>2, UserAssumption, TameHandlers
  <2>2. Unattended(b, keys')
    BY TameHandlers
  <2>3. PICK i \in DOMAIN b : b[i].do = "quit"
    BY <2>2 DEF Unattended
  <2>4. b \in Seq(S)
    BY <2>2 DEF Unattended
  <2> HIDE DEF a, b, S
  <2>5. i \in 1 .. Len(b) /\ Len(a) \in Nat /\ Len(b) \in Nat
    BY <2>1, <2>3, <2>4, LenProperties
  <2>6. a \o b \in Seq(S) /\ Len(a) + i \in DOMAIN (a \o b) /\ (a \o b)[Len(a) + i] = b[i]
    BY <2>1, <2>4, <2>5, ConcatProperties, LenProperties
  <2> QED
    BY <2>3, <2>6 DEF Unattended, a, b, S
<1> HIDE DEF t
<1>6. DOMAIN hold' = Proc /\ hold' = hold
    BY <1>1 DEF IInv, Shape
<1> QED
    BY <1>1, <1>2, <1>3, <1>4, <1>5, <1>6, InvariantOfEntering

LEMMA RefuseKeeps ==
    ASSUME IInv, NEW p \in Proc, Refuse(p)
    PROVE  IInv'
<1> DEFINE t == Destroy(FALSE)
<1>1. /\ UNCHANGED <<hostVars, crashes, user, key, cwd, mem, hold>> /\ keys' = keys
      /\ todo' = [todo EXCEPT ![p] = t]
    BY DEF Refuse
<1>2. hold[p] = Empty
    BY StartingFacts DEF Refuse, StartOK
<1>3. Handler(t, mem[p][FileMappings].dirs, DOMAIN host, keys')
    BY DestroyHandler
<1>4. Unattended(t, keys')
    BY TameHandlers
<1> HIDE DEF t
<1>5. DOMAIN hold' = Proc /\ hold' = hold /\ Extends(keys, keys')
    BY <1>1, ExtendsItself DEF IInv, Shape
<1> QED
    BY <1>1, <1>2, <1>3, <1>4, <1>5, InvariantOfEntering

LEMMA LoginKeeps ==
    ASSUME IInv, NEW p \in Proc, Login(p)
    PROVE  IInv'
<1>1. StartOK(todo[p], user[p], mem[p], hold[p])
    BY StartingFacts DEF Login
<1>2. MemOK(mem[p], keys)
    BY DEF IInv, LocalOK, Local
<1>3. PICK u \in Fitting(p, File(p)) :
          /\ user' = [user EXCEPT ![p] = u]
          /\ cwd'  = [cwd EXCEPT ![p] = Home(u)]
          /\ todo' = [todo EXCEPT ![p] =
                         IF u = Admin THEN <<On("unlock", AdminKeys)>> ELSE <<>>]
    BY DEF Login
<1>4. u \in User /\ host[File(p)].text \in 1 .. Len(keys)
  <2>1. KeyTableOK(mem[p][UserInfo], keys)
    BY <1>2 DEF MemOK, StoreOK, Store
  <2> QED
    BY <1>3, <2>1 DEF Fitting, knownUsers, KeyTableOK
<1>5. /\ UNCHANGED <<hostVars, keys, crashes, mem, hold>>
      /\ key' = [key EXCEPT ![p] = host[File(p)].text]
    BY DEF Login
<1>6. /\ StepBy(p) /\ user'[p] = u /\ key'[p] = host[File(p)].text /\ cwd'[p] = Home(u)
      /\ todo'[p] = IF u = Admin THEN <<On("unlock", AdminKeys)>> ELSE <<>>
    BY <1>3, <1>5 DEF StepBy, IInv, Shape
<1>7. UserOK(u, key'[p], Home(u), mem[p], keys)
  <2>1. 1 .. Len(keys) \subseteq 0 .. Len(keys) /\ Home(u) \in Path /\ u # NoUser
    BY <1>4, HomePaths, UserAssumption, LenProperties DEF HomeDirs, IInv, Shape
  <2> QED
    BY <1>4, <1>6, <2>1 DEF UserOK
<1>8. StartOK(todo'[p], u, mem[p], hold[p])
  <2>1. On("unlock", AdminKeys) \in StartStep(u)
    BY <1>4, UserAssumption DEF On, StartStep
  <2>2. /\ <<On("unlock", AdminKeys)>> \in Seq(StartStep(u))
        /\ Len(<<On("unlock", AdminKeys)>>) = 1
        /\ <<>> \in Seq(StartStep(u)) /\ Len(<<>>) = 0
    BY <2>1, EmptySeq
  <2> QED
    BY <1>1, <1>6, <2>2 DEF StartOK
<1>9. LocalOK(p)'
    BY <1>2, <1>5, <1>6, <1>7, <1>8 DEF LocalOK, Local
<1> QED
    BY <1>5, <1>6, <1>9, InvariantOfQuietStep DEF IInv, Shape

LEMMA UnlockKeeps ==
    ASSUME IInv, NEW p \in Proc, Unlock(p)
    PROVE  IInv'
<1> DEFINE u == user[p]
<1>1. /\ StartOK(todo[p], u, mem[p], hold[p])
      /\ Op(p) \in StartStep(u) /\ Op(p).do = "unlock"
      /\ todo[p] # <<>>
    BY StartingFacts DEF Unlock, At, Op
<1>7. u # NoUser /\ Tail(todo[p]) = <<>>
  <2> DEFINE t == todo[p]
  <2>1. u # NoUser
    BY <1>1, StartFacts
  <2>2. t \in Seq(StartStep(u)) /\ t # <<>> /\ Len(t) <= 1
    BY <1>1, <2>1 DEF StartOK
  <2> HIDE DEF t
  <2>3. Len(t) \in Nat \ {0} /\ Tail(t) \in Seq(StartStep(u)) /\ Len(Tail(t)) = Len(t) - 1
    BY <2>2, UnconsFacts
  <2>4. Len(Tail(t)) = 0
    BY <2>2, <2>3
  <2> QED
    BY <2>1, <2>3, <2>4, EmptySeq DEF t
<1>2. /\ MemOK(mem[p], keys) /\ UserOK(u, key[p], cwd[p], mem[p], keys)
    BY DEF IInv, LocalOK, Local
<1>3. UNCHANGED <<hostVars, keys, crashes>> /\ crashes' \in 0 .. MaxCrashes
    BY DEF Unlock, IInv, Shape
<1>4. CASE AdminKeys \notin DOMAIN host
  <2>1. /\ Write(AdminKeys) \o Tail(todo[p]) = Write(AdminKeys)
        /\ Write(AdminKeys) \in Seq(StartStep(u)) /\ Len(Write(AdminKeys)) = 1
    BY <1>7, StartWrite, ConcatEmptySeq DEF Store, Write
  <2>2. /\ StepBy(p) /\ todo'[p] = Write(AdminKeys) \o Tail(todo[p])
        /\ user' = user /\ key' = key /\ cwd' = cwd /\ mem' = mem /\ hold' = hold
    BY <1>4 DEF Unlock, Expand, StepBy, IInv, Shape
  <2>3. StartOK(todo'[p], u, mem[p], hold[p])
    <3>1. /\ todo'[p] \in Seq(StartStep(u)) /\ Len(todo'[p]) = 1
          /\ hold[p] = Empty /\ mem[p][AdminKeys] = <<>>
      BY <1>1, <2>1, <2>2 DEF StartOK
    <3> HIDE DEF u
    <3> QED
      BY <3>1 DEF StartOK
  <2>4. LocalOK(p)'
    BY <1>2, <1>3, <2>2, <2>3 DEF LocalOK, Local
  <2> QED
    BY <1>3, <2>2, <2>4, InvariantOfQuietStep
<1>5. CASE /\ AdminKeys \in DOMAIN host
           /\ ~(Opens(AdminKeys, key[p]) /\ host[AdminKeys].text \notin {Empty, Garbled})
  <2>1. Gone(p)
    BY <1>5 DEF Unlock
  <2> QED
    BY <1>3, <2>1, InvariantOfGone
<1>6. CASE /\ AdminKeys \in DOMAIN host /\ Opens(AdminKeys, key[p])
           /\ host[AdminKeys].text \notin {Empty, Garbled}
  <2>1. StoreOK(AdminKeys, host[AdminKeys].text, keys)
    BY <1>6, LoadedStore DEF Store
  <2>2. /\ StepBy(p) /\ todo'[p] = Tail(todo[p])
        /\ user' = user /\ key' = key /\ cwd' = cwd /\ hold' = hold
        /\ mem'[p] = [mem[p] EXCEPT ![AdminKeys] = host[AdminKeys].text]
    BY <1>6 DEF Unlock, Done, Memory, StepBy, IInv, Shape
  <2>3. MemOK(mem'[p], keys)
    BY <1>2, <2>1, <2>2 DEF MemOK
  <2>4. mem'[p][FileMappings] = mem[p][FileMappings]
    BY <1>2, <2>2, FileKinds DEF MemOK, Store
  <2>5. UserOK(u, key[p], cwd[p], mem'[p], keys)
    BY <1>2, <2>4 DEF UserOK
  <2>6. HandleOK(<<>>, mem'[p], hold[p], keys, DOMAIN host)
    BY <1>1, HandlerOfNone, HandlerHandles DEF StartOK
  <2>7. LocalOK(p)'
    BY <1>7, <1>3, <2>2, <2>3, <2>5, <2>6 DEF LocalOK, Local, hostVars
  <2> QED
    BY <1>3, <2>2, <2>7, InvariantOfQuietStep
<1> QED
    BY <1>4, <1>5, <1>6

-----------------------------------------------------------------------------
(* Steps on files and memory *)

\* The first step of a handler has been taken.
LEMMA HandlerWentOn ==
    ASSUME IInv, NEW p \in Proc, todo[p] # <<>>,
           HandleOK(todo[p], mem[p], hold[p], keys, DOMAIN host),
           user[p] = NoUser => Unattended(todo[p], keys), Op(p).do # "quit",
           NEW m, NEW h, NEW W,
           MemOK(m, keys), UserOK(user[p], key[p], cwd[p], m, keys),
           mem[p][FileMappings].dirs \cup RegisteredBy(Op(p)) \subseteq m[FileMappings].dirs,
           (DOMAIN host \cup WrittenBy(Op(p))) \cap KeyPairFile \subseteq W,
           h # Empty => Resealing(Tail(todo[p]))
    PROVE  Local(user[p], key[p], cwd[p], m, h, Tail(todo[p]), keys, W)
<1> DEFINE t == todo[p]
           D == mem[p][FileMappings].dirs \cup RegisteredBy(Head(t))
           W1 == DOMAIN host \cup WrittenBy(Head(t))
<1>1. Handler(Tail(t), D, W1, keys)
    BY DEF HandleOK
<1>2. Handler(Tail(t), m[FileMappings].dirs, W, keys)
    BY <1>1, ExtendsItself, HandlerKept DEF Op
<1>3. HandleOK(Tail(t), m, h, keys, W)
    BY <1>2, HandlerHandles
<1>4. user[p] = NoUser => Unattended(Tail(t), keys)
    BY UnattendedRest DEF Op
<1> QED
    BY <1>3, <1>4 DEF Local

\* The first step of a handler is followed by another.
LEMMA HandlerGoesOn ==
    ASSUME IInv, NEW p \in Proc, todo[p] # <<>>,
           HandleOK(todo[p], mem[p], hold[p], keys, DOMAIN host),
           user[p] = NoUser => Unattended(todo[p], keys), Op(p).do # "quit",
           NEW m, NEW h, NEW W, NEW x \in AnyStep(keys),
           MemOK(m, keys), UserOK(user[p], key[p], cwd[p], m, keys),
           mem[p][FileMappings].dirs \cup RegisteredBy(Op(p)) \subseteq m[FileMappings].dirs,
           (DOMAIN host \cup WrittenBy(Op(p))) \cap KeyPairFile
               \subseteq W \cup WrittenBy(x),
           Ready(x, Tail(todo[p]), m[FileMappings].dirs, W), Tame(x),
           SealOK(x, m, h, keys),
           h # Empty => Reseals(x) \/ Resealing(Tail(todo[p]))
    PROVE  Local(user[p], key[p], cwd[p], m, h, <<x>> \o Tail(todo[p]), keys, W)
<1> DEFINE t == todo[p]
           D == mem[p][FileMappings].dirs \cup RegisteredBy(Head(t))
           W1 == DOMAIN host \cup WrittenBy(Head(t))
<1>1. Handler(Tail(t), D, W1, keys)
    BY DEF HandleOK
<1>2. Handler(Tail(t), m[FileMappings].dirs \cup RegisteredBy(x),
              W \cup WrittenBy(x), keys)
    BY <1>1, ExtendsItself, HandlerKept DEF Op
<1>3. HandleOK(<<x>> \o Tail(t), m, h, keys, W)
    BY <1>2, ReplacedHandles
<1>4. user[p] = NoUser => Unattended(<<x>> \o Tail(t), keys)
    BY UnattendedRest DEF Op
<1> QED
    BY <1>3, <1>4 DEF Local

\* What the invariant says of a process, part by part.
LEMMA ProcessFacts ==
    ASSUME IInv, NEW p \in Proc
    PROVE  /\ MemOK(mem[p], keys)
           /\ UserOK(user[p], key[p], cwd[p], mem[p], keys)
           /\ MappingsOK(mem[p][FileMappings])
           /\ knownUsers(p) \in SUBSET User
           /\ KeyTableOK(mem[p][UserInfo], keys)
           /\ \A u : /\ publicKey(p, u) \in 0 .. Len(keys) \cup {Empty, Garbled}
                     /\ publicKey(p, u) \in KeyFor(u, keys)
<1>1. /\ MemOK(mem[p], keys)
      /\ UserOK(user[p], key[p], cwd[p], mem[p], keys)
    BY DEF IInv, LocalOK, Local
<1>2. /\ MappingsOK(mem[p][FileMappings]) /\ KeyTableOK(mem[p][UserInfo], keys)
      /\ DOMAIN mem[p] = Store
    BY <1>1 DEF MemOK, StoreOK, Store
<1>3. knownUsers(p) \in SUBSET User
    BY <1>2 DEF KeyTableOK, knownUsers
<1> SUFFICES ASSUME NEW u
             PROVE  /\ publicKey(p, u) \in 0 .. Len(keys) \cup {Empty, Garbled}
                    /\ publicKey(p, u) \in KeyFor(u, keys)
    BY <1>1, <1>2, <1>3
<1>4. CASE u \in knownUsers(p)
    BY <1>2, <1>4 DEF KeyTableOK, knownUsers, publicKey
<1>5. CASE u \notin knownUsers(p)
  <2>1. publicKey(p, u) = 0 /\ 0 \in 0 .. Len(keys)
    BY <1>5, LenProperties DEF publicKey, NoKey, Plain, IInv, Shape
  <2> QED
    BY <2>1 DEF KeyFor, NoKey, Plain
<1> QED
    BY <1>4, <1>5

LEMMA BlankOK ==
    ASSUME IInv, NEW f \in HostFile, Openable(f)
    PROVE  FileOK(f, Blank, keys, tree)
<1>1. Blank.key = 0 /\ Blank.text = Empty
    BY DEF Blank, Plaintext, Plain
<1>2. 0 \in 0 .. Len(keys)
    BY LenProperties DEF IInv, Shape
<1> QED
    BY <1>1, <1>2 DEF FileOK, Openable, TextOK, Plain

\* A file that is no user's can be opened.
LEMMA HostFilesOpen ==
    ASSUME IInv, NEW f \in Store \cup KeyPairFile
    PROVE  Openable(f) /\ f \in HostFile
    BY FileKinds DEF Openable, IInv, Shape

\* A mixture is garbled, and has the key of what was written or none.
LEMMA MixtureFacts ==
    \A old, new : /\ Mixture(old, new).text = Garbled
                  /\ Mixture(old, new).key \in {0, new.key}
<1> SUFFICES ASSUME NEW old, NEW new
             PROVE  /\ Mixture(old, new).text = Garbled
                    /\ Mixture(old, new).key \in {0, new.key}
    OBVIOUS
<1>1. Mixed.key = 0 /\ Mixed.text = Garbled
    BY DEF Mixed, Plaintext, Plain
<1> QED
    BY <1>1 DEF Mixture

\* Text that is written leaves a file that is in order.
LEMMA OverwrittenOK ==
    ASSUME IInv, NEW f \in DOMAIN host, NEW content,
           content.key \in 0 .. Len(keys),
           content.key # Plain => f \in Sensitive /\ keys[content.key] = Owner(f),
           TextOK(f, content.text, keys),
           NEW new \in Overwritten(host[f], content)
    PROVE  FileOK(f, new, keys, tree)
<1>1. FileOK(f, host[f], keys, tree)
    BY DEF IInv, HostOK
<1>2. FileOK(f, content, keys, tree)
    BY <1>1 DEF FileOK
<1>3. ASSUME NEW mixture, mixture.key \in {0, content.key}, mixture.text = Garbled
      PROVE  FileOK(f, mixture, keys, tree)
  <2>1. 0 \in 0 .. Len(keys)
    BY LenProperties DEF IInv, Shape
  <2> QED
    BY <1>1, <1>3, <2>1 DEF FileOK, TextOK, Plain
<1>4. new \in {host[f], content, Mixture(host[f], content)}
    BY DEF Overwritten
<1>5. CASE new = Mixture(host[f], content)
    BY <1>3, <1>5, MixtureFacts
<1> QED
    BY <1>1, <1>2, <1>4, <1>5

LEMMA InvariantOfOverwriting ==
    ASSUME IInv, NEW p \in Proc, StepBy(p), LocalOK(p)', UNCHANGED <<tree, keys, crashes>>,
           NEW f, NEW content,
           f \in DOMAIN host =>
               /\ content.key \in 0 .. Len(keys)
               /\ content.key # Plain => f \in Sensitive /\ keys[content.key] = Owner(f)
               /\ TextOK(f, content.text, keys),
           Overwrite(f, content)
    PROVE  IInv'
<1>1. CASE f \notin DOMAIN host
  <2>1. UNCHANGED <<hostVars, keys>> /\ crashes' \in 0 .. MaxCrashes
    BY <1>1 DEF Overwrite, hostVars, IInv, Shape
  <2> QED
    BY <2>1, InvariantOfQuietStep
<1>2. CASE f \in DOMAIN host
  <2>1. PICK new \in Overwritten(host[f], content) : host' = Set(f, new)
    BY <1>2 DEF Overwrite
  <2>2. FileOK(f, new, keys, tree)
    BY <1>2, OverwrittenOK
  <2> QED
    BY <2>1, <2>2, InvariantOfWriting
<1> QED
    BY <1>1, <1>2

LEMMA WrittenStays ==
    ASSUME NEW f, NEW content, Overwrite(f, content)
    PROVE  DOMAIN host' = DOMAIN host
    BY DEF Overwrite, Set

\* The step that opens a file is like the one that writes it.
LEMMA OpenedStep ==
    ASSUME NEW ks, NEW s \in AnyStep(ks), s.do = "open"
    PROVE  /\ s.write \in AnyStep(ks) /\ s.file \in HostFile
           /\ s.write.do \in {"open", "put", "put key", "seal"}
           /\ Puts(s.write) <=> Puts(s)
           /\ Seals(s.write) <=> Seals(s)
           /\ Reseals(s) => Reseals(s.write)
           /\ \A t, D, W : Ready(s, t, D, W) => Ready(s.write, t, D, W)
           /\ \A m, h : SealOK(s, m, h, ks) => SealOK(s.write, m, h, ks)
           /\ WrittenBy(s) = {s.file} \cup WrittenBy(s.write)
           /\ s.file \notin KeyPairFile => s.write.do \in {"put", "seal"}
<1>1. /\ s.file \in HostFile /\ s.write \in AnyStep(ks)
      /\ s.write.do \in {"open", "put", "put key", "seal"}
      /\ s.write.do \in {"put", "seal"} => s.file = s.write.file
      /\ s.write.do \in {"open", "put key"} => s.file \in KeyPairFile
      /\ s.write.do = "open" => s.write.write.do = "put key"
    BY OpenFacts
<1>2. /\ Puts(s.write) <=> Puts(s)
      /\ Seals(s.write) <=> Seals(s)
      /\ Reseals(s) => Reseals(s.write)
    BY <1>1 DEF Puts, Seals, Reseals
<1>3. (Puts(s) \/ Seals(s)) => s.file = s.write.file
    BY <1>1 DEF Puts, Seals
<1>4. \A t, D, W : Ready(s, t, D, W) => Ready(s.write, t, D, W)
    BY <1>1, <1>2, <1>3 DEF Ready
<1>5. \A m, h : SealOK(s, m, h, ks) => SealOK(s.write, m, h, ks)
    BY <1>2, <1>3 DEF SealOK
<1>6. WrittenBy(s) = {s.file} \cup WrittenBy(s.write)
    BY <1>1 DEF WrittenBy
<1> QED
    BY <1>1, <1>2, <1>4, <1>5, <1>6

LEMMA OpenKeeps ==
    ASSUME IInv, NEW p \in Proc, Open(p)
    PROVE  IInv'
<1> DEFINE f == File(p)
           u == user[p]
           s == Op(p)
           r == Tail(todo[p])
<1>1. s.do = "open" /\ todo[p] # <<>> /\ UNCHANGED <<tree, keys, crashes, user, key, cwd, mem>>
    BY DEF Open, At, Op
<1>2. MemOK(mem[p], keys) /\ UserOK(u, key[p], cwd[p], mem[p], keys)
    BY ProcessFacts
<1>3. ASSUME Openable(f)
      PROVE  /\ StepBy(p) /\ host' = Set(f, Blank) /\ hold' = hold
             /\ todo'[p] = <<s.write>> \o r
             /\ DOMAIN host' = DOMAIN host \cup {f}
    BY <1>1, <1>3 DEF Open, Expand, StepBy, IInv, Shape, Set
<1>4. ASSUME ~Openable(f)
      PROVE  /\ StepBy(p) /\ host' = host /\ hold'[p] = Empty /\ todo'[p] = r
    BY <1>1, <1>4 DEF Open, Done, Hold, StepBy, IInv, Shape
<1>5. CASE StartOK(todo[p], u, mem[p], hold[p])
  <2>1. s \in StartStep(u) /\ r \in Seq(StartStep(u)) /\ Len(todo[p]) = Len(r) + 1
    <3>1. /\ Head(todo[p]) \in StartStep(u) /\ Tail(todo[p]) \in Seq(StartStep(u))
          /\ Len(todo[p]) \in Nat /\ Len(Tail(todo[p])) = Len(todo[p]) - 1
      BY <1>1, <1>5, UnconsFacts DEF StartOK
    <3> QED
      BY <3>1 DEF Op
  <2>2. f \in Store /\ s.write \in StartStep(u)
    BY <1>1, <2>1, StartFacts DEF File
  <2>3. Openable(f) /\ f \in HostFile
    BY <2>2, HostFilesOpen
  <2>4. <<s.write>> \o r \in Seq(StartStep(u)) /\ Len(<<s.write>> \o r) = Len(r) + 1
    BY <2>1, <2>2, ConsFacts
  <2>5. StartOK(todo'[p], u, mem[p], hold[p])
    BY <1>3, <1>5, <2>1, <2>3, <2>4 DEF StartOK
  <2>6. LocalOK(p)'
    BY <1>1, <1>2, <1>3, <2>3, <2>5 DEF LocalOK, Local
  <2> QED
    BY <1>1, <1>3, <2>3, <2>6, BlankOK, InvariantOfWriting
<1>6. CASE /\ HandleOK(todo[p], mem[p], hold[p], keys, DOMAIN host)
           /\ u = NoUser => Unattended(todo[p], keys)
  <2>1. /\ s \in AnyStep(keys) /\ r \in Seq(QueuedStep(keys))
        /\ Ready(s, r, mem[p][FileMappings].dirs, DOMAIN host)
        /\ hold[p] # Empty => Reseals(s) \/ Resealing(r)
        /\ SealOK(s, mem[p], hold[p], keys)
    BY <1>1, <1>6, UnconsFacts DEF HandleOK, Handler, Op
  <2>2. /\ s.write \in AnyStep(keys) /\ s.write.do \in {"open", "put", "put key", "seal"}
        /\ f \in HostFile /\ WrittenBy(s) = {f} \cup WrittenBy(s.write)
        /\ f \notin KeyPairFile => s.write.do \in {"put", "seal"}
        /\ Ready(s.write, r, mem[p][FileMappings].dirs, DOMAIN host)
        /\ SealOK(s.write, mem[p], hold[p], keys)
        /\ hold[p] # Empty => Reseals(s.write) \/ Resealing(r)
    BY <1>1, <2>1, OpenedStep DEF File
  <2>3. CASE Openable(f)
    <3>1. Ready(s.write, r, mem[p][FileMappings].dirs, DOMAIN host') /\ Tame(s.write)
      BY <2>2 DEF Ready, Tame
    <3>2. mem[p][FileMappings].dirs \cup RegisteredBy(s) \subseteq mem[p][FileMappings].dirs
      BY <1>1 DEF RegisteredBy
    <3>3. (DOMAIN host \cup WrittenBy(s)) \cap KeyPairFile
              \subseteq DOMAIN host' \cup WrittenBy(s.write)
      BY <1>3, <2>2, <2>3
    <3>4. Local(u, key[p], cwd[p], mem[p], hold[p], <<s.write>> \o r, keys, DOMAIN host')
      BY <1>1, <1>2, <1>6, <2>2, <3>1, <3>2, <3>3, HandlerGoesOn
    <3>5. LocalOK(p)'
      BY <1>1, <1>3, <2>3, <3>4 DEF LocalOK
    <3> QED
      BY <1>1, <1>3, <2>2, <2>3, <3>5, BlankOK, InvariantOfWriting
  <2>4. CASE ~Openable(f)
    <3>1. mem[p][FileMappings].dirs \cup RegisteredBy(s) \subseteq mem[p][FileMappings].dirs
      BY <1>1 DEF RegisteredBy
    <3>2. (DOMAIN host \cup WrittenBy(s)) \cap KeyPairFile \subseteq DOMAIN host
      BY <2>2, <2>4, HostFilesOpen DEF WrittenBy
    <3>3. Local(u, key[p], cwd[p], mem[p], Empty, r, keys, DOMAIN host)
      BY <1>1, <1>2, <1>6, <3>1, <3>2, HandlerWentOn
    <3>4. LocalOK(p)'
      BY <1>1, <1>4, <2>4, <3>3 DEF LocalOK
    <3> QED
      BY <1>1, <1>4, <2>4, <3>4, InvariantOfQuietStep DEF IInv, Shape, hostVars
  <2> QED
    BY <2>3, <2>4
<1> QED
    BY <1>5, <1>6 DEF IInv, LocalOK, Local

\* What the invariant says of the step a handler is at.
LEMMA CurrentStep ==
    ASSUME IInv, NEW p \in Proc, todo[p] # <<>>,
           HandleOK(todo[p], mem[p], hold[p], keys, DOMAIN host)
    PROVE  /\ Op(p) \in AnyStep(keys) /\ Tail(todo[p]) \in Seq(QueuedStep(keys))
           /\ Ready(Op(p), Tail(todo[p]), mem[p][FileMappings].dirs, DOMAIN host)
           /\ SealOK(Op(p), mem[p], hold[p], keys)
           /\ hold[p] # Empty => Reseals(Op(p)) \/ Resealing(Tail(todo[p]))
    BY UnconsFacts DEF HandleOK, Handler, Op

LEMMA PutKeeps ==
    ASSUME IInv, NEW p \in Proc, Put(p)
    PROVE  IInv'
<1> DEFINE f == File(p)
           u == user[p]
           s == Op(p)
           r == Tail(todo[p])
           text == IF f \in Store THEN mem[p][f] ELSE hold[p]
           content == Plaintext(text)
<1>1. /\ s.do = "put" /\ todo[p] # <<>>
      /\ UNCHANGED <<tree, keys, crashes, user, key, cwd, mem, hold>>
      /\ Overwrite(f, content) /\ StepBy(p) /\ todo'[p] = r
    BY DEF Put, At, Op, Done, StepBy, IInv, Shape
<1>2. MemOK(mem[p], keys) /\ UserOK(u, key[p], cwd[p], mem[p], keys)
    BY ProcessFacts
<1>3. content.key = 0 /\ content.text = text /\ 0 \in 0 .. Len(keys)
    BY LenProperties DEF Plaintext, Plain, IInv, Shape
<1>4. f \in Store \cup TreeFile => TextOK(f, text, keys)
    BY <1>2 DEF TextOK, MemOK
<1>5. CASE StartOK(todo[p], u, mem[p], hold[p])
  <2>1. s \in StartStep(u) /\ r \in Seq(StartStep(u)) /\ Len(todo[p]) = Len(r) + 1
        /\ Len(r) \in Nat
    <3>1. /\ Head(todo[p]) \in StartStep(u) /\ Tail(todo[p]) \in Seq(StartStep(u))
          /\ Len(todo[p]) \in Nat \ {0} /\ Len(Tail(todo[p])) = Len(todo[p]) - 1
      BY <1>1, <1>5, UnconsFacts DEF StartOK
    <3> QED
      BY <3>1 DEF Op
  <2>2. f \in Store
    BY <1>1, <2>1, StartFacts DEF File
  <2>3. StartOK(todo'[p], u, mem[p], hold[p])
    BY <1>1, <1>5, <2>1 DEF StartOK
  <2>4. LocalOK(p)'
    BY <1>1, <1>2, <2>3 DEF LocalOK, Local
  <2> HIDE DEF content
  <2> QED
    BY <1>1, <1>3, <1>4, <2>2, <2>4, InvariantOfOverwriting DEF Plain
<1>6. CASE /\ HandleOK(todo[p], mem[p], hold[p], keys, DOMAIN host)
           /\ u = NoUser => Unattended(todo[p], keys)
  <2>1. /\ s \in AnyStep(keys)
        /\ hold[p] # Empty => Reseals(s) \/ Resealing(r)
    BY <1>1, <1>6, CurrentStep
  <2>2. f \in Store \cup TreeFile
    BY <1>1, <2>1, StepFacts DEF File
  <2>3. hold[p] # Empty => Resealing(r)
    BY <1>1, <2>1 DEF Reseals, Seals
  <2>4. /\ mem[p][FileMappings].dirs \cup RegisteredBy(s) \subseteq mem[p][FileMappings].dirs
        /\ (DOMAIN host \cup WrittenBy(s)) \cap KeyPairFile \subseteq DOMAIN host
    BY <1>1 DEF RegisteredBy, WrittenBy
  <2>5. Local(u, key[p], cwd[p], mem[p], hold[p], r, keys, DOMAIN host)
    BY <1>1, <1>2, <1>6, <2>3, <2>4, HandlerWentOn
  <2>6. DOMAIN host' = DOMAIN host
    BY <1>1, WrittenStays
  <2>7. LocalOK(p)'
    BY <1>1, <2>5, <2>6 DEF LocalOK
  <2> HIDE DEF content
  <2> QED
    BY <1>1, <1>3, <1>4, <2>2, <2>7, InvariantOfOverwriting DEF Plain
<1> QED
    BY <1>5, <1>6 DEF IInv, LocalOK, Local

LEMMA PutKeyKeeps ==
    ASSUME IInv, NEW p \in Proc, PutKey(p)
    PROVE  IInv'
<1> DEFINE f == File(p)
           s == Op(p)
           r == Tail(todo[p])
           content == Plaintext(s.key)
           x == PutKeyTo(PublicFile(f[2]), s.key)
<1>1. /\ s.do = "put key" /\ todo[p] # <<>>
      /\ UNCHANGED <<tree, keys, crashes, user, key, cwd, mem, hold>>
      /\ Overwrite(f, content) /\ StepBy(p)
      /\ todo'[p] = <<x>> \o r \/ todo'[p] = r
    BY DEF PutKey, At, Op, Done, Expand, StepBy, IInv, Shape
<1>2. /\ HandleOK(todo[p], mem[p], hold[p], keys, DOMAIN host)
      /\ user[p] = NoUser => Unattended(todo[p], keys)
    BY <1>1, HandlingFacts
<1>3. /\ s \in AnyStep(keys)
      /\ hold[p] # Empty => Resealing(r)
    BY <1>1, <1>2, CurrentStep DEF Reseals, Seals
<1>7. f \in KeyPairFile /\ s.key \in 1 .. Len(keys) /\ keys[s.key] = f[2]
    BY <1>1, <1>3, StepFacts DEF File
<1>4. TextOK(f, s.key, keys)
    BY <1>7 DEF TextOK, KeyFor
<1>5. content.key = 0 /\ content.text = s.key /\ 0 \in 0 .. Len(keys)
    BY LenProperties DEF Plaintext, Plain, IInv, Shape
<1>6. LocalOK(p)'
  <2>1. /\ mem[p][FileMappings].dirs \cup RegisteredBy(s) \subseteq mem[p][FileMappings].dirs
        /\ (DOMAIN host \cup WrittenBy(s)) \cap KeyPairFile \subseteq DOMAIN host
    BY <1>1 DEF RegisteredBy, WrittenBy
  <2>2. Local(user[p], key[p], cwd[p], mem[p], hold[p], r, keys, DOMAIN host)
    BY <1>1, <1>2, <1>3, <2>1, ProcessFacts, HandlerWentOn
  <2>3. Local(user[p], key[p], cwd[p], mem[p], hold[p], <<x>> \o r, keys, DOMAIN host)
    <3>1. f[2] \in User
      BY <1>7, FileKinds
    <3>2. x \in AnyStep(keys) /\ x.do = "put key"
      BY <1>7, <3>1, KeyPairSteps DEF AnyStep, WriteStep, PutKeyTo
    <3> HIDE DEF x
    <3>3. /\ Ready(x, r, mem[p][FileMappings].dirs, DOMAIN host) /\ Tame(x)
          /\ SealOK(x, mem[p], hold[p], keys)
      BY <3>2 DEF Ready, Puts, Tame, SealOK, Seals
    <3> QED
      BY <1>1, <1>2, <1>3, <2>1, <3>2, <3>3, ProcessFacts, HandlerGoesOn
  <2>4. DOMAIN host' = DOMAIN host
    BY <1>1, WrittenStays
  <2> HIDE DEF x
  <2> QED
    BY <1>1, <2>2, <2>3, <2>4 DEF LocalOK
<1> HIDE DEF content
<1> QED
    BY <1>1, <1>4, <1>5, <1>6, InvariantOfOverwriting DEF Plain

\* What is thrown takes the process on, back to its prompt, or to its end.
LEMMA ThrowKeeps ==
    ASSUME IInv, NEW p \in Proc, todo[p] # <<>>, Op(p).do \in {"read", "fetch"},
           Throw(p, Op(p).catcher), UNCHANGED <<hostVars, keys, crashes>>
    PROVE  IInv'
<1> DEFINE s == Op(p)
           r == Tail(todo[p])
<1>1. /\ HandleOK(todo[p], mem[p], hold[p], keys, DOMAIN host)
      /\ user[p] = NoUser => Unattended(todo[p], keys)
    BY HandlingFacts
<1>2. crashes' \in 0 .. MaxCrashes
    BY DEF IInv, Shape
<1>3. CASE /\ s.catcher = "persist"
           /\ Done(p) /\ Hold(p, Empty)
           /\ UNCHANGED <<user, key, cwd, mem>>
  <2>1. /\ mem[p][FileMappings].dirs \cup RegisteredBy(s) \subseteq mem[p][FileMappings].dirs
        /\ (DOMAIN host \cup WrittenBy(s)) \cap KeyPairFile \subseteq DOMAIN host
    BY DEF RegisteredBy, WrittenBy
  <2>2. Local(user[p], key[p], cwd[p], mem[p], Empty, r, keys, DOMAIN host)
    BY <1>1, <2>1, ProcessFacts, HandlerWentOn
  <2>3. StepBy(p) /\ todo'[p] = r /\ hold'[p] = Empty
    BY <1>3 DEF Done, Hold, StepBy, IInv, Shape
  <2>4. LocalOK(p)'
    BY <1>3, <2>2, <2>3 DEF LocalOK, hostVars
  <2> QED
    BY <1>2, <2>3, <2>4, InvariantOfQuietStep
<1>4. CASE /\ s.catcher = "command"
           /\ todo' = [todo EXCEPT ![p] = <<>>] /\ Hold(p, Empty)
           /\ UNCHANGED <<user, key, cwd, mem>>
  <2>1. user[p] # NoUser
    <3>1. SUFFICES ASSUME user[p] = NoUser
                   PROVE  FALSE
      OBVIOUS
    <3>2. Tame(s)
      BY <1>1, <3>1, UnattendedRest DEF Op
    <3> QED
      BY <1>4, <3>2 DEF Tame
  <2>2. HandleOK(<<>>, mem[p], Empty, keys, DOMAIN host)
    BY HandlerOfNone, HandlerHandles
  <2>3. StepBy(p) /\ todo'[p] = <<>> /\ hold'[p] = Empty
    BY <1>4 DEF Hold, StepBy, IInv, Shape
  <2>4. LocalOK(p)'
    BY <1>4, <2>1, <2>2, <2>3, ProcessFacts DEF LocalOK, Local, hostVars
  <2> QED
    BY <1>2, <2>3, <2>4, InvariantOfQuietStep
<1>5. CASE Gone(p)
    BY <1>2, <1>5, InvariantOfGone
<1> QED
    BY <1>3, <1>4, <1>5 DEF Throw

\* A value put in a store of the process.
LEMMA MemoryFacts ==
    ASSUME IInv, NEW p \in Proc, NEW s \in Store \ {FileMappings}, NEW value,
           Memory(p, s, value), StoreOK(s, value, keys)
    PROVE  /\ DOMAIN mem' = Proc /\ \A q \in Proc \ {p} : mem'[q] = mem[q]
           /\ mem'[p][s] = value
           /\ mem'[p][FileMappings] = mem[p][FileMappings]
           /\ MemOK(mem'[p], keys)
           /\ UserOK(user[p], key[p], cwd[p], mem'[p], keys)
<1>1. MemOK(mem[p], keys) /\ UserOK(user[p], key[p], cwd[p], mem[p], keys)
    BY ProcessFacts
<1>2. /\ DOMAIN mem' = Proc /\ \A q \in Proc \ {p} : mem'[q] = mem[q]
      /\ mem'[p] = [mem[p] EXCEPT ![s] = value]
    BY DEF Memory, IInv, Shape
<1>3. /\ mem'[p][s] = value /\ mem'[p][FileMappings] = mem[p][FileMappings]
      /\ MemOK(mem'[p], keys)
    BY <1>1, <1>2 DEF MemOK, Store
<1>4. UserOK(user[p], key[p], cwd[p], mem'[p], keys)
    BY <1>1, <1>3 DEF UserOK
<1> QED
    BY <1>2, <1>3, <1>4

\* What is found in a file, in clear or not.
LEMMA FoundText ==
    ASSUME IInv, NEW f \in DOMAIN host
    PROVE  TextOK(f, host[f].text, keys) /\ TextOK(f, ReadPlain(f), keys)
<1>1. TextOK(f, host[f].text, keys)
    BY DEF IInv, HostOK, FileOK
<1> QED
    BY <1>1 DEF TextOK, ReadPlain

LEMMA ReadKeeps ==
    ASSUME IInv, NEW p \in Proc, Read(p)
    PROVE  IInv'
<1> DEFINE f == File(p)
           s == Op(p)
           v == s.for
           r == Tail(todo[p])
           table == [w \in knownUsers(p) \cup {v} |-> publicKey(p, w)]
<1>1. s.do = "read" /\ todo[p] # <<>> /\ UNCHANGED <<hostVars, keys, crashes>>
    BY DEF Read, At, Op
<1>2. /\ HandleOK(todo[p], mem[p], hold[p], keys, DOMAIN host)
      /\ user[p] = NoUser => Unattended(todo[p], keys)
    BY <1>1, HandlingFacts
<1>3. /\ s \in AnyStep(keys)
      /\ f \in Sensitive /\ v \in User /\ v = Owner(f)
  <2>1. s \in AnyStep(keys)
    BY <1>1, <1>2, CurrentStep
  <2> QED
    BY <1>1, <2>1, StepFacts DEF File
<1>4. CASE \/ f \in tree
           \/ /\ f \in DOMAIN host /\ ReadPlain(f) # Empty
              /\ publicKey(p, v) \notin 1 .. Len(keys)
  <2>1. Throw(p, s.catcher)
    BY <1>4 DEF Read
  <2> QED
    BY <1>1, <2>1, ThrowKeeps
<1>5. ASSUME Memory(p, UserInfo, table), UNCHANGED <<user, key, cwd>>
      PROVE  /\ DOMAIN mem' = Proc /\ \A q \in Proc \ {p} : mem'[q] = mem[q]
             /\ mem'[p][UserInfo] = table
             /\ mem'[p][FileMappings] = mem[p][FileMappings]
             /\ MemOK(mem'[p], keys)
             /\ UserOK(user[p], key[p], cwd[p], mem'[p], keys)
  <2>1. KeyTableOK(table, keys)
    BY <1>3, ProcessFacts DEF KeyTableOK
  <2>2. StoreOK(UserInfo, table, keys)
    BY <2>1, FileKinds DEF StoreOK
  <2>3. UserInfo \in Store \ {FileMappings}
    BY FileKinds DEF Store
  <2> HIDE DEF table
  <2> QED
    BY <1>5, <2>2, <2>3, MemoryFacts
<1>6. CASE f \notin tree /\ f \notin DOMAIN host
  <2>1. /\ Done(p) /\ Hold(p, Empty) /\ Memory(p, UserInfo, table)
        /\ UNCHANGED <<user, key, cwd>>
    BY <1>6 DEF Read
  <2>2. /\ mem[p][FileMappings].dirs \cup RegisteredBy(s) \subseteq mem[p][FileMappings].dirs
        /\ (DOMAIN host \cup WrittenBy(s)) \cap KeyPairFile \subseteq DOMAIN host
    BY <1>1 DEF RegisteredBy, WrittenBy
  <2> HIDE DEF table
  <2>3. Local(user[p], key[p], cwd[p], mem'[p], Empty, r, keys, DOMAIN host)
    BY <1>1, <1>2, <1>5, <2>1, <2>2, HandlerWentOn
  <2>4. StepBy(p) /\ todo'[p] = r /\ hold'[p] = Empty
    BY <1>5, <2>1 DEF Done, Hold, StepBy, IInv, Shape
  <2>5. LocalOK(p)'
    BY <1>1, <2>1, <2>3, <2>4 DEF LocalOK, hostVars
  <2> QED
    BY <1>1, <2>4, <2>5, InvariantOfQuietStep DEF IInv, Shape
<1>7. CASE /\ f \notin tree /\ f \in DOMAIN host
           /\ ReadPlain(f) # Empty => publicKey(p, v) \in 1 .. Len(keys)
  <2> DEFINE x == Opening(f, [do |-> "seal", file |-> f, for |-> v])
             text == ReadPlain(f)
  <2>1. /\ Expand(p, Replace(f, v)) /\ Hold(p, text) /\ Memory(p, UserInfo, table)
        /\ UNCHANGED <<user, key, cwd>>
    BY <1>7 DEF Read
  <2>2. /\ x \in AnyStep(keys) /\ x.do = "open" /\ x.file = f /\ x.write.do = "seal"
    <3>1. [do |-> "seal", file |-> f, for |-> v] \in SealStep
      BY <1>3 DEF SealStep
    <3>2. x \in OpenStep(SealStep)
      BY <1>3, <3>1, FileKinds DEF OpenStep, Opening, Sensitive, Store
    <3> QED
      BY <3>2 DEF AnyStep, Opening
  <2>3. Replace(f, v) = <<x>>
    BY DEF Replace
  <2> HIDE DEF x
  <2>4. /\ Seals(x) /\ Reseals(x) /\ Tame(x)
        /\ \A t, D, W : Ready(x, t, D, W)
    BY <2>2 DEF Seals, Reseals, Tame, Ready, Puts
  <2>5. SealOK(x, mem'[p], text, keys)
    <3>1. text = Empty \/ (v \in DOMAIN table /\ table[v] \in 1 .. Len(keys))
      BY <1>7
    <3>2. f = AdminKeys => text \in {Empty, Garbled} \/ KeyTableOK(text, keys)
      <4>1. AdminKeys \in Store
        BY DEF Store
      <4> QED
        BY <1>7, <4>1, FoundText, FileKinds DEF TextOK, StoreOK
    <3> HIDE DEF table
    <3> QED
      BY <1>3, <1>5, <2>1, <2>2, <3>1, <3>2 DEF SealOK
  <2>6. /\ mem[p][FileMappings].dirs \cup RegisteredBy(s) \subseteq mem[p][FileMappings].dirs
        /\ (DOMAIN host \cup WrittenBy(s)) \cap KeyPairFile \subseteq DOMAIN host
    BY <1>1 DEF RegisteredBy, WrittenBy
  <2> HIDE DEF table, text
  <2>7. Local(user[p], key[p], cwd[p], mem'[p], text, <<x>> \o r, keys, DOMAIN host)
    BY <1>1, <1>2, <1>5, <2>1, <2>2, <2>4, <2>5, <2>6, HandlerGoesOn
  <2>8. StepBy(p) /\ todo'[p] = <<x>> \o r /\ hold'[p] = text
    BY <1>5, <2>1, <2>3 DEF Expand, Hold, StepBy, IInv, Shape
  <2>9. LocalOK(p)'
    BY <1>1, <2>1, <2>7, <2>8 DEF LocalOK, hostVars
  <2> QED
    BY <1>1, <2>8, <2>9, InvariantOfQuietStep DEF IInv, Shape
<1> QED
    BY <1>4, <1>6, <1>7

LEMMA SealKeeps ==
    ASSUME IInv, NEW p \in Proc, Seal(p)
    PROVE  IInv'
<1> DEFINE f == File(p)
           s == Op(p)
           r == Tail(todo[p])
           k == publicKey(p, s.for)
           content == Sealed(k, hold[p])
<1>1. /\ s.do = "seal" /\ todo[p] # <<>>
      /\ UNCHANGED <<tree, keys, crashes, user, key, cwd, mem>>
      /\ Overwrite(f, content) /\ StepBy(p) /\ todo'[p] = r /\ hold'[p] = Empty
    BY DEF Seal, At, Op, Done, Hold, StepBy, IInv, Shape
<1>2. /\ HandleOK(todo[p], mem[p], hold[p], keys, DOMAIN host)
      /\ user[p] = NoUser => Unattended(todo[p], keys)
    BY <1>1, HandlingFacts
<1>3. /\ SealOK(s, mem[p], hold[p], keys)
      /\ f \in Sensitive /\ s.for \in User /\ s.for = Owner(f)
  <2>1. s \in AnyStep(keys) /\ SealOK(s, mem[p], hold[p], keys)
    BY <1>1, <1>2, CurrentStep
  <2> QED
    BY <1>1, <2>1, StepFacts DEF File
<1>4. ASSUME hold[p] # Empty
      PROVE  k \in 1 .. Len(keys) /\ keys[k] = Owner(f)
  <2>1. k \in 1 .. Len(keys) /\ Len(keys) \in Nat
    BY <1>1, <1>3, <1>4, LenProperties
       DEF SealOK, Seals, publicKey, knownUsers, File, IInv, Shape
  <2>2. k \in KeyFor(s.for, keys)
    BY ProcessFacts
  <2>3. k \notin {NoKey, Empty, Garbled}
    <3>1. k \in Nat /\ k # 0
      BY <2>1
    <3> QED
      BY <3>1, TextAssumption DEF NoKey, Plain
  <2> QED
    BY <1>3, <2>1, <2>2, <2>3 DEF KeyFor
<1>5. f \in DOMAIN host => TextOK(f, hold[p], keys)
  <2>1. f \in TreeFile \/ f = AdminKeys
    BY <1>3 DEF Sensitive
  <2>2. CASE f = AdminKeys
    <3>1. hold[p] \in {Empty, Garbled} \/ KeyTableOK(hold[p], keys)
      BY <1>1, <1>3, <2>2 DEF SealOK, Seals, File
    <3>2. AdminKeys \in Store
      BY DEF Store
    <3> QED
      BY <2>2, <3>1, <3>2, FileKinds DEF TextOK, StoreOK
  <2> QED
    BY <2>1, <2>2 DEF TextOK
<1>6. f \in DOMAIN host =>
          /\ content.key \in 0 .. Len(keys)
          /\ content.key # Plain => f \in Sensitive /\ keys[content.key] = Owner(f)
          /\ TextOK(f, content.text, keys)
  <2>1. CASE hold[p] = Empty
    <3>1. content.key = 0 /\ content.text = Empty /\ 0 \in 0 .. Len(keys)
      BY <2>1, LenProperties DEF Sealed, Blank, Plaintext, Plain, IInv, Shape
    <3> HIDE DEF content
    <3> QED
      BY <3>1 DEF Plain, TextOK
  <2>2. CASE hold[p] # Empty
    <3>1. content.key = k /\ content.text = hold[p]
      BY <2>2 DEF Sealed
    <3>2. k \in 0 .. Len(keys)
      BY <1>4, <2>2
    <3> HIDE DEF content, k
    <3> QED
      BY <1>3, <1>4, <1>5, <2>2, <3>1, <3>2
  <2> QED
    BY <2>1, <2>2
<1>7. LocalOK(p)'
  <2>1. /\ mem[p][FileMappings].dirs \cup RegisteredBy(s) \subseteq mem[p][FileMappings].dirs
        /\ (DOMAIN host \cup WrittenBy(s)) \cap KeyPairFile \subseteq DOMAIN host
    BY <1>1 DEF RegisteredBy, WrittenBy
  <2>2. Local(user[p], key[p], cwd[p], mem[p], Empty, r, keys, DOMAIN host)
    BY <1>1, <1>2, <2>1, ProcessFacts, HandlerWentOn
  <2>3. DOMAIN host' = DOMAIN host
    BY <1>1, WrittenStays
  <2> QED
    BY <1>1, <2>2, <2>3 DEF LocalOK
<1> HIDE DEF content
<1> QED
    BY <1>1, <1>6, <1>7, InvariantOfOverwriting

LEMMA LearnKeeps ==
    ASSUME IInv, NEW p \in Proc, Learn(p)
    PROVE  IInv'
<1> DEFINE f == File(p)
           u == f[2]
           s == Op(p)
           r == Tail(todo[p])
           store == IF f = KeyFile(u) THEN AdminKeys ELSE UserInfo
           table == [v \in DOMAIN mem[p][store] \cup {u} |->
                        IF v = u THEN host[f].text ELSE mem[p][store][v]]
<1>1. /\ s.do = "learn" /\ todo[p] # <<>>
      /\ UNCHANGED <<hostVars, keys, crashes, user, key, cwd, hold>>
      /\ Memory(p, store, table) /\ Done(p)
    BY DEF Learn, At, Op
<1>2. /\ HandleOK(todo[p], mem[p], hold[p], keys, DOMAIN host)
      /\ user[p] = NoUser => Unattended(todo[p], keys)
    BY <1>1, HandlingFacts
<1>3. /\ s \in AnyStep(keys)
      /\ Ready(s, r, mem[p][FileMappings].dirs, DOMAIN host)
      /\ hold[p] # Empty => Resealing(r)
    BY <1>1, <1>2, CurrentStep DEF Reseals, Seals
<1>4. f \in KeyPairFile /\ f \in DOMAIN host /\ u \in User
    BY <1>1, <1>3, StepFacts, FileKinds DEF File, Ready
<1>5. store \in Store \ {FileMappings} /\ store \in {AdminKeys, UserInfo}
    BY FileKinds DEF Store
<1>6. KeyTableOK(mem[p][store], keys)
    BY <1>5, ProcessFacts DEF MemOK, StoreOK
<1>7. /\ host[f].text \in KeyFor(u, keys)
      /\ host[f].text \in 0 .. Len(keys) \cup {Empty, Garbled}
  <2>1. host[f].text \in KeyFor(u, keys)
    BY <1>4, FoundText, FileKinds DEF TextOK, KeyFor
  <2>2. KeyFor(u, keys) \subseteq 0 .. Len(keys) \cup {Empty, Garbled}
    BY LenProperties DEF KeyFor, NoKey, Plain, IInv, Shape
  <2> QED
    BY <2>1, <2>2
<1>8. KeyTableOK(table, keys)
    BY <1>4, <1>6, <1>7 DEF KeyTableOK
<1>9. StoreOK(store, table, keys)
    BY <1>5, <1>8, FileKinds DEF StoreOK
<1> HIDE DEF table, store
<1>10. /\ DOMAIN mem' = Proc /\ \A q \in Proc \ {p} : mem'[q] = mem[q]
       /\ mem'[p][FileMappings] = mem[p][FileMappings]
       /\ MemOK(mem'[p], keys)
       /\ UserOK(user[p], key[p], cwd[p], mem'[p], keys)
    BY <1>1, <1>5, <1>9, MemoryFacts
<1>11. /\ mem[p][FileMappings].dirs \cup RegisteredBy(s) \subseteq mem'[p][FileMappings].dirs
       /\ (DOMAIN host \cup WrittenBy(s)) \cap KeyPairFile \subseteq DOMAIN host
    BY <1>1, <1>10 DEF RegisteredBy, WrittenBy
<1>12. Local(user[p], key[p], cwd[p], mem'[p], hold[p], r, keys, DOMAIN host)
    BY <1>1, <1>2, <1>3, <1>10, <1>11, HandlerWentOn
<1>13. StepBy(p) /\ todo'[p] = r
    BY <1>1, <1>10 DEF Done, StepBy, IInv, Shape
<1>14. LocalOK(p)'
    BY <1>1, <1>12, <1>13 DEF LocalOK, hostVars
<1> QED
    BY <1>1, <1>13, <1>14, InvariantOfQuietStep DEF IInv, Shape

\* What both registrations do, once the new version is known to be in order.
LEMMA RegistrationKeeps ==
    ASSUME IInv, NEW p \in Proc, todo[p] # <<>>,
           Op(p).do \in {"register dir", "register file"},
           NEW version, MappingsOK(version),
           mem[p][FileMappings].dirs \cup RegisteredBy(Op(p)) \subseteq version.dirs,
           mem' = [mem EXCEPT ![p][FileMappings] = version],
           host' = Set(FileMappings, Blank),
           Expand(p, <<On("put", FileMappings)>>),
           UNCHANGED <<tree, keys, crashes, user, key, cwd, hold>>
    PROVE  IInv'
<1> DEFINE s == Op(p)
           r == Tail(todo[p])
           x == On("put", FileMappings)
<1>1. /\ HandleOK(todo[p], mem[p], hold[p], keys, DOMAIN host)
      /\ user[p] = NoUser => Unattended(todo[p], keys)
    BY HandlingFacts
<1>2. hold[p] # Empty => Resealing(r)
    BY <1>1, CurrentStep DEF Reseals, Seals
<1>3. /\ mem'[p] = [mem[p] EXCEPT ![FileMappings] = version]
      /\ StepBy(p) /\ todo'[p] = <<x>> \o r
    BY DEF Expand, StepBy, IInv, Shape
<1>4. MemOK(mem[p], keys) /\ UserOK(user[p], key[p], cwd[p], mem[p], keys)
    BY ProcessFacts
<1>5. MemOK(mem'[p], keys) /\ mem'[p][FileMappings] = version
  <2>1. StoreOK(FileMappings, version, keys)
    BY FileKinds DEF StoreOK
  <2>2. FileMappings \in Store
    BY DEF Store
  <2> QED
    BY <1>3, <1>4, <2>1, <2>2 DEF MemOK
<1>6. UserOK(user[p], key[p], cwd[p], mem'[p], keys)
    BY <1>4, <1>5 DEF UserOK
<1>7. /\ x \in AnyStep(keys) /\ Tame(x) /\ x.do = "put" /\ x.file = FileMappings
      /\ ~Seals(x)
    BY WriteSteps DEF AnyStep, Store, On, Tame, Seals
<1>8. FileMappings \notin Sensitive
    BY FileKinds DEF Sensitive, Store
<1> HIDE DEF x
<1>9. /\ Ready(x, r, version.dirs, DOMAIN host')
      /\ SealOK(x, mem'[p], hold[p], keys)
    BY <1>7, <1>8 DEF Ready, SealOK
<1>10. (DOMAIN host \cup WrittenBy(s)) \cap KeyPairFile \subseteq DOMAIN host'
    BY DEF WrittenBy, Set
<1>11. Local(user[p], key[p], cwd[p], mem'[p], hold[p], <<x>> \o r, keys, DOMAIN host')
    BY <1>1, <1>2, <1>5, <1>6, <1>7, <1>9, <1>10, HandlerGoesOn
<1>12. LocalOK(p)'
    BY <1>3, <1>11 DEF LocalOK
<1>13. FileOK(FileMappings, Blank, keys, tree)
    BY HostFilesOpen, BlankOK DEF Store
<1> QED
    BY <1>3, <1>12, <1>13, InvariantOfWriting

LEMMA RegisterDirectoryKeeps ==
    ASSUME IInv, NEW p \in Proc, RegisterDirectory(p)
    PROVE  IInv'
<1> DEFINE d == File(p)
           s == Op(p)
           old == mem[p][FileMappings]
           version == [old EXCEPT !.dirs = old.dirs \cup {d}]
<1>1. /\ s.do = "register dir" /\ todo[p] # <<>>
      /\ host' = Set(FileMappings, Blank)
      /\ Expand(p, <<On("put", FileMappings)>>)
      /\ UNCHANGED <<tree, keys, crashes, user, key, cwd, hold>>
    BY DEF RegisterDirectory, At, Op
<1>2. mem' = [mem EXCEPT ![p][FileMappings] = version]
    BY DEF RegisterDirectory
<1>3. d \in UserDir /\ Parent(d) \in old.dirs \cup Base
  <2>1. /\ s \in AnyStep(keys)
        /\ Ready(s, Tail(todo[p]), mem[p][FileMappings].dirs, DOMAIN host)
    BY <1>1, HandlingFacts, CurrentStep
  <2> QED
    BY <1>1, <2>1, StepFacts DEF Ready, File
<1>4. MappingsOK(version)
  <2>1. MappingsOK(old)
    BY ProcessFacts
  <2>2. version \in [dirs : SUBSET UserDir, files : SUBSET TreeFile]
        /\ version.dirs = old.dirs \cup {d} /\ version.files = old.files
    BY <1>3, <2>1 DEF MappingsOK
  <2> HIDE DEF version, old
  <2> QED
    BY <1>3, <2>1, <2>2 DEF MappingsOK, Rooted, Base
<1>5. mem[p][FileMappings].dirs \cup RegisteredBy(s) \subseteq version.dirs
  <2>1. MappingsOK(old)
    BY ProcessFacts
  <2>2. version.dirs = old.dirs \cup {d}
    BY <2>1 DEF MappingsOK
  <2> QED
    BY <1>1, <2>2 DEF RegisteredBy, File
<1> HIDE DEF version
<1> QED
    BY <1>1, <1>2, <1>4, <1>5, RegistrationKeeps

LEMMA RegisterFileKeeps ==
    ASSUME IInv, NEW p \in Proc, RegisterFile(p)
    PROVE  IInv'
<1> DEFINE f == File(p)
           s == Op(p)
           old == mem[p][FileMappings]
           version == [old EXCEPT !.files = old.files \cup {f}]
<1>1. /\ s.do = "register file" /\ todo[p] # <<>>
      /\ host' = Set(FileMappings, Blank)
      /\ Expand(p, <<On("put", FileMappings)>>)
      /\ UNCHANGED <<tree, keys, crashes, user, key, cwd, hold>>
    BY DEF RegisterFile, At, Op
<1>2. mem' = [mem EXCEPT ![p][FileMappings] = version]
    BY DEF RegisterFile
<1>3. f \in TreeFile /\ Parent(f) \in old.dirs
  <2>1. /\ s \in AnyStep(keys)
        /\ Ready(s, Tail(todo[p]), mem[p][FileMappings].dirs, DOMAIN host)
    BY <1>1, HandlingFacts, CurrentStep
  <2> QED
    BY <1>1, <2>1, StepFacts DEF Ready, File
<1>4. MappingsOK(version)
  <2>1. MappingsOK(old)
    BY ProcessFacts
  <2>2. version \in [dirs : SUBSET UserDir, files : SUBSET TreeFile]
        /\ version.dirs = old.dirs /\ version.files = old.files \cup {f}
    BY <1>3, <2>1 DEF MappingsOK
  <2> HIDE DEF version, old
  <2> QED
    BY <1>3, <2>1, <2>2 DEF MappingsOK, Rooted
<1>5. mem[p][FileMappings].dirs \cup RegisteredBy(s) \subseteq version.dirs
  <2>1. MappingsOK(old)
    BY ProcessFacts
  <2>2. version.dirs = old.dirs
    BY <2>1 DEF MappingsOK
  <2> QED
    BY <1>1, <2>2 DEF RegisteredBy
<1> HIDE DEF version
<1> QED
    BY <1>1, <1>2, <1>4, <1>5, RegistrationKeeps

\* The directories that are made above a directory and with it.
LEMMA EstablishedDirectories ==
    ASSUME NEW d \in UserDir
    PROVE  \A i \in 0 .. Len(d) :
               /\ SubSeq(d, 1, i) \in UserDir \cup {Root}
               /\ SubSeq(d, 1, i) \in TreeFile => SubSeq(d, 1, i) = d
<1>1. d \in Path /\ Len(d) \in 1 .. 3 /\ d[1] \in User
    BY DEF UserDir
<1> SUFFICES ASSUME NEW i \in 0 .. Len(d)
             PROVE  /\ SubSeq(d, 1, i) \in UserDir \cup {Root}
                    /\ SubSeq(d, 1, i) \in TreeFile => SubSeq(d, 1, i) = d
    OBVIOUS
<1> DEFINE q == SubSeq(d, 1, i)
           n == Len(d)
<1>2. q \in Path /\ Len(q) = i /\ \A j \in 1 .. i : q[j] = d[j]
    BY <1>1, PrefixOfPath
<1>0. n \in 1 .. 3 /\ i \in 0 .. n
    BY <1>1
<1> HIDE DEF q, n
<1>3. CASE i = 0
  <2>1. q = Root
    BY <1>2, <1>3, EmptySeq DEF Path, Root
  <2>2. Root \notin TreeFile
    BY FileKinds DEF Root, InTree
  <2> QED
    BY <2>1, <2>2 DEF q
<1>4. CASE i # 0
  <2>1. i \in 1 .. 3 /\ 1 \in 1 .. i
    BY <1>0, <1>4
  <2>2. q \in UserDir
    BY <1>1, <1>2, <2>1 DEF UserDir
  <2>3. ASSUME q \in TreeFile
        PROVE  q = d
    <3>1. i = 3 /\ Len(d) = 3
      BY <1>0, <1>2, <2>1, <2>3, FileKinds DEF InTree, n
    <3> QED
      BY <1>1, <1>2, <3>1, SeqEqual DEF Path
  <2> QED
    BY <2>2, <2>3 DEF q
<1> QED
    BY <1>3, <1>4

LEMMA EstablishKeeps ==
    ASSUME IInv, NEW p \in Proc, Establish(p)
    PROVE  IInv'
<1> DEFINE d == File(p)
           s == Op(p)
           r == Tail(todo[p])
<1>1. /\ s.do = "establish" /\ todo[p] # <<>>
      /\ UNCHANGED <<host, keys, crashes, user, key, cwd, mem, hold>>
      /\ establish(d) /\ StepBy(p) /\ todo'[p] = r
    BY DEF Establish, At, Op, Done, StepBy, IInv, Shape
<1>2. /\ HandleOK(todo[p], mem[p], hold[p], keys, DOMAIN host)
      /\ user[p] = NoUser => Unattended(todo[p], keys)
    BY <1>1, HandlingFacts
<1>3. /\ s \in AnyStep(keys)
      /\ hold[p] # Empty => Resealing(r)
    BY <1>1, <1>2, CurrentStep DEF Reseals, Seals
<1>4. d \in UserDir
    BY <1>1, <1>3, StepFacts DEF File
<1>5. /\ tree \subseteq tree' /\ tree' \subseteq UserDir \cup {Root}
      /\ \A g \in tree' \ tree : g \in TreeFile => g = d /\ d \notin DOMAIN host
  <2>1. tree \subseteq UserDir \cup {Root}
    BY DEF IInv, Shape
  <2> QED
    BY <1>1, <1>4, <2>1, EstablishedDirectories DEF establish
<1>6. HostOK'
  <2> SUFFICES ASSUME NEW g \in DOMAIN host
               PROVE  FileOK(g, host[g], keys, tree')
    BY <1>1 DEF HostOK
  <2>1. FileOK(g, host[g], keys, tree)
    BY DEF IInv, HostOK
  <2>2. g \notin tree'
    BY <1>5, <2>1, FileKinds DEF FileOK
  <2> QED
    BY <1>5, <2>1, <2>2 DEF FileOK
<1>7. LocalOK(p)'
  <2>1. /\ mem[p][FileMappings].dirs \cup RegisteredBy(s) \subseteq mem[p][FileMappings].dirs
        /\ (DOMAIN host \cup WrittenBy(s)) \cap KeyPairFile \subseteq DOMAIN host
    BY <1>1 DEF RegisteredBy, WrittenBy
  <2>2. Local(user[p], key[p], cwd[p], mem[p], hold[p], r, keys, DOMAIN host)
    BY <1>1, <1>2, <1>3, <2>1, ProcessFacts, HandlerWentOn
  <2> QED
    BY <1>1, <2>2 DEF LocalOK
<1>8. Extends(keys, keys') /\ crashes' \in 0 .. MaxCrashes
    BY <1>1, ExtendsItself DEF IInv, Shape
<1> QED
    BY <1>1, <1>5, <1>6, <1>7, <1>8, InvariantOfStep

LEMMA ResealingConcat ==
    ASSUME NEW S, NEW s \in Seq(S), NEW t \in Seq(S), Resealing(s) \/ Resealing(t)
    PROVE  Resealing(s \o t)
<1>1. /\ s \o t \in Seq(S) /\ Len(s \o t) = Len(s) + Len(t)
      /\ \A i \in 1 .. Len(s) + Len(t) :
             (s \o t)[i] = IF i <= Len(s) THEN s[i] ELSE t[i - Len(s)]
    BY ConcatProperties
<1>2. Len(s) \in Nat /\ Len(t) \in Nat
    BY LenProperties
<1>3. DOMAIN s = 1 .. Len(s) /\ DOMAIN t = 1 .. Len(t)
      /\ DOMAIN (s \o t) = 1 .. Len(s) + Len(t)
    BY <1>1, LenProperties
<1> DEFINE w == s \o t
           m == Len(s)
<1> HIDE DEF w, m
<1>4. \A i \in 1 .. Len(t) :
          m + i \in 1 .. m + Len(t) /\ ~(m + i <= m) /\ m + i - m = i
    BY <1>2 DEF m
<1>5. \A i \in 1 .. m : i \in 1 .. m + Len(t) /\ i <= m
    BY <1>2 DEF m
<1>6. CASE Resealing(s)
  <2>1. PICK i \in 1 .. m : Reseals(s[i])
    BY <1>3, <1>6 DEF Resealing, m
  <2>2. i \in DOMAIN w /\ w[i] = s[i]
    BY <1>1, <1>3, <1>5 DEF m, w
  <2> QED
    BY <2>1, <2>2 DEF Resealing, w
<1>7. CASE Resealing(t)
  <2>1. PICK i \in 1 .. Len(t) : Reseals(t[i])
    BY <1>3, <1>7 DEF Resealing
  <2>2. m + i \in DOMAIN w /\ w[m + i] = t[i]
    BY <1>1, <1>3, <1>4 DEF m, w
  <2> QED
    BY <2>1, <2>2 DEF Resealing, w
<1> QED
    BY <1>6, <1>7

LEMMA NextCopyKeeps ==
    ASSUME IInv, NEW p \in Proc, NextCopy(p)
    PROVE  IInv'
<1> DEFINE src == File(p)
           s == Op(p)
           r == Tail(todo[p])
           D == mem[p][FileMappings].dirs
           W == DOMAIN host
<1>1. /\ s.do = "copies" /\ todo[p] # <<>>
      /\ UNCHANGED <<hostVars, keys, crashes, user, key, cwd, mem, hold>>
    BY DEF NextCopy, At, Op
<1>2. PICK dst \in s.left :
          Expand(p, replicateFile(src, dst, dst \in knownFiles(p), "nobody")
                    \o replicateTo(src, s.left \ {dst}))
    BY DEF NextCopy
<1>3. /\ HandleOK(todo[p], mem[p], hold[p], keys, W)
      /\ user[p] = NoUser => Unattended(todo[p], keys)
    BY <1>1, HandlingFacts
<1>4. user[p] # NoUser
  <2>1. SUFFICES ASSUME user[p] = NoUser
                 PROVE  FALSE
    OBVIOUS
  <2>2. Tame(s)
    BY <1>1, <1>3, <2>1, UnattendedRest DEF Op
  <2> QED
    BY <1>1, <2>2 DEF Tame
<1>5. /\ s \in AnyStep(keys) /\ r \in Seq(QueuedStep(keys))
      /\ hold[p] # Empty => Resealing(r)
    BY <1>1, <1>3, CurrentStep DEF Reseals, Seals
<1>6. src \in TreeFile /\ dst \in TreeFile /\ s.left \ {dst} \in SUBSET TreeFile
    BY <1>1, <1>2, <1>5, StepFacts DEF File
<1> DEFINE a == replicateFile(src, dst, dst \in knownFiles(p), "nobody")
           b == replicateTo(src, s.left \ {dst})
           t == (a \o b) \o r
<1>7. todo' = [todo EXCEPT ![p] = t]
    BY <1>2 DEF Expand
<1>8. keys \in Seq(User)
    BY DEF IInv, Shape
<1>9. Handler(a, D, W, keys) /\ \A D2, W2 : Handler(b, D2, W2, keys)
  <2>1. "nobody" \in Catcher /\ (dst \in knownFiles(p)) \in BOOLEAN
    BY DEF Catcher
  <2>2. \A D2, W2 : Handler(b, D2, W2, keys)
    BY <1>6, replicateToHandler
  <2> HIDE DEF b
  <2>3. \A registered \in BOOLEAN :
            Handler(replicateFile(src, dst, registered, "nobody"), D, W, keys)
    BY <1>6, <1>8, <2>1, replicateFileHandler
  <2> QED
    BY <2>1, <2>2, <2>3
<1> HIDE DEF a, b
<1>10. Handler(a \o b, D, W, keys)
    BY <1>9, HandlersInTurn
<1> DEFINE c == a \o b
<1>11. Handler(r, D \cup RegisteredIn(c), W \cup WrittenIn(c), keys)
  <2>1. D \cup RegisteredBy(s) = D /\ W \cup WrittenBy(s) = W
    BY <1>1 DEF RegisteredBy, WrittenBy
  <2>2. Handler(r, D, W, keys)
    BY <1>1, <1>3, <2>1 DEF HandleOK, Op
  <2> HIDE DEF D, W, c, r
  <2> QED
    BY <1>8, <2>2, HandlerMore
<1>12. /\ Handler(t, D, W, keys)
       /\ hold[p] # Empty => Resealing(t)
  <2>1. Handler(c, D, W, keys) /\ t = c \o r
    BY <1>10
  <2> HIDE DEF t, c, r, D, W
  <2>2. Handler(c \o r, D, W, keys)
    BY <1>11, <2>1, HandlerConcat, SMTT(60)
  <2>3. c \in Seq(QueuedStep(keys))
    BY <2>1 DEF Handler
  <2>4. hold[p] # Empty => Resealing(c \o r)
    BY <1>5, <2>3, ResealingConcat
  <2> QED
    BY <2>1, <2>2, <2>4
<1> HIDE DEF t
<1>13. DOMAIN hold' = Proc /\ hold' = hold /\ Extends(keys, keys') /\ keys' = keys
    BY <1>1, ExtendsItself DEF IInv, Shape
<1> QED
    BY <1>1, <1>4, <1>7, <1>12, <1>13, InvariantOfEntering

LEMMA FetchKeeps ==
    ASSUME IInv, NEW p \in Proc, Fetch(p)
    PROVE  IInv'
<1> DEFINE f == File(p)
           s == Op(p)
           r == Tail(todo[p])
<1>1. s.do = "fetch" /\ todo[p] # <<>> /\ UNCHANGED <<hostVars, keys, crashes>>
    BY DEF Fetch, At, Op
<1>2. CASE ~Opens(f, key[p])
  <2>1. Throw(p, s.catcher)
    BY <1>2 DEF Fetch
  <2> QED
    BY <1>1, <2>1, ThrowKeeps
<1>3. CASE Opens(f, key[p])
  <2>1. UNCHANGED <<user, key, cwd, mem>> /\ StepBy(p)
        /\ todo'[p] = r /\ hold'[p] = host[f].text
    BY <1>3 DEF Fetch, Done, Hold, StepBy, IInv, Shape
  <2>2. /\ HandleOK(todo[p], mem[p], hold[p], keys, DOMAIN host)
        /\ user[p] = NoUser => Unattended(todo[p], keys)
    BY <1>1, HandlingFacts
  <2>3. Resealing(r)
    BY <1>1, <2>2, CurrentStep DEF Ready
  <2>4. /\ mem[p][FileMappings].dirs \cup RegisteredBy(s) \subseteq mem[p][FileMappings].dirs
        /\ (DOMAIN host \cup WrittenBy(s)) \cap KeyPairFile \subseteq DOMAIN host
    BY <1>1 DEF RegisteredBy, WrittenBy
  <2>5. Local(user[p], key[p], cwd[p], mem[p], hold'[p], r, keys, DOMAIN host)
    BY <1>1, <2>2, <2>3, <2>4, ProcessFacts, HandlerWentOn
  <2>6. LocalOK(p)'
    BY <1>1, <2>1, <2>5 DEF LocalOK, hostVars
  <2> QED
    BY <1>1, <2>1, <2>6, InvariantOfQuietStep DEF IInv, Shape
<1> QED
    BY <1>2, <1>3

LEMMA RemoveFileKeeps ==
    ASSUME IInv, NEW p \in Proc, RemoveFile(p)
    PROVE  IInv'
<1> DEFINE f == File(p)
           s == Op(p)
           r == Tail(todo[p])
<1>1. /\ s.do = "remove" /\ todo[p] # <<>>
      /\ UNCHANGED <<tree, keys, crashes, user, key, cwd, mem, hold>>
      /\ host' = [g \in DOMAIN host \ {f} |-> host[g]]
      /\ StepBy(p) /\ todo'[p] = r
    BY DEF RemoveFile, At, Op, Done, StepBy, IInv, Shape
<1>2. /\ HandleOK(todo[p], mem[p], hold[p], keys, DOMAIN host)
      /\ user[p] = NoUser => Unattended(todo[p], keys)
    BY <1>1, HandlingFacts
<1>3. /\ s \in AnyStep(keys)
      /\ hold[p] # Empty => Resealing(r)
    BY <1>1, <1>2, CurrentStep DEF Reseals, Seals
<1>4. f \notin KeyPairFile
    BY <1>1, <1>3, StepFacts, FileKinds DEF File
<1>5. DOMAIN host \cap KeyPairFile \subseteq DOMAIN host'
    BY <1>1, <1>4
<1>6. HostOK'
    BY <1>1 DEF HostOK, IInv
<1>7. LocalOK(p)'
  <2>1. /\ mem[p][FileMappings].dirs \cup RegisteredBy(s) \subseteq mem[p][FileMappings].dirs
        /\ (DOMAIN host \cup WrittenBy(s)) \cap KeyPairFile \subseteq DOMAIN host'
    BY <1>1, <1>5 DEF RegisteredBy, WrittenBy
  <2>2. Local(user[p], key[p], cwd[p], mem[p], hold[p], r, keys, DOMAIN host')
    BY <1>1, <1>2, <1>3, <2>1, ProcessFacts, HandlerWentOn
  <2> QED
    BY <1>1, <2>2 DEF LocalOK
<1>8. /\ Extends(keys, keys') /\ crashes' \in 0 .. MaxCrashes
      /\ tree' \subseteq UserDir \cup {Root}
    BY <1>1, ExtendsItself DEF IInv, Shape
<1> QED
    BY <1>1, <1>5, <1>6, <1>7, <1>8, InvariantOfStep

LEMMA LinkKeeps ==
    ASSUME IInv, NEW p \in Proc, Link(p)
    PROVE  IInv'
<1> DEFINE f == File(p)
           s == Op(p)
           r == Tail(todo[p])
           links == knownLinks(p) \cup {<<f, s.copy>>}
<1>1. /\ s.do = "link" /\ todo[p] # <<>>
      /\ UNCHANGED <<hostVars, keys, crashes, user, key, cwd, hold>>
      /\ Memory(p, SharedInfo, links) /\ Done(p)
    BY DEF Link, At, Op
<1>2. /\ HandleOK(todo[p], mem[p], hold[p], keys, DOMAIN host)
      /\ user[p] = NoUser => Unattended(todo[p], keys)
    BY <1>1, HandlingFacts
<1>3. /\ s \in AnyStep(keys)
      /\ hold[p] # Empty => Resealing(r)
    BY <1>1, <1>2, CurrentStep DEF Reseals, Seals
<1>4. f \in TreeFile /\ s.copy \in TreeFile
    BY <1>1, <1>3, StepFacts DEF File
<1>5. SharedInfo \in Store \ {FileMappings}
    BY FileKinds DEF Store
<1>6. StoreOK(SharedInfo, links, keys)
  <2>1. knownLinks(p) \subseteq TreeFile \X TreeFile
    BY <1>5, ProcessFacts DEF MemOK, StoreOK, knownLinks
  <2> QED
    BY <1>4, <2>1, FileKinds DEF StoreOK
<1> HIDE DEF links
<1>7. /\ DOMAIN mem' = Proc /\ \A q \in Proc \ {p} : mem'[q] = mem[q]
      /\ mem'[p][FileMappings] = mem[p][FileMappings]
      /\ MemOK(mem'[p], keys)
      /\ UserOK(user[p], key[p], cwd[p], mem'[p], keys)
    BY <1>1, <1>5, <1>6, MemoryFacts
<1>8. /\ mem[p][FileMappings].dirs \cup RegisteredBy(s) \subseteq mem'[p][FileMappings].dirs
      /\ (DOMAIN host \cup WrittenBy(s)) \cap KeyPairFile \subseteq DOMAIN host
    BY <1>1, <1>7 DEF RegisteredBy, WrittenBy
<1>9. Local(user[p], key[p], cwd[p], mem'[p], hold[p], r, keys, DOMAIN host)
    BY <1>1, <1>2, <1>3, <1>7, <1>8, HandlerWentOn
<1>10. StepBy(p) /\ todo'[p] = r
    BY <1>1, <1>7 DEF Done, StepBy, IInv, Shape
<1>11. LocalOK(p)'
    BY <1>1, <1>9, <1>10 DEF LocalOK, hostVars
<1> QED
    BY <1>1, <1>10, <1>11, InvariantOfQuietStep DEF IInv, Shape

\* The process is gone: at its end, or because it was killed.
LEMMA EndKeeps ==
    ASSUME IInv, NEW p \in Proc, Quit(p) \/ Kill(p) \/ Crash(p)
    PROVE  IInv'
<1>1. Gone(p) /\ UNCHANGED <<hostVars, keys>>
    BY DEF Quit, Kill, Crash
<1>2. crashes' \in 0 .. MaxCrashes
  <2>1. crashes \in 0 .. MaxCrashes /\ MaxCrashes \in Nat
    BY SessionsAssumption DEF IInv, Shape
  <2>2. crashes' = crashes \/ (crashes < MaxCrashes /\ crashes' = crashes + 1)
    BY DEF Quit, Kill, Crash
  <2> QED
    BY <2>1, <2>2
<1> QED
    BY <1>1, <1>2, InvariantOfGone

LEMMA StutterKeeps == ASSUME IInv, UNCHANGED vars PROVE IInv'
    BY DEF IInv, Shape, HostOK, LocalOK, vars, hostVars, procVars

-----------------------------------------------------------------------------
(* Commands *)

LEMMA PromptFacts ==
    ASSUME IInv, NEW p \in Proc, AtPrompt(p)
    PROVE  /\ user[p] \in User /\ hold[p] = Empty /\ todo[p] = <<>>
           /\ \/ cwd[p] = Home(user[p])
              \/ cwd[p] = PersonalDir(user[p]) /\ cwd[p] \in knownDirs(p)
           /\ MappingsOK(mem[p][FileMappings])
<1>1. user[p] # NoUser /\ todo[p] = <<>>
    BY DEF AtPrompt
<1>2. UserOK(user[p], key[p], cwd[p], mem[p], keys) /\ MappingsOK(mem[p][FileMappings])
    BY ProcessFacts
<1>3. hold[p] = Empty
    BY <1>1 DEF IInv, LocalOK, Local, StartOK, HandleOK
<1> QED
    BY <1>1, <1>2, <1>3 DEF UserOK, knownDirs

\* A command that has passed its checks, and begins.
LEMMA CommandKeeps ==
    ASSUME IInv, NEW p \in Proc, AtPrompt(p), NEW t, NEW text, Enter(p, t, text),
           Handler(t, knownDirs(p), DOMAIN host, keys), text # Empty => Resealing(t)
    PROVE  IInv'
<1>1. /\ todo' = [todo EXCEPT ![p] = t] /\ keys' = keys
      /\ UNCHANGED <<hostVars, crashes, user, key, cwd, mem>>
      /\ hold' = [hold EXCEPT ![p] = text]
    BY DEF Enter, Hold
<1>2. /\ DOMAIN hold' = Proc /\ hold'[p] = text
      /\ \A q \in Proc \ {p} : hold'[q] = hold[q]
    BY <1>1 DEF IInv, Shape
<1>3. user[p] # NoUser /\ Extends(keys, keys')
    BY <1>1, ExtendsItself DEF AtPrompt
<1> QED
    BY <1>1, <1>2, <1>3, InvariantOfEntering DEF knownDirs

LEMMA CdKeeps ==
    ASSUME IInv, NEW p \in Proc, NEW dir, Cd(p, dir)
    PROVE  IInv'
<1>1. /\ AtPrompt(p) /\ cwd' = [cwd EXCEPT ![p] = dir]
      /\ dir = Home(user[p]) \/ (dir = PersonalDir(user[p]) /\ dir \in knownDirs(p))
      /\ UNCHANGED <<hostVars, keys, crashes, user, key, mem, hold, todo>>
    BY DEF Cd
<1>2. StepBy(p) /\ cwd'[p] = dir
    BY <1>1 DEF StepBy, IInv, Shape
<1>3. user[p] \in User /\ dir \in Path
    BY <1>1, PromptFacts, HomePaths DEF HomeDirs
<1>4. UserOK(user[p], key[p], dir, mem[p], keys)
    BY <1>1, <1>3, ProcessFacts DEF UserOK, knownDirs
<1>5. LocalOK(p)'
    BY <1>1, <1>2, <1>4 DEF IInv, LocalOK, Local, hostVars
<1> QED
    BY <1>1, <1>2, <1>5, InvariantOfQuietStep DEF IInv, Shape

\* What a user creates is in their personal directory.
LEMMA CatKeeps ==
    ASSUME IInv, NEW p \in Proc, NEW path \in knownFiles(p), Cat(p, path)
    PROVE  IInv'
<1> DEFINE known == DOMAIN mem[p][AdminKeys]
           table == [u \in known \cup {fetchOwner(path)} |-> privateKey(p, u)]
<1>1. /\ AtPrompt(p) /\ Memory(p, AdminKeys, table) /\ crashes' \in 0 .. MaxCrashes
      /\ UNCHANGED <<hostVars, keys, crashes, user, key, cwd, hold, todo>>
    BY DEF Cat, IInv, Shape
<1>2. fetchOwner(path) \in User
  <2>1. path \in TreeFile
    BY ProcessFacts DEF MappingsOK, knownFiles
  <2> QED
    BY <2>1, FileKinds
<1>3. KeyTableOK(mem[p][AdminKeys], keys)
    BY ProcessFacts DEF MemOK, StoreOK, Store
<1>4. NoKey \in 0 .. Len(keys) /\ \A u : NoKey \in KeyFor(u, keys)
    BY LenProperties DEF NoKey, Plain, KeyFor, IInv, Shape
<1>5. KeyTableOK(table, keys)
    BY <1>2, <1>3, <1>4 DEF KeyTableOK, privateKey
<1>6. AdminKeys \in Store \ {FileMappings} /\ StoreOK(AdminKeys, table, keys)
    BY <1>5, FileKinds DEF StoreOK, Store
<1> HIDE DEF table
<1>7. /\ StepBy(p) /\ MemOK(mem'[p], keys)
      /\ UserOK(user[p], key[p], cwd[p], mem'[p], keys)
    BY <1>1, <1>6, MemoryFacts DEF StepBy, IInv, Shape
<1>8. HandleOK(<<>>, mem'[p], Empty, keys, DOMAIN host)
    BY HandlerOfNone, HandlerHandles
<1>9. user[p] # NoUser /\ todo[p] = <<>> /\ hold[p] = Empty
    BY <1>1, PromptFacts DEF AtPrompt
<1>10. LocalOK(p)'
    BY <1>1, <1>7, <1>8, <1>9 DEF LocalOK, Local, hostVars
<1> QED
    BY <1>1, <1>7, <1>10, InvariantOfQuietStep

LEMMA PathsHere ==
    ASSUME IInv, NEW p \in Proc, MayCreateHere(p), NEW name \in Name
    PROVE  LET path == Append(cwd[p], name)
           IN  /\ path \in TreeFile /\ path \in UserDir
               /\ Parent(path) \in knownDirs(p)
               /\ fetchOwner(path) = user[p]
<1> DEFINE path == Append(cwd[p], name)
           u == user[p]
<1>1. AtPrompt(p) /\ checkPersonal(cwd[p], u)
    BY DEF MayCreateHere
<1>2. u \in User /\ (cwd[p] = Home(u) \/ (cwd[p] = PersonalDir(u) /\ cwd[p] \in knownDirs(p)))
    BY <1>1, PromptFacts
<1>3. cwd[p] = PersonalDir(u) /\ cwd[p] \in knownDirs(p)
  <2>1. Len(Home(u)) = 1 /\ ~ (1 >= 2)
    BY <1>2, HomePaths
  <2> QED
    BY <1>1, <1>2, <2>1 DEF checkPersonal
<1>4. cwd[p] \in Path /\ Len(cwd[p]) = 2 /\ cwd[p][1] = u
  <2>1. PersonalDir(u) \in Path
    BY <1>2, HomePaths DEF HomeDirs
  <2> QED
    BY <1>3, <2>1 DEF PersonalDir
<1>5. /\ path \in Path /\ Len(path) = 3 /\ path[1] = u /\ Parent(path) = cwd[p]
      /\ path # Root
  <2>1. Len(cwd[p]) + 1 = 3 /\ 1 \in 1 .. Len(cwd[p])
    BY <1>4
  <2> QED
    BY <1>4, <2>1, ChildOfPath
<1> HIDE DEF path
<1>6. path \in TreeFile /\ path \in UserDir
  <2>1. 3 > 2 /\ 3 \in 1 .. 3
    OBVIOUS
  <2> QED
    BY <1>2, <1>5, <2>1 DEF TreeFile, UserDir, InTree
<1> QED
    BY <1>3, <1>5, <1>6 DEF fetchOwner, path

LEMMA MkfileCreateKeeps ==
    ASSUME IInv, NEW p \in Proc, NEW name \in Name, NEW content,
           MkfileCreate(p, name, content)
    PROVE  IInv'
<1> DEFINE path == Append(cwd[p], name)
           a == registerFile(path)
           b == generateFile(path, user[p], "command")
<1>1. MayCreateHere(p) /\ AtPrompt(p) /\ Enter(p, a \o b, content)
    BY DEF MkfileCreate, MayCreateHere
<1>2. path \in TreeFile /\ Parent(path) \in knownDirs(p) /\ fetchOwner(path) = user[p]
    BY <1>1, PathsHere
<1> HIDE DEF path
<1>3. Handler(a, knownDirs(p), DOMAIN host, keys)
    BY <1>2, RegisterHandler
<1>4. \A D, W : Handler(b, D, W, keys) /\ Resealing(b)
  <2>1. "command" \in Catcher
    BY DEF Catcher
  <2> QED
    BY <1>2, <2>1, generateFileHandler
<1> HIDE DEF a, b
<1>5. Handler(a \o b, knownDirs(p), DOMAIN host, keys)
    BY <1>3, <1>4, HandlersInTurn
<1>6. Resealing(a \o b)
    BY <1>3, <1>4, ResealingConcat DEF Handler
<1> QED
    BY <1>1, <1>5, <1>6, CommandKeeps

LEMMA MkfileOverwriteKeeps ==
    ASSUME IInv, NEW p \in Proc, NEW name \in Name, NEW content,
           MkfileOverwrite(p, name, content)
    PROVE  IInv'
<1> DEFINE path == Append(cwd[p], name)
           copies == listSharedFiles(p, path)
           a == generateFile(path, user[p], "nobody")
           b == replicateTo(path, copies)
<1>1. MayCreateHere(p) /\ AtPrompt(p) /\ Enter(p, a \o b, content)
    BY DEF MkfileOverwrite, MayCreateHere
<1>2. path \in TreeFile /\ fetchOwner(path) = user[p]
    BY <1>1, PathsHere
<1>3. copies \in SUBSET TreeFile
  <2>1. SharedInfo \in Store
    BY DEF Store
  <2>2. knownLinks(p) \subseteq TreeFile \X TreeFile
    BY <2>1, ProcessFacts DEF MemOK, StoreOK, knownLinks
  <2> QED
    BY <2>2 DEF listSharedFiles
<1> HIDE DEF path, copies
<1>4. \A D, W : Handler(a, D, W, keys) /\ Resealing(a)
  <2>1. "nobody" \in Catcher
    BY DEF Catcher
  <2> QED
    BY <1>2, <2>1, generateFileHandler
<1>5. \A D, W : Handler(b, D, W, keys)
    BY <1>2, <1>3, replicateToHandler
<1> HIDE DEF a, b
<1>6. Handler(a \o b, knownDirs(p), DOMAIN host, keys)
    BY <1>4, <1>5, HandlersInTurn
<1>7. Resealing(a \o b)
    BY <1>4, <1>5, ResealingConcat DEF Handler
<1> QED
    BY <1>1, <1>6, <1>7, CommandKeeps

LEMMA MkdirKeeps ==
    ASSUME IInv, NEW p \in Proc, NEW name \in Name, Mkdir(p, name)
    PROVE  IInv'
<1> DEFINE path == Append(cwd[p], name)
           a == registerDirectory(path)
           b == <<On("establish", path)>>
<1>1. MayCreateHere(p) /\ AtPrompt(p) /\ Enter(p, a \o b, Empty)
    BY DEF Mkdir, MayCreateHere
<1>2. path \in UserDir /\ Parent(path) \in knownDirs(p)
    BY <1>1, PathsHere
<1> HIDE DEF path
<1>3. Handler(a, knownDirs(p), DOMAIN host, keys)
    BY <1>2, RegisterHandler
<1>4. \A D, W : Handler(b, D, W, keys)
    BY <1>2, EstablishHandler
<1> HIDE DEF a, b
<1>5. Handler(a \o b, knownDirs(p), DOMAIN host, keys)
    BY <1>3, <1>4, HandlersInTurn
<1> QED
    BY <1>1, <1>5, CommandKeeps

\* Where a file that is shared goes.
LEMMA SharedPaths ==
    ASSUME NEW u \in User, NEW target \in User, NEW name \in Name
    PROVE  LET dir == <<target, Shared, u>>
               dst == Append(dir, name)
           IN  /\ dir \in UserDir /\ Parent(dir) = SharedDir(target)
               /\ dst \in TreeFile /\ Parent(dst) = dir
<1> DEFINE dir == <<target, Shared, u>>
           dst == Append(dir, name)
<1>1. dir \in Path /\ Len(dir) = 3 /\ dir[1] = target /\ dir # Root
    BY DEF Path, Seg, Root
<1>2. dir \in UserDir
  <2>1. 3 \in 1 .. 3
    OBVIOUS
  <2> HIDE DEF dir
  <2> QED
    BY <1>1, <2>1 DEF UserDir
<1>3. Parent(dir) = SharedDir(target)
  <2>1. /\ Parent(dir) \in Path /\ Len(Parent(dir)) = 2
        /\ \A i \in 1 .. 2 : Parent(dir)[i] = dir[i]
    <3> HIDE DEF dir
    <3>1. /\ Parent(dir) \in Path /\ Len(Parent(dir)) = Len(dir) - 1
          /\ \A i \in 1 .. Len(dir) - 1 : Parent(dir)[i] = dir[i]
      BY <1>1, ParentOfPath
    <3>2. Len(dir) - 1 = 2
      BY <1>1
    <3> QED
      BY <3>1, <3>2
  <2>2. SharedDir(target) \in Path /\ Len(SharedDir(target)) = 2
        /\ \A i \in 1 .. 2 : SharedDir(target)[i] = dir[i]
    BY DEF SharedDir, Path, Seg
  <2> HIDE DEF dir
  <2> QED
    BY <2>1, <2>2, SeqEqual DEF Path
<1>4. dst \in TreeFile /\ Parent(dst) = dir
  <2>1. 3 + 1 > 2 /\ 1 \in 1 .. 3
    OBVIOUS
  <2> HIDE DEF dir
  <2>2. dst \in Path /\ Len(dst) = 3 + 1 /\ dst[1] = target /\ Parent(dst) = dir
    BY <1>1, <2>1, ChildOfPath
  <2> QED
    BY <2>1, <2>2 DEF TreeFile, InTree
<1> QED
    BY <1>2, <1>3, <1>4

LEMMA ShareKeeps ==
    ASSUME IInv, NEW p \in Proc, NEW name \in Name, NEW target \in User,
           Share(p, name, target)
    PROVE  IInv'
<1> DEFINE src == Append(cwd[p], name)
           dir == <<target, Shared, user[p]>>
           dst == Append(dir, name)
           D == knownDirs(p)
           W == DOMAIN host
           a == EnsureDestinationDir(p, dir)
           b == replicateFile(src, dst, TRUE, "command")
           c == registerFile(dst)
           d == <<[do |-> "link", file |-> src, copy |-> dst]>>
<1>1. AtPrompt(p) /\ src \in knownFiles(p) /\ Enter(p, a \o b \o c \o d, Empty)
    BY DEF Share
<1>2. src \in TreeFile
    BY <1>1, PromptFacts DEF MappingsOK, knownFiles
<1>3. /\ dir \in UserDir /\ Parent(dir) \in Base
      /\ dst \in TreeFile /\ Parent(dst) = dir
    BY <1>1, PromptFacts, SharedPaths DEF Base
<1> HIDE DEF src, dir, dst
<1>4. Handler(a, D, W, keys) /\ dir \in D \cup RegisteredIn(a)
  <2>1. CASE dir \in D
    BY <2>1, HandlerOfNone DEF EnsureDestinationDir
  <2>2. CASE dir \notin D
    <3> DEFINE x == <<On("establish", dir)>>
               y == registerDirectory(dir)
    <3>1. Handler(x, D, W, keys)
      BY <1>3, EstablishHandler
    <3>2. \A D2, W2 : Handler(y, D2, W2, keys) /\ RegisteredIn(y) = {dir}
      BY <1>3, RegisterHandler
    <3>3. a = x \o y
      BY <2>2 DEF EnsureDestinationDir
    <3> HIDE DEF x, y, a
    <3>4. Handler(y, D \cup RegisteredIn(x), W \cup WrittenIn(x), keys)
      BY <3>2
    <3>5. /\ Handler(x \o y, D, W, keys)
          /\ RegisteredIn(x \o y) = RegisteredIn(x) \cup RegisteredIn(y)
      BY <3>1, <3>4, HandlerConcat, SMTT(60)
    <3> QED
      BY <3>2, <3>3, <3>5
  <2> QED
    BY <2>1, <2>2
<1>5. \A D2, W2 : Handler(b, D2, W2, keys)
  <2>1. "command" \in Catcher /\ keys \in Seq(User)
    BY DEF Catcher, IInv, Shape
  <2> QED
    BY <1>2, <1>3, <2>1, replicateFileHandler
<1>6. \A D2, W2 : dir \in D2 => Handler(c, D2, W2, keys)
    BY <1>3, RegisterHandler
<1>7. \A D2, W2 : Handler(d, D2, W2, keys)
    BY <1>2, <1>3, LinkHandler
<1> HIDE DEF a, b, c, d, D, W
<1>8. /\ Handler(a \o b, D, W, keys)
      /\ RegisteredIn(a \o b) = RegisteredIn(a) \cup RegisteredIn(b)
  <2>1. Handler(a, D, W, keys)
    BY <1>4
  <2>2. Handler(b, D \cup RegisteredIn(a), W \cup WrittenIn(a), keys)
    BY <1>5
  <2> QED
    BY <2>1, <2>2, HandlerConcat, SMTT(60)
<1> DEFINE e == a \o b
<1>9. Handler(c, D \cup RegisteredIn(e), W \cup WrittenIn(e), keys)
    BY <1>4, <1>6, <1>8
<1>10. Handler(e, D, W, keys)
    BY <1>8
<1> HIDE DEF e
<1>11. Handler(e \o c, D, W, keys)
    BY <1>9, <1>10, HandlerConcat, SMTT(60)
<1>12. Handler((e \o c) \o d, D, W, keys)
    BY <1>7, <1>11, HandlersInTurn
<1> QED
    BY <1>1, <1>12, CommandKeeps DEF e, D, W

LEMMA AddUserKeeps ==
    ASSUME IInv, NEW p \in Proc, NEW u \in User, AddUser(p, u)
    PROVE  IInv'
<1> DEFINE t == createUser(u, Len(keys'))
<1>1. /\ AtPrompt(p) /\ keys' = Append(keys, u)
      /\ UNCHANGED <<hostVars, crashes, user, key, cwd, mem, hold>>
      /\ todo' = [todo EXCEPT ![p] = t]
    BY DEF AddUser
<1>2. /\ Extends(keys, keys') /\ Len(keys') \in 1 .. Len(keys') /\ keys'[Len(keys')] = u
    BY <1>1, AppendedKeys
<1>3. hold[p] = Empty /\ user[p] # NoUser
    BY <1>1, PromptFacts DEF AtPrompt
<1>4. Handler(t, mem[p][FileMappings].dirs, DOMAIN host, keys')
    BY <1>2, createUserHandler
<1> HIDE DEF t
<1>5. DOMAIN hold' = Proc /\ hold' = hold
    BY <1>1 DEF IInv, Shape
<1> QED
    BY <1>1, <1>2, <1>3, <1>4, <1>5, InvariantOfEntering

LEMMA ExitKeeps ==
    ASSUME IInv, NEW p \in Proc, Exit(p)
    PROVE  IInv'
<1> DEFINE t == Destroy(user[p] = Admin)
<1>1. AtPrompt(p) /\ Enter(p, t, Empty)
    BY DEF Exit
<1>2. \A isAdminMode \in BOOLEAN :
          Handler(Destroy(isAdminMode), knownDirs(p), DOMAIN host, keys)
    BY DestroyHandler
<1>3. Handler(t, knownDirs(p), DOMAIN host, keys)
    BY <1>2
<1> HIDE DEF t
<1> QED
    BY <1>1, <1>3, CommandKeeps

LEMMA EndOfInputKeeps ==
    ASSUME IInv, NEW p \in Proc, EndOfInput(p)
    PROVE  IInv'
<1> DEFINE x == On("getline", Root)
<1>1. AtPrompt(p) /\ Enter(p, <<x>>, Empty)
    BY DEF EndOfInput
<1>2. /\ x \in QueuedStep(keys)
      /\ \A D, W : Ready(x, <<>>, D, W)
    BY DEF On, QueuedStep, Ready, Puts
<1> HIDE DEF x
<1>3. Handler(<<x>>, knownDirs(p), DOMAIN host, keys)
    BY <1>2, HandlerOfOne
<1> QED
    BY <1>1, <1>3, CommandKeeps

-----------------------------------------------------------------------------
(* The invariant, and what it implies *)

LEMMA InvariantInitially == Init => IInv
<1> SUFFICES ASSUME Init PROVE IInv
    OBVIOUS
<1>1. keys = <<>> /\ keys \in Seq(User) /\ host = <<>> /\ tree = {Root} /\ crashes = 0
    BY EmptySeq DEF Init
<1>2. Shape
    BY <1>1, SessionsAssumption DEF Init, Shape
<1>3. HostOK
  <2>1. DOMAIN host = {}
    BY <1>1
  <2> QED
    BY <2>1 DEF HostOK
<1>4. ASSUME NEW p \in Proc
      PROVE  LocalOK(p)
  <2>1. /\ user[p] = NoUser /\ key[p] = NoKey /\ cwd[p] = Root
        /\ mem[p] = NewMemory /\ hold[p] = Empty /\ todo[p] = <<>>
    BY DEF Init
  <2>2. UserOK(NoUser, NoKey, Root, NewMemory, keys)
    BY <1>1, RootIsPath, LenProperties DEF UserOK, NoKey, Plain
  <2>3. StartOK(<<>>, NoUser, NewMemory, Empty)
    <3>1. NewMemory[AdminKeys] = <<>>
      BY FileKinds DEF NewMemory, NewStore, Store
    <3> QED
      BY <3>1, EmptySeq DEF StartOK
  <2> QED
    BY <1>1, <2>1, <2>2, <2>3, NewMemoryOK DEF LocalOK, Local
<1> QED
    BY <1>2, <1>3, <1>4 DEF IInv

LEMMA ProceedKeeps ==
    ASSUME IInv, NEW p \in Proc, Proceed(p)
    PROVE  IInv'
<1>1. CASE Load(p)
    BY <1>1, LoadKeeps
<1>2. CASE FirstRun(p)
    BY <1>2, FirstRunKeeps
<1>3. CASE Refuse(p)
    BY <1>3, RefuseKeeps
<1>4. CASE Login(p)
    BY <1>4, LoginKeeps
<1>5. CASE Unlock(p)
    BY <1>5, UnlockKeeps
<1>6. CASE Open(p)
    BY <1>6, OpenKeeps
<1>7. CASE Put(p)
    BY <1>7, PutKeeps
<1>8. CASE PutKey(p)
    BY <1>8, PutKeyKeeps
<1>9. CASE Read(p)
    BY <1>9, ReadKeeps
<1>10. CASE Seal(p)
    BY <1>10, SealKeeps
<1>11. CASE Learn(p)
    BY <1>11, LearnKeeps
<1>12. CASE RegisterDirectory(p)
    BY <1>12, RegisterDirectoryKeeps
<1>13. CASE RegisterFile(p)
    BY <1>13, RegisterFileKeeps
<1>14. CASE Establish(p)
    BY <1>14, EstablishKeeps
<1>15. CASE NextCopy(p)
    BY <1>15, NextCopyKeeps
<1>16. CASE Fetch(p)
    BY <1>16, FetchKeeps
<1>17. CASE RemoveFile(p)
    BY <1>17, RemoveFileKeeps
<1>18. CASE Link(p)
    BY <1>18, LinkKeeps
<1>19. CASE Quit(p)
    BY <1>19, EndKeeps
<1>20. CASE Getline(p)
    BY <1>20, StutterKeeps DEF Getline
<1> QED
    BY <1>1, <1>2, <1>3, <1>4, <1>5, <1>6, <1>7, <1>8, <1>9, <1>10, <1>11, <1>12,
       <1>13, <1>14, <1>15, <1>16, <1>17, <1>18, <1>19, <1>20 DEF Proceed

LEMMA CommandsKeep ==
    ASSUME IInv, NEW p \in Proc, Command(p)
    PROVE  IInv'
<1>1. CASE \E dir \in {Home(user[p]), PersonalDir(user[p])} : Cd(p, dir)
    BY <1>1, CdKeeps
<1>2. CASE \E name \in Name, content \in Content : MkfileCreate(p, name, content)
    BY <1>2, MkfileCreateKeeps
<1>3. CASE \E name \in Name, content \in Content : MkfileOverwrite(p, name, content)
    BY <1>3, MkfileOverwriteKeeps
<1>4. CASE \E name \in Name : Mkdir(p, name)
    BY <1>4, MkdirKeeps
<1>5. CASE \E name \in Name, target \in User : Share(p, name, target)
    BY <1>5, ShareKeeps
<1>6. CASE \E u \in User : AddUser(p, u)
    BY <1>6, AddUserKeeps
<1>7. CASE Exit(p)
    BY <1>7, ExitKeeps
<1>8. CASE EndOfInput(p)
    BY <1>8, EndOfInputKeeps
<1>9. CASE \E path \in knownFiles(p) : Cat(p, path)
    BY <1>9, CatKeeps
<1> QED
    BY <1>1, <1>2, <1>3, <1>4, <1>5, <1>6, <1>7, <1>8, <1>9 DEF Command

\* Every step, of whichever process and wherever others are in theirs, keeps
\* the inductive invariant.
THEOREM SessionsInductive == IInv /\ [Next]_vars => IInv'
<1> SUFFICES ASSUME IInv, [Next]_vars
             PROVE  IInv'
    OBVIOUS
<1>1. CASE \E p \in Proc, u \in User : Start(p, u)
    BY <1>1, StartKeeps
<1>2. ASSUME NEW p \in Proc, Step(p)
      PROVE  IInv'
    BY <1>2, ProceedKeeps, CommandsKeep, EndKeeps DEF Step
<1>3. CASE UNCHANGED vars
    BY <1>3, StutterKeeps
<1> QED
    BY <1>1, <1>2, <1>3 DEF Next

\* So it holds in every state that processes reach.
THEOREM SessionsInvariance == Spec => []IInv
    BY InvariantInitially, SessionsInductive, PTL DEF Spec

LEMMA TypesImplied == IInv => TypeOK
<1> SUFFICES ASSUME IInv PROVE TypeOK
    OBVIOUS
<1>1. \A f \in DOMAIN host : host[f].key \in 0 .. Len(keys) /\ f \notin tree
    BY DEF IInv, HostOK, FileOK
<1>2. tree \subseteq Path /\ keys \in Seq(User) /\ crashes \in 0 .. MaxCrashes
    BY RootIsPath DEF IInv, Shape, UserDir
<1>3. ASSUME NEW p \in Proc
      PROVE  /\ user[p] \in User \cup {NoUser}
             /\ key[p] \in 0 .. Len(keys)
             /\ cwd[p] \in Path
             /\ user[p] = NoUser => key[p] = NoKey
             /\ AtPrompt(p) => hold[p] = Empty
    BY <1>3, ProcessFacts, PromptFacts DEF UserOK
<1>4. ASSUME NEW p \in Proc
      PROVE  MemoryOK(mem[p])
  <2>1. MappingsOK(mem[p][FileMappings])
    BY <1>4, ProcessFacts
  <2>2. /\ mem[p][FileMappings].dirs \subseteq Path
        /\ mem[p][FileMappings].files \subseteq Path
    BY <2>1 DEF MappingsOK, UserDir, TreeFile
  <2>3. /\ KeyTableOK(mem[p][UserInfo], keys) /\ KeyTableOK(mem[p][AdminKeys], keys)
        /\ mem[p][SharedInfo] \subseteq TreeFile \X TreeFile
    BY <1>4, ProcessFacts DEF MemOK, StoreOK, Store
  <2>4. \A t : KeyTableOK(t, keys) => t \in KeyTable
    BY DEF KeyTableOK, KeyTable, PublicKey
  <2>5. mem[p][SharedInfo] \subseteq Path \X Path
    BY <2>3 DEF TreeFile
  <2> QED
    BY <2>2, <2>3, <2>4, <2>5 DEF MemoryOK
<1> QED
    BY <1>1, <1>2, <1>3, <1>4 DEF TypeOK

\* Whatever runs side by side and is killed: the stores are tables of what they
\* are tables of, and a directory is never a file.
THEOREM SessionsTypes == Spec => []TypeOK
    BY SessionsInvariance, TypesImplied, PTL

LEMMA SealedForOwnerImplied == IInv => SealedForOwner
    BY DEF IInv, HostOK, FileOK, SealedForOwner, Owner

\* What secureFile leaves on the host is encrypted for the one it belongs to,
\* even if two processes encrypt the same file and others overwrite the stores
\* the public keys were read from.
THEOREM SealingIsForTheOwner == Spec => []SealedForOwner
    BY SessionsInvariance, SealedForOwnerImplied, PTL

LEMMA VersionsRootedImplied == IInv => VersionsRooted
<1> SUFFICES ASSUME IInv PROVE VersionsRooted
    OBVIOUS
<1>1. ASSUME IsWhole(FileMappings)
      PROVE  Rooted(saved(FileMappings))
  <2>1. FileMappings \in Store
    BY DEF Store
  <2>2. StoreOK(FileMappings, saved(FileMappings), keys)
    BY <1>1, <2>1, LoadedStore DEF IsWhole, saved
  <2> QED
    BY <2>2 DEF StoreOK, MappingsOK
<1>2. \A p \in Proc : Rooted(mem[p][FileMappings])
    BY ProcessFacts DEF MappingsOK
<1> QED
    BY <1>1, <1>2 DEF VersionsRooted

\* Whole stores that are written over each other can lose what a process has
\* registered, but never leave an entry without the directory it is in.
THEOREM EveryVersionRooted == Spec => []VersionsRooted
    BY SessionsInvariance, VersionsRootedImplied, PTL

-----------------------------------------------------------------------------
(* Plaintext in the encrypted tree *)

\* A step is that of one process, and it is told by what is to be done next.
LEMMA OnlyOneSteps ==
    ASSUME IInv, NEW p \in Proc, Step(p)
    PROVE  /\ \A q \in Proc \ {p} : todo'[q] = todo[q]
           /\ \/ UNCHANGED host
              \/ Open(p) \/ Put(p) \/ PutKey(p) \/ Seal(p)
              \/ RegisterDirectory(p) \/ RegisterFile(p) \/ RemoveFile(p)
<1>1. CASE Proceed(p)
  <2>1. \A q \in Proc \ {p} : todo'[q] = todo[q]
    BY <1>1 DEF Proceed, Load, FirstRun, Refuse, Login, Unlock, Open, Put, PutKey, Read,
                Seal, Learn, RegisterDirectory, RegisterFile, Establish, NextCopy, Fetch,
                RemoveFile, Link, Quit, Getline, Gone, Throw, Done, Expand, vars, procVars,
                IInv, Shape
  <2>2. \/ UNCHANGED host
        \/ Open(p) \/ Put(p) \/ PutKey(p) \/ Seal(p)
        \/ RegisterDirectory(p) \/ RegisterFile(p) \/ RemoveFile(p)
    BY <1>1 DEF Proceed, Load, FirstRun, Refuse, Login, Unlock, Read, Learn, Establish,
                NextCopy, Fetch, Link, Quit, Getline, vars, hostVars
  <2> QED
    BY <2>1, <2>2
<1>2. CASE Command(p)
    BY <1>2 DEF Command, Cd, Cat, MkfileCreate, MkfileOverwrite, Mkdir, Share, AddUser, Exit,
                EndOfInput, Enter, hostVars, IInv, Shape
<1>3. CASE Kill(p) \/ Crash(p)
    BY <1>3 DEF Kill, Crash, Gone, hostVars, IInv, Shape
<1> QED
    BY <1>1, <1>2, <1>3 DEF Step

LEMMA StepAtRead ==
    ASSUME NEW p \in Proc, Step(p), At(p, "read") \/ At(p, "open")
    PROVE  \/ Crash(p)
           \/ At(p, "read") /\ Read(p)
           \/ At(p, "open") /\ Open(p)
<1>1. todo[p] # <<>> /\ Head(todo[p]).do \in {"read", "open"}
    BY DEF At
<1>2. ~Command(p) /\ ~Kill(p)
    BY <1>1 DEF Command, Cd, Cat, MkfileCreate, MkfileOverwrite, Mkdir, Share, AddUser, Exit,
                EndOfInput, Kill, MayCreateHere, AtPrompt, At
<1>3. CASE Proceed(p)
    BY <1>1, <1>3
       DEF Proceed, Load, FirstRun, Refuse, Login, Unlock, Put, PutKey, Read, Open,
           Seal, Learn, RegisterDirectory, RegisterFile, Establish, NextCopy, Fetch,
           RemoveFile, Link, Quit, Getline, At
<1> QED
    BY <1>2, <1>3 DEF Step

\* A file that stays as it is, while the process that takes a step is not
\* encrypting it.
LEMMA StaysAsItIs ==
    ASSUME IInv, NEW p \in Proc, \A q \in Proc \ {p} : todo'[q] = todo[q],
           NEW f, f \in DOMAIN host, host'[f] = host[f], Exposed(f)',
           ~(At(p, "read") /\ File(p) = f),
           ~(At(p, "open") /\ Op(p).write.do = "seal" /\ File(p) = f)
    PROVE  BeingSealed(f)' \/ (Exposed(f) /\ ~BeingSealed(f))
<1>1. Exposed(f)
    BY DEF Exposed
<1>2. ASSUME BeingSealed(f)
      PROVE  BeingSealed(f)'
  <2>1. PICK q \in Proc :
            \/ At(q, "read") /\ File(q) = f
            \/ At(q, "open") /\ Op(q).write.do = "seal" /\ File(q) = f
    BY <1>2 DEF BeingSealed
  <2>2. q # p
    BY <2>1
  <2>3. todo'[q] = todo[q]
    BY <2>2
  <2> QED
    BY <2>1, <2>3 DEF BeingSealed, At, File, Op
<1> QED
    BY <1>1, <1>2

\* What is written in the clear is next to be encrypted.
LEMMA PutIsSealed ==
    ASSUME IInv, NEW p \in Proc, Put(p), NEW g \in Sensitive, g = File(p), Exposed(g)'
    PROVE  BeingSealed(g)' \/ host'[g] = host[g] \/ g \notin DOMAIN host
<1> DEFINE s == Op(p)
           r == Tail(todo[p])
           content == Plaintext(IF g \in Store THEN mem[p][g] ELSE hold[p])
<1>1. /\ s.do = "put" /\ s.file = g /\ todo[p] # <<>> /\ todo'[p] = r
      /\ Overwrite(g, content)
    BY DEF Put, At, Op, File, Done, IInv, Shape
<1>2. CASE HandleOK(todo[p], mem[p], hold[p], keys, DOMAIN host)
  <2>1. ReadNext(g, r)
    BY <1>1, <1>2, CurrentStep DEF Ready, Puts
  <2>2. r # <<>> /\ Head(r).do = "read" /\ Head(r).file = g
    BY <2>1 DEF ReadNext
  <2> QED
    BY <1>1, <2>2 DEF BeingSealed, At, File, Op
<1>3. CASE StartOK(todo[p], user[p], mem[p], hold[p])
  <2>1. s \in StartStep(user[p])
    BY <1>1, <1>3, UnconsFacts DEF StartOK, Op
  <2>2. g \in Store
    <3>1. s.do = "put" /\ s.file = g
      BY <1>1
    <3> HIDE DEF s
    <3>2. s.do = "put" => s.file \in Store
      BY <2>1, StartFacts
    <3> QED
      BY <3>1, <3>2
  <2>3. g = AdminKeys
    BY <2>2, OwnerFacts
  <2>4. content = Plaintext(<<>>)
    BY <1>3, <2>2, <2>3 DEF StartOK
  <2> HIDE DEF content
  <2>5. g \in DOMAIN host =>
            host'[g] \in {host[g], Plaintext(<<>>), Mixture(host[g], Plaintext(<<>>))}
    BY <1>1, <2>4 DEF Overwrite, Overwritten, Set
  <2>6. host'[g] \notin {Plaintext(<<>>), Mixture(host[g], Plaintext(<<>>))}
    BY MixtureFacts DEF Exposed, Plaintext
  <2> QED
    BY <2>5, <2>6
<1> QED
    BY <1>2, <1>3 DEF IInv, LocalOK, Local

\* What is written to encrypt a file, is not plaintext.
LEMMA SealIsSealed ==
    ASSUME IInv, NEW p \in Proc, Seal(p), NEW g, g = File(p), g \in DOMAIN host,
           Exposed(g)'
    PROVE  host'[g] = host[g]
<1> DEFINE s == Op(p)
           k == publicKey(p, s.for)
           content == Sealed(k, hold[p])
<1>1. s.do = "seal" /\ s.file = g /\ todo[p] # <<>> /\ Overwrite(g, content)
    BY DEF Seal, At, Op, File
<1>2. hold[p] = Empty \/ k \in 1 .. Len(keys)
  <2>1. HandleOK(todo[p], mem[p], hold[p], keys, DOMAIN host)
    BY <1>1, HandlingFacts
  <2>2. s \in AnyStep(keys) /\ SealOK(s, mem[p], hold[p], keys)
    BY <1>1, <2>1, CurrentStep
  <2> QED
    BY <1>1, <2>2, StepFacts DEF SealOK, Seals, publicKey, knownUsers
<1>3. content = Blank \/ content.key # Plain
  <2>1. \A i \in 1 .. Len(keys) : i # 0
    OBVIOUS
  <2> QED
    BY <1>2, <2>1 DEF Sealed, Plain
<1> HIDE DEF content
<1>4. host'[g] \in {host[g], content, Mixture(host[g], content)}
    BY <1>1 DEF Overwrite, Overwritten, Set
<1>5. host'[g] # Mixture(host[g], content) /\ host'[g] # content
    BY <1>3, MixtureFacts DEF Exposed, Plaintext, Blank
<1> QED
    BY <1>4, <1>5

\* What NoPlaintextLeft says of a step.
PlaintextIsSealed ==
    \A f \in DOMAIN host' :
        (InTree(f) \/ f = AdminKeys) /\ Exposed(f)' =>
            \/ BeingSealed(f)'
            \/ Exposed(f) /\ ~BeingSealed(f)
            \/ LeavesPlaintext

\* The first half of secureFile is followed by the second, or by an exception
\* if there is no key.
LEMMA ReadIsFollowed ==
    ASSUME IInv, NEW p \in Proc, Read(p), NEW f, f = File(p), f \in DOMAIN host,
           Exposed(f)
    PROVE  BeingSealed(f)' \/ LeavesPlaintext
<1> DEFINE v == Op(p).for
           t == todo[p]
<1>1. At(p, "read") /\ t # <<>>
    BY DEF Read, At
<1>2. ReadPlain(f) # Empty /\ f \notin tree
    BY DEF ReadPlain, Exposed, IInv, HostOK, FileOK
<1>3. CASE publicKey(p, v) \notin 1 .. Len(keys)
  <2>1. Throw(p, Op(p).catcher)
    BY <1>2, <1>3 DEF Read
  <2>2. todo'[p] \in {Tail(t), <<>>}
    BY <2>1 DEF Throw, Done, Gone, IInv, Shape
  <2>3. Tail(t) # t
    <3>1. HandleOK(t, mem[p], hold[p], keys, DOMAIN host)
      BY <1>1, HandlingFacts DEF At, Op
    <3>2. t \in Seq(AnyStep(keys))
      BY <3>1 DEF HandleOK
    <3> HIDE DEF t
    <3>3. Len(t) \in Nat \ {0} /\ Len(Tail(t)) = Len(t) - 1
      BY <1>1, <3>2, UnconsFacts
    <3>4. \A i \in Nat : i - 1 # i
      OBVIOUS
    <3> QED
      BY <3>3, <3>4
  <2>4. todo'[p] # todo[p]
    BY <1>1, <2>2, <2>3
  <2> QED
    BY <1>1, <1>3, <2>4 DEF LeavesPlaintext
<1>4. CASE publicKey(p, v) \in 1 .. Len(keys)
  <2> DEFINE x == Opening(f, [do |-> "seal", file |-> f, for |-> v])
  <2>1. todo'[p] = <<x>> \o Tail(t)
    BY <1>2, <1>4 DEF Read, Expand, Replace, IInv, Shape
  <2>2. x.do = "open" /\ x.write.do = "seal" /\ x.file = f
    BY DEF Opening
  <2>3. <<x>> \o Tail(t) # <<>> /\ Head(<<x>> \o Tail(t)) = x
    <3>1. HandleOK(t, mem[p], hold[p], keys, DOMAIN host)
      BY <1>1, HandlingFacts DEF At, Op
    <3>2. Tail(t) \in Seq(QueuedStep(keys) \cup {x}) /\ x \in QueuedStep(keys) \cup {x}
      BY <1>1, <3>1, CurrentStep, SeqMonotonic
    <3> HIDE DEF t, x
    <3> QED
      BY <3>2, ConsFacts
  <2> HIDE DEF x, t
  <2>4. todo'[p] # <<>> /\ Head(todo'[p]) = x
    BY <2>1, <2>3
  <2> QED
    BY <2>2, <2>4 DEF BeingSealed, At, File, Op
<1> QED
    BY <1>3, <1>4

LEMMA StepsSeal ==
    ASSUME IInv, IInv', NEW p \in Proc, Step(p)
    PROVE  PlaintextIsSealed
<1> SUFFICES ASSUME NEW f \in DOMAIN host', InTree(f) \/ f = AdminKeys, Exposed(f)'
             PROVE  BeingSealed(f)' \/ (Exposed(f) /\ ~BeingSealed(f)) \/ LeavesPlaintext
    BY DEF PlaintextIsSealed
<1>1. f \in Sensitive
  <2>1. f \in HostFile
    BY DEF IInv, HostOK, FileOK
  <2> QED
    BY <2>1, FileKinds DEF Sensitive
<1>2. \A q \in Proc \ {p} : todo'[q] = todo[q]
    BY OnlyOneSteps
<1>3. ASSUME f \in DOMAIN host, host'[f] = host[f],
             ~(At(p, "read") /\ File(p) = f),
             ~(At(p, "open") /\ Op(p).write.do = "seal" /\ File(p) = f)
      PROVE  BeingSealed(f)' \/ (Exposed(f) /\ ~BeingSealed(f))
    BY <1>2, <1>3, StaysAsItIs
<1>4. CASE Crash(p)
  <2>1. crashes' = crashes + 1 /\ crashes \in Nat
    BY <1>4 DEF Crash, IInv, Shape
  <2> QED
    BY <2>1 DEF LeavesPlaintext
<1>5. CASE At(p, "read") /\ Read(p)
  <2>1. UNCHANGED host
    BY <1>5 DEF Read, hostVars
  <2>2. f \in DOMAIN host /\ host'[f] = host[f] /\ Exposed(f)
    BY <2>1 DEF Exposed
  <2>3. CASE File(p) = f
    BY <1>5, <2>2, <2>3, ReadIsFollowed
  <2>4. CASE File(p) # f
    BY <1>3, <1>5, <2>2, <2>4 DEF At
  <2> QED
    BY <2>3, <2>4
<1>6. CASE At(p, "open") /\ Open(p)
  <2>1. CASE File(p) = f
    <3>1. Openable(f) => host'[f] = Blank
      BY <1>6, <2>1 DEF Open, Set
    <3>2. ~Openable(f)
      BY <3>1 DEF Exposed, Blank, Plaintext
    <3>3. f \in DOMAIN host
      BY <1>6, <2>1, <3>2 DEF Open
    <3> QED
      BY <3>2, <3>3 DEF IInv, HostOK, FileOK, Openable
  <2>2. CASE File(p) # f
    <3>1. f \in DOMAIN host /\ host'[f] = host[f]
      BY <1>6, <2>2 DEF Open, Set
    <3> QED
      BY <1>3, <2>2, <3>1
  <2> QED
    BY <2>1, <2>2
<1>7. CASE ~At(p, "read") /\ ~At(p, "open")
  <2>1. CASE f \in DOMAIN host /\ host'[f] = host[f]
    BY <1>3, <1>7, <2>1
  <2>2. CASE f \notin DOMAIN host \/ host'[f] # host[f]
    <3>1. ~Open(p)
      BY <1>7 DEF Open
    <3>2. ~UNCHANGED host
      BY <2>2
    <3>3. ~RemoveFile(p)
      BY <2>2 DEF RemoveFile
    <3>4. ~RegisterDirectory(p) /\ ~RegisterFile(p)
      <4>1. f # FileMappings
        BY <1>1, OwnerFacts, FileKinds DEF Store
      <4> QED
        BY <2>2, <4>1 DEF RegisterDirectory, RegisterFile, Set
    <3>5. ASSUME NEW content, Overwrite(File(p), content)
          PROVE  f = File(p) /\ f \in DOMAIN host
      <4>1. DOMAIN host' = DOMAIN host
        BY <3>5, WrittenStays
      <4> QED
        BY <2>2, <3>5, <4>1 DEF Overwrite, Set
    <3>6. CASE Put(p)
      <4>1. f = File(p) /\ f \in DOMAIN host
        BY <3>5, <3>6 DEF Put
      <4> QED
        BY <1>1, <2>2, <3>6, <4>1, PutIsSealed
    <3>7. ~PutKey(p)
      <4>1. ASSUME PutKey(p)
            PROVE  FALSE
        <5>1. f = File(p)
          BY <3>5, <4>1 DEF PutKey
        <5>2. Op(p).do = "put key" /\ todo[p] # <<>>
          BY <4>1 DEF PutKey, At, Op
        <5>3. File(p) \in KeyPairFile
          BY <5>2, HandlingFacts, CurrentStep, StepFacts DEF File
        <5> QED
          BY <1>1, <5>1, <5>3, OwnerFacts
      <4> QED
        BY <4>1
    <3>8. ~Seal(p)
      <4>1. ASSUME Seal(p)
            PROVE  FALSE
        <5>1. f = File(p) /\ f \in DOMAIN host
          BY <3>5, <4>1 DEF Seal
        <5> QED
          BY <2>2, <4>1, <5>1, SealIsSealed
      <4> QED
        BY <4>1
    <3> QED
      BY <3>1, <3>2, <3>3, <3>4, <3>6, <3>7, <3>8, OnlyOneSteps
  <2> QED
    BY <2>1, <2>2
<1> QED
    BY <1>4, <1>5, <1>6, <1>7, StepAtRead

LEMMA StartsSeal ==
    ASSUME IInv, NEW p \in Proc, NEW u, Start(p, u)
    PROVE  PlaintextIsSealed
<1> SUFFICES ASSUME NEW f \in DOMAIN host', Exposed(f)'
             PROVE  BeingSealed(f)' \/ (Exposed(f) /\ ~BeingSealed(f)) \/ LeavesPlaintext
    BY DEF PlaintextIsSealed
<1>1. todo[p] = <<>> /\ \A q \in Proc \ {p} : todo'[q] = todo[q]
    BY DEF Start, Running, IInv, Shape
<1>2. f \in DOMAIN host /\ host'[f] = host[f]
    BY DEF Start
<1> QED
    BY <1>1, <1>2, StaysAsItIs DEF At

\* Plaintext written into the encrypted tree, or into the file of the private
\* keys, is encrypted by the next two accesses of whoever wrote it; what two
\* processes do to the same file does not change that.
THEOREM PlaintextIsNeverLeft == Spec => NoPlaintextLeft
<1>1. IInv /\ IInv' /\ [Next]_vars => PlaintextIsSealed \/ UNCHANGED vars
    BY StepsSeal, StartsSeal DEF Next
<1>2. IInv /\ [Next]_vars => IInv'
    BY SessionsInductive
<1>3. [PlaintextIsSealed \/ UNCHANGED vars]_vars => [PlaintextIsSealed]_vars
    OBVIOUS
<1>4. (Spec => [][PlaintextIsSealed]_vars) => (Spec => NoPlaintextLeft)
    BY DEF NoPlaintextLeft, PlaintextIsSealed
<1> QED
    BY <1>1, <1>2, <1>3, <1>4, SessionsInvariance, PTL DEF Spec

=============================================================================
