--------------------------- MODULE RecoveryLemmas ---------------------------
(***************************************************************************)
(* An invariant of the disk, and of the memory and the steps left of a     *)
(* process, where one runs at a time; and what can be said of it without   *)
(* a step being taken.  RecoveryProofs shows that the steps keep it.       *)
(*                                                                         *)
(* As in SessionsProofs, what is said of a process is said of values: h    *)
(* for host, u for user, m for the stores in its memory, hd for hold, t    *)
(* for todo, ks for keys.                                                  *)
(***************************************************************************)
EXTENDS SessionsProofs

-----------------------------------------------------------------------------
(* How the stores fit together, in memory or on the disk *)

Whole(h, s) ==
    s \in DOMAIN h /\ h[s].key = Plain /\ h[s].text \notin {Empty, Garbled}

Homed(mappings, table) ==
    \A u \in DOMAIN table : HomeDirs(u) \subseteq mappings.dirs
Owned(mappings, table)  == \A f \in mappings.files : f[1] \in DOMAIN table
Joined(mappings, links) == \A l \in links : {l[1], l[2]} \subseteq mappings.files

\* Every entry of a is in b.
Agrees(a, b) == \A u \in DOMAIN a : u \in DOMAIN b /\ a[u] = b[u]

\* The same, of private keys: the record of a user may be null.
FitsOrNull(a, b) == \A u \in DOMAIN a : u \in DOMAIN b /\ a[u] \in {NoKey, b[u]}

\* The keyfiles, and the private keys kept for admin, that go with a UserInfo.
KeyfilesFit(h, table) ==
    \A u \in DOMAIN table :
        /\ KeyFile(u) \in DOMAIN h /\ h[KeyFile(u)].text = table[u]
        /\ table[u] \in Nat

SecretsFit(h, table) ==
    AdminKeys \in DOMAIN h /\ h[AdminKeys].key # Plain =>
        /\ Admin \in DOMAIN table /\ h[AdminKeys].key = table[Admin]
        /\ h[AdminKeys].text # Garbled /\ FitsOrNull(h[AdminKeys].text, table)

\* A version of FileMappings, and what is on the disk.
MappingsFit(h, mappings) ==
    /\ Whole(h, FileMappings) => h[FileMappings].text = mappings
    /\ Whole(h, UserInfo) => /\ Homed(mappings, h[UserInfo].text)
                             /\ Owned(mappings, h[UserInfo].text)
    /\ Whole(h, SharedInfo) => Joined(mappings, h[SharedInfo].text)
    /\ UserInfo \notin DOMAIN h => mappings.files = {}

\* A version of UserInfo, and what is on the disk.
UsersFit(h, table) ==
    /\ KeyfilesFit(h, table) /\ SecretsFit(h, table)
    /\ Whole(h, UserInfo) =>
          Agrees(h[UserInfo].text, table) /\ SecretsFit(h, h[UserInfo].text)

Consistent(h, m) ==
    /\ {FileMappings, UserInfo, SharedInfo} \subseteq DOMAIN h
    /\ MappingsFit(h, m[FileMappings]) /\ UsersFit(h, m[UserInfo])
    /\ Owned(m[FileMappings], m[UserInfo])
    /\ Joined(m[FileMappings], m[SharedInfo])
    /\ FitsOrNull(m[AdminKeys], m[UserInfo])

\* UserInfo on the disk is that in memory.
UsersSaved(h, m) == Whole(h, UserInfo) /\ h[UserInfo].text = m[UserInfo]

-----------------------------------------------------------------------------
(* What the steps of a process need, and what they give *)

SavesUsers(s) == Puts(s) /\ s.file = UserInfo
PutsSecrets(s)  == Puts(s) /\ s.file = AdminKeys
ReadsSecrets(s) == s.do = "read" /\ s.file = AdminKeys
SealsSecrets(s) == Seals(s) /\ s.file = AdminKeys
MakesKey(s) ==
    s.do = "put key" \/ (s.do = "open" /\ s.write.do \in {"open", "put key"})
LearnsUser(s) == s.do = "learn" /\ s.file = PublicFile(s.file[2])

\* The files of a pair are opened one in the other; the key they get, and those
\* that are still to get it.
KeyPut(s)   == CASE s.do = "put key" -> s
                 [] s.do = "open" /\ s.write.do = "put key" -> s.write
                 [] OTHER -> s.write.write
NumberOf(s) == KeyPut(s).key
NameOf(s)   == KeyPut(s).file[2]
KeysOf(s)   == {KeyPut(s).file, PublicFile(NameOf(s))}

\* Facts: a directory or a file is registered, a user is known, a key file
\* holds the newest key, UserInfo on the disk is that in memory.
Saved == <<"saved">>

Gives(s) ==
    CASE s.do = "register dir"  -> {<<"dir", s.file>>}
      [] s.do = "register file" -> {<<"file", s.file>>}
      [] LearnsUser(s)          -> {<<"user", s.file[2]>>}
      [] MakesKey(s)            -> {<<"key", f>> : f \in KeysOf(s)}
      [] SavesUsers(s)          -> {Saved}
      [] OTHER                  -> {}

\* All users known have their homes registered.
Housed(facts) ==
    \A u \in User : <<"user", u>> \in facts =>
        \A d \in HomeDirs(u) : <<"dir", d>> \in facts

Needs(s, facts, newest) ==
    /\ s.do = "register file" => <<"user", s.file[1]>> \in facts /\ Saved \in facts
    /\ s.do = "link" => <<"file", s.file>> \in facts /\ <<"file", s.copy>> \in facts
    /\ s.do = "read" => <<"user", s.for>> \in facts
    /\ s.do \in {"read", "fetch"} /\ s.catcher = "command" => Saved \in facts
    /\ PutsSecrets(s) \/ ReadsSecrets(s) \/ SealsSecrets(s) => Saved \in facts
    /\ MakesKey(s) => NumberOf(s) = newest /\ <<"user", NameOf(s)>> \notin facts
    /\ LearnsUser(s) => {<<"key", s.file>>, <<"key", KeyFile(s.file[2])>>} \subseteq facts
    /\ s.do = "learn" => /\ LearnsUser(s) \/ <<"user", s.file[2]>> \in facts
                         /\ Saved \notin facts
    /\ SavesUsers(s) => Housed(facts)

GivenBefore(t, i) == UNION {Gives(t[j]) : j \in 1 .. i - 1}
GivenBy(t)        == UNION {Gives(s) : s \in ToSet(t)}

Feasible(t, facts, newest) ==
    \A i \in DOMAIN t : Needs(t[i], facts \cup GivenBefore(t, i), newest)

Saves(t)  == \E s \in ToSet(t) : SavesUsers(s)
Learns(t) == \E s \in ToSet(t) : s.do = "learn"
Ends(t)   == \E s \in ToSet(t) : s.do \in {"begin", "quit"}

\* The private keys are read when they have just been written.
ReadsBack(t) ==
    \A i \in DOMAIN t : ReadsSecrets(t[i]) /\ i # 1 => PutsSecrets(t[i - 1])

-----------------------------------------------------------------------------
(* The inductive invariant *)

\* What is on the disk, whatever runs.
DiskOK(h) ==
    /\ UserInfo \in DOMAIN h \/ SharedInfo \in DOMAIN h => FileMappings \in DOMAIN h
    /\ AdminKeys \in DOMAIN h => UserInfo \in DOMAIN h
    /\ Whole(h, FileMappings) => MappingsFit(h, h[FileMappings].text)
    /\ Whole(h, UserInfo) => UsersFit(h, h[UserInfo].text)

\* The loads that are left, the first of them that of s.
LoadsFrom(s, f) ==
    CASE s = FileMappings -> <<On("load", FileMappings), On("load", UserInfo),
                               On("load", SharedInfo), On("begin", f)>>
      [] s = UserInfo     -> <<On("load", UserInfo), On("load", SharedInfo),
                               On("begin", f)>>
      [] s = SharedInfo   -> <<On("load", SharedInfo), On("begin", f)>>

\* A process that reads the stores; the one it has come to may have to be made.
Loading(h, u, m, t) ==
    \E f \in KeyPairFile, s \in {FileMappings, UserInfo, SharedInfo} :
        /\ u = NoUser
        /\ \/ t = LoadsFrom(s, f)
           \/ /\ \/ t = Write(s) \o LoadsFrom(s, f)
                 \/ /\ t = <<On("put", s)>> \o LoadsFrom(s, f)
                    /\ s \in DOMAIN h /\ h[s] = Blank
              /\ s = FileMappings => UserInfo \notin DOMAIN h
              /\ s = FileMappings => SharedInfo \notin DOMAIN h
              /\ s = UserInfo => AdminKeys \notin DOMAIN h /\ m[FileMappings].files = {}
        /\ s = FileMappings => m = NewMemory
        /\ s # FileMappings =>
              FileMappings \in DOMAIN h /\ MappingsFit(h, m[FileMappings])
        /\ s = UserInfo => m[UserInfo] = <<>>
        /\ s = SharedInfo => UsersFit(h, m[UserInfo]) /\ UsersSaved(h, m)
        /\ m[SharedInfo] = {} /\ m[AdminKeys] = <<>>

BaseFacts(h, m, ks) ==
    {<<"dir", d>> : d \in m[FileMappings].dirs}
    \cup {<<"file", f>> : f \in m[FileMappings].files}
    \cup {<<"user", u>> : u \in DOMAIN m[UserInfo]}
    \cup {<<"key", f>> : f \in {g \in KeyPairFile \cap DOMAIN h :
                                   h[g] = Plaintext(Len(ks))}}

Facts(h, m, t, ks) ==
    BaseFacts(h, m, ks) \cup {e \in {Saved} : UsersSaved(h, m) /\ ~Learns(t)}

PlanOK(h, m, t, ks) ==
    /\ Feasible(t, Facts(h, m, t, ks), Len(ks))
    /\ ReadsBack(t)
    /\ Learns(t) => Saves(t)
    /\ UsersSaved(h, m) \/ Saves(t)

\* What is to be done once the stores are read.
Handling(t, ks) ==
    \/ t = <<>>
    \/ t \in Seq(AnyStep(ks)) /\ t # <<>> /\ Tail(t) \in Seq(QueuedStep(ks))
    \/ t = <<On("unlock", AdminKeys)>>
    \/ \E f \in KeyPairFile : t = <<On("begin", f)>>

Blanked(h, f) == f \in DOMAIN h /\ h[f] = Blank

\* A file that is about to be written is empty, and the private keys in hand,
\* or in the clear, are those in memory.
HeadOK(h, m, hd, s) ==
    /\ s.do \in {"put", "seal"} => Blanked(h, s.file)
    /\ s.do = "put key" => \A f \in KeysOf(s) : Blanked(h, f)
    /\ s.do = "open" /\ s.write.do = "put key" => Blanked(h, s.write.file)
    /\ ReadsSecrets(s) =>
          AdminKeys \in DOMAIN h /\ h[AdminKeys] = Plaintext(m[AdminKeys])
    /\ SealsSecrets(s) => hd = m[AdminKeys]

Loaded(h, u, m, hd, t, ks) ==
    /\ Consistent(h, m)
    /\ Handling(t, ks)
    /\ PlanOK(h, m, t, ks)
    /\ t # <<>> => HeadOK(h, m, hd, Head(t))
    /\ IF u = NoUser THEN Ends(t) ELSE {u, Admin} \subseteq DOMAIN m[UserInfo]

Fits(p) ==
    IF Running(p)
    THEN \/ Loading(host, user[p], mem[p], todo[p])
         \/ Loaded(host, user[p], mem[p], hold[p], todo[p], keys)
    ELSE mem[p] = NewMemory

OneRuns == \A p, q \in Proc : Running(p) /\ Running(q) => p = q

RInv == OneRuns /\ DiskOK(host) /\ \A p \in Proc : Fits(p)

-----------------------------------------------------------------------------
(* Sequences of steps *)

\* What is true of a step and of those after it.
LEMMA StepsOf ==
    ASSUME NEW S, NEW t \in Seq(S), t # <<>>
    PROVE  ToSet(t) = {Head(t)} \cup ToSet(Tail(t))
<1>1. /\ Head(t) = t[1] /\ Len(t) \in Nat \ {0}
      /\ DOMAIN t = 1 .. Len(t) /\ DOMAIN Tail(t) = 1 .. Len(t) - 1
      /\ \A i \in 1 .. Len(t) - 1 : Tail(t)[i] = t[i + 1]
    BY UnconsFacts
<1>2. 1 \in DOMAIN t /\ \A i \in DOMAIN Tail(t) : i + 1 \in DOMAIN t
    BY <1>1
<1>3. \A i \in DOMAIN t : i = 1 \/ (i - 1 \in DOMAIN Tail(t) /\ t[i] = Tail(t)[i - 1])
    BY <1>1
<1>4. ToSet(t) \subseteq {Head(t)} \cup ToSet(Tail(t))
    BY <1>1, <1>3 DEF ToSet
<1>5. {Head(t)} \cup ToSet(Tail(t)) \subseteq ToSet(t)
    BY <1>1, <1>2 DEF ToSet
<1> QED
    BY <1>4, <1>5

\* The steps of two sequences, one after the other.
LEMMA StepsOfConcat ==
    ASSUME NEW S, NEW s \in Seq(S), NEW t \in Seq(S)
    PROVE  ToSet(s \o t) = ToSet(s) \cup ToSet(t)
<1> DEFINE m == Len(s)
           n == Len(t)
           st == s \o t
<1>1. /\ m \in Nat /\ n \in Nat /\ DOMAIN s = 1 .. m /\ DOMAIN t = 1 .. n
      /\ DOMAIN st = 1 .. m + n
      /\ \A i \in 1 .. m + n : st[i] = IF i <= m THEN s[i] ELSE t[i - m]
    BY ConcatProperties, LenProperties
<1> HIDE DEF m, n, st
<1>2. \A i \in 1 .. m : i \in 1 .. m + n /\ st[i] = s[i]
    BY <1>1
<1>3. \A i \in 1 .. n : i + m \in 1 .. m + n /\ st[i + m] = t[i]
    BY <1>1
<1>4. \A i \in 1 .. m + n : \/ i \in 1 .. m /\ st[i] = s[i]
                            \/ i - m \in 1 .. n /\ st[i] = t[i - m]
    BY <1>1
<1>5. ToSet(st) \subseteq ToSet(s) \cup ToSet(t)
    BY <1>1, <1>4 DEF ToSet
<1>6. ToSet(s) \cup ToSet(t) \subseteq ToSet(st)
    BY <1>1, <1>2, <1>3 DEF ToSet
<1> QED
    BY <1>5, <1>6 DEF st

\* The step of a sequence of one.
LEMMA StepsOfOne == \A x : ToSet(<<x>>) = {x}
    BY DEF ToSet

\* There is none in the empty sequence.
LEMMA StepsOfNone == ToSet(<<>>) = {}
    BY DEF ToSet

\* What a sequence gives, saves, learns and ends, from its first step and the
\* rest.
LEMMA RestFacts ==
    ASSUME NEW S, NEW t \in Seq(S), t # <<>>
    PROVE  /\ GivenBy(t) = Gives(Head(t)) \cup GivenBy(Tail(t))
           /\ Saves(t)  <=> SavesUsers(Head(t)) \/ Saves(Tail(t))
           /\ Learns(t) <=> Head(t).do = "learn" \/ Learns(Tail(t))
           /\ Ends(t)   <=> Head(t).do \in {"begin", "quit"} \/ Ends(Tail(t))
<1>1. ToSet(t) = {Head(t)} \cup ToSet(Tail(t))
    BY StepsOf
<1>2. GivenBy(t) = Gives(Head(t)) \cup GivenBy(Tail(t))
    BY <1>1 DEF GivenBy
<1> QED
    BY <1>1, <1>2 DEF Saves, Learns, Ends

\* The same of two sequences, one after the other.
LEMMA ConcatFacts ==
    ASSUME NEW S, NEW s \in Seq(S), NEW t \in Seq(S)
    PROVE  /\ GivenBy(s \o t) = GivenBy(s) \cup GivenBy(t)
           /\ Saves(s \o t)  <=> Saves(s) \/ Saves(t)
           /\ Learns(s \o t) <=> Learns(s) \/ Learns(t)
           /\ Ends(s \o t)   <=> Ends(s) \/ Ends(t)
<1>1. ToSet(s \o t) = ToSet(s) \cup ToSet(t)
    BY StepsOfConcat
<1>2. GivenBy(s \o t) = GivenBy(s) \cup GivenBy(t)
    BY <1>1 DEF GivenBy
<1> QED
    BY <1>1, <1>2 DEF Saves, Learns, Ends

\* What is given before a step, when the first step is told from the others.
LEMMA GivenBeforeRest ==
    ASSUME NEW S, NEW t \in Seq(S), t # <<>>, NEW k \in 1 .. Len(t) - 1
    PROVE  GivenBefore(t, k + 1) = Gives(Head(t)) \cup GivenBefore(Tail(t), k)
<1>1. /\ Head(t) = t[1] /\ Len(t) \in Nat \ {0}
      /\ \A i \in 1 .. Len(t) - 1 : Tail(t)[i] = t[i + 1]
    BY UnconsFacts
<1>2. \A j \in 1 .. k + 1 - 1 : j = 1 \/ (j - 1 \in 1 .. k - 1 /\ t[j] = Tail(t)[j - 1])
    BY <1>1
<1>3. 1 \in 1 .. k + 1 - 1
    BY <1>1
<1>4. \A j \in 1 .. k - 1 : j + 1 \in 1 .. k + 1 - 1 /\ t[j + 1] = Tail(t)[j]
    BY <1>1
<1>5. \A d : (\E j \in 1 .. k + 1 - 1 : d \in Gives(t[j])) <=>
                 d \in Gives(t[1]) \/ \E j \in 1 .. k - 1 : d \in Gives(Tail(t)[j])
    BY <1>2, <1>3, <1>4
<1>6. /\ \A d : d \in GivenBefore(t, k + 1) <=>
                    \E j \in 1 .. k + 1 - 1 : d \in Gives(t[j])
      /\ \A d : d \in GivenBefore(Tail(t), k) <=>
                    \E j \in 1 .. k - 1 : d \in Gives(Tail(t)[j])
    BY DEF GivenBefore
<1>7. \A d : d \in GivenBefore(t, k + 1) <=>
                 d \in Gives(Head(t)) \cup GivenBefore(Tail(t), k)
    BY <1>1, <1>5, <1>6
<1> QED
    BY <1>7

\* A feasible sequence, a step of it at a time.
LEMMA FeasibleRest ==
    ASSUME NEW S, NEW t \in Seq(S), t # <<>>, NEW A, NEW n
    PROVE  Feasible(t, A, n) <=>
               /\ Needs(Head(t), A, n)
               /\ Feasible(Tail(t), A \cup Gives(Head(t)), n)
<1> DEFINE r == Tail(t)
           l == Len(t) - 1
<1>1. /\ Head(t) = t[1] /\ l \in Nat /\ DOMAIN t = 1 .. l + 1 /\ DOMAIN r = 1 .. l
      /\ \A i \in 1 .. l : r[i] = t[i + 1]
    BY UnconsFacts
<1>2. GivenBefore(t, 1) = {}
    BY DEF GivenBefore
<1>3. \A k \in 1 .. l : GivenBefore(t, k + 1) = Gives(Head(t)) \cup GivenBefore(r, k)
    BY GivenBeforeRest
<1> HIDE DEF r, l
<1>4. \A i \in 1 .. l + 1 : i = 1 \/ (i - 1 \in 1 .. l /\ i = i - 1 + 1)
    BY <1>1
<1>5. 1 \in 1 .. l + 1 /\ \A k \in 1 .. l : k + 1 \in 1 .. l + 1
    BY <1>1
<1>6. A \cup {} = A
    OBVIOUS
<1>7. \A k \in 1 .. l : A \cup GivenBefore(t, k + 1) =
                            A \cup Gives(Head(t)) \cup GivenBefore(r, k)
    BY <1>3
<1>8. ASSUME Feasible(t, A, n)
      PROVE  Needs(t[1], A, n) /\ Feasible(r, A \cup Gives(Head(t)), n)
    BY <1>1, <1>2, <1>5, <1>6, <1>7, <1>8 DEF Feasible
<1>9. ASSUME Needs(t[1], A, n), Feasible(r, A \cup Gives(Head(t)), n)
      PROVE  Feasible(t, A, n)
  <2> SUFFICES ASSUME NEW i \in 1 .. l + 1
               PROVE  Needs(t[i], A \cup GivenBefore(t, i), n)
    BY <1>1 DEF Feasible
  <2>1. CASE i = 1
    BY <1>2, <1>6, <1>9, <2>1
  <2>2. CASE \E k \in 1 .. l : i = k + 1
    BY <1>1, <1>7, <1>9, <2>2 DEF Feasible
  <2> QED
    BY <1>4, <2>1, <2>2
<1> QED
    BY <1>1, <1>8, <1>9 DEF r

\* One sequence after another.
LEMMA FeasibleConcat ==
    ASSUME NEW S, NEW s \in Seq(S), NEW t \in Seq(S), NEW A, NEW n,
           Feasible(s, A, n), Feasible(t, A \cup GivenBy(s), n)
    PROVE  Feasible(s \o t, A, n)
<1> DEFINE st == s \o t
           m == Len(s)
           l == Len(t)
<1>1. /\ m \in Nat /\ l \in Nat /\ DOMAIN s = 1 .. m /\ DOMAIN t = 1 .. l
      /\ DOMAIN st = 1 .. m + l
      /\ \A i \in 1 .. m + l : st[i] = IF i <= m THEN s[i] ELSE t[i - m]
    BY ConcatProperties, LenProperties
<1> HIDE DEF st, m, l
<1>2. /\ \A i \in 1 .. m : i \in 1 .. m + l /\ st[i] = s[i]
      /\ \A k \in 1 .. l : m + k \in 1 .. m + l /\ st[m + k] = t[k]
      /\ \A i \in 1 .. m + l : i \in 1 .. m \/ (i - m \in 1 .. l /\ i = m + (i - m))
    BY <1>1
<1>3. \A i \in 1 .. m : GivenBefore(st, i) = GivenBefore(s, i)
  <2> SUFFICES ASSUME NEW i \in 1 .. m
               PROVE  GivenBefore(st, i) = GivenBefore(s, i)
    OBVIOUS
  <2>1. \A j \in 1 .. i - 1 : st[j] = s[j]
    BY <1>1, <1>2
  <2> QED
    BY <2>1 DEF GivenBefore
<1>4. \A k \in 1 .. l : GivenBefore(st, m + k) = GivenBy(s) \cup GivenBefore(t, k)
  <2> SUFFICES ASSUME NEW k \in 1 .. l, NEW i, i = m + k
               PROVE  GivenBefore(st, i) = GivenBy(s) \cup GivenBefore(t, k)
    OBVIOUS
  <2>1. \A j \in 1 .. m : j \in 1 .. i - 1 /\ st[j] = s[j]
    BY <1>1, <1>2
  <2>2. \A j \in 1 .. k - 1 : m + j \in 1 .. i - 1 /\ st[m + j] = t[j]
    BY <1>1, <1>2
  <2>3. \A j \in 1 .. i - 1 : \/ j \in 1 .. m
                              \/ j - m \in 1 .. k - 1 /\ st[j] = t[j - m]
    BY <1>1
  <2>4. \A d : d \in GivenBy(s) <=> \E j \in 1 .. m : d \in Gives(s[j])
    BY <1>1 DEF GivenBy, ToSet
  <2>5. \A d : (\E j \in 1 .. i - 1 : d \in Gives(st[j])) <=>
                   \/ \E j \in 1 .. m : d \in Gives(s[j])
                   \/ \E j \in 1 .. k - 1 : d \in Gives(t[j])
    BY <2>1, <2>2, <2>3
  <2>6. /\ \A d : d \in GivenBefore(st, i) <=> \E j \in 1 .. i - 1 : d \in Gives(st[j])
        /\ \A d : d \in GivenBefore(t, k) <=> \E j \in 1 .. k - 1 : d \in Gives(t[j])
    BY DEF GivenBefore
  <2>7. \A d : d \in GivenBefore(st, i) <=> d \in GivenBy(s) \cup GivenBefore(t, k)
    BY <2>4, <2>5, <2>6
  <2> QED
    BY <2>7
<1>5. SUFFICES ASSUME NEW i \in 1 .. m + l
               PROVE  Needs(st[i], A \cup GivenBefore(st, i), n)
    BY <1>1 DEF Feasible, st
<1>6. CASE i \in 1 .. m
    BY <1>1, <1>2, <1>3, <1>6 DEF Feasible
<1>7. CASE i - m \in 1 .. l /\ i = m + (i - m)
  <2> PICK k \in 1 .. l : i = m + k
    BY <1>7
  <2>1. /\ st[i] = t[k] /\ k \in DOMAIN t
        /\ A \cup GivenBefore(st, i) = (A \cup GivenBy(s)) \cup GivenBefore(t, k)
    BY <1>1, <1>2, <1>4
  <2>2. Needs(t[k], (A \cup GivenBy(s)) \cup GivenBefore(t, k), n)
    BY <2>1 DEF Feasible
  <2> QED
    BY <2>1, <2>2
<1> QED
    BY <1>2, <1>6, <1>7

\* What is read back, a step of it at a time, and one sequence after another.
LEMMA ReadsBackRest ==
    ASSUME NEW S, NEW t \in Seq(S), t # <<>>
    PROVE  ReadsBack(t) <=>
               /\ ReadsBack(Tail(t))
               /\ Tail(t) # <<>> /\ ReadsSecrets(Head(Tail(t))) => PutsSecrets(Head(t))
<1> DEFINE r == Tail(t)
           l == Len(t) - 1
<1>1. /\ Head(t) = t[1] /\ l \in Nat /\ DOMAIN t = 1 .. l + 1 /\ DOMAIN r = 1 .. l
      /\ r \in Seq(S) /\ Len(r) = l
      /\ \A i \in 1 .. l : r[i] = t[i + 1]
    BY UnconsFacts
<1>2. (r # <<>> <=> 1 \in 1 .. l) /\ (r # <<>> => Head(r) = r[1])
    BY <1>1, EmptySeq
<1> HIDE DEF r, l
<1>3. ReadsBack(r) <=> \A i \in 1 .. l : ReadsSecrets(r[i]) /\ i # 1 => PutsSecrets(r[i - 1])
    BY <1>1 DEF ReadsBack
<1>4. ReadsBack(t) <=> \A i \in 1 .. l + 1 : ReadsSecrets(t[i]) /\ i # 1 => PutsSecrets(t[i - 1])
    BY <1>1 DEF ReadsBack
<1>5. \A i \in 1 .. l : /\ i + 1 \in 1 .. l + 1 /\ i + 1 # 1 /\ i + 1 - 1 = i
                        /\ i # 1 => i - 1 \in 1 .. l /\ i - 1 + 1 = i
    BY <1>1
<1>6. \A i \in 1 .. l + 1 : i # 1 => i - 1 \in 1 .. l /\ i - 1 + 1 = i
    BY <1>1
<1>7. ASSUME ReadsBack(t)
      PROVE  ReadsBack(r) /\ (1 \in 1 .. l /\ ReadsSecrets(r[1]) => PutsSecrets(t[1]))
  <2>1. \A i \in 1 .. l : ReadsSecrets(r[i]) => PutsSecrets(t[i])
    BY <1>1, <1>4, <1>5, <1>7
  <2>2. \A i \in 1 .. l : i # 1 => r[i - 1] = t[i]
    BY <1>1, <1>5
  <2> QED
    BY <1>3, <2>1, <2>2
<1>8. ASSUME ReadsBack(r), 1 \in 1 .. l /\ ReadsSecrets(r[1]) => PutsSecrets(t[1])
      PROVE  ReadsBack(t)
  <2> SUFFICES ASSUME NEW i \in 1 .. l + 1, ReadsSecrets(t[i]), i # 1
               PROVE  PutsSecrets(t[i - 1])
    BY <1>4
  <2>1. i - 1 \in 1 .. l /\ r[i - 1] = t[i]
    BY <1>1, <1>6
  <2>2. CASE i - 1 = 1
    BY <1>8, <2>1, <2>2
  <2>3. CASE i - 1 # 1
    <3>1. i - 1 - 1 \in 1 .. l /\ r[i - 1 - 1] = t[i - 1]
      BY <1>1, <1>5, <2>1, <2>3
    <3> QED
      BY <1>3, <1>8, <2>1, <2>3, <3>1
  <2> QED
    BY <2>2, <2>3
<1> QED
    BY <1>1, <1>2, <1>7, <1>8 DEF r

\* One sequence after another, if the second does not begin by reading back.
LEMMA ReadsBackConcat ==
    ASSUME NEW S, NEW s \in Seq(S), NEW t \in Seq(S), ReadsBack(s), ReadsBack(t),
           t # <<>> => ~ReadsSecrets(t[1])
    PROVE  ReadsBack(s \o t)
<1> DEFINE st == s \o t
           m == Len(s)
           l == Len(t)
<1>1. /\ m \in Nat /\ l \in Nat /\ DOMAIN s = 1 .. m /\ DOMAIN t = 1 .. l
      /\ DOMAIN st = 1 .. m + l
      /\ \A i \in 1 .. m + l : st[i] = IF i <= m THEN s[i] ELSE t[i - m]
    BY ConcatProperties, LenProperties
<1>2. 1 \in 1 .. l => t # <<>>
    BY <1>1, EmptySeq
<1> HIDE DEF st, m, l
<1>3. SUFFICES ASSUME NEW i \in 1 .. m + l, ReadsSecrets(st[i]), i # 1
               PROVE  PutsSecrets(st[i - 1])
    BY <1>1 DEF ReadsBack, st
<1>4. CASE i \in 1 .. m
  <2>1. i - 1 \in 1 .. m /\ st[i] = s[i] /\ st[i - 1] = s[i - 1]
    BY <1>1, <1>3, <1>4
  <2> QED
    BY <1>1, <1>3, <1>4, <2>1 DEF ReadsBack
<1>5. CASE i - m \in 1 .. l
  <2>1. st[i] = t[i - m]
    BY <1>1, <1>5
  <2>2. i - m # 1
    BY <1>2, <1>3, <1>5, <2>1
  <2>3. i - m - 1 \in 1 .. l /\ st[i - 1] = t[i - m - 1]
    BY <1>1, <1>5, <2>2
  <2> QED
    BY <1>1, <1>3, <1>5, <2>1, <2>2, <2>3 DEF ReadsBack
<1> QED
    BY <1>1, <1>4, <1>5

-----------------------------------------------------------------------------
(* What steps need and give *)

\* Facts of different kinds are different facts.
LEMMA FactKinds ==
    /\ \A x : /\ <<"dir", x>> # Saved /\ <<"file", x>> # Saved
              /\ <<"user", x>> # Saved /\ <<"key", x>> # Saved
    /\ \A x, y : /\ <<"dir", x>> # <<"file", y>> /\ <<"dir", x>> # <<"user", y>>
                 /\ <<"dir", x>> # <<"key", y>> /\ <<"file", x>> # <<"user", y>>
                 /\ <<"file", x>> # <<"key", y>> /\ <<"user", x>> # <<"key", y>>
    /\ \A k, x, y : <<k, x>> = <<k, y>> => x = y
<1>1. /\ \A x : \A k \in {"dir", "file", "user", "key"} : <<k, x>>[1] = k
      /\ Saved[1] = "saved"
    BY DEF Saved
<1>2. \A k, x, y : <<k, x>> = <<k, y>> => x = y
    OBVIOUS
<1>3. \A x : /\ <<"dir", x>> # Saved /\ <<"file", x>> # Saved
             /\ <<"user", x>> # Saved /\ <<"key", x>> # Saved
    BY <1>1
<1>4. \A x, y : /\ <<"dir", x>> # <<"file", y>> /\ <<"dir", x>> # <<"user", y>>
                /\ <<"dir", x>> # <<"key", y>> /\ <<"file", x>> # <<"user", y>>
                /\ <<"file", x>> # <<"key", y>> /\ <<"user", x>> # <<"key", y>>
    OBVIOUS
<1> QED
    BY <1>2, <1>3, <1>4

\* Most steps need nothing, and nothing needs them.
LEMMA EasySteps ==
    ASSUME NEW s, s.do \in {"establish", "remove", "abort", "copies", "quit", "getline",
                            "begin", "unlock"}
    PROVE  /\ \A A, n : Needs(s, A, n)
           /\ Gives(s) = {} /\ ~ReadsSecrets(s) /\ ~PutsSecrets(s) /\ ~SavesUsers(s)
           /\ s.do # "learn"
<1>1. /\ s.do \notin {"register file", "register dir", "link", "read", "fetch", "learn",
                      "put key", "open", "put", "seal"}
    OBVIOUS
<1>2. ~Puts(s) /\ ~Seals(s) /\ ~MakesKey(s) /\ ~LearnsUser(s)
    BY <1>1 DEF Puts, Seals, MakesKey, LearnsUser
<1>3. ~ReadsSecrets(s) /\ ~PutsSecrets(s) /\ ~SavesUsers(s) /\ ~SealsSecrets(s)
    BY <1>1, <1>2 DEF ReadsSecrets, PutsSecrets, SavesUsers, SealsSecrets
<1>4. Gives(s) = {}
    BY <1>1, <1>2, <1>3 DEF Gives
<1>5. \A A, n : Needs(s, A, n)
    BY <1>1, <1>2, <1>3 DEF Needs
<1> QED
    BY <1>1, <1>3, <1>4, <1>5

\* A step that is not one of those that write.
LEMMA PlainStep ==
    ASSUME NEW s, s.do \notin {"put", "put key", "open", "seal"}
    PROVE  ~Puts(s) /\ ~Seals(s) /\ ~MakesKey(s) /\ ~SavesUsers(s) /\ ~PutsSecrets(s)
               /\ ~SealsSecrets(s)
<1>1. ~Puts(s) /\ ~Seals(s) /\ ~MakesKey(s)
    BY DEF Puts, Seals, MakesKey
<1> QED
    BY <1>1 DEF SavesUsers, PutsSecrets, SealsSecrets

\* A file is registered for a user who is known and saved.
LEMMA RegisteringSteps ==
    /\ \A d : LET s == On("register dir", d)
              IN  /\ \A A, n : Needs(s, A, n)
                  /\ Gives(s) = {<<"dir", d>>} /\ ~ReadsSecrets(s) /\ s.do # "learn"
    /\ \A f : LET s == On("register file", f)
              IN  /\ \A A, n : {<<"user", f[1]>>, Saved} \subseteq A => Needs(s, A, n)
                  /\ Gives(s) = {<<"file", f>>} /\ ~ReadsSecrets(s) /\ s.do # "learn"
<1>1. ASSUME NEW d, NEW s, s = On("register dir", d)
      PROVE  /\ \A A, n : Needs(s, A, n)
             /\ Gives(s) = {<<"dir", d>>} /\ ~ReadsSecrets(s) /\ s.do # "learn"
  <2>1. s.do = "register dir" /\ s.file = d
    BY <1>1 DEF On
  <2>2. ~LearnsUser(s) /\ ~ReadsSecrets(s)
    BY <2>1 DEF LearnsUser, ReadsSecrets
  <2>3. ~MakesKey(s) /\ ~SavesUsers(s) /\ ~PutsSecrets(s) /\ ~SealsSecrets(s)
    BY <2>1, PlainStep
  <2>4. Gives(s) = {<<"dir", d>>}
    BY <2>1, <2>2, <2>3 DEF Gives
  <2>5. \A A, n : Needs(s, A, n)
    BY <2>1, <2>2, <2>3 DEF Needs
  <2> QED
    BY <2>1, <2>2, <2>4, <2>5
<1>2. ASSUME NEW f, NEW s, s = On("register file", f)
      PROVE  /\ \A A, n : {<<"user", f[1]>>, Saved} \subseteq A => Needs(s, A, n)
             /\ Gives(s) = {<<"file", f>>} /\ ~ReadsSecrets(s) /\ s.do # "learn"
  <2>1. s.do = "register file" /\ s.file = f
    BY <1>2 DEF On
  <2>2. ~LearnsUser(s) /\ ~ReadsSecrets(s)
    BY <2>1 DEF LearnsUser, ReadsSecrets
  <2>3. ~MakesKey(s) /\ ~SavesUsers(s) /\ ~PutsSecrets(s) /\ ~SealsSecrets(s)
    BY <2>1, PlainStep
  <2>4. Gives(s) = {<<"file", f>>}
    BY <2>1, <2>2, <2>3 DEF Gives
  <2>5. \A A, n : {<<"user", f[1]>>, Saved} \subseteq A => Needs(s, A, n)
    BY <2>1, <2>2, <2>3 DEF Needs
  <2> QED
    BY <2>1, <2>2, <2>4, <2>5
<1> QED
    BY <1>1, <1>2

\* UserInfo is written when all users known are housed, the private keys when
\* UserInfo has been.
LEMMA WritingSteps ==
    ASSUME NEW f \in Store \cup TreeFile, NEW s, s = Opening(f, On("put", f))
    PROVE  /\ \A A, n : (f = UserInfo => Housed(A)) /\ (f = AdminKeys => Saved \in A)
                             => Needs(s, A, n)
           /\ Gives(s) = IF f = UserInfo THEN {Saved} ELSE {}
           /\ ~ReadsSecrets(s) /\ s.do # "learn"
           /\ PutsSecrets(s) <=> f = AdminKeys
<1>1. s.do = "open" /\ s.file = f /\ s.write.do = "put"
    BY DEF Opening, On
<1>2. ~LearnsUser(s) /\ ~ReadsSecrets(s) /\ ~MakesKey(s) /\ Puts(s) /\ ~Seals(s)
    BY <1>1 DEF LearnsUser, ReadsSecrets, MakesKey, Puts, Seals
<1>3. /\ SavesUsers(s) <=> f = UserInfo
      /\ PutsSecrets(s) <=> f = AdminKeys
      /\ ~SealsSecrets(s)
    BY <1>1, <1>2 DEF SavesUsers, PutsSecrets, SealsSecrets
<1>4. Gives(s) = IF f = UserInfo THEN {Saved} ELSE {}
    BY <1>1, <1>2, <1>3 DEF Gives
<1>5. \A A, n : (f = UserInfo => Housed(A)) /\ (f = AdminKeys => Saved \in A)
                    => Needs(s, A, n)
    BY <1>1, <1>2, <1>3 DEF Needs
<1> QED
    BY <1>1, <1>2, <1>3, <1>4, <1>5

\* The files of a key pair are written before their user is known.
LEMMA KeySteps ==
    ASSUME NEW u, NEW k, NEW s,
           s = Opening(KeyFile(u), Opening(PublicFile(u), PutKeyTo(KeyFile(u), k)))
    PROVE  /\ \A A : <<"user", u>> \notin A => Needs(s, A, k)
           /\ Gives(s) = {<<"key", KeyFile(u)>>, <<"key", PublicFile(u)>>}
           /\ ~ReadsSecrets(s) /\ s.do # "learn"
<1>1. /\ s.do = "open" /\ s.write.do = "open" /\ s.write.write.do = "put key"
      /\ s.write.write.file = KeyFile(u) /\ s.write.write.key = k /\ KeyFile(u)[2] = u
    BY DEF Opening, PutKeyTo, KeyFile
<1>2. ~LearnsUser(s) /\ ~ReadsSecrets(s) /\ MakesKey(s) /\ ~Puts(s) /\ ~Seals(s)
    BY <1>1 DEF LearnsUser, ReadsSecrets, MakesKey, Puts, Seals
<1>3. KeyPut(s) = s.write.write
    BY <1>1 DEF KeyPut
<1>4. NumberOf(s) = k /\ NameOf(s) = u /\ KeysOf(s) = {KeyFile(u), PublicFile(u)}
    BY <1>1, <1>3 DEF NumberOf, NameOf, KeysOf
<1>5. ~SavesUsers(s) /\ ~PutsSecrets(s) /\ ~SealsSecrets(s)
    BY <1>2 DEF SavesUsers, PutsSecrets, SealsSecrets
<1>6. Gives(s) = {<<"key", KeyFile(u)>>, <<"key", PublicFile(u)>>}
  <2>1. Gives(s) = {<<"key", f>> : f \in KeysOf(s)}
    BY <1>1, <1>2, <1>5 DEF Gives
  <2> QED
    BY <1>4, <2>1
<1>7. \A A : <<"user", u>> \notin A => Needs(s, A, k)
    BY <1>1, <1>2, <1>4, <1>5 DEF Needs
<1> QED
    BY <1>1, <1>2, <1>6, <1>7

\* What is encrypted is so for a user who is known.
LEMMA ReadingSteps ==
    ASSUME NEW f, NEW u, NEW catcher, NEW s,
           s = [do |-> "read", file |-> f, for |-> u, catcher |-> catcher]
    PROVE  /\ \A A, n : <<"user", u>> \in A /\ (catcher = "command" \/ f = AdminKeys => Saved \in A)
                             => Needs(s, A, n)
           /\ Gives(s) = {} /\ s.do # "learn"
           /\ ReadsSecrets(s) <=> f = AdminKeys
<1>1. s.do = "read" /\ s.file = f /\ s.for = u /\ s.catcher = catcher
    OBVIOUS
<1>2. /\ ~LearnsUser(s) /\ (ReadsSecrets(s) <=> f = AdminKeys)
      /\ ~Puts(s) /\ ~MakesKey(s) /\ ~SavesUsers(s) /\ ~PutsSecrets(s) /\ ~SealsSecrets(s)
    BY <1>1, PlainStep DEF LearnsUser, ReadsSecrets
<1>3. Gives(s) = {}
    BY <1>1, <1>2 DEF Gives
<1>4. \A A, n : <<"user", u>> \in A /\ (catcher = "command" \/ f = AdminKeys => Saved \in A)
                    => Needs(s, A, n)
    BY <1>1, <1>2 DEF Needs
<1> QED
    BY <1>1, <1>2, <1>3, <1>4

\* An exception that ends a command leaves no user unsaved.
LEMMA FetchingSteps ==
    ASSUME NEW f, NEW catcher, NEW s, s = [do |-> "fetch", file |-> f, catcher |-> catcher]
    PROVE  /\ \A A, n : (catcher = "command" => Saved \in A) => Needs(s, A, n)
           /\ Gives(s) = {} /\ s.do # "learn" /\ ~ReadsSecrets(s)
<1>1. s.do = "fetch" /\ s.file = f /\ s.catcher = catcher
    OBVIOUS
<1>2. /\ ~LearnsUser(s) /\ ~ReadsSecrets(s)
      /\ ~Puts(s) /\ ~MakesKey(s) /\ ~SavesUsers(s) /\ ~PutsSecrets(s) /\ ~SealsSecrets(s)
    BY <1>1, PlainStep DEF LearnsUser, ReadsSecrets
<1>3. Gives(s) = {}
    BY <1>1, <1>2 DEF Gives
<1>4. \A A, n : (catcher = "command" => Saved \in A) => Needs(s, A, n)
    BY <1>1, <1>2 DEF Needs
<1> QED
    BY <1>1, <1>2, <1>3, <1>4

\* Links are between files that are registered.
LEMMA LinkingSteps ==
    ASSUME NEW f, NEW g, NEW s, s = [do |-> "link", file |-> f, copy |-> g]
    PROVE  /\ \A A, n : {<<"file", f>>, <<"file", g>>} \subseteq A => Needs(s, A, n)
           /\ Gives(s) = {} /\ s.do # "learn" /\ ~ReadsSecrets(s)
<1>1. s.do = "link" /\ s.file = f /\ s.copy = g
    OBVIOUS
<1>2. /\ ~LearnsUser(s) /\ ~ReadsSecrets(s)
      /\ ~Puts(s) /\ ~MakesKey(s) /\ ~SavesUsers(s) /\ ~PutsSecrets(s) /\ ~SealsSecrets(s)
    BY <1>1, PlainStep DEF LearnsUser, ReadsSecrets
<1>3. Gives(s) = {}
    BY <1>1, <1>2 DEF Gives
<1>4. \A A, n : {<<"file", f>>, <<"file", g>>} \subseteq A => Needs(s, A, n)
    BY <1>1, <1>2 DEF Needs
<1> QED
    BY <1>1, <1>2, <1>3, <1>4

\* A user is learnt from files that hold the newest pair.
LEMMA LearningSteps ==
    ASSUME NEW u
    PROVE  /\ LET s == On("learn", PublicFile(u))
              IN  /\ \A A, n : {<<"key", PublicFile(u)>>, <<"key", KeyFile(u)>>} \subseteq A
                                   /\ Saved \notin A => Needs(s, A, n)
                  /\ Gives(s) = {<<"user", u>>} /\ ~ReadsSecrets(s)
           /\ LET s == On("learn", KeyFile(u))
              IN  /\ \A A, n : <<"user", u>> \in A /\ Saved \notin A => Needs(s, A, n)
                  /\ Gives(s) = {} /\ ~ReadsSecrets(s)
<1>1. PublicFile(u)[2] = u /\ KeyFile(u)[2] = u /\ KeyFile(u) # PublicFile(u)
    BY DEF PublicFile, KeyFile
<1>2. ASSUME NEW s, s = On("learn", PublicFile(u))
      PROVE  /\ \A A, n : {<<"key", PublicFile(u)>>, <<"key", KeyFile(u)>>} \subseteq A
                              /\ Saved \notin A => Needs(s, A, n)
             /\ Gives(s) = {<<"user", u>>} /\ ~ReadsSecrets(s)
  <2>1. s.do = "learn" /\ s.file = PublicFile(u) /\ s.file[2] = u
    BY <1>1, <1>2 DEF On
  <2>2. /\ LearnsUser(s) /\ ~ReadsSecrets(s)
        /\ ~Puts(s) /\ ~MakesKey(s) /\ ~SavesUsers(s) /\ ~PutsSecrets(s) /\ ~SealsSecrets(s)
    BY <2>1, PlainStep DEF LearnsUser, ReadsSecrets
  <2>3. Gives(s) = {<<"user", u>>}
    BY <2>1, <2>2 DEF Gives
  <2>4. \A A, n : {<<"key", PublicFile(u)>>, <<"key", KeyFile(u)>>} \subseteq A
                      /\ Saved \notin A => Needs(s, A, n)
    BY <2>1, <2>2 DEF Needs
  <2> QED
    BY <2>2, <2>3, <2>4
<1>3. ASSUME NEW s, s = On("learn", KeyFile(u))
      PROVE  /\ \A A, n : <<"user", u>> \in A /\ Saved \notin A => Needs(s, A, n)
             /\ Gives(s) = {} /\ ~ReadsSecrets(s)
  <2>1. s.do = "learn" /\ s.file = KeyFile(u) /\ s.file[2] = u
    BY <1>1, <1>3 DEF On
  <2>2. /\ ~LearnsUser(s) /\ ~ReadsSecrets(s)
        /\ ~Puts(s) /\ ~MakesKey(s) /\ ~SavesUsers(s) /\ ~PutsSecrets(s) /\ ~SealsSecrets(s)
    BY <1>1, <2>1, PlainStep DEF LearnsUser, ReadsSecrets
  <2>3. Gives(s) = {}
    BY <2>1, <2>2 DEF Gives
  <2>4. \A A, n : <<"user", u>> \in A /\ Saved \notin A => Needs(s, A, n)
    BY <2>1, <2>2 DEF Needs
  <2> QED
    BY <2>2, <2>3, <2>4
<1> QED
    BY <1>2, <1>3

-----------------------------------------------------------------------------
(* What handlers are made of: from the facts A, all of t can be done, and    *)
(* gives G.                                                                  *)

Does(t, A, G, ks) ==
    /\ t \in Seq(QueuedStep(ks))
    /\ Feasible(t, A, Len(ks)) /\ ReadsBack(t)
    /\ t # <<>> => ~ReadsSecrets(Head(t))
    /\ GivenBy(t) = G

\* Only writing UserInfo saves the users.
LEMMA SavesGiven == \A s : Saved \in Gives(s) <=> SavesUsers(s)
<1> SUFFICES ASSUME NEW s PROVE Saved \in Gives(s) <=> SavesUsers(s)
    OBVIOUS
<1>1. CASE SavesUsers(s)
  <2>1. s.do \in {"put", "open"} /\ s.file = UserInfo /\ s.do # "put key"
    BY <1>1 DEF SavesUsers, Puts
  <2>2. s.do # "register dir" /\ s.do # "register file" /\ ~LearnsUser(s) /\ ~MakesKey(s)
    BY <1>1, <2>1 DEF LearnsUser, MakesKey, SavesUsers, Puts
  <2> QED
    BY <1>1, <2>2 DEF Gives
<1>2. CASE ~SavesUsers(s)
    BY <1>2, FactKinds DEF Gives
<1> QED
    BY <1>1, <1>2

\* The same of a sequence.
LEMMA SavesGives ==
    ASSUME NEW S, NEW t \in Seq(S)
    PROVE  Saves(t) <=> Saved \in GivenBy(t)
    BY SavesGiven DEF Saves, GivenBy

\* A handler with nothing to do.
LEMMA DoesNothing ==
    ASSUME NEW A, NEW ks
    PROVE  /\ Does(<<>>, A, {}, ks)
           /\ ~Learns(<<>>) /\ ~Ends(<<>>) /\ ~Saves(<<>>)
<1>1. GivenBy(<<>>) = {} /\ ~Learns(<<>>) /\ ~Ends(<<>>) /\ ~Saves(<<>>)
    BY StepsOfNone DEF GivenBy, Learns, Ends, Saves
<1>2. Feasible(<<>>, A, Len(ks)) /\ ReadsBack(<<>>)
    BY DEF Feasible, ReadsBack
<1> QED
    BY <1>1, <1>2 DEF Does

\* A handler of one step.
LEMMA DoesOne ==
    ASSUME NEW ks, NEW x \in QueuedStep(ks), NEW A, NEW G, G = Gives(x),
           Needs(x, A, Len(ks)), ~ReadsSecrets(x)
    PROVE  /\ Does(<<x>>, A, G, ks)
           /\ Learns(<<x>>) <=> x.do = "learn"
           /\ Ends(<<x>>) <=> x.do \in {"begin", "quit"}
<1>1. /\ <<x>> \in Seq(QueuedStep(ks)) /\ <<x>> # <<>> /\ Head(<<x>>) = x
      /\ DOMAIN <<x>> = {1} /\ <<x>>[1] = x
    BY SeqOfOne
<1>2. GivenBy(<<x>>) = Gives(x)
    BY StepsOfOne DEF GivenBy
<1>3. GivenBefore(<<x>>, 1) = {} /\ A \cup {} = A
    BY DEF GivenBefore
<1>4. Feasible(<<x>>, A, Len(ks))
    BY <1>1, <1>3 DEF Feasible
<1>5. ReadsBack(<<x>>)
    BY <1>1 DEF ReadsBack
<1>6. /\ Learns(<<x>>) <=> x.do = "learn"
      /\ Ends(<<x>>) <=> x.do \in {"begin", "quit"}
    BY StepsOfOne DEF Learns, Ends
<1> QED
    BY <1>1, <1>2, <1>4, <1>5, <1>6 DEF Does

\* One handler after another, with what the first has given.
LEMMA DoesConcat ==
    ASSUME NEW ks, NEW s, NEW t, NEW A, NEW G, NEW H,
           Does(s, A, G, ks), Does(t, A \cup G, H, ks)
    PROVE  /\ Does(s \o t, A, G \cup H, ks)
           /\ Learns(s \o t) <=> Learns(s) \/ Learns(t)
           /\ Ends(s \o t) <=> Ends(s) \/ Ends(t)
<1>1. /\ s \in Seq(QueuedStep(ks)) /\ t \in Seq(QueuedStep(ks))
      /\ GivenBy(s) = G /\ GivenBy(t) = H
      /\ s # <<>> => ~ReadsSecrets(Head(s))
      /\ t # <<>> => ~ReadsSecrets(Head(t))
    BY DEF Does
<1>2. /\ s \o t \in Seq(QueuedStep(ks))
      /\ GivenBy(s \o t) = G \cup H
      /\ Learns(s \o t) <=> Learns(s) \/ Learns(t)
      /\ Ends(s \o t) <=> Ends(s) \/ Ends(t)
    BY <1>1, ConcatFacts, ConcatProperties
<1>3. Feasible(s \o t, A, Len(ks))
    BY <1>1, FeasibleConcat DEF Does
<1>4. t # <<>> => Head(t) = t[1]
    BY <1>1, UnconsFacts
<1>5. ReadsBack(s \o t)
    BY <1>1, <1>4, ReadsBackConcat DEF Does
<1>6. s \o t # <<>> => ~ReadsSecrets(Head(s \o t))
  <2>1. CASE s = <<>>
    <3>1. s \o t = t
      BY <1>1, <2>1, ConcatEmptySeq
    <3> QED
      BY <1>1, <3>1
  <2>2. CASE s # <<>>
    <3>1. Head(s \o t) = Head(s)
      <4>1. Len(s) \in Nat \ {0} /\ Head(s) = s[1]
        BY <1>1, <2>2, UnconsFacts
      <4>2. s \o t # <<>> => Head(s \o t) = (s \o t)[1]
        BY <1>2, UnconsFacts
      <4>3. Len(s \o t) = Len(s) + Len(t) /\ Len(t) \in Nat /\ (s \o t)[1] = s[1]
        BY <1>1, <4>1, ConcatProperties, LenProperties
      <4>4. s \o t # <<>>
        BY <1>2, <4>1, <4>3, EmptySeq
      <4> QED
        BY <4>1, <4>2, <4>3, <4>4
    <3> QED
      BY <1>1, <2>2, <3>1
  <2> QED
    BY <2>1, <2>2
<1> QED
    BY <1>2, <1>3, <1>5, <1>6 DEF Does

\* Nothing is learnt, and the process does not end.
Quietly(t, A, G, ks) == Does(t, A, G, ks) /\ ~Learns(t) /\ ~Ends(t)

\* Nothing to do, quietly.
LEMMA QuietlyNothing == \A A, ks : Quietly(<<>>, A, {}, ks)
    BY DoesNothing DEF Quietly

\* A step that neither learns nor ends.
LEMMA QuietlyOne ==
    ASSUME NEW ks, NEW x \in QueuedStep(ks), NEW A, NEW G, G = Gives(x),
           Needs(x, A, Len(ks)), ~ReadsSecrets(x), x.do \notin {"learn", "begin", "quit"}
    PROVE  Quietly(<<x>>, A, G, ks)
    BY DoesOne DEF Quietly

\* One quiet handler after another.
LEMMA QuietlyConcat ==
    ASSUME NEW ks, NEW s, NEW t, NEW A, NEW G, NEW H, NEW I, I = G \cup H,
           Quietly(s, A, G, ks), Quietly(t, A \cup G, H, ks)
    PROVE  Quietly(s \o t, A, I, ks)
<1>1. /\ Does(s, A, G, ks) /\ Does(t, A \cup G, H, ks)
      /\ ~Learns(s) /\ ~Learns(t) /\ ~Ends(s) /\ ~Ends(t)
    BY DEF Quietly
<1>2. /\ Does(s \o t, A, G \cup H, ks)
      /\ Learns(s \o t) <=> Learns(s) \/ Learns(t)
      /\ Ends(s \o t) <=> Ends(s) \/ Ends(t)
    BY <1>1, DoesConcat
<1> QED
    BY <1>1, <1>2 DEF Quietly

\* Two that give nothing.
LEMMA QuietlyBoth ==
    ASSUME NEW ks, NEW s, NEW t, NEW A, Quietly(s, A, {}, ks), Quietly(t, A, {}, ks)
    PROVE  Quietly(s \o t, A, {}, ks)
<1>1. A \cup {} = A /\ {} = {} \cup {}
    OBVIOUS
<1>2. Quietly(t, A \cup {}, {}, ks)
    BY <1>1
<1> QED
    BY <1>1, <1>2, QuietlyConcat

\* That the users are saved takes nobody's home away.
LEMMA HousedStill ==
    ASSUME NEW A, Housed(A)
    PROVE  Housed(A \cup {Saved})
    BY FactKinds DEF Housed

\* A file is written: a store, or one of the tree.
LEMMA QuietlyWrite ==
    ASSUME NEW ks, NEW f \in Store \cup TreeFile, NEW A, NEW G,
           f = UserInfo => Housed(A), f = AdminKeys => Saved \in A,
           G = IF f = UserInfo THEN {Saved} ELSE {}
    PROVE  Quietly(Write(f), A, G, ks)
<1> DEFINE x == Opening(f, On("put", f))
<1>1. x \in QueuedStep(ks) /\ x.do = "open"
    BY WriteSteps DEF Opening
<1>2. Write(f) = <<x>>
    BY DEF Write
<1>3. Needs(x, A, Len(ks)) /\ Gives(x) = G /\ ~ReadsSecrets(x)
    BY WritingSteps
<1> HIDE DEF x
<1> QED
    BY <1>1, <1>2, <1>3, QuietlyOne

\* A file is written, and encrypted in place.
LEMMA QuietlySecured ==
    ASSUME NEW ks, NEW f \in Sensitive, NEW u, u = Owner(f), NEW catcher \in Catcher, NEW A,
           <<"user", u>> \in A, catcher = "command" \/ f = AdminKeys => Saved \in A
    PROVE  Quietly(Write(f) \o Secure(f, u, catcher), A, {}, ks)
<1> DEFINE x == Opening(f, On("put", f))
           y == [do |-> "read", file |-> f, for |-> u, catcher |-> catcher]
<1>1. f \in Store \cup TreeFile /\ f # UserInfo /\ u \in User
    BY OwnerFacts, FileKinds DEF Sensitive, Store
<1>2. /\ x \in QueuedStep(ks) /\ y \in QueuedStep(ks)
      /\ x.do = "open" /\ y.do = "read"
    BY <1>1, WriteSteps DEF Opening
<1>3. /\ Needs(x, A, Len(ks)) /\ Gives(x) = {} /\ ~ReadsSecrets(x)
      /\ PutsSecrets(x) <=> f = AdminKeys
    BY <1>1, WritingSteps
<1>4. /\ Needs(y, A, Len(ks)) /\ Gives(y) = {}
      /\ ReadsSecrets(y) <=> f = AdminKeys
    BY ReadingSteps
<1>5. Write(f) \o Secure(f, u, catcher) = <<x>> \o <<y>>
    BY DEF Write, Secure
<1> HIDE DEF x, y
<1>6. /\ <<x>> \o <<y>> = <<x, y>> /\ <<x, y>> \in Seq(QueuedStep(ks))
      /\ Head(<<x, y>>) = x /\ DOMAIN <<x, y>> = {1, 2}
      /\ <<x, y>>[1] = x /\ <<x, y>>[2] = y
    BY <1>2, PairOfSteps, SeqOfOne, ConcatProperties
<1>7. ToSet(<<x, y>>) = {x, y}
    BY <1>6 DEF ToSet
<1>8. ~Learns(<<x, y>>) /\ ~Ends(<<x, y>>) /\ GivenBy(<<x, y>>) = {}
    BY <1>2, <1>3, <1>4, <1>7 DEF Learns, Ends, GivenBy
<1>9. Feasible(<<x, y>>, A, Len(ks))
  <2>1. GivenBefore(<<x, y>>, 1) = {}
    BY DEF GivenBefore
  <2>2. GivenBefore(<<x, y>>, 2) = {}
    <3>1. \A j \in 1 .. 2 - 1 : <<x, y>>[j] = x
      BY <1>6
    <3> QED
      BY <1>3, <3>1 DEF GivenBefore
  <2>3. A \cup {} = A
    OBVIOUS
  <2> QED
    BY <1>3, <1>4, <1>6, <2>1, <2>2, <2>3 DEF Feasible
<1>10. ReadsBack(<<x, y>>)
    BY <1>3, <1>4, <1>6 DEF ReadsBack
<1> QED
    BY <1>3, <1>5, <1>6, <1>8, <1>9, <1>10 DEF Quietly, Does

\* generateFile, for a user who is known.
LEMMA QuietlyGenerate ==
    ASSUME NEW ks, NEW f \in TreeFile, NEW catcher \in Catcher, NEW A,
           <<"user", f[1]>> \in A, catcher = "command" => Saved \in A
    PROVE  Quietly(generateFile(f, fetchOwner(f), catcher), A, {}, ks)
<1>1. /\ f \in Sensitive /\ f # AdminKeys /\ fetchOwner(f) = f[1]
      /\ Owner(f) = f[1]
    BY FileKinds DEF Sensitive, Store
<1>2. Quietly(Write(f) \o Secure(f, fetchOwner(f), catcher), A, {}, ks)
    BY <1>1, QuietlySecured
<1> QED
    BY <1>2 DEF generateFile

\* Registration of a directory, or of the file of a user who is known and
\* saved.
LEMMA QuietlyRegister ==
    ASSUME NEW ks, NEW A
    PROVE  /\ \A d \in UserDir : Quietly(registerDirectory(d), A, {<<"dir", d>>}, ks)
           /\ \A f \in TreeFile :
                  {<<"user", f[1]>>, Saved} \subseteq A =>
                      Quietly(registerFile(f), A, {<<"file", f>>}, ks)
<1>1. ASSUME NEW d \in UserDir
      PROVE  Quietly(registerDirectory(d), A, {<<"dir", d>>}, ks)
  <2> DEFINE x == On("register dir", d)
  <2>1. /\ x \in QueuedStep(ks) /\ Needs(x, A, Len(ks)) /\ Gives(x) = {<<"dir", d>>}
        /\ ~ReadsSecrets(x) /\ x.do = "register dir"
    BY QueuedFacts, RegisteringSteps DEF On
  <2> HIDE DEF x
  <2>2. Quietly(<<x>>, A, {<<"dir", d>>}, ks)
    BY <2>1, QuietlyOne
  <2> QED
    BY <2>2 DEF registerDirectory, x
<1>2. ASSUME NEW f \in TreeFile, {<<"user", f[1]>>, Saved} \subseteq A
      PROVE  Quietly(registerFile(f), A, {<<"file", f>>}, ks)
  <2> DEFINE x == On("register file", f)
  <2>1. /\ x \in QueuedStep(ks) /\ Needs(x, A, Len(ks)) /\ Gives(x) = {<<"file", f>>}
        /\ ~ReadsSecrets(x) /\ x.do = "register file"
    BY <1>2, QueuedFacts, RegisteringSteps DEF On
  <2> HIDE DEF x
  <2>2. Quietly(<<x>>, A, {<<"file", f>>}, ks)
    BY <2>1, QuietlyOne
  <2> QED
    BY <2>2 DEF registerFile, x
<1> QED
    BY <1>1, <1>2

\* A step that needs nothing.
LEMMA QuietlyEasy ==
    ASSUME NEW ks, NEW x \in QueuedStep(ks), NEW A,
           x.do \in {"establish", "remove", "abort", "copies", "getline"}
    PROVE  Quietly(<<x>>, A, {}, ks)
<1>1. x.do \in {"establish", "remove", "abort", "copies", "quit", "getline", "begin",
                 "unlock"}
    OBVIOUS
<1>2. /\ Needs(x, A, Len(ks)) /\ Gives(x) = {} /\ ~ReadsSecrets(x)
      /\ x.do \notin {"learn", "begin", "quit"}
    BY <1>1, EasySteps
<1> QED
    BY <1>2, QuietlyOne

\* replicateFile, to a user who is known if the copy is registered.
LEMMA QuietlyReplicate ==
    ASSUME NEW ks, NEW src \in TreeFile, NEW dst \in TreeFile, NEW registered \in BOOLEAN,
           NEW catcher \in Catcher, NEW A,
           registered => <<"user", dst[1]>> \in A, catcher = "command" => Saved \in A
    PROVE  Quietly(replicateFile(src, dst, registered, catcher), A, {}, ks)
<1> DEFINE x == [do |-> "fetch", file |-> src, catcher |-> catcher]
           y == On("remove", dst)
           z == On("abort", src)
           g == generateFile(dst, fetchOwner(dst), catcher)
<1>1. /\ x \in QueuedStep(ks) /\ y \in QueuedStep(ks) /\ z \in QueuedStep(ks)
      /\ x.do = "fetch" /\ y.do = "remove" /\ z.do = "abort"
    BY QueuedFacts DEF On
<1>2. Needs(x, A, Len(ks)) /\ Gives(x) = {} /\ ~ReadsSecrets(x)
    BY FetchingSteps
<1>3. replicateFile(src, dst, registered, catcher) =
          IF registered THEN <<x, y>> \o g ELSE <<z>>
    BY DEF replicateFile
<1>4. registered => Quietly(g, A, {}, ks)
    BY QuietlyGenerate
<1> HIDE DEF x, y, z, g
<1>5. Quietly(<<x>>, A, {}, ks)
    BY <1>1, <1>2, QuietlyOne
<1>6. Quietly(<<y>>, A, {}, ks) /\ Quietly(<<z>>, A, {}, ks)
    BY <1>1, QuietlyEasy
<1>7. <<x>> \o <<y>> = <<x, y>>
    BY <1>1, PairOfSteps
<1>8. Quietly(<<x, y>>, A, {}, ks)
    BY <1>5, <1>6, <1>7, QuietlyBoth
<1>9. registered => Quietly(<<x, y>> \o g, A, {}, ks)
    BY <1>4, <1>8, QuietlyBoth
<1> QED
    BY <1>3, <1>6, <1>9

\* The copies that are left are told by a step that needs nothing.
LEMMA QuietlyReplicateTo ==
    ASSUME NEW ks, NEW src \in TreeFile, NEW copies \in SUBSET TreeFile, NEW A
    PROVE  Quietly(replicateTo(src, copies), A, {}, ks)
<1> DEFINE x == [do |-> "copies", file |-> src, left |-> copies]
<1>1. x \in QueuedStep(ks) /\ x.do = "copies"
    BY QueuedFacts
<1>2. replicateTo(src, copies) = IF copies = {} THEN <<>> ELSE <<x>>
    BY DEF replicateTo
<1> HIDE DEF x
<1> QED
    BY <1>1, <1>2, QuietlyEasy, QuietlyNothing

-----------------------------------------------------------------------------
(* Saving, ending, and a new user *)

\* persistData, of UserDataStore and of the helper, saves the users.
LEMMA QuietlyPersist ==
    ASSUME NEW ks, NEW isAdminMode \in BOOLEAN, NEW A, Housed(A),
           isAdminMode => <<"user", Admin>> \in A
    PROVE  /\ Quietly(PersistUsers(isAdminMode), A, {Saved}, ks)
           /\ Quietly(PersistAll(isAdminMode), A, {Saved}, ks)
<1> DEFINE B == A \cup {Saved}
           k == IF isAdminMode
                THEN Write(AdminKeys) \o Secure(AdminKeys, Admin, "persist")
                ELSE <<>>
<1>1. Quietly(Write(UserInfo), A, {Saved}, ks)
  <2>1. UserInfo \in Store \cup TreeFile /\ UserInfo # AdminKeys
    BY FileKinds DEF Store
  <2> QED
    BY <2>1, QuietlyWrite
<1>2. Quietly(k, B, {}, ks)
  <2>1. CASE isAdminMode
    <3>1. <<"user", Admin>> \in B /\ Saved \in B /\ "persist" \in Catcher
      BY <2>1 DEF Catcher
    <3>2. Quietly(Write(AdminKeys) \o Secure(AdminKeys, Admin, "persist"), B, {}, ks)
      BY <3>1, OwnerFacts, QuietlySecured
    <3> QED
      BY <2>1, <3>2
  <2>2. CASE ~isAdminMode
    BY <2>2, QuietlyNothing
  <2> QED
    BY <2>1, <2>2
<1>3. PersistUsers(isAdminMode) = Write(UserInfo) \o k
    BY DEF PersistUsers
<1>4. /\ Quietly(Write(FileMappings), A, {}, ks)
      /\ Quietly(Write(SharedInfo), B, {}, ks)
    BY QuietlyWrite, FileKinds DEF Store
<1> HIDE DEF k, B
<1>5. {Saved} = {Saved} \cup {} /\ {Saved} = {} \cup {Saved} /\ A \cup {} = A /\ A \cup {Saved} = B
    BY DEF B
<1>6. Quietly(PersistUsers(isAdminMode), A, {Saved}, ks)
    BY <1>1, <1>2, <1>3, <1>5, QuietlyConcat
<1>7. Quietly(Write(FileMappings) \o PersistUsers(isAdminMode), A, {Saved}, ks)
  <2> DEFINE s == Write(FileMappings)
             t == PersistUsers(isAdminMode)
  <2>1. Quietly(s, A, {}, ks) /\ Quietly(t, A \cup {}, {Saved}, ks)
    BY <1>4, <1>5, <1>6
  <2> HIDE DEF s, t
  <2>2. Quietly(s \o t, A, {Saved}, ks)
    BY <2>1, <1>5, QuietlyConcat
  <2> QED
    BY <2>2 DEF s, t
<1>8. Quietly(PersistAll(isAdminMode), A, {Saved}, ks)
  <2> DEFINE s == Write(FileMappings) \o PersistUsers(isAdminMode)
             t == Write(SharedInfo)
  <2>1. Quietly(s, A, {Saved}, ks) /\ Quietly(t, A \cup {Saved}, {}, ks)
    BY <1>4, <1>5, <1>7
  <2>2. PersistAll(isAdminMode) = s \o t
    BY DEF PersistAll
  <2> HIDE DEF s, t
  <2>3. Quietly(s \o t, A, {Saved}, ks)
    BY <2>1, <1>5, QuietlyConcat
  <2> QED
    BY <2>2, <2>3
<1> QED
    BY <1>6, <1>8

\* The destructors save the users, and are the end of the process.
LEMMA DestroyEnds ==
    ASSUME NEW ks, NEW isAdminMode \in BOOLEAN, NEW A, Housed(A),
           isAdminMode => <<"user", Admin>> \in A
    PROVE  /\ Does(Destroy(isAdminMode), A, {Saved}, ks)
           /\ ~Learns(Destroy(isAdminMode)) /\ Ends(Destroy(isAdminMode))
<1> DEFINE B == A \cup {Saved}
           a == PersistAll(isAdminMode)
           b == Write(SharedInfo)
           c == PersistUsers(isAdminMode)
           d == Write(FileMappings)
           q == On("quit", Root)
<1>1. Housed(B) /\ (isAdminMode => <<"user", Admin>> \in B)
    BY HousedStill
<1>2. /\ Quietly(a, A, {Saved}, ks) /\ Quietly(b, B, {}, ks)
      /\ Quietly(c, B, {Saved}, ks) /\ Quietly(d, B, {}, ks)
    BY <1>1, QuietlyPersist, QuietlyWrite, FileKinds DEF Store
<1>3. q \in QueuedStep(ks) /\ q.do = "quit"
    BY QueuedFacts DEF On
<1>4. Destroy(isAdminMode) = a \o b \o c \o d \o <<q>>
    BY DEF Destroy
<1>5. A \cup {Saved} = B /\ B \cup {Saved} = B /\ B \cup {} = B
    OBVIOUS
<1> HIDE DEF a, b, c, d, q, B
<1>6. {Saved} = {Saved} \cup {} /\ {Saved} = {Saved} \cup {Saved}
    OBVIOUS
<1>7. Quietly(a \o b, A, {Saved}, ks)
    BY <1>2, <1>5, <1>6, QuietlyConcat
<1>8. Quietly(a \o b \o c, A, {Saved}, ks)
  <2> DEFINE s == a \o b
  <2>1. Quietly(s, A, {Saved}, ks) /\ Quietly(c, A \cup {Saved}, {Saved}, ks)
    BY <1>2, <1>5, <1>7
  <2> HIDE DEF s
  <2>2. Quietly(s \o c, A, {Saved}, ks)
    BY <2>1, <1>6, QuietlyConcat
  <2> QED
    BY <2>2 DEF s
<1>9. Quietly(a \o b \o c \o d, A, {Saved}, ks)
  <2> DEFINE s == a \o b \o c
  <2>1. Quietly(s, A, {Saved}, ks) /\ Quietly(d, A \cup {Saved}, {}, ks)
    BY <1>2, <1>5, <1>8
  <2> HIDE DEF s
  <2>2. Quietly(s \o d, A, {Saved}, ks)
    BY <2>1, <1>6, QuietlyConcat
  <2> QED
    BY <2>2 DEF s
<1>10. Does(<<q>>, B, {}, ks) /\ ~Learns(<<q>>) /\ Ends(<<q>>)
  <2>1. /\ Needs(q, B, Len(ks)) /\ Gives(q) = {} /\ ~ReadsSecrets(q)
        /\ q.do # "learn"
    BY <1>3, EasySteps
  <2> QED
    BY <1>3, <2>1, DoesOne
<1> DEFINE s == a \o b \o c \o d
<1>11. /\ Does(s, A, {Saved}, ks) /\ Does(<<q>>, A \cup {Saved}, {}, ks)
       /\ ~Learns(s)
    BY <1>5, <1>9, <1>10 DEF Quietly
<1>12. Destroy(isAdminMode) = s \o <<q>>
    BY <1>4
<1> HIDE DEF s
<1>13. /\ Does(s \o <<q>>, A, {Saved} \cup {}, ks)
       /\ Learns(s \o <<q>>) <=> Learns(s) \/ Learns(<<q>>)
       /\ Ends(s \o <<q>>) <=> Ends(s) \/ Ends(<<q>>)
    BY <1>11, DoesConcat
<1> QED
    BY <1>6, <1>10, <1>11, <1>12, <1>13

\* The homes of new users are registered before the users are saved, and their
\* keys learnt from files that hold the new pair.
LEMMA CreateUserDoes ==
    ASSUME NEW ks, NEW u \in User, NEW k, k = Len(ks), k \in 1 .. Len(ks), ks[k] = u,
           NEW A, <<"user", u>> \notin A, Saved \notin A, Housed(A),
           u = Admin \/ <<"user", Admin>> \in A
    PROVE  \E G : /\ Does(createUser(u, k), A, G, ks)
                  /\ Saved \in G /\ Housed(A \cup G) /\ <<"user", Admin>> \in A \cup G
                  /\ Learns(createUser(u, k)) /\ ~Ends(createUser(u, k))
<1> DEFINE a == createKeyPair(u, k)
           b == <<On("learn", PublicFile(u))>>
           c1 == registerDirectory(Home(u))
           c2 == registerDirectory(PersonalDir(u))
           c3 == registerDirectory(SharedDir(u))
           d == <<On("learn", KeyFile(u))>>
           e == PersistAll(TRUE)
           f1 == On("establish", Home(u))
           f2 == On("establish", PersonalDir(u))
           f3 == On("establish", SharedDir(u))
           f == <<f1, f2, f3>>
           A2 == A \cup {<<"key", KeyFile(u)>>, <<"key", PublicFile(u)>>}
           A3 == A2 \cup {<<"user", u>>}
           A4 == A3 \cup {<<"dir", Home(u)>>}
           A5 == A4 \cup {<<"dir", PersonalDir(u)>>}
           A6 == A5 \cup {<<"dir", SharedDir(u)>>}
           A7 == A6 \cup {Saved}
<1>1. createUser(u, k) = a \o b \o c1 \o c2 \o c3 \o d \o e \o f
    BY DEF createUser
<1>2. /\ Saved \notin A2 /\ Saved \notin A3 /\ Saved \notin A4
      /\ Saved \notin A5 /\ Saved \notin A6
    BY FactKinds
<1>3. Housed(A6)
  <2> SUFFICES ASSUME NEW v \in User, <<"user", v>> \in A6
               PROVE  \A dir \in HomeDirs(v) : <<"dir", dir>> \in A6
    BY DEF Housed
  <2>1. v = u \/ <<"user", v>> \in A
    BY FactKinds
  <2>2. CASE v = u
    BY <2>2 DEF HomeDirs
  <2>3. CASE <<"user", v>> \in A
    BY <2>3 DEF Housed
  <2> QED
    BY <2>1, <2>2, <2>3
<1>4. Housed(A7) /\ <<"user", Admin>> \in A6 /\ <<"user", Admin>> \in A7
    BY <1>3, HousedStill
<1>5. Quietly(a, A, {<<"key", KeyFile(u)>>, <<"key", PublicFile(u)>>}, ks)
  <2> DEFINE x == Opening(KeyFile(u), Opening(PublicFile(u), PutKeyTo(KeyFile(u), k)))
             G == {<<"key", KeyFile(u)>>, <<"key", PublicFile(u)>>}
  <2>1. x \in QueuedStep(ks) /\ a = <<x>>
    BY KeyPairSteps
  <2>2. x.do = "open"
    BY DEF Opening
  <2>3. Needs(x, A, Len(ks)) /\ Gives(x) = G /\ ~ReadsSecrets(x)
    BY KeySteps
  <2> HIDE DEF x, a, G
  <2>4. Quietly(<<x>>, A, G, ks)
    BY <2>1, <2>2, <2>3, QuietlyOne
  <2> QED
    BY <2>1, <2>4 DEF G
<1>6. /\ Does(b, A2, {<<"user", u>>}, ks) /\ Learns(b) /\ ~Ends(b)
      /\ Does(d, A6, {}, ks) /\ ~Ends(d)
  <2> DEFINE x == On("learn", PublicFile(u))
             y == On("learn", KeyFile(u))
  <2>1. x \in QueuedStep(ks) /\ y \in QueuedStep(ks)
    BY HomeFacts, QueuedFacts
  <2>2. x.do = "learn" /\ y.do = "learn"
    BY DEF On
  <2>3. {<<"key", PublicFile(u)>>, <<"key", KeyFile(u)>>} \subseteq A2
        /\ Saved \notin A2 /\ <<"user", u>> \in A6 /\ Saved \notin A6
    BY <1>2
  <2> HIDE DEF A2, A6
  <2>4. Needs(x, A2, Len(ks)) /\ Gives(x) = {<<"user", u>>} /\ ~ReadsSecrets(x)
    BY <2>3, LearningSteps
  <2>5. Needs(y, A6, Len(ks)) /\ Gives(y) = {} /\ ~ReadsSecrets(y)
    BY <2>3, LearningSteps
  <2> HIDE DEF x, y
  <2>6. Does(<<x>>, A2, {<<"user", u>>}, ks) /\ Learns(<<x>>) /\ ~Ends(<<x>>)
    BY <2>1, <2>2, <2>4, DoesOne
  <2>7. Does(<<y>>, A6, {}, ks) /\ ~Ends(<<y>>)
    BY <2>1, <2>2, <2>5, DoesOne
  <2> QED
    BY <2>6, <2>7 DEF x, y
<1>7. /\ Quietly(c1, A3, {<<"dir", Home(u)>>}, ks)
      /\ Quietly(c2, A4, {<<"dir", PersonalDir(u)>>}, ks)
      /\ Quietly(c3, A5, {<<"dir", SharedDir(u)>>}, ks)
    BY HomeFacts, QuietlyRegister
<1>8. Quietly(e, A6, {Saved}, ks)
    BY <1>3, <1>4, QuietlyPersist
<1>9. Quietly(f, A7, {}, ks)
  <2>1. /\ f1 \in QueuedStep(ks) /\ f1.do = "establish"
        /\ f2 \in QueuedStep(ks) /\ f2.do = "establish"
        /\ f3 \in QueuedStep(ks) /\ f3.do = "establish"
    BY HomeFacts, QueuedFacts DEF On
  <2> HIDE DEF f1, f2, f3, A7
  <2>2. Quietly(<<f1>>, A7, {}, ks) /\ Quietly(<<f2>>, A7, {}, ks) /\ Quietly(<<f3>>, A7, {}, ks)
    BY <2>1, QuietlyEasy
  <2>3. Quietly(<<f1>> \o <<f2>>, A7, {}, ks)
    BY <2>2, QuietlyBoth
  <2>4. Quietly((<<f1>> \o <<f2>>) \o <<f3>>, A7, {}, ks)
    BY <2>2, <2>3, QuietlyBoth
  <2>5. <<f1, f2, f3>> = (<<f1>> \o <<f2>>) \o <<f3>>
    BY TripleOfSteps
  <2>6. Quietly(<<f1, f2, f3>>, A7, {}, ks)
    BY <2>4, <2>5
  <2> QED
    BY <2>6
<1> DEFINE U1 == {<<"user", u>>}
           D1 == {<<"dir", Home(u)>>}
           D2 == {<<"dir", PersonalDir(u)>>}
           D3 == {<<"dir", SharedDir(u)>>}
           G2 == {<<"key", KeyFile(u)>>, <<"key", PublicFile(u)>>}
           G3 == G2 \cup U1
           G4 == G3 \cup D1
           G5 == G4 \cup D2
           G6 == G5 \cup D3
           G7 == G6 \cup {Saved}
<1>10. /\ A \cup G2 = A2 /\ A \cup G3 = A3 /\ A \cup G4 = A4
       /\ A \cup G5 = A5 /\ A \cup G6 = A6 /\ A \cup G7 = A7
       /\ G6 \cup {} = G6 /\ G7 \cup {} = G7 /\ Saved \in G7
    OBVIOUS
<1>11. /\ Does(a, A, G2, ks) /\ Does(b, A2, U1, ks)
       /\ Does(c1, A3, D1, ks) /\ Does(c2, A4, D2, ks) /\ Does(c3, A5, D3, ks)
       /\ Does(d, A6, {}, ks) /\ Does(e, A6, {Saved}, ks) /\ Does(f, A7, {}, ks)
       /\ ~Ends(a) /\ ~Ends(b) /\ ~Ends(c1) /\ ~Ends(c2) /\ ~Ends(c3)
       /\ ~Ends(d) /\ ~Ends(e) /\ ~Ends(f) /\ Learns(b)
    BY <1>5, <1>6, <1>7, <1>8, <1>9 DEF Quietly
<1> HIDE DEF a, b, c1, c2, c3, d, e, f, A2, A3, A4, A5, A6, A7, G2, U1, D1, D2, D3
<1>12. /\ Does(a \o b, A, G3, ks)
       /\ Learns(a \o b) /\ ~Ends(a \o b)
  <2>1. Does(a, A, G2, ks) /\ Does(b, A \cup G2, U1, ks)
    BY <1>10, <1>11
  <2>2. /\ Does(a \o b, A, G2 \cup U1, ks)
        /\ Learns(a \o b) <=> Learns(a) \/ Learns(b)
        /\ Ends(a \o b) <=> Ends(a) \/ Ends(b)
    BY <2>1, DoesConcat
  <2> QED
    BY <1>11, <2>2
<1> HIDE DEF G3
<1>13. /\ Does(a \o b \o c1, A, G4, ks)
       /\ Learns(a \o b \o c1)
       /\ ~Ends(a \o b \o c1)
  <2> DEFINE s == a \o b
  <2>1. Does(s, A, G3, ks) /\ Does(c1, A \cup G3, D1, ks) /\ Learns(s) /\ ~Ends(s)
    BY <1>10, <1>11, <1>12
  <2> HIDE DEF s
  <2>2. /\ Does(s \o c1, A, G3 \cup D1, ks)
        /\ Learns(s \o c1) <=> Learns(s) \/ Learns(c1)
        /\ Ends(s \o c1) <=> Ends(s) \/ Ends(c1)
    BY <2>1, DoesConcat
  <2>3. Does(s \o c1, A, G4, ks)
    BY <1>10, <2>2
  <2> QED
    BY <1>11, <2>1, <2>2, <2>3 DEF s
<1> HIDE DEF G4
<1>14. /\ Does(a \o b \o c1 \o c2, A, G5, ks)
       /\ Learns(a \o b \o c1 \o c2)
       /\ ~Ends(a \o b \o c1 \o c2)
  <2> DEFINE s == a \o b \o c1
  <2>1. Does(s, A, G4, ks) /\ Does(c2, A \cup G4, D2, ks) /\ Learns(s) /\ ~Ends(s)
    BY <1>10, <1>11, <1>13
  <2> HIDE DEF s
  <2>2. /\ Does(s \o c2, A, G4 \cup D2, ks)
        /\ Learns(s \o c2) <=> Learns(s) \/ Learns(c2)
        /\ Ends(s \o c2) <=> Ends(s) \/ Ends(c2)
    BY <2>1, DoesConcat
  <2>3. Does(s \o c2, A, G5, ks)
    BY <1>10, <2>2
  <2> QED
    BY <1>11, <2>1, <2>2, <2>3 DEF s
<1> HIDE DEF G5
<1>15. /\ Does(a \o b \o c1 \o c2 \o c3, A, G6, ks)
       /\ Learns(a \o b \o c1 \o c2 \o c3)
       /\ ~Ends(a \o b \o c1 \o c2 \o c3)
  <2> DEFINE s == a \o b \o c1 \o c2
  <2>1. Does(s, A, G5, ks) /\ Does(c3, A \cup G5, D3, ks) /\ Learns(s) /\ ~Ends(s)
    BY <1>10, <1>11, <1>14
  <2> HIDE DEF s
  <2>2. /\ Does(s \o c3, A, G5 \cup D3, ks)
        /\ Learns(s \o c3) <=> Learns(s) \/ Learns(c3)
        /\ Ends(s \o c3) <=> Ends(s) \/ Ends(c3)
    BY <2>1, DoesConcat
  <2>3. Does(s \o c3, A, G6, ks)
    BY <1>10, <2>2
  <2> QED
    BY <1>11, <2>1, <2>2, <2>3 DEF s
<1> HIDE DEF G6
<1>16. /\ Does(a \o b \o c1 \o c2 \o c3 \o d, A, G6, ks)
       /\ Learns(a \o b \o c1 \o c2 \o c3 \o d)
       /\ ~Ends(a \o b \o c1 \o c2 \o c3 \o d)
  <2> DEFINE s == a \o b \o c1 \o c2 \o c3
  <2>1. Does(s, A, G6, ks) /\ Does(d, A \cup G6, {}, ks) /\ Learns(s) /\ ~Ends(s)
    BY <1>10, <1>11, <1>15
  <2> HIDE DEF s
  <2>2. /\ Does(s \o d, A, G6 \cup {}, ks)
        /\ Learns(s \o d) <=> Learns(s) \/ Learns(d)
        /\ Ends(s \o d) <=> Ends(s) \/ Ends(d)
    BY <2>1, DoesConcat
  <2>3. Does(s \o d, A, G6, ks)
    BY <1>10, <2>2
  <2> QED
    BY <1>11, <2>1, <2>2, <2>3 DEF s
<1>17. /\ Does(a \o b \o c1 \o c2 \o c3 \o d \o e, A, G7, ks)
       /\ Learns(a \o b \o c1 \o c2 \o c3 \o d \o e)
       /\ ~Ends(a \o b \o c1 \o c2 \o c3 \o d \o e)
  <2> DEFINE s == a \o b \o c1 \o c2 \o c3 \o d
  <2>1. Does(s, A, G6, ks) /\ Does(e, A \cup G6, {Saved}, ks) /\ Learns(s) /\ ~Ends(s)
    BY <1>10, <1>11, <1>16
  <2> HIDE DEF s
  <2>2. /\ Does(s \o e, A, G6 \cup {Saved}, ks)
        /\ Learns(s \o e) <=> Learns(s) \/ Learns(e)
        /\ Ends(s \o e) <=> Ends(s) \/ Ends(e)
    BY <2>1, DoesConcat
  <2>3. Does(s \o e, A, G7, ks)
    BY <1>10, <2>2
  <2> QED
    BY <1>11, <2>1, <2>2, <2>3 DEF s
<1> HIDE DEF G7
<1>18. /\ Does(a \o b \o c1 \o c2 \o c3 \o d \o e \o f, A, G7, ks)
       /\ Learns(a \o b \o c1 \o c2 \o c3 \o d \o e \o f)
       /\ ~Ends(a \o b \o c1 \o c2 \o c3 \o d \o e \o f)
  <2> DEFINE s == a \o b \o c1 \o c2 \o c3 \o d \o e
  <2>1. Does(s, A, G7, ks) /\ Does(f, A \cup G7, {}, ks) /\ Learns(s) /\ ~Ends(s)
    BY <1>10, <1>11, <1>17
  <2> HIDE DEF s
  <2>2. /\ Does(s \o f, A, G7 \cup {}, ks)
        /\ Learns(s \o f) <=> Learns(s) \/ Learns(f)
        /\ Ends(s \o f) <=> Ends(s) \/ Ends(f)
    BY <2>1, DoesConcat
  <2>3. Does(s \o f, A, G7, ks)
    BY <1>10, <2>2
  <2> QED
    BY <1>11, <2>1, <2>2, <2>3 DEF s
<1>19. Saved \in G7 /\ Housed(A \cup G7) /\ <<"user", Admin>> \in A \cup G7
    BY <1>4, <1>10
<1> QED
    BY <1>1, <1>18, <1>19

-----------------------------------------------------------------------------
(* What is written, and what is kept by it *)

\* One file is written, or some of the tree.
Becomes(h, f, content, h2) ==
    /\ DOMAIN h2 = DOMAIN h \cup {f} /\ h2[f] = content
    /\ \A g \in DOMAIN h \ {f} : h2[g] = h[g]

SameStores(h, h2) ==
    \A f : f \notin TreeFile => /\ f \in DOMAIN h2 <=> f \in DOMAIN h
                                /\ f \in DOMAIN h => h2[f] = h[f]

\* Stores and key files are not in the tree.
LEMMA OutsideTree ==
    /\ \A s \in Store \cup KeyPairFile : s \notin TreeFile
    /\ \A u : KeyFile(u) \notin TreeFile /\ KeyFile(u) \notin Store
<1>1. \A u : Len(KeyFile(u)) = 2
    BY DEF KeyFile
<1>2. ASSUME NEW u PROVE ~InTree(KeyFile(u))
  <2> DEFINE n == Len(KeyFile(u))
  <2>1. n = 2
    BY <1>1
  <2> HIDE DEF n
  <2>2. ~(n > 2)
    BY <2>1
  <2> QED
    BY <2>2 DEF n, InTree
<1>3. \A u : KeyFile(u) \notin TreeFile
    BY <1>2 DEF TreeFile
<1>4. \A u : KeyFile(u) \notin Store
    BY <1>1, FileKinds
<1>5. \A s \in Store \cup KeyPairFile : s \notin TreeFile
    BY FileKinds
<1> QED
    BY <1>3, <1>4, <1>5

\* The stores, by their names.
LEMMA StoreNames ==
    /\ FileMappings \in Store /\ UserInfo \in Store /\ SharedInfo \in Store
    /\ AdminKeys \in Store
    /\ \A s \in Store : s \in {FileMappings, UserInfo, SharedInfo, AdminKeys}
    BY DEF Store

\* What Set does to one file, it does to no other.
LEMMA SetBecomes ==
    \A f, content : host' = Set(f, content) => Becomes(host, f, content, host')
    BY DEF Set, Becomes

\* A file of the tree is written or removed: no store is.
LEMMA TreeWritten ==
    ASSUME NEW h, NEW h2, NEW f \in TreeFile,
           \/ \E content : Becomes(h, f, content, h2)
           \/ DOMAIN h2 = DOMAIN h \ {f} /\ \A g \in DOMAIN h2 : h2[g] = h[g]
    PROVE  SameStores(h, h2)
    BY DEF Becomes, SameStores

\* What is on the disk follows from what a process knows.
LEMMA ConsistentDisk ==
    ASSUME NEW h, NEW m, Consistent(h, m)
    PROVE  DiskOK(h)
<1>1. Whole(h, FileMappings) => MappingsFit(h, h[FileMappings].text)
    BY DEF Consistent, MappingsFit
<1>2. ASSUME Whole(h, UserInfo)
      PROVE  UsersFit(h, h[UserInfo].text)
  <2>1. /\ Agrees(h[UserInfo].text, m[UserInfo]) /\ SecretsFit(h, h[UserInfo].text)
        /\ KeyfilesFit(h, m[UserInfo])
    BY <1>2 DEF Consistent, UsersFit
  <2>2. KeyfilesFit(h, h[UserInfo].text)
    BY <2>1 DEF KeyfilesFit, Agrees
  <2>3. Agrees(h[UserInfo].text, h[UserInfo].text)
    BY DEF Agrees
  <2> QED
    BY <2>1, <2>2, <2>3 DEF UsersFit
<1> QED
    BY <1>1, <1>2 DEF DiskOK, Consistent

\* What is known of the stores, where only the tree is written.
LEMMA SameStoresKeep ==
    ASSUME NEW h, NEW h2, SameStores(h, h2)
    PROVE  /\ \A s \in Store : /\ s \in DOMAIN h2 <=> s \in DOMAIN h
                               /\ s \in DOMAIN h => h2[s] = h[s]
           /\ \A m : Consistent(h, m) => Consistent(h2, m)
           /\ \A m : UsersSaved(h2, m) <=> UsersSaved(h, m)
           /\ \A m, ks : BaseFacts(h2, m, ks) = BaseFacts(h, m, ks)
<1>1. \A s \in Store \cup KeyPairFile : /\ s \in DOMAIN h2 <=> s \in DOMAIN h
                                        /\ s \in DOMAIN h => h2[s] = h[s]
    BY OutsideTree DEF SameStores
<1>2. \A u : /\ KeyFile(u) \in DOMAIN h2 <=> KeyFile(u) \in DOMAIN h
             /\ KeyFile(u) \in DOMAIN h => h2[KeyFile(u)] = h[KeyFile(u)]
    BY OutsideTree DEF SameStores
<1>3. \A s \in Store : Whole(h2, s) <=> Whole(h, s)
    BY <1>1 DEF Whole
<1>4. \A X : MappingsFit(h, X) => MappingsFit(h2, X)
    BY <1>1, <1>3, StoreNames DEF MappingsFit, Whole
<1>5. \A X : /\ KeyfilesFit(h, X) => KeyfilesFit(h2, X)
             /\ SecretsFit(h, X) => SecretsFit(h2, X)
    BY <1>1, <1>2, StoreNames DEF KeyfilesFit, SecretsFit
<1>6. \A X : UsersFit(h, X) => UsersFit(h2, X)
    BY <1>1, <1>3, <1>5, StoreNames DEF UsersFit, Whole
<1>7. \A m : Consistent(h, m) => Consistent(h2, m)
    BY <1>1, <1>4, <1>6, StoreNames DEF Consistent
<1>8. \A m : UsersSaved(h2, m) <=> UsersSaved(h, m)
    BY <1>1, <1>3, StoreNames DEF UsersSaved, Whole
<1>9. \A m, ks : BaseFacts(h2, m, ks) = BaseFacts(h, m, ks)
  <2>1. \A n : {g \in KeyPairFile \cap DOMAIN h2 : h2[g] = Plaintext(n)} =
                   {g \in KeyPairFile \cap DOMAIN h : h[g] = Plaintext(n)}
    BY <1>1
  <2> QED
    BY <2>1 DEF BaseFacts
<1> QED
    BY <1>1, <1>7, <1>8, <1>9

\* A store is truncated.
LEMMA BlankedStore ==
    ASSUME NEW h, NEW h2, NEW s \in Store, Becomes(h, s, Blank, h2)
    PROVE  /\ \A X : MappingsFit(h, X) => MappingsFit(h2, X)
           /\ \A X : UsersFit(h, X) => UsersFit(h2, X)
           /\ \A m : Consistent(h, m) => Consistent(h2, m)
           /\ \A m : UsersSaved(h2, m) <=> s # UserInfo /\ UsersSaved(h, m)
           /\ \A m, ks : BaseFacts(h2, m, ks) = BaseFacts(h, m, ks)
           /\ ~Whole(h2, s)
           /\ \A r \in Store \ {s} : /\ Whole(h2, r) <=> Whole(h, r)
                                     /\ Whole(h, r) => h2[r] = h[r]
<1>1. \A g \in DOMAIN h : g # s => h2[g] = h[g]
    BY DEF Becomes
<1>2. h2[s] = Blank /\ DOMAIN h2 = DOMAIN h \cup {s}
    BY DEF Becomes
<1>3. ~Whole(h2, s)
    BY <1>2 DEF Whole, Blank, Plaintext
<1>4. \A r \in Store \ {s} : /\ Whole(h2, r) <=> Whole(h, r)
                             /\ Whole(h, r) => h2[r] = h[r]
    BY <1>1, <1>2 DEF Whole
<1>5. \A X : MappingsFit(h, X) => MappingsFit(h2, X)
    BY <1>2, <1>3, <1>4, StoreNames DEF MappingsFit
<1>6. \A X : KeyfilesFit(h, X) => KeyfilesFit(h2, X)
  <2>1. \A u : KeyFile(u) # s
    BY OutsideTree
  <2> QED
    BY <1>1, <1>2, <2>1 DEF KeyfilesFit
<1>7. \A X : SecretsFit(h, X) => SecretsFit(h2, X)
    BY <1>1, <1>2 DEF SecretsFit, Blank, Plaintext
<1>8. \A X : UsersFit(h, X) => UsersFit(h2, X)
    BY <1>3, <1>4, <1>6, <1>7, StoreNames DEF UsersFit
<1>9. \A m : Consistent(h, m) => Consistent(h2, m)
    BY <1>2, <1>5, <1>8 DEF Consistent
<1>10. \A m : UsersSaved(h2, m) <=> s # UserInfo /\ UsersSaved(h, m)
    BY <1>3, <1>4, StoreNames DEF UsersSaved
<1>11. \A m, ks : BaseFacts(h2, m, ks) = BaseFacts(h, m, ks)
  <2>1. s \notin KeyPairFile
    BY FileKinds
  <2>2. \A n : {g \in KeyPairFile \cap DOMAIN h2 : h2[g] = Plaintext(n)} =
                   {g \in KeyPairFile \cap DOMAIN h : h[g] = Plaintext(n)}
    BY <1>1, <1>2, <2>1
  <2> QED
    BY <2>2 DEF BaseFacts
<1> QED
    BY <1>3, <1>4, <1>5, <1>8, <1>9, <1>10, <1>11

\* A key file is written, of a user who is not known.
LEMMA WrittenKey ==
    ASSUME NEW h, NEW h2, NEW f \in KeyPairFile, NEW content, Becomes(h, f, content, h2),
           NEW m, Consistent(h, m), f[2] \notin DOMAIN m[UserInfo]
    PROVE  /\ Consistent(h2, m)
           /\ UsersSaved(h2, m) <=> UsersSaved(h, m)
           /\ \A ks, e : e # <<"key", f>> =>
                  (e \in BaseFacts(h2, m, ks) <=> e \in BaseFacts(h, m, ks))
           /\ \A ks : content = Plaintext(Len(ks)) => <<"key", f>> \in BaseFacts(h2, m, ks)
           /\ \A s \in Store : /\ s \in DOMAIN h2 <=> s \in DOMAIN h
                               /\ s \in DOMAIN h => h2[s] = h[s]
<1>1. h2[f] = content /\ DOMAIN h2 = DOMAIN h \cup {f} /\ \A g \in DOMAIN h : g # f => h2[g] = h[g]
    BY DEF Becomes
<1>2. f \notin Store
    BY FileKinds
<1>3. \A s \in Store : /\ s \in DOMAIN h2 <=> s \in DOMAIN h
                       /\ s \in DOMAIN h => h2[s] = h[s]
    BY <1>1, <1>2
<1>4. \A s \in Store : Whole(h2, s) <=> Whole(h, s)
    BY <1>3 DEF Whole
<1>5. MappingsFit(h2, m[FileMappings])
    BY <1>3, <1>4, StoreNames DEF MappingsFit, Consistent, Whole
<1>6. \A u : KeyFile(u) = f => u = f[2]
    BY DEF KeyFile
<1>7. KeyfilesFit(h, m[UserInfo])
    BY DEF Consistent, UsersFit
<1>8. KeyfilesFit(h2, m[UserInfo])
    BY <1>1, <1>6, <1>7 DEF KeyfilesFit
<1>9. \A X : SecretsFit(h, X) => SecretsFit(h2, X)
    BY <1>3, StoreNames DEF SecretsFit
<1>10. UsersFit(h2, m[UserInfo])
    BY <1>3, <1>4, <1>8, <1>9, StoreNames DEF UsersFit, Consistent, Whole
<1>11. Consistent(h2, m)
    BY <1>3, <1>5, <1>10, StoreNames DEF Consistent
<1>12. UsersSaved(h2, m) <=> UsersSaved(h, m)
    BY <1>3, <1>4, StoreNames DEF UsersSaved, Whole
<1>13. \A ks : /\ BaseFacts(h2, m, ks) \cup {<<"key", f>>} =
                      BaseFacts(h, m, ks) \cup {<<"key", f>>}
               /\ content = Plaintext(Len(ks)) => <<"key", f>> \in BaseFacts(h2, m, ks)
  <2> SUFFICES ASSUME NEW ks
               PROVE  /\ BaseFacts(h2, m, ks) \cup {<<"key", f>>} =
                             BaseFacts(h, m, ks) \cup {<<"key", f>>}
                      /\ content = Plaintext(Len(ks)) => <<"key", f>> \in BaseFacts(h2, m, ks)
    OBVIOUS
  <2> DEFINE old == {g \in KeyPairFile \cap DOMAIN h : h[g] = Plaintext(Len(ks))}
             new == {g \in KeyPairFile \cap DOMAIN h2 : h2[g] = Plaintext(Len(ks))}
  <2>1. /\ new \ {f} = old \ {f}
        /\ content = Plaintext(Len(ks)) => f \in new
    BY <1>1
  <2>2. /\ BaseFacts(h, m, ks) =
               {<<"dir", d>> : d \in m[FileMappings].dirs}
               \cup {<<"file", g>> : g \in m[FileMappings].files}
               \cup {<<"user", u>> : u \in DOMAIN m[UserInfo]}
               \cup {<<"key", g>> : g \in old}
        /\ BaseFacts(h2, m, ks) =
               {<<"dir", d>> : d \in m[FileMappings].dirs}
               \cup {<<"file", g>> : g \in m[FileMappings].files}
               \cup {<<"user", u>> : u \in DOMAIN m[UserInfo]}
               \cup {<<"key", g>> : g \in new}
    BY DEF BaseFacts
  <2> HIDE DEF old, new
  <2>3. {<<"key", g>> : g \in new} \cup {<<"key", f>>} = {<<"key", g>> : g \in old} \cup {<<"key", f>>}
    BY <2>1
  <2> QED
    BY <2>1, <2>2, <2>3
<1> QED
    BY <1>3, <1>11, <1>12, <1>13

\* A store is written from memory.
LEMMA PutStore ==
    ASSUME NEW h, NEW h2, NEW m, NEW s \in Store, Becomes(h, s, Plaintext(m[s]), h2),
           Consistent(h, m),
           s = UserInfo => /\ Homed(m[FileMappings], m[UserInfo])
                           /\ m[UserInfo] \notin {Empty, Garbled}
    PROVE  /\ Consistent(h2, m)
           /\ UsersSaved(h2, m) <=> s = UserInfo \/ UsersSaved(h, m)
           /\ \A ks : BaseFacts(h2, m, ks) = BaseFacts(h, m, ks)
<1>1. \A g \in DOMAIN h : g # s => h2[g] = h[g]
    BY DEF Becomes
<1>2. /\ h2[s] = Plaintext(m[s]) /\ DOMAIN h2 = DOMAIN h \cup {s}
      /\ h2[s].key = Plain /\ h2[s].text = m[s]
    BY DEF Becomes, Plaintext
<1>3. \A r \in Store \ {s} : /\ Whole(h2, r) <=> Whole(h, r)
                             /\ Whole(h, r) => h2[r] = h[r]
    BY <1>1, <1>2 DEF Whole
<1>4. /\ MappingsFit(h, m[FileMappings]) /\ UsersFit(h, m[UserInfo])
      /\ Owned(m[FileMappings], m[UserInfo]) /\ Joined(m[FileMappings], m[SharedInfo])
    BY DEF Consistent
<1>5. MappingsFit(h2, m[FileMappings])
  <2>1. Whole(h2, FileMappings) => h2[FileMappings].text = m[FileMappings]
    BY <1>2, <1>3, <1>4, StoreNames DEF MappingsFit
  <2>2. Whole(h2, UserInfo) => /\ Homed(m[FileMappings], h2[UserInfo].text)
                               /\ Owned(m[FileMappings], h2[UserInfo].text)
    BY <1>2, <1>3, <1>4, StoreNames DEF MappingsFit
  <2>3. Whole(h2, SharedInfo) => Joined(m[FileMappings], h2[SharedInfo].text)
    BY <1>2, <1>3, <1>4, StoreNames DEF MappingsFit
  <2>4. UserInfo \notin DOMAIN h2 => m[FileMappings].files = {}
    BY <1>2, <1>4 DEF MappingsFit
  <2> QED
    BY <2>1, <2>2, <2>3, <2>4 DEF MappingsFit
<1>6. KeyfilesFit(h2, m[UserInfo])
  <2>1. \A u : KeyFile(u) # s
    BY OutsideTree
  <2> QED
    BY <1>1, <1>2, <1>4, <2>1 DEF KeyfilesFit, UsersFit
<1>7. \A X : SecretsFit(h, X) => SecretsFit(h2, X)
    BY <1>1, <1>2 DEF SecretsFit
<1>8. Whole(h2, UserInfo) =>
          /\ Agrees(h2[UserInfo].text, m[UserInfo]) /\ SecretsFit(h2, h2[UserInfo].text)
  <2>1. CASE s = UserInfo
    <3>1. h2[UserInfo].text = m[UserInfo] /\ SecretsFit(h2, m[UserInfo])
      BY <1>2, <1>4, <1>7, <2>1 DEF UsersFit
    <3> QED
      BY <3>1 DEF Agrees
  <2>2. CASE s # UserInfo
    BY <1>3, <1>4, <1>7, <2>2, StoreNames DEF UsersFit
  <2> QED
    BY <2>1, <2>2
<1>9. UsersFit(h2, m[UserInfo])
    BY <1>4, <1>6, <1>7, <1>8 DEF UsersFit
<1>10. Consistent(h2, m)
    BY <1>2, <1>5, <1>9 DEF Consistent
<1>11. UsersSaved(h2, m) <=> s = UserInfo \/ UsersSaved(h, m)
  <2>1. CASE s = UserInfo
    BY <1>2, <2>1 DEF UsersSaved, Whole
  <2>2. CASE s # UserInfo
    BY <1>3, <2>2, StoreNames DEF UsersSaved
  <2> QED
    BY <2>1, <2>2
<1>12. \A ks : BaseFacts(h2, m, ks) = BaseFacts(h, m, ks)
  <2>1. s \notin KeyPairFile
    BY FileKinds
  <2>2. \A n : {g \in KeyPairFile \cap DOMAIN h2 : h2[g] = Plaintext(n)} =
                   {g \in KeyPairFile \cap DOMAIN h : h[g] = Plaintext(n)}
    BY <1>1, <1>2, <2>1
  <2> QED
    BY <2>2 DEF BaseFacts
<1> QED
    BY <1>10, <1>11, <1>12

\* The private keys kept for admin are encrypted.
LEMMA SealedSecrets ==
    ASSUME NEW h, NEW h2, NEW m, NEW content, Becomes(h, AdminKeys, content, h2),
           Consistent(h, m), UsersSaved(h, m),
           Admin \in DOMAIN m[UserInfo], content.key = m[UserInfo][Admin],
           content.text = m[AdminKeys], m[AdminKeys] # Garbled
    PROVE  /\ Consistent(h2, m) /\ UsersSaved(h2, m)
           /\ \A ks : BaseFacts(h2, m, ks) = BaseFacts(h, m, ks)
<1>1. \A g \in DOMAIN h : g # AdminKeys => h2[g] = h[g]
    BY DEF Becomes
<1>2. h2[AdminKeys] = content /\ DOMAIN h2 = DOMAIN h \cup {AdminKeys}
    BY DEF Becomes
<1>3. \A r \in Store \ {AdminKeys} : /\ Whole(h2, r) <=> Whole(h, r)
                                     /\ Whole(h, r) => h2[r] = h[r]
    BY <1>1, <1>2 DEF Whole
<1>4. /\ FileMappings \in Store \ {AdminKeys} /\ UserInfo \in Store \ {AdminKeys}
      /\ SharedInfo \in Store \ {AdminKeys}
    BY FileKinds, StoreNames
<1>5. MappingsFit(h2, m[FileMappings])
    BY <1>2, <1>3, <1>4 DEF MappingsFit, Consistent
<1>6. KeyfilesFit(h2, m[UserInfo])
  <2>1. \A u : KeyFile(u) # AdminKeys
    BY OutsideTree, StoreNames
  <2> QED
    BY <1>1, <1>2, <2>1 DEF KeyfilesFit, UsersFit, Consistent
<1>7. SecretsFit(h2, m[UserInfo])
    BY <1>2 DEF SecretsFit, Consistent
<1>8. Whole(h2, UserInfo) /\ h2[UserInfo].text = m[UserInfo]
    BY <1>3, <1>4 DEF UsersSaved
<1>9. Agrees(m[UserInfo], m[UserInfo])
    BY DEF Agrees
<1>10. UsersFit(h2, m[UserInfo])
    BY <1>6, <1>7, <1>8, <1>9 DEF UsersFit
<1>11. Consistent(h2, m)
    BY <1>2, <1>5, <1>10 DEF Consistent
<1>12. \A ks : BaseFacts(h2, m, ks) = BaseFacts(h, m, ks)
  <2>1. AdminKeys \notin KeyPairFile
    BY FileKinds, StoreNames
  <2>2. \A n : {g \in KeyPairFile \cap DOMAIN h2 : h2[g] = Plaintext(n)} =
                   {g \in KeyPairFile \cap DOMAIN h : h[g] = Plaintext(n)}
    BY <1>1, <1>2, <2>1
  <2> QED
    BY <2>2 DEF BaseFacts
<1> QED
    BY <1>8, <1>11, <1>12 DEF UsersSaved

-----------------------------------------------------------------------------
(* What a process learns *)

\* One store in memory is changed.
Remembers(m, s, value, m2) ==
    m2[s] = value /\ \A r \in Store \ {s} : m2[r] = m[r]

\* Whoever has more users has the owners, the keys and the secrets of fewer.
LEMMA MoreUsers ==
    ASSUME NEW X, NEW Y, Agrees(X, Y)
    PROVE  /\ \A mappings : Owned(mappings, X) => Owned(mappings, Y)
           /\ \A Z : Agrees(Z, X) => Agrees(Z, Y)
           /\ \A Z : FitsOrNull(Z, X) => FitsOrNull(Z, Y)
           /\ \A h : SecretsFit(h, X) => SecretsFit(h, Y)
<1>1. /\ \A Z : Agrees(Z, X) => Agrees(Z, Y)
      /\ \A Z : FitsOrNull(Z, X) => FitsOrNull(Z, Y)
    BY DEF Agrees, FitsOrNull
<1>2. \A mappings : Owned(mappings, X) => Owned(mappings, Y)
    BY DEF Agrees, Owned
<1>3. \A h : SecretsFit(h, X) => SecretsFit(h, Y)
    BY <1>1 DEF SecretsFit, Agrees
<1> QED
    BY <1>1, <1>2, <1>3

\* A version of FileMappings with more directories and files than another.
Registers(old, D, F, version) ==
    version.dirs = old.dirs \cup D /\ version.files = old.files \cup F

MoreFacts(A, D, F, B) ==
    \A e : e \in B <=> \/ e \in A
                       \/ \E d \in D : e = <<"dir", d>>
                       \/ \E f \in F : e = <<"file", f>>

\* Directories and files are registered in memory, while FileMappings is
\* truncated on the disk.
LEMMA RegisteredMore ==
    ASSUME NEW h, NEW m, NEW m2, Consistent(h, m), ~Whole(h, FileMappings), NEW D, NEW F,
           NEW version, Remembers(m, FileMappings, version, m2),
           Registers(m[FileMappings], D, F, version),
           F # {} => UsersSaved(h, m) /\ \A f \in F : f[1] \in DOMAIN m[UserInfo]
    PROVE  /\ Consistent(h, m2)
           /\ UsersSaved(h, m2) <=> UsersSaved(h, m)
           /\ \A ks : MoreFacts(BaseFacts(h, m, ks), D, F, BaseFacts(h, m2, ks))
<1>1. /\ m2[FileMappings] = version /\ m2[UserInfo] = m[UserInfo]
      /\ m2[SharedInfo] = m[SharedInfo] /\ m2[AdminKeys] = m[AdminKeys]
    BY FileKinds, StoreNames DEF Remembers
<1>11. /\ version.dirs = m[FileMappings].dirs \cup D
       /\ version.files = m[FileMappings].files \cup F
    BY DEF Registers
<1>2. /\ MappingsFit(h, m[FileMappings]) /\ UserInfo \in DOMAIN h
      /\ Owned(m[FileMappings], m[UserInfo]) /\ Joined(m[FileMappings], m[SharedInfo])
    BY DEF Consistent
<1>3. \A X : Homed(m[FileMappings], X) => Homed(version, X)
    BY <1>11 DEF Homed
<1>4. \A X : Joined(m[FileMappings], X) => Joined(version, X)
    BY <1>11 DEF Joined
<1>5. Owned(version, m[UserInfo])
    BY <1>2, <1>11 DEF Owned
<1>6. Whole(h, UserInfo) => Owned(version, h[UserInfo].text)
  <2>1. CASE F = {}
    BY <1>2, <1>11, <2>1 DEF MappingsFit, Owned
  <2>2. CASE F # {}
    BY <1>5, <2>2 DEF UsersSaved
  <2> QED
    BY <2>1, <2>2
<1>7. MappingsFit(h, version)
    BY <1>2, <1>3, <1>4, <1>6, <1>11 DEF MappingsFit
<1>8. Consistent(h, m2)
    BY <1>1, <1>4, <1>5, <1>7 DEF Consistent
<1>9. UsersSaved(h, m2) <=> UsersSaved(h, m)
    BY <1>1 DEF UsersSaved
<1>10. ASSUME NEW ks
       PROVE  BaseFacts(h, m2, ks) = BaseFacts(h, m, ks) \cup {<<"dir", d>> : d \in D}
                                        \cup {<<"file", f>> : f \in F}
  <2> DEFINE K == {<<"key", f>> : f \in {g \in KeyPairFile \cap DOMAIN h :
                                            h[g] = Plaintext(Len(ks))}}
             U == {<<"user", u>> : u \in DOMAIN m[UserInfo]}
  <2>1. /\ BaseFacts(h, m, ks) = {<<"dir", d>> : d \in m[FileMappings].dirs}
                   \cup {<<"file", f>> : f \in m[FileMappings].files} \cup U \cup K
        /\ BaseFacts(h, m2, ks) = {<<"dir", d>> : d \in version.dirs}
                   \cup {<<"file", f>> : f \in version.files} \cup U \cup K
    BY <1>1 DEF BaseFacts
  <2> HIDE DEF K, U
  <2>2. /\ {<<"dir", d>> : d \in version.dirs} =
               {<<"dir", d>> : d \in m[FileMappings].dirs} \cup {<<"dir", d>> : d \in D}
        /\ {<<"file", f>> : f \in version.files} =
               {<<"file", f>> : f \in m[FileMappings].files} \cup {<<"file", f>> : f \in F}
    BY <1>11
  <2> QED
    BY <2>1, <2>2
<1>12. \A ks : MoreFacts(BaseFacts(h, m, ks), D, F, BaseFacts(h, m2, ks))
    BY <1>10 DEF MoreFacts
<1> QED
    BY <1>8, <1>9, <1>12

Adds(old, u, k, table) ==
    /\ DOMAIN table = DOMAIN old \cup {u}
    /\ \A v \in DOMAIN table : table[v] = IF v = u THEN k ELSE old[v]

\* A user is learnt, with the key their keyfile holds.
LEMMA LearntUser ==
    ASSUME NEW h, NEW m, NEW m2, Consistent(h, m), NEW u, NEW k \in Nat, NEW table,
           KeyFile(u) \in DOMAIN h, h[KeyFile(u)].text = k,
           Adds(m[UserInfo], u, k, table), Remembers(m, UserInfo, table, m2)
    PROVE  /\ Consistent(h, m2)
           /\ \A ks, e : e \in BaseFacts(h, m2, ks) <=>
                             e \in BaseFacts(h, m, ks) \/ e = <<"user", u>>
<1>1. /\ m2[UserInfo] = table /\ m2[FileMappings] = m[FileMappings]
      /\ m2[SharedInfo] = m[SharedInfo] /\ m2[AdminKeys] = m[AdminKeys]
    BY FileKinds, StoreNames DEF Remembers
<1>2. /\ DOMAIN table = DOMAIN m[UserInfo] \cup {u}
      /\ \A v \in DOMAIN table : table[v] = IF v = u THEN k ELSE m[UserInfo][v]
    BY DEF Adds
<1>3. KeyfilesFit(h, m[UserInfo]) /\ UsersFit(h, m[UserInfo])
    BY DEF Consistent, UsersFit
<1>4. Agrees(m[UserInfo], table)
    BY <1>2, <1>3 DEF KeyfilesFit, Agrees
<1>5. KeyfilesFit(h, table)
    BY <1>2, <1>3 DEF KeyfilesFit
<1>6. UsersFit(h, table)
    BY <1>3, <1>4, <1>5, MoreUsers DEF UsersFit
<1>7. Consistent(h, m2)
    BY <1>1, <1>4, <1>6, MoreUsers DEF Consistent
<1>8. ASSUME NEW ks
      PROVE  BaseFacts(h, m2, ks) = BaseFacts(h, m, ks) \cup {<<"user", u>>}
  <2> DEFINE K == {<<"key", f>> : f \in {g \in KeyPairFile \cap DOMAIN h :
                                            h[g] = Plaintext(Len(ks))}}
             D == {<<"dir", d>> : d \in m[FileMappings].dirs}
             F == {<<"file", f>> : f \in m[FileMappings].files}
  <2>1. /\ BaseFacts(h, m, ks) = D \cup F \cup {<<"user", v>> : v \in DOMAIN m[UserInfo]} \cup K
        /\ BaseFacts(h, m2, ks) = D \cup F \cup {<<"user", v>> : v \in DOMAIN table} \cup K
    BY <1>1 DEF BaseFacts
  <2> HIDE DEF K, D, F
  <2>2. {<<"user", v>> : v \in DOMAIN table} =
            {<<"user", v>> : v \in DOMAIN m[UserInfo]} \cup {<<"user", u>>}
    BY <1>2
  <2> QED
    BY <2>1, <2>2
<1> QED
    BY <1>7, <1>8

\* Private keys, or null records, are learnt that fit the public ones.
LEMMA LearntSecrets ==
    ASSUME NEW h, NEW m, NEW m2, Consistent(h, m), NEW table,
           FitsOrNull(table, m[UserInfo]),
           Remembers(m, AdminKeys, table, m2)
    PROVE  /\ Consistent(h, m2)
           /\ UsersSaved(h, m2) <=> UsersSaved(h, m)
           /\ \A ks : BaseFacts(h, m2, ks) = BaseFacts(h, m, ks)
<1>1. /\ m2[AdminKeys] = table /\ m2[FileMappings] = m[FileMappings]
      /\ m2[SharedInfo] = m[SharedInfo] /\ m2[UserInfo] = m[UserInfo]
    BY FileKinds, StoreNames DEF Remembers
<1>2. Consistent(h, m2)
    BY <1>1 DEF Consistent
<1> QED
    BY <1>1, <1>2 DEF UsersSaved, BaseFacts

\* A link is made between files that are registered.
LEMMA Linked ==
    ASSUME NEW h, NEW m, NEW m2, Consistent(h, m), NEW f, NEW g,
           f \in m[FileMappings].files, g \in m[FileMappings].files, NEW links,
           \A l \in links : l \in m[SharedInfo] \/ l = <<f, g>>,
           Remembers(m, SharedInfo, links, m2)
    PROVE  /\ Consistent(h, m2)
           /\ UsersSaved(h, m2) <=> UsersSaved(h, m)
           /\ \A ks : BaseFacts(h, m2, ks) = BaseFacts(h, m, ks)
<1>1. /\ m2[AdminKeys] = m[AdminKeys] /\ m2[FileMappings] = m[FileMappings]
      /\ m2[SharedInfo] = links /\ m2[UserInfo] = m[UserInfo]
    BY FileKinds, StoreNames DEF Remembers
<1>2. Joined(m[FileMappings], m[SharedInfo])
    BY DEF Consistent
<1>3. Joined(m[FileMappings], m2[SharedInfo])
    BY <1>1, <1>2 DEF Joined
<1>4. Consistent(h, m2)
    BY <1>1, <1>3 DEF Consistent
<1> QED
    BY <1>1, <1>4 DEF UsersSaved, BaseFacts

-----------------------------------------------------------------------------
(* The rest of a handler, after one of its steps *)

\* The facts, one kind after the other.
LEMMA FactsAre ==
    ASSUME NEW h, NEW m, NEW t, NEW ks
    PROVE  /\ \A u : <<"user", u>> \in Facts(h, m, t, ks) <=> u \in DOMAIN m[UserInfo]
           /\ \A d : <<"dir", d>> \in Facts(h, m, t, ks) <=> d \in m[FileMappings].dirs
           /\ \A f : <<"file", f>> \in Facts(h, m, t, ks) <=> f \in m[FileMappings].files
           /\ \A f : <<"key", f>> \in Facts(h, m, t, ks) <=>
                         f \in KeyPairFile \cap DOMAIN h /\ h[f] = Plaintext(Len(ks))
           /\ Saved \notin BaseFacts(h, m, ks)
           /\ Saved \in Facts(h, m, t, ks) <=> UsersSaved(h, m) /\ ~Learns(t)
           /\ Facts(h, m, t, ks) = BaseFacts(h, m, ks)
                  \cup IF UsersSaved(h, m) /\ ~Learns(t) THEN {Saved} ELSE {}
<1> DEFINE K == {g \in KeyPairFile \cap DOMAIN h : h[g] = Plaintext(Len(ks))}
           B == BaseFacts(h, m, ks)
<1>1. B = {<<"dir", d>> : d \in m[FileMappings].dirs}
             \cup {<<"file", f>> : f \in m[FileMappings].files}
             \cup {<<"user", u>> : u \in DOMAIN m[UserInfo]}
             \cup {<<"key", f>> : f \in K}
    BY DEF BaseFacts
<1>2. \A f : f \in K <=> f \in KeyPairFile \cap DOMAIN h /\ h[f] = Plaintext(Len(ks))
    OBVIOUS
<1> HIDE DEF K, B
<1>3. \A u : <<"user", u>> \in B <=> u \in DOMAIN m[UserInfo]
    BY <1>1, FactKinds
<1>4. \A d : <<"dir", d>> \in B <=> d \in m[FileMappings].dirs
    BY <1>1, FactKinds
<1>5. \A f : <<"file", f>> \in B <=> f \in m[FileMappings].files
    BY <1>1, FactKinds
<1>6. \A f : <<"key", f>> \in B <=> f \in K
    BY <1>1, FactKinds
<1>7. Saved \notin B
    BY <1>1, FactKinds
<1>8. Facts(h, m, t, ks) = B \cup IF UsersSaved(h, m) /\ ~Learns(t) THEN {Saved} ELSE {}
    BY DEF Facts, B
<1> QED
    BY <1>2, <1>3, <1>4, <1>5, <1>6, <1>7, <1>8, FactKinds DEF B

\* Where the users are saved, nothing is learnt.
LEMMA LearnsUnsaved ==
    ASSUME NEW S, NEW t \in Seq(S), NEW A, NEW n, Feasible(t, A, n), Saved \in A
    PROVE  ~Learns(t)
<1> SUFFICES ASSUME NEW i \in DOMAIN t, t[i].do = "learn"
             PROVE  FALSE
    BY DEF Learns, ToSet
<1>1. Needs(t[i], A \cup GivenBefore(t, i), n)
    BY DEF Feasible
<1> QED
    BY <1>1 DEF Needs

\* That the users are saved stands in the way of nothing but learning.
LEMMA NeedsSaved ==
    ASSUME NEW s, s.do # "learn", NEW A, NEW n, Needs(s, A, n)
    PROVE  Needs(s, A \cup {Saved}, n)
<1>1. \A u : <<"user", u>> \in A \cup {Saved} => <<"user", u>> \in A
    BY FactKinds
<1>2. Housed(A) => Housed(A \cup {Saved})
    BY HousedStill
<1>3. ~LearnsUser(s)
    BY DEF LearnsUser
<1> QED
    BY <1>1, <1>2, <1>3 DEF Needs

\* The same of a sequence.
LEMMA FeasibleSaved ==
    ASSUME NEW S, NEW t \in Seq(S), NEW A, NEW n, Feasible(t, A, n), ~Learns(t)
    PROVE  Feasible(t, A \cup {Saved}, n)
<1> SUFFICES ASSUME NEW i \in DOMAIN t
             PROVE  Needs(t[i], A \cup {Saved} \cup GivenBefore(t, i), n)
    BY DEF Feasible
<1>1. t[i].do # "learn"
    BY DEF Learns, ToSet
<1>2. Needs(t[i], A \cup GivenBefore(t, i), n)
    BY DEF Feasible
<1>3. A \cup {Saved} \cup GivenBefore(t, i) = A \cup GivenBefore(t, i) \cup {Saved}
    OBVIOUS
<1> QED
    BY <1>1, <1>2, <1>3, NeedsSaved

\* A step is done.
LEMMA PlanRest ==
    ASSUME NEW S, NEW t \in Seq(S), t # <<>>, NEW s, s = Head(t), NEW r, r = Tail(t), NEW ks,
           NEW h, NEW m, PlanOK(h, m, t, ks), NEW h2, NEW m2,
           BaseFacts(h2, m2, ks) \cup {Saved} = BaseFacts(h, m, ks) \cup Gives(s) \cup {Saved},
           \/ s.do = "learn"
           \/ SavesUsers(s) /\ UsersSaved(h2, m2)
           \/ ~SavesUsers(s) /\ (UsersSaved(h2, m2) <=> UsersSaved(h, m))
    PROVE  PlanOK(h2, m2, r, ks)
<1> DEFINE A == Facts(h, m, t, ks)
           A2 == Facts(h2, m2, r, ks)
           n == Len(ks)
<1>1. /\ Needs(s, A, n) /\ Feasible(r, A \cup Gives(s), n)
    BY FeasibleRest DEF PlanOK
<1>2. /\ Saves(t)  <=> SavesUsers(s) \/ Saves(r)
      /\ Learns(t) <=> s.do = "learn" \/ Learns(r)
    BY RestFacts
<1>3. ReadsBack(r)
    BY ReadsBackRest DEF PlanOK
<1>4. /\ Learns(t) => Saves(t)
      /\ UsersSaved(h, m) \/ Saves(t)
    BY DEF PlanOK
<1>5. /\ Saved \notin BaseFacts(h, m, ks) /\ Saved \notin BaseFacts(h2, m2, ks)
      /\ Saved \in A <=> UsersSaved(h, m) /\ ~Learns(t)
      /\ A = BaseFacts(h, m, ks) \cup IF UsersSaved(h, m) /\ ~Learns(t) THEN {Saved} ELSE {}
      /\ A2 = BaseFacts(h2, m2, ks) \cup IF UsersSaved(h2, m2) /\ ~Learns(r) THEN {Saved} ELSE {}
    BY FactsAre
<1>6. Saved \in Gives(s) <=> SavesUsers(s)
    BY SavesGiven
<1>7. r \in Seq(S)
    BY UnconsFacts
<1> HIDE DEF A, A2, n
<1>8. SavesUsers(s) => ~Learns(r)
    BY <1>1, <1>6, <1>7, LearnsUnsaved
<1>9. SavesUsers(s) => s.do # "learn"
    BY DEF SavesUsers, Puts
<1>10. \/ A2 = A \cup Gives(s)
       \/ A2 = (A \cup Gives(s)) \cup {Saved} /\ ~Learns(r)
  <2>1. CASE s.do = "learn"
    <3>1. A = BaseFacts(h, m, ks)
      BY <1>2, <1>5, <2>1
    <3>2. Saved \notin Gives(s)
      BY <1>6, <1>9, <2>1
    <3>3. BaseFacts(h2, m2, ks) = A \cup Gives(s)
      BY <1>5, <3>1, <3>2
    <3> QED
      BY <1>5, <3>3
  <2>2. CASE SavesUsers(s) /\ UsersSaved(h2, m2)
    <3>1. A2 = BaseFacts(h2, m2, ks) \cup {Saved} /\ ~Learns(r)
      BY <1>5, <1>8, <2>2
    <3>2. A2 = (A \cup Gives(s)) \cup {Saved}
      BY <1>5, <3>1
    <3> QED
      BY <3>1, <3>2
  <2>3. CASE s.do # "learn" /\ ~SavesUsers(s) /\ (UsersSaved(h2, m2) <=> UsersSaved(h, m))
    <3>1. Learns(t) <=> Learns(r)
      BY <1>2, <2>3
    <3>2. Saved \notin Gives(s)
      BY <1>6, <2>3
    <3>3. BaseFacts(h2, m2, ks) = BaseFacts(h, m, ks) \cup Gives(s)
      BY <1>5, <3>2
    <3> QED
      BY <1>5, <2>3, <3>1, <3>3
  <2> QED
    BY <2>1, <2>2, <2>3
<1>11. Feasible(r, A2, n)
  <2> DEFINE B == A \cup Gives(s)
  <2>1. Feasible(r, B, n) /\ (A2 = B \/ (A2 = B \cup {Saved} /\ ~Learns(r)))
    BY <1>1, <1>10
  <2> HIDE DEF B
  <2>2. ~Learns(r) => Feasible(r, B \cup {Saved}, n)
    BY <1>7, <2>1, FeasibleSaved
  <2> QED
    BY <2>1, <2>2
<1>12. Learns(r) => Saves(r)
    BY <1>2, <1>4, <1>8
<1>13. UsersSaved(h2, m2) \/ Saves(r)
    BY <1>2, <1>4, <1>9
<1> QED
    BY <1>3, <1>11, <1>12, <1>13 DEF PlanOK, A2, n

\* A handler is entered.
LEMMA PlanOfHandler ==
    ASSUME NEW h, NEW m, NEW t, NEW ks, NEW A, NEW G, Does(t, A, G, ks),
           A = Facts(h, m, t, ks), Learns(t) => Saved \in G,
           UsersSaved(h, m) \/ Saved \in G
    PROVE  PlanOK(h, m, t, ks)
<1>1. /\ t \in Seq(QueuedStep(ks)) /\ GivenBy(t) = G
      /\ Feasible(t, A, Len(ks)) /\ ReadsBack(t)
    BY DEF Does
<1>2. Saves(t) <=> Saved \in G
    BY <1>1, SavesGives
<1> QED
    BY <1>1, <1>2 DEF PlanOK

\* A step that waits for its turn writes nothing yet.
LEMMA QueuedHead ==
    ASSUME NEW ks, NEW s \in QueuedStep(ks), NEW h, NEW m, NEW hd,
           ReadsSecrets(s) => AdminKeys \in DOMAIN h /\ h[AdminKeys] = Plaintext(m[AdminKeys])
    PROVE  HeadOK(h, m, hd, s)
<1>1. /\ s.do \notin {"put", "put key", "seal"}
      /\ s.do = "open" => s.write.do # "put key"
    BY DEF QueuedStep, OpenStep, PutStep, KeyOpen, PublicOpen
<1>2. ~SealsSecrets(s)
    BY QueuedSealsNothing DEF SealsSecrets
<1> QED
    BY <1>1, <1>2 DEF HeadOK

\* Steps that wait for their turn are a handler.
LEMMA QueuedHandling ==
    ASSUME NEW ks, NEW t \in Seq(QueuedStep(ks))
    PROVE  Handling(t, ks) /\ t \in Seq(AnyStep(ks))
<1>1. t \in Seq(AnyStep(ks))
    BY SeqMonotonic DEF AnyStep
<1>2. t # <<>> => Tail(t) \in Seq(QueuedStep(ks))
    BY UnconsFacts
<1> QED
    BY <1>1, <1>2 DEF Handling

\* What Loaded says of a process that is in a handler.
LEMMA LoadedFacts ==
    ASSUME NEW h, NEW u, NEW m, NEW hd, NEW t, NEW ks, Loaded(h, u, m, hd, t, ks),
           t # <<>>, Head(t).do \notin {"begin", "unlock"}
    PROVE  /\ t \in Seq(AnyStep(ks)) /\ Tail(t) \in Seq(QueuedStep(ks))
           /\ Head(t) \in AnyStep(ks)
           /\ Consistent(h, m) /\ PlanOK(h, m, t, ks) /\ HeadOK(h, m, hd, Head(t))
           /\ Needs(Head(t), Facts(h, m, t, ks), Len(ks))
<1>1. ~(\E f \in KeyPairFile : t = <<On("begin", f)>>) /\ t # <<On("unlock", AdminKeys)>>
  <2>1. \A f : Head(<<On("begin", f)>>).do = "begin"
    BY DEF On
  <2>2. Head(<<On("unlock", AdminKeys)>>).do = "unlock"
    BY DEF On
  <2> QED
    BY <2>1, <2>2
<1>2. t \in Seq(AnyStep(ks)) /\ Tail(t) \in Seq(QueuedStep(ks))
    BY <1>1 DEF Loaded, Handling
<1>3. Head(t) \in AnyStep(ks)
    BY <1>2, UnconsFacts
<1>4. Consistent(h, m) /\ PlanOK(h, m, t, ks) /\ HeadOK(h, m, hd, Head(t))
    BY DEF Loaded
<1>5. Needs(Head(t), Facts(h, m, t, ks), Len(ks))
    BY <1>2, <1>4, FeasibleRest DEF PlanOK
<1> QED
    BY <1>2, <1>3, <1>4, <1>5

\* A step is done, and the next one is there.
LEMMA LoadedRest ==
    ASSUME NEW h, NEW u, NEW m, NEW hd, NEW t, NEW ks, Loaded(h, u, m, hd, t, ks),
           t # <<>>, NEW s, s = Head(t), s.do \notin {"begin", "unlock", "quit"},
           NEW h2, NEW m2, NEW hd2, Consistent(h2, m2),
           DOMAIN m[UserInfo] \subseteq DOMAIN m2[UserInfo],
           BaseFacts(h2, m2, ks) \cup {Saved} = BaseFacts(h, m, ks) \cup Gives(s) \cup {Saved},
           \/ s.do = "learn"
           \/ SavesUsers(s) /\ UsersSaved(h2, m2)
           \/ ~SavesUsers(s) /\ (UsersSaved(h2, m2) <=> UsersSaved(h, m)),
           PutsSecrets(s) =>
               AdminKeys \in DOMAIN h2 /\ h2[AdminKeys] = Plaintext(m2[AdminKeys])
    PROVE  Loaded(h2, u, m2, hd2, Tail(t), ks)
<1> DEFINE r == Tail(t)
<1>1. t \in Seq(AnyStep(ks)) /\ r \in Seq(QueuedStep(ks)) /\ PlanOK(h, m, t, ks)
    BY LoadedFacts
<1>2. PlanOK(h2, m2, r, ks)
    BY <1>1, PlanRest
<1>3. Handling(r, ks)
    BY <1>1, QueuedHandling
<1>4. ASSUME r # <<>>
      PROVE  HeadOK(h2, m2, hd2, Head(r))
  <2>1. Head(r) \in QueuedStep(ks)
    BY <1>1, <1>4, UnconsFacts
  <2>2. ReadsSecrets(Head(r)) => PutsSecrets(s)
    BY <1>1, <1>4, ReadsBackRest DEF PlanOK
  <2> QED
    BY <2>1, <2>2, QueuedHead
<1>5. Ends(t) => Ends(r)
    BY <1>1, RestFacts
<1>6. IF u = NoUser THEN Ends(t) ELSE {u, Admin} \subseteq DOMAIN m[UserInfo]
    BY DEF Loaded
<1> HIDE DEF r
<1>7. IF u = NoUser THEN Ends(r) ELSE {u, Admin} \subseteq DOMAIN m2[UserInfo]
    BY <1>5, <1>6
<1> QED
    BY <1>2, <1>3, <1>4, <1>7 DEF Loaded, r

\* A step has given way to the one it prepares.
LEMMA LoadedExchanged ==
    ASSUME NEW h, NEW u, NEW m, NEW hd, NEW t, NEW ks, Loaded(h, u, m, hd, t, ks),
           t # <<>>, NEW s, s = Head(t),
           s.do \notin {"begin", "unlock", "quit", "learn"},
           NEW w \in AnyStep(ks), w.do # "learn",
           NEW h2, NEW m2, NEW hd2, Consistent(h2, m2), HeadOK(h2, m2, hd2, w),
           DOMAIN m[UserInfo] \subseteq DOMAIN m2[UserInfo],
           Needs(w, Facts(h2, m2, <<w>> \o Tail(t), ks), Len(ks)),
           BaseFacts(h2, m2, ks) \cup Gives(w) \cup {Saved} =
               BaseFacts(h, m, ks) \cup Gives(s) \cup {Saved},
           PutsSecrets(s) => PutsSecrets(w), SavesUsers(s) <=> SavesUsers(w),
           UsersSaved(h2, m2) <=> UsersSaved(h, m) /\ ~SavesUsers(s)
    PROVE  Loaded(h2, u, m2, hd2, <<w>> \o Tail(t), ks)
<1> DEFINE A == Facts(h, m, t, ks)
           t2 == <<w>> \o Tail(t)
           A2 == Facts(h2, m2, t2, ks)
           n == Len(ks)
           r == Tail(t)
<1>1. /\ t \in Seq(AnyStep(ks)) /\ r \in Seq(QueuedStep(ks)) /\ r \in Seq(AnyStep(ks))
      /\ PlanOK(h, m, t, ks)
    BY LoadedFacts, QueuedHandling
<1>2. /\ Needs(s, A, n) /\ Feasible(r, A \cup Gives(s), n)
    BY <1>1, FeasibleRest DEF PlanOK
<1>3. /\ t2 \in Seq(AnyStep(ks)) /\ t2 # <<>> /\ Head(t2) = w /\ Tail(t2) = r
    BY <1>1, ConsFacts
<1>4. /\ ReadsBack(r)
      /\ r # <<>> /\ ReadsSecrets(Head(r)) => PutsSecrets(s)
    BY <1>1, ReadsBackRest DEF PlanOK
<1>5. Needs(w, A2, n)
    OBVIOUS
<1> HIDE DEF t2
<1>6. /\ Saves(t)  <=> SavesUsers(s) \/ Saves(r)
      /\ Learns(t) <=> s.do = "learn" \/ Learns(r)
      /\ Ends(t)   <=> s.do \in {"begin", "quit"} \/ Ends(r)
    BY <1>1, RestFacts
<1>7. /\ Saves(t2)  <=> SavesUsers(w) \/ Saves(r)
      /\ Learns(t2) <=> w.do = "learn" \/ Learns(r)
      /\ Ends(t2)   <=> w.do \in {"begin", "quit"} \/ Ends(r)
  <2>1. /\ Saves(t2)  <=> SavesUsers(Head(t2)) \/ Saves(Tail(t2))
        /\ Learns(t2) <=> Head(t2).do = "learn" \/ Learns(Tail(t2))
        /\ Ends(t2)   <=> Head(t2).do \in {"begin", "quit"} \/ Ends(Tail(t2))
    BY <1>3, RestFacts
  <2> QED
    BY <1>3, <2>1
<1>8. /\ Saved \notin BaseFacts(h, m, ks) /\ Saved \notin BaseFacts(h2, m2, ks)
      /\ A = BaseFacts(h, m, ks) \cup IF UsersSaved(h, m) /\ ~Learns(t) THEN {Saved} ELSE {}
      /\ A2 = BaseFacts(h2, m2, ks) \cup IF UsersSaved(h2, m2) /\ ~Learns(t2) THEN {Saved} ELSE {}
    BY FactsAre
<1>9. /\ Saved \in Gives(s) <=> SavesUsers(s)
      /\ Saved \in Gives(w) <=> SavesUsers(w)
    BY SavesGiven
<1>10. ReadsBack(t2)
    BY <1>3, <1>4, ReadsBackRest
<1> HIDE DEF A, A2, n, r
<1>11. A2 \cup Gives(w) = A \cup Gives(s)
  <2>1. CASE SavesUsers(s)
    BY <1>8, <1>9, <2>1
  <2>2. CASE ~SavesUsers(s)
    <3>1. Learns(t) <=> Learns(t2)
      BY <1>6, <1>7
    <3>2. BaseFacts(h2, m2, ks) \cup Gives(w) = BaseFacts(h, m, ks) \cup Gives(s)
      BY <1>8, <1>9, <2>2
    <3> QED
      BY <1>8, <2>2, <3>1, <3>2
  <2> QED
    BY <2>1, <2>2
<1>12. Feasible(t2, A2, n)
  <2>1. Feasible(r, A2 \cup Gives(w), n)
    BY <1>2, <1>11
  <2> QED
    BY <1>3, <1>5, <2>1, FeasibleRest
<1>13. /\ Learns(t2) => Saves(t2)
       /\ UsersSaved(h2, m2) \/ Saves(t2)
    BY <1>1, <1>6, <1>7 DEF PlanOK
<1>14. PlanOK(h2, m2, t2, ks)
    BY <1>10, <1>12, <1>13 DEF PlanOK, A2, n
<1>15. Handling(t2, ks)
    BY <1>1, <1>3 DEF Handling
<1>16. IF u = NoUser THEN Ends(t) ELSE {u, Admin} \subseteq DOMAIN m[UserInfo]
    BY DEF Loaded
<1>17. IF u = NoUser THEN Ends(t2) ELSE {u, Admin} \subseteq DOMAIN m2[UserInfo]
    BY <1>6, <1>7, <1>16
<1>18. Loaded(h2, u, m2, hd2, t2, ks)
    BY <1>3, <1>14, <1>15, <1>17 DEF Loaded
<1> QED
    BY <1>18 DEF t2

\* A handler is entered.
LEMMA LoadedHandler ==
    ASSUME NEW h, NEW u, NEW m, NEW hd, NEW t, NEW ks, NEW G,
           Does(t, Facts(h, m, t, ks), G, ks), Learns(t) => Saved \in G,
           UsersSaved(h, m) \/ Saved \in G, Consistent(h, m),
           IF u = NoUser THEN Ends(t) ELSE {u, Admin} \subseteq DOMAIN m[UserInfo]
    PROVE  Loaded(h, u, m, hd, t, ks)
<1>1. PlanOK(h, m, t, ks)
    BY PlanOfHandler
<1>2. /\ t \in Seq(QueuedStep(ks))
      /\ t # <<>> => ~ReadsSecrets(Head(t))
    BY DEF Does
<1>3. Handling(t, ks)
    BY <1>2, QueuedHandling
<1>4. t # <<>> => HeadOK(h, m, hd, Head(t))
    BY <1>2, UnconsFacts, QueuedHead
<1> QED
    BY <1>1, <1>3, <1>4 DEF Loaded

=============================================================================
