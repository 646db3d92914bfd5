--------------------------- MODULE RecoveryProofs ---------------------------
(***************************************************************************)
(* What deaths leave on the disk when one process runs at a time: proofs   *)
(* of the properties of Sessions that sessions side by side do not keep.   *)
(*                                                                         *)
(* The invariant, and what it says of values, is in RecoveryLemmas; here   *)
(* each step of the process is shown to keep it.                           *)
(***************************************************************************)
EXTENDS RecoveryLemmas, FiniteSetTheorems

-----------------------------------------------------------------------------
(* One process runs *)

\* While a process runs, no other does.
LEMMA OthersAreStill ==
    ASSUME RInv, NEW p \in Proc, Running(p), NEW q \in Proc \ {p}
    PROVE  ~Running(q) /\ mem[q] = NewMemory
<1>1. ~Running(q)
    BY DEF RInv, OneRuns
<1> QED
    BY <1>1 DEF RInv, Fits

\* What is to be shown of a step: the disk, and the process that took it.
LEMMA RecoveryOfStep ==
    ASSUME RInv, NEW p \in Proc, Running(p), StepBy(p), DiskOK(host'), Fits(p)'
    PROVE  RInv'
<1>1. ASSUME NEW q \in Proc \ {p}
      PROVE  ~Running(q)' /\ Fits(q)'
  <2>1. ~Running(q) /\ mem[q] = NewMemory
    BY OthersAreStill
  <2>2. user'[q] = user[q] /\ todo'[q] = todo[q] /\ mem'[q] = mem[q]
    BY DEF StepBy
  <2>3. ~Running(q)'
    BY <2>1, <2>2 DEF Running
  <2> QED
    BY <2>1, <2>2, <2>3 DEF Fits
<1>2. OneRuns'
    BY <1>1 DEF OneRuns
<1>3. \A q \in Proc : Fits(q)'
    BY <1>1
<1> QED
    BY <1>2, <1>3 DEF RInv

\* A process that has read the stores goes on.
LEMMA RecoveryOfLoaded ==
    ASSUME RInv, NEW p \in Proc, Running(p), StepBy(p),
           Loaded(host', user'[p], mem'[p], hold'[p], todo'[p], keys')
    PROVE  RInv'
<1>1. DiskOK(host')
    BY ConsistentDisk DEF Loaded
<1>2. Running(p)'
  <2>1. CASE user'[p] = NoUser
    <3>1. Ends(todo'[p])
      BY <2>1 DEF Loaded
    <3>2. todo'[p] # <<>>
      BY <3>1, DoesNothing
    <3> QED
      BY <3>2 DEF Running
  <2>2. CASE user'[p] # NoUser
    BY <2>2 DEF Running
  <2> QED
    BY <2>1, <2>2
<1>3. Fits(p)'
    BY <1>2 DEF Fits
<1> QED
    BY <1>1, <1>3, RecoveryOfStep

\* A process that reads the stores goes on.
LEMMA RecoveryOfLoading ==
    ASSUME RInv, NEW p \in Proc, Running(p), StepBy(p), DiskOK(host'), todo'[p] # <<>>,
           Loading(host', user'[p], mem'[p], todo'[p])
    PROVE  RInv'
<1>1. Fits(p)'
    BY DEF Fits, Running
<1> QED
    BY <1>1, RecoveryOfStep

\* A process dies, or comes to its end.
LEMMA RecoveryOfGone ==
    ASSUME IInv, RInv, NEW p \in Proc, Running(p), Gone(p), UNCHANGED host
    PROVE  RInv'
<1>1. StepBy(p)
    BY GoneIsGone
<1>2. user'[p] = NoUser /\ todo'[p] = <<>> /\ mem'[p] = NewMemory
    BY DEF Gone, IInv, Shape
<1>3. Fits(p)'
    BY <1>2 DEF Fits, Running
<1>4. DiskOK(host')
    BY DEF RInv
<1> QED
    BY <1>1, <1>3, <1>4, RecoveryOfStep

-----------------------------------------------------------------------------
(* Reading the stores *)

\* The first of the loads that are left, and the others.
LEMMA LoadSteps ==
    ASSUME NEW s \in {FileMappings, UserInfo, SharedInfo}, NEW f \in KeyPairFile
    PROVE  LET t == LoadsFrom(s, f)
               S == StartStep(NoUser)
           IN  /\ t \in Seq(S) /\ t # <<>> /\ Head(t) = On("load", s)
               /\ s = FileMappings => Tail(t) = LoadsFrom(UserInfo, f)
               /\ s = UserInfo     => Tail(t) = LoadsFrom(SharedInfo, f)
               /\ s = SharedInfo   => Tail(t) = <<On("begin", f)>>
               /\ LET w == Write(s) \o t
                  IN  w # <<>> /\ Head(w) = Opening(s, On("put", s)) /\ Tail(w) = t
               /\ LET w == <<On("put", s)>> \o t
                  IN  w # <<>> /\ Head(w) = On("put", s) /\ Tail(w) = t
<1> DEFINE S == StartStep(NoUser)
           a == On("load", FileMappings)
           b == On("load", UserInfo)
           c == On("load", SharedInfo)
           d == On("begin", f)
           t == LoadsFrom(s, f)
           x == Opening(s, On("put", s))
           y == On("put", s)
<1>1. a \in S /\ b \in S /\ c \in S /\ d \in S
    BY FileKinds DEF On, StartStep, Store
<1>2. s \in Store
    BY DEF Store
<1>3. x \in S /\ y \in S
    BY <1>2, StartWrite DEF On, StartStep
<1>4. /\ FileMappings # UserInfo /\ FileMappings # SharedInfo /\ UserInfo # SharedInfo
    BY FileKinds
<1>5. /\ LoadsFrom(FileMappings, f) = <<a, b, c, d>>
      /\ LoadsFrom(UserInfo, f) = <<b, c, d>>
      /\ LoadsFrom(SharedInfo, f) = <<c, d>>
    BY <1>4 DEF LoadsFrom
<1>6. Write(s) = <<x>>
    BY DEF Write
<1> HIDE DEF S, a, b, c, d, x, y
<1>7. /\ <<a, b, c, d>> \in Seq(S) /\ <<b, c, d>> \in Seq(S) /\ <<c, d>> \in Seq(S)
      /\ <<a, b, c, d>> # <<>> /\ <<b, c, d>> # <<>> /\ <<c, d>> # <<>>
      /\ Head(<<a, b, c, d>>) = a /\ Head(<<b, c, d>>) = b /\ Head(<<c, d>>) = c
      /\ Tail(<<a, b, c, d>>) = <<b, c, d>> /\ Tail(<<b, c, d>>) = <<c, d>>
      /\ Tail(<<c, d>>) = <<d>>
    BY <1>1
<1>8. /\ t \in Seq(S) /\ t # <<>> /\ Head(t) = On("load", s)
      /\ s = FileMappings => Tail(t) = LoadsFrom(UserInfo, f)
      /\ s = UserInfo     => Tail(t) = LoadsFrom(SharedInfo, f)
      /\ s = SharedInfo   => Tail(t) = <<On("begin", f)>>
    BY <1>4, <1>5, <1>7 DEF a, b, c, d
<1> HIDE DEF t
<1>9. /\ <<x>> \o t # <<>> /\ Head(<<x>> \o t) = x /\ Tail(<<x>> \o t) = t
      /\ <<y>> \o t # <<>> /\ Head(<<y>> \o t) = y /\ Tail(<<y>> \o t) = t
    BY <1>3, <1>8, ConsFacts
<1> QED
    BY <1>6, <1>8, <1>9 DEF S, t, x, y

\* A process is in a handler when it is at a step no loading has.
LEMMA AtLoaded ==
    ASSUME RInv, NEW p \in Proc, todo[p] # <<>>, Op(p).do \notin {"load", "open", "put"}
    PROVE  /\ Running(p)
           /\ Loaded(host, user[p], mem[p], hold[p], todo[p], keys)
<1>1. Running(p)
    BY DEF Running
<1>2. ASSUME NEW f \in KeyPairFile, NEW s \in {FileMappings, UserInfo, SharedInfo}
      PROVE  /\ todo[p] # LoadsFrom(s, f) /\ todo[p] # Write(s) \o LoadsFrom(s, f)
             /\ todo[p] # <<On("put", s)>> \o LoadsFrom(s, f)
  <2>1. /\ Head(LoadsFrom(s, f)) = On("load", s)
        /\ Head(Write(s) \o LoadsFrom(s, f)) = Opening(s, On("put", s))
        /\ Head(<<On("put", s)>> \o LoadsFrom(s, f)) = On("put", s)
    BY LoadSteps
  <2>2. /\ On("load", s).do = "load" /\ Opening(s, On("put", s)).do = "open"
        /\ On("put", s).do = "put"
    BY DEF On, Opening
  <2> QED
    BY <2>1, <2>2 DEF Op
<1>3. ~Loading(host, user[p], mem[p], todo[p])
    BY <1>2 DEF Loading
<1> QED
    BY <1>1, <1>3 DEF RInv, Fits

\* A step that needs and gives nothing is all there is.
LEMMA EasyPlan ==
    ASSUME NEW h, NEW m, NEW hd, NEW ks, NEW s, s.do \in {"begin", "unlock"},
           UsersSaved(h, m)
    PROVE  /\ PlanOK(h, m, <<s>>, ks) /\ HeadOK(h, m, hd, s)
           /\ s.do = "begin" => Ends(<<s>>)
<1>1. /\ \A A, n : Needs(s, A, n)
      /\ ~ReadsSecrets(s) /\ s.do # "learn"
    BY EasySteps
<1>2. DOMAIN <<s>> = {1} /\ <<s>>[1] = s
    OBVIOUS
<1>3. Feasible(<<s>>, Facts(h, m, <<s>>, ks), Len(ks)) /\ ReadsBack(<<s>>)
    BY <1>1, <1>2 DEF Feasible, ReadsBack
<1>4. ~Learns(<<s>>) /\ (s.do = "begin" => Ends(<<s>>))
    BY <1>1, StepsOfOne DEF Learns, Ends
<1>5. ~SealsSecrets(s)
    BY DEF SealsSecrets, Seals
<1> QED
    BY <1>1, <1>3, <1>4, <1>5 DEF PlanOK, HeadOK

\* A store that was truncated takes the text.
LEMMA BlankOverwritten ==
    ASSUME NEW f, NEW content, f \in DOMAIN host, host[f] = Blank, Overwrite(f, content)
    PROVE  Becomes(host, f, content, host')
<1>1. \A new \in Overwritten(Blank, content) : new = content
    BY DEF Overwritten
<1>2. host' = Set(f, content)
    BY <1>1 DEF Overwrite
<1> QED
    BY <1>2, SetBecomes

\* The memory of a process before any store is read.
LEMMA NewStores ==
    /\ NewMemory[FileMappings].dirs = {} /\ NewMemory[FileMappings].files = {}
    /\ NewMemory[UserInfo] = <<>> /\ NewMemory[SharedInfo] = {}
    /\ NewMemory[AdminKeys] = <<>>
<1>1. \A s \in Store : NewMemory[s] = NewStore(s)
    BY DEF NewMemory
<1>2. /\ NewStore(FileMappings) = [dirs |-> {}, files |-> {}]
      /\ NewStore(UserInfo) = <<>> /\ NewStore(SharedInfo) = {}
      /\ NewStore(AdminKeys) = <<>>
    BY FileKinds DEF NewStore
<1> QED
    BY <1>1, <1>2, StoreNames

\* Nobody else is running when a process is started.
LEMMA StartAlone ==
    ASSUME MaxLive = 1, RInv, NEW p \in Proc, NEW u \in User, Start(p, u)
    PROVE  \A q \in Proc : ~Running(q)
<1> DEFINE R == {q \in Proc : Running(q)}
<1>1. Cardinality(R) < 1
    BY DEF Start
<1> SUFFICES ASSUME NEW q \in Proc, Running(q)
             PROVE  FALSE
    OBVIOUS
<1>2. R = {q}
    BY DEF RInv, OneRuns
<1>3. Cardinality({q}) = 1
    BY FS_Singleton
<1> HIDE DEF R
<1> QED
    BY <1>1, <1>2, <1>3

\* A process is started.
LEMMA StartRecovers ==
    ASSUME MaxLive = 1, IInv, RInv, NEW p \in Proc, NEW u \in User, Start(p, u)
    PROVE  RInv'
<1> DEFINE f == KeyFile(u)
           t == <<On("load", FileMappings), On("load", UserInfo),
                  On("load", SharedInfo), On("begin", f)>>
<1>1. \A q \in Proc : ~Running(q) /\ mem[q] = NewMemory
    BY StartAlone DEF RInv, Fits
<1>2. user'[p] = NoUser /\ todo'[p] = t /\ mem'[p] = NewMemory /\ host' = host
    BY <1>1 DEF Start, Running, IInv, Shape
<1>3. \A q \in Proc \ {p} : user'[q] = user[q] /\ todo'[q] = todo[q] /\ mem'[q] = mem[q]
    BY DEF Start, IInv, Shape
<1>4. t = LoadsFrom(FileMappings, f) /\ t # <<>> /\ f \in KeyPairFile
    BY FileKinds DEF LoadsFrom, KeyPairFile
<1>5. \A q \in Proc \ {p} : ~Running(q)' /\ Fits(q)'
    BY <1>1, <1>3 DEF Running, Fits
<1> HIDE DEF t, f
<1>6. Loading(host', user'[p], mem'[p], todo'[p])
  <2>1. /\ FileMappings # UserInfo /\ FileMappings # SharedInfo
    BY FileKinds
  <2> QED
    BY <1>2, <1>4, <2>1, NewStores DEF Loading
<1>7. Fits(p)'
    BY <1>2, <1>4, <1>6 DEF Fits, Running
<1>8. OneRuns'
    BY <1>5 DEF OneRuns
<1> QED
    BY <1>2, <1>5, <1>7, <1>8 DEF RInv

\* A process ends, is killed at its prompt, or dies in the middle of a
\* handler.
LEMMA EndRecovers ==
    ASSUME IInv, RInv, NEW p \in Proc, Quit(p) \/ Kill(p) \/ Crash(p)
    PROVE  RInv'
<1>1. Gone(p) /\ UNCHANGED host
    BY DEF Quit, Kill, Crash, hostVars
<1>2. Running(p)
    BY DEF Quit, Kill, Crash, At, AtPrompt, Running
<1> QED
    BY <1>1, <1>2, RecoveryOfGone

\* A process at a step only loading has.
LEMMA AtLoading ==
    ASSUME RInv, NEW p \in Proc, At(p, "load")
    PROVE  \E f \in KeyPairFile, s \in {FileMappings, UserInfo, SharedInfo} :
               /\ todo[p] = LoadsFrom(s, f) /\ File(p) = s /\ user[p] = NoUser
               /\ s = FileMappings => mem[p] = NewMemory
               /\ s # FileMappings => /\ FileMappings \in DOMAIN host
                                      /\ MappingsFit(host, mem[p][FileMappings])
               /\ s = UserInfo => mem[p][UserInfo] = <<>>
               /\ s = SharedInfo => /\ UsersFit(host, mem[p][UserInfo])
                                    /\ UsersSaved(host, mem[p])
               /\ mem[p][SharedInfo] = {} /\ mem[p][AdminKeys] = <<>>
<1>1. Op(p).do = "load" /\ todo[p] # <<>>
    BY DEF At, Op
<1>2. ~Loaded(host, user[p], mem[p], hold[p], todo[p], keys)
  <2> SUFFICES ASSUME Loaded(host, user[p], mem[p], hold[p], todo[p], keys)
               PROVE  FALSE
    OBVIOUS
  <2>1. Op(p) \in AnyStep(keys)
    BY <1>1, LoadedFacts DEF Op
  <2> QED
    BY <1>1, <2>1, StepFacts
<1>3. Loading(host, user[p], mem[p], todo[p])
    BY <1>1, <1>2 DEF RInv, Fits, Running
<1>4. \A f \in KeyPairFile, s \in {FileMappings, UserInfo, SharedInfo} :
          /\ todo[p] # Write(s) \o LoadsFrom(s, f)
          /\ todo[p] # <<On("put", s)>> \o LoadsFrom(s, f)
          /\ todo[p] = LoadsFrom(s, f) => File(p) = s
  <2> SUFFICES ASSUME NEW f \in KeyPairFile, NEW s \in {FileMappings, UserInfo, SharedInfo}
               PROVE  /\ todo[p] # Write(s) \o LoadsFrom(s, f)
                      /\ todo[p] # <<On("put", s)>> \o LoadsFrom(s, f)
                      /\ todo[p] = LoadsFrom(s, f) => File(p) = s
    OBVIOUS
  <2>1. /\ Head(LoadsFrom(s, f)) = On("load", s)
        /\ Head(Write(s) \o LoadsFrom(s, f)) = Opening(s, On("put", s))
        /\ Head(<<On("put", s)>> \o LoadsFrom(s, f)) = On("put", s)
    BY LoadSteps
  <2>2. /\ On("load", s).file = s /\ Opening(s, On("put", s)).do = "open"
        /\ On("put", s).do = "put"
    BY DEF On, Opening
  <2> QED
    BY <1>1, <2>1, <2>2 DEF Op, File
<1> QED
    BY <1>3, <1>4 DEF Loading

\* A store is read, or is to be made, or cannot be parsed.
LEMMA LoadRecovers ==
    ASSUME IInv, RInv, NEW p \in Proc, Load(p)
    PROVE  RInv'
<1> DEFINE s == File(p)
           m == mem[p]
           m2 == mem'[p]
<1>1. At(p, "load") /\ UNCHANGED <<hostVars, keys, crashes>> /\ Running(p)
    BY DEF Load, At, Running
<1>2. PICK f \in KeyPairFile :
          /\ s \in {FileMappings, UserInfo, SharedInfo}
          /\ todo[p] = LoadsFrom(s, f) /\ user[p] = NoUser
          /\ s = FileMappings => m = NewMemory
          /\ s # FileMappings => /\ FileMappings \in DOMAIN host
                                 /\ MappingsFit(host, m[FileMappings])
          /\ s = UserInfo => m[UserInfo] = <<>>
          /\ s = SharedInfo => UsersFit(host, m[UserInfo]) /\ UsersSaved(host, m)
          /\ m[SharedInfo] = {} /\ m[AdminKeys] = <<>>
    BY <1>1, AtLoading
<1>3. /\ FileMappings # UserInfo /\ FileMappings # SharedInfo /\ UserInfo # SharedInfo
      /\ AdminKeys # FileMappings /\ AdminKeys # UserInfo /\ AdminKeys # SharedInfo
    BY FileKinds
<1>4. host' = host /\ DiskOK(host) /\ DOMAIN m = Store /\ s \in Store
    BY <1>1, <1>2, ProcessFacts DEF hostVars, RInv, MemOK, Store
<1>5. CASE s \notin DOMAIN host
  <2>1. /\ todo'[p] = Write(s) \o LoadsFrom(s, f) /\ StepBy(p)
        /\ user'[p] = NoUser /\ m2 = m
    BY <1>2, <1>5 DEF Load, StepBy, IInv, Shape
  <2>2. todo'[p] # <<>>
    BY <1>2, <2>1, LoadSteps
  <2>3. /\ s = FileMappings => UserInfo \notin DOMAIN host /\ SharedInfo \notin DOMAIN host
        /\ s = UserInfo => AdminKeys \notin DOMAIN host /\ m[FileMappings].files = {}
    BY <1>2, <1>3, <1>4, <1>5 DEF DiskOK, MappingsFit
  <2>4. Loading(host', user'[p], m2, todo'[p])
    BY <1>2, <1>4, <2>1, <2>3 DEF Loading
  <2> QED
    BY <1>1, <1>4, <2>1, <2>2, <2>4, RecoveryOfLoading
<1>6. CASE s \in DOMAIN host /\ ReadPlain(s) \in {Empty, Garbled}
  <2>1. Gone(p)
    BY <1>6 DEF Load
  <2> QED
    BY <1>1, <1>4, <2>1, RecoveryOfGone
<1>7. CASE s \in DOMAIN host /\ ReadPlain(s) \notin {Empty, Garbled}
  <2>1. /\ m2 = [m EXCEPT ![s] = host[s].text] /\ todo'[p] = Tail(LoadsFrom(s, f))
        /\ StepBy(p) /\ user'[p] = NoUser
    BY <1>2, <1>7 DEF Load, Memory, Done, StepBy, IInv, Shape
  <2>2. Remembers(m, s, host[s].text, m2)
    BY <1>4, <2>1 DEF Remembers
  <2>3. Whole(host, s)
    BY <1>7 DEF ReadPlain, Whole
  <2> HIDE DEF m2
  <2>4. CASE s = FileMappings
    <3>1. todo'[p] = LoadsFrom(UserInfo, f) /\ todo'[p] # <<>>
      BY <1>2, <2>1, <2>4, LoadSteps
    <3>2. m2[FileMappings] = host[FileMappings].text
      BY <2>2, <2>4 DEF Remembers
    <3>3. /\ m2[UserInfo] = <<>> /\ m2[SharedInfo] = {} /\ m2[AdminKeys] = <<>>
      BY <1>2, <1>3, <2>2, <2>4, NewStores, StoreNames DEF Remembers
    <3>4. FileMappings \in DOMAIN host /\ MappingsFit(host, m2[FileMappings])
      BY <1>4, <2>3, <2>4, <3>2 DEF DiskOK, Whole
    <3>5. Loading(host', user'[p], m2, todo'[p])
      BY <1>3, <1>4, <2>1, <3>1, <3>3, <3>4 DEF Loading
    <3> QED
      BY <1>1, <1>4, <2>1, <3>1, <3>5, RecoveryOfLoading DEF m2
  <2>5. CASE s = UserInfo
    <3>1. todo'[p] = LoadsFrom(SharedInfo, f) /\ todo'[p] # <<>>
      BY <1>2, <2>1, <2>5, LoadSteps
    <3>2. m2[UserInfo] = host[UserInfo].text
      BY <2>2, <2>5 DEF Remembers
    <3>3. /\ m2[FileMappings] = m[FileMappings]
          /\ m2[SharedInfo] = {} /\ m2[AdminKeys] = <<>>
      BY <1>2, <1>3, <2>2, <2>5, StoreNames DEF Remembers
    <3>4. UsersFit(host, m2[UserInfo]) /\ UsersSaved(host, m2)
      BY <1>4, <2>3, <2>5, <3>2 DEF DiskOK, UsersSaved
    <3>5. Loading(host', user'[p], m2, todo'[p])
      BY <1>2, <1>3, <1>4, <2>1, <2>5, <3>1, <3>3, <3>4 DEF Loading
    <3> QED
      BY <1>1, <1>4, <2>1, <3>1, <3>5, RecoveryOfLoading DEF m2
  <2>6. CASE s = SharedInfo
    <3> DEFINE b == On("begin", f)
    <3>1. todo'[p] = <<b>> /\ b.do = "begin"
      BY <1>2, <2>1, <2>6, LoadSteps DEF On
    <3>2. m2[SharedInfo] = host[SharedInfo].text
      BY <2>2, <2>6 DEF Remembers
    <3>3. /\ m2[FileMappings] = m[FileMappings] /\ m2[UserInfo] = m[UserInfo]
          /\ m2[AdminKeys] = <<>>
      BY <1>2, <1>3, <2>2, <2>6, StoreNames DEF Remembers
    <3>4. UsersSaved(host, m2) /\ Whole(host, UserInfo) /\ host[UserInfo].text = m[UserInfo]
      BY <1>2, <2>6, <3>3 DEF UsersSaved
    <3>5. FitsOrNull(m2[AdminKeys], m2[UserInfo])
      BY <3>3 DEF FitsOrNull
    <3>6. /\ MappingsFit(host, m[FileMappings]) /\ UsersFit(host, m[UserInfo])
          /\ FileMappings \in DOMAIN host
      BY <1>2, <1>3, <2>6
    <3>7. Owned(m[FileMappings], m[UserInfo]) /\ Joined(m[FileMappings], m2[SharedInfo])
      BY <2>3, <2>6, <3>2, <3>4, <3>6 DEF MappingsFit
    <3>8. Consistent(host, m2)
      BY <2>3, <2>6, <3>3, <3>4, <3>5, <3>6, <3>7 DEF Consistent, Whole
    <3>9. /\ PlanOK(host, m2, <<b>>, keys) /\ HeadOK(host, m2, hold'[p], b) /\ Ends(<<b>>)
      BY <3>1, <3>4, EasyPlan
    <3>10. Handling(<<b>>, keys)
      BY DEF Handling
    <3> HIDE DEF b
    <3>11. Loaded(host', user'[p], m2, hold'[p], todo'[p], keys')
      <4>1. keys' = keys /\ Head(<<b>>) = b
        BY <1>1
      <4> QED
        BY <1>4, <2>1, <3>1, <3>8, <3>9, <3>10, <4>1 DEF Loaded
    <3> QED
      BY <1>1, <2>1, <3>11, RecoveryOfLoaded DEF m2
  <2> QED
    BY <1>2, <2>4, <2>5, <2>6
<1> QED
    BY <1>5, <1>6, <1>7

\* A process that writes a store that was missing.
Making(h, u, m, s) ==
    /\ u = NoUser /\ s \in {FileMappings, UserInfo, SharedInfo}
    /\ s = FileMappings => UserInfo \notin DOMAIN h /\ SharedInfo \notin DOMAIN h
    /\ s = UserInfo => AdminKeys \notin DOMAIN h /\ m[FileMappings].files = {}
    /\ s = FileMappings => m = NewMemory
    /\ s # FileMappings =>
          FileMappings \in DOMAIN h /\ MappingsFit(h, m[FileMappings])
    /\ s = UserInfo => m[UserInfo] = <<>>
    /\ s = SharedInfo => UsersFit(h, m[UserInfo]) /\ UsersSaved(h, m)
    /\ m[SharedInfo] = {} /\ m[AdminKeys] = <<>>

\* A process that writes a store, and not for a handler, makes one that was
\* missing.
LEMMA AtWriting ==
    ASSUME RInv, NEW p \in Proc, At(p, "open") \/ At(p, "put"),
           ~Loaded(host, user[p], mem[p], hold[p], todo[p], keys)
    PROVE  \E f \in KeyPairFile, s \in {FileMappings, UserInfo, SharedInfo} :
               /\ Making(host, user[p], mem[p], s) /\ File(p) = s
               /\ Tail(todo[p]) = LoadsFrom(s, f)
               /\ At(p, "open") => Op(p).write = On("put", s)
               /\ At(p, "put") => s \in DOMAIN host /\ host[s] = Blank
<1>1. Op(p).do \in {"open", "put"} /\ todo[p] # <<>>
    BY DEF At, Op
<1>2. Loading(host, user[p], mem[p], todo[p])
    BY <1>1 DEF RInv, Fits, Running
<1>3. PICK f \in KeyPairFile, s \in {FileMappings, UserInfo, SharedInfo} :
          /\ user[p] = NoUser
          /\ \/ todo[p] = LoadsFrom(s, f)
             \/ /\ \/ todo[p] = Write(s) \o LoadsFrom(s, f)
                   \/ /\ todo[p] = <<On("put", s)>> \o LoadsFrom(s, f)
                      /\ s \in DOMAIN host /\ host[s] = Blank
                /\ s = FileMappings => UserInfo \notin DOMAIN host
                /\ s = FileMappings => SharedInfo \notin DOMAIN host
                /\ s = UserInfo => AdminKeys \notin DOMAIN host
                                       /\ mem[p][FileMappings].files = {}
          /\ s = FileMappings => mem[p] = NewMemory
          /\ s # FileMappings => FileMappings \in DOMAIN host
                                     /\ MappingsFit(host, mem[p][FileMappings])
          /\ s = UserInfo => mem[p][UserInfo] = <<>>
          /\ s = SharedInfo => UsersFit(host, mem[p][UserInfo]) /\ UsersSaved(host, mem[p])
          /\ mem[p][SharedInfo] = {} /\ mem[p][AdminKeys] = <<>>
    BY <1>2 DEF Loading
<1>4. /\ Head(LoadsFrom(s, f)) = On("load", s)
      /\ Head(Write(s) \o LoadsFrom(s, f)) = Opening(s, On("put", s))
      /\ Tail(Write(s) \o LoadsFrom(s, f)) = LoadsFrom(s, f)
      /\ Head(<<On("put", s)>> \o LoadsFrom(s, f)) = On("put", s)
      /\ Tail(<<On("put", s)>> \o LoadsFrom(s, f)) = LoadsFrom(s, f)
    BY LoadSteps
<1>5. /\ On("load", s).do = "load" /\ On("put", s).file = s /\ On("put", s).do = "put"
      /\ LET w == Opening(s, On("put", s))
         IN  w.file = s /\ w.write = On("put", s) /\ w.do = "open"
    BY DEF On, Opening
<1>6. /\ todo[p] # LoadsFrom(s, f)
      /\ File(p) = s /\ Tail(todo[p]) = LoadsFrom(s, f)
      /\ At(p, "open") => Op(p).write = On("put", s)
      /\ At(p, "put") => s \in DOMAIN host /\ host[s] = Blank
    BY <1>1, <1>3, <1>4, <1>5 DEF At, Op, File
<1>7. Making(host, user[p], mem[p], s)
    BY <1>3, <1>6 DEF Making
<1> QED
    BY <1>6, <1>7

\* A store that was missing is truncated.
LEMMA MakingOpens ==
    ASSUME NEW h, NEW h2, NEW u, NEW m, NEW s, Making(h, u, m, s), DiskOK(h),
           Becomes(h, s, Blank, h2)
    PROVE  Making(h2, u, m, s) /\ DiskOK(h2)
<1>1. /\ FileMappings # UserInfo /\ FileMappings # SharedInfo /\ UserInfo # SharedInfo
      /\ AdminKeys # FileMappings /\ AdminKeys # UserInfo /\ AdminKeys # SharedInfo
    BY FileKinds
<1>2. s \in {FileMappings, UserInfo, SharedInfo} /\ s \in Store
    BY StoreNames DEF Making
<1>3. DOMAIN h2 = DOMAIN h \cup {s}
    BY DEF Becomes
<1>4. /\ \A X : MappingsFit(h, X) => MappingsFit(h2, X)
      /\ \A X : UsersFit(h, X) => UsersFit(h2, X)
      /\ UsersSaved(h2, m) <=> s # UserInfo /\ UsersSaved(h, m)
      /\ ~Whole(h2, s)
      /\ \A r \in Store \ {s} : /\ Whole(h2, r) <=> Whole(h, r)
                                /\ Whole(h, r) => h2[r] = h[r]
    BY <1>2, BlankedStore
<1>5. Making(h2, u, m, s)
    BY <1>1, <1>3, <1>4 DEF Making
<1>6. /\ UserInfo \in DOMAIN h2 \/ SharedInfo \in DOMAIN h2 => FileMappings \in DOMAIN h2
      /\ AdminKeys \in DOMAIN h2 => UserInfo \in DOMAIN h2
    BY <1>1, <1>2, <1>3 DEF Making, DiskOK
<1>7. Whole(h2, FileMappings) => MappingsFit(h2, h2[FileMappings].text)
    BY <1>2, <1>4, StoreNames DEF DiskOK
<1>8. Whole(h2, UserInfo) => UsersFit(h2, h2[UserInfo].text)
    BY <1>2, <1>4, StoreNames DEF DiskOK
<1> QED
    BY <1>5, <1>6, <1>7, <1>8 DEF DiskOK

\* A store that was missing is written, empty as it is in memory.
LEMMA MakingPuts ==
    ASSUME NEW h, NEW h2, NEW u, NEW m, NEW s, Making(h, u, m, s), DiskOK(h),
           s \in DOMAIN h, h[s] = Blank, Becomes(h, s, Plaintext(m[s]), h2),
           NEW f \in KeyPairFile
    PROVE  Loading(h2, u, m, LoadsFrom(s, f)) /\ DiskOK(h2)
<1>1. /\ FileMappings # UserInfo /\ FileMappings # SharedInfo /\ UserInfo # SharedInfo
      /\ AdminKeys # FileMappings /\ AdminKeys # UserInfo /\ AdminKeys # SharedInfo
    BY FileKinds
<1>2. s \in {FileMappings, UserInfo, SharedInfo} /\ s \in Store
    BY StoreNames DEF Making
<1>3. /\ DOMAIN h2 = DOMAIN h
      /\ h2[s].key = Plain /\ h2[s].text = m[s]
      /\ \A g \in DOMAIN h : g # s => h2[g] = h[g]
    BY DEF Becomes, Plaintext
<1>4. \A r \in Store \ {s} : /\ Whole(h2, r) <=> Whole(h, r)
                             /\ Whole(h, r) => h2[r] = h[r]
    BY <1>3 DEF Whole
<1>5. \A X : KeyfilesFit(h, X) => KeyfilesFit(h2, X)
  <2>1. \A v : KeyFile(v) # s
    BY <1>2, OutsideTree
  <2> QED
    BY <1>3, <2>1 DEF KeyfilesFit
<1>6. \A X : SecretsFit(h, X) => SecretsFit(h2, X)
    BY <1>1, <1>2, <1>3 DEF SecretsFit
<1>7. /\ UserInfo \in DOMAIN h2 \/ SharedInfo \in DOMAIN h2 => FileMappings \in DOMAIN h2
      /\ AdminKeys \in DOMAIN h2 => UserInfo \in DOMAIN h2
    BY <1>3 DEF DiskOK
<1>8. CASE s = FileMappings
  <2>1. /\ UserInfo \notin DOMAIN h /\ SharedInfo \notin DOMAIN h /\ m = NewMemory
    BY <1>8 DEF Making
  <2>2. MappingsFit(h2, m[FileMappings]) /\ ~Whole(h2, UserInfo)
    BY <1>3, <1>8, <2>1, NewStores DEF MappingsFit, Whole
  <2>3. DiskOK(h2)
    BY <1>3, <1>7, <1>8, <2>2 DEF DiskOK
  <2>4. Loading(h2, u, m, LoadsFrom(s, f))
    BY <1>1, <1>8, <2>1 DEF Making, Loading
  <2> QED
    BY <2>3, <2>4
<1>9. CASE s = UserInfo
  <2>1. /\ m[UserInfo] = <<>> /\ AdminKeys \notin DOMAIN h /\ m[FileMappings].files = {}
        /\ FileMappings \in DOMAIN h /\ MappingsFit(h, m[FileMappings])
    BY <1>1, <1>9 DEF Making
  <2>2. MappingsFit(h2, m[FileMappings])
    <3>1. Homed(m[FileMappings], <<>>) /\ Owned(m[FileMappings], <<>>)
      BY <2>1 DEF Homed, Owned
    <3> QED
      BY <1>1, <1>3, <1>4, <1>9, <2>1, <3>1, StoreNames DEF MappingsFit
  <2>3. UsersFit(h2, <<>>)
    BY <1>3, <1>9, <2>1 DEF UsersFit, KeyfilesFit, SecretsFit, Agrees
  <2>4. Whole(h2, FileMappings) => h2[FileMappings].text = m[FileMappings]
    BY <2>2 DEF MappingsFit
  <2>5. DiskOK(h2)
    BY <1>3, <1>7, <1>9, <2>1, <2>2, <2>3, <2>4 DEF DiskOK
  <2>6. Loading(h2, u, m, LoadsFrom(s, f))
    BY <1>1, <1>3, <1>9, <2>1, <2>2 DEF Making, Loading
  <2> QED
    BY <2>5, <2>6
<1>10. CASE s = SharedInfo
  <2>1. /\ m[SharedInfo] = {} /\ UsersFit(h, m[UserInfo]) /\ UsersSaved(h, m)
        /\ FileMappings \in DOMAIN h /\ MappingsFit(h, m[FileMappings])
    BY <1>1, <1>10 DEF Making
  <2>2. MappingsFit(h2, m[FileMappings])
    <3>1. Joined(m[FileMappings], {})
      BY DEF Joined
    <3> QED
      BY <1>1, <1>3, <1>4, <1>10, <2>1, <3>1, StoreNames DEF MappingsFit
  <2>3. UsersSaved(h2, m) /\ Whole(h2, UserInfo) /\ h2[UserInfo].text = m[UserInfo]
    BY <1>1, <1>4, <1>10, <2>1, StoreNames DEF UsersSaved
  <2>4. UsersFit(h2, m[UserInfo])
    BY <1>5, <1>6, <2>1, <2>3 DEF UsersFit, Agrees
  <2>5. Whole(h2, FileMappings) => h2[FileMappings].text = m[FileMappings]
    BY <2>2 DEF MappingsFit
  <2>6. DiskOK(h2)
    BY <1>7, <2>2, <2>3, <2>4, <2>5 DEF DiskOK
  <2>7. Loading(h2, u, m, LoadsFrom(s, f))
    BY <1>1, <1>3, <1>10, <2>1, <2>2, <2>3, <2>4 DEF Making, Loading
  <2> QED
    BY <2>6, <2>7
<1> QED
    BY <1>2, <1>8, <1>9, <1>10

\* The same, as steps of the process.
LEMMA OpenLoading ==
    ASSUME IInv, RInv, NEW p \in Proc, Open(p),
           ~Loaded(host, user[p], mem[p], hold[p], todo[p], keys)
    PROVE  RInv'
<1>1. At(p, "open") /\ Running(p)
    BY DEF Open, At, Running
<1>2. PICK f \in KeyPairFile, s \in {FileMappings, UserInfo, SharedInfo} :
          /\ Making(host, user[p], mem[p], s) /\ File(p) = s
          /\ Tail(todo[p]) = LoadsFrom(s, f) /\ Op(p).write = On("put", s)
    BY <1>1, AtWriting
<1>3. Openable(s) /\ s \in Store
    BY HostFilesOpen, StoreNames
<1>4. /\ host' = Set(s, Blank) /\ StepBy(p) /\ user'[p] = user[p] /\ mem'[p] = mem[p]
      /\ todo'[p] = <<On("put", s)>> \o LoadsFrom(s, f)
    BY <1>2, <1>3 DEF Open, Expand, StepBy, IInv, Shape
<1>5. Becomes(host, s, Blank, host') /\ DiskOK(host)
    BY <1>4, SetBecomes DEF RInv
<1>6. Making(host', user[p], mem[p], s) /\ DiskOK(host')
    BY <1>2, <1>5, MakingOpens
<1>7. s \in DOMAIN host' /\ host'[s] = Blank
    BY <1>5 DEF Becomes
<1>8. Loading(host', user'[p], mem'[p], todo'[p])
    BY <1>4, <1>6, <1>7 DEF Making, Loading
<1>9. todo'[p] # <<>>
    BY <1>4, LoadSteps
<1> QED
    BY <1>1, <1>4, <1>6, <1>8, <1>9, RecoveryOfLoading

\* The missing store is there, and can be loaded.
LEMMA PutLoading ==
    ASSUME IInv, RInv, NEW p \in Proc, Put(p),
           ~Loaded(host, user[p], mem[p], hold[p], todo[p], keys)
    PROVE  RInv'
<1>1. At(p, "put") /\ Running(p)
    BY DEF Put, At, Running
<1>2. PICK f \in KeyPairFile, s \in {FileMappings, UserInfo, SharedInfo} :
          /\ Making(host, user[p], mem[p], s) /\ File(p) = s
          /\ Tail(todo[p]) = LoadsFrom(s, f) /\ s \in DOMAIN host /\ host[s] = Blank
    BY <1>1, AtWriting
<1>3. s \in Store
    BY StoreNames
<1>4. /\ Overwrite(s, Plaintext(mem[p][s])) /\ StepBy(p)
      /\ user'[p] = user[p] /\ mem'[p] = mem[p] /\ todo'[p] = LoadsFrom(s, f)
    BY <1>2, <1>3 DEF Put, Done, StepBy, IInv, Shape
<1>5. Becomes(host, s, Plaintext(mem[p][s]), host') /\ DiskOK(host)
    BY <1>2, <1>4, BlankOverwritten DEF RInv
<1>6. Loading(host', user[p], mem[p], LoadsFrom(s, f)) /\ DiskOK(host')
    BY <1>2, <1>5, MakingPuts
<1>7. todo'[p] # <<>>
    BY <1>4, LoadSteps
<1> QED
    BY <1>1, <1>4, <1>6, <1>7, RecoveryOfLoading

-----------------------------------------------------------------------------
(* Writing *)

\* What writing in the clear is not.
LEMMA PutGives ==
    ASSUME NEW s, Puts(s)
    PROVE  /\ SavesUsers(s) <=> s.file = UserInfo
           /\ PutsSecrets(s) <=> s.file = AdminKeys
           /\ Gives(s) = IF s.file = UserInfo THEN {Saved} ELSE {}
           /\ s.do \in {"open", "put"} /\ ~MakesKey(s) /\ ~SealsSecrets(s)
           /\ ~ReadsSecrets(s) /\ ~LearnsUser(s)
<1>1. s.do \in {"open", "put"} /\ ~MakesKey(s) /\ ~Seals(s) /\ ~LearnsUser(s)
    BY DEF Puts, MakesKey, Seals, LearnsUser
<1>2. /\ SavesUsers(s) <=> s.file = UserInfo
      /\ PutsSecrets(s) <=> s.file = AdminKeys
      /\ ~SealsSecrets(s) /\ ~ReadsSecrets(s)
    BY <1>1 DEF SavesUsers, PutsSecrets, SealsSecrets, ReadsSecrets
<1>3. Gives(s) = IF s.file = UserInfo THEN {Saved} ELSE {}
    BY <1>1, <1>2 DEF Gives
<1> QED
    BY <1>1, <1>2, <1>3

\* What writing ciphertext is not.
LEMMA SealGives ==
    ASSUME NEW s, Seals(s)
    PROVE  /\ SealsSecrets(s) <=> s.file = AdminKeys
           /\ Gives(s) = {} /\ s.do \in {"open", "seal"}
           /\ ~SavesUsers(s) /\ ~PutsSecrets(s) /\ ~MakesKey(s)
           /\ ~ReadsSecrets(s) /\ ~LearnsUser(s)
<1>1. s.do \in {"open", "seal"} /\ ~MakesKey(s) /\ ~Puts(s) /\ ~LearnsUser(s)
    BY DEF Puts, MakesKey, Seals, LearnsUser
<1>2. /\ ~SavesUsers(s) /\ ~PutsSecrets(s) /\ ~ReadsSecrets(s)
      /\ SealsSecrets(s) <=> s.file = AdminKeys
    BY <1>1 DEF SavesUsers, PutsSecrets, SealsSecrets, ReadsSecrets
<1>3. Gives(s) = {}
    BY <1>1, <1>2 DEF Gives
<1> QED
    BY <1>1, <1>2, <1>3

\* What writing a key is not.
LEMMA KeyGives ==
    ASSUME NEW s, MakesKey(s)
    PROVE  /\ Gives(s) = {<<"key", f>> : f \in KeysOf(s)} /\ s.do \in {"open", "put key"}
           /\ ~SavesUsers(s) /\ ~PutsSecrets(s) /\ ~SealsSecrets(s)
           /\ ~ReadsSecrets(s) /\ ~LearnsUser(s)
<1>1. s.do \in {"open", "put key"} /\ ~Seals(s) /\ ~Puts(s) /\ ~LearnsUser(s)
    BY DEF Puts, MakesKey, Seals, LearnsUser
<1>2. ~SavesUsers(s) /\ ~PutsSecrets(s) /\ ~ReadsSecrets(s) /\ ~SealsSecrets(s)
    BY <1>1 DEF SavesUsers, PutsSecrets, SealsSecrets, ReadsSecrets
<1>3. Gives(s) = {<<"key", f>> : f \in KeysOf(s)}
    BY <1>1, <1>2 DEF Gives
<1> QED
    BY <1>1, <1>2, <1>3

\* The files of a pair that a step is about.
LEMMA KeyOpened ==
    ASSUME NEW ks, NEW s \in AnyStep(ks), s.do = "open", MakesKey(s)
    PROVE  /\ MakesKey(s.write) /\ KeyPut(s.write) = KeyPut(s)
           /\ s.file \in KeysOf(s) /\ s.file[2] = NameOf(s)
           /\ s.write.do = "put key" => KeysOf(s) = {s.write.file, s.file}
           /\ s.write.do = "open" => s.write.file # s.file /\ KeyPut(s).file = s.file
<1>1. \A u : /\ KeyFile(u) # PublicFile(u)
             /\ KeyFile(u)[2] = u /\ PublicFile(u)[2] = u
    BY DEF KeyFile, PublicFile
<1>2. s.write.do \in {"open", "put key"}
    BY DEF MakesKey
<1>3. s \in PublicOpen(ks) \/ s \in KeyOpen(ks)
    BY <1>2 DEF AnyStep, QueuedStep, WriteStep, PutStep, SealStep, OpenStep, PutKeyStep
<1>4. CASE s \in PublicOpen(ks)
  <2>1. s.write.do = "put key" /\ KeyPut(s) = s.write /\ KeyPut(s.write) = s.write
    BY <1>4 DEF PublicOpen, PutKeyStep, KeyPut
  <2>2. /\ s.write.file = KeyFile(NameOf(s)) /\ s.file = PublicFile(NameOf(s))
    BY <1>4, <2>1 DEF PublicOpen, NameOf
  <2>3. KeysOf(s) = {s.write.file, s.file}
    BY <2>1, <2>2 DEF KeysOf
  <2> QED
    BY <1>1, <2>1, <2>2, <2>3 DEF MakesKey
<1>5. CASE s \in KeyOpen(ks)
  <2>1. /\ s.write \in PublicOpen(ks) /\ s.write.do = "open"
        /\ s.write.write.do = "put key" /\ s.file = s.write.write.file
    BY <1>5 DEF KeyOpen, PublicOpen, PutKeyStep
  <2>2. KeyPut(s) = s.write.write /\ KeyPut(s.write) = s.write.write
    BY <2>1 DEF KeyPut
  <2>3. s.file = KeyFile(NameOf(s)) /\ s.write.file = PublicFile(NameOf(s))
    BY <2>1, <2>2 DEF PublicOpen, NameOf
  <2>4. s.file \in KeysOf(s)
    BY <2>1, <2>2 DEF KeysOf
  <2> QED
    BY <1>1, <2>1, <2>2, <2>3, <2>4 DEF MakesKey
<1> QED
    BY <1>3, <1>4, <1>5

\* What does not write gives nothing.
LEMMA OtherGives ==
    ASSUME NEW s, s.do \in {"read", "fetch", "link", "copies", "remove", "establish"}
    PROVE  Gives(s) = {} /\ ~SavesUsers(s) /\ ~PutsSecrets(s)
<1>1. /\ ~MakesKey(s) /\ ~SavesUsers(s) /\ ~PutsSecrets(s)
    BY PlainStep
<1>2. ~LearnsUser(s)
    BY DEF LearnsUser
<1> QED
    BY <1>1, <1>2 DEF Gives

\* The tables in memory can be parsed when they are written.
LEMMA TablesParse ==
    ASSUME IInv, NEW p \in Proc, NEW h, Consistent(h, mem[p])
    PROVE  /\ mem[p][UserInfo] \notin {Empty, Garbled}
           /\ mem[p][AdminKeys] \notin {Empty, Garbled}
           /\ \A u \in knownUsers(p) : mem[p][UserInfo][u] \in Nat
<1> DEFINE table == mem[p][UserInfo]
           secrets == mem[p][AdminKeys]
<1>1. KeyTableOK(table, keys) /\ KeyTableOK(secrets, keys)
  <2>1. MemOK(mem[p], keys)
    BY ProcessFacts
  <2> QED
    BY <2>1, StoreNames DEF MemOK, StoreOK
<1>2. \A u \in DOMAIN table : table[u] \in Nat
    BY DEF Consistent, UsersFit, KeyfilesFit
<1>3. \A u \in DOMAIN secrets : secrets[u] \in Nat
    BY <1>2 DEF Consistent, FitsOrNull, NoKey, Plain
<1> HIDE DEF table, secrets
<1>4. table \in [DOMAIN table -> Nat] /\ DOMAIN table \in SUBSET User
    BY <1>1, <1>2 DEF KeyTableOK
<1>5. secrets \in [DOMAIN secrets -> Nat] /\ DOMAIN secrets \in SUBSET User
    BY <1>1, <1>3 DEF KeyTableOK
<1>6. table \notin {Empty, Garbled} /\ secrets \notin {Empty, Garbled}
    BY <1>4, <1>5, TextAssumption
<1> QED
    BY <1>2, <1>6 DEF table, secrets, knownUsers

\* The facts and the memory agree on who has a home.
LEMMA HousedIsHomed ==
    ASSUME NEW h, NEW m, NEW t, NEW ks, DOMAIN m[UserInfo] \subseteq User
    PROVE  Housed(Facts(h, m, t, ks)) <=> Homed(m[FileMappings], m[UserInfo])
<1> DEFINE A == Facts(h, m, t, ks)
<1>1. /\ \A u : <<"user", u>> \in A <=> u \in DOMAIN m[UserInfo]
      /\ \A d : <<"dir", d>> \in A <=> d \in m[FileMappings].dirs
    BY FactsAre
<1> HIDE DEF A
<1>2. Housed(A) <=> Homed(m[FileMappings], m[UserInfo])
    BY <1>1 DEF Housed, Homed
<1> QED
    BY <1>2 DEF A

\* A store, or a file of the tree, is written.
LEMMA PutRecovers ==
    ASSUME IInv, RInv, NEW p \in Proc, Put(p)
    PROVE  RInv'
<1> DEFINE f == File(p)
           s == Op(p)
           m == mem[p]
           content == Plaintext(IF f \in Store THEN m[f] ELSE hold[p])
<1>1. CASE ~Loaded(host, user[p], m, hold[p], todo[p], keys)
    BY <1>1, PutLoading
<1>2. CASE Loaded(host, user[p], m, hold[p], todo[p], keys)
  <2>1. /\ s.do = "put" /\ todo[p] # <<>> /\ Running(p) /\ s = Head(todo[p]) /\ s.file = f
        /\ UNCHANGED <<keys, user, mem>> /\ Overwrite(f, content) /\ StepBy(p)
        /\ todo'[p] = Tail(todo[p])
    BY DEF Put, At, Op, File, Running, Done, StepBy, IInv, Shape
  <2>2. /\ s \in AnyStep(keys) /\ Consistent(host, m) /\ HeadOK(host, m, hold[p], s)
        /\ Needs(s, Facts(host, m, todo[p], keys), Len(keys))
    BY <1>2, <2>1, LoadedFacts
  <2>3. f \in Store \cup TreeFile /\ f \in DOMAIN host /\ host[f] = Blank
    BY <2>1, <2>2, StepFacts DEF HeadOK, Blanked
  <2> HIDE DEF f, s, content
  <2>4. Becomes(host, f, content, host')
    BY <2>1, <2>3, BlankOverwritten
  <2>5. /\ SavesUsers(s) <=> f = UserInfo
        /\ PutsSecrets(s) <=> f = AdminKeys
        /\ Gives(s) = IF f = UserInfo THEN {Saved} ELSE {}
    BY <2>1, PutGives DEF Puts
  <2>6. /\ Consistent(host', m)
        /\ UsersSaved(host', m) <=> f = UserInfo \/ UsersSaved(host, m)
        /\ BaseFacts(host', m, keys) = BaseFacts(host, m, keys)
        /\ f = AdminKeys => f \in DOMAIN host' /\ host'[f] = Plaintext(m[f])
    <3>1. CASE f \in Store
      <4>1. content = Plaintext(m[f])
        BY <3>1 DEF content
      <4>2. ASSUME f = UserInfo
            PROVE  Homed(m[FileMappings], m[UserInfo]) /\ m[UserInfo] \notin {Empty, Garbled}
        <5>1. Housed(Facts(host, m, todo[p], keys))
          BY <2>2, <2>5, <4>2 DEF Needs
        <5>2. DOMAIN m[UserInfo] \subseteq User
          BY ProcessFacts DEF knownUsers
        <5> QED
          BY <2>2, <5>1, <5>2, HousedIsHomed, TablesParse
      <4>3. Becomes(host, f, Plaintext(m[f]), host')
        BY <2>4, <4>1
      <4>4. f \in DOMAIN host' /\ host'[f] = Plaintext(m[f])
        BY <4>3 DEF Becomes
      <4> HIDE DEF m
      <4>5. /\ Consistent(host', m)
            /\ UsersSaved(host', m) <=> f = UserInfo \/ UsersSaved(host, m)
            /\ \A ks : BaseFacts(host', m, ks) = BaseFacts(host, m, ks)
        BY <2>2, <3>1, <4>2, <4>3, PutStore
      <4> QED
        BY <4>4, <4>5
    <3>2. CASE f \in TreeFile
      <4>1. SameStores(host, host')
        BY <2>4, <3>2, TreeWritten
      <4>2. f \notin Store
        BY <3>2, OutsideTree
      <4> QED
        BY <2>2, <4>1, <4>2, SameStoresKeep, StoreNames
    <3> QED
      BY <2>3, <3>1, <3>2
  <2>7. /\ BaseFacts(host', m, keys) \cup {Saved} =
               BaseFacts(host, m, keys) \cup Gives(s) \cup {Saved}
        /\ \/ SavesUsers(s) /\ UsersSaved(host', m)
           \/ ~SavesUsers(s) /\ (UsersSaved(host', m) <=> UsersSaved(host, m))
        /\ PutsSecrets(s) => AdminKeys \in DOMAIN host' /\ host'[AdminKeys] = Plaintext(m[AdminKeys])
    BY <2>5, <2>6
  <2>8. Loaded(host', user[p], m, hold'[p], Tail(todo[p]), keys)
    <3>1. s.do \notin {"begin", "unlock", "quit"}
      BY <2>1
    <3> HIDE DEF m
    <3> QED
      BY <1>2, <2>1, <2>6, <2>7, <3>1, LoadedRest
  <2> QED
    BY <2>1, <2>8, RecoveryOfLoaded
<1> QED
    BY <1>1, <1>2

-----------------------------------------------------------------------------
(* A file is opened, and written *)

\* What is opened is then written: the same step, for what it needs and gives.
LEMMA OpenedGives ==
    ASSUME NEW ks, NEW s \in AnyStep(ks), s.do = "open", NEW w, w = s.write
    PROVE  /\ w \in AnyStep(ks) /\ w.do \in {"open", "put", "put key", "seal"}
           /\ w.do \in {"put", "seal"} => w.file = s.file
           /\ SavesUsers(w) <=> SavesUsers(s)
           /\ PutsSecrets(w) <=> PutsSecrets(s)
           /\ SealsSecrets(w) <=> SealsSecrets(s)
           /\ ~ReadsSecrets(w) /\ Gives(w) = Gives(s)
           /\ \A A, B, n :
                  /\ Needs(s, A, n) /\ \A u : <<"user", u>> \in B => <<"user", u>> \in A
                  /\ PutsSecrets(s) \/ SealsSecrets(s) => Saved \in B
                  /\ SavesUsers(s) /\ Housed(A) => Housed(B)
                  => Needs(w, B, n)
           /\ s.file = UserInfo => SavesUsers(s)
           /\ s.file \in KeyPairFile =>
                   MakesKey(s) /\ s.file[2] = NameOf(s) /\ <<"key", s.file>> \in Gives(s)
           /\ s.file \in TreeFile => Gives(s) = {} /\ ~SavesUsers(s) /\ ~PutsSecrets(s)
           /\ SavesUsers(s) => s.file = UserInfo
<1>1. /\ w \in AnyStep(ks) /\ w.do \in {"open", "put", "put key", "seal"}
      /\ Puts(w) <=> Puts(s)
      /\ Seals(w) <=> Seals(s)
    BY OpenedStep
<1>14. w.do \in {"put", "seal"} => w.file = s.file
  <2>1. s.write.do \in {"put", "seal"} => s.file = s.write.file
    BY OpenFacts
  <2> QED
    BY <2>1
<1>15. /\ w.do \in {"open", "put key"} => s.file \in KeyPairFile
       /\ w.do = "open" => w.write.do = "put key"
    BY OpenFacts
<1>16. Puts(w) \/ Seals(w) => w.do \in {"put", "seal"}
    BY <1>1, <1>15 DEF Puts, Seals
<1>2. /\ MakesKey(w) <=> w.do \in {"open", "put key"}
      /\ MakesKey(s) <=> w.do \in {"open", "put key"}
    BY <1>1, <1>15 DEF MakesKey
<1>3. MakesKey(s) => /\ NumberOf(w) = NumberOf(s) /\ NameOf(w) = NameOf(s)
                     /\ KeysOf(w) = KeysOf(s)
    BY KeyOpened DEF NumberOf, NameOf, KeysOf
<1>4. /\ SavesUsers(w) <=> SavesUsers(s)
      /\ PutsSecrets(w) <=> PutsSecrets(s)
      /\ SealsSecrets(w) <=> SealsSecrets(s)
      /\ ~ReadsSecrets(w)
    BY <1>1, <1>14, <1>16 DEF SavesUsers, PutsSecrets, SealsSecrets, ReadsSecrets
<1>5. ~LearnsUser(w) /\ ~LearnsUser(s)
    BY <1>1 DEF LearnsUser
<1>6. Gives(w) = Gives(s)
  <2>1. CASE w.do = "put"
    <3>1. Puts(w) /\ Puts(s)
      BY <1>1, <2>1 DEF Puts
    <3> QED
      BY <1>14, <2>1, <3>1, PutGives
  <2>2. CASE w.do \in {"open", "put key"}
    BY <1>2, <1>3, <2>2, KeyGives
  <2>3. CASE w.do = "seal"
    <3>1. Seals(w) /\ Seals(s)
      BY <1>1, <2>3 DEF Seals
    <3> QED
      BY <3>1, SealGives
  <2> QED
    BY <1>1, <2>1, <2>2, <2>3
<1>7. ASSUME NEW A, NEW B, NEW n, Needs(s, A, n),
             \A u : <<"user", u>> \in B => <<"user", u>> \in A,
             PutsSecrets(s) \/ SealsSecrets(s) => Saved \in B,
             SavesUsers(s) /\ Housed(A) => Housed(B)
      PROVE  Needs(w, B, n)
  <2>1. MakesKey(w) => NumberOf(w) = n /\ <<"user", NameOf(w)>> \notin B
    BY <1>1, <1>2, <1>3, <1>7 DEF Needs
  <2>2. SavesUsers(w) => Housed(B)
    BY <1>4, <1>7 DEF Needs
  <2> QED
    BY <1>1, <1>4, <1>5, <1>7, <2>1, <2>2 DEF Needs
<1>8. /\ w.do = "put" => w.file \in Store \cup TreeFile
      /\ w.do = "seal" => w.file \in Sensitive
    BY <1>1, StepFacts
<1>9. /\ UserInfo \in Store /\ UserInfo \notin Sensitive /\ UserInfo \notin KeyPairFile
      /\ UserInfo \notin TreeFile /\ AdminKeys \notin TreeFile
    BY FileKinds, OwnerFacts, StoreNames
<1>10. s.file = UserInfo => SavesUsers(s)
    BY <1>1, <1>4, <1>8, <1>9, <1>14, <1>15 DEF SavesUsers, Puts
<1>11. s.file \in KeyPairFile =>
           MakesKey(s) /\ s.file[2] = NameOf(s) /\ <<"key", s.file>> \in Gives(s)
  <2>1. s.file \in KeyPairFile => MakesKey(s)
    BY <1>1, <1>2, <1>8, <1>14, FileKinds
  <2> QED
    BY <2>1, KeyOpened, KeyGives
<1>12. s.file \in TreeFile => Gives(s) = {} /\ ~SavesUsers(s) /\ ~PutsSecrets(s)
  <2> SUFFICES ASSUME s.file \in TreeFile PROVE Gives(s) = {} /\ ~SavesUsers(s) /\ ~PutsSecrets(s)
    OBVIOUS
  <2>1. ~SavesUsers(s) /\ ~PutsSecrets(s)
    BY <1>9 DEF SavesUsers, PutsSecrets
  <2>2. ~MakesKey(w)
    BY <1>2, <1>15, FileKinds
  <2> QED
    BY <1>1, <1>2, <1>5, <2>1, <2>2 DEF Gives
<1>13. SavesUsers(s) => s.file = UserInfo
    BY DEF SavesUsers
<1> QED
    BY <1>1, <1>4, <1>6, <1>7, <1>10, <1>11, <1>12, <1>13, <1>14

\* The files that it is to find empty are so.
LEMMA OpenedHead ==
    ASSUME NEW ks, NEW s \in AnyStep(ks), s.do = "open", NEW w, w = s.write,
           NEW h, NEW h2, Becomes(h, s.file, Blank, h2),
           NEW m, NEW hd, HeadOK(h, m, hd, s)
    PROVE  HeadOK(h2, m, hd, w)
<1>1. /\ w.do \in {"open", "put", "put key", "seal"}
      /\ w.do \in {"put", "seal"} => w.file = s.file
      /\ SealsSecrets(w) <=> SealsSecrets(s)
      /\ ~ReadsSecrets(w)
    BY OpenedGives
<1>2. Blanked(h2, s.file) /\ \A f : Blanked(h, f) => Blanked(h2, f)
    BY DEF Becomes, Blanked
<1>3. w.do \in {"put", "seal"} => Blanked(h2, w.file)
    BY <1>1, <1>2
<1>4. w.do = "put key" => \A f \in KeysOf(w) : Blanked(h2, f)
  <2> SUFFICES ASSUME w.do = "put key" PROVE \A f \in KeysOf(w) : Blanked(h2, f)
    OBVIOUS
  <2>1. MakesKey(s)
    BY DEF MakesKey
  <2>2. KeysOf(w) = {w.file, s.file}
    BY <2>1, KeyOpened DEF KeysOf, NameOf
  <2>3. Blanked(h, w.file)
    BY DEF HeadOK
  <2> QED
    BY <1>2, <2>2, <2>3
<1>5. w.do = "open" /\ w.write.do = "put key" => Blanked(h2, w.write.file)
  <2> SUFFICES ASSUME w.do = "open", w.write.do = "put key" PROVE Blanked(h2, w.write.file)
    OBVIOUS
  <2>1. MakesKey(s) /\ KeyPut(s) = w.write
    BY DEF MakesKey, KeyPut
  <2>2. w.write.file = s.file
    BY <2>1, KeyOpened
  <2> QED
    BY <1>2, <2>2
<1>6. SealsSecrets(w) => hd = m[AdminKeys]
    BY <1>1 DEF HeadOK
<1> QED
    BY <1>1, <1>3, <1>4, <1>5, <1>6 DEF HeadOK

\* What a file that is opened leaves of what was known.
LEMMA OpenedHost ==
    ASSUME NEW ks, NEW s \in AnyStep(ks), s.do = "open", NEW h, NEW h2,
           Becomes(h, s.file, Blank, h2), NEW m, Consistent(h, m), NEW A, NEW n,
           Needs(s, A, n), \A u : <<"user", u>> \in A <=> u \in DOMAIN m[UserInfo]
    PROVE  /\ Consistent(h2, m)
           /\ UsersSaved(h2, m) <=> UsersSaved(h, m) /\ ~SavesUsers(s)
           /\ BaseFacts(h2, m, ks) \cup Gives(s) = BaseFacts(h, m, ks) \cup Gives(s)
<1> DEFINE f == s.file
<1>1. /\ f = UserInfo => SavesUsers(s)
      /\ f \in KeyPairFile =>
             MakesKey(s) /\ f[2] = NameOf(s) /\ <<"key", f>> \in Gives(s)
      /\ f \in TreeFile => Gives(s) = {} /\ ~SavesUsers(s) /\ ~PutsSecrets(s)
      /\ SavesUsers(s) => f = UserInfo
    BY OpenedGives
<1>2. f \in Store \cup KeyPairFile \cup TreeFile
    BY StepFacts, FileKinds
<1>3. Becomes(h, f, Blank, h2)
    OBVIOUS
<1>4. f \in KeyPairFile => f[2] \notin DOMAIN m[UserInfo]
    BY <1>1 DEF Needs
<1> HIDE DEF f
<1>5. CASE f \in Store
  <2>1. /\ Consistent(h2, m)
        /\ UsersSaved(h2, m) <=> f # UserInfo /\ UsersSaved(h, m)
        /\ BaseFacts(h2, m, ks) = BaseFacts(h, m, ks)
    BY <1>3, <1>5, BlankedStore
  <2> QED
    BY <1>1, <2>1
<1>6. CASE f \in KeyPairFile
  <2>1. f[2] \notin DOMAIN m[UserInfo]
    BY <1>4, <1>6
  <2>2. Consistent(h2, m) /\ (UsersSaved(h2, m) <=> UsersSaved(h, m))
    BY <1>3, <1>6, <2>1, WrittenKey
  <2>5. \A e : e # <<"key", f>> => (e \in BaseFacts(h2, m, ks) <=> e \in BaseFacts(h, m, ks))
    BY <1>3, <1>6, <2>1, WrittenKey
  <2>3. BaseFacts(h2, m, ks) \cup Gives(s) = BaseFacts(h, m, ks) \cup Gives(s)
    BY <1>1, <1>6, <2>5
  <2>4. f # UserInfo
    BY <1>6, FileKinds, StoreNames
  <2> QED
    BY <1>1, <2>2, <2>3, <2>4
<1>7. CASE f \in TreeFile
  <2>1. SameStores(h, h2)
    BY <1>3, <1>7, TreeWritten
  <2> QED
    BY <1>1, <1>7, <2>1, SameStoresKeep
<1> QED
    BY <1>2, <1>5, <1>6, <1>7

\* What the steps of a handler need and give speaks of their files; which of
\* them is first does not matter for the facts, unless it learns.
LEMMA FactsOfHead ==
    ASSUME NEW ks, NEW r \in Seq(QueuedStep(ks)), NEW w \in AnyStep(ks), w.do # "learn",
           NEW h, NEW m, NEW t \in Seq(AnyStep(ks)), t # <<>>, Tail(t) = r,
           Head(t).do # "learn"
    PROVE  /\ Learns(<<w>> \o r) <=> Learns(t)
           /\ Saved \in Facts(h, m, <<w>> \o r, ks) <=> UsersSaved(h, m) /\ ~Learns(t)
           /\ \A u : <<"user", u>> \in Facts(h, m, <<w>> \o r, ks) <=> u \in DOMAIN m[UserInfo]
<1> DEFINE t2 == <<w>> \o r
<1>1. r \in Seq(AnyStep(ks))
    BY QueuedHandling
<1>2. t2 \in Seq(AnyStep(ks)) /\ t2 # <<>> /\ Head(t2) = w /\ Tail(t2) = r
    BY <1>1, ConsFacts
<1> HIDE DEF t2
<1>3. Learns(t2) <=> Learns(r)
    BY <1>2, RestFacts
<1>4. Learns(t) <=> Learns(r)
    BY RestFacts
<1>5. /\ Saved \in Facts(h, m, t2, ks) <=> UsersSaved(h, m) /\ ~Learns(t2)
      /\ \A u : <<"user", u>> \in Facts(h, m, t2, ks) <=> u \in DOMAIN m[UserInfo]
    BY FactsAre
<1> QED
    BY <1>3, <1>4, <1>5 DEF t2

\* A file is opened; or it is not, and what was to be written is lost.
LEMMA OpenRecovers ==
    ASSUME IInv, RInv, NEW p \in Proc, Open(p)
    PROVE  RInv'
<1> DEFINE f == File(p)
           s == Op(p)
           w == s.write
           m == mem[p]
           t == todo[p]
<1>1. CASE ~Loaded(host, user[p], m, hold[p], t, keys)
    BY <1>1, OpenLoading
<1>2. CASE Loaded(host, user[p], m, hold[p], t, keys)
  <2>1. /\ s.do = "open" /\ t # <<>> /\ Running(p) /\ s = Head(t) /\ s.file = f
        /\ UNCHANGED <<keys, user, mem>> /\ StepBy(p)
        /\ \/ /\ Openable(f) /\ host' = Set(f, Blank) /\ todo'[p] = <<w>> \o Tail(t)
              /\ hold'[p] = hold[p]
           \/ ~Openable(f) /\ host' = host /\ todo'[p] = Tail(t)
    BY DEF Open, At, Op, File, Running, Done, Expand, Hold, StepBy, IInv, Shape
  <2>2. /\ t \in Seq(AnyStep(keys)) /\ Tail(t) \in Seq(QueuedStep(keys))
        /\ s \in AnyStep(keys) /\ Consistent(host, m) /\ HeadOK(host, m, hold[p], s)
        /\ Needs(s, Facts(host, m, t, keys), Len(keys))
    BY <1>2, <2>1, LoadedFacts
  <2>9. w = s.write
    OBVIOUS
  <2> HIDE DEF f, s, w, t, m
  <2>10. s \in AnyStep(keys) /\ s.do = "open" /\ f = s.file
    BY <2>1, <2>2
  <2>3. /\ w \in AnyStep(keys) /\ w.do \in {"open", "put", "put key", "seal"}
        /\ SavesUsers(w) <=> SavesUsers(s)
        /\ PutsSecrets(w) <=> PutsSecrets(s)
        /\ SealsSecrets(w) <=> SealsSecrets(s)
        /\ ~ReadsSecrets(w) /\ Gives(w) = Gives(s)
        /\ f \in TreeFile => Gives(s) = {} /\ ~SavesUsers(s) /\ ~PutsSecrets(s)
        /\ f = UserInfo => SavesUsers(s)
        /\ SavesUsers(s) => f = UserInfo
    <3>1. /\ w \in AnyStep(keys) /\ w.do \in {"open", "put", "put key", "seal"}
          /\ SavesUsers(w) <=> SavesUsers(s)
          /\ PutsSecrets(w) <=> PutsSecrets(s)
          /\ SealsSecrets(w) <=> SealsSecrets(s)
          /\ ~ReadsSecrets(w) /\ Gives(w) = Gives(s)
      BY <2>9, <2>10, OpenedGives
    <3>2. /\ s.file \in TreeFile => Gives(s) = {} /\ ~SavesUsers(s) /\ ~PutsSecrets(s)
          /\ s.file = UserInfo => SavesUsers(s)
          /\ SavesUsers(s) => s.file = UserInfo
      BY <2>9, <2>10, OpenedGives
    <3> QED
      BY <2>10, <3>1, <3>2
  <2>4. \A A, B, n :
            /\ Needs(s, A, n) /\ \A u : <<"user", u>> \in B => <<"user", u>> \in A
            /\ PutsSecrets(s) \/ SealsSecrets(s) => Saved \in B
            /\ SavesUsers(s) /\ Housed(A) => Housed(B)
            => Needs(w, B, n)
    BY <2>9, <2>10, OpenedGives
  <2>5. /\ \A u : <<"user", u>> \in Facts(host, m, t, keys) <=> u \in DOMAIN m[UserInfo]
        /\ Saved \in Facts(host, m, t, keys) <=> UsersSaved(host, m) /\ ~Learns(t)
    BY FactsAre
  <2>6. DOMAIN m[UserInfo] \subseteq User
    BY ProcessFacts DEF knownUsers, m
  <2>7. CASE ~Openable(f) /\ host' = host /\ todo'[p] = Tail(t)
    <3>1. f \in TreeFile
      BY <2>1, <2>2, <2>7, StepFacts, HostFilesOpen, FileKinds
    <3>2. Loaded(host, user[p], m, hold'[p], Tail(t), keys)
      <4>1. /\ s.do \notin {"begin", "unlock", "quit"}
            /\ BaseFacts(host, m, keys) \cup {Saved} =
                   BaseFacts(host, m, keys) \cup Gives(s) \cup {Saved}
            /\ ~SavesUsers(s) /\ ~PutsSecrets(s)
        BY <2>1, <2>3, <3>1
      <4> QED
        BY <1>2, <2>1, <2>2, <4>1, LoadedRest
    <3> QED
      BY <2>1, <2>7, <3>2, RecoveryOfLoaded DEF m
  <2>8. CASE /\ Openable(f) /\ host' = Set(f, Blank) /\ todo'[p] = <<w>> \o Tail(t)
             /\ hold'[p] = hold[p]
    <3> DEFINE t2 == <<w>> \o Tail(t)
    <3>1. Becomes(host, s.file, Blank, host')
      BY <2>1, <2>8, SetBecomes
    <3>2. /\ Consistent(host', m)
          /\ UsersSaved(host', m) <=> UsersSaved(host, m) /\ ~SavesUsers(s)
          /\ BaseFacts(host', m, keys) \cup Gives(s) = BaseFacts(host, m, keys) \cup Gives(s)
      <4> DEFINE A == Facts(host, m, t, keys)
      <4>1. /\ Needs(s, A, Len(keys)) /\ \A u : <<"user", u>> \in A <=> u \in DOMAIN m[UserInfo]
            /\ s.do = "open" /\ s \in AnyStep(keys) /\ Consistent(host, m)
        BY <2>1, <2>2, <2>5
      <4> HIDE DEF A
      <4> QED
        BY <3>1, <4>1, OpenedHost
    <3>4. HeadOK(host', m, hold[p], w)
      BY <2>1, <2>2, <2>9, <3>1, OpenedHead
    <3>5. w.do # "learn" /\ s.do # "learn"
      BY <2>1, <2>3
    <3>6. /\ Saved \in Facts(host', m, t2, keys) <=> UsersSaved(host', m) /\ ~Learns(t)
          /\ \A u : <<"user", u>> \in Facts(host', m, t2, keys) <=> u \in DOMAIN m[UserInfo]
      BY <2>1, <2>2, <2>3, <3>5, FactsOfHead
    <3>7. /\ Housed(Facts(host, m, t, keys)) <=> Homed(m[FileMappings], m[UserInfo])
          /\ Housed(Facts(host', m, t2, keys)) <=> Homed(m[FileMappings], m[UserInfo])
      BY <2>6, HousedIsHomed DEF m
    <3>8. PutsSecrets(s) \/ SealsSecrets(s) => Saved \in Facts(host', m, t2, keys)
      <4>1. PutsSecrets(s) \/ SealsSecrets(s) =>
                Saved \in Facts(host, m, t, keys) /\ f # UserInfo
        BY <2>1, <2>2, FileKinds DEF Needs, PutsSecrets, SealsSecrets
      <4> QED
        BY <2>3, <2>5, <3>2, <3>6, <4>1
    <3>9. Needs(w, Facts(host', m, t2, keys), Len(keys))
      BY <2>2, <2>4, <2>5, <3>6, <3>7, <3>8
    <3>10. BaseFacts(host', m, keys) \cup Gives(w) \cup {Saved} =
               BaseFacts(host, m, keys) \cup Gives(s) \cup {Saved}
      BY <2>3, <3>2
    <3>11. s.do \notin {"begin", "unlock", "quit", "learn"}
      BY <2>1
    <3>12. Loaded(host', user[p], m, hold[p], t2, keys)
      BY <1>2, <2>1, <2>3, <3>2, <3>4, <3>5, <3>9, <3>10, <3>11, LoadedExchanged
    <3> QED
      BY <2>1, <2>8, <3>12, RecoveryOfLoaded DEF m
  <2> QED
    BY <2>1, <2>7, <2>8
<1> QED
    BY <1>1, <1>2

\* A step is done that gave nothing to those after it.
LEMMA RestRecovers ==
    ASSUME RInv, NEW p \in Proc, todo[p] # <<>>, NEW s, s = Op(p),
           Loaded(host, user[p], mem[p], hold[p], todo[p], keys),
           s.do \notin {"begin", "unlock", "quit"},
           Gives(s) = {}, ~SavesUsers(s), ~PutsSecrets(s),
           StepBy(p), keys' = keys, user'[p] = user[p], todo'[p] = Tail(todo[p]),
           Consistent(host', mem'[p]),
           DOMAIN mem[p][UserInfo] \subseteq DOMAIN mem'[p][UserInfo],
           BaseFacts(host', mem'[p], keys) = BaseFacts(host, mem[p], keys),
           UsersSaved(host', mem'[p]) <=> UsersSaved(host, mem[p])
    PROVE  RInv'
<1> DEFINE h2 == host'
           m == mem[p]
           m2 == mem'[p]
           t == todo[p]
           hd2 == hold'[p]
<1>1. /\ s = Head(t) /\ Running(p)
      /\ BaseFacts(h2, m2, keys) \cup {Saved} = BaseFacts(host, m, keys) \cup Gives(s) \cup {Saved}
    BY DEF Op, Running
<1>2. Loaded(h2, user[p], m2, hd2, Tail(t), keys)
  <2>1. /\ Consistent(h2, m2) /\ DOMAIN m[UserInfo] \subseteq DOMAIN m2[UserInfo]
        /\ UsersSaved(h2, m2) <=> UsersSaved(host, m)
        /\ t # <<>> /\ Loaded(host, user[p], m, hold[p], t, keys)
    OBVIOUS
  <2> HIDE DEF h2, m, m2, t, hd2
  <2> QED
    BY <1>1, <2>1, LoadedRest
<1> QED
    BY <1>1, <1>2, RecoveryOfLoaded

\* A store in memory is changed.
LEMMA MemoryRemembers ==
    ASSUME IInv, NEW p \in Proc, NEW s \in Store, NEW value, Memory(p, s, value)
    PROVE  /\ Remembers(mem[p], s, value, mem'[p])
           /\ DOMAIN mem' = Proc /\ \A q \in Proc \ {p} : mem'[q] = mem[q]
<1>1. DOMAIN mem = Proc /\ DOMAIN mem[p] = Store
    BY ProcessFacts DEF IInv, Shape, MemOK
<1>2. mem' = [mem EXCEPT ![p][s] = value]
    BY DEF Memory
<1>3. mem'[p] = [mem[p] EXCEPT ![s] = value]
    BY <1>1, <1>2
<1>4. mem'[p][s] = value /\ \A r \in Store \ {s} : mem'[p][r] = mem[p][r]
    BY <1>1, <1>3
<1> QED
    BY <1>1, <1>2, <1>4 DEF Remembers

\* A key is written, for a user who is not known yet; that of the private key
\* first.
LEMMA PutKeyRecovers ==
    ASSUME IInv, RInv, NEW p \in Proc, PutKey(p)
    PROVE  RInv'
<1> DEFINE f == File(p)
           s == Op(p)
           m == mem[p]
           t == todo[p]
           u == f[2]
           x == PutKeyTo(PublicFile(u), s.key)
<1>1. /\ s.do = "put key" /\ t # <<>> /\ Running(p) /\ s = Head(t) /\ s.file = f
      /\ UNCHANGED <<keys, user, mem>> /\ Overwrite(f, Plaintext(s.key)) /\ StepBy(p)
      /\ IF f = KeyFile(u) THEN todo'[p] = <<x>> \o Tail(t) ELSE todo'[p] = Tail(t)
    BY DEF PutKey, At, Op, File, Running, Done, Expand, StepBy, IInv, Shape
<1>16. hold' = hold
    BY DEF PutKey
<1>2. Loaded(host, user[p], m, hold[p], t, keys)
    BY <1>1, AtLoaded
<1>3. /\ s \in AnyStep(keys) /\ Consistent(host, m) /\ HeadOK(host, m, hold[p], s)
      /\ Needs(s, Facts(host, m, t, keys), Len(keys))
      /\ t \in Seq(AnyStep(keys)) /\ Tail(t) \in Seq(QueuedStep(keys))
    BY <1>1, <1>2, LoadedFacts
<1>6. /\ MakesKey(s) /\ NumberOf(s) = s.key /\ NameOf(s) = u
      /\ KeysOf(s) = {f, PublicFile(u)}
    BY <1>1 DEF MakesKey, NumberOf, NameOf, KeysOf, KeyPut
<1>4. /\ f \in KeyPairFile /\ f \in DOMAIN host /\ host[f] = Blank
      /\ Blanked(host, PublicFile(u))
    BY <1>1, <1>3, <1>6, StepFacts DEF HeadOK, Blanked
<1>5. \A v : <<"user", v>> \in Facts(host, m, t, keys) <=> v \in DOMAIN m[UserInfo]
    BY FactsAre
<1>7. s.key = Len(keys) /\ u \notin DOMAIN m[UserInfo]
    BY <1>1, <1>3, <1>5, <1>6 DEF Needs
<1>8. Gives(s) = {<<"key", f>>, <<"key", PublicFile(u)>>} /\ ~SavesUsers(s) /\ ~PutsSecrets(s)
  <2>1. Gives(s) = {<<"key", g>> : g \in KeysOf(s)} /\ ~SavesUsers(s) /\ ~PutsSecrets(s)
    BY <1>6, KeyGives
  <2> QED
    BY <1>6, <2>1
<1>17. s \in PutKeyStep(keys)
    BY <1>1, <1>3 DEF AnyStep, QueuedStep, WriteStep, PutStep, SealStep, OpenStep,
                      PublicOpen, KeyOpen
<1>18. f \in {KeyFile(u), PublicFile(u)} /\ KeyFile(u) # PublicFile(u)
    BY <1>4 DEF KeyPairFile, KeyFile, PublicFile
<1> HIDE DEF f, s, m, t
<1>9. Becomes(host, f, Plaintext(Len(keys)), host')
    BY <1>1, <1>4, <1>7, BlankOverwritten
<1>10. Consistent(host', m) /\ (UsersSaved(host', m) <=> UsersSaved(host, m))
    BY <1>3, <1>4, <1>7, <1>9, WrittenKey
<1>11. \A e : e # <<"key", f>> =>
                 (e \in BaseFacts(host', m, keys) <=> e \in BaseFacts(host, m, keys))
    BY <1>3, <1>4, <1>7, <1>9, WrittenKey
<1>12. <<"key", f>> \in BaseFacts(host', m, keys)
    BY <1>3, <1>4, <1>7, <1>9, WrittenKey
<1>13. s.do \notin {"begin", "unlock", "quit", "learn"}
    BY <1>1
<1>14. CASE f # KeyFile(u)
  <2>1. Gives(s) = {<<"key", f>>}
    BY <1>8, <1>14, <1>18
  <2>2. BaseFacts(host', m, keys) \cup {Saved} = BaseFacts(host, m, keys) \cup Gives(s) \cup {Saved}
    BY <1>11, <1>12, <2>1
  <2>3. Loaded(host', user[p], m, hold'[p], Tail(t), keys)
    BY <1>1, <1>2, <1>8, <1>10, <1>13, <2>2, LoadedRest
  <2> QED
    BY <1>1, <1>14, <2>3, RecoveryOfLoaded DEF m
<1>15. CASE f = KeyFile(u)
  <2> DEFINE t2 == <<x>> \o Tail(t)
  <2>1. /\ x.do = "put key" /\ x.file = PublicFile(u) /\ x.key = Len(keys)
        /\ x.file[2] = u
    BY <1>7 DEF PutKeyTo, PublicFile
  <2>2. x \in AnyStep(keys)
    <3>1. u \in User /\ s.key \in 1 .. Len(keys) /\ keys[s.key] = u
      <4>1. s.key \in 1 .. Len(keys) /\ s.file[2] = keys[s.key]
        BY <1>1, <1>3, StepFacts
      <4> QED
        BY <1>1, <1>4, <4>1, FileKinds
    <3>2. x \in PutKeyStep(keys)
      BY <3>1, KeyPairSteps
    <3> QED
      BY <3>2 DEF AnyStep, WriteStep
  <2> HIDE DEF x, t2
  <2>3. /\ MakesKey(x) /\ NumberOf(x) = Len(keys) /\ NameOf(x) = u
        /\ KeysOf(x) = {PublicFile(u)}
    BY <2>1 DEF MakesKey, NumberOf, NameOf, KeysOf, KeyPut
  <2>4. /\ Gives(x) = {<<"key", PublicFile(u)>>}
        /\ ~SavesUsers(x) /\ ~PutsSecrets(x) /\ ~SealsSecrets(x)
        /\ ~ReadsSecrets(x) /\ ~LearnsUser(x)
    <3>1. /\ Gives(x) = {<<"key", g>> : g \in KeysOf(x)}
          /\ ~SavesUsers(x) /\ ~PutsSecrets(x) /\ ~SealsSecrets(x)
          /\ ~ReadsSecrets(x) /\ ~LearnsUser(x)
      BY <2>3, KeyGives
    <3> QED
      BY <2>3, <3>1
  <2>5. Blanked(host', PublicFile(u))
    BY <1>4, <1>9, <1>15, <1>18 DEF Becomes, Blanked
  <2>6. HeadOK(host', m, hold[p], x)
    BY <2>1, <2>3, <2>4, <2>5 DEF HeadOK
  <2>7. \A v : <<"user", v>> \in Facts(host', m, t2, keys) <=> v \in DOMAIN m[UserInfo]
    BY FactsAre
  <2>8. Needs(x, Facts(host', m, t2, keys), Len(keys))
    BY <1>7, <2>1, <2>3, <2>4, <2>7 DEF Needs
  <2>9. BaseFacts(host', m, keys) \cup Gives(x) \cup {Saved} =
            BaseFacts(host, m, keys) \cup Gives(s) \cup {Saved}
    BY <1>8, <1>11, <1>12, <2>4
  <2>10. Loaded(host', user[p], m, hold[p], t2, keys)
    BY <1>1, <1>2, <1>8, <1>10, <1>13, <2>1, <2>2, <2>4, <2>6, <2>8, <2>9,
       LoadedExchanged DEF t2
  <2>11. todo'[p] = t2
    BY <1>1, <1>15 DEF t2
  <2> QED
    BY <1>1, <1>16, <2>10, <2>11, RecoveryOfLoaded DEF m
<1> QED
    BY <1>14, <1>15

\* The ciphertext is written: of a file of the tree, or of the private keys.
LEMMA SealRecovers ==
    ASSUME IInv, RInv, NEW p \in Proc, Seal(p)
    PROVE  RInv'
<1> DEFINE f == File(p)
           s == Op(p)
           m == mem[p]
           t == todo[p]
           k == publicKey(p, s.for)
<1>1. /\ s.do = "seal" /\ t # <<>> /\ Running(p) /\ s = Head(t) /\ s.file = f
      /\ UNCHANGED <<keys, user, mem>> /\ Overwrite(f, Sealed(k, hold[p])) /\ StepBy(p)
      /\ todo'[p] = Tail(t)
    BY DEF Seal, At, Op, File, Running, Done, Hold, StepBy, IInv, Shape
<1>2. Loaded(host, user[p], m, hold[p], t, keys)
    BY <1>1, AtLoaded
<1>3. /\ s \in AnyStep(keys) /\ Consistent(host, m) /\ HeadOK(host, m, hold[p], s)
      /\ Needs(s, Facts(host, m, t, keys), Len(keys))
    BY <1>1, <1>2, LoadedFacts
<1>4. f \in Sensitive /\ s.for = Owner(f) /\ f \in DOMAIN host /\ host[f] = Blank
    BY <1>1, <1>3, StepFacts DEF HeadOK, Blanked
<1>5. Seals(s) /\ Gives(s) = {} /\ ~SavesUsers(s) /\ ~PutsSecrets(s)
    BY <1>1, SealGives DEF Seals
<1>6. SealOK(s, m, hold[p], keys)
    BY <1>1, HandlingFacts, CurrentStep
<1>7. Becomes(host, f, Sealed(k, hold[p]), host')
    BY <1>1, <1>4, BlankOverwritten
<1>8. /\ Consistent(host', m)
      /\ UsersSaved(host', m) <=> UsersSaved(host, m)
      /\ BaseFacts(host', m, keys) = BaseFacts(host, m, keys)
  <2>1. CASE f \in TreeFile
    <3>1. SameStores(host, host')
      BY <1>7, <2>1, TreeWritten
    <3> QED
      BY <1>3, <3>1, SameStoresKeep
  <2>2. CASE f = AdminKeys
    <3>1. hold[p] = m[AdminKeys] /\ Saved \in Facts(host, m, t, keys)
      BY <1>1, <1>3, <1>5, <2>2 DEF HeadOK, Needs, SealsSecrets
    <3>2. UsersSaved(host, m)
      BY <3>1, FactsAre
    <3>3. m[AdminKeys] \notin {Empty, Garbled}
      BY <1>3, TablesParse
    <3>4. Admin \in DOMAIN m[UserInfo] /\ s.for = Admin
      BY <1>1, <1>4, <1>5, <1>6, <2>2, <3>1, <3>3, OwnerFacts DEF SealOK
    <3>5. k = m[UserInfo][Admin]
      BY <3>4 DEF publicKey, knownUsers
    <3> DEFINE content == [key |-> k, text |-> m[AdminKeys]]
    <3>6. Sealed(k, hold[p]) = content
      BY <3>1, <3>3 DEF Sealed
    <3>7. content.key = m[UserInfo][Admin] /\ content.text = m[AdminKeys]
      BY <3>5
    <3>8. Becomes(host, AdminKeys, content, host')
      BY <1>7, <2>2, <3>6
    <3> HIDE DEF content, m
    <3>9. /\ Consistent(host', m) /\ UsersSaved(host', m)
          /\ \A ks : BaseFacts(host', m, ks) = BaseFacts(host, m, ks)
      BY <1>3, <3>2, <3>3, <3>4, <3>7, <3>8, SealedSecrets
    <3> QED
      BY <3>2, <3>9
  <2> QED
    BY <1>4, <2>1, <2>2 DEF Sensitive
<1> QED
  <2>1. s.do \notin {"begin", "unlock", "quit"}
    BY <1>1
  <2> QED
    BY <1>1, <1>2, <1>5, <1>8, <2>1, RestRecovers

\* A key is learnt from its file: the public one of a new user, or the private
\* one for admin.
LEMMA LearnRecovers ==
    ASSUME IInv, RInv, NEW p \in Proc, Learn(p)
    PROVE  RInv'
<1> DEFINE f == File(p)
           u == f[2]
           s == Op(p)
           m == mem[p]
           t == todo[p]
           m2 == mem'[p]
           A == Facts(host, m, t, keys)
           store == IF f = KeyFile(u) THEN AdminKeys ELSE UserInfo
           table == [v \in DOMAIN m[store] \cup {u} |->
                        IF v = u THEN host[f].text ELSE m[store][v]]
<1>1. /\ s.do = "learn" /\ t # <<>> /\ Running(p) /\ s = Head(t) /\ s.file = f
      /\ UNCHANGED <<host, keys, user>> /\ Memory(p, store, table)
      /\ todo'[p] = Tail(t)
    BY DEF Learn, At, Op, File, Running, Done, IInv, Shape, hostVars
<1>2. store \in Store
    BY StoreNames
<1>3. Remembers(m, store, table, m2) /\ DOMAIN mem' = Proc /\ \A q \in Proc \ {p} : mem'[q] = mem[q]
    BY <1>1, <1>2, MemoryRemembers
<1>4. StepBy(p)
    BY <1>3 DEF Learn, Done, StepBy, IInv, Shape
<1>5. Loaded(host, user[p], m, hold[p], t, keys)
    BY <1>1, AtLoaded
<1>6. s \in AnyStep(keys) /\ Consistent(host, m) /\ Needs(s, A, Len(keys))
    BY <1>1, <1>5, LoadedFacts
<1>7. f \in KeyPairFile
    BY <1>1, <1>6, StepFacts
<1>8. /\ \A v : <<"user", v>> \in A <=> v \in DOMAIN m[UserInfo]
      /\ \A g : <<"key", g>> \in A <=> g \in KeyPairFile \cap DOMAIN host /\ host[g] = Plaintext(Len(keys))
    BY FactsAre
<1>9. KeyFile(u) # PublicFile(u) /\ (f = KeyFile(u) \/ f = PublicFile(u))
    BY <1>7 DEF KeyPairFile, KeyFile, PublicFile
<1>10. LearnsUser(s) <=> f = PublicFile(u)
    BY <1>1 DEF LearnsUser
<1>11. ~SavesUsers(s) /\ ~PutsSecrets(s) /\ ~MakesKey(s)
    BY <1>1, PlainStep
<1>12. Len(keys) \in Nat
    BY DEF IInv, Shape
<1>13. /\ Consistent(host, m2) /\ DOMAIN m[UserInfo] \subseteq DOMAIN m2[UserInfo]
       /\ BaseFacts(host, m2, keys) = BaseFacts(host, m, keys) \cup Gives(s)
  <2>1. CASE f = KeyFile(u)
    <3>1. store = AdminKeys /\ ~LearnsUser(s) /\ u \in DOMAIN m[UserInfo]
      BY <1>1, <1>6, <1>8, <1>9, <1>10, <2>1 DEF Needs
    <3>2. host[f].text = m[UserInfo][u]
      BY <1>6, <2>1, <3>1 DEF Consistent, UsersFit, KeyfilesFit
    <3>3. FitsOrNull(m[AdminKeys], m[UserInfo])
      BY <1>6 DEF Consistent
    <3>4. FitsOrNull(table, m[UserInfo])
      BY <3>1, <3>2, <3>3 DEF FitsOrNull
    <3>5. m2[UserInfo] = m[UserInfo]
      BY <1>3, <3>1, StoreNames, FileKinds DEF Remembers
    <3>6. Gives(s) = {}
      BY <1>1, <1>11, <3>1 DEF Gives
    <3>7. Remembers(m, AdminKeys, table, m2)
      BY <1>3, <3>1
    <3> HIDE DEF table, m, m2
    <3>8. Consistent(host, m2) /\ \A ks : BaseFacts(host, m2, ks) = BaseFacts(host, m, ks)
      BY <1>6, <3>4, <3>7, LearntSecrets
    <3> QED
      BY <3>5, <3>6, <3>8
  <2>2. CASE f = PublicFile(u)
    <3>1. store = UserInfo /\ LearnsUser(s)
      BY <1>9, <1>10, <2>2
    <3>2. {<<"key", f>>, <<"key", KeyFile(u)>>} \subseteq A
      BY <1>1, <1>6, <3>1 DEF Needs
    <3> DEFINE k == Len(keys)
    <3>3. /\ KeyFile(u) \in DOMAIN host /\ host[KeyFile(u)].text = k
          /\ host[f].text = k /\ k \in Nat
      BY <1>8, <1>12, <3>2 DEF Plaintext
    <3>4. /\ DOMAIN table = DOMAIN m[UserInfo] \cup {u}
          /\ \A v \in DOMAIN table : table[v] = IF v = u THEN k ELSE m[UserInfo][v]
      BY <3>1, <3>3
    <3>11. Adds(m[UserInfo], u, k, table)
      BY <3>4 DEF Adds
    <3>5. Gives(s) = {<<"user", u>>}
      BY <1>1, <1>11, <3>1 DEF Gives
    <3>6. Remembers(m, UserInfo, table, m2)
      BY <1>3, <3>1
    <3>7. m2[UserInfo] = table
      BY <3>6 DEF Remembers
    <3>8. DOMAIN m[UserInfo] \subseteq DOMAIN m2[UserInfo]
      BY <3>4, <3>7
    <3> HIDE DEF table, m, m2, k, u
    <3>9. Consistent(host, m2)
      BY <1>6, <3>3, <3>6, <3>11, LearntUser
    <3>10. \A e : e \in BaseFacts(host, m2, keys) <=> e \in BaseFacts(host, m, keys) \/ e = <<"user", u>>
      BY <1>6, <3>3, <3>6, <3>11, LearntUser
    <3> QED
      BY <3>5, <3>8, <3>9, <3>10
  <2> QED
    BY <1>9, <2>1, <2>2
<1>14. Loaded(host, user[p], m2, hold'[p], Tail(t), keys)
  <2>1. /\ s.do \notin {"begin", "unlock", "quit"}
        /\ BaseFacts(host, m2, keys) \cup {Saved} = BaseFacts(host, m, keys) \cup Gives(s) \cup {Saved}
    BY <1>1, <1>13
  <2> HIDE DEF f, u, s, m, t, m2, A, store, table
  <2> QED
    BY <1>1, <1>5, <1>11, <1>13, <2>1, LoadedRest
<1> QED
  <2>1. Loaded(host', user'[p], mem'[p], hold'[p], todo'[p], keys')
    BY <1>1, <1>14
  <2> QED
    BY <1>1, <1>4, <2>1, RecoveryOfLoaded

\* Directories of the host are of no concern to the stores.
LEMMA EstablishRecovers ==
    ASSUME IInv, RInv, NEW p \in Proc, Establish(p)
    PROVE  RInv'
<1> DEFINE s == Op(p)
<1>1. /\ s.do = "establish" /\ todo[p] # <<>> /\ UNCHANGED <<host, keys, user, mem>>
      /\ StepBy(p) /\ todo'[p] = Tail(todo[p])
    BY DEF Establish, At, Op, Done, StepBy, IInv, Shape
<1>2. Loaded(host, user[p], mem[p], hold[p], todo[p], keys)
    BY <1>1, AtLoaded
<1>3. Consistent(host, mem[p])
    BY <1>1, <1>2, LoadedFacts DEF Op
<1>4. /\ Gives(s) = {} /\ ~SavesUsers(s) /\ ~PutsSecrets(s)
      /\ s.do \notin {"begin", "unlock", "quit"}
    BY <1>1, OtherGives
<1> HIDE DEF s
<1> QED
    BY <1>1, <1>2, <1>3, <1>4, RestRecovers DEF s

\* A copy is removed, to be made again.
LEMMA RemoveFileRecovers ==
    ASSUME IInv, RInv, NEW p \in Proc, RemoveFile(p)
    PROVE  RInv'
<1> DEFINE s == Op(p)
           f == File(p)
<1>1. /\ s.do = "remove" /\ todo[p] # <<>> /\ UNCHANGED <<keys, user, mem>>
      /\ StepBy(p) /\ todo'[p] = Tail(todo[p]) /\ s.file = f
      /\ host' = [g \in DOMAIN host \ {f} |-> host[g]]
    BY DEF RemoveFile, At, Op, File, Done, StepBy, IInv, Shape
<1>2. Loaded(host, user[p], mem[p], hold[p], todo[p], keys)
    BY <1>1, AtLoaded
<1>3. Consistent(host, mem[p]) /\ s \in AnyStep(keys)
    BY <1>1, <1>2, LoadedFacts DEF Op
<1>4. f \in TreeFile
    BY <1>1, <1>3, StepFacts
<1>5. DOMAIN host' = DOMAIN host \ {f} /\ \A g \in DOMAIN host' : host'[g] = host[g]
    BY <1>1
<1>6. SameStores(host, host')
    BY <1>4, <1>5, TreeWritten
<1>7. /\ Consistent(host', mem[p])
      /\ UsersSaved(host', mem[p]) <=> UsersSaved(host, mem[p])
      /\ BaseFacts(host', mem[p], keys) = BaseFacts(host, mem[p], keys)
    BY <1>3, <1>6, SameStoresKeep
<1>8. /\ Gives(s) = {} /\ ~SavesUsers(s) /\ ~PutsSecrets(s)
      /\ s.do \notin {"begin", "unlock", "quit"}
    BY <1>1, OtherGives
<1> HIDE DEF s
<1> QED
    BY <1>1, <1>2, <1>7, <1>8, RestRecovers DEF s

\* A link is added in memory.
LEMMA LinkRecovers ==
    ASSUME IInv, RInv, NEW p \in Proc, Link(p)
    PROVE  RInv'
<1> DEFINE s == Op(p)
           f == File(p)
           g == s.copy
           m == mem[p]
           m2 == mem'[p]
           links == knownLinks(p) \cup {<<f, g>>}
<1>1. /\ s.do = "link" /\ todo[p] # <<>> /\ UNCHANGED <<host, keys, user>>
      /\ todo'[p] = Tail(todo[p]) /\ s.file = f /\ Memory(p, SharedInfo, links)
    BY DEF Link, At, Op, File, Done, IInv, Shape, hostVars
<1>2. Remembers(m, SharedInfo, links, m2) /\ DOMAIN mem' = Proc /\ \A q \in Proc \ {p} : mem'[q] = mem[q]
    BY <1>1, StoreNames, MemoryRemembers
<1>3. StepBy(p)
    BY <1>2 DEF Link, Done, StepBy, IInv, Shape
<1>4. Loaded(host, user[p], m, hold[p], todo[p], keys)
    BY <1>1, AtLoaded
<1>5. Consistent(host, m) /\ Needs(s, Facts(host, m, todo[p], keys), Len(keys))
    BY <1>1, <1>4, LoadedFacts DEF Op
<1>6. f \in m[FileMappings].files /\ g \in m[FileMappings].files
    BY <1>1, <1>5, FactsAre DEF Needs
<1>7. \A l \in links : l \in m[SharedInfo] \/ l = <<f, g>>
    BY DEF knownLinks
<1>8. m2[UserInfo] = m[UserInfo]
    BY <1>2, StoreNames, FileKinds DEF Remembers
<1>9. /\ Gives(s) = {} /\ ~SavesUsers(s) /\ ~PutsSecrets(s)
      /\ s.do \notin {"begin", "unlock", "quit"}
    BY <1>1, OtherGives
<1> HIDE DEF s, f, g, m, m2, links
<1>10. /\ Consistent(host, m2)
       /\ UsersSaved(host, m2) <=> UsersSaved(host, m)
       /\ \A ks : BaseFacts(host, m2, ks) = BaseFacts(host, m, ks)
  <2>1. Consistent(host, m2)
    BY <1>2, <1>5, <1>6, <1>7, Linked
  <2>2. UsersSaved(host, m2) <=> UsersSaved(host, m)
    BY <1>2, <1>5, <1>6, <1>7, Linked
  <2>3. m2[FileMappings] = m[FileMappings]
    BY <1>2, StoreNames, FileKinds DEF Remembers
  <2>4. \A ks : BaseFacts(host, m2, ks) = BaseFacts(host, m, ks)
    BY <1>8, <2>3 DEF BaseFacts
  <2> QED
    BY <2>1, <2>2, <2>4
<1>11. /\ Consistent(host', m2)
       /\ UsersSaved(host', m2) <=> UsersSaved(host, m)
       /\ BaseFacts(host', m2, keys) = BaseFacts(host, m, keys)
    BY <1>1, <1>10
<1> QED
    BY <1>1, <1>3, <1>4, <1>8, <1>9, <1>11, RestRecovers DEF s, m, m2

\* Something is registered: in memory now, on the disk with the next step.
LEMMA RegistrationRecovers ==
    ASSUME IInv, RInv, NEW p \in Proc, todo[p] # <<>>, NEW s, s = Op(p),
           s.do \in {"register dir", "register file"},
           NEW version, NEW D, NEW F, Registers(mem[p][FileMappings], D, F, version),
           F # {} => /\ UsersSaved(host, mem[p])
                     /\ \A f \in F : f[1] \in DOMAIN mem[p][UserInfo],
           \A e : e \in Gives(s) <=> \/ \E d \in D : e = <<"dir", d>>
                                     \/ \E f \in F : e = <<"file", f>>,
           mem' = [mem EXCEPT ![p][FileMappings] = version],
           host' = Set(FileMappings, Blank),
           Expand(p, <<On("put", FileMappings)>>),
           UNCHANGED <<keys, user, key, cwd, hold>>
    PROVE  RInv'
<1> DEFINE m == mem[p]
           m2 == mem'[p]
           h2 == host'
           t == todo[p]
           w == On("put", FileMappings)
           t2 == <<w>> \o Tail(t)
<1>1. /\ Running(p) /\ s = Head(t)
      /\ todo'[p] = t2 /\ keys' = keys /\ user'[p] = user[p] /\ hold'[p] = hold[p]
    BY DEF Running, Op, Expand, IInv, Shape
<1>2. /\ Remembers(m, FileMappings, version, m2)
      /\ DOMAIN mem' = Proc /\ \A q \in Proc \ {p} : mem'[q] = mem[q]
    BY StoreNames, MemoryRemembers DEF Memory
<1>3. StepBy(p)
    BY <1>2 DEF Expand, StepBy, IInv, Shape
<1>4. Loaded(host, user[p], m, hold[p], t, keys)
    BY AtLoaded
<1>5. /\ t \in Seq(AnyStep(keys)) /\ Tail(t) \in Seq(QueuedStep(keys))
      /\ Consistent(host, m)
    BY <1>1, <1>4, LoadedFacts
<1>6. Becomes(host, FileMappings, Blank, h2)
    BY SetBecomes
<1>7. w \in AnyStep(keys) /\ w.do = "put" /\ w.file = FileMappings
    BY StoreNames DEF AnyStep, WriteStep, PutStep, On
<1>8. /\ Gives(w) = {} /\ ~SavesUsers(w) /\ ~PutsSecrets(w) /\ ~MakesKey(w)
      /\ ~SealsSecrets(w) /\ ~ReadsSecrets(w) /\ ~LearnsUser(w)
  <2>1. Puts(w)
    BY <1>7 DEF Puts
  <2> QED
    BY <1>7, <2>1, PutGives, FileKinds
<1>9. ~SavesUsers(s) /\ ~PutsSecrets(s)
    BY PlainStep
<1>10. m2[UserInfo] = m[UserInfo]
    BY <1>2, StoreNames, FileKinds DEF Remembers
<1>11. h2[FileMappings] = Blank /\ FileMappings \in DOMAIN h2
    BY <1>6 DEF Becomes
<1> HIDE DEF w
<1>12. Needs(w, Facts(h2, m2, t2, keys), Len(keys)) /\ w.do # "learn"
    BY <1>7, <1>8 DEF Needs
<1>13. HeadOK(h2, m2, hold[p], w)
  <2>1. Blanked(h2, w.file)
    BY <1>7, <1>11 DEF Blanked
  <2> HIDE DEF h2, m2, t2, t, m
  <2> QED
    BY <1>7, <1>8, <2>1 DEF HeadOK
<1> HIDE DEF m, m2, h2, t
<1>14. /\ Consistent(h2, m) /\ ~Whole(h2, FileMappings)
       /\ UsersSaved(h2, m) <=> UsersSaved(host, m)
       /\ BaseFacts(h2, m, keys) = BaseFacts(host, m, keys)
  <2> DEFINE f == FileMappings
  <2>1. f \in Store /\ f # UserInfo /\ Becomes(host, f, Blank, h2)
    BY <1>6, StoreNames, FileKinds
  <2> HIDE DEF f
  <2>2. Consistent(h2, m) /\ ~Whole(h2, f) /\ (UsersSaved(h2, m) <=> UsersSaved(host, m))
    BY <1>5, <2>1, BlankedStore
  <2>3. \A n, ks : BaseFacts(h2, n, ks) = BaseFacts(host, n, ks)
    BY <2>1, BlankedStore
  <2> QED
    BY <2>2, <2>3 DEF f
<1>15. /\ Consistent(h2, m2)
       /\ UsersSaved(h2, m2) <=> UsersSaved(h2, m)
       /\ \A e : e \in BaseFacts(h2, m2, keys) <=>
              \/ e \in BaseFacts(h2, m, keys)
              \/ \E d \in D : e = <<"dir", d>>
              \/ \E f \in F : e = <<"file", f>>
  <2>1. F # {} => UsersSaved(h2, m) /\ \A f \in F : f[1] \in DOMAIN m[UserInfo]
    BY <1>14 DEF m
  <2>2. Registers(m[FileMappings], D, F, version)
    BY DEF m
  <2>3. Consistent(h2, m2) /\ (UsersSaved(h2, m2) <=> UsersSaved(h2, m))
    BY <1>2, <1>14, <2>1, <2>2, RegisteredMore
  <2>4. \A ks : MoreFacts(BaseFacts(h2, m, ks), D, F, BaseFacts(h2, m2, ks))
    BY <1>2, <1>14, <2>1, <2>2, RegisteredMore
  <2> QED
    BY <2>3, <2>4 DEF MoreFacts
<1>16. \A e : e \in BaseFacts(h2, m2, keys) \cup Gives(w) \cup {Saved} <=>
                  e \in BaseFacts(host, m, keys) \cup Gives(s) \cup {Saved}
    BY <1>8, <1>14, <1>15
<1>17. BaseFacts(h2, m2, keys) \cup Gives(w) \cup {Saved} =
           BaseFacts(host, m, keys) \cup Gives(s) \cup {Saved}
    BY <1>16
<1>18. Loaded(h2, user[p], m2, hold[p], t2, keys)
  <2>1. /\ s.do \notin {"begin", "unlock", "quit", "learn"} /\ t # <<>>
        /\ DOMAIN m[UserInfo] \subseteq DOMAIN m2[UserInfo]
        /\ UsersSaved(h2, m2) <=> UsersSaved(host, m) /\ ~SavesUsers(s)
    BY <1>9, <1>10, <1>14, <1>15 DEF t
  <2> QED
    BY <1>1, <1>4, <1>7, <1>8, <1>9, <1>12, <1>13, <1>15, <1>17, <2>1, LoadedExchanged
<1> QED
  <2>1. Loaded(host', user'[p], mem'[p], hold'[p], todo'[p], keys')
    BY <1>1, <1>18 DEF h2, m2
  <2> QED
    BY <1>1, <1>3, <2>1, RecoveryOfLoaded

\* A directory is registered.
LEMMA RegisterDirectoryRecovers ==
    ASSUME IInv, RInv, NEW p \in Proc, RegisterDirectory(p)
    PROVE  RInv'
<1> DEFINE d == File(p)
           s == Op(p)
           old == mem[p][FileMappings]
           version == [old EXCEPT !.dirs = old.dirs \cup {d}]
           D == {d}
           F == {}
<1>1. /\ s.do = "register dir" /\ todo[p] # <<>> /\ s.file = d
      /\ host' = Set(FileMappings, Blank)
      /\ Expand(p, <<On("put", FileMappings)>>)
      /\ UNCHANGED <<keys, user, key, cwd, hold>>
    BY DEF RegisterDirectory, At, Op, File
<1>2. mem' = [mem EXCEPT ![p][FileMappings] = version]
    BY DEF RegisterDirectory
<1>3. Registers(old, D, F, version)
  <2>1. MappingsOK(old)
    BY ProcessFacts
  <2> QED
    BY <2>1 DEF MappingsOK, Registers
<1>4. Gives(s) = {<<"dir", d>>}
    BY <1>1, PlainStep DEF Gives, LearnsUser
<1>5. \A e : e \in Gives(s) <=> \/ \E x \in D : e = <<"dir", x>>
                               \/ \E x \in F : e = <<"file", x>>
    BY <1>4
<1>6. F = {}
    OBVIOUS
<1> HIDE DEF version, D, F, s
<1> QED
    BY <1>1, <1>2, <1>3, <1>5, <1>6, RegistrationRecovers DEF s

\* A file is registered, whose owner is saved.
LEMMA RegisterFileRecovers ==
    ASSUME IInv, RInv, NEW p \in Proc, RegisterFile(p)
    PROVE  RInv'
<1> DEFINE f == File(p)
           s == Op(p)
           old == mem[p][FileMappings]
           version == [old EXCEPT !.files = old.files \cup {f}]
           D == {}
           F == {f}
<1>1. /\ s.do = "register file" /\ todo[p] # <<>> /\ s.file = f
      /\ host' = Set(FileMappings, Blank)
      /\ Expand(p, <<On("put", FileMappings)>>)
      /\ UNCHANGED <<keys, user, key, cwd, hold>>
    BY DEF RegisterFile, At, Op, File
<1>2. mem' = [mem EXCEPT ![p][FileMappings] = version]
    BY DEF RegisterFile
<1>3. Registers(old, D, F, version)
  <2>1. MappingsOK(old)
    BY ProcessFacts
  <2> QED
    BY <2>1 DEF MappingsOK, Registers
<1>4. Gives(s) = {<<"file", f>>}
    BY <1>1, PlainStep DEF Gives, LearnsUser
<1>5. \A e : e \in Gives(s) <=> \/ \E x \in D : e = <<"dir", x>>
                               \/ \E x \in F : e = <<"file", x>>
    BY <1>4
<1>6. Loaded(host, user[p], mem[p], hold[p], todo[p], keys)
    BY <1>1, AtLoaded
<1>7. Needs(s, Facts(host, mem[p], todo[p], keys), Len(keys))
    BY <1>1, <1>6, LoadedFacts DEF Op
<1>8. UsersSaved(host, mem[p]) /\ f[1] \in DOMAIN mem[p][UserInfo]
  <2>1. {<<"user", f[1]>>, Saved} \subseteq Facts(host, mem[p], todo[p], keys)
    BY <1>1, <1>7 DEF Needs
  <2> QED
    BY <2>1, FactsAre
<1>9. \A x \in F : x[1] \in DOMAIN mem[p][UserInfo]
    BY <1>8
<1> HIDE DEF version, D, F, s
<1> QED
    BY <1>1, <1>2, <1>3, <1>5, <1>8, <1>9, RegistrationRecovers DEF s

-----------------------------------------------------------------------------
(* Steps that are replaced by others, and steps that throw *)

\* The copies that are left are brought up to date.
LEMMA LoadedExpanded ==
    ASSUME NEW h, NEW u, NEW m, NEW hd, NEW t, NEW ks, Loaded(h, u, m, hd, t, ks),
           t # <<>>, Head(t).do = "copies", NEW A, A = Facts(h, m, t, ks),
           NEW e, Quietly(e, A, {}, ks)
    PROVE  Loaded(h, u, m, hd, e \o Tail(t), ks)
<1> DEFINE s == Head(t)
           r == Tail(t)
           t2 == e \o r
           Q == QueuedStep(ks)
<1>1. /\ t \in Seq(AnyStep(ks)) /\ r \in Seq(Q) /\ Consistent(h, m) /\ PlanOK(h, m, t, ks)
    BY LoadedFacts
<1>2. /\ e \in Seq(Q) /\ Feasible(e, A, Len(ks)) /\ ReadsBack(e) /\ GivenBy(e) = {}
      /\ e # <<>> => ~ReadsSecrets(Head(e))
      /\ ~Learns(e) /\ ~Ends(e)
    BY DEF Quietly, Does
<1>3. /\ Gives(s) = {} /\ ~SavesUsers(s) /\ ~PutsSecrets(s) /\ s.do = "copies"
    BY OtherGives
<1>4. /\ Saves(t) <=> Saves(r)
      /\ Learns(t) <=> Learns(r)
      /\ Ends(t) <=> Ends(r)
    BY <1>1, <1>3, RestFacts
<1>5. /\ Saves(t2) <=> Saves(e) \/ Saves(r)
      /\ Learns(t2) <=> Learns(r)
      /\ Ends(t2) <=> Ends(r)
    BY <1>1, <1>2, ConcatFacts
<1>6. Feasible(r, A, Len(ks))
  <2>1. Feasible(t, A, Len(ks))
    BY <1>1 DEF PlanOK
  <2>2. Feasible(r, A \cup Gives(s), Len(ks))
    BY <1>1, <2>1, FeasibleRest
  <2>3. A \cup Gives(s) = A
    BY <1>3
  <2> QED
    BY <2>2, <2>3
<1>7. ReadsBack(r) /\ (r # <<>> => ~ReadsSecrets(Head(r)))
  <2>1. ReadsBack(t)
    BY <1>1 DEF PlanOK
  <2> QED
    BY <1>1, <1>3, <2>1, ReadsBackRest
<1>8. Feasible(t2, A, Len(ks))
  <2>1. A \cup GivenBy(e) = A
    BY <1>2
  <2>2. Feasible(r, A \cup GivenBy(e), Len(ks))
    BY <1>6, <2>1
  <2> HIDE DEF r, Q
  <2> QED
    BY <1>1, <1>2, <2>2, FeasibleConcat
<1>9. ReadsBack(t2)
  <2>1. r # <<>> => ~ReadsSecrets(r[1])
    BY <1>1, <1>7, UnconsFacts
  <2> HIDE DEF r, Q
  <2> QED
    BY <1>1, <1>2, <1>7, <2>1, ReadsBackConcat
<1>10. Facts(h, m, t2, ks) = A
    BY <1>4, <1>5 DEF Facts
<1>11. t2 \in Seq(Q)
    BY <1>1, <1>2, ConcatProperties
<1>12. t2 # <<>> => ~ReadsSecrets(Head(t2))
  <2>1. CASE e = <<>>
    <3>1. t2 = r
      BY <1>1, <2>1
    <3> QED
      BY <1>7, <3>1
  <2>2. CASE e # <<>>
    <3>1. Head(t2) = Head(e)
      BY <1>1, <1>2, <2>2
    <3> QED
      BY <1>2, <2>2, <3>1
  <2> QED
    BY <2>1, <2>2
<1> HIDE DEF t2, r, s
<1>13. Handling(t2, ks)
    BY <1>11, QueuedHandling
<1>14. t2 # <<>> => HeadOK(h, m, hd, Head(t2))
    BY <1>11, <1>12, UnconsFacts, QueuedHead
<1>15. PlanOK(h, m, t2, ks)
  <2>1. Learns(t) => Saves(t)
    BY <1>1 DEF PlanOK
  <2>2. UsersSaved(h, m) \/ Saves(t)
    BY <1>1 DEF PlanOK
  <2> QED
    BY <1>4, <1>5, <1>8, <1>9, <1>10, <2>1, <2>2 DEF PlanOK
<1>16. IF u = NoUser THEN Ends(t2) ELSE {u, Admin} \subseteq DOMAIN m[UserInfo]
    BY <1>4, <1>5 DEF Loaded
<1>17. Loaded(h, u, m, hd, t2, ks)
    BY <1>1, <1>13, <1>14, <1>15, <1>16 DEF Loaded
<1> QED
    BY <1>17 DEF t2, r

\* One of the copies that are left is brought up to date.
LEMMA NextCopyRecovers ==
    ASSUME IInv, RInv, NEW p \in Proc, NextCopy(p)
    PROVE  RInv'
<1> DEFINE s == Op(p)
           f == File(p)
           m == mem[p]
           t == todo[p]
           A == Facts(host, m, t, keys)
<1>1. /\ s.do = "copies" /\ t # <<>> /\ s = Head(t) /\ s.file = f /\ Running(p)
      /\ UNCHANGED <<host, keys, user, mem, hold>>
    BY DEF NextCopy, At, Op, File, Running, hostVars
<1>2. PICK dst \in s.left :
          Expand(p, replicateFile(f, dst, dst \in knownFiles(p), "nobody")
                    \o replicateTo(f, s.left \ {dst}))
    BY DEF NextCopy
<1> DEFINE e == replicateFile(f, dst, dst \in knownFiles(p), "nobody")
                    \o replicateTo(f, s.left \ {dst})
<1>3. todo'[p] = e \o Tail(t)
    BY <1>2 DEF Expand, IInv, Shape
<1>4. StepBy(p)
    BY <1>2 DEF NextCopy, Expand, StepBy, IInv, Shape
<1>5. Loaded(host, user[p], m, hold[p], t, keys)
    BY <1>1, AtLoaded
<1>6. Consistent(host, m) /\ s \in AnyStep(keys)
    BY <1>1, <1>5, LoadedFacts
<1>7. f \in TreeFile /\ s.left \subseteq TreeFile
    BY <1>1, <1>6, StepFacts
<1>8. dst \in knownFiles(p) => <<"user", dst[1]>> \in A
    BY <1>6, FactsAre DEF Consistent, Owned, knownFiles
<1>9. Quietly(e, A, {}, keys)
  <2>1. "nobody" \in Catcher /\ "nobody" # "command"
    BY DEF Catcher
  <2>2. (dst \in knownFiles(p)) \in BOOLEAN
    OBVIOUS
  <2> HIDE DEF A, f
  <2>3. Quietly(replicateFile(f, dst, dst \in knownFiles(p), "nobody"), A, {}, keys)
    BY <1>7, <1>8, <2>1, <2>2, QuietlyReplicate
  <2>4. Quietly(replicateTo(f, s.left \ {dst}), A, {}, keys)
    BY <1>7, QuietlyReplicateTo
  <2> QED
    BY <2>3, <2>4, QuietlyBoth
<1> HIDE DEF e, m, t
<1>10. Loaded(host, user[p], m, hold[p], e \o Tail(t), keys)
    BY <1>1, <1>5, <1>9, LoadedExpanded
<1> QED
  <2>1. Loaded(host', user'[p], mem'[p], hold'[p], todo'[p], keys')
    BY <1>1, <1>3, <1>10 DEF m
  <2> QED
    BY <1>1, <1>4, <2>1, RecoveryOfLoaded

\* An exception: past the encryption, back to the prompt with the users saved,
\* or the death of the process.
LEMMA ThrowRecovers ==
    ASSUME IInv, RInv, NEW p \in Proc, todo[p] # <<>>, Op(p).do \in {"read", "fetch"},
           Throw(p, Op(p).catcher), UNCHANGED <<host, keys>>
    PROVE  RInv'
<1> DEFINE s == Op(p)
           m == mem[p]
           t == todo[p]
<1>1. Running(p) /\ Loaded(host, user[p], m, hold[p], t, keys)
    BY AtLoaded
<1>2. Consistent(host, m) /\ Needs(s, Facts(host, m, t, keys), Len(keys))
    BY <1>1, LoadedFacts DEF Op
<1>3. CASE s.catcher = "persist"
  <2>1. /\ Done(p) /\ Hold(p, Empty) /\ UNCHANGED <<user, key, cwd, mem>>
    BY <1>3 DEF Throw
  <2>2. StepBy(p) /\ todo'[p] = Tail(t) /\ user'[p] = user[p] /\ mem'[p] = m /\ keys' = keys
        /\ host' = host
    BY <2>1 DEF Done, Hold, StepBy, IInv, Shape
  <2>3. /\ Gives(s) = {} /\ ~SavesUsers(s) /\ ~PutsSecrets(s)
        /\ s.do \notin {"begin", "unlock", "quit"}
    BY OtherGives
  <2> HIDE DEF s
  <2> QED
    BY <1>1, <1>2, <2>2, <2>3, RestRecovers DEF s
<1>4. CASE s.catcher = "command"
  <2>1. /\ todo' = [todo EXCEPT ![p] = <<>>] /\ Hold(p, Empty) /\ UNCHANGED <<user, key, cwd, mem>>
    BY <1>4 DEF Throw
  <2>2. StepBy(p) /\ todo'[p] = <<>> /\ user'[p] = user[p] /\ mem'[p] = m /\ keys' = keys
        /\ host' = host
    BY <2>1 DEF Hold, StepBy, IInv, Shape
  <2>3. user[p] # NoUser
    BY <1>4, HandlingFacts, UnattendedRest DEF Tame, Op
  <2>4. {user[p], Admin} \subseteq DOMAIN m[UserInfo]
    BY <1>1, <2>3 DEF Loaded
  <2>5. UsersSaved(host, m)
    BY <1>2, <1>4, FactsAre DEF Needs
  <2>6. /\ Does(<<>>, Facts(host, m, <<>>, keys), {}, keys) /\ ~Learns(<<>>)
    BY DoesNothing
  <2>7. Loaded(host, user[p], m, hold'[p], <<>>, keys)
    <3> HIDE DEF m
    <3> QED
      BY <1>2, <2>3, <2>4, <2>5, <2>6, LoadedHandler
  <2> QED
    BY <1>1, <2>2, <2>7, RecoveryOfLoaded
<1>5. CASE s.catcher = "nobody"
  <2>1. Gone(p)
    BY <1>5 DEF Throw
  <2> QED
    BY <1>1, <2>1, RecoveryOfGone
<1> QED
    BY <1>3, <1>4, <1>5 DEF Throw

\* The source of a copy is read, or does not open.
LEMMA FetchRecovers ==
    ASSUME IInv, RInv, NEW p \in Proc, Fetch(p)
    PROVE  RInv'
<1> DEFINE s == Op(p)
<1>1. /\ s.do = "fetch" /\ todo[p] # <<>> /\ UNCHANGED <<host, keys>>
      /\ \/ Done(p) /\ UNCHANGED <<user, key, cwd, mem>> /\ \E text : Hold(p, text)
         \/ Throw(p, s.catcher)
    BY DEF Fetch, At, Op, hostVars
<1>2. CASE Throw(p, s.catcher)
    BY <1>1, <1>2, ThrowRecovers
<1>3. CASE Done(p) /\ UNCHANGED <<user, key, cwd, mem>> /\ \E text : Hold(p, text)
  <2>1. StepBy(p) /\ todo'[p] = Tail(todo[p]) /\ user'[p] = user[p] /\ mem'[p] = mem[p]
        /\ keys' = keys /\ host' = host
    BY <1>1, <1>3 DEF Done, Hold, StepBy, IInv, Shape
  <2>2. Loaded(host, user[p], mem[p], hold[p], todo[p], keys)
    BY <1>1, AtLoaded
  <2>3. Consistent(host, mem[p])
    BY <1>1, <2>2, LoadedFacts DEF Op
  <2>4. /\ Gives(s) = {} /\ ~SavesUsers(s) /\ ~PutsSecrets(s)
        /\ s.do \notin {"begin", "unlock", "quit"}
    BY <1>1, OtherGives
  <2> HIDE DEF s
  <2> QED
    BY <1>1, <2>1, <2>2, <2>3, <2>4, RestRecovers DEF s
<1> QED
    BY <1>1, <1>2, <1>3

\* A table of users that is what it was.
LEMMA SameMemory ==
    ASSUME NEW h, NEW m, NEW m2, Remembers(m, UserInfo, m[UserInfo], m2)
    PROVE  /\ Consistent(h, m) => Consistent(h, m2)
           /\ UsersSaved(h, m2) <=> UsersSaved(h, m)
           /\ m2[UserInfo] = m[UserInfo] /\ m2[AdminKeys] = m[AdminKeys]
<1>1. /\ m2[UserInfo] = m[UserInfo] /\ m2[FileMappings] = m[FileMappings]
      /\ m2[SharedInfo] = m[SharedInfo] /\ m2[AdminKeys] = m[AdminKeys]
    BY StoreNames DEF Remembers
<1>2. Consistent(h, m) => Consistent(h, m2)
    BY <1>1 DEF Consistent
<1>3. UsersSaved(h, m2) <=> UsersSaved(h, m)
    BY <1>1 DEF UsersSaved
<1> QED
    BY <1>1, <1>2, <1>3

\* The first half of secureFile: no public key is missing.
LEMMA ReadRecovers ==
    ASSUME IInv, RInv, NEW p \in Proc, Read(p)
    PROVE  RInv'
<1> DEFINE s == Op(p)
           f == File(p)
           u == s.for
           m == mem[p]
           t == todo[p]
           m2 == mem'[p]
           A == Facts(host, m, t, keys)
           table == [v \in knownUsers(p) \cup {u} |-> publicKey(p, v)]
<1>1. /\ s.do = "read" /\ t # <<>> /\ s = Head(t) /\ s.file = f /\ Running(p)
      /\ UNCHANGED <<host, keys>>
    BY DEF Read, At, Op, File, Running, hostVars
<1>2. Loaded(host, user[p], m, hold[p], t, keys)
    BY <1>1, AtLoaded
<1>3. /\ t \in Seq(AnyStep(keys)) /\ Tail(t) \in Seq(QueuedStep(keys))
      /\ Consistent(host, m) /\ s \in AnyStep(keys) /\ Needs(s, A, Len(keys))
      /\ HeadOK(host, m, hold[p], s)
    BY <1>1, <1>2, LoadedFacts
<1>4. f \in Sensitive /\ u \in User /\ u = Owner(f)
    BY <1>1, <1>3, StepFacts
<1>5. u \in knownUsers(p)
    BY <1>1, <1>3, FactsAre DEF Needs, knownUsers
<1>6. table = m[UserInfo]
  <2>1. KeyTableOK(m[UserInfo], keys)
    BY ProcessFacts
  <2>2. m[UserInfo] = [v \in DOMAIN m[UserInfo] |-> m[UserInfo][v]]
    BY <2>1 DEF KeyTableOK
  <2>3. DOMAIN table = DOMAIN m[UserInfo] /\ \A v \in DOMAIN m[UserInfo] : table[v] = m[UserInfo][v]
    BY <1>5 DEF knownUsers, publicKey
  <2> QED
    BY <2>2, <2>3
<1>7. /\ Gives(s) = {} /\ ~SavesUsers(s) /\ ~PutsSecrets(s)
      /\ s.do \notin {"begin", "unlock", "quit", "learn"}
    BY <1>1, OtherGives
<1>8. CASE Throw(p, s.catcher)
    BY <1>1, <1>8, ThrowRecovers
<1>9. CASE /\ IF f \in DOMAIN host THEN Expand(p, Replace(f, u)) /\ Hold(p, ReadPlain(f))
                                   ELSE Done(p) /\ Hold(p, Empty)
           /\ Memory(p, UserInfo, table)
           /\ UNCHANGED <<user, key, cwd>>
  <2>1. Memory(p, UserInfo, m[UserInfo])
    BY <1>6, <1>9
  <2>2. /\ Remembers(m, UserInfo, m[UserInfo], m2)
        /\ DOMAIN mem' = Proc /\ \A q \in Proc \ {p} : mem'[q] = mem[q]
    BY <2>1, StoreNames, MemoryRemembers
  <2>3. StepBy(p) /\ user'[p] = user[p]
    BY <1>9, <2>2 DEF Expand, Done, Hold, StepBy, IInv, Shape
  <2>4. Consistent(host, m2) /\ (UsersSaved(host, m2) <=> UsersSaved(host, m))
    BY <1>3, <2>2, SameMemory
  <2>5. BaseFacts(host, m2, keys) = BaseFacts(host, m, keys)
    <3>1. m2[UserInfo] = m[UserInfo] /\ m2[FileMappings] = m[FileMappings]
      BY <2>2, StoreNames DEF Remembers
    <3> HIDE DEF m, m2
    <3> QED
      BY <3>1 DEF BaseFacts
  <2>6. m2[UserInfo] = m[UserInfo] /\ m2[AdminKeys] = m[AdminKeys]
    BY <2>2, SameMemory
  <2>7. CASE f \notin DOMAIN host
    <3>1. todo'[p] = Tail(t)
      BY <1>9, <2>7 DEF Done, IInv, Shape
    <3>2. /\ Consistent(host', m2) /\ DOMAIN m[UserInfo] \subseteq DOMAIN m2[UserInfo]
          /\ BaseFacts(host', m2, keys) = BaseFacts(host, m, keys)
          /\ UsersSaved(host', m2) <=> UsersSaved(host, m)
      BY <1>1, <2>4, <2>5, <2>6
    <3> HIDE DEF s
    <3> QED
      BY <1>1, <1>2, <1>7, <2>3, <3>1, <3>2, RestRecovers DEF s
  <2>8. CASE f \in DOMAIN host
    <3> DEFINE put == [do |-> "seal", file |-> f, for |-> u]
               w == Opening(f, put)
               t2 == <<w>> \o Tail(t)
               text == ReadPlain(f)
    <3>1. todo'[p] = t2 /\ hold'[p] = text
      BY <1>9, <2>8 DEF Expand, Hold, Replace, IInv, Shape
    <3>2. /\ w.do = "open" /\ w.file = f /\ w.write = put
          /\ put.do = "seal" /\ put \in SealStep
      BY <1>4 DEF Opening, SealStep
    <3>3. f \in HostFile
      BY <1>4, FileKinds, StoreNames DEF Sensitive
    <3>4. w \in OpenStep(SealStep)
      BY <3>2, <3>3 DEF OpenStep, Opening
    <3>5. w \in AnyStep(keys)
      BY <3>4 DEF AnyStep
    <3> HIDE DEF put, w
    <3>6. Seals(w)
      BY <3>2 DEF Seals
    <3>7. /\ SealsSecrets(w) <=> f = AdminKeys
          /\ Gives(w) = {} /\ ~SavesUsers(w) /\ ~PutsSecrets(w) /\ ~MakesKey(w)
          /\ ~ReadsSecrets(w) /\ ~LearnsUser(w)
      BY <3>2, <3>6, SealGives
    <3>8. ReadsSecrets(s) <=> f = AdminKeys
      BY <1>1 DEF ReadsSecrets
    <3>9. HeadOK(host, m2, text, w)
      <4>1. f = AdminKeys => text = m[AdminKeys]
        <5>1. f = AdminKeys => host[f] = Plaintext(m[AdminKeys])
          BY <1>3, <3>8 DEF HeadOK
        <5> QED
          BY <5>1 DEF ReadPlain, Plaintext
      <4> QED
        BY <2>6, <3>2, <3>7, <4>1 DEF HeadOK
    <3>10. /\ Saved \in Facts(host, m2, t2, keys) <=> UsersSaved(host, m2) /\ ~Learns(t)
      <4> HIDE DEF m2, t
      <4> QED
        BY <1>1, <1>3, <1>7, <3>2, <3>5, FactsOfHead
    <3>11. f = AdminKeys => Saved \in Facts(host, m2, t2, keys)
      <4>1. f = AdminKeys => Saved \in A
        BY <1>3, <3>8 DEF Needs
      <4>2. Saved \in A <=> UsersSaved(host, m) /\ ~Learns(t)
        BY FactsAre
      <4> QED
        BY <2>4, <3>10, <4>1, <4>2
    <3>12. Needs(w, Facts(host, m2, t2, keys), Len(keys)) /\ w.do # "learn"
      BY <3>2, <3>7, <3>11 DEF Needs
    <3>13. /\ BaseFacts(host, m2, keys) \cup Gives(w) \cup {Saved} =
                  BaseFacts(host, m, keys) \cup Gives(s) \cup {Saved}
           /\ DOMAIN m[UserInfo] \subseteq DOMAIN m2[UserInfo]
      BY <1>7, <2>5, <2>6, <3>7
    <3>14. Loaded(host, user[p], m2, text, t2, keys)
      <4> HIDE DEF s, f, u, m, t, m2, A, text
      <4> QED
        BY <1>1, <1>2, <1>7, <2>4, <3>5, <3>7, <3>9, <3>12, <3>13, LoadedExchanged
    <3> QED
      <4>1. Loaded(host', user'[p], mem'[p], hold'[p], todo'[p], keys')
        BY <1>1, <2>3, <3>1, <3>14
      <4> QED
        BY <1>1, <2>3, <4>1, RecoveryOfLoaded
  <2> QED
    BY <2>7, <2>8
<1> QED
    BY <1>8, <1>9 DEF Read

-----------------------------------------------------------------------------
(* The stores are read *)

\* A process that knows who wants to use it: the stores on the disk are those
\* in its memory.
LEMMA AtBeginning ==
    ASSUME IInv, RInv, NEW p \in Proc, At(p, "begin") \/ At(p, "unlock")
    PROVE  /\ Running(p) /\ todo[p] = <<Op(p)>>
           /\ Consistent(host, mem[p]) /\ UsersSaved(host, mem[p])
           /\ Homed(mem[p][FileMappings], mem[p][UserInfo])
           /\ user[p] # NoUser => {user[p], Admin} \subseteq knownUsers(p)
           /\ At(p, "unlock") => user[p] # NoUser
<1> DEFINE s == Op(p)
           m == mem[p]
           t == todo[p]
<1>1. t # <<>> /\ s.do \in {"begin", "unlock"} /\ s = Head(t)
    BY DEF At, Op
<1>2. Running(p) /\ Loaded(host, user[p], m, hold[p], t, keys)
    BY <1>1, AtLoaded
<1>3. Consistent(host, m) /\ PlanOK(host, m, t, keys) /\ Handling(t, keys)
    BY <1>2 DEF Loaded
<1>4. t \notin Seq(AnyStep(keys))
  <2>1. ASSUME t \in Seq(AnyStep(keys)) PROVE FALSE
    <3>1. s \in AnyStep(keys)
      BY <1>1, <2>1, UnconsFacts
    <3> QED
      BY <1>1, <3>1, StepFacts
  <2> QED
    BY <2>1
<1>5. t = <<s>>
  <2>1. CASE t = <<On("unlock", AdminKeys)>>
    BY <1>1, <2>1
  <2>2. CASE \E f \in KeyPairFile : t = <<On("begin", f)>>
    BY <1>1, <2>2
  <2> QED
    BY <1>1, <1>3, <1>4, <2>1, <2>2 DEF Handling
<1>6. UsersSaved(host, m)
  <2>1. ~SavesUsers(s)
    BY <1>1, EasySteps
  <2>2. ~Saves(<<s>>)
    BY <2>1, StepsOfOne DEF Saves
  <2> QED
    BY <1>3, <1>5, <2>2 DEF PlanOK
<1>7. Homed(m[FileMappings], m[UserInfo])
    BY <1>3, <1>6 DEF Consistent, MappingsFit, UsersSaved
<1>8. user[p] # NoUser => {user[p], Admin} \subseteq knownUsers(p)
    BY <1>2 DEF Loaded, knownUsers
<1>9. At(p, "unlock") => user[p] # NoUser
    BY StartingFacts, StartFacts DEF At, Op
<1> QED
    BY <1>2, <1>3, <1>5, <1>6, <1>7, <1>8, <1>9

\* A handler is entered.
LEMMA EnteringRecovers ==
    ASSUME RInv, NEW p \in Proc, Running(p), StepBy(p), host' = host, mem'[p] = mem[p],
           NEW t, todo'[p] = t, NEW ks, keys' = ks, NEW G,
           Does(t, Facts(host, mem[p], t, ks), G, ks), Learns(t) => Saved \in G,
           UsersSaved(host, mem[p]) \/ Saved \in G, Consistent(host, mem[p]),
           IF user'[p] = NoUser THEN Ends(t) ELSE {user'[p], Admin} \subseteq knownUsers(p)
    PROVE  RInv'
<1> DEFINE m == mem[p]
           u == user'[p]
           hd == hold'[p]
<1>1. IF u = NoUser THEN Ends(t) ELSE {u, Admin} \subseteq DOMAIN m[UserInfo]
    BY DEF knownUsers
<1>2. Loaded(host, u, m, hd, t, ks)
  <2>1. /\ Does(t, Facts(host, m, t, ks), G, ks) /\ Consistent(host, m)
        /\ UsersSaved(host, m) \/ Saved \in G
    OBVIOUS
  <2> HIDE DEF m, u, hd
  <2> QED
    BY <1>1, <2>1, LoadedHandler
<1> QED
    BY <1>2, RecoveryOfLoaded

\* A keyfile that fits nobody: the destructors write what was read.
LEMMA RefuseRecovers ==
    ASSUME IInv, RInv, NEW p \in Proc, Refuse(p)
    PROVE  RInv'
<1> DEFINE t == Destroy(FALSE)
           m == mem[p]
           A == Facts(host, m, t, keys)
<1>1. At(p, "begin") /\ host' = host /\ keys' = keys /\ mem'[p] = m /\ todo'[p] = t
      /\ StepBy(p) /\ user' = user
    BY DEF Refuse, StepBy, IInv, Shape, hostVars
<1>2. /\ Running(p) /\ Consistent(host, m) /\ UsersSaved(host, m)
      /\ Homed(m[FileMappings], m[UserInfo])
      /\ user[p] # NoUser => {user[p], Admin} \subseteq knownUsers(p)
    BY <1>1, AtBeginning
<1>3. Housed(A)
  <2>1. DOMAIN m[UserInfo] \subseteq User
    BY ProcessFacts DEF knownUsers
  <2> HIDE DEF t
  <2> QED
    BY <1>2, <2>1, HousedIsHomed
<1>4. Does(t, A, {Saved}, keys) /\ ~Learns(t) /\ Ends(t)
  <2> HIDE DEF A
  <2> QED
    BY <1>3, DestroyEnds
<1> HIDE DEF t
<1> QED
    BY <1>1, <1>2, <1>4, EnteringRecovers

\* A user is created by a handler, for the newest key pair.
LEMMA CreatingDoes ==
    ASSUME IInv, NEW p \in Proc, Consistent(host, mem[p]),
           Homed(mem[p][FileMappings], mem[p][UserInfo]),
           NEW u \in User, u \notin knownUsers(p), u = Admin \/ Admin \in knownUsers(p),
           keys' = Append(keys, u), NEW A, A = BaseFacts(host, mem[p], keys')
    PROVE  \E G : /\ Does(createUser(u, Len(keys')), A, G, keys')
                  /\ Saved \in G /\ Housed(A \cup G) /\ <<"user", Admin>> \in A \cup G
                  /\ Learns(createUser(u, Len(keys'))) /\ ~Ends(createUser(u, Len(keys')))
<1> DEFINE ks == keys'
           k == Len(ks)
           m == mem[p]
           t == <<On("learn", Root)>>
<1>1. k \in 1 .. Len(ks) /\ ks[k] = u
    BY AppendedKeys
<1>2. Learns(t)
    BY StepsOfOne DEF Learns, On
<1>3. Facts(host, m, t, ks) = A
    BY <1>2 DEF Facts
<1>4. /\ \A v : <<"user", v>> \in A <=> v \in DOMAIN m[UserInfo]
      /\ Saved \notin A
  <2> HIDE DEF t, m, ks
  <2> QED
    BY <1>2, <1>3, FactsAre
<1>5. Housed(A)
  <2>1. DOMAIN m[UserInfo] \subseteq User
    BY ProcessFacts DEF knownUsers
  <2>2. Homed(m[FileMappings], m[UserInfo])
    OBVIOUS
  <2> HIDE DEF t, m, ks
  <2> QED
    BY <1>3, <2>1, <2>2, HousedIsHomed
<1>6. <<"user", u>> \notin A /\ (u = Admin \/ <<"user", Admin>> \in A)
    BY <1>4 DEF knownUsers
<1> HIDE DEF ks, m, t, k
<1>7. k = Len(ks)
    BY DEF k
<1>8. \E G : /\ Does(createUser(u, k), A, G, ks)
             /\ Saved \in G /\ Housed(A \cup G) /\ <<"user", Admin>> \in A \cup G
             /\ Learns(createUser(u, k)) /\ ~Ends(createUser(u, k))
    BY <1>1, <1>4, <1>5, <1>6, <1>7, CreateUserDoes
<1> QED
    BY <1>8 DEF k, ks

\* The first run creates admin, and ends.
LEMMA FirstRunRecovers ==
    ASSUME IInv, RInv, NEW p \in Proc, FirstRun(p)
    PROVE  RInv'
<1> DEFINE ks == keys'
           m == mem[p]
           a == createUser(Admin, Len(ks))
           b == Destroy(TRUE)
           A == BaseFacts(host, m, ks)
<1>1. /\ At(p, "begin") /\ Admin \notin knownUsers(p) /\ keys' = Append(keys, Admin)
      /\ host' = host /\ mem'[p] = m /\ todo'[p] = a \o b /\ StepBy(p) /\ user' = user
    BY DEF FirstRun, StepBy, IInv, Shape, hostVars
<1>2. /\ Running(p) /\ Consistent(host, m) /\ UsersSaved(host, m)
      /\ Homed(m[FileMappings], m[UserInfo])
      /\ user[p] # NoUser => {user[p], Admin} \subseteq knownUsers(p)
    BY <1>1, AtBeginning
<1>3. user[p] = NoUser
    BY <1>1, <1>2
<1>4. \E G : /\ Does(a, A, G, ks)
             /\ Saved \in G /\ Housed(A \cup G) /\ <<"user", Admin>> \in A \cup G
             /\ Learns(a) /\ ~Ends(a)
    BY <1>1, <1>2, UserAssumption, CreatingDoes
<1>5. PICK G : /\ Does(a, A, G, ks)
               /\ Saved \in G /\ Housed(A \cup G) /\ <<"user", Admin>> \in A \cup G
               /\ Learns(a) /\ ~Ends(a)
    BY <1>4
<1>6. Does(b, A \cup G, {Saved}, ks) /\ ~Learns(b) /\ Ends(b)
  <2> DEFINE B == A \cup G
  <2>1. Housed(B) /\ <<"user", Admin>> \in B
    BY <1>5
  <2> HIDE DEF B, ks
  <2>2. Does(b, B, {Saved}, ks) /\ ~Learns(b) /\ Ends(b)
    BY <2>1, DestroyEnds
  <2> QED
    BY <2>2 DEF B
<1>7. Does(a \o b, A, G \cup {Saved}, ks) /\ Learns(a \o b) /\ Ends(a \o b)
  <2> DEFINE H == {Saved}
  <2>1. Does(b, A \cup G, H, ks)
    BY <1>6
  <2> HIDE DEF a, b, A, ks, H
  <2>2. /\ Does(a \o b, A, G \cup H, ks)
        /\ Learns(a \o b) <=> Learns(a) \/ Learns(b)
        /\ Ends(a \o b) <=> Ends(a) \/ Ends(b)
    BY <1>5, <2>1, DoesConcat
  <2> QED
    BY <1>5, <1>6, <2>2 DEF H
<1> DEFINE t == a \o b
<1>8. Facts(host, m, t, ks) = A
    BY <1>7 DEF Facts
<1> QED
  <2> DEFINE H == G \cup {Saved}
  <2>1. /\ Does(t, Facts(host, m, t, ks), H, ks) /\ Saved \in H /\ Ends(t)
        /\ todo'[p] = t /\ user'[p] = NoUser
    BY <1>1, <1>3, <1>7, <1>8
  <2> HIDE DEF t, H
  <2> QED
    BY <1>1, <1>2, <2>1, EnteringRecovers

\* A user whose key fits is logged in; admin goes on to read the private keys.
LEMMA LoginRecovers ==
    ASSUME IInv, RInv, NEW p \in Proc, Login(p)
    PROVE  RInv'
<1> DEFINE m == mem[p]
<1>1. PICK u \in Fitting(p, File(p)) :
          /\ user' = [user EXCEPT ![p] = u]
          /\ cwd'  = [cwd EXCEPT ![p] = Home(u)]
          /\ todo' = [todo EXCEPT ![p] =
                         IF u = Admin THEN <<On("unlock", AdminKeys)>> ELSE <<>>]
    BY DEF Login
<1>2. /\ At(p, "begin") /\ Admin \in knownUsers(p) /\ key' = [key EXCEPT ![p] = host[File(p)].text]
      /\ UNCHANGED <<hostVars, keys, crashes, mem, hold>>
    BY DEF Login
<1>3. /\ Running(p) /\ Consistent(host, m) /\ UsersSaved(host, m)
    BY <1>2, AtBeginning
<1>4. /\ host' = host /\ keys' = keys /\ mem'[p] = m /\ hold'[p] = hold[p]
      /\ user'[p] = u /\ StepBy(p)
      /\ todo'[p] = IF u = Admin THEN <<On("unlock", AdminKeys)>> ELSE <<>>
    BY <1>1, <1>2 DEF StepBy, IInv, Shape, hostVars
<1>5. {u, Admin} \subseteq knownUsers(p) /\ u # NoUser
  <2>1. u \in knownUsers(p)
    BY DEF Fitting
  <2>2. knownUsers(p) \subseteq User
    BY ProcessFacts
  <2> QED
    BY <1>2, <2>1, <2>2, UserAssumption
<1>6. CASE u # Admin
  <2>1. Does(<<>>, Facts(host, m, <<>>, keys), {}, keys) /\ ~Learns(<<>>)
    BY DoesNothing
  <2> QED
    BY <1>3, <1>4, <1>5, <1>6, <2>1, EnteringRecovers
<1>7. CASE u = Admin
  <2> DEFINE s == On("unlock", AdminKeys)
  <2>1. s.do = "unlock" /\ Handling(<<s>>, keys) /\ <<s>> # <<>> /\ Head(<<s>>) = s
    BY DEF On, Handling
  <2> HIDE DEF s, m
  <2>2. PlanOK(host, m, <<s>>, keys) /\ HeadOK(host, m, hold[p], s)
    BY <1>3, <2>1, EasyPlan
  <2>3. Loaded(host, u, m, hold[p], <<s>>, keys)
    BY <1>3, <1>5, <2>1, <2>2 DEF Loaded, knownUsers, m
  <2> QED
    BY <1>3, <1>4, <1>7, <2>3, RecoveryOfLoaded DEF s, m
<1> QED
    BY <1>6, <1>7

\* The private keys are read, or made if missing, or do not open.
LEMMA UnlockRecovers ==
    ASSUME IInv, RInv, NEW p \in Proc, Unlock(p)
    PROVE  RInv'
<1> DEFINE m == mem[p]
           m2 == mem'[p]
           text == host[AdminKeys].text
<1>1. /\ At(p, "unlock") /\ host' = host /\ keys' = keys
    BY DEF Unlock, hostVars
<1>2. /\ Running(p) /\ Consistent(host, m) /\ UsersSaved(host, m) /\ user[p] # NoUser
      /\ {user[p], Admin} \subseteq knownUsers(p) /\ todo[p] = <<Op(p)>>
    BY <1>1, AtBeginning
<1>3. Tail(todo[p]) = <<>>
    BY <1>2
<1>4. CASE AdminKeys \notin DOMAIN host
  <2> DEFINE t == Write(AdminKeys)
             A == Facts(host, m, t, keys)
             N == {Saved}
  <2>1. /\ todo'[p] = t \o Tail(todo[p]) /\ user' = user /\ mem' = mem /\ StepBy(p)
    BY <1>4 DEF Unlock, Expand, StepBy, IInv, Shape
  <2>2. todo'[p] = t
    <3>1. t \o <<>> = t
      BY DEF Write
    <3> HIDE DEF t
    <3> QED
      BY <1>3, <2>1, <3>1
  <2>3. ~Learns(t)
    <3>1. AdminKeys # UserInfo /\ Saved \in N /\ AdminKeys \in Store \cup TreeFile
      BY FileKinds, StoreNames
    <3> HIDE DEF N
    <3>2. Quietly(t, N, {}, keys)
      BY <3>1, QuietlyWrite
    <3> QED
      BY <3>2 DEF Quietly
  <2>4. Saved \in A
    <3> HIDE DEF t
    <3> QED
      BY <1>2, <2>3, FactsAre
  <2>5. Quietly(t, A, {}, keys)
    <3>1. AdminKeys # UserInfo /\ AdminKeys \in Store \cup TreeFile
      BY FileKinds, StoreNames
    <3> HIDE DEF A
    <3> QED
      BY <2>4, <3>1, QuietlyWrite
  <2> HIDE DEF t
  <2> QED
    BY <1>1, <1>2, <2>1, <2>2, <2>5, EnteringRecovers DEF Quietly
<1>5. CASE Gone(p)
    BY <1>1, <1>2, <1>5, RecoveryOfGone
<1>6. CASE /\ AdminKeys \in DOMAIN host /\ Opens(AdminKeys, key[p])
           /\ text \notin {Empty, Garbled}
           /\ Memory(p, AdminKeys, text) /\ Done(p) /\ UNCHANGED <<user, key, cwd, hold>>
  <2>1. /\ Remembers(m, AdminKeys, text, m2)
        /\ DOMAIN mem' = Proc /\ \A q \in Proc \ {p} : mem'[q] = mem[q]
    BY <1>6, StoreNames, MemoryRemembers
  <2>2. StepBy(p) /\ todo'[p] = <<>> /\ user'[p] = user[p]
    BY <1>3, <1>6, <2>1 DEF Done, StepBy, IInv, Shape
  <2>3. host[AdminKeys].key # Plain
    BY <1>6 DEF Opens, Blank, Plaintext
  <2>4. FitsOrNull(text, m[UserInfo])
    BY <1>2, <1>6, <2>3 DEF Consistent, UsersFit, SecretsFit
  <2>5. m2[UserInfo] = m[UserInfo]
    BY <2>1, StoreNames, FileKinds DEF Remembers
  <2> HIDE DEF m, m2, text
  <2>6. Consistent(host, m2) /\ (UsersSaved(host, m2) <=> UsersSaved(host, m))
    BY <1>2, <2>1, <2>4, LearntSecrets
  <2>7. Does(<<>>, Facts(host, m2, <<>>, keys), {}, keys) /\ ~Learns(<<>>)
    BY DoesNothing
  <2>8. {user[p], Admin} \subseteq DOMAIN m2[UserInfo]
    BY <1>2, <2>5 DEF knownUsers, m
  <2>9. Loaded(host, user[p], m2, hold'[p], <<>>, keys)
    BY <1>2, <2>6, <2>7, <2>8, LoadedHandler
  <2> QED
    BY <1>1, <1>2, <2>2, <2>9, RecoveryOfLoaded DEF m2
<1> QED
    BY <1>4, <1>5, <1>6 DEF Unlock

\* Nothing changes.
LEMMA GetlineRecovers ==
    ASSUME RInv, UNCHANGED vars
    PROVE  RInv'
    BY DEF RInv, OneRuns, Running, Fits, vars, procVars, hostVars

-----------------------------------------------------------------------------
(* Commands *)

\* At the prompt the users are saved, and their homes registered.
LEMMA PromptKnows ==
    ASSUME IInv, RInv, NEW p \in Proc, AtPrompt(p)
    PROVE  /\ Running(p) /\ user[p] # NoUser /\ todo[p] = <<>>
           /\ Loaded(host, user[p], mem[p], hold[p], <<>>, keys)
           /\ Consistent(host, mem[p]) /\ UsersSaved(host, mem[p])
           /\ Homed(mem[p][FileMappings], mem[p][UserInfo])
           /\ {user[p], Admin} \subseteq knownUsers(p)
<1> DEFINE m == mem[p]
<1>1. user[p] # NoUser /\ todo[p] = <<>> /\ Running(p)
    BY DEF AtPrompt, Running
<1>2. Loaded(host, user[p], m, hold[p], <<>>, keys)
  <2>1. Fits(p) /\ ~Loading(host, user[p], m, <<>>)
    BY <1>1 DEF RInv, Loading
  <2> QED
    BY <1>1, <2>1 DEF Fits
<1>3. Consistent(host, m) /\ PlanOK(host, m, <<>>, keys)
      /\ {user[p], Admin} \subseteq knownUsers(p)
    BY <1>1, <1>2 DEF Loaded, knownUsers
<1>4. UsersSaved(host, m)
    BY <1>3, DoesNothing DEF PlanOK
<1>5. Homed(m[FileMappings], m[UserInfo])
    BY <1>3, <1>4 DEF Consistent, MappingsFit, UsersSaved
<1> QED
    BY <1>1, <1>2, <1>3, <1>4, <1>5

\* What a command that is given at the prompt can build on.
LEMMA CommandFacts ==
    ASSUME IInv, RInv, NEW p \in Proc, AtPrompt(p),
           NEW A, A = Facts(host, mem[p], <<>>, keys)
    PROVE  /\ Saved \in A /\ Housed(A)
           /\ \A u : <<"user", u>> \in A <=> u \in knownUsers(p)
           /\ \A f : <<"file", f>> \in A <=> f \in knownFiles(p)
           /\ <<"user", user[p]>> \in A /\ <<"user", Admin>> \in A
<1> DEFINE m == mem[p]
<1>1. /\ UsersSaved(host, m) /\ Homed(m[FileMappings], m[UserInfo])
      /\ {user[p], Admin} \subseteq knownUsers(p)
    BY PromptKnows
<1>2. DOMAIN m[UserInfo] \subseteq User
    BY ProcessFacts DEF knownUsers
<1>3. A = Facts(host, m, <<>>, keys) /\ ~Learns(<<>>)
    BY DoesNothing
<1> HIDE DEF m
<1>4. Housed(A) /\ Saved \in A
    BY <1>1, <1>2, <1>3, HousedIsHomed, FactsAre
<1>5. /\ \A u : <<"user", u>> \in A <=> u \in DOMAIN m[UserInfo]
      /\ \A f : <<"file", f>> \in A <=> f \in m[FileMappings].files
    BY <1>3, FactsAre
<1> QED
    BY <1>1, <1>4, <1>5 DEF m, knownUsers, knownFiles

\* A command that learns nothing has passed its checks, and begins.
LEMMA CommandRecovers ==
    ASSUME IInv, RInv, NEW p \in Proc, AtPrompt(p), NEW t, NEW text, Enter(p, t, text),
           ~Learns(t), NEW G, Does(t, Facts(host, mem[p], <<>>, keys), G, keys)
    PROVE  RInv'
<1> DEFINE m == mem[p]
           A == Facts(host, m, <<>>, keys)
<1>1. /\ todo' = [todo EXCEPT ![p] = t] /\ keys' = keys
      /\ UNCHANGED <<hostVars, crashes, user, key, cwd, mem>>
      /\ hold' = [hold EXCEPT ![p] = text]
    BY DEF Enter, Hold
<1>2. StepBy(p) /\ todo'[p] = t /\ host' = host /\ mem'[p] = m /\ user'[p] = user[p]
    BY <1>1 DEF StepBy, IInv, Shape, hostVars
<1>3. /\ Running(p) /\ user[p] # NoUser /\ Consistent(host, m) /\ UsersSaved(host, m)
      /\ {user[p], Admin} \subseteq knownUsers(p)
    BY PromptKnows
<1>4. Facts(host, m, t, keys) = A
    BY DoesNothing DEF Facts
<1>5. Does(t, Facts(host, m, t, keys), G, keys)
    BY <1>4
<1> HIDE DEF A
<1> QED
    BY <1>1, <1>2, <1>3, <1>5, EnteringRecovers

\* The commands one by one: the directory is changed.
LEMMA CdRecovers ==
    ASSUME IInv, RInv, NEW p \in Proc, NEW dir, Cd(p, dir)
    PROVE  RInv'
<1>1. /\ AtPrompt(p) /\ cwd' = [cwd EXCEPT ![p] = dir]
      /\ UNCHANGED <<hostVars, keys, crashes, user, key, mem, hold, todo>>
    BY DEF Cd
<1>2. StepBy(p)
    BY <1>1 DEF StepBy, IInv, Shape
<1>3. /\ Running(p) /\ todo[p] = <<>>
      /\ Loaded(host, user[p], mem[p], hold[p], <<>>, keys)
    BY <1>1, PromptKnows
<1>4. Loaded(host', user'[p], mem'[p], hold'[p], todo'[p], keys')
    BY <1>1, <1>3 DEF hostVars
<1> QED
    BY <1>2, <1>3, <1>4, RecoveryOfLoaded

\* A file is registered, written and encrypted.
LEMMA MkfileCreateRecovers ==
    ASSUME IInv, RInv, NEW p \in Proc, NEW name \in Name, NEW content,
           MkfileCreate(p, name, content)
    PROVE  RInv'
<1> DEFINE path == Append(cwd[p], name)
           a == registerFile(path)
           b == generateFile(path, user[p], "command")
           A == Facts(host, mem[p], <<>>, keys)
           G == {<<"file", path>>}
           B == A \cup G
<1>1. MayCreateHere(p) /\ AtPrompt(p) /\ Enter(p, a \o b, content)
    BY DEF MkfileCreate, MayCreateHere
<1>2. path \in TreeFile /\ fetchOwner(path) = user[p]
    BY <1>1, PathsHere
<1>3. path[1] = user[p]
    BY <1>2, FileKinds
<1>4. Saved \in A /\ <<"user", path[1]>> \in A
  <2> HIDE DEF A
  <2>1. A = Facts(host, mem[p], <<>>, keys)
    BY DEF A
  <2> QED
    BY <1>1, <1>3, <2>1, CommandFacts
<1>5. Saved \in B /\ <<"user", path[1]>> \in B
    BY <1>4
<1>6. Quietly(a, A, G, keys)
  <2> HIDE DEF A
  <2>1. {<<"user", path[1]>>, Saved} \subseteq A
    BY <1>4
  <2> QED
    BY <1>2, <2>1, QuietlyRegister
<1> HIDE DEF path
<1>7. Quietly(b, B, {}, keys)
  <2> HIDE DEF B
  <2>1. "command" \in Catcher
    BY DEF Catcher
  <2>2. Quietly(generateFile(path, fetchOwner(path), "command"), B, {}, keys)
    BY <1>2, <1>5, <2>1, QuietlyGenerate
  <2> QED
    BY <1>2, <2>2
<1>8. Quietly(a \o b, A, G, keys)
  <2>1. G = G \cup {} /\ B = A \cup G
    OBVIOUS
  <2> HIDE DEF a, b, A, B, G
  <2>2. Quietly(b, A \cup G, {}, keys)
    BY <1>7, <2>1
  <2> QED
    BY <1>6, <2>1, <2>2, QuietlyConcat
<1> DEFINE t == a \o b
<1>9. Enter(p, t, content) /\ ~Learns(t) /\ Does(t, A, G, keys)
    BY <1>1, <1>8 DEF Quietly
<1> HIDE DEF t, G
<1> QED
    BY <1>1, <1>9, CommandRecovers

\* A file and its copies are written and encrypted again.
LEMMA MkfileOverwriteRecovers ==
    ASSUME IInv, RInv, NEW p \in Proc, NEW name \in Name, NEW content,
           MkfileOverwrite(p, name, content)
    PROVE  RInv'
<1> DEFINE path == Append(cwd[p], name)
           copies == listSharedFiles(p, path)
           a == generateFile(path, user[p], "nobody")
           b == replicateTo(path, copies)
           A == Facts(host, mem[p], <<>>, keys)
<1>1. MayCreateHere(p) /\ AtPrompt(p) /\ Enter(p, a \o b, content)
    BY DEF MkfileOverwrite, MayCreateHere
<1>2. path \in TreeFile /\ fetchOwner(path) = user[p]
    BY <1>1, PathsHere
<1>3. copies \in SUBSET TreeFile
  <2>1. SharedInfo \in Store
    BY DEF Store
  <2>2. knownLinks(p) \subseteq TreeFile \X TreeFile
    BY <2>1, ProcessFacts DEF MemOK, StoreOK, knownLinks
  <2> QED
    BY <2>2 DEF listSharedFiles
<1>4. <<"user", path[1]>> \in A
  <2>1. path[1] = user[p]
    BY <1>2, FileKinds
  <2> HIDE DEF A
  <2>2. A = Facts(host, mem[p], <<>>, keys)
    BY DEF A
  <2> QED
    BY <1>1, <2>1, <2>2, CommandFacts
<1> HIDE DEF path, copies
<1>5. Quietly(a, A, {}, keys)
  <2> HIDE DEF A
  <2>1. "nobody" \in Catcher
    BY DEF Catcher
  <2>2. Quietly(generateFile(path, fetchOwner(path), "nobody"), A, {}, keys)
    BY <1>2, <1>4, <2>1, QuietlyGenerate
  <2> QED
    BY <1>2, <2>2
<1>6. Quietly(b, A, {}, keys)
  <2> HIDE DEF A
  <2> QED
    BY <1>2, <1>3, QuietlyReplicateTo
<1>7. Quietly(a \o b, A, {}, keys)
  <2> HIDE DEF a, b, A
  <2> QED
    BY <1>5, <1>6, QuietlyBoth
<1> DEFINE t == a \o b
<1>8. Enter(p, t, content) /\ ~Learns(t) /\ Does(t, A, {}, keys)
    BY <1>1, <1>7 DEF Quietly
<1> HIDE DEF t
<1> QED
    BY <1>1, <1>8, CommandRecovers

\* A directory is registered, and made.
LEMMA MkdirRecovers ==
    ASSUME IInv, RInv, NEW p \in Proc, NEW name \in Name, Mkdir(p, name)
    PROVE  RInv'
<1> DEFINE path == Append(cwd[p], name)
           a == registerDirectory(path)
           x == On("establish", path)
           A == Facts(host, mem[p], <<>>, keys)
           G == {<<"dir", path>>}
<1>1. MayCreateHere(p) /\ AtPrompt(p) /\ Enter(p, a \o <<x>>, Empty)
    BY DEF Mkdir, MayCreateHere
<1>2. path \in UserDir
    BY <1>1, PathsHere
<1> HIDE DEF path, A
<1>3. Quietly(a, A, G, keys)
    BY <1>2, QuietlyRegister
<1>4. Quietly(<<x>>, A \cup G, {}, keys)
  <2>1. x \in QueuedStep(keys) /\ x.do = "establish"
    BY <1>2 DEF On, QueuedStep
  <2> HIDE DEF x
  <2> QED
    BY <2>1, QuietlyEasy
<1> DEFINE t == a \o <<x>>
<1>5. Quietly(t, A, G, keys)
  <2>1. G = G \cup {}
    OBVIOUS
  <2> HIDE DEF a, x, G
  <2> QED
    BY <1>3, <1>4, <2>1, QuietlyConcat
<1>6. Enter(p, t, Empty) /\ ~Learns(t) /\ Does(t, A, G, keys)
    BY <1>1, <1>5 DEF Quietly
<1> HIDE DEF t, G
<1> QED
    BY <1>1, <1>6, CommandRecovers DEF A

\* The destructors save the stores.
LEMMA ExitRecovers ==
    ASSUME IInv, RInv, NEW p \in Proc, Exit(p)
    PROVE  RInv'
<1> DEFINE t == Destroy(user[p] = Admin)
           A == Facts(host, mem[p], <<>>, keys)
<1>1. AtPrompt(p) /\ Enter(p, t, Empty)
    BY DEF Exit
<1>2. Housed(A) /\ <<"user", Admin>> \in A
  <2> HIDE DEF A
  <2>1. A = Facts(host, mem[p], <<>>, keys)
    BY DEF A
  <2> QED
    BY <1>1, <2>1, CommandFacts
<1> HIDE DEF A
<1>3. Does(t, A, {Saved}, keys) /\ ~Learns(t)
  <2>1. \A isAdminMode \in BOOLEAN :
            Does(Destroy(isAdminMode), A, {Saved}, keys) /\ ~Learns(Destroy(isAdminMode))
    BY <1>2, DestroyEnds
  <2>2. (user[p] = Admin) \in BOOLEAN
    OBVIOUS
  <2> QED
    BY <2>1, <2>2
<1> HIDE DEF t
<1> QED
    BY <1>1, <1>3, CommandRecovers DEF A

\* The loop reads on where there is nothing to read.
LEMMA EndOfInputRecovers ==
    ASSUME IInv, RInv, NEW p \in Proc, EndOfInput(p)
    PROVE  RInv'
<1> DEFINE x == On("getline", Root)
           A == Facts(host, mem[p], <<>>, keys)
<1>1. AtPrompt(p) /\ Enter(p, <<x>>, Empty)
    BY DEF EndOfInput
<1>2. x \in QueuedStep(keys) /\ x.do = "getline"
    BY DEF On, QueuedStep
<1> HIDE DEF x, A
<1>3. ~Learns(<<x>>) /\ Does(<<x>>, A, {}, keys)
    BY <1>2, QuietlyEasy DEF Quietly
<1> QED
    BY <1>1, <1>3, CommandRecovers DEF A

\* Admin adds a user.
LEMMA AddUserRecovers ==
    ASSUME IInv, RInv, NEW p \in Proc, NEW u \in User, AddUser(p, u)
    PROVE  RInv'
<1> DEFINE ks == keys'
           m == mem[p]
           t == createUser(u, Len(ks))
           A == BaseFacts(host, m, ks)
<1>1. /\ AtPrompt(p) /\ u \notin knownUsers(p) /\ keys' = Append(keys, u)
      /\ host' = host /\ mem'[p] = m /\ todo'[p] = t /\ StepBy(p) /\ user'[p] = user[p]
    BY DEF AddUser, StepBy, IInv, Shape, hostVars
<1>2. /\ Running(p) /\ Consistent(host, m) /\ UsersSaved(host, m) /\ user[p] # NoUser
      /\ Homed(m[FileMappings], m[UserInfo]) /\ {user[p], Admin} \subseteq knownUsers(p)
    BY <1>1, PromptKnows
<1>3. PICK G : Does(t, A, G, ks) /\ Saved \in G /\ Learns(t)
    BY <1>1, <1>2, CreatingDoes
<1>4. Facts(host, m, t, ks) = A
    BY <1>3 DEF Facts
<1>5. Does(t, Facts(host, m, t, ks), G, ks)
    BY <1>3, <1>4
<1> HIDE DEF t, A
<1> QED
    BY <1>1, <1>2, <1>3, <1>5, EnteringRecovers

\* The directory of the sharer.
LEMMA QuietlyEnsure ==
    ASSUME NEW ks, NEW p, NEW dir \in UserDir, NEW A
    PROVE  \E G : Quietly(EnsureDestinationDir(p, dir), A, G, ks)
<1> DEFINE x == On("establish", dir)
           b == registerDirectory(dir)
           G == {<<"dir", dir>>}
<1>1. CASE dir \in knownDirs(p)
    BY <1>1, QuietlyNothing DEF EnsureDestinationDir
<1>2. CASE dir \notin knownDirs(p)
  <2>1. x \in QueuedStep(ks) /\ x.do = "establish"
    BY DEF On, QueuedStep
  <2>2. Quietly(b, A \cup {}, G, ks)
    <3>1. A \cup {} = A
      OBVIOUS
    <3>2. Quietly(b, A, G, ks)
      BY QuietlyRegister
    <3> QED
      BY <3>1, <3>2
  <2>3. EnsureDestinationDir(p, dir) = <<x>> \o b /\ G = {} \cup G
    BY <1>2 DEF EnsureDestinationDir
  <2> HIDE DEF x, b, G
  <2>4. Quietly(<<x>>, A, {}, ks)
    BY <2>1, QuietlyEasy
  <2>5. Quietly(<<x>> \o b, A, G, ks)
    BY <2>2, <2>3, <2>4, QuietlyConcat
  <2> QED
    BY <2>3, <2>5
<1> QED
    BY <1>1, <1>2

\* The copy is made and registered, and then linked.
LEMMA ShareRecovers ==
    ASSUME IInv, RInv, NEW p \in Proc, NEW name \in Name, NEW target \in User,
           Share(p, name, target)
    PROVE  RInv'
<1> DEFINE src == Append(cwd[p], name)
           dir == <<target, Shared, user[p]>>
           dst == Append(dir, name)
           a == EnsureDestinationDir(p, dir)
           b == replicateFile(src, dst, TRUE, "command")
           c == registerFile(dst)
           x == [do |-> "link", file |-> src, copy |-> dst]
           A == Facts(host, mem[p], <<>>, keys)
           G == {<<"file", dst>>}
<1>1. /\ AtPrompt(p) /\ src \in knownFiles(p) /\ target \in knownUsers(p)
      /\ Enter(p, a \o b \o c \o <<x>>, Empty)
    BY DEF Share
<1>2. src \in TreeFile
    BY <1>1, PromptFacts DEF MappingsOK, knownFiles
<1>3. dir \in UserDir /\ dst \in TreeFile /\ dst[1] = target
  <2>1. dir \in UserDir /\ dst \in TreeFile
    BY <1>1, PromptFacts, SharedPaths
  <2>2. dst[1] = target
    BY DEF Shared
  <2> QED
    BY <2>1, <2>2
<1> HIDE DEF src, dir, dst
<1>4. {<<"user", dst[1]>>, Saved, <<"file", src>>} \subseteq A
  <2> HIDE DEF A
  <2>1. A = Facts(host, mem[p], <<>>, keys)
    BY DEF A
  <2> QED
    BY <1>1, <1>3, <2>1, CommandFacts
<1> HIDE DEF A
<1>5. PICK D : Quietly(a, A, D, keys)
    BY <1>3, QuietlyEnsure
<1> DEFINE B == A \cup D
           C == B \cup G
<1>6. Quietly(b, B, {}, keys)
  <2>1. <<"user", dst[1]>> \in B /\ Saved \in B /\ "command" \in Catcher /\ TRUE \in BOOLEAN
    BY <1>4 DEF Catcher
  <2> HIDE DEF B
  <2> QED
    BY <1>2, <1>3, <2>1, QuietlyReplicate
<1>7. Quietly(c, B, G, keys)
  <2>1. {<<"user", dst[1]>>, Saved} \subseteq B
    BY <1>4
  <2> HIDE DEF B
  <2> QED
    BY <1>3, <2>1, QuietlyRegister
<1>8. Quietly(<<x>>, C, {}, keys)
  <2>1. {<<"file", src>>, <<"file", dst>>} \subseteq C
    BY <1>4
  <2> HIDE DEF C
  <2>2. x \in QueuedStep(keys) /\ x.do = "link"
    BY <1>2, <1>3 DEF QueuedStep
  <2>3. /\ Needs(x, C, Len(keys)) /\ Gives(x) = {} /\ ~ReadsSecrets(x)
    BY <2>1, LinkingSteps
  <2> HIDE DEF x
  <2> QED
    BY <2>2, <2>3, QuietlyOne
<1> HIDE DEF a, b, c, x
<1> DEFINE e == a \o b
           f == e \o c
           t == f \o <<x>>
           H == D \cup G
<1>9. Quietly(e, A, D, keys)
  <2>1. D = D \cup {}
    OBVIOUS
  <2> QED
    BY <1>5, <1>6, <2>1, QuietlyConcat
<1> HIDE DEF e
<1>10. Quietly(f, A, H, keys)
  <2> HIDE DEF G
  <2> QED
    BY <1>7, <1>9, QuietlyConcat
<1> HIDE DEF f
<1>11. Quietly(t, A, H, keys)
  <2>1. H = H \cup {} /\ C = A \cup H
    OBVIOUS
  <2> HIDE DEF C, H
  <2>2. Quietly(<<x>>, A \cup H, {}, keys)
    BY <1>8, <2>1
  <2> QED
    BY <1>10, <2>1, <2>2, QuietlyConcat
<1>12. Enter(p, t, Empty) /\ ~Learns(t) /\ Does(t, A, H, keys)
    BY <1>1, <1>11 DEF Quietly, e, f
<1> HIDE DEF t, H
<1> QED
    BY <1>1, <1>12, CommandRecovers DEF A

-----------------------------------------------------------------------------
(* The invariant, and what it implies *)

\* There is no file, and no process.
LEMMA RecoveryInitially == Init => RInv
<1> SUFFICES ASSUME Init PROVE RInv
    OBVIOUS
<1>1. DOMAIN host = {}
    BY DEF Init
<1>2. DiskOK(host)
    BY <1>1 DEF DiskOK, Whole
<1>3. \A p \in Proc : ~Running(p) /\ mem[p] = NewMemory
    BY DEF Init, Running
<1> QED
    BY <1>2, <1>3 DEF RInv, OneRuns, Fits

\* Whatever a process does by itself.
LEMMA ProceedRecovers ==
    ASSUME IInv, RInv, NEW p \in Proc, Proceed(p)
    PROVE  RInv'
<1>1. CASE Load(p)
    BY <1>1, LoadRecovers
<1>2. CASE FirstRun(p)
    BY <1>2, FirstRunRecovers
<1>3. CASE Refuse(p)
    BY <1>3, RefuseRecovers
<1>4. CASE Login(p)
    BY <1>4, LoginRecovers
<1>5. CASE Unlock(p)
    BY <1>5, UnlockRecovers
<1>6. CASE Open(p)
    BY <1>6, OpenRecovers
<1>7. CASE Put(p)
    BY <1>7, PutRecovers
<1>8. CASE PutKey(p)
    BY <1>8, PutKeyRecovers
<1>9. CASE Read(p)
    BY <1>9, ReadRecovers
<1>10. CASE Seal(p)
    BY <1>10, SealRecovers
<1>11. CASE Learn(p)
    BY <1>11, LearnRecovers
<1>12. CASE RegisterDirectory(p)
    BY <1>12, RegisterDirectoryRecovers
<1>13. CASE RegisterFile(p)
    BY <1>13, RegisterFileRecovers
<1>14. CASE Establish(p)
    BY <1>14, EstablishRecovers
<1>15. CASE NextCopy(p)
    BY <1>15, NextCopyRecovers
<1>16. CASE Fetch(p)
    BY <1>16, FetchRecovers
<1>17. CASE RemoveFile(p)
    BY <1>17, RemoveFileRecovers
<1>18. CASE Link(p)
    BY <1>18, LinkRecovers
<1>19. CASE Quit(p)
    BY <1>19, EndRecovers
<1>20. CASE Getline(p)
    BY <1>20, GetlineRecovers DEF Getline
<1> QED
    BY <1>1, <1>2, <1>3, <1>4, <1>5, <1>6, <1>7, <1>8, <1>9, <1>10, <1>11, <1>12,
       <1>13, <1>14, <1>15, <1>16, <1>17, <1>18, <1>19, <1>20 DEF Proceed

\* The private keys in memory stay those of users who are known: what cat adds
\* to them is a null record, for the owner of a file.
LEMMA CatRecovers ==
    ASSUME IInv, RInv, NEW p \in Proc, NEW path, Cat(p, path)
    PROVE  RInv'
<1> DEFINE m == mem[p]
           m2 == mem'[p]
           owner == fetchOwner(path)
           table == [u \in DOMAIN m[AdminKeys] \cup {owner} |-> privateKey(p, u)]
<1>1. /\ AtPrompt(p) /\ path \in knownFiles(p) /\ Memory(p, AdminKeys, table)
      /\ UNCHANGED <<hostVars, keys, crashes, user, key, cwd, hold, todo>>
    BY DEF Cat
<1>2. /\ Running(p) /\ user[p] # NoUser /\ todo[p] = <<>>
      /\ Consistent(host, m) /\ UsersSaved(host, m)
      /\ {user[p], Admin} \subseteq DOMAIN m[UserInfo]
    BY <1>1, PromptKnows DEF knownUsers
<1>3. owner \in DOMAIN m[UserInfo]
  <2>1. path \in TreeFile /\ path \in m[FileMappings].files
    BY <1>1, PromptFacts DEF MappingsOK, knownFiles
  <2>2. owner = path[1]
    BY <2>1, FileKinds DEF fetchOwner, Root
  <2> QED
    BY <1>2, <2>1, <2>2 DEF Consistent, Owned
<1>4. FitsOrNull(table, m[UserInfo])
    BY <1>2, <1>3 DEF Consistent, FitsOrNull, privateKey
<1>5. /\ Remembers(m, AdminKeys, table, m2)
      /\ DOMAIN mem' = Proc /\ \A q \in Proc \ {p} : mem'[q] = mem[q]
    BY <1>1, StoreNames, MemoryRemembers
<1>6. StepBy(p) /\ todo'[p] = <<>> /\ user'[p] = user[p] /\ hold' = hold
      /\ keys' = keys /\ host' = host
    BY <1>1, <1>2, <1>5 DEF StepBy, IInv, Shape, hostVars
<1>7. m2[UserInfo] = m[UserInfo]
    BY <1>5, StoreNames, FileKinds DEF Remembers
<1> HIDE DEF m, m2, table, owner
<1>8. Consistent(host, m2) /\ (UsersSaved(host, m2) <=> UsersSaved(host, m))
    BY <1>2, <1>4, <1>5, LearntSecrets
<1>9. Does(<<>>, Facts(host, m2, <<>>, keys), {}, keys) /\ ~Learns(<<>>)
    BY DoesNothing
<1>10. {user[p], Admin} \subseteq DOMAIN m2[UserInfo]
    BY <1>2, <1>7
<1>11. Loaded(host, user[p], m2, hold[p], <<>>, keys)
    BY <1>2, <1>8, <1>9, <1>10, LoadedHandler
<1> QED
    BY <1>2, <1>6, <1>11, RecoveryOfLoaded DEF m2

\* Whatever its user makes it do.
LEMMA CommandsRecover ==
    ASSUME IInv, RInv, NEW p \in Proc, Command(p)
    PROVE  RInv'
<1>1. CASE \E dir \in {Home(user[p]), PersonalDir(user[p])} : Cd(p, dir)
    BY <1>1, CdRecovers
<1>2. CASE \E name \in Name, content \in Content : MkfileCreate(p, name, content)
    BY <1>2, MkfileCreateRecovers
<1>3. CASE \E name \in Name, content \in Content : MkfileOverwrite(p, name, content)
    BY <1>3, MkfileOverwriteRecovers
<1>4. CASE \E name \in Name : Mkdir(p, name)
    BY <1>4, MkdirRecovers
<1>5. CASE \E name \in Name, target \in User : Share(p, name, target)
    BY <1>5, ShareRecovers
<1>6. CASE \E u \in User : AddUser(p, u)
    BY <1>6, AddUserRecovers
<1>7. CASE Exit(p)
    BY <1>7, ExitRecovers
<1>8. CASE EndOfInput(p)
    BY <1>8, EndOfInputRecovers
<1>9. CASE \E path \in knownFiles(p) : Cat(p, path)
    BY <1>9, CatRecovers
<1> QED
    BY <1>1, <1>2, <1>3, <1>4, <1>5, <1>6, <1>7, <1>8, <1>9 DEF Command

\* Where one process runs at a time, every step keeps what the stores on the
\* disk, and the memory and the steps left of that process, have to do with
\* each other; the death of the process at any step keeps it too.
THEOREM RecoveryInductive ==
    ASSUME MaxLive = 1
    PROVE  IInv /\ RInv /\ [Next]_vars => RInv'
<1> SUFFICES ASSUME IInv, RInv, [Next]_vars
             PROVE  RInv'
    OBVIOUS
<1>1. CASE \E p \in Proc, u \in User : Start(p, u)
    BY <1>1, StartRecovers
<1>2. ASSUME NEW p \in Proc, Step(p)
      PROVE  RInv'
    BY <1>2, ProceedRecovers, CommandsRecover, EndRecovers DEF Step
<1>3. CASE UNCHANGED vars
    BY <1>3, GetlineRecovers
<1> QED
    BY <1>1, <1>2, <1>3 DEF Next

\* In every state that processes reach one after the other, dying wherever
\* they die.
THEOREM RecoveryInvariance ==
    ASSUME MaxLive = 1
    PROVE  Spec => []RInv
<1>1. IInv /\ RInv /\ [Next]_vars => RInv'
    BY RecoveryInductive
<1> QED
    BY <1>1, RecoveryInitially, SessionsInvariance, PTL DEF Spec

\* What the invariant says of the disk is what the properties ask of it.
LEMMA DiskRecovers ==
    RInv => HomesRegistered /\ LinksRegistered /\ KeyfileFits /\ AdminKeysAgree
<1> SUFFICES ASSUME RInv
             PROVE  HomesRegistered /\ LinksRegistered /\ KeyfileFits /\ AdminKeysAgree
    OBVIOUS
<1>1. \A s : IsWhole(s) <=> Whole(host, s)
    BY DEF IsWhole, Whole
<1>2. /\ Whole(host, FileMappings) => MappingsFit(host, host[FileMappings].text)
      /\ Whole(host, UserInfo) => UsersFit(host, host[UserInfo].text)
    BY DEF RInv, DiskOK
<1>3. HomesRegistered
    BY <1>1, <1>2 DEF HomesRegistered, MappingsFit, Homed, saved
<1>4. LinksRegistered
    BY <1>1, <1>2 DEF LinksRegistered, MappingsFit, Joined, saved
<1>5. KeyfileFits
    BY <1>1, <1>2 DEF KeyfileFits, UsersFit, KeyfilesFit, saved
<1>6. AdminKeysAgree
    BY <1>1, <1>2 DEF AdminKeysAgree, UsersFit, SecretsFit, FitsOrNull, saved
<1> QED
    BY <1>3, <1>4, <1>5, <1>6

\* A user the disk knows has the three directories of a home registered: addUser
\* saves FileMappings at each directory, and UserInfo after the last of them.
THEOREM HomesAreRegistered ==
    ASSUME MaxLive = 1
    PROVE  Spec => []HomesRegistered
    BY RecoveryInvariance, DiskRecovers, PTL

\* A link the disk has joins files the disk knows: share registers the copy
\* before it makes the link, and saves the links after the files.
THEOREM LinksAreRegistered ==
    ASSUME MaxLive = 1
    PROVE  Spec => []LinksRegistered
    BY RecoveryInvariance, DiskRecovers, PTL

\* A user the disk knows has the keyfile that logs them in: addUser writes the
\* key pair, and takes the public key from what it has written.
THEOREM KeyfilesLogIn ==
    ASSUME MaxLive = 1
    PROVE  Spec => []KeyfileFits
    BY RecoveryInvariance, DiskRecovers, PTL

\* The private keys kept for admin are those of users the disk knows, or null
\* where cat of admin found none: they are written when UserInfo has been, and
\* sealed when they have been written.
THEOREM AdminHasTheKeys ==
    ASSUME MaxLive = 1
    PROVE  Spec => []AdminKeysAgree
    BY RecoveryInvariance, DiskRecovers, PTL

=============================================================================
