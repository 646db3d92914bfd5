---------------------------- MODULE MCConcurrent ----------------------------
(***************************************************************************)
(* Sessions that run side by side, from a file system that is in use: each *)
(* process is started once.                                                *)
(***************************************************************************)
EXTENDS MCSessions

CONSTANT Existing   \* the users there are from the start

FirstUser == {Admin}

VARIABLE started    \* the processes that have been started

\* The state the first run, and an admin session that adds the other users,
\* leave behind.
Ready ==
    LET order == <<Admin>> \o SetToSeq(Existing \ {Admin})
        pairs == [u \in Existing |-> CHOOSE i \in DOMAIN order : order[i] = u]
        homes == UNION {HomeDirs(u) : u \in Existing}
    IN  /\ keys = order
        /\ host = (FileMappings :> Plaintext([dirs |-> homes, files |-> {}]))
                  @@ (UserInfo :> Plaintext(pairs))
                  @@ (SharedInfo :> Plaintext({}))
                  @@ (AdminKeys :> Sealed(pairs[Admin], pairs))
                  @@ [f \in {KeyFile(u) : u \in Existing}
                            \cup {PublicFile(u) : u \in Existing}
                        |-> Plaintext(pairs[f[2]])]
        /\ tree = {Root} \cup homes
        /\ crashes = 0
        /\ user = [p \in Proc |-> NoUser]
        /\ key  = [p \in Proc |-> NoKey]
        /\ cwd  = [p \in Proc |-> Root]
        /\ mem  = [p \in Proc |-> NewMemory]
        /\ hold = [p \in Proc |-> Empty]
        /\ todo = [p \in Proc |-> <<>>]
        /\ started = {}

StartOnce(p, u) ==
    /\ p \notin started
    /\ Start(p, u)
    /\ started' = started \cup {p}

ReadyNext ==
    \/ \E p \in Proc, u \in User : StartOnce(p, u)
    \/ \E p \in Proc : Step(p) /\ UNCHANGED started

ReadySpec == Ready /\ [][ReadyNext]_<<vars, started>>

Processes == Permutations(Proc)

\* A bound: sessions that wait at the end of their input are no different to
\* the others from those that wait at their prompt.
Attended == Bounded /\ \A p \in Proc : ~At(p, "getline")
=============================================================================
