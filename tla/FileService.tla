----------------------------- MODULE FileService -----------------------------
(***************************************************************************)
(* What CipherFS promises its users, without stores, keys or host files:   *)
(* who may change which content.  Files are only ever created and          *)
(* overwritten.  A grant <<s, d>> promises a copy d of s that follows the  *)
(* writes to s.  The promise is kept as long as every copy granted was     *)
(* made: one that was not may cut short the writes to the others.          *)
(***************************************************************************)
EXTENDS Utils

CONSTANTS Content, Empty

VARIABLES
    accounts,  \* the users
    text,      \* path |-> content, for every file somebody can read
    grants     \* pairs of a source and a copy that is to follow it

fsVars == <<accounts, text, grants>>

CopiesOf(s) == {g[2] : g \in {h \in grants : h[1] = s}}

Init == accounts = {} /\ text = <<>> /\ grants = {}

CreateAccount(u) ==
    /\ u \notin accounts
    /\ accounts' = accounts \cup {u}
    /\ UNCHANGED <<text, grants>>

\* Somebody creates a file in a personal directory of their own.
Create(u, p, c) ==
    /\ u \in accounts /\ checkPersonal(p, u)
    /\ p \notin DOMAIN text
    /\ text' = [q \in DOMAIN text \cup {p} |-> IF q = p THEN c ELSE text[q]]
    /\ UNCHANGED <<accounts, grants>>

\* The owner overwrites a file; every copy of it there is changes with it.
Overwrite(u, p, c) ==
    /\ u \in accounts /\ checkPersonal(p, u)
    /\ p \in DOMAIN text
    /\ text' = [q \in DOMAIN text |->
                   IF q \in {p} \cup CopiesOf(p) THEN c ELSE text[q]]
    /\ UNCHANGED <<accounts, grants>>

\* The same, cut short by a copy that was granted and not made: some of the
\* others change, and grants may be lost.
CutShort(u, p, c) ==
    /\ u \in accounts /\ checkPersonal(p, u)
    /\ p \in DOMAIN text
    /\ ~(CopiesOf(p) \subseteq DOMAIN text)
    /\ \E changed \in SUBSET CopiesOf(p) :
          text' = [q \in DOMAIN text |->
                      IF q \in {p} \cup changed THEN c ELSE text[q]]
    /\ grants' \in SUBSET grants
    /\ UNCHANGED accounts

\* A new copy of a file in the recipient's shared directory.  A file is
\* shared by its owner, except that admin may share an empty one.  A copy
\* right in the sharer's directory is made; one deeper may not be.
Grant(u, s, t, d) ==
    /\ u \in accounts /\ t \in accounts \ {u}
    /\ s \in DOMAIN text /\ d \notin DOMAIN text
    /\ checkPersonal(s, u) \/ (u = Admin /\ text[s] = Empty)
    /\ Len(d) >= 4 /\ SubSeq(d, 1, 3) = <<t, Shared, u>>
    /\ \/ text' = [q \in DOMAIN text \cup {d} |->
                      IF q = d THEN text[s] ELSE text[q]]
       \/ Len(d) > 4 /\ UNCHANGED text
    /\ grants' = grants \cup {<<s, d>>}
    /\ UNCHANGED accounts

\* A process that dies forgets grants made since they were last saved.
Forget ==
    /\ grants' \in SUBSET grants
    /\ UNCHANGED <<accounts, text>>

\* What an action creates is found in the state it leaves behind.
Next ==
    \/ \E u \in User : CreateAccount(u)
    \/ \E u \in User, p \in DOMAIN text', c \in Content :
          Create(u, p, c) \/ Overwrite(u, p, c) \/ CutShort(u, p, c)
    \/ \E u, t \in User, s \in DOMAIN text, g \in grants' : Grant(u, s, t, g[2])
    \/ Forget

Spec == Init /\ [][Next]_fsVars
=============================================================================
