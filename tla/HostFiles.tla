----------------------------- MODULE HostFiles -----------------------------
(***************************************************************************)
(* The files of the host that several processes of CipherFS may have open  *)
(* at once: the JSON stores, the key files, and the encrypted tree.        *)
(*                                                                         *)
(* A process writes a file by opening it, which truncates it, and writing  *)
(* from its start what it has to say; encryption in place reads the file   *)
(* and does the same again.  Nothing is locked and nothing is renamed.     *)
(***************************************************************************)
EXTENDS Utils

CONSTANTS
    Content,    \* what mkfile may write
    Empty,      \* the empty content
    Garbled     \* what nothing can be made of: texts written over each other

ASSUME HostAssumption == Garbled \notin Content \cup {Empty}

\* Every name of a file outside of the tree has a '.', which adduser refuses.
ASSUME FileNameAssumption ==
    User \cap {"FileMappings.json", "UserInfo.json", "SharedInfo.json",
               "AdminKeys.json", "keyfile.pem", "public.pem"} = {}

VARIABLES
    host,   \* the files there are: name |-> the key it is encrypted for, text
    tree    \* the directories of the encrypted tree

hostVars == <<host, tree>>

-----------------------------------------------------------------------------
(* Names.  A file of the encrypted tree lies below a user's directory of    *)
(* personal or shared files: its path has at least three segments.          *)

FileMappings == <<"FileMappings.json">>
UserInfo     == <<"UserInfo.json">>
SharedInfo   == <<"SharedInfo.json">>
AdminKeys    == <<"AdminKeys.json">>
Store        == {FileMappings, UserInfo, SharedInfo, AdminKeys}

KeyFile(u)    == <<"keyfile.pem", u>>
PublicFile(u) == <<"public.pem", u>>

InTree(f) == Len(f) > 2

TreeFile == {f \in Path : InTree(f) /\ f[1] \in User}
HostFile ==
    Store \cup {KeyFile(u) : u \in User} \cup {PublicFile(u) : u \in User}
          \cup TreeFile

-----------------------------------------------------------------------------
(* Contents.  Key pairs are numbered from 1 as they are generated.          *)

Plain == 0

Plaintext(text) == [key |-> Plain, text |-> text]
Blank == Plaintext(Empty)
Mixed == Plaintext(Garbled)

\* An empty text has no chunk to encrypt.
Sealed(key, text) ==
    IF text = Empty THEN Blank ELSE [key |-> key, text |-> text]

\* Can plaintext be found in the file?  A table of nothing says nothing.
Exposed(f) ==
    f \in DOMAIN host /\ host[f].key = Plain
        /\ host[f].text \notin {Empty, Garbled, <<>>}

\* The text of a file that is not encrypted: what a reader of it makes of an
\* encrypted one is garbled.
ReadPlain(f) == IF host[f].key = Plain THEN host[f].text ELSE Garbled

\* Does retrieveFile find chunks of the key, or none at all?
Opens(f, key) ==
    f \in DOMAIN host
        /\ (host[f] = Blank \/ (key # Plain /\ host[f].key = key))

Set(f, content) == [g \in DOMAIN host \cup {f} |->
                        IF g = f THEN content ELSE host[g]]

\* Ciphertexts of one key are spliced at whole chunks, and open; no other
\* mixture does.  (One may end in somebody's plaintext: it counts as garbled
\* until that somebody encrypts it, and so truncates it.)
Mixture(old, new) ==
    IF old.key = new.key THEN [new EXCEPT !.text = Garbled] ELSE Mixed

\* What a file may be after its writer, who truncated it, has written: the
\* text, or a mixture if somebody else's is there by now.
Overwritten(old, new) ==
    CASE new = Blank          -> {old}
      [] old \in {Blank, new} -> {new}
      [] OTHER                -> {new, Mixture(old, new)}

\* The directory of a new file must be there, and its name not a directory's.
Openable(f) == f \notin tree /\ (InTree(f) => Parent(f) \in tree)

\* create_directories makes the parents too; a file of that name will do.
establish(d) ==
    tree' = IF d \in DOMAIN host THEN tree
            ELSE tree \cup {SubSeq(d, 1, i) : i \in 0 .. Len(d)}
=============================================================================
