------------------------------ MODULE Commands ------------------------------
(***************************************************************************)
(* The second version of the commands: the objects CommandLineInterface    *)
(* would dispatch to, if the calls of executeCommand in the main loop were *)
(* not commented out.  Each class is an action; the loop, the stores and   *)
(* the tree are those of CLI.                                              *)
(*                                                                         *)
(* cat, ls and pwd are as in CLI.  No command object catches what          *)
(* replicateFile throws.                                                   *)
(***************************************************************************)
EXTENDS CLI

-----------------------------------------------------------------------------
(* CdCommand *)

\* At home ".." does nothing, for admin as well.
moveToParentDirectory ==
    /\ LoggedIn
    /\ cwd \notin {Home(user), Root}
    /\ MoveTo(Parent(cwd))

changeDirectory(destination) == CdTo(destination)

CdCommand ==
    \/ CdHome
    \/ moveToParentDirectory
    \/ \E destination \in Destination : changeDirectory(destination)

-----------------------------------------------------------------------------
(* MkfileCommand, MkdirCommand, AddUserCommand *)

createNewFile(name, content) == MkfileCreate(name, content)

overwriteAndShareFile(name, content) ==
    \/ MkfileOverwrite(name, content)
    \/ MkfileAbort(name, content)

MkfileCommand(name, content) ==
    \/ createNewFile(name, content)
    \/ overwriteAndShareFile(name, content)

MkdirCommand(name) == Mkdir(name)

\* Who may add users is asked by the loop.
AddUserCommand(u) == AddUser(u)

-----------------------------------------------------------------------------
(* ShareCommand *)

\* Mutant: the name of the copy is not looked up.
validateNoCopy(src, target) ==
    /\ LoggedIn
    /\ IsStrictPrefix(cwd, src)
    /\ target \in users
    /\ target # user
    /\ src \in files

\* A copy that is there is only found once its directory is made; but where
\* there is the copy there is its directory.
validateShareConditions(src, target) ==
    /\ LoggedIn
    /\ IsStrictPrefix(cwd, src)
    /\ target \in users
    /\ target # user
    /\ src \in files
    /\ DestinationFile(src, target) \notin files

shareFileCommand(src, target) ==
    LET dst == DestinationFile(src, target)
    IN  /\ validateShareConditions(src, target)
        /\ EnsureDestinationDir(target)
        /\ CanReplicate(src, dst, user)
        /\ data' = generateFile(tree', dst, target, data[src].text)
        /\ registerFile(dst)
        /\ shareFile(src, dst)
        /\ UNCHANGED <<user, cwd, users, adminKeys, savedLinks>>

\* The process dies of what replicateFile throws.
shareFileAbort(src, target) ==
    /\ validateShareConditions(src, target)
    /\ ~CanReplicate(src, DestinationFile(src, target), user)
    /\ EnsureDestinationDir(target)
    /\ links' = savedLinks
    /\ Leave
    /\ UNCHANGED <<users, adminKeys, files, savedLinks, data>>

\* An empty name, as in CLI: the current directory passes for the file, and
\* the directory just made for the copy.
shareEmptyName(target) ==
    /\ LoggedIn
    /\ cwd \in dirs
    /\ target \in users
    /\ target # user
    /\ DestinationDir(target) \notin dirs
    /\ EnsureDestinationDir(target)
    /\ UNCHANGED <<user, cwd, users, adminKeys, files, links, savedLinks, data>>

ShareCommand(target) ==
    \/ \E src \in files : shareFileCommand(src, target)
    \/ \E src \in files : shareFileAbort(src, target)
    \/ shareEmptyName(target)

-----------------------------------------------------------------------------
executeCommand ==
    \/ CdCommand
    \/ \E name \in Name, content \in Content : MkfileCommand(name, content)
    \/ \E name \in Name : MkdirCommand(name)
    \/ \E u \in User : AddUserCommand(u)
    \/ \E target \in User : ShareCommand(target)

CommandNext ==
    \/ FirstRun
    \/ \E u \in User : Login(u)
    \/ Exit
    \/ Kill
    \/ executeCommand

CommandSpec == Init /\ [][CommandNext]_vars

-----------------------------------------------------------------------------
(* Properties *)

\* The content of a file changes only by the hand of its owner or, for a copy,
\* of the owner of the source it is linked to; no file disappears.  Here a
\* copy may be passed on, and what it is a copy of then belongs to a recipient.
OnlyOwnersWrite ==
    [][ /\ DOMAIN data \subseteq DOMAIN data'
        /\ \A p \in DOMAIN data : data'[p] # data[p] =>
              \/ fetchOwner(p) = user /\ p[2] = Personal
              \/ \E l \in links :
                     l[2] = p /\ l[1][2] = Personal /\ fetchOwner(l[1]) = user
      ]_vars
=============================================================================
