--------------------------- MODULE AtomicCommands ---------------------------
(***************************************************************************)
(* As long as one process runs at a time, and is killed at its prompt at   *)
(* most, the steps of Sessions add up to the atomic commands of CLI.       *)
(*                                                                         *)
(* seen is the state of CLI as a user or the next process finds it: it is  *)
(* looked up where no handler is under way, and kept in between.           *)
(***************************************************************************)
EXTENDS Sessions

ASSUME OneAtATime == MaxLive = 1 /\ MaxCrashes = 0

VARIABLE seen

\* A store, whether it has been made yet or not.
stored(s) == IF IsWhole(s) THEN saved(s) ELSE NewStore(s)

LoggedIn == {p \in Proc : user[p] # NoUser}

\* The state of CLI in the files of the host and in the memory of the process.
View ==
    [user       |-> IF LoggedIn = {} THEN NoUser
                    ELSE user[CHOOSE p \in LoggedIn : TRUE],
     cwd        |-> IF LoggedIn = {} THEN Root
                    ELSE cwd[CHOOSE p \in LoggedIn : TRUE],
     users      |-> DOMAIN stored(UserInfo),
     adminKeys  |-> IF AdminKeys \in DOMAIN host
                    THEN {u \in DOMAIN saved(AdminKeys) :
                             saved(AdminKeys)[u] # NoKey}
                    ELSE {},
     dirs       |-> stored(FileMappings).dirs,
     files      |-> stored(FileMappings).files,
     links      |-> IF LoggedIn = {} THEN stored(SharedInfo)
                    ELSE knownLinks(CHOOSE p \in LoggedIn : TRUE),
     savedLinks |-> stored(SharedInfo),
     tree       |-> tree,
     data       |-> [f \in {g \in DOMAIN host : InTree(g)} |->
                        [key  |-> IF host[f] = Blank THEN fetchOwner(f)
                                  ELSE keys[host[f].key],
                         text |-> host[f].text]]]

AtRest == \A p \in Proc : todo[p] = <<>> \/ At(p, "getline")

SeenInit == Init /\ seen = View
SeenNext == Next /\ seen' = IF AtRest' THEN View' ELSE seen
SeenSpec == SeenInit /\ [][SeenNext]_<<vars, seen>>

\* With the fairness of Sessions.
FairSeenSpec == SeenSpec /\ Fairness

C == INSTANCE CLI
     WITH user <- seen.user, cwd <- seen.cwd, users <- seen.users,
          adminKeys <- seen.adminKeys, dirs <- seen.dirs, files <- seen.files,
          links <- seen.links, savedLinks <- seen.savedLinks,
          tree <- seen.tree, data <- seen.data,
          Unreadable <- Garbled, Destination <- {<<Personal>>}

\* What the steps of a handler come to is what CLI does at once: in whatever
\* order they write stores, keys and files, a user at the prompt and a process
\* that starts find all of it done, and done as CLI says.
ImplementsCLI == C!Spec
=============================================================================
