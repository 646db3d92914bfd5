# CipherFS in TLA+

TLA+ modules for CipherFS, an encrypted file system kept in a directory of the
host: what its commands do to its stores and to its encrypted tree, model-checked
with TLC on small instances and, where this is within the prover's reach, proved with
TLAPS for every number of users, names and contents.

## The system

`app/main.cpp` constructs one object of class `CipherFS`, whose constructor is the
whole program: it loads the stores, creates `admin` on the first run, finds out from
a keyfile who starts it, and then reads commands from a prompt until `exit`.

| Part | State it keeps | Operations |
| --- | --- | --- |
| `CipherFS` (main loop) | user, key | first run, login, dispatch of a command, exit |
| `CLI` | current directory | `cd`, `ls`, `cat`, `mkfile`, `mkdir`, `share`, `adduser`, `pwd` |
| `AccountHandler` | none | `createUser`: store entries, then three directories |
| `DataStoreHelper` | the three stores | `addUser`, `listSharedFiles`, `persistData` |
| `FileDataStore` | `FileMappings.json`: hash of a path, the path | register (saved at once), look up, list |
| `UserDataStore` | `UserInfo.json`, `AdminKeys.json` | look up, identify by private key, save; admin keys encrypted for admin |
| `SharedDataStore` | `SharedInfo.json`: hash of a source, hashes of its copies | link (memory only), save |
| `StorageService` | the tree below `FS_STORAGE/` | make a directory, write, read, copy, remove |
| `EncryptDecrypt` | none (key files on the host) | key pairs, RSA-OAEP by chunks, SHA-256 |
| `Utils` | none | paths, names, owners |
| `CommandLineInterface`, `*Command` | as `CLI` | a second version of the commands, not used by the program |

The main loop calls `CLI`; `CLI` asks the stores whether a command is allowed, then
changes stores and tree one call after the other. There is no lock, no journal and
no thread: what is hard comes from the order of those calls, from errors that are
thrown past a caller or swallowed, from state that only reaches the disk at a
regular exit, and from several processes that work on the same files.

What makes each part correct:

- **CLI**: nobody leaves their home; only owners change contents; a copy follows its
  source; what is refused is refused for the reason given.
- **Stores**: registered paths form a forest of homes; every copy is linked to one
  source; what a restart reads back is a state a session could have been in.
- **Storage and encryption**: the host tree is what `FileMappings` says, each file
  encrypted for the owner of its path; admin can read it all.
- **Accounts**: a user has a key, a home, and an entry in every store, or none of it.

`PROJECT.json` lists the hazards, each at its line, with the properties that cover it
or the reason why none does.

## The modules

| Module | Models | State |
| --- | --- | --- |
| `Utils` | paths and `include/Utils.h` | none |
| `StorageService` | host tree, reads and writes, what a key opens | `tree`, `data` |
| `DataStoreHelper` | the stores | `users`, `adminKeys`, `dirs`, `files`, `links`, `savedLinks` |
| `CLI` | one process at a time: start, commands, exit, death; a command is a step | `user`, `cwd`, and the above |
| `FileService` | the abstract service | `accounts`, `text`, `grants` |
| `Commands` | the command objects in place of the commands of `CLI` | as `CLI` |
| `HostFiles` | the files several processes may have open, and how they are written | `host`, `tree` |
| `Sessions` | processes side by side; each access to a file is a step; deaths at any | `keys`, `crashes`, and per process `user`, `key`, `cwd`, `mem`, `hold`, `todo` |
| `AtomicCommands` | what a user sees of `Sessions`, against `CLI` | `seen`, and the above |
| `EncryptDecrypt` | encryption and decryption in chunks | the variables of both loops |
| `MCCLI`, `MCCommands`, `MCSessions`, `MCConcurrent`, `MCAtomic`, `MCEncryptDecrypt` | constants and bounds for TLC | |
| `UtilsProofs`, `CLIProofs`, `RefinementProofs`, `EncryptDecryptProofs`, `SessionsProofs`, `RecoveryLemmas`, `RecoveryProofs` | lemmas and theorems | |

Three levels describe the same program: `FileService` (what is promised), `CLI` (a
command is a step) and `Sessions` (an access to a file is a step). `CLI` implements
`FileService`; `Sessions` implements `CLI` as long as one process runs at a time and
dies at its prompt at most. What more processes, or deaths elsewhere, do beyond `CLI`
is what the properties of `Sessions` are about.

How the state of `CLI` and the modules it extends corresponds to the code:

- A path is the sequence of its segments. The trailing slash that tells a directory
  from a file is told by the set, `dirs` or `files`, a path is in. Both sets together
  are `FileMappings`; SHA-256 is taken to be injective, so a hash is the path.
- `data` maps a host file to a content and the user whose key pair it is encrypted
  for. An empty file has no ciphertext and opens with any key, as in the code.
- `FileMappings` is saved at every registration and `UserInfo` and `AdminKeys` by
  `addUser`, so between the commands of a single process disk and memory agree on
  them and one variable stands for both. `SharedInfo` is saved only by `addUser` and
  at a regular exit: `links` is its memory, `savedLinks` its file.
- A command is one action; its checks, in the order of the code, are the guards.
  A command that is refused changes nothing and is no step. `ls` changes nothing and is
  an operator. So is `cat`: `fetchPrivateKey` inserts a null record where admin has no key
  of the owner (`UserDataStore.cpp:75`), but where a process dies at its prompt at most, as
  in `CLI`, every user has an entry. `Sessions`, where that is not so, has `cat` as an action.
- `CLI::mkfile` is three actions: a new file, an overwrite with all copies, and an
  overwrite that dies on a copy `replicateFile` throws for. `CLI::share` is three:
  done, failed after the destination directory was made, and the empty file name,
  where `filename.back()` is undefined and the current directory passes for the file.
- `CLI::cd` is three: `/`, `..` and everything else. `Resolve` is the loop over the
  segments. `..` by itself looks nothing up, as in the code.
- `Exit` saves the links, `Kill` (a death at the prompt) goes back to the saved ones.

`Commands` keeps the state and the actions of `CLI` and replaces the handlers, class by
class. The command objects differ in three ways: `..` at home does nothing for admin
either, `ShareCommand` does not look for `/shared/` in the path, and nothing catches what
`replicateFile` throws, so that a share that fails ends the process. (The main loop has
the calls of `executeCommand` commented out; this is the program with them. The call of
`cat` there passes its argument under the key `fileName`, and `CatCommand` reads
`filename`: it would look for a file with an empty name. It changes nothing either way,
and the properties checked of the command objects do not speak of reading.)

How the state of `Sessions` corresponds to the code:

- `host` maps a file of the host to its text and the key pair the text is encrypted for
  (`Plain` if none). The stores are there as they are on the disk, empty (truncated) or
  garbled while they are written; so are the key files and the encrypted tree. `keys`
  numbers the key pairs as `createKeyPair` makes them.
- `mem[p]` holds the stores of process `p`, read by its constructors, and `hold[p]` the
  text a handler carries from one file to the next.
- `todo[p]` is what is left of the handler. A handler is entered with its checks (made on
  `mem`, so on what was read at the start) and puts the steps of the code there, in their
  order: `createUser` is two key files, three registrations with a save each, the saves
  of `persistData`, three directories. Both key files are open, and so truncated, before
  the buffer of either is written, the private key first. `Destroy` is the body of
  `~DataStoreHelper` and the destructors of its members, which save every store twice.
- A file is written by `Open`, which truncates, and `Put`, which writes from the start:
  between the two, and among two writers, others see an empty or a garbled text. Two
  ciphertexts of one key are spliced at whole blocks and may open: such a `Mixture` is a
  garbled text of that key. Any other mixture is a garbled plaintext; one that ends in a
  piece of somebody's plaintext is not told apart, for that somebody is about to encrypt,
  and so to truncate, the file, or dies. A file that is a directory cannot be read. A stream
  that does not open is not looked at, and what was to be written is lost. A step `open`
  carries the step that writes, and is replaced by it. `Secure` is `secureFile`: `Read`,
  `Open`, `Seal`, in the place where the plaintext is.
- A registration changes the memory and opens `FileMappings.json` in one step, for no other
  process sees the memory; the save that follows is a step of its own.
- `replicateTo` is the loop over the copies of a file: `NextCopy` takes one of them, puts the
  steps of its `replicateFile` into `todo`, and leaves the others to the next round. The code
  takes them in the order they were shared; any order is allowed here.
- An exception goes to the catcher the code has: the handler of `persistAdminData`, the
  `catch` of a command, or nobody, in which case the process ends without destructors.
- `Crash` ends a process in the middle of a handler, `Kill` at its prompt. `EndOfInput`
  enters the loop that `getline` does not end.
- `Cat` is admin's `cat` of a registered file: it leaves a null record in the memory of
  `AdminKeys.json` if there is no key of the owner, which the next save writes. The way to
  the directory of the file (admin may go anywhere) is part of it. For others `cat`
  changes nothing.

`AtomicCommands` looks at the files of the host, and at the memory of the process, where
no handler is under way, and says that from one such moment to the next the state of
`CLI` makes a step of `CLI` or none (`ImplementsCLI`, a refinement mapping).

`EncryptDecrypt` has `secureFile` and `retrieveFile` with a step per chunk. A ciphertext
of RSA is 256 elements that name the key, the chunk and their place in it, so that a cut
at the wrong place is a chunk that does not decrypt.

`FileService` knows accounts, contents and grants. `CLI` implements it with the files
on the host for its contents and the links for its grants. What the code does and a
wish list would not have is said there openly: a copy granted by a name with a slash
may not be made; such a copy may cut an overwrite short; grants may be forgotten; and
admin may share an empty file of somebody else.

Definitions marked "Mutant" are wrong versions of the definition that follows them.
No specification uses them: each stands for a plausible bug, and put in the place of
the right version it makes TLC find a property violated.

## The properties

| Property | Says |
| --- | --- |
| `TypeOK` | types |
| `Namespace` | registered paths form a forest of homes; no path is both file and directory |
| `StorageMatches` | host tree = stores; every file is encrypted for the owner of its path |
| `CwdConfined` | users stay in registered directories of their own, admin in registered ones or `/` |
| `LinkShape` | a copy has one source, a personal file, and lies in `/target/shared/sharer/` |
| `CopiesFollow` | a linked copy holds what its source holds, through sessions and deaths |
| `AdminReads` | admin reads every file on the host |
| `ListingHonest` | outside the shared areas, what `ls` lists can be entered and read |
| `WriteAuthority` | contents change by the hand of their owner, or of their source's owner; no file goes |
| `ImplementsFileService` | `CLI` implements `FileService` |

`Namespace`, `StorageMatches` and `CwdConfined` are checked of the command objects too, and
`OnlyOwnersWrite` in place of `WriteAuthority`: copies may be passed on there, and still no
file changes but by its owner, or by the owner of the file it is a copy of.

Of `Sessions`:

| Property | Says |
| --- | --- |
| `TypeOK` | types; what a process at its prompt or gone holds |
| `HomesRegistered` | a user the disk knows has a home the disk knows, whatever step a process was killed at |
| `LinksRegistered` | links on the disk are between files the disk knows |
| `KeyfileFits` | with one process at a time, the keyfile on the host is the one its user logs in with |
| `AdminKeysAgree` | what is kept for admin is encrypted for admin, names only users the disk knows, and has for each the key that fits, or a null record, never another key |
| `SealedForOwner` | what is encrypted is encrypted for the owner of the path, whoever wrote it with whatever stores in memory |
| `NoPlaintextLeft` | no step leaves a plaintext in the tree, or the private keys kept for admin, that no process is about to encrypt, whoever wrote it, but the death of that process or the want of a public key |
| `VersionsRooted` | any version of FileMappings, in a memory or on the disk, has with a path the directory it is in |
| `LinksSavedAtExit` | liveness: what was shared in a session that leaves is saved when it is gone |
| `ImplementsCLI` | the steps of the handlers come to the atomic commands of `CLI` |

`AdminKeysAgree` says nothing of users who have no record: a process that dies between the
saves of UserInfo and AdminKeys leaves such users, and `cat` of admin then a null record.
That nobody is without their key where no process dies in a handler follows from
`ImplementsCLI` and the `AdminReads` of `CLI`.

`VersionsRooted` makes one exception: `/target/shared/sharer` may be registered without
`/target/shared`. A process may read FileMappings before another adds a user and UserInfo
after it; it then knows the user and not the directories, and lets its own user share with
the new one. `ls` in the home of the new user then shows what `cd` does not find, until a
save of the other process brings the directories back. And `NoPlaintextLeft` speaks of steps:
what a death has left in the clear stays there, and a process that reads the file again may
die in turn.

Of `EncryptDecrypt`: `RoundTrip` (what is read with the right key is what was written, and
another key reads the empty content only), `RefusedRightly` (the right key is never
refused), `ChunkFits` (RSA is given 1 to 214 bytes) and `LoopsEnd` (liveness: both loops end).

### What the documentation says and the code does not keep

Each is the single property of a run that TLC finds violated.

- `SharedIsReadable` (`README.md:23`): `share sub/f bob` links and announces a copy
  that is never written, because only `/bob/shared/alice/` is made and the stream
  that does not open is not looked at.
- `StoresParse` (`README.md:6`, "designed to be used simultaneously by different users"):
  two sessions that save at once leave a store that does not parse, and no process gets
  past its start any more.
- `NothingLost` (the same line): a session writes back the FileMappings and the UserInfo it
  read at its start, and what another registered in between is gone from the stores. The
  run shows it of a file; with `Name` empty TLC finds it of a user, whose keyfile then logs
  nobody in.
- `EncryptedAtRest` (`README.md:4`): files, and the private keys kept for admin, are written
  in the clear and encrypted afterwards; a process killed in between leaves them so.
- `EndsWithInput` (`tests/CipherFSTest.cpp:79`): the loop goes on after the end of the input.

The models have more that a message or a comment would not lead one to expect, which no run
is spent on: `share` refuses owners with "Only file owners can share their file" when
`/shared/` occurs in the path of their own file (`CLI.cpp:273`); admin can share the empty
files of others; `ShareCommand` lets a recipient share a copy on; two admin sessions that
add the same user write their key pairs to the same two files; and the death that leaves
`AdminKeys.json` in the clear, or empty, makes every later login of admin throw.

## The runs

| Run | Instance | Shows |
| --- | --- | --- |
| `three_users` | admin, alice, bob; one name; all properties of `CLI` | sharing among three, and each way a session ends |
| `two_names` | admin, alice; names `n` and `shared`, one level deeper | blocked copies, the aborted overwrite |
| `command_objects` | as `three_users`, with the command objects | that they keep the invariants `CLI` keeps |
| `crash` | one process at a time, from an empty host, two deaths in the middle of something | what a death leaves, and a second one in the session that follows it |
| `two_sessions` | two processes of any of two users, from a file system in use | every interleaving of their accesses to files |
| `atomic_commands` | one process at a time, no death in the middle | `Sessions` implements `CLI`, and a session that leaves saves |
| `chunks` | contents of 0 to 301 different bytes, two keys, the sizes of the code | cuts at, before and after the end of one, two and three chunks |
| `nested_share` | as `three_users` | violation: `SharedIsReadable` |
| `plaintext_at_rest` | as `crash`, one death | violation: `EncryptedAtRest` |
| `end_of_input` | as `crash`, no death in the middle | violation: `EndsWithInput` |
| `stores_parse` | as `two_sessions` | violation: `StoresParse` |
| `nothing_lost` | two processes, and only admin exists at first | violation: `NothingLost` |

Bounds of `MCCLI` and `MCCommands` (`Bounded`, as a state constraint): `MaxDepth` for the
depth of registered directories, `MaxDirs` for directories besides those of homes,
`MaxFiles` for files. Three files are a source and two copies, or a source, a copy and the
file that blocks it; two extra directories are the two an ordinary share needs, or a
personal subdirectory and a share from it; contents are empty or not, which is all
`EncryptDecrypt` tells apart. `alice` and `bob` are symmetric in `three_users`; all its
properties are safety properties. `MCDestination` walks into a directory, up and into
another, into somebody else's home, and above `/`.

Bounds of `Sessions`: `MaxLive`, how many processes run at once (one or two: the stores
have one writer or two); `MaxCrashes`, how many deaths in the middle of something (two:
one, and one in what comes after it); and in `MCSessions`, as a state constraint, `MaxKeys`
for key pairs (admin, a user, and one that is generated again after a death), `MaxDirs` and
`MaxFiles` for what can be made besides homes (a source and a copy, and one directory: that
of the copy, or a personal one). A process that ended may be started again without bound where `MaxLive` is one; in
`MCConcurrent` each of two processes is started once, from the state the first run and an
`adduser` leave (`Ready`), and TLC takes the two as interchangeable where only invariants
are checked. There `Attended` also leaves out sessions at the end of their input, which
others cannot tell from sessions at their prompt; and in `two_sessions` nobody writes an empty
content (a file is read as empty while another process has truncated it, all the same).
What it takes for a copy that is linked and not registered, and for the overwrite that
dies of it (the step `abort`), happens there: a process that reads FileMappings before a share and
SharedInfo after it. `atomic_commands` needs no bound: one name and two users give finitely many
states.

Deadlock is checked wherever a process may be started again; in `MCConcurrent` both may
have ended, and it is not.

Fairness: `FairSpec` of `Sessions` has weak fairness of each process's own steps (`Proceed`):
the host schedules a process that can run. Commands are not fair, for nobody has to type,
nor are deaths. `FairSpec` of `EncryptDecrypt` has weak fairness of the steps of the two
loops, for a thread that is in a loop goes on. In `CLI` nothing has to happen.

## The proofs

`UtilsProofs` proves how paths behave (prefixes, parents, appending a segment, homes
and places of copies) from the library's theorems on sequences. `CLIProofs` rests on
them and on the three assumptions `UserAssumption`, `NameAssumption` and
`ContentAssumption`, and proves for every `User`, `Name`, `Content` and `Destination`:

- `Invariance`: `Spec => []IInv`, with `IInv` the conjunction of `TypeOK`, `Namespace`,
  `StorageMatches`, `CwdConfined` and `LinkShape`. None but the type invariant is
  inductive alone. That a new file has a place on the host needs `CwdConfined` (the
  current directory is registered) and `StorageMatches` (registered directories exist);
  that no directory takes the place of a file needs `Namespace`; that a copy has a
  single source needs that its place was not registered and that linked copies are.
  One lemma per kind of step and conjunct, one case per action.
- `TypeCorrect`, `NamespaceKept`, `StorageMatchesStores`, `UsersStayAtHome`,
  `LinksWellFormed`: its conjuncts.
- `CopiesFollowSources`: `[]CopiesFollow`. Files never go, so a state where no place is
  blocked comes after states where none was; then every overwrite reaches all linked
  copies, and no other file, for sources are personal and copies are shared.
- `OnlyOwnersWrite`: `WriteAuthority`, by the same description of an overwrite.
- `AdminReadsEverything`: `[]AdminReads`, from `users \subseteq adminKeys`.
- `ListingsAreHonest`: `[]ListingHonest`. A listed path is a registered one or the beginning
  of one; outside the shared areas every beginning of a registered path is a registered
  directory (`Namespace`), and a registered file in a registered directory is on the host
  and encrypted for the owner of its path (`StorageMatches`).
- `Refinement` (in `RefinementProofs`): `ImplementsFileService`. Each action maps to one
  of `FileService` or to a stutter; that an overwrite is only cut short when a granted
  copy was never made follows from `OnHostNotBlocked`: what lies below another file is
  not on the host, for all above a file on the host are registered directories.

`EncryptDecryptProofs` proves, from `FileAssumption` alone (contents are sequences of bytes),
for contents of every length, `EveryContentReturns` (`[]RoundTrip`), `RightKeyServed`
(`[]RefusedRightly`) and `EveryChunkFits` (`[]ChunkFits`). Their inductive invariant says of
each loop how far it is: after `n` rounds of the first the ciphertext is `n` blocks of 256
elements, element by element the encryption of the chunk its block stands for, and `100 * n`
is past the content by less than a chunk at most; between the loops the file is all of
them; after `m` rounds of the second the plaintext is the first `100 * m` bytes of the
content. Stated by index, and carried from one round to the next, this needs no induction
over data.

`SessionsProofs` proves, for every number of processes that run side by side (`MaxLive`), for
every number of deaths, and for every set of users, names and contents:

- `SessionsInvariance`: `Spec => []IInv`; `SessionsInductive` is its inductive step.
- `SessionsTypes`: `[]TypeOK`.
- `SealingIsForTheOwner`: `[]SealedForOwner`.
- `EveryVersionRooted`: `[]VersionsRooted`.
- `PlaintextIsNeverLeft`: the action property `NoPlaintextLeft`, from `IInv` before and after
  the step.

They rest on the assumptions of `CLIProofs` on users and names, on `HostAssumption` and
`SessionsAssumption`, and on two of their own: `FileNameAssumption` (the name of a file outside
the tree has a `.`, and `adduser` refuses such a user name) and `TextAssumption` (an empty text,
or two texts written over each other, are neither a key nor a table of keys).

`IInv` is `Shape` (which functions and sets the variables are), `HostOK` (what each file of
the host may hold, whoever wrote it) and `LocalOK` of each process. What `LocalOK` says:

- `MemOK`: every store in memory, of whatever age, is one that could be: FileMappings is
  `Rooted`, links are between files of the tree, and the key a table has for a user was
  generated for that user. `TextOK` says the same of the stores on the disk. Neither can be
  kept without the other, for processes read what others write.
- `UserOK`: the current directory is the home, or the personal directory where that is
  registered. Without it what `mkfile` registers has no directory above it.
- `StartOK` or `HandleOK`: what is left of the handler. `HandleOK` says that the rest is a
  `Handler`: directories are registered before what is in them (`Placed`), keys are learnt
  from files that were written (`Learnable`), every plaintext that is written is followed by
  the step that reads it back to encrypt it (`Followed`), every text that is fetched by one
  that encrypts it (`Fetchable`). Where a text is in hand the key to encrypt it with is there
  (`SealOK`): this is what the check on the public key in `secureFile` is good for.
- `Unattended`: a handler no user waits for runs to its `quit`. What is thrown in it never
  takes the process to a prompt, where `user` would be `NoUser`.

The argument: `HandlerStepwise` takes the first step off a handler, `HandlerConcat` and its
kin put handlers together, and with them each handler of `Sessions` is shown to be one, from
the checks it is entered with. Then there is one lemma per action. What an action of one
process leaves of the others' `LocalOK` is the same everywhere (`LocalKept`): memories are
private, key pairs are only added, and key files are never removed. For `NoPlaintextLeft`, a
step that exposes a file is one that puts its text there, and by `Followed` the next step of
the same process reads that file; a step that ends the encryption of a file either seals it,
or finds it empty, or throws.

`RecoveryProofs` proves what a death leaves on the disk where one process runs at a time
(`MaxLive = 1`, a hypothesis of each theorem), for every number of deaths and of processes
one after the other, from the same assumptions:

- `RecoveryInvariance`: `Spec => []RInv`; `RecoveryInductive` is its inductive step, under `IInv`.
- `HomesAreRegistered`, `LinksAreRegistered`, `KeyfilesLogIn`, `AdminHasTheKeys`:
  `[]HomesRegistered`, `[]LinksRegistered`, `[]KeyfileFits` and `[]AdminKeysAgree`.

Side by side processes undo what others have saved (`nothing_lost`), so the hypothesis cannot
go. None of the four is inductive: what a save may write depends on the memory, that on the
handler it comes from, and that on the disk the memory was read from. `RInv` says:

- `OneRuns`, and `DiskOK` of the disk: the stores appear in the order they are made, and
  those that are whole fit each other, the key files, and `AdminKeys.json`. A store that is
  truncated fits anything, so this says nothing of what it held, which is where `Fits` comes in:
- `Fits` of each process. While the stores are read (`Loading`), those that were read fit
  those still to be read. Once they are read (`Loaded`), the memory is `Consistent` with the
  disk, in one direction: what the disk has of FileMappings is what the memory has, and what
  it has of users and links the memory has too. So any store may be written from memory at
  any time but one: UserInfo, and that only when the homes of its users are registered.
- `PlanOK` says that the rest of the handler does that in time. `Needs` and `Gives` tell for
  each step which facts it needs (a directory or file is registered, a user is known, a key
  file holds the newest key, UserInfo on the disk is that in memory) and which it gives;
  `Feasible` says that each step finds what it needs in what is there when the handler begins
  and what the steps before it give. A user who was learnt must still be saved (`Learns`,
  `Saves`), and until then no exception may take the process back to a prompt.
- `HeadOK`: the file that is about to be written is empty (of a key pair, both), and the
  private keys in hand, or in the clear on the disk, are those in memory.

Of the private keys `DiskOK` and `Consistent` say that each fits its user or is null
(`FitsOrNull`), for `cat` of admin may have left a null record, and that they belong to users
the memory knows: that much `cat` keeps, for the files it reads are those of homes, and homes
those of users.

The argument: `FeasibleConcat` and `DoesConcat` put handlers together, and each handler is
shown to be feasible from the checks it is entered with (`CreateUserDoes`, `DestroyEnds`,
`PromptKnows`). One lemma says what each way of writing the disk leaves of `Consistent` and
of the facts (`PutStore`, `BlankedStore`, `WrittenKey`, `SealedSecrets`, `SameStoresKeep`), one
what each way of learning does (`RegisteredMore`, `LearntUser`, `LearntSecrets`, `Linked`); then
`LoadedRest` and `LoadedExchanged` carry `Loaded` over a step, action by action. A death needs
nothing but `DiskOK`, which is why the properties survive it.

Only model-checked: of `Sessions`, `ImplementsCLI`; the invariants and the action property of
`Commands`; and the liveness properties `LinksSavedAtExit` and `LoopsEnd`, which are out of the
prover's reach. The violated properties are shown by counterexamples, on the smallest
instances that have them.

## The plan

1. The invariants of `Commands` in TLAPS: those of `CLI` without the part of `LinkShape`
   that says a source is personal.
2. A login that dies on a null record of `UserInfo.json`, with instances in which such a
   record is saved.
3. Names with slashes in `Sessions`, and with them blocked copies.

## Not modelled

Most lines of the repository are the vendored `nlohmann::json`, of which the program uses a
map that is read, written and parsed whole; it is taken as that. RSA, SHA-256 and the random
keys of OpenSSL are ideal: a text opens with its key and no other, hashes do not collide.
Host errors such as a full disk; arguments counted by the main loop, and names `checkName`
refuses, which change nothing; removal of files, which no command offers; the unit tests.

In `Sessions`: names with slashes, and so directories below the personal one and copies
that block one another (they are in `CLI`); a login that dies on a null record; a text
longer than the buffer of a stream, which is written in pieces; a file that is removed
while another process writes it, which is taken for the file made in its place. The empty user name,
which `adduser` lets through, in all modules (`UserAssumption`).
