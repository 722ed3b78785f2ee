# A TLA+ model of TecnicoFS

TecnicoFS is a file system kept in memory. A server process owns it; clients
send it commands (create, remove, look up, move, print) in datagrams over a Unix
socket, and several worker threads of the server execute them at the same time.
This directory holds TLA+ modules that model the whole of it, from a line of the
client's input file to the inode, the TLC configurations that check them, and
TLAPS proofs of what does not depend on the size of the instance.

Paths below are relative to `src/` of the repository unless they are modules.

## 1. The system

| Part | State | Operations | Talks to |
|---|---|---|---|
| `tfs/fs.c` | none of its own; per call: the inodes it has locked | create, remove, find, move, print | inode table (calls), worker (returns locked inodes) |
| `tfs/inode/table.c`, `inode.c` | an array of 128 inodes: type, contents, lock | add (scan for a free slot), lock, unlock, remove, print_tree | rw lock, directories |
| `tfs/inode/dir.c` | an array of slots, each an (index, name) | search, add, remove, rename, is_empty | none |
| `tfs/path.c`, `util.h` | none (views of strings) | trim, pop first/last, common ancestor, compare | none |
| `tfs/rw_lock.c` | one `pthread_rwlock_t` per inode | lock, try_lock, unlock | none |
| `bin/tecnicofs.c` | socket, worker threads | receive, parse, execute, unlock what was returned, answer | `fs.c`, `command.c`, clients |
| the files of `print` | a stdio stream per print | open, write, close | `fs.c` |
| `tfs/command/command.c` | none | parse, print | server and client |
| `tfs/client-api.c` | one global connection | mount, unmount, one call per command | server (datagrams) |
| `bin/tecnicofs-client.c` | the input file | read a line, send it | client API |
| `mutex.c`, `cond_var.c` | unused wrappers | | none |

How a command runs. The client reads a line, parses it, and calls the API, which
prints the command into a buffer of 1024 bytes, sends it, and waits for one
datagram. A worker receives 511 bytes of it, parses it again, splits its path,
and walks from the root: it locks each inode on the way for reading and the last
one for writing (for reading if it only looks), and keeps all of them. A move
walks to the common ancestor of its two paths and from there to each of the two
parents, in an order it computes from their text. With everything locked, it
changes the tree, unlocks one inode after the other, and answers the address the
request came from. A print opens its file, locks the root only, for writing,
and walks the rest without locks.

What is hard here, and what should hold:

* *Interleaving.* Between looking a name up and getting the lock of its inode a
  thread may wait for ever so long. The inode must still be there, in use, under
  that name (`TargetLinked`), and so must the whole path the thread stands on
  (`PathHeld`), although others move and remove directories.
* *Atomicity.* A move adds an entry and then removes one; a remove frees an
  inode and then unlocks. Clients must see each command happen at one instant,
  with an error only if its reason holds at that instant (`Linearizable`), also
  across the wire (`AsIfLocal`, `EffectWithinCall`).
* *Structure.* Directories must stay a tree, also after moves (`TreeShape`),
  with no empty names (`NoEmptyName`), and the array of a directory must behave
  like a map while it grows and its slots are used again (`ImplementsMap`,
  `EntriesDiffer`).
* *Races.* An inode may only be changed by a thread that has it for writing
  (`OnlyWriterWrites`), at each place with the locks that place needs
  (`LocksOwned`), and a print may walk without locks only because nothing it
  can reach changes (`PrintStable`); what it writes is the tree of one moment
  if it has its file to itself (`AloneIsSnapshot`).
* *Deadlock.* Moves lock two branches (`NoWaitCycle`); no thread may lock what
  it has, unlock what it has not, or free what is not its own (`TableSpec`).
* *Partial failure.* Some twenty error paths each unlock, in a loop of their
  own, what was locked up to there (`IdleHoldsNothing`).
* *Liveness.* Every command is answered (`EveryCommandAnswered`), every call of
  the client API returns (`EveryCallReturns`).
* *Answers.* Nothing in a datagram says which call it belongs to: requests and
  answers are matched by order alone (`AnswersOwn`), through failed receives,
  clients that end, a server that starts again (`AnswerKept`).
* *Text.* Commands are text, printed, cut to two buffers and parsed twice
  (`Arrives`, `FileUnderstood`, `FailureReported`); paths are slices of text
  (`PopsComponents`, `EqRight`, `LenRight`, `AncestorRight`, `OrderRight`).
* *Limits.* The table has 128 slots and does not grow; sockets hold a few
  datagrams, and a sender waits (`TypeOK` of `TfsRemoteProps`).

## 2. Modules

| Module | Models | Extends |
|---|---|---|
| `TfsBase` | names, inode indexes (`inode/idx.h`) | |
| `TfsPath` | `path.c`, `tfs_str_cmp`, on sequences of components | `TfsBase` |
| `PathText` | `path.c`, `tfs_str_cmp`, on texts | |
| `InodeDir` | `inode/dir.c` as a map: the operators of `TfsFs` | `TfsBase` |
| `InodeDirMap` | the same as a machine: what a directory promises | `InodeDir` |
| `InodeDirSlots` | `inode/dir.c` as it is: an array of slots | `InodeDir` |
| `InodeTable` | `inode/table.c`, `rw_lock.c`; also the contract `TableSpec` | `InodeDir` |
| `TfsFs` | `fs.c` and the worker loop of `tecnicofs.c` | `InodeTable`, `TfsPath` |
| `AtomicFs` | the abstract file system: a map of paths, commands that take effect at once | `TfsPath` |
| `TfsRemote` | `client-api.c`, the sockets, `worker_thread_fn` around an `AtomicFs` | `TfsPath` |
| `TfsWire` | `tecnicofs-client.c`, `command.c`, the buffers of both sides | |
| `TfsPrint` | the output files of `tfs_fs_print` | |
| `TfsNamespace` | the paths a client sees in an inode table | `InodeDir`, `TfsPath` |
| `TfsFsProps`, `TfsRemoteProps`, `TfsWireProps`, `PathTextProps` | the properties of each, and the mappings to abstract modules | the module each is named after |
| `InodeDirSlotsProofs`, `TfsFsProofs`, `TfsAtomicProofs`, `TfsLocksProofs`, `TfsRemoteProofs`, `TfsPrintProofs`, `TfsWireProofs`, `PathTextProofs` | theorems | |
| `MCTfsFs`, `MCTest5`, `MCTfsRemote`, `MCTfsWire`, `MCPathText`, `MCTfsPrint` | command sets, files, texts and initial trees of the runs | |

How they compose. `TfsFs` implements `AtomicFs` (`Linearizable`) and uses the
table as `TableSpec` asks. `TfsRemote` has `AtomicFs` as its file system, with
the workers for threads; and it implements `AtomicFs` again, with the *clients*
for threads, until the first fault or given-up call (`AsIfLocal`). The directory `TfsFs` works
with is the map that the array of `InodeDirSlots` implements (`ImplementsMap`),
and its paths are what `PathText` computes from text. `TfsPrint` relies on
`PrintStable`: its tree does not change while the root is locked for writing.
`TfsWire` is the one part not composed with the others: `TfsRemote` has commands
for texts, and a set `Garbled` of those the parser of the server refuses.

### How state and actions correspond to the code

#### The file system (`TfsFs`, `InodeTable`)

*Inodes.* `type[i]` and `dir[i]` are the fields of slot `i` of the table;
`shared[i]` and `unique[i]` are the threads that have its lock. `Grantable` is
when `pthread_rwlock_*lock` returns: readers are let in while no writer has the
lock, even if one waits (the default of glibc), which is the worst case for
liveness and a superset of the orders of any other policy. The writer that
locks again gets `EDEADLK`, and `rw_lock.c:23,28` assert that it does not
(`LockErrno`); a reader that asks for a write lock just waits for itself.

*Directories.* A directory is a map from names to inodes, plus the number of
slots of its array. Which slot an entry has is abstracted (only the order of a
print depends on it); how many are free is kept, because `tfs_inode_dir_rename`
compares the new name with the (empty) names of free slots. `AddEntry` grows the
array as `dir.c:220-254` does.

*Paths.* A path is the sequence of its non-empty components. `NoName` is the
empty component that `tfs_path_pop_last` returns for an empty path. Lengths and
the byte order of names are constants (`NameLen`, `NameRank`), because the order
in which a move locks depends on them.

*Threads.* For each worker: `cmd`, `pc` (where it is), `stage` (which of the
stretches of a move it walks: to the common ancestor, to the origin's parent, to
the destination's), `rest` (components still to walk), `target` (the inode it is
about to lock, scans, creates, moves or removes), `locked` (the `TfsLockedInode`
arrays of the code, one per stretch), `todo` (what is left to unlock), `toPrint`
and `result`. A `Call` of `fs.c` is a path through the actions

    Receive, Lock, (Walk, Lock)*, ...operation..., Unlock*, Reply

with the operation one of `CreateScan SkipSlot* TakeSlot CreateEntry`,
`FindChild LockChild RemoveChild FreeInode`, `MoveLeg ... FindChild LockChild
(RenameChild | MoveChild)`, `Search`, `PrintStart PrintVisit* PrintDone`, or one
of the error actions at the point where the code has that error. Every error of
`fs.h` that the code returns is a separate outcome.

*Step size.* An action is what a thread does from one synchronisation operation
(lock granted, unlock, trylock) to the next. Everything in between is done under
locks the thread holds; that it is is not assumed but checked and, for writes,
proved (`OnlyWriterWrites`, `LocksOwned`); the reads of a print, which have no
lock, are single steps (`PrintVisit`).

*Assertions.* `Abort` sets `aborted`, after which no thread moves: the process
is gone. It stands for the assertions on lock calls and for the full table.
The other assertions are properties: `table.c:74` is `TargetLinked` and
`TableSpec`, those that an index is below the capacity are `TypeOK`.

*Abstractions that leave out behaviour.* `trylock` of the scan takes a lock for
an instant on slots in use; here it has no duration. `tfs_inode_table_remove_inode`
empties the slot and unlocks it in one step: the scan of others cannot tell,
because the slot is locked until then. Whether `fopen` of a print succeeds is a
free choice. The order of a print is free. The text on stderr is left out.

#### The array of a directory (`InodeDirSlots`)

`entries` is the array, `answer` the result of the last operation with the inode
in it. The loops over the array become sets of slots (`Found`, `Free`,
`RenameClash`), of which the code takes the first; `Grown` is the `realloc`.
Slots are counted from 1. What the callers promise is in the guards: an inode
that is added is not in this directory yet, and a rename from the empty name to
itself does not occur (`fs.c:324`). `InodeDirMap` is the machine of the operators
`TfsFs` uses, and `AsMap` the array seen as such a map.

#### Paths as text (`PathText`)

A path is a slice `[text, from, to]`, as in `path.h`; no copy is made. `Trim`,
`PopFirst`, `PopLast` are the functions of these names; the loops of
`tfs_path_eq`, `tfs_path_common_ancestor` and `tfs_path_components_len` are
actions, one turn each. `PathTextProps` compares what they return with the
operators of `TfsPath` on the components of the text: what is between its '/', without
the blanks around it (`ComponentsOf`), which is what `fs.c` works with; and with the
words between '/' and blanks, which `path.h` calls components (`WordsOf`).

#### Clients, sockets, workers (`TfsRemote`)

*Client.* `mounted`, `bound`, `initialized` are the global connection: that there
is an open socket, that its address still leads to it, and the flag
`global_client_connection_initialized`. `at` and `calling` are where a call is
(`Call`, `Send`, `Receive`), `returned` its value: -1 before the first call and
during one, 0, 1 for what failed before or on the socket, 2 for an answer that is
not a success (the 0 of a `tfsMount` is not kept, since nothing depends on it).
`Mount` unlinks the address
before it binds, so that a mount that fails may leave a socket nobody can answer
(`MountFails`). `tfsMount` never sets the flag; the model has it as it is, with
what would happen were it set.

*Sockets.* `requests` and `answers[c]` are queues of `QueueSize` datagrams; a
sender waits for room, as on a Unix datagram socket. A client whose address is
unlinked gets no answer, and the server does not notice. A second `tfsMount` does not
close the socket it replaces: a worker that is waiting for room there (`Waiting`) waits
until the client's process ends, because nobody can read from it (`stranded`).

*Workers.* `Take` is `recvfrom` and the parser, `Execute` the call of `fs.c`,
`Answer` the `sendto`. `job[w]` is the `client_address` of the worker. A command
that cannot be parsed is answered with an error at once.

*Faults.* A receive that fails (`ReceiveFails`), a bind that fails, the end of a
client wherever it is, the end of the server (`ServerEnds`: the tree is lost)
and a new start. `serial`, `clean` (the client has never given up on an answer)
and `faults` are history variables: no guard reads them but the bounds.

#### Text on its way (`TfsWire`)

`file` is what the client program has yet to read; a round of `process_input` is
one of `SkipComment`, `ReadCommand`, `ReadFails`, `Stop`. `Serve` is the worker's half
of a call, and `Continue` the client's after it. `FirstLine` is `fgets`,
`Tokens` the `sscanf`, `ParseError` and `Parsed` the rest of `tfs_command_parse`,
`Datagram` is `tfs_command_to_string` cut to its buffer, with its NUL, `Served`
what `recvfrom` into 511 bytes and the parser make of it. `Call` is another
program that uses the API. There is one client, and it waits: the queue has at
most one datagram. `whole`, `asked` and `executed` are history variables.

#### Output files (`TfsPrint`)

`Open` (`fopen`, which empties the file), `LockRoot`, `PrintLine` into the buffer,
`Flush` at the stream's own offset whenever the buffer is full, `UnlockRoot`,
`Close`. `CloseFails` is the assertion at the `fclose`. The tree is the sequence
of lines a print of it says. `printed` and `alone` are history variables: the tree
at the time the root was locked, and that nobody else had the file open.

## 3. What is checked

| Run | Instance | States | Properties |
|---|---|---|---|
| `tree_ops` | 2 workers, 5 inodes, 10 commands: everything but moves, on the root, two levels down, below that, under a file, under nothing; with fairness | 113,941 | `PathHeld TargetLinked TreeShape NoEmptyName IdleHoldsNothing NoWaitCycle PrintStable TableSpec Linearizable EveryCommandAnswered`, and no deadlock |
| `moves` | 2 workers, 5 inodes, 9 commands: renames, moves up, down and across, of a directory in which files come, to a taken name, onto themselves, with prints | 246,734 | `TypeOK LocksOwned PathHeld TargetLinked TreeShape OnlyWriterWrites PrintStable TableSpec Linearizable` |
| `move_order` | 3 workers from the tree of `resources/in/test5.txt`, with its moves and their inverses | 511,272 | `NoWaitCycle`, and no deadlock |
| `dir_slots` | an array that grows to 4 slots from 1, 3 names and the empty one, 4 inodes | 27,103 | `EntriesDiffer ImplementsMap`, and no deadlock |
| `path_text` | every text of at most 4 characters out of `a b / blank`, also with blanks inside a component, and ten longer ones, in pairs | 766,177 | `PopsComponents EqRight LenRight AncestorRight OrderRight` |
| `remote` | 2 clients, 2 workers, sockets of 1 datagram, 3 calls of one client and 1 of the other, any number of given-up calls, 1 fault; with fairness | 314,870 | `TypeOK AnswersOwn EffectWithinCall AnswerKept AsIfLocal EveryCallReturns` |
| `wire` | buffers of 8, 16 and 7 characters; every file of at most 5 characters out of six, every file of 3 lines out of 18, every call on paths of at most 4 characters | 58,287 | `FileUnderstood FailureReported Arrives` |
| `print_alone` | 2 workers, 2 files, 4 trees | 289,464 | `AloneIsSnapshot` |
| `leaked_lock` | 1 worker: a move to a name that is taken | | violates `IdleHoldsNothing` |
| `move_deadlock` | 2 workers: two moves to deeper parents in opposite directions | | violates `NoWaitCycle` |
| `empty_name` | 1 worker: a full directory, and a move of an entry onto the directory | | violates `NoEmptyName` |
| `stale_answer` | 1 client, 1 worker, 1 failed receive | | violates `ReturnsOwn` |

Why the bounds are enough. Two names give three levels of directories, siblings,
and prefixes of each other; two workers give all pairs of interleavings, three
the cycles of `test5.txt`. `MinEntries` is the 4 of the code in the runs of
`TfsFs`, and 1 in `dir_slots`, so that the array grows twice. `Capacity` is the
number of inodes, which bounds the tree; it is chosen so that the commands of
`tree_ops` fit (the root, two directories, and an inode that each worker is
adding), and so that in `moves` the table also fills up. `tree_ops` is the run of
the workers' liveness, which takes several times the work of safety and excludes
symmetry: its trees have two levels below the root, and paths go one further.
Entries on the third level are in `moves`, where a worker creates one in a
directory that another moves.
Nothing else bounds the workers: they may take commands without end. In `remote`
a socket of one datagram makes every sender wait, and a second call is the first
that could take a wrong answer. Three calls of one client, each given up, fill its
socket and leave both workers waiting to answer it, while the other client is in the
middle of a call: that is the state `EveryCallReturns` depends on, and without its
hypothesis that some worker is not stuck TLC finds the property violated there. One
fault anywhere is followed by every continuation. `MaxCalls[c]` and `MaxFaults`
appear in guards and are all that bounds it; a receive that fails is not counted as a
fault, since calls bound it. The buffers of `wire` are shorter than the longest command, in the order the
code has them (the server's shortest), so that texts are cut at every place.

`CHECK_DEADLOCK FALSE`: in `moves`, `leaked_lock`, `move_deadlock` and
`empty_name` the code really stops, after a failed assertion, or when a worker
waits for a lock that was leaked (`moves` checks its properties in these states
too, and they hold: a leaked lock costs liveness, not the tree); in `remote` and
`stale_answer` a call whose answer is lost waits for ever; `path_text` and `wire`
end with their input; a print may end the process (`print_alone`).

### What the violations show

The `findings` of `PROJECT.json` that a run violates a property for:

1. `leaked_lock`, `fs.c:538`: a move that fails because the destination name is
   taken leaves the moved inode locked for writing. The rename path unlocks it.
2. `move_deadlock`, `fs.c:405`: the order of the two parents of a move is by the
   length of the whole parent path first. The moves are safe for paths of one
   shape (which is all `test5.txt` has, see `move_order`; `EqualLengthsAreSafe` is the
   proof for all), but `m /a/a /b/b/b`
   against `m /b/a /a/a/a` deadlock.
3. `empty_name`, `dir.c:141`: a rename to the empty name succeeds in a full
   directory.
4. `stale_answer`, `client-api.c:123`: after a `recv` that failed the next call
   takes the answer of the one before.

Four more findings come from runs that pass: there the property says exactly how far
the code is from its documentation, so that it holds of the code as it is.

5. `wire`, `FailureReported`, `command.c:197`: for an unknown letter the error kind is
   written into the other member of the union, and the caller is told that the line
   could not be read (`command.h:92`) although it was; `command.h:98` has an error for
   this case (`ParseError`).
6. `wire`, `FailureReported`, `tecnicofs-client.c:64`: the line number of a report
   ("line %zu", `:83` and `:101`) is too small by the number of blank lines before
   (`SkipComment`, `Unread`).
7. `path_text`, `LenRight`, `path.c:93`: `path.h:16-18` says that components are
   "separated by any number of forward slashes ('/') and whitespace characters"; the code
   splits at slashes only and trims whitespace off the pieces, so that `a b` is one
   component (as `tests/path.c:61` expects) and not two. `WordsOf` are the components
   that comment documents, and `Unbroken` paths, with no blank inside a component,
   those for which the two notions agree.
8. `path_text`, `EqRight`, `path.c:70`: by `path.h:55-56` the paths `a b` and `a/b`
   would be equal, having the same documented components; `tfs_path_eq` says they are not.

Other places where the code and its comments, or its two ends, disagree. The
model has each of them as the code has it; none has a run of its own:

* `fs.c:293,299` (documented at `fs.h:200-203`): the two checks at the start of a
  move compare a path that is relative to the common ancestor with a full one; a
  valid move such as `m /a/b /a/a/b/a` is refused, and the documented errors do
  not occur (`MoveRejected`).
* `table.c:57` ends the process when the table is full; `table.h:19` says that it
  expands (`TableFull`).
* `client-api.c:242`: `tfsUnmount` tests a flag that `tfsMount` (`:140`) never
  sets (`Mount`, `Unmount`).
* `tecnicofs.c:119`: the server reads 511 bytes of the 1024 a client may send. A
  longer command runs with a shorter path or is refused (`Served`, `Arrives`).
* `command.c:226`: paths end at a blank, which `tests/path.c:61` and
  `tfs_path_trim` allow in them: `tfsDelete("a b")` deletes `a`, or is refused
  (`Arrives` excepts these paths).
* `fs.c:405`: the order in which a move locks depends on the spelling of its
  paths: `a///b/x` is longer than `a/b/x` (`OrderRight` holds for tidy paths).
* `fs.c:580`: two prints to one file mix (`AloneIsSnapshot` excepts them).

### The abstract specifications

`TableSpec` (in `InodeTable`) is what `table.h` asks of its callers: lock only
inodes in use and not held already, unlock only what is held, free only what is
held for writing and empty, change directories only under the writer's lock.
`TfsFs` implements it with the table's variables mapped to themselves.

`AtomicFs` is what a client may rely on. Its `tree` maps paths to types; in
`TfsFsProps` it is computed from the inode table (`Namespace`, by `TfsNamespace`), and `outcome` is
`result`. A command takes effect in the step in which `fs.c` decides its result,
which is where the namespace changes, and each error is allowed only if its
cause holds then. Commands the code refuses by the form of their paths are
allowed to be refused (`Refuse`), although some of them should not be.

In `AsIfLocal` the threads of `AtomicFs` are the clients: `cmd` is what a client
that waits has called, `outcome` what the worker that has its job, or the answer
on its way, says. Until a fault, or until a call is given up, every step of clients, workers and sockets is a
step of that specification or a stutter.

`InodeDirMap` is what a directory promises: a map from names to inodes whose
operations answer as those of `dir.c`, including which clash they report.

### Fairness

`FairSpec` of `TfsFs` asks weak fairness of each worker's own work
(`WF_vars(Work(t))`): threads are scheduled by the kernel, which runs each one
that can run. Nothing is assumed of clients, and no order of waiting threads at a
lock. With readers preferred a writer may starve, so `EveryCommandAnswered` is
conditional on `Quiet`: clients stop sending at some time. It is checked without
moves, because with them findings 1 and 2 make it false.

`FairSpec` of `TfsRemote` asks weak fairness of a client inside a call and of
each worker; nothing of when clients call, of faults, or of who restarts the
server. `EveryCallReturns` has these hypotheses. `Served`: the server runs and every
mounted client has its address. Again and again some worker is not `Stuck`, that is,
waiting for room in the socket of a client (`tecnicofs.c:286`), perhaps one that the
client has replaced by another mount and left open (`stranded`): a client that gives up
on more calls than its socket holds answers, and then does not read, stops one worker
for each further call, and when all are stopped nobody else is served. The code does
nothing against that. Only such clients can do it, which is the theorem
`PatientClientsBlockNobody`. For calls that wait to be *sent*, also `NoNewCalls`: in the
end nobody calls any more, because nothing is assumed about the order in which the
kernel lets senders in; with calls bounded, every behaviour of the run satisfies it. That each worker ends its execution is an
assumption of `AtomicFs` there; `EveryCommandAnswered` is what it rests on.

## 4. What is proved

No theorem fixes a number: of names, inodes, threads, clients, commands, queues or
faults. The assumptions are those on the constants, named in the modules that
declare them and evaluated by every run: `NoName` is no name and there is an inode
(`BaseAssumption`), lengths and ranks are numbers (`PathAssumption`),
`MinEntriesAssumption`, commands have the fields of `TfsCommand`
(`CommandAssumption`), `RemoteAssumption`, the trees a print may find are
sequences of lines (`PrintAssumption`), and files and calls are texts and commands
over characters that include the letters but no NUL, with the buffer of the server
the smallest, as 511 is of 1024 and 1024 (`WireAssumption`), and texts of paths are
over characters that include '/' and ' ' (`TextAssumption`). No set is assumed finite.

Some theorems have hypotheses more, because the code breaks them without; there are
three, and each excludes exactly what a finding is about. `NoMoveToParent`: no command moves
an entry onto its own directory (`m /a/b /a`, finding `empty_name`). `NoLeak`: no
move between two directories is refused its new name (finding `leaked_lock`); it
is a formula about the behaviour, so it says nothing about which commands there
are. `LegsFollow(rank)`: where a move walks two legs below the common ancestor, it
begins with the one whose first name is smaller in some order of the names
(finding `move_deadlock`). Commands without a move satisfy all three (`tree_ops`);
the moves of `test5.txt` satisfy `LegsFollow` in byte order (`move_order`).

| Module | Theorem | States |
|---|---|---|
| `TfsFsProofs` | `Invariance` | `Spec => []IInv`, with `IInv == TypeOK /\ LocksOwned` |
| | `TypeCorrect`, `LocksAreOwned` | `Spec => []TypeOK`, `Spec => []LocksOwned` |
| | `NoRace` | `Spec => OnlyWriterWrites` |
| | `TreeInvariance` | `Spec => [](IInv /\ Tree)`, with `Tree == Structure /\ Grounded /\ \A t \in Thread : Way(t)` |
| | `DirectoriesFormTree`, `PathsAreHeld` | `Spec => []TreeShape`, `Spec => []PathHeld` |
| | `TargetsAreLinked`, `PrintsAreStable` | `Spec => []TargetLinked`, `Spec => PrintStable` |
| `TfsAtomicProofs` | `CourseInvariance` | `Spec => []Course` |
| | `NoNameIsEmpty` | `NoMoveToParent` gives `Spec => []NoEmptyName` |
| | `FsIsLinearizable` | `NoMoveToParent` gives `Spec => Linearizable` |
| `TfsLocksProofs` | `SharedLocksAreKnown` | `Spec => [](\A t \in Thread : SharedOwn(t))` |
| | `LocksAreKnown`, `OnlyMoveFailsLeaks` | `Spec /\ NoLeak => [](\A t \in Thread : UniqueOwn(t))`, `=> []IdleHoldsNothing` |
| | `TableIsUsedWell` | `Spec => TableSpec` |
| | `LocksAreTakenInOrder` | `LegsFollow(rank)`, `NoMoveToParent` give `Spec /\ NoLeak => []NoWaitCycle` |
| | `EqualLengthsAreSafe` | the same from `OneLength` |
| `InodeDirSlotsProofs` | `EntriesStayApart` | `Spec => []EntriesDiffer` |
| | `ArrayIsMap` | `Spec => ImplementsMap` |
| `TfsRemoteProofs` | `Invariance` | `Spec => []Inv`, with `Inv == TypeOK /\ Begun /\ Tasks /\ AnswersOwn` |
| | `TypeCorrect`, `AnswersAreOwn` | `Spec => []TypeOK`, `Spec => []AnswersOwn` |
| | `EffectsWithinCalls` | `Spec => EffectWithinCall` |
| | `AnswersAreKept` | `Spec => AnswerKept` |
| | `PatientClientsBlockNobody` | `Spec => [](\A w \in Worker : Stuck(w) => ~clean[job[w].from])` |
| | `SeenAsLocal` | `Spec => AsIfLocal`, from `FaultlessHolds` |
| `TfsPrintProofs` | `Invariance` | `Spec => []Inv`, with `Inv == TypeOK /\ \A t \in Thread : Apart(t) /\ Whole(t)` |
| | `PrintsAreSnapshots` | `Spec => AloneIsSnapshot` |
| `TfsWireProofs` | `CommandsArrive` | `Spec => []Arrives` |
| | `FileFollowed` | `Spec => []FileInv`, inductive together with `WireInv` |
| | `FileSent`, `FailedLineNamed` | `Spec => []FileUnderstood`, `Spec => []FailureReported` |
| `PathTextProofs` | `Loops` | `Spec => []LoopInv`, with `LoopInv == SlicesOK /\ Popping /\ Counting /\ EqRight /\ LenRight /\ AncestorRight` |
| | `PathPops` | `Spec => []PopsComponents` |
| | `PathEq`, `PathLen`, `PathAncestor` | `Spec => []EqRight`, `Spec => []LenRight`, `Spec => []AncestorRight` |

*The file system* (`TfsFsProofs`). `TypeOK` is not inductive alone. That a thread pops
a component only from a path that has one, stands on an inode when it looks a name
up, or renames an entry that is in the directory, depends on where it is in its
command (`Located`), which stretches it has walked (`Walked`), which locks it has
(`Owned`), and on nobody changing the directory meanwhile (`EntryKept`), which in
turn needs the directory to be locked for writing and one writer to be alone
(`WriterAlone`). These conjuncts are `LocksOwned`; TLC checks them in `moves`.

A step of `t` changes the table in one of six ways (`TableStep`), each of which
keeps the types, keeps writers alone, and takes no lock from another thread
(`TableKeeps`). So all that is known of another thread `u` stays (`OthersPart`),
given that `t` writes only what it has for writing (`WritesOwn`). For `t` itself
there is one lemma per action, or per group of actions that end in `Finish`. The
heart is `ParentsOwned`: where a thread is about to link, unlink or rename, the
directories it works on are held for writing, by cases on which of the two
stretches of a move are empty, which is how `fs.c:306-313` chooses the access.
The module begins with the lemmas on paths (what the common ancestor of two paths is,
and what is left of each below it) and directories (which entries each operation
leaves).

*The tree* (`TfsFsProofs`, its last part). That the directories form a tree and that every thread
is on its way in it need one another, so they are one invariant. `Structure` says
that each inode in use has one name, except the root and what a thread brings or
takes away, and that these have none; `Grounded`, that no set of inodes names only
its own members, which is what makes the names a tree and not a tree beside a
cycle. `Way` says how far a thread has come in its stretch (`Placed`), that the
chain of inodes it has locked is the one the path names (`OnPath`), that the inode
it waits for has the name it was found by (`AtTarget`), and what it has made sure
of before it changes the tree (`Ready`).

A thread keeps its way while others step because what it has locked does not
change: only its writer changes an inode, and a writer is alone (`OthersHold`).
The hard step is a move (`RelinkedStructure`). Suppose some set named only itself
after it. If the moved inode were not in it, it did so before. If it were, so
would its new parent, which the thread has locked; and the members the thread has
locked would have named only one another before, because what names an inode on
the way of a thread is on that way too, up to the root (`HeldClosed`). The moved
inode is not one of them: it was granted for writing, to a thread that would
have been in its own way had it been above the new parent.
No lemma needs the comparison of texts at the start of
`tfs_fs_move`. A print has the root for writing, so every other thread is
waiting for its first lock or letting go, and of those only `FreeInode` changes the
table, at an inode that has no name (`PrintAlone`).

*The paths* (`TfsFsProofs`, its first part). `Namespace` is computed from the root down, one
name at a time. `IsWay(D, p, c)` says the same without the computation: `c` is the
chain of inodes the path `p` goes through. In a tree (`Tidy`: the root has no name,
and nothing has two) one path leads to an inode and it is shorter than the table
has inodes, so that `Reached` finds all of them. These are inductions over the
length of a path; the induction theorems of the library take an operator, which the
provers cannot instantiate, but the well-foundedness of `<` on numbers, as a
relation, they can use (`Induction`). The rest says what becomes of
every path when an entry is added (`LeadsAdded`), removed, or moved with all that
is below it (`LeadsMoved`).

*Linearizability* (`TfsAtomicProofs`). `Course` says what no step needs but the
outcome does: the stretches a thread has left are complete, and no result is there
before it is decided. So a thread has locked the inodes of the path `Trod`, and
`Foot` is where this path leads (`TrodLeads`). An error of a walk is then right
because the path of the command begins with `Trod` and one more name, which is not
there, or goes on below a file. A success is right because the two parents are
where the paths of the command lead (`ParentsReached`), and because of what
`LeadsAdded` and `LeadsMoved` say of the namespace after it. Every other step
leaves the namespace alone. A move of `p` onto a path below `p` cannot occur:
its thread would be in its own way. A name that is not empty is what keeps the
path of a client and the path of an inode the same thing; hence `NoMoveToParent`.

*The locks* (`TfsLocksProofs`). `LocksOwned` says which locks a thread needs, not that
it has no others. `Has(t)` is what the thread counts as locked: what is on its way,
the inode it works on, the list it is unlocking. `SharedOwn` and `UniqueOwn` say
that it has nothing else; every step keeps them, but `MoveFails` leaves the moved
inode behind (`HasFollows`), and that one has it for writing, so that `SharedOwn`
needs no hypothesis. `Once` and `Left` say that no inode is twice on a way or in a
list, which needs that the paths of the two legs part (`LegsApart`); with these
every step is one that `TableSpec` allows.

For `NoWaitCycle` the inodes are put in an order: by their paths, where the path
that is the beginning of another comes first, and otherwise the names decide at
which the two part (`Precedes`, `Ahead`). In every state this is a strict order,
because one path leads to an inode; it changes as the tree does, which does no harm,
because threads that wait for one another stand still. What a waiting thread has
comes before what it waits for (`HeldAreAhead`): on its own leg because it walks
down, across legs by `LegsFollow`. The lock of a child (`fs.c:231`) is not in that
order, but the child of a remove or move is on nobody's way: who is there has its
parent locked, which the thread has for writing (`ChildFree`), and a thread is not
in its own way (`ChildNotHeld`). So among the inodes that the threads of a cycle
wait for, the last in the order is had by none of them.

*The array of a directory* (`InodeDirSlotsProofs`). `EntriesDiffer` with the types is
inductive: what is added has been searched for, a rename changes a slot to a name
that no other slot has, and the slots of `Grown` are free. Each step then maps to
the step of `InodeDirMap` of the same name, because the entries of the array, as a
function from names, are what `AddEntry`, `RemoveEntry` and `RenameEntry` compute.

*Clients and workers* (`TfsRemoteProofs`). `AnswersOwn` counts:
the requests, jobs and answers of a client that never gave up are at most one
together, and that one carries the number of the call that waits. The lemmas say
how each step moves one datagram (appended to a queue, taken from its front, kept
as a job), and that a step for one client leaves those of the others. A worker that
is stuck has a job of a client whose socket is full, which are two things underway: so
that client has given up. Where a client mounts again the worker stays behind, still
with that job, and a client that gave up stays one that did: the invariant
`StrandedByUnclean`, and with it `PatientClientsBlockNobody`. For `AsIfLocal` a second
invariant says that until the first fault or given-up call a datagram holds
the command its client has called (`Smooth`); each step is then a step of
`AtomicFs` for that client, or leaves its variables alone.

*Output files* (`TfsPrintProofs`). `Whole` says of a print that has its file to itself
that its offset is the end of the file, and that what is in the file, what is in
the buffer and what is still to print are, one after the other, the tree it locked.
A line that is printed moves from the third to the second (`LineMoves`), a buffer
that is written from the second to the first (`WrittenAtEnd`), whenever that is.
`Apart` is what `alone` means: the file of such a print is not the one another worker
has open, so a write of that worker changes nothing in it, and an `fopen` of the
same file ends `alone`. When the root is unlocked nothing is left to print, and
`fclose` leaves nothing in the buffer.

*Texts on their way* (`TfsWireProofs`). The invariant `WireInv` is short: what has
been executed is what `Served` makes of the datagrams of the commands that were
asked, and only the last of these may still be in the socket. The work is in
`WhatArrives`, which says what `Served(Datagram(c))` is for every command of words.
What the server parses is the beginning of the text, of the size of its buffer:
no newline ends it sooner, and the NUL that follows a text that fits is where
`sscanf` stops (`Received`). Of such a beginning `sscanf` finds the letter alone, or
with a part of the path, or with the path and a part of the rest, as it is long
(`TokensOf`). With the letter alone or a word too few it is refused; otherwise it is the
command, or the same operation with a shorter last word, which a create cannot be
because its last word is one character (`OutcomeOfTwo`, `OutcomeOfMove`,
`OutcomeOfCreate`). Underneath are lemmas on scans: the first character of a kind
exists by the well-foundedness of `<` (`FirstInCases`), and where it is decides what
comes before and after (`AfterSpaceIs`, `BeforeIs`, `NextWordIs`).

The same lemmas follow the client program through its file. What a file means is
defined by places again: a line begins at a character that is not blank if a newline is
between it and every such character before (`LineBegins`), an argument at one that is
not the first of its line and has none right before it (`ArgumentBegins`), and the n-th
command is the one whose beginning has n - 1 before it that are no comments (`UpTo`).
`FileInv` says that the client has read up to some place which is inside of no line
(`Breaks`), that it has sent as many commands as begin up to there, and that `line`
counts the lines, one more when it is about to read; when it has failed, that the last
of those lines means nothing. Each of its scans stops where a line of that
definition ends, with its newline or just before it when the buffer is full
(`LineScans`, `LineHeld`), so that exactly one more line begins up to the new place
(`Advance`, `AdvanceCounts`); and the tokens `sscanf` finds are the letter and the first
two arguments (`ArgumentPlaces`, `TokensOfLine`), of which the parser makes a command
just when the line means one, and that one (`LineMeans`). The client counts the lines
that are not blank; that this is the number of the line in the file less the blank lines
before it is counting newlines (`NumberLessBlank`). The theorems need
`LinesFit`: without it the rest of a longer line is taken for a line. `FileInv` was
checked with TLC on the instance of `wire` first.

*Paths as text* (`PathTextProofs`). The components of a text are defined by places: a
place is `Solid` if its character is neither '/' nor a blank, a component begins at
a solid place with a separator, or nothing, between it and those before, and it ends
at the last solid place without one in between (`Begins`, `End`); the n-th component is
the one with n - 1 beginnings before it (`Nth`). That makes it provable without
induction on the text: if all of one set of places comes before all of another, with a
separator between any two (`Parted`), the components at both are those of the first,
then those of the second (`ComponentsOfBoth`), because ranks in the union are ranks in
the parts (`NthOfBoth`). `tfs_path_trim` leaves the solid places as they are
(`TrimIs`), and the first and the last '/' part them (`SplitIs`); on one of the sides
there is one component (`PieceIs`). So a pop takes a component from its end, whatever is
around it (`PopFirstIs`, `PopLastIs`), and that nothing solid is left just when the
length is 0 holds because what a pop leaves is trimmed (`NothingLeft`). `Popped(p, cur, n)` says
of a loop that its first n components are gone: they are those of the text before
`cur`, which is what `tfs_path_common_ancestor` cuts off at its end; `LastTurn` says
that the loop ends when no more are shared. The words of `path.h` are defined by places
in the same way, with a blank for a separator too: without a blank inside a component
both begin and end at the same places (`WordsAre`), and behind such a blank a word
begins that begins no component (`WordInside`, `WordsMore`). The only assumption is that '/' and ' '
are characters; `LoopInv` was checked on the texts of `path_text` of three characters.

Only model-checked:

* `EveryCommandAnswered`, `EveryCallReturns`: liveness under fairness;
* `OrderRight` of `PathText`: the length of a path is a fold over its names, which only
  an induction with an operator for its argument could follow, and the order of the
  bytes is a rank among the words of finitely many texts.

## 5. Not modelled, and the plan

One thing is modelled otherwise than a kernel has it: after a `tfsMount` that failed
and took away the address of the client (`MountFails`), a worker that waits for room
in the socket there still is goes on waiting, and may find room; `TfsRemote` lets it
lose its answer. Only clients that gave up have a worker waiting
(`PatientClientsBlockNobody`), and the properties about answers except a client
without an address (`Served`, `~bound[c]`, `Undisturbed`).

Not modelled, with the reason:

* the destruction of the file system, of directories and of paths: the workers
  never end (`tecnicofs.c:114`), and otherwise it only frees memory;
* failed allocations, which end the process;
* the arguments of the two `main` functions, opening the input file;
* `mutex.c` and `cond_var.c`, which nothing uses;
* messages on stderr (`fs-error.c`, `*_error_print`) and the log of the worker;
* the test harness and `runTests.sh`.

What is left, in the order of its worth:

1. the composition of `TfsWire` with `TfsRemote`: a client that sends texts to
   several workers, in place of the set `Garbled`;
2. the order of the entries in a print, which needs the array in `TfsFs`.

To check: `tlc -config tree_ops.cfg MCTfsFs` (the module of each run is in
`PROJECT.json`), `tlapm TfsFsProofs.tla`.
