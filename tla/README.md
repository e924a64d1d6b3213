# B0 in TLA+

B0 is a build system written in OCaml. A build description declares *units*;
each is an OCaml function that adds *operations* (spawn a tool, read, copy,
create a directory, await other units). Operations wait until the files they
read are ready, are executed asynchronously, and their continuations add more
operations. Spawns are memoised in a cache directory that outlives builds, by
the hashes of what they read. The command `b0` itself is small: it compiles the
descriptions of a project to a program, the *driver instance*, and executes it.

This directory models the parts of it where state is kept in more than one
place, where processes and continuations interleave, where a program may be
interrupted between two system calls, and the hash functions, in C, that all
the rest trusts. The source is under `src/`, paths below are relative to it.

## 1. Inventory

| component | state | operations | modelled by |
|---|---|---|---|
| Operation guards, `src-lib/b0_guard.ml` | events by file and unit, the guards of each event, the awaiting set of each guard, the ready queue | `add`, `set_file_ready`, `set_unit_ready`, `ready` | `Guard`, `GuardSpec`, `GuardProofs` |
| Random queue, `src-std/b0_rqueue.ml` | array of slots, length | `add`, `take` | `RQueue`, `RQueueSpec`, `ExecProofs` |
| Executor, `src-lib/b0_exec.ml` | `todo`, `to_spawn`, `collectable`, `spawns`, `spawn_count` | `submit`, `collect ~block` | `Exec`, `ExecProofs` |
| Build, `src-lib/b0_build.ml` | unit states per aim (status, activity), operations, continuations | `start`, `add_op`, `spawn`, `read`, `await_units`, ..., `finish` | `Build`, `BuildProofs` |
| Resolution of blocked operations, `b0_build.ml:572-778` | unit statuses, files never written, guards left | `resolve_blocked` | `Resolve`, `ResolveProofs` |
| Operation cache, `src-lib/b0_cache.ml` | cache directory, memoised file stamps, `copying` | `exec`, `add_op` | `Cache`, `CacheProofs` |
| Cache trimming, `b0_cache.ml:226-272`, `src-exe/bzsize.ml` | cache directory, link counts, the plan of a deletion | `delete_files`, `delete_unused_files`, the `bzsize` command | `CacheTrim`, `CacheProofs` |
| Operations and units, `b0_op.ml`, `b0_unit.ml` | status, reads, writes; build status, activity | setters called by the above | inside `Build`, `Resolve` |
| Hash functions, `src-std/xxhash.c`, `MurmurHash3.c` | streaming state: lanes, buffer, length | one-shot, `reset`, `update`, `digest`, `copyState`, canonical forms | `Memory`, `XXHash`, `HashSpec`, `XXHStream`, `Murmur`, `HashProofs` |
| File hashing, `src-std/b0_hash.ml`, `b0_hash_stubs.c` | descriptor, mapping, view | `file`, on POSIX, Windows and other systems | `HashFile`, `HashProofs` |
| File writing, `src-std/b0_os.ml` | temporary files renamed over their target | `File.write`, `with_oc`, recursive deletion | `FileWrite`, `CommandsProofs` |
| Variants, `src-lib/b0_variant.ml` | variant directory, scheme, configuration | `create`, `reset`, `delete` | `Variant`, `CommandsProofs` |
| Driver instances, `src-driver/b0d_driver.ml`, `b0d_driver_compile.ml` | compiled instance and its stamp | setup, compilation on demand | `Driver`, `CommandsProofs` |
| Root descriptions, `b0d_root_descr.ml` | merged compile kinds and includes | fold over descriptions | not modelled, see 5 |
| Configuration, environment, metadata, outcomes, other `src-std` | typed maps, parsers, printers | pure | not modelled |
| `src-b0`, `src-care`, `src-d0`, other `src-exe` | none of their own | command line, build rules written with the API | not modelled |

How they interact: the build adds an operation to the guards; a ready one is
looked up in the cache, by the hashes of its reads, and is either finished at once
(Cached) or submitted to the executor; a collected one is finished: its writes are
announced to the guards, its continuation runs, and its writes go to the cache.
Variants hold the directories builds work in; the driver runs all of it. Within a
build everything but the spawned processes runs in one thread. The hard parts there
are therefore not data races but re-entrancy (adding an operation drains the queues
before it returns, so continuations of other units run inside a unit's function),
copies of one fact (guard lists and awaiting sets, `spawn_count` and `spawns`,
`activity` and the pending operations), processes that exit at any moment, and a
crash between two system calls. The file system is shared without locks: builds,
`bzsize`, other commands of `b0` and the user's editor act on the cache, the
variants and the instance at any time.

What makes each correct:

- guards: an operation is released exactly once, when all it awaits was announced;
- random queue: a bag, across growth and the move of the last element;
- executor: no operation is lost or executed twice, no more than `max_spawn`
  processes, a blocking collect waits only for a process and answers `None` only
  when all is done (but for the operations lost as in 6, item 4);
- build: `activity` counts what is left of a unit, so that a unit is Finished
  only when it is done, and every unit and operation has an outcome at the end;
- resolution: ends, and gives each blocked unit an outcome with a cause;
- cache: what is revived is what the command would have written;
- trimming: the directory gets to the size asked for, least valuable files first,
  and nothing is deleted that fits;
- hash functions: a digest does not depend on how the input is cut, nor on the
  processor, and no byte is skipped or read beyond the input;
- file hashing: an answer is the hash of the file, and nothing is held after it
  (an exception does leave something: `LeftByRaised` says what);
- file writing: a file at its path is whole, old or new, whoever else writes;
- variants: a command that reports success has done all of it;
- driver: the instance executed is one of the descriptions as they are.

## 2. Modules

**Guard.** One action per operation of the handler; the loop of
`set_event_ready` takes one step per guard (`firing`, `todo`). An event is the
file or unit it stands for. `GuardSpec` says what the handler promises with
three variables (the stage of operations, the events that occurred, the queue);
`Guard!Promise` instantiates it, and `KeepsPromise` is its specification.

**RQueue.** The array as a function from slot numbers; the random draw is a
choice among the slots below `length`. `RQueueSpec` is a bag. The definitions of
`RQueue` begin with `Queue` where `Exec` has one of the same name: their proofs
are in one module.

**Exec.** A call of `collect` is followed by a program counter `pc` with one
value for each part of the code (the header of the module has the table);
processes exit in between. `max_spawn` is a variable that `Init` chooses and
nothing changes, as the field of the handler. What operations do to files is
left out. The assertion that fails when a temporary file cannot be opened
(`TmpError`) leaves the call of `collect`, and drops its operation. What comes then
depends on the caller: a collect that does not block is one of `add_op`, called
by a build function or a continuation under `fail_unit_on_exn` (`b0_build.ml:245-253`),
which catches the exception, so that the handler goes on without the operation
(`pc` "idle"; `lost` is history); a blocking one is of `finish`, which it ends, as
`Queue.Empty` does (`pc` "fault", the value of `fault` is the exception).

**Build.** The call stack is a variable: a frame for each unit function,
continuation, `submit_ops` and `collect_ops` in progress. What the user's
functions do is a choice at every moment their frame is on top: add an operation
of one of the shapes, announce a source, return, fail with `Fail` or with another
exception. The guards, the executor and the cache are used by what they promise:
`GuardSpec` without its order, `Exec`'s `InOnePlace`, `NoneWhenDone` and
`Completes`, and a cache that may revive any spawn that writes. In the settings with
`tmp_fails` the executor may lose an operation with an exception (`CollectRaises`):
it goes to the build function or continuation that called `add_op`, which may catch
it or raise in its turn and so fail its unit, or it ends `finish` (`phase` "raised").
A unit has a state per aim (`Inst`), as the two maps of the code.

**Resolve.** The four loops over the guards, one guard per step. `Init` is any
set of blocked operations a build can leave, of units that are Active or failed; an
Active unit may have none (the executor lost its operation). `get_unit_state` on an awaited unit
that is not in the build set asserts false: `AbortAssert` and the value "fault"
of `pass`. `Build` uses it by its result: stuck units fail or are aborted.

**Cache.** The loops of `put_writes_from_cache` and `put_writes_in_cache` take
one step per file. A file of the build directory is a link to a cache file or has
data of its own, so a write through a link is a write to the cache. `setting` is
chosen by `Init`: whether the cache is on another file system, and which of the
following happen, at any moment: a build is interrupted ("crash"), cache files are
deleted ("evict"), a source is saved during the build ("edit"), a system call
fails with something else than ENOENT, EEXIST or EXDEV ("put"), a copy is cut
short after its rename ("torn"). A property names the ones it excludes. A build
that is interrupted takes its command with it (see 5).

**CacheTrim.** `bzsize` by its system calls: listing, one `stat` per file, the
sort, one `unlink` per file. Several runs work on one directory while builds put
files in it, link to them and remove links (`Put`, `Relink`). `PctSize` is the
double-precision product of the code, with its truncation, for directories below
2^45 bytes; the size of files is the number of their bytes (`BytesOf`). `listed` and `alone`
are history, to say what a run may be blamed for. `MCCache` has it beside `Cache`:
a behaviour is of one or of the other, since `Cache` already has the deletion of
any file at any time (`Delete`) and `CacheTrim` any build (`Put`).

**XXHash, XXHStream, HashSpec, Murmur, Memory.** A word is a function from the
significance of a byte to the position it was read from, a lane the sequence of
words it took: arithmetic is not computed, and two results that are equal here are
equal whatever the bytes. What is left is what goes wrong in such code: indices,
byte order, the buffer, the length that wraps. `HashSpec` is the promise of
`xxhash.h`, a state being the length it was given; `XXHStream!DigestIsOneShot` is
the refinement. The functions are vendored, and b0 uses a part of them: its stubs call
the one-shot `XXH64` and `MurmurHash3_x64_128` only (`b0_hash_stubs.c:123`, `136`,
`144`, `154`). The streaming functions and the others are modelled because they are
compiled with b0, not because it calls them.

**HashFile.** One step per system call of `file` and of the stubs, each of which
may fail; another program writes, extends and truncates the file in between.
`held` counts descriptors, handles and views over all the calls of a program. Its
`FileSpec` is called so because its proofs are in one module with those of `XXHStream`.
A page beyond the end of a file that was truncated after it was mapped kills the
process on POSIX (SIGBUS): `pc` is then "killed".

**FileWrite, Driver, Variant.** `FileWrite` has the steps of `File.write` (open a
temporary file, write, rename, close) for the commands that use it: `Driver` with
the versions of sources and libraries, `Variant` with its files. Each step may fail,
and each process be killed, with the compiler it waits for, at each step. The content a channel still has in
its buffer reaches the file when it is closed, which is after the rename: a file
is `Torn` in between. `MCCommands` composes them; a behaviour has the commands
of one of the two, which share no files.

Definitions whose comment begins with "Mutant" are changed forms of the next
one, each a plausible slip; no specification uses them. They are there to show
that the properties tell the difference: with the changed form a property fails.

## 3. Runs

| run | instance | distinct states | shows |
|---|---|---|---|
| `guard` | 3 operations, 2 files, 1 unit | 21 042 | lists and sets agree, the handler implements `GuardSpec`, all that should be is released |
| `exec` | 3 spawns (one with a temporary file), 1 synchronous operation, `max_spawn` -1, 0 and 2 | 148 552 | nothing executed twice, nothing lost but for a temporary file, the bound, what a blocking collect waits for, completion |
| `build` | 2 units: 1 file, 5 shapes, 3 operations; or one unit the tool of the other, 3 shapes, 2 operations; or temporary files that cannot be opened, 1 file, 5 shapes, 2 operations | 1 130 936 | the activity counter and what it decides; the build ends |
| `resolve` | 3 blocked operations of 3 units, 1 file | 489 960 | asserted statuses, outcomes and their causes, the end of the loops |
| `cache` | an operation with 2 writes, another reading one of them, 2 contents, 5 settings; and 2 runs of `bzsize` on 3 files, two of one size, with 3 command lines | 1 353 450 (9 283 of the builds) | soundness of the cache and of what is revived; what is deleted, and in which order |
| `rqueue` | 2 elements, 1 slot at first, 5 elements at most | 204 | the bag, over three growths |
| `hash` | both functions and byte orders, 2 states, 2 seeds, segments of 0, 5, 16 and 59 bytes, inputs up to 66 | 126 208 | any cut of the input, on any processor, gives the hash of the whole |
| `hashfile` | 3 platforms, 2 functions, 2 calls, files up to 4 pages, 2 writes by others | 70 936 | the answer, the reads, and what each call that raises may leave, whichever system call fails |
| `commands` | 2 processes, 2 versions, 2 edits, or 2 creations of a variant | 1 367 451 | files are whole, the instance executed is current, what is reported is done |
| `build_stopped` | 2 units, 3 operations | | violated, see 6 |
| `build_twice` | 2 units, one a tool for the build OS only | | violated, see 6 |
| `resolve_await` | 2 units, 2 blocked operations | | violated, see 6 |

`MCExecLost.cfg`, `MCExecJ0Block.cfg`, `MCCacheCrash.cfg`, `MCCacheTrim.cfg` and
`MCCommandsStale.cfg` give further counterexamples, for section 6.

Why these bounds: with three operations a guard list has two guards besides the
one being visited, and an operation can await two events of each kind; three
spawns against `max_spawn` 2 is the smallest instance where one waits for a slot
while another exits. Three operations in `build` give an operation of a unit that
waits for one of another unit while a third one's continuation runs. Three units
in `resolve` give chains of aborts, and three guards give each order in which the
loops can meet two guards of one unit and one of another. In `cache` two writes
are what an interrupted loop needs, and the reader makes one key depend on
another operation's output; builds are repeated without bound. Three cache files,
two of one size, exercise each criterion of the order. `Capacity` is 1 in place of 256: the code doubles whatever the
length is. In `hash`, `Mod32` is 32 in place of 2^32, so that the length wraps
within the inputs, which reach twice the longest stripe; the segments are empty,
shorter than a word, one stripe of XXH32, and several stripes with a rest. The
lengths they add up to leave out some remainders of 16, which matter to `AbsorbsInput`:
the theorem `EveryByteIsAbsorbedOnce` is for any length. In
`hashfile`, `IntMax` is 2 pages, so that a file of 4 does not fit an `int`. Two
processes and two versions are what an edit that is undone between two setups
needs.
The bounds are the `ops` of a setting (`Build`), `N` (`Resolve`), `MaxLength`
(`RQueue`), `MaxInput` (`XXHStream`), `MaxSize`, `MaxWrites` and `MaxCalls`
(`HashFile`), `MaxEdits` (`Driver`) and `MaxCreates` (`Variant`).

Deadlock is checked by `cache`, `rqueue` and `hash`, and off where the system
stops when its work is done (the build, the resolution, a handler that an exception
left, a process that was killed, a command that ended).
Symmetry is used in `cache` (contents of sources, runs of `bzsize`), `hash`
(states, seeds) and `commands` (processes, versions): no definition tells these
apart, and none of these runs checks liveness.

Fairness: `Guard` assumes that the loop of `set_event_ready` goes on, `Build` and
`Resolve` that the single thread does (weak fairness of the next step: user
functions return and the bound on operations limits what they add). `Exec` assumes
that the handler goes on, that each process exits, and that the build calls
blocking collects, which `finish` does until it answers `None`
(`b0_build.ml:438-444`). The other modules state no liveness: what they do when
a process is killed or a system call fails is to stop.

## 4. Proofs

TLAPS checks, for every value of the constants:

`GuardProofs`. `IInv` is inductive: the type invariant, `GuardsMatchAwaiting`,
lists without duplicates, `StatusMatchesPlace`, `AwaitsTheUnannounced` and the
shape of the loop. `GuardsMatchAwaiting` alone is not inductive: in the middle of
the loop the list of the fired event still has guards that were told already, so
`Pending` reads the rest of the loop instead, and that a guard is told once needs
that lists have no duplicates. `StatusMatchesPlace` needs both, for a guard whose
last event is removed was Guarded until then. There is a lemma per action, then
`HandlerInvariant` (`Spec => []IInv`) and, from it, its invariants,
`OccurredForever` (an action property) and `Refinement` (`Spec => KeepsPromise`).
The assumptions are that files and units are different things and that `NoEvent`
is neither.

`ExecProofs`. The four invariants of the run and `NoneWhenDone`, for any
operations and any set of integers as `max_spawn`. `Starves` follows a blocking stir,
which begins with something left to do: it ends with a completed operation unless
`max_spawn` is 0 (`BlockingStirGivesAnOperation`, the comment of `stir`). `AtMostMaxSpawn` needs to know,
inside the loop that spawns, how many slots are left (`Slots`), because the loop
does not count the spawns that failed; `CountsProcesses` is about `spawns` and the
two lists of the fold that replaces it (`Tracked`); and that no operation is in two
places (`InItsPlace`) needs that no list has it twice (`NoDuplicates`). The
assumptions are about the kinds of operations. At the end of the module are the
proofs of `RQueue`, the array that `todo` stands for: `QueueIInv` is the type
invariant and `Filled` (`TakeFindsElement`), and `QueueRefinement` shows that it
implements a bag, with lemmas on the number of slots an element has before and after
`add` and `take`. The assumptions are that `None` is no element and that the capacity
is a positive number.

`BuildProofs`. The five invariants of the run and `OutcomesStay`, for any units, files,
shapes of operations and settings, and however deep `add_op`, `submit_ops`,
`collect_ops` and the user's functions call each other. The one hypothesis of its theorems is
`ToolsApart`, that no tool is built for the build OS only: `build_twice` shows that
`PendingOpsOfLiveUnits` fails without it. Each part of `IInv` is there for a reason:

- `Calling`: what is on the stack. A unit whose function or continuation runs is Active
  or Failed, an `add_op` is called by a function of the unit it adds to, and the
  last frame of `finish` is its collection loop, which returns only with the queues
  empty: without the shape of the stack nothing is known of the caller when a frame
  returns.
- `Places`: the operations of the ready queue and of the executor are those with
  status Ready and no result, so that what is unfinished can be told by the status;
  one that is Ready with a result was lost by the executor.
- `Counts`: `ActivityExact`, and that the activity of an Active unit is not 0. The
  second half says that the code never forgets to look whether a unit is
  finished: at the end an Active unit has no operation left to make its
  counter positive, but those that were lost, hence `EndsSettled`.
- `Successes` and `FinishedAreOver`: operations of a unit that did not fail are pending
  or ended well, and none is pending once it is Finished: together `FinishedIsDone`.
  With `Absent`, `FinishedAreOver` gives `PendingOpsOfLiveUnits` (`PendingLive`).
- `Absent` and `NotStarted`: a unit without state has no operations or calls, and the
  units `start` has still to visit have none. This is where `ToolsApart` is used.
- `Announced`: what was released awaited announced units only, and they are over.

There is a lemma per action; those of an action that ends an operation or a call go through
`UnitStep`, which says what any step that decrements the counter of one unit owes
to the invariant. `OutcomesStay` has a part for units (`UnitOutcomesKept`), which needs
that what runs belongs to a unit that is Active or Failed, and one for operations
(`OperationsKept`), which needs that an operation with an outcome is in no queue.

`ResolveProofs`. The three invariants of the run and `OutcomesStay`, for any number of
units, files and blocked operations. `IInv` follows a guard through the four loops: one that
has left the lists has an outcome (`Resolved`), those to visit and those visited have the
statuses the loop expects (`ToVisit`, `Visited`), and a file recorded as never written is one
of a unit that is over (`NeverWritten`), which gives an abort its cause. The delicate part is
the second loop: it aborts units whose other guards it has visited already, and these must
not reach `fail_cycles`, which asserts that they are Active or Failed. `Visited` says why
they do not: they are kept only in a round that counts a guard, after which the loop starts
over. `StepsGetCloser` gives a measure of three numbers that each step decreases: the
guards left with those resolved by the current round, the loops still to come, the guards the loop
has still to visit. What `Terminates` adds to it is fairness and that a step is possible,
which are left to TLC.

`CacheProofs`. The four invariants of the run and `EntriesImmutable`, for any
operations, files and settings. The inductive invariant is
`Shape /\ GetsRevived /\ StampsOfOps /\ CachedIsRevived /\ Missing /\ Sound`: `Sound`
says, of settings without the faults that `CacheSound` excludes, that the hashes a
build memoised are those of files as they are, and that what is written, what is in
the cache and what was linked so far are the outputs of those reads; `GetsRevived`
what an interrupted loop of revivals has done already; `Missing` that a file that is
still to be written is not there. `EntriesImmutable` follows from `Missing`: a command
never starts with a link to a cache file at one of its writes. The assumptions are
`WritesOfOps` (each file has one writer, no operation writes a source) and
`ConstantsOfCache`.
The second half of the module is about `CacheTrim`: `TrimmedToBudget` and
`DeletesByPolicy`, for any files, command lines and number of runs. `TrimIInv` says of
each run that what it listed and is still there is to be visited or was examined, once
(`Accounted`), and that `current` is the size of what was examined and is left (`AtPoint`):
the first property follows, whatever others delete. The second one needs `Knows`: for a run
that nothing misled, what it examined is as it was, but for files that another run deleted,
and each of these comes before all that is there in the order. So a file that is
there when its turn comes shows that none of what `current` counts is gone. Another
run keeps `Knows` because it deletes by the same order, if nothing misled it either:
this is what the history `alone` says. The lemmas are on sizes as cardinalities,
and on the least element of the order. The assumptions are `FilesOfCache` (a listing is
finite and has no file twice) and `CommandLines`.

`HashProofs`. `LanesInOrder` is the inductive invariant, with the types and
`LongIfAStripe`: however the input was cut, the lanes hold its stripes in order and
the buffer what remains. `AlwaysLongIfAStripe` is why the total length may wrap, and
`DigestIsAlwaysOneShot` the refinement of `HashSpec`, for any states, seeds and
segments. The assumptions are that segments are lengths and that the modulus is at
least 32, more than the 16 bytes of a stripe of XXH32.
`EveryByteIsAbsorbedOnce` is `AbsorbsInput`, for inputs of any length: the words of
a lane have its part of the bytes, those whose place in a stripe or block is the lane's
(`Part`), each once; the parts and the rest or tail are disjoint and are the whole input.
Then the places in all lanes and the bytes are one to one, so that there are as many. It
is a fact about the operators; the invariant gives only that lengths are natural numbers.
At the end of the module are the three properties of `HashFile`, for any sizes and
number of calls: `FileIInv` relates what is held to the place of the call and to the
number of calls that raised before, and what was read to the file as long as nobody writes
to it. `WhatCallsLeave` bounds what these calls left, and by it a call that
answers leaves nothing. That no call leaves anything does not hold: each system call of the
mapping that fails raises, and leaves what was got before it.

`CommandsProofs`. The three invariants of the run, for any processes, versions and
numbers of edits and creations; no assumption is needed. `FilesInv` is the part that both
kinds of commands share: a torn file belongs to a write between its rename and its close, or
to a compiler that links (`TornAreOpen`), and a temporary file to a write that is about to
rename it, as long as nothing was killed; and a process that is `calm` and at work is the
only one at work (`Alone`). What was done so far needs to be known only of that one, since
no other process takes a step before it ends or is no longer calm: `Setup` says it place by
place of the setup of an instance, `Command` of the commands on a variant. What is left over
from setups and commands that ended is said without reference to a process. For an instance
it is `StampMatches`: if the last compilation was stamped, the stamp is of the instance beside it.
That is false while a compilation is in progress, hence `NotStampedYet`. For a variant it is
`Cleaned`: after a complete deletion there is no file of a build without a scheme.

`SeqLemmas` has the facts about sequences without duplicates that these use.

Only model-checked: `ReleasesAll`, `Completes` and both `Terminates`, which are
liveness, out of the prover's reach. Every other property of a passing run is proved.

## 5. Not modelled

- What the commands and the user's functions compute (any outcome is possible);
  the contents of operations, log and progress output, and typed maps with their
  codecs; outcomes, configuration, metadata and the store; command lines. They are
  pure, or read and print what the models have.
- The parsing and merging of root descriptions. The assertion on compile kinds that
  conflict (`b0d_root_descr.ml:133`) cannot be met: the kind that is
  added is the one of a single description, which never is the conflict.
- `b0_time_stubs.c`: a clock. Times are displayed only; on Darwin the product of
  ticks and numerator wraps after a long uptime.
- The arithmetic of a hash round, and so the quality of the functions. Stamps do not
  collide in `Cache`, although the stamp of a spawn concatenates its parts without
  separators and leaves out the working directory and the accepted exit codes
  (`b0_cache.ml:176-193`).
- Ordinary permissions and disk errors are met only through "put" and "torn" in
  `Cache`, and as the failure of any step in `HashFile` and the commands.
- `bzsize` asks first whether the directory looks like a cache; the temporary files
  of copies in progress make it refuse. Its statistics are printed only.
- A guard whose unit a cycle made fail is dropped without its writes being recorded
  (`b0_build.ml:683`): what dependents then are is a question of wording, see 6.
- A signal that ends b0 alone. An interruption in `Cache` and `Kill` in `FileWrite` end
  the command or compiler too, as a signal from a terminal does. One that goes on
  after b0 writes to a build directory or an instance as a process nobody waits for:
  the next build trashes that directory first, the next setup may execute what it writes.
- The deletion of the trash directory is not awaited by `finish`
  (`b0_build.ml:782`) and has no model.

## 6. Where code and text disagree

Shown by a run, and described in `PROJECT.json`:

1. `build_stopped`: an operation that fails without a continuation is counted out
   of its unit twice (`b0_build.ml:406` and `413`), so an awaited unit is announced
   while it has operations running, against `await_units` (`b0.mli:3173-3174`).
   `ActivityExact` therefore speaks of Active units only.
2. `build_twice`: `start` does not ask whether a unit was started as a tool.
3. `resolve_await`: the test for mutual waits compares the same unit twice
   (`b0_build.ml:701-702`), so the deadlock of `test/op-fails/B0.ml:90` is not
   found to be one.

Shown by a configuration of its own, which TLC refutes:

4. `MCExecLost.cfg`: if the temporary file for the output of a spawn cannot be opened,
   the error path asserts false (`b0_exec.ml:55`) after the operation left the queues.
   A build function or `fail_unit_on_exn` catches this, the build goes on, and a later
   blocking collect answers `None` with the operation incomplete, against
   `b0_exec.mli:38-41`. `NoneWhenDone` says that no other operation is. In `Build` its
   unit may never get an outcome, while the one that is failed is the one whose function
   called `add_op`, which may be another: `EndsSettled` has this as its exception.
5. `MCExecJ0Block.cfg`: with `-j 0`, which the command line accepts, a blocking
   collect raises `Queue.Empty` (`b0_exec.ml:229`), against the comment of `stir`
   (`b0_exec.ml:196-197`).
6. `MCCacheCrash.cfg`: after an interrupted build, or the deletion of one of the
   cache files of an operation, EEXIST ends the loop that fills the cache
   (`b0_cache.ml:160`), and the operation is executed in every build from then on,
   against `b0.mli:4038`.
7. `MCCacheTrim.cfg`: 100 percent of 29 bytes is 28 in the arithmetic of
   `b0_cache.ml:263`, so that a directory that fits loses a file, against
   `b0.mli:2961-2964`.
8. `MCCommandsStale.cfg`: a setup that is interrupted between the compilation and
   the writing of the stamp, for an edit that is then undone, leaves an instance of
   other sources under a stamp that is valid, against
   `b0d_driver_compile.mli:25`. `InstanceIsCurrent` excludes it by `stamped`.

Met while modelling, without a run of their own:

- Build. A failed unit is announced like a finished one (`b0_build.ml:260-262`),
  although the comment of the resolution speaks of "waiting on units that never
  finished" (`577-579`); and unit readiness does not tell the aims apart.
  `AwaitedAreOver` states what is left of the promise. Awaiting a unit outside the
  build set ends in an assertion failure (`b0_build.ml:224`, from `633`): `Terminates`
  of `Resolve` has it as the one way out of the loops. Dependents of a guard dropped
  at `b0_build.ml:683` fail instead of being aborted.
- Cache. A source that is saved between its hashing and the run gives a cache file
  with the wrong content; an I/O error midway through reviving leaves links through
  which the command then writes into the cache (`b0_cache.ml:127-129`, `209-210`); a
  cache that is copied to may keep a file cut short (`b0_os.ml:272-303`). These are
  the conditions of `CacheSound` and `RevivedIsSuccessful`.
- Trimming. One of two runs of `bzsize` may end with an error, because a file it
  listed is gone when it asks for its status; and a run whose figures builds have
  made stale deletes more, or other files, than it needs. These are the conditions of
  `TrimmedToBudget` and `DeletesByPolicy`.
- Files. `File.write` closes its channel after the rename: if that fails, the error
  is reported and the target is torn, against "left untouched" (`b0.mli`, about line
  1741).
- Variants. A creation that fails in `init_conf` leaves the variant; a deletion that
  was interrupted leaves parts that a new creation inherits; of two creations at a
  time both may report success; a torn scheme file reads as an unknown scheme.
- File hashing. `B0_hash.file` lets `Sys_error` of a directory or of a truncated
  file escape where `b0.mli:2182` has a result, and then keeps the descriptor. On a
  platform that is neither POSIX nor Windows every file hashes as the empty one, with
  a warning of the compiler. The error path of `MapViewOfFile` closes `c` instead of
  `*c`. MurmurHash3 takes the length as an `int`: `OkIsTheContent` excludes larger
  files for it.
- `proxy_setup` of a variant scheme gives the function that creates
  (`b0_variant.ml`).
