# Qryptonight: a verification development

TLA+ models, model-checking configurations and machine-checked proofs for
`pyqryptonight`. Its C++ library: a miner that searches for a nonce with several threads
and calls a handler back, the pool of hash objects its threads share, the hash object
itself, and the proof-of-work arithmetic. And its Python side: how a version is found
(`versioneer.py`, `pyqryptonight/_version.py`), and what the commands of `setup.py` and
`versioneer.py` do to a checkout and a release on the way. Paths below are relative to the
repository's source tree; line numbers of `qryptominer.cpp` and of the other C++ files are
those of `src/qryptonight/`, `src/pow/` and `src/misc/`.

## 1. The system

| Component | State it keeps | Operations | Talks to |
|---|---|---|---|
| `Qryptominer` (`qryptominer.{h,cpp}`) | current work (`_input`, `_target`, `_work_sequence_id`), stop and found flags, the solution, deadline and timer flag, the vector of threads and their counter, the event queue, four mutexes and a condition variable | `start`, `cancel`, `setTimer`, `disableTimer`, `waitForAnswer`, getters, the destructor; the workers' loop; the event thread | the pool (one object per worker), `PoWHelper::passesTarget`, the user's `handleEvent()` |
| `QryptonightPool` (`qryptonightpool.{h,cpp}`) | a stack of idle objects, a mutex; its own `shared_ptr` count | `acquire`, the deleter of what it returns, the destructor | `Qryptonight` through a factory |
| `Qryptonight` (`qryptonight.{h,cpp}`) | static: initialised flag, hash function; per object: a scratchpad | constructor, `hash`, destructor | xmr-stak (Windows), py-cryptonight (Linux, macOS): submodules, not in the tree |
| `PoWHelper` (`src/pow/`) | five parameters | `getDifficulty`, `getTarget`, `passesTarget`, `verifyInput` | `bignum`, a pool of its own |
| `bignum`, `strbignum` (`src/misc/`) | none | byte vectors to numbers to decimal strings | boost::multiprecision |
| SWIG interface (`src/api/`) | none | exception mapping, the director of `handleEvent` | all of the above |
| Version lookup (`versioneer.py`, the generated `pyqryptonight/_version.py`) | none: it reads `_version.py`, its keywords, `setup.cfg`, git and the names of directories | `get_versions` of both, six `render_*` | git, as four or five processes |
| Commands (`setup.py`, `get_cmdclass()`) | `_version.py` of the worktree or of a release tree, egg-info, the name of the distribution | `version`, `sdist`, `build_py`, `build_exe`, `py2exe`, `build_ext` | the lookup, distutils, CMake |
| `versioneer.py setup` | `setup.cfg`, `_version.py`, `__init__.py`, `MANIFEST.in`, `.gitattributes` | `do_setup`, `do_vcs_install`, `scan_setup_py` | `git add` |
| Build files, tests | none | | |

How they interact. A *client* calls `start()`; each worker thread takes a `Qryptonight`
from the static pool, hashes the input with its own nonces (`i, i + n, i + 2n, ...` of `n`
threads), and claims a solution under `_solution_mutex`. Worker 0 also watches the
deadline. Solutions and timeouts become events in a queue; an *event thread* calls
`handleEvent()` with `_event_mutex` held, and the handler may itself call `start()` or
`cancel()`, because that mutex is recursive. `cancel()` holds `_event_mutex` and
`_runningThreads_mutex`, joins all workers and moves the work's id on, so that events of
earlier work are dropped.

A *developer* runs one command after the other in a checkout. `setup.py` looks a version up
to name the distribution (`pkg_resources` first, then `versioneer.get_version()`); with
`get_cmdclass()` each command looks up once more and writes its answer into the release as a
short `_version.py`. A lookup asks git several questions, one process each, while the
developer may edit, commit, tag or check out; a command may be killed between any two
steps, and the next one finds what it left.

What is hard about it: three kinds of threads and five locks, of which two are held over a
`join()`; flags that are read without a lock; events that outlive their work; a
callback that calls back; a destructor that stops everything; a deleter that runs on
whatever thread lets go last, and runs again while an exception unwinds; a static
initialisation with a flag; three byte orders in one comparison; files that are replaced for
a while and must come back; answers about a repository that does not stand still; a chain of
fallbacks in which the wrong one may answer. `PROJECT.json` lists each hazard with its line and the
properties that cover it.

What makes each component correct:

* miner: no thread, solution or event of one work item leaks into another; one
  notification per work item and type; `cancel()`, the destructor and the search end;
* pool: an object has one user at a time, is deleted once, never lost, and created only
  when none is idle; the pool outlives the calls inside it;
* hash object: nobody hashes before the hash function has been chosen;
* `PoWHelper` and `bignum`: the difficulty stays in its bounds and moves the right way; a
  hash passes exactly if hash times difficulty fits into the width;
* version lookup: what git says is put together about one commit; two trees with the same
  version are the same commit; a release has the version of the tag it was made from, and
  has it wherever it is unpacked, from an archive as from a checkout;
* commands: the developer's files are never changed by `sdist` and `build`, and come back
  after `build_exe` and `py2exe`; a setup that reports success is complete.

## 2. Modules

| Module | What it is |
|---|---|
| `Qryptominer` | the miner: state, actions, safety and liveness properties; maps itself to `MiningSession` |
| `QryptominerInv` | its inductive invariant, in named parts |
| `MCQryptominer` + 4 cfgs | instances for TLC |
| `MiningSession` | what a miner promises the author of a handler, abstractly |
| `QryptominerInvProofs` | type correctness; locks, callers, current work, events, stop flag, clock; the theorems that follow |
| `QryptominerSolutionProofs` | thread count, solution, notifications; the theorems that follow; the refinement of `MiningSession` |
| `ObjectPool` | what a pool promises, abstractly |
| `QryptonightPool` | the pool and its deleter; maps itself to `ObjectPool` |
| `MCQryptonightPool` + 3 cfgs | instances for TLC |
| `QryptonightPoolProofs` | invariants and the refinement, for any holders and instances |
| `Qryptonight` | construction, static initialisation, hash, in the Windows build |
| `MCQryptonight` + 2 cfgs | instances for TLC |
| `QryptonightProofs` | safety of miners that share one pool |
| `Bignum` | numbers as vectors of bytes, at any width |
| `PoWHelper` | difficulty, target and verification over a chain of blocks; extends `Bignum` |
| `MCPoWHelper` + 1 cfg | three digits to the base 4 |
| `BignumProofs` | the round trips between numbers and vectors, and what their first difference decides |
| `PoWHelperProofs` | types, verdict and steering of `PoWHelper`, at any width |
| `VersionLookup` | the methods of a lookup and their order, as operators; git's answers |
| `Versioneer` | checkout, developer and commands as a state machine; extends `VersionLookup` |
| `VersioneerInv` | its inductive invariant, in named parts |
| `MCVersioneer` + 2 cfgs | small histories and scripts |
| `VersioneerSafetyProofs` | type correctness; the parts of the invariant; the theorems that follow |
| `ReleaseProofs` | what a version says about the tree it was made from |

Definitions whose comment begins with "Mutant of" are plausible bugs, used to show that
each property can fail; no specification refers to them.

### Qryptominer

A step is one access to shared state, or the accesses of a critical section that no other
lock or wait separates. State and code:

* `cpc`/`call`: where the client and, inside a handler, the event thread are in an API
  call. `start()` is eleven steps: `cancel()` (`lockEvent`, `lockRunning`, `join`), the
  writes of lines 157-166 one by one, the lock of 168, one `StartSpawn` per thread, and
  `StartReturn`, which is also how the exception of a `std::thread` constructor leaves.
* `wpc`, `nonce`, `tmpInput`, `wseq`, `stride`: the workers; places follow lines 179-229.
  A hash is not a step of its own: its result is a function of input and nonce, and the
  constant `Winning` says which nonces pass which target.
* `epc`, `event`, `queue`: the event thread. Blocking in `wait()` is two steps, so that a
  notification may come before the sleep; it may also wake up without one. A handler
  may accept (or throw, which `_sendEvent()` counts as handled) or reject, which puts the
  event back.
* `deadline` is relative: `DeadlinePasses` is time. It starts as `"garbage"`, as the
  atomic is not initialised, and comparing it then may go either way.
* `call[Client].op = "tidyDestroy"` marks a destructor that follows a `cancel()` of
  the client's own; the plain one follows anything.

`MiningSession` is the miner as a handler's author sees it: a session begins with a job
(the first `StartSpawn` of a `start()`) and ends with the next `CancelFinish`; between the
two the handler may be told (`EventSend`), once of a solution of that job and once of a
timeout, and accepts or rejects. A miner in its destructor has the base class take the
event (`Waste`). Everything else the miner does is a stuttering step of the session.

Left out: the hash rate, forced sleep, and the getters, which only read; the 32-bit clock;
an exception of `hash()` inside a worker; a second client thread; a worker's `acquire()`
(181), of which `QryptonightPool` has every step: waiting for its mutex only delays the
worker, and ends; an exception of the factory would leave the thread's function and end the
program.

### QryptonightPool

A *holder* is a place where an object may be in use: a worker, a caller of
`verifyInput()`. `Pinning` is the set of holders whose deleter has locked its `weak_ptr`; the pool
exists while its owner or one of those does. Critical sections are split, so that
dropping the lock would show. `PushFails` follows a `bad_alloc` exactly: `add()`
unlocks, the end of its parameter runs another deleter (`failures` counts the depth), and
on the way out each level deletes the object. What a run does after such a delete is what
the control flow would do if the heap survived it.

### Qryptonight

One object in each thread's hand. A thread constructs under the mutex of its pool
(`PoolOf`), or directly. `init()` is four steps (check, flag, parse, select). Allocation
may fail at both levels.

### Bignum and PoWHelper

`Bytes` and `Radix` stand for 32 and 256. The loops of `fromByteVector` and `toByteVector`
are recursive functions on the rounds, `gathered` and `shifted`, so that they can be proved
about; vectors have the right size, and the exception for others (`bignum.cpp:8-11`) is left
out. `getDifficulty`, `getTarget` and `passesTarget` are
operators in the source's order of steps (truncation towards zero, a step that rounds to
nothing still made, the boundaries in the code's order); the state machine is what users do
with them: each block's time gives the next difficulty and its target (`Retarget`), and
any hash may be tried against it (`verifyInput`). Doubles are exact fractions here, for
the reason in the module's header.

### VersionLookup and Versioneer

A method (`FromKeywords`, `FromFile`, git, `FromParentdir`) is the set of its answers, the
empty one being `NotThisMethod`; `OrElse` chains them. There are two chains, as in the code:
`SetupVersions` and `RuntimeVersions`. A version string is text that is read from its end: a
record of the base, and of the form and the numbers of the suffix that a style has written
behind it. The text of a tag is read in the same way (`Text`), and may itself end like such a
suffix: `Suffixed` says which do, and how they read. So `1.post1` is one record, whether
pep440-old wrote it for the first commit after `v1` or `v1.post1` is the name of a tag, and
the six styles can be compared as the code's strings can. `Ambiguous(style)` are the tags
whose text ends like a suffix of the style. A commit is its number along a linear history.
`_version.py` is `Absent`, `Torn` (truncated, not written), `Long` (the program that looks
up), `Short` (a fixed answer) or, in an archive, `Expanded`.

In `Versioneer` one step is one call to git or to the file system. `job.at` is the place of
the command: `require`, `read`, `describe`, `head`, `count`, `show` are the lookup,
`egg` to `finish` sdist and build, `unlink` to `writeLong` build_exe and py2exe, `config`
to `scan` versioneer's setup. `job.round` tells the lookup of `setup.py` from that of the
command. `known` are the files that git was told of: what is not among them is not in
`Tracked`, is neither compared with HEAD nor committed, and stays where it is in a checkout, so
that in a fresh project the files of `do_setup` are nobody's until `git add`. `job.seen` are
the commits that were HEAD since describe was asked. `cut` are the files a command
was cut with: it had `_version.py` in its hand (`InHand`) when it was killed or an
exception ended it, or it marked `.gitattributes` and git did not hear of it. No step of the
developer sets it, and the next write of the long file, or the `git add`, takes it back.
`rel` is the release tree in the making, whose `_version.py` may be a hard
link to the worktree's; `dist` is the release just finished, with the `_version.py` that the
source tree had then (`source`). `UsesCmdclass` chooses between
the setup.py that versioneer asks for and the one of the repository; the properties of
releases are about the former, finding 4 about the latter. A failed call to git gives
`NotThisMethod` where the code tests for it and an exception where it does not
(`count`, `show`: versioneer.py:1110 and 1113). Git itself (`Describe`, `Commit`, `Checkout`,
`Archive`) is modelled from its use and marked external in `PROJECT.json`.

## 3. What the runs show

| Run | Instance | States | Shows |
|---|---|---|---|
| `miner_safety` | 2 threads, 2 jobs, 2 nonces, 2 restarts by client or handler, destructor | 549 000 | nine safety properties; the refinement of `MiningSession` |
| `miner_timer` | 2 jobs (one without a solution), 2 threads, 4 nonces, timer, a spawn that may fail | 106 000 | `NotifiedOnce`, `DeadlineReadIsArmed`; the deadline stops all workers, a nonce that passes is come to by the stride, the destructor returns |
| `miner_calls` | 1 thread, 2 jobs, 2 restarts | 25 000 | `cancel()` returns, a solution reaches the handler |
| `miner_answer` | 1 thread | fails | finding 1 |
| `pool_safety` | 3 holders, 3 objects, factory may throw | 11 000 | one user, one fate, no leak; the refinement of `ObjectPool`; `acquire()` returns |
| `pool_pressure` | 2 holders, up to 2 failed pushes each | 5 400 | a release terminates if finitely many of its pushes fail |
| `pool_dangling` | 1 failed push | fails | finding 2 |
| `hash_one_pool` | 3 threads, 1 pool | 800 | nobody hashes too early |
| `hash_direct` | one thread without the pool | fails | finding 3 |
| `pow_chain` | 3 digits to the base 4, 3 sets of parameters, 7 block times | 12 500 | a hash passes if and only if the difficulty lets it; the difficulty steers towards the set point and stays in its bounds |
| `version_release` | 2 commits, tags `v1` and `v1.post1`, a branch `v0-next`, 5 scripts of commands, 1 kill or failed call | 1 158 000 | nine properties of checkout, lookup and release |
| `version_plain` | setup.py as it is | fails | finding 4 |

Bounds, and why they are enough. `MaxSeq` stops new `start()` and `cancel()` calls, never
the destructor; two work items suffice for anything of one to leak into the next, and a handler and the
client can each supersede one. Two workers suffice for every race between workers, since
the code treats all but worker 0 alike; two nonces per job let each have one, and the next
step wrap. The run with the timer has four, of which only the last one passes: worker 1 comes
to it with its second nonce, and only if it steps by the number of threads. The jobs are chosen so that both workers of a
search find a solution at once (`j1`), only the second one does, at the last nonce
(`j2`), or nobody does (`j3`). In the pool a third holder can only queue. For
`PoWHelper` the digits are the interesting part: with three of them there is a first, a
middle and a last one, every difficulty from 0 to 63 and every hash is tried, and the parameters include
a controller that overshoots and one whose boundaries exclude 0. For versions, two
commits give a tagged and an untagged one, and a distance of 0 and of 1; of the two release
tags one is called like distance 1 from the other, both may be at one commit, and the branch
is called like a release, so that the archives of a git without marks have a competitor; `MaxBreaks` is one
kill or failed call, after which a second command of the script finds what is left; the scripts are the pairs
in which the second one reads what the first has written (an sdist's egg-info before a
build, build_exe's short file before an sdist, setup twice), and each command once.
`Places` are no repository, somebody else's, and a directory that fits the prefix "None". What the runs show at
these bounds the theorems prove without them, liveness apart.

Fairness. Threads run (weak fairness of each thread's steps). A mutex that is free again
and again is taken in the end (strong fairness of contended locks): the event thread idles
for 100 ms without any lock after a rejected event (299) and holds the queue's mutex for a
few instructions only. A handler returns, and does not reject for ever; pushes do not fail
for ever (`MaxFailures`): each failing one calls the deleter again, and while that lasts
nothing in the code ends it. Nothing
makes anybody call the API, or time pass. Versions and proof of work have no liveness
property: a command may be killed at any step, and retargeting is one call.

## 4. Findings

1. `waitForAnswer()` answers before the handler has had the solution: a worker raises
   `_solution_found` (222) and queues the event (225) under one lock, so that the event is in
   the queue when the answer comes, but another thread delivers it later.
   The Python test reads what the handler stored right after `waitForAnswer()`
   (`tests/python/test_qryptominer.py:57-59`).
2. A `bad_alloc` of the pool's `push` leaves a deleted object in the pool
   (`qryptonightpool.cpp:36-42`): the parameter of `add()` runs the deleter again while
   the exception unwinds, which may put the object back, and the outer catch deletes it.
3. `Qryptonight::init()` raises its flag before the hash function is there
   (`qryptonight.cpp:85-88`, Windows). Miners are safe, because one pool's mutex
   serialises their constructors (proved); an object constructed beside them, as
   `tests/cpp/qryptominer.cpp:134` does, or from `PoWHelper`'s pool, is not.

4. `setup.py:73` gives `setup()` a `cmdclass` of its own, without `versioneer.get_cmdclass()`.
   `sdist` and `build` then ship the long `_version.py`; `_version.py:3-6` says they "will
   contain a much shorter file that just contains the computed version number". Such a release asks
   the git repository around it, if there is one, which version it is.

## 5. What is proved

All safety properties of the passing runs, the two refinements among them, are proved
for every value of the constants, under the assumptions named in the modules (`MinerAssumption`, `PoolAssumption`,
`HolderAssumption`, `QryptonightAssumption`, `ThreadAssumption`, `BignumAssumption`, `PoWAssumption`,
`LookupAssumption`, `VersioneerAssumption`), which TLC evaluates.

*Miner.* No single property is inductive. `LockInv` ties each mutex to the places between
lock and unlock. From it follows `CallerInv`: a caller beyond its `cancel()` finds no
thread, and nobody else starts one, because the other caller is the event thread, which
needs `_event_mutex` to be in a handler at all. `WorkInv` says that the threads of the vector
have the current id and input; a step of `start()` that writes the input is safe only
because of `CallerInv`. `EventInv` says that an event with the current id exists only
while that work has threads. This is what makes `StopInv` work: a stop request of new work
is worker 0's own. `SolutionInv`, `SentInv` and `UniqueInv` follow a solution from
the claim to the handler: no two events in queue, hand and history are alike, and the
nonce of a queued solution is the recorded one. `CountInv` needs cardinalities of the set
of counted workers.

*Sessions.* `MinerKeepsSessions` maps each step of the miner to a step of `MiningSession` or
to none. `EventSend` is the step that needs the whole invariant: the event in hand is of a
session in progress by `EventInv`, news by `UniqueInv`, and its nonce solves the job by
`SentInv`, `SolutionInv` and `JobInv` (input and target are one job once there is a thread).
`StartSetWork` is a stutter although it changes the input, because by `CallerInv` no
session is in progress then; and `CancelFinish` may end a session in the middle of a
handler that called it, which `MiningSession` allows.

*Waiting.* Deadlock freedom cannot be stated with ENABLED here, so `CallerWaits`, `WorkerWaits`
and `EventWaits` name the places at which a thread waits, with the guards of the actions
there. `NoCircularWait` follows the chain from a waiting caller down: a client that waits for
`_event_mutex` waits for a handler, which is in the user's code or in a `cancel()` of its own;
that one waits for workers only, because the client cannot have `_runningThreads_mutex` except
in `spawn`; a worker waits for a worker that has claimed, and both for the event thread
at the queue, which waits for nobody while it holds that mutex (`WaitInv`). The join of the
event thread is safe because it is asked to stop under that mutex. TLC's own search for
deadlocks cannot show this: an idle client can always make another call.

*Pool.* `LockInv` and `LifeInv` hold in any case, and with them that no call runs in a
destroyed pool. With `MaxFailures = 0`, that is if pushes succeed, `FateInv` says that an
object is pooled, in use or deleted, exactly one of them; the refinement maps the pop to
`LeaseIdle`, the factory's return to `LeaseNew`, the push to `GiveBack`, a delete to
`Discard` and the end of the last `shared_ptr` to `Close`. The bound on objects follows
from a surjection of users onto objects when the stack is empty. Finding 2 shows that
`MaxFailures = 0` cannot be dropped.

*Hash object.* For threads that share one pool: only one constructor runs at a time, and
only it can find the initialisation half done.

*Versions.* `PlaceInv` (which command may be at which step) is the base of the others. The
theorem `SourcesAreUntouched` is an action property: its one dangerous step is a write
through a hard link, and `LinkInv` says that between the unlink of the release's file and
the last write there is no link. `SourceFileIsLong` allows for two files that are not the long
one: what HEAD has committed (`commit -a` during a freeze takes the short file, and a
checkout brings it back), and what a command that was cut has left. `LongInv` adds that git
knows what HEAD has committed: a checkout then replaces the file, or leaves one alone that
HEAD does not have. `LookupInv` carries what each call to git said to the next: HEAD may move
between them, but only to a commit that `job.seen` takes in, and a tag once given stays. `NameInv` is about two lookups of one release: while nobody touches the checkout, the
answer of the second (`Current`) is the name that the first one gave. `SetupInv` and
`AttrInv` follow `versioneer.py setup` from file to file; `AttrInv` is about other runs of it
too, since a `.gitattributes` that one has marked and not added is in `cut` until one adds it. `ReleasesAreNamed` and
`ReleasesKeepTheirVersion` assume `UsesCmdclass`; finding 4 shows that they must.

*Versions and trees.* The theorems of `ReleaseProofs` depend on the style and on what the tags
are called, and say so. `PiecesOf` is what describe and rev-parse give at a commit.
`VersionsDiffer` takes no assumption: the property itself names, style by style, the tags it
is not about, those called like no tag at all ("0", "0+untagged", nothing) and the
`Ambiguous` ones. Of the others `TextForm` says that their text cannot be taken for a
distance, `TextsDiffer` that it is nobody else's; base and distance then give the commit back.
`ArchiveHasTheTag` is about any number of tags at a commit: the keywords take the first of the
likely ones (`LikelyHere`, `KeywordsOf`), describe the one it prefers (`NearestHere`), and
archive and checkout agree where these are the same tag. A branch never counts if git marks the
tags; without marks one that is called like a release does (`Rival`), as the code says itself
(versioneer.py:994-1000). The theorem assumes that no tag is the bare prefix, and a style other
than git-describe-long, which writes a release with its distance 0. `CleanReleases` assumes
`UsesCmdclass` and a style other than pep440-pre, which writes a tagged commit with local
changes like one without. Its invariant `ReleaseInv` follows the answer of the lookup
(`TellsTree`) from the files of the checkout to the copy and to the release: a short
`_version.py` in the source tree, whoever left it, answers for the release, and only
without one does a version mean a tag. It needs `LinkInv`, since a write through a
link would change what the source tree says, and `NameInv`, which says that the answers
of git in an undisturbed lookup are those of one moment. The tags and the style of the run
fulfil all of these.

*Proof of work.* The theorems hold for any number of bytes and any radix, the program's
32 and 256 among them. What is behind them are loops over bytes. The library's
induction theorems take an operator as parameter, which the provers cannot instantiate, so
`UpTo` derives induction over the rounds of a loop from the least element of the *set* of
rounds at which a claim fails (`WFMin`); the claims are then sets too. From it come the
round trips (`NumbersComeBack`, `VectorsComeBack`) and `FirstDifferenceDecides`: once one
number is ahead of another with which it shared all earlier digits, it stays ahead. The
comparison in `passesTarget` starts from the far ends of hash and target, and
`PassingIsNotExceeding` says that this compares two numbers. `PoWInv` says besides the types
that the target is that of the difficulty and the verdict that of hash and target; with the
quotient's definition the verdict is then `number * d <= MaxNumber`, and a difficulty of 0
leaves only the hash of 0. For the steering `Steered` is what one block time does: the
truncated adjustment has the sign of the block's earliness, the boundaries keep it if 0
is between them, and a quotient that rounds to 0 is replaced by a step of one. The
parameters are not assumed sensible: each part of `Steered` names what it needs of them. Working
on that proof showed that `Delta` had two cases that overlapped, of which TLC took the
first; it now follows the code's `if`. What the theorems do not reach is the rounding of
doubles, since the model has exact fractions.

Theorems about properties that no run repeats, since they follow from or are parts of
others: `MinerInvariant`, `SolvedInvariant`, `BoundedInstances`, `OnePoolParses`, and the
four about byte vectors.

Model-checked only: liveness, which needs fairness: `CancelReturns`, `SolutionIsNotified`,
`DeadlineStopsWorkers`, `DestructorReturns` and `SearchEnds` of the miner, `AcquireReturns` and
`ReleaseReturns` of the pool.

## 6. Not modelled, and the plan

Not modelled, and why:

* `versioneer.py`: `get_root()` (a search for setup.py, files only), dates (copied, never
  compared), `verbose`, the search for a git executable, output of git that does not parse;
  of `_version.py` what is the same code as in `versioneer.py` is mapped there.
* Other commands that end in `build_py` (bdist, install), and in `setup.py`
  what CMake does; `use_pyscaffold`, an external package that may compute a version of its own.
* A `.gitattributes` that a killed setup has marked but git was not told of stays so: the
  next setup finds it marked and adds the other files only (versioneer.py:1155). Nor does
  anybody look whether `git add` failed. `SetupIsComplete` says that the files are there in
  either case, that git knows them if nothing failed, and which one it may lack else.
* What the properties of versions leave to the user, because the code has no guard: a release
  whose checkout is touched between the lookup and the copy of the files; tags called like a
  distance (with `v1` and `v1.post1`, pep440-old writes `1.post1` for both the commit after
  the one and the other; pep440-pre does so with `v1.post.dev1`); a branch called like a
  release, in an archive of a git that does not mark the tags.
* A shortage of memory that lasts: each `add()` that fails calls the deleter, and that
  `add()` again, until the stack is full (`qryptonightpool.cpp:36-42`, 85-89). `MaxFailures`
  cuts that off, and `ReleaseReturns` says nothing about it.
* `PoWHelper`: the cast of a double that does not fit a `long` (undefined behaviour,
  excluded by `PoWAssumption`); printing and decimal strings of `bignum`.
* The miner's hash rate and forced sleep; an exception of `hash()` in a worker; widths: the
  32-bit deadline, the 8-bit stride; a second client thread.
* The generated bindings, the cryptonight kernels (submodules, not in the tree), build files.

To come, most important first:

1. `MinerPool`: miner and pool composed. A worker gives its object back before it is
   counted out (declaration order at 179 and 181), so a pool never holds more objects
   than the largest thread count.
2. `NonceSearch`: how `n` threads partition the nonces with a stride that is truncated to
   8 bits (177) and a counter that wraps at 2^32; which `n` miss nonces.
3. `MinerClock`: the 32-bit deadline, its overflow, and the timer that outlives its work.
4. An abstract `Release` (one name, one version, made of one commit) that `Versioneer`
   implements.
