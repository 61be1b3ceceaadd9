# TLA+ verification of sex, a library for sandboxed execution

The library in `src/sex` starts a function in a new process (`clone3`) inside
namespaces, control groups, chroot containers and mounts, and talks to it
through pipes. There is almost no algorithm in it. What makes it hard is that
nearly every call changes state that lives outside the program, in the kernel
or in the file system, where other threads, other processes and clones of the
caller's own memory see it. So the modules here follow one pattern: the
variables of the C++ object on one side, the kernel's part of the state on the
other, and processes that start, clone, throw and die at any point in between.

Every definition is translated from the source under `src/sex`;
`PROJECT.json` ("map") gives the lines. What the kernel does (flock, clone,
waitpid, mount, cgroups, epoll, timers, pipes, close) is modelled from how the library uses it,
and marked external there.

Contents: [1 Inventory](#1-inventory) ·
[2 Modules and code](#2-modules-and-code) ·
[3 Runs](#3-what-each-run-checks) · [4 Bounds](#4-bounds) ·
[5 Fairness](#5-fairness) · [6 Proofs](#6-what-is-proved) ·
[7 Findings](#7-where-the-code-departs-from-what-is-said-of-it) ·
[8 Limits](#8-what-is-not-modelled-and-what-is-not-proved) ·
[9 Plan](#9-plan) · [10 How to run](#10-how-to-run)

## 1 Inventory

| Component | Files | State it keeps | Operations |
|---|---|---|---|
| file lock guard | `util/flock.hpp` | descriptor, `current_state_`; kernel: one lock per open file description | constructor, `lock`, `unlock`, destructor |
| one-time initialisation | `util/once.hpp`, `Initialize` in `container.cpp`, `InitializeParentCgroup` in `cgroup_controller.cpp` | `invoked_`, `mutex_` per process; the directories and their delegated controllers | `operator()` |
| Execute, hooks, process knob | `execute.cpp`, `util/execute_hooks.*`, `detail/process_knob.*`, `util/exit_status.*` | clone arguments; child, pid, pidfd; uid and gid mappings | `Execute`, the three hooks, `wait`, `sendSignal`, destruction |
| ExecuteArgs | `util/execute_args.*` | `clone_args` | a setter for each flag |
| bind and tmpfs mounts | `util/mount/*.hpp` | `mounted_`, `detached_`; kernel: the mounts, each at a path | `mount`, `unmount`, `detach`, destructor |
| container | `container.*` | path, `removed_`; a directory tree | constructor, `enter`, `remove`, destructor |
| cgroup controller | `cgroup_controller.*` | path; kernel: the group, its limits, its members | constructor, setters, `getCgroupFd`, `addProcess`, `enter`, `killAll`, statistics, destructor |
| event poller, timers | `util/event_poller.hpp`, `util/timer_fd.hpp` | kernel: registrations and ready list; each timer's setting and unread expirations | `Add`, `Update`, `Remove`, three polls; `set`, `cancel`, `getTimerSpec`, `wait` |
| pipes, data transfer | `util/pipe.*`, `util/data_transfer.hpp` | kernel: bytes under way, holders of the write end | `MakePipe`, `send`, `receive` |
| descriptor holders | `util/fd_holder.*`, `util/file_descriptor.hpp` | a number; kernel: the table of descriptors | construction, moves, `swap`, `reset`, `release`, destructor |
| Result, panics | `util/result.hpp`, `util/syscall.hpp`, `util/panic.*`, `detail/exceptions` | none | `unwrap`, `ensure`, `then` |
| function2 and UniqueFunction | `util/unique_function.hpp`, `detail/function2`, `detail/routine.hpp` | a table of operations, a callable in place or on the heap | construction, moves, assignments, `swap`, call, destructor |
| resource limits, builders | `util/rlimit.hpp`, `util/builder_helper.hpp` | none | builders |

**How they interact.** `Container` and `CgroupController` call their `Once`,
whose action takes a `FileLockGuard` on the parent directory. A program makes a
container, mounts into it, makes a group, takes `getCgroupFd()` into
`ExecuteArgs`, and calls `Execute`, whose child runs the program's hooks and the
routine `f` over a copy of the whole memory and of the descriptor table. That
copy is the interaction that matters most: the child has the parent's locks, its
mutexes in whatever state they were, the write ends of its pipes and the
descriptions behind its timers. The routine is a `UniqueFunction` and captures pipe ends in
`FdHolder`s, so that descriptors live and die with callables, and these with
functions and with the parameter `f`. The parent waits through the `ProcessKnob`, by
pid; it reads pipes to their end and polls timers meanwhile. Destructors then
undo, in reverse order, mounts, group and container.

**What is hard about it**, and the property that makes each part correct:

* Locks belong to open file descriptions, which clones share; conversion drops
  the old lock first; deaths run no destructor. *A writer excludes everybody, and
  nobody has a write lock that no guard was granted, but a clone of one.*
* Double-checked initialisation by threads of several processes, with exceptions
  and crashes inside. *The body runs alone and at most once; whoever returns
  finds everything set up; every call ends.*
* Pids are numbers that the kernel reuses; the pidfd flag is read twice with a
  hook between; exceptions cross `clone3`. *A knob speaks of its own child only.*
* Mounts are undone by path, at destinations that hide each other, in any order;
  they bring other mounts along, and are made in two steps of which the second
  may fail. *Nothing is left mounted; read-only sources stay intact; a program
  that undoes its mounts in order is not ended by a destructor.*
* Groups are shared by name, cannot be removed while anybody lives in them, and
  die asynchronously. *Children run under the limits asked for; a program that
  waits for its children is never terminated by the destructor.*
* epoll and pipes report about descriptions and descriptors that clones keep
  open. *A poll reports what is ready then, and sooner or later everything; the
  end of a pipe means the end of its writer, and comes.*
* Timers return what was left of their setting, converted twice; a negative
  duration ends the program. *What a timer returned can be set again.*
* Descriptors are numbers that the kernel gives out again; `close` may fail; holders
  are moved and swapped inside callables that are moved and swapped inside
  functions, any of which may throw half-way; a child may share the table.
  *Nobody closes what is not its own, nothing is lost, and the child finds open what
  `f` captured.*

## 2 Modules and code

Each component has one module; `MC*` modules only give the constants their
values for TLC, `*Proofs` modules hold the theorems. Operators whose comment says
"Mutant" are plausible bugs: with one of them in the place of the operator that
follows it, TLC finds the property named in `PROJECT.json` violated. No
specification uses them.

```
FileLock  <-- INSTANCE --  SboxInit  -- implements -->  OneTimeInit
FdHolder  <-- INSTANCE --  Routine  -- INSTANCE -->  UniqueFunction
Execute      Mounts      Cgroup      EventPoller      Pipes
```

### FileLock (`util/flock.hpp`)

A guard opens the path itself, so a guard stands for its own open file
description. `phase` is where the object is, `current` its `current_state_`, `want`
the argument of the `lock()` under way; `lock` and `refs` are the kernel's: the
description's lock, and the processes with a descriptor of it. `granted` is a
history variable: what the last `lock()` has given its caller until this caller
gives it up. `WriteLockIsGranted` is the converse of `GrantBacked`: the kernel has a write lock on a
description only while the caller that was given it has it, or if its process died with it and
clones have the descriptor. `unlock()`, conversion and the destructor decide that.

`Open`, `Lock` (past the assertion, inside `flock`), `Locked`, `LockThrows` (EINTR),
`LockAborts` (the assertion fails; assertions are active in this build),
`Unlock` and `Destroy` are the guard's operations. `Clone` adds the child to `refs`
of every description that its parent has; `Exit` is any death. The enumerations
are modelled by their values: `State` takes its members from two unscoped enums
that both begin at 0, so `State::RLock` and `State::Unlocked` are equal
(`flock.hpp:67-71`), and `LockAfterUnlock` compares numbers as `unlock()` does.

### SboxInit over FileLock, and OneTimeInit

`util::Once::operator()` around the lambdas of `container.cpp:16-35` (constant
`Delegate = FALSE`, one step) and `cgroup_controller.cpp:39-62` (`Delegate = TRUE`,
three steps: delegate in the root group, make the directory, delegate in it). A
thread's `pc` is its place in this code; every thread has the guard of its call,
and each of its steps on it is the step of that name of `FileLock`, instantiated
with threads for guards. `invoked` and `mutex` belong to each process's `Once`.
`Clone` copies them: a child that is cloned while another thread is inside gets a
mutex that a thread of the parent holds. `Events` selects what goes wrong in a
run: exceptions at every place that can throw, crashes, clones, writes to a
control file that the kernel rejects after `good()` was asked, and whether the
body may be interrupted before its last step (`cut`).

`OneTimeInit` is what the protocol promises: everything appears in one step, at
most once, while somebody asks for it; no call returns before; a call may fail.
`SboxInit!Abstract` is the refinement mapping.

### Execute (`execute.cpp`, `execute_hooks.cpp`, `process_knob.cpp`)

Calls of `Execute` by threads of one program. `BeforeClone` sets the pointer for the
pidfd (`aim`) by the flag and then lets a hook of the user's rewrite both: it gets
the whole `clone_args`. The flag is read again in `ReturnKnob`, after the clone. `Clone`
takes a pid that nobody has; zombies keep theirs. `HookThrows` and `CloneFails` end the
call in the caller, `HookThrows` after the clone with a pidfd whose number is lost.
The child goes through its hook (`EnterF`: mappings written, or rejected unnoticed; or, in
`Escape`, an exception outside the try block), then `f`, then a status.

`wait()` is three steps: `Wait` enters `waitpid`, `Reap` takes any zombie that has the
number, `Waited` returns. From `Reap` on the number is anybody's, and `SendSignal`, by any
thread that has the knob and at any time, reaches whoever has it: that this is the
right process before `Reap` is a theorem, not a guard; that it may be another one
after is the code's (`strayed`). `StrangerStep` gives pids to unrelated processes and
takes them back. `scope` stands for what the destructors of the caller's frames take
down.

### Mounts (`mount/bind.hpp`, `mount/tmpfs.hpp`, `container.cpp:55-69`)

Objects of three kinds over the kernel's mounts, each with its place and the time it
was made. Destinations may lie in one another (`Below`), and a later mount hides
what is below it, other objects' mounts too, until it goes: a path leads into the
latest mount `OnPath`. `Mount` is the whole function: set up the destination (a file
bind truncates what is visible there, `bind.hpp:38`), mount, and for a read-only bind
remount; its error paths are `SetupFails`, `FirstMountFails` and `RemountFails`. A directory
bind without `NO_REC` brings the mounts inside its source (`Brings`), which the remount
does not make read-only (`Exposed`), and which `umount`, not being recursive, does not take
down (`Busy`). `Unmount` and `DestroyMounted` take down whatever the path leads into, whoever
mounted it, and fail if nothing does, or over an open file (`Use`) or other mounts; in a
destructor this ends the program (`DestroyTerminates`). `Remove` and `LeaveContainer` are
`remove_all` on the container, which walks through mounts. `orderly` records only what
the program does: it detaches nothing, undoes the later of two nested objects first,
and everything before the container. Whether `umount` then fails is left open.

### Cgroup (`cgroup_controller.cpp`)

Controllers, possibly of one name, in one process or several. `Create`,
`BuildLimit`, `Built` are the constructor, limit by limit; `Abandon` is an
exception in it, or a crash: no destructor. `limit` is what the kernel has in
force, `wish` what the controller's user asked for and the kernel took. Processes
start outside or in the group of a descriptor, fork, are added, doomed, die and
are reaped; `inits` are the inits of the pid namespaces a process is in, and an
init dies after everybody else in its namespace. Every write may be rejected when
the stream is flushed, unnoticed: of limits, of `cgroup.procs`, of `cgroup.kill`.

`KillAll` begins what the kernel then does one process at a time (`Deliver`): `due` are the
members that have no signal yet. They go on forking and making namespaces
meanwhile, and what is born in the group then is born with the signal, as the
kernel does by comparing `kill_seq` before and after a fork. Moving into the group and
removing it wait until the kill is over (`Unlocked`), as they take the same lock.
`Destroy` is `fs::remove`, which
does nothing if the directory is gone; `DestroyTerminates` is its exception, in a
`noexcept` destructor. Processes get their names in the order of their births.

### EventPoller (`util/event_poller.hpp`, `util/timer_fd.hpp`)

epoll as the library uses it: registered descriptions with masks, and a
level-triggered ready list from which a thread's poll takes up to `Span` events
(`Reported`, external) and to whose end it puts them back (`Requeue`); `Filtered` is what is
left of a list without some elements. The library's own part is the loop: `TimedPoll`
copies the events into the caller's span, which may hold anything before (`Filled`), and
returns their number; `polled` is what the last step returned, if it was a poll. Timers
are set, expire, are read and destroyed; a clone keeps their descriptions. The cookie
of a registration is the timer. A poll that a signal interrupts throws and changes
nothing, so it is no step here.

Durations are whole numbers of nanoseconds, and a second has `Nano` of them:
`ToTimeSpec` divides as C++ does, towards zero, and `FromITimerSpec` turns back what
`timerfd_settime` and `timerfd_gettime` answer: the interval, and any part of the
time to the next expiration (`Return`). How long anything takes is not modelled. A
negative duration is `SetTerminates`: EINVAL, an exception in the `noexcept` `set()`, the
end of the program; a new run of it begins, while a clone may have descriptions of
the old one.

### Pipes (`util/pipe.cpp`, `util/data_transfer.hpp`, captures of `f`)

Pipes byte by byte, because the properties are about bytes: `send` is one `write`,
whole if it fits `PIPE_BUF` (`Atomic`), in pieces otherwise, perhaps interrupted;
`receive` is one `read`, whose count is dropped, so that what is missing is `Junk`
(uninitialised memory). Two kinds of pipes: a `DataTransfer`, of which everybody
keeps both ends, and a captured pipe, whose write end was moved into `f`: the
caller has it until `Execute` is over and destroys `f`. That is when it returns or
`AfterCloneParent` throws (`Return`), or when `BeforeClone` throws or `clone3` fails (`Fail`): then
there never was a child. A child is `born` in its hook and begins `f` (`Begin`), or the hook's
exception leaves `Execute` in the child (`Escape`): its `f` is destroyed, and it goes on in the
caller's code without the captured end.

### FdHolder (`util/fd_holder.*`, `util/file_descriptor.hpp`)

Holders over a process's `table` of descriptors. `loose` are the numbers that the
program has in its own hands: new from the kernel, or released. `Open` gives any
free number, so that a number that was closed is soon somebody else's. The move
assignment is a `swap` (`fd_holder.cpp:23-26`): the source has the old number then, and
closes it when it goes. `Reset` and `Destroy` are translated with the order of
`close` and the assignment of `fd_`: in `ResetThrows` the kernel has freed the
number and the holder still has it. History: the file that each holder was
`given`; whether a `close` has `failed`, and whether its number has then been closed
again or handed out (`astray`); and the files that a process with the same table has
closed (`Lose`, `lost`).

### UniqueFunction (`detail/function2/function2.hpp`, `util/unique_function.hpp`)

The one configuration of the vendored library that is used: owning, not copyable,
64 bytes in place, no strong exception guarantee. `vtable` and `box` are what the
object believes, `place` where callables really are; the library changes them
one after the other, and a copy, a move or an allocation may throw between.
Constructors that throw leave nothing behind. Assignments destroy the old callable
first, without resetting the vtable, so `AssignThrows` and `MoveAssignThrows` leave a function with a
vtable for an object that is not there, and `SwapThrows` one of its two. `undefined` records that such an
object was destroyed or moved; nothing is followed beyond it. A callable keeps its
name when it is moved, and a throwing move leaves its source as it was.
Over-aligned callables, views, copies and overloads are left out: the configuration
has none.

### Routine over FdHolder and UniqueFunction (`execute.cpp`, `detail/routine.hpp`)

Each callable captures one holder (`Capture`), as the lambdas in `src/tests` do. `Param`
is the function that is `Execute`'s parameter: `Call` moves a `Routine` into it, or
makes it of a callable (`CallThrows`); `Leave` destroys it, and what it holds, and what that has
captured, at the return, or when `clone3` or a hook fails on either side of the
clone. `Clone` gives the child a copy of the table, or with `SameFiles` the
caller's own (`shared`); `saw` is what `f` had captured then. The child goes through
`AfterCloneChild`, which returns (`ChildBegins`) or throws (`ChildEscapes`): then `f` is destroyed in
the child, and what it has captured is closed in the table that the child has, the
caller's perhaps. Otherwise it leaves by `_exit`, or is killed, and runs no
destructor. Meanwhile other threads go on with their functions and holders
(`FunctionStep`, `HolderStep`). A routine that closes its own captured descriptor in the child,
what an escaped child does in the caller's frames, and a function or holder that
is move-assigned to itself, are left out.

## 3 What each run checks

Nine runs pass. The other three show what section 7 reports.

| Run | Module | Checks | Distinct states |
|---|---|---|---|
| `file_lock` | MCFileLock | `WriterExcludes`, `GrantBacked`, `WriteLockIsGranted`, `DestroyedWriterReleases` | 8,277 |
| `sbox_cgroup` | MCSboxInit | `BodyAlone`, `BodyOnce`, `ReturnedReady`, `Promise` (refinement of OneTimeInit) | 315,605 |
| `sbox_live` | MCSboxInit | `Progress` | 47,815 |
| `execute` | MCExecute | `OwnChild`, `KnobPidfd` | 901,020 |
| `mounts` | MCMounts | `NoStrayMount`, `ReadOnlySourceIntact`, `NeverTerminated` | 1,609,306 |
| `cgroup` | MCCgroup | `Confined`, `TidyDestroys`, `KilledEnd` | 618,056 |
| `event_poller` | MCEventPoller | `PollsAreTrue`, `ReturnsWhatIsLeft`, `DestroyedIsSilent`, `NoneStarves` | 54,038 |
| `pipes` | MCPipes | `WholeInOrder`, `EndMeansEnded`, `EndComes` | 14,136 |
| `routine` | MCRoutine | `HoldersOwn`, `Truthful`, `NothingLeaks`, `CapturesOpen` | 415,502 |
| `file_lock_unlock` | MCFileLock | `UnlockedHoldsNothing`: violated | |
| `sbox_cgroup_cut` | MCSboxInit | `ReturnedReady` with an exception between the last two steps: violated | |
| `execute_escape` | MCExecute | `ScopeIntact`: violated | |

Every passing run but `sbox_live` also checks the module's `TypeOK`
(`sbox_cgroup` checks that of SboxInit over the same states and more).

What they show, beyond the names:

* **`file_lock`** - three guards, of two independent processes, and a clone that may
  be made at any moment, inside `flock` too. A granted write lock excludes every
  other grant although conversion is not atomic; an interrupted conversion has
  lost the old lock, and the guard's caller is told so by the exception. No
  write lock stays behind its grant (`WriteLockIsGranted`): not after `unlock()`, a conversion
  or the destructor, only with the clones of a process that died with it. The
  destructor's explicit `LOCK_UN` releases it even from under a clone that has the
  description; a plain `close` would not.
* **`sbox_cgroup`** - four threads that race to initialise one directory, in two
  processes and a clone of the first, with a crash, an exception or a clone
  between any two steps except before the body's last (that case is
  `sbox_cgroup_cut`). Exclusion comes from the second check under the write lock:
  the mutant without it is caught by `BodyOnce`.
* **`sbox_live`** - two processes, one a clone of the other, with everything that may
  go wrong at once: exceptions at every place that throws, crashes, bodies that
  are cut short, writes that are lost. Exceptions unwind the guard and the mutex,
  and once they stop (`ThrowsEnd`) every call ends, except in the two ways that the
  property lists: a mutex that `clone` froze, and a lock that a clone has kept from
  a destroyed guard (section 7). Both are possible, so they are part of the property.
* **`execute`** - pids that are freed by one call's `wait` are given to the other
  call's child and to strangers. `wait` may be interrupted and called again, and
  other threads signal whenever they like. A signal reaches the child or nobody until
  `waitpid` has reaped it; later, between the two halves of `wait` or after it, it may
  reach anybody, as `sendSignal` does not look: `strayed` records it as "after", and
  `OwnChild` excludes "before". `KnobPidfd` holds whatever a hook does to the flag; a
  hook that moves the pointer as well has the pidfd itself.
* **`mounts`** - a directory is covered by a tmpfs or by a read-only bind, and in it a
  file is bound twice, writable and read-only, so that objects cover and hide each
  other and undo each other's mounts. In the directory's source the
  source of one file is mounted, which the recursive bind brings along. Files are open
  in the mounts, every call may fail, and containers are left and removed at any time.
  Two things that the code does not prevent are conditions of the properties: a failed
  remount leaves a writable mount that no object knows (`left`, `NothingLeft`), and what a
  recursive bind brings stays writable and cannot be unmounted (`OnlyRead`, `NothingBrought`).
  A failing `umount` is not among them: an open file apart, `NeverTerminated` says that in
  an orderly program there is none.
* **`cgroup`** - two controllers of one name, both after one another (with what the
  first has left in the kernel) and at once; members that fork, and make namespaces,
  between the signals of a `killAll()`; writes that the kernel rejects unnoticed.
* **`event_poller`** - two timers that are ready at the same time, polled by a thread
  with a span of one event and by another with a span of two, both into spans that may
  hold the events of an earlier poll: what is beyond the number that is returned
  means nothing. Fairness between the timers is epoll's and must be used as the code
  does; a clone keeps a destroyed timer's description alive. One timer has an
  interval, one is set without, or only to an interval; both may be given what
  ends the program. `ReturnsWhatIsLeft` is about two conversions and the order of two
  structures' fields, which differ (`timer_fd.hpp:20-25, 89-98`).
* **`pipes`** - a `DataTransfer` between all, and the captured pipe of the idiom in
  `tests/timer_fd.cpp`, with a clone that another thread makes while `Execute` is
  under way, and with every way in which `Execute` can fail before and after `clone3`.
* **`routine`** - a small callable and a big one that move between the program, two
  functions and Execute's parameter, and take their descriptors along, with
  failing closes, moves, allocations and clones. A child that leaves `Execute` by an
  exception destroys `f`; with `SameFiles` this closes the caller's descriptors, under
  the numbers that the caller's holders still have. `HoldersOwn` says what is left
  then: those are `lost`, the others are not harmed until such a number is closed
  again. `CapturesOpen` has a limit that the
  run shows: with `SameFiles` the caller closes what `f` captured as soon as `Execute`
  returns, under the child that still runs `f`; so it promises nothing then. No doc or
  test says more of `SameFiles`, and no test uses it. Likewise `HoldersOwn` promises
  less after a failing `close` or such a child, and `Truthful` after a throwing assignment or swap:
  what they leave is in the properties, as conditions.

## 4 Bounds

The constants that bound a run, and why they are enough:

* `MCFileLock`, `MCSboxInit`: three processes, one of which is a clone; three guards
  or four threads. Two independent processes are needed for the file lock, two
  threads of one for the mutex, one clone for inherited locks and mutexes. A third
  independent contender takes no step that the second does not: the proofs are for
  any number. For liveness one process with two threads and a clone of it, which
  then initialises on its own: both blocking resources are contended for.
* `MCExecute`: two calls and two pids. Recycling needs one pid, taken by the other
  call's child or by a stranger. One call has user hooks, one the default ones.
* `MCMounts`: `MaxMounts` = 3 mounts are made in a behaviour: one that covers, one that
  hides it, one over both; it guards `Mount` and `RemountFails`. One file is open at a time.
* `MCCgroup`: `Tuned` = {3}, the limit that setters change later; `Asked` is {3} of the one
  Builder and nothing of the other: a limit that is set twice, and one that a second
  controller of the name takes over unasked. Two processes, so that an init has
  somebody else in its namespace and a member forks while it is killed. A third
  would make grandchildren; `Ancestry` in the proofs covers any. Processes are born in
  the order of their names, which are otherwise alike.
* `MCEventPoller`: `Span` is 1 for one thread, less than the number of timers, and 2 for
  the other; `MaxCount` = 2, expirations above two are not told apart, none of the
  properties does. `Nano` = 2 and a first expiration of 3: a second and a rest.
* `MCRoutine`: two numbers, so that a closed one is soon given out again; three
  files, one more, so that it is told from the old one; one callable that fits in
  place and one that does not; two functions beside the parameter, for `swap` and
  moves; two holders of the program's. One call and one child at a time. `Bound`
  follows nothing beyond a number that has gone astray, where the properties
  promise nothing, and neither a failing close, a throwing assignment nor files
  that a child has closed beyond one another. The proofs are without it.
* `MCPipes`: `Rounds` = 2 values of each sender, for the order of two; `Atomic` = 2,
  `Capacity` = 4: the `DataTransfer`'s values have size 2 and are atomic, the captured
  pipe's have 3 and are not; the pipe holds no third value, so that senders block.

`SYMMETRY` is used where only safety is checked and the elements are
interchangeable: pids in `execute`, numbers, files, functions and holders in `routine`, the two threads of a process in `sbox_cgroup`
(no constant or history tells them apart; the refinement mapping treats all
threads alike, and its fairness-free specification is a safety property).

`CHECK_DEADLOCK FALSE` is set where a program may simply have ended, or wait for
a lock that nobody will release: all modules but EventPoller, whose program never
ends, so that there deadlock is checked.

## 5 Fairness

Fairness is assumed only of what the library or its callers do not decide:

* `SboxInit!FairSpec`: `WF` of `Advance` of each thread, the next step of a thread that is
  inside a call and not blocked. The scheduler justifies it. Blocked in
  `flock` is "not enabled"; weak fairness suffices in spite of contention because
  calls are one-shot in the model and the kernel's queue of a lock is not
  modelled: a thread may not wait for ever while the lock is free continuously.
  Calls, exceptions, clones and exits have no fairness. `Progress` is under `ThrowsEnd`:
  a thread that calls again and again and gets an exception every time could take
  the mutex before the others for ever, and no mutex of C++ promises more.
* `Cgroup!FairSpec`: `WF` of `Deliver` and `Die` of each process: the kernel signals every member,
  and a process that was signalled dies. Forks of members that have no signal yet are
  not bounded by it; that none of their children escapes is what `KilledEnd` is about.
* `EventPoller!FairSpec`: `WF` of polling: a program that uses a poller polls again and
  again, while every thread may poll. Reading the timer is not assumed.
* `Pipes!FairSpec`: `Execute` returns or throws after the clone (`Return`), and the main process
  reads captured pipes to their end, as the tests do. Writers and clones owe nothing:
  the child may stop writing, and `EndComes` starts from its death.

## 6 What is proved

The theorems hold for every value of the constants, under the named `ASSUME` of
each module: types of the constants, finiteness of `Obj` for Mounts, for Pipes that values
have bytes and that `PIPE_BUF` is within the capacity, and nothing else about sizes. `tlapm` checks every step, with SMT, Zenon and PTL.

**FileLockProofs** - `TypeCorrect`, `WriterExclusion`, `GrantsBacked`, `NoStaleWriteLock`,
`WriterReleases`. `WriterExcludes` is about promises, which the code does not
store, so it is not inductive. `IInv` ties the promise to the kernel: what was
granted is backed by the description's lock (`GrantBacked`), locks are pairwise
compatible (`LocksCompatible`), are kept by a descriptor (`LockIsHeld`), which its
guard has as long as it is there (`OwnerHolds`, `GrantIsOpen`), and
descriptors belong to live processes (`HoldersLive`). `WriterIsRecorded` is the half
of `current_state_` that can be trusted: the enumeration makes read locks
unrecognisable, write locks not. So `unlock()` does release every write lock, and the
converse, `WriteLockIsGranted`, is kept too; for read locks it is false (section 7).

**SboxInitProofs** - `TypeCorrect`, `BodyExclusion`, `RunsOnce`, `ReturnsReady`, `Implements`, `NoCircle`. Each step on
a guard is one of FileLock (`SameSteps`), so FileLockProofs' `IInv` is kept; `LockInv`
adds which program locations hold which grant. `BodyOnce` needs nothing
else. `ReturnedReady` needs `Built`: outside the write lock the directory exists only
with everything in it. This fails if the body can be cut between mkdir and its last
step, hence the condition `Uninterrupted` (for the container's body, one step,
it is true). `Implements` is by one lemma for each action: it maps to a step of
`OneTimeInit` or to a stutter. With `Delegate = FALSE` no run is needed; the theorems
cover both bodies. `NoCircle` is what `Progress` needs of safety: who waits for the mutex
waits for a thread that is in the action (`Inside`), who waits in `flock` waits for one that waits
for nothing (`Working`), because a guard has no lock while it waits for another; but a
mutex or a lock that a clone has inherited may be waited for in vain.

**ExecuteProofs** - `TypeCorrect`, `OwnChildren`, `PidfdOwned`. `OwnChildren` is the argument why a
bare pid suffices until `waitpid` has reaped: a knob has its child, present at least
as a zombie (`KnobHasChild`), present processes have different pids (`PidsApart`), so a
signal by number finds no one else (`NoneStrays`), and a result is the final status
(`ResultIsFinal`). None of this is a guard of `SendSignal` or `Reap`, which take any process of
that number. `PidfdInv` follows flag and pointer through the two reads with a hook
between: the clone fails if there is a flag and no pointer (`CanClone`), and where the kernel
puts the pidfd is decided at the clone (`Created`), for any hook.

**MountsProofs** - `TypeCorrect`, `NoneStray`, `ReadOnlyKept`, `OrderlyEnds`. `NoneStray` by
counting: a destination has as many mounts as objects that are mounted there plus
what failed remounts left, whoever's they are. It does not say that `umount` finds one,
which another mount may hide. Times are needed for that: mounts have different ones,
and every set of them a latest (`Dated`). While the program is orderly, `Matched` pairs mounts and
mounted objects one to one (`Matches`), so that of two at nested destinations the later mount
is that of the later object. So the object that is undone, the latest
of those nested with it, finds a mount at its destination on top of the path (`UndoFinds`),
with nothing over it, and `umount` fails neither with EINVAL nor with EBUSY. `MountedLive`
closes `OrderlyEnds`: while all is orderly, whoever is mounted still lives, so an empty
set of live objects leaves an empty container.
`Labelled` says that every mount was made by an object and is writable only
if asked for so; then what the truncating open or `remove_all` reach through visible
mounts (`Exposed`) is no read-only source, unless a recursive bind brings it.

**CgroupProofs** - `TypeCorrect`, `TidyNeverTerminates`, `ConfinedAlways`, `NobodyEscapes`. `Family` (`Unborn`, `InitsLast`,
`EnteredBorn`, `Ancestry`): the members of a group descend from those that were put
into it and are in their pid namespaces, and an init dies last. So if all of these were
inits and have been reaped, nobody is left. `Limits` (`NewHasNoWish`, `Alone`,
`InForce`, `InPlace`): a controller alone with its name has its wishes in force, and who
was started through it has not left. `NobodyEscapes`, for `KilledEnd`: from an accepted `killAll` on everybody in the
group is doomed or still due for its signal (`Reached`), and so are the children that those without one
fork meanwhile; whom a doomed init waits for is doomed, because
a namespace within another is part of it (`Nested`); and no two inits wait for each other.

**RoutineProofs** - of holders `HoldersTyped`, `HoldersOwnAlone`, `HoldersLoseNone`; of functions
`FunctionsAreTruthful`; and of the composition `ImplementsParts`, `Typed`,
`HoldersOwnInCalls`, `TruthfulInCalls`, `NothingLost`, `CapturesStayOpen`: every invariant of
the run. A number means a file only because no file has two numbers (`TableApart`), what
is opened is new to all holders, and each number is in one hand (`OwnersApart`): that of
the holder that was given its file, or the program's. The invariant says so as long as
nothing is astray, not only as long as no `close` has failed: this is what keeps one
holder's failure from being another's. What another process has closed in a shared table
has no number any more (`LostAreGone`), and only holders of such files are excepted.
`FailedFirst` adds that nothing goes wrong while neither has happened (`Calm`). `HoldersLoseNone` is the converse of `HoldersOwnAlone`: what is open has an owner
(`OpenOwned`). The
theorems about FdHolder alone assume `HolderConstants`, that -1 is neither a number
nor a file; `RoutineAssumption` discharges it. For functions it
is `FunctionsOK`: a callable in a function is what its vtable is for
(`InsideIsKnown`), and the other way round unless a throw has left the function without
(`KnownIsInside`). A step of the composition is a step of FdHolder and one of
UniqueFunction, or leaves them alone (`ImplementsParts`), so the invariants of the parts
are kept. Between the parts, `CallInv`: captured holders live exactly as long as
their callables (`CapturesLive`), no throw gets at the parameter during a call
(`ParamThere`), it still has what it had at the clone while `Calm` (`SawIsCaptured`), and a
child with a table of its own has a copy of that (`CopyIsCaptured`).

**EventPollerProofs** - `TypeCorrect`, `PollsReturnTheReady`, `NoneForgotten`, `DestroyedEnds`,
`ReturnsAreLeft`: every safety property of the run, for any timers and threads and every
length of their spans. `PollsReturnTheReady` needs that all readable timers are listed
(`ReadableListed`); that a poll's list of events has each of these once and no others, as many
as the span takes, is `ReportedTruly`, and that the loop puts just these into the span's first
places whatever was there `TimedPollIs`. What a timer has left is part of what was asked for
(`Settled`), and a registration outlives its timer only in a child (`Inherited`).
`NoneForgotten` is what `NoneStarves` needs of safety: no poll, registration or end of a child takes a
timer that can be read off epoll's list. Its proof is about data: `Filtered`, which
takes elements out of the list, computes its result one by one, and a lemma describes
the result by the positions it picks (`Picks`). `ReturnsAreLeft` is
arithmetic: the two conversions are inverse for every `Nano`, whatever the sign,
and the part of a span that is left is no longer than the span.

**PipesProofs** - `TypeCorrect`, `EndIsTrue`, `ArrivesWhole`, `NobodyKeepsTheEnd`. Whoever may still write to a captured pipe has a
descriptor of its write end: the caller until `Execute` returns or throws, which is after
the clone if there is one, and the process of `f` from its birth until it ends, or leaves `f`
by its hook's exception (`EndsHeld`). Who is within a `send()` lives
(`Writing`), and what `receive()` returns before the end has a sender's byte in it
(`EndKnown`). Other clones that inherited the write end only delay the end, and
once `Execute` is over, by whatever path, nobody else has it: `NobodyKeepsTheEnd`, which is what `EndComes` needs
of safety. `ArrivesWhole` is about bytes. A `write` of up to `PIPE_BUF` bytes is all or nothing, so the
pipe holds whole values, each byte followed by the next of its value or the first of
another (`Framed`); so the bytes at the head are one value (`HeadIsWhole`), by induction on their
place. Each value that was sent is in the pipe or has been received (`Complete`), those of a sender
in order in both and across them (`QueuedInOrder`, `ReceivedInOrder`).

**Only model-checked**: liveness under fairness (`Progress`, `KilledEnd`, `NoneStarves`, `EndComes`).
The safety that each of them rests on is proved: `NoCircle`, `NobodyEscapes`, `NoneForgotten`,
`NobodyKeepsTheEnd`. Every other property of a passing run is a theorem.

## 7 Where the code departs from what is said of it

* **A read lock cannot be unlocked** (`file_lock_unlock`; `flock.hpp:49, 67-71`). `State` is
  `RLock = RLock`, `Unlocked` from another enumeration; both are 0. `unlock()`
  returns early, and `lock()`'s assertion passes with the read lock still held. The
  initialisation survives because the write lock of the same guard converts the
  leaked one, and because the descriptor is closed at the end; a clone in between
  keeps it (`Leaked` in `Progress`).
* **A half-made sbox group is taken for complete** (`sbox_cgroup_cut`;
  `cgroup_controller.cpp:58-61`). An exception or a crash after mkdir leaves a
  directory that `check()` accepts. A write that the kernel rejects has the
  same effect without any exception, since `good()` is asked before the flush
  (`Events` "lost").
* **A hook's exception in the child unwinds the parent's frames**
  (`execute_escape`; `execute.cpp:27`). The child runs destructors of objects that
  the parent still uses: a container is removed.

Seen while modelling, and contradicted by nothing that the repository says, so
without a run of their own: a failed remount leaves a writable mount
(`bind.hpp:87-92`); the remount of a recursive bind leaves what it has brought writable
(`bind.hpp:92`); with `SameFiles` the child loses what `f` captured when `Execute`
returns, and an exception of `AfterCloneChild` closes it under the caller (`execute.cpp:27, 45`);
a signal through a knob may reach anybody once `waitpid` has reaped (`process_knob.cpp:38`);
`reset()` that throws leaves a number that is closed (`fd_holder.cpp:34`); a limit or a `killAll()`
that the kernel rejects goes unnoticed (`cgroup_controller.cpp:101, 153`). The models have all
of these, and the properties name them as conditions.

An assignment of function2 that throws leaves a function that says it is not empty
(`function2.hpp:1226`), where the comment of `empty()` says that it tells whether there is a
callable (`function2.hpp:1246`). The library is vendored, and its callers here do not ask a function
after such an exception; `Truthful` has the case as a condition.

## 8 What is not modelled and what is not proved

* `Result`, `panic`, `ensure`, `then`: control flow without state; their effects (an error is
  returned, an exception is thrown, assertions abort) are in every action that
  uses them. The build keeps assertions.
* `rlimit.hpp`, `builder_helper.hpp`: builders without behaviour over time. Of `ExecuteArgs` the
  flags that a call goes by are arguments of `Execute`, Cgroup and Routine; the
  setters' order makes no difference.
* Of function2 what `UniqueFunction` does not use: views, copies, overloads, other
  allocators, and the compile-time machinery, two thirds of the file.
  `third_party` holds submodules.
* Readers of statistics (`getCurrentMemory`, `getCpuUsage`) change nothing.
* Time: timers have a setting and expirations, no clock.
* Two containers of one name and the `chroot` of `enter()`.
* What the routine in the child, or a child that has left `Execute` by an exception, does in the
  caller's frames; of the fields of `clone_args` that a hook may rewrite only the flags and the
  pidfd's pointer: one that asks for a thread (`CLONE_THREAD`), for shared memory (`CLONE_VM`), for
  another parent (`CLONE_PARENT`) or for a certain pid (`set_tid`) is not followed.
* The propagation of mounts between namespaces, and sources that lie in the container.
* Four hazards are without a property, because all there is to say is visible in the
  line, and nothing that the repository says promises more. A uid or gid mapping may
  be lost when its stream is flushed (`execute_hooks.cpp:38`): `EnterF` has both outcomes, which
  nothing that the model keeps tells apart. A limit or a `killAll()` that the kernel rejects is not in
  force, and nobody is told (`cgroup_controller.cpp:101`): `Confined` and `KilledEnd` are about what was
  accepted. Of two threads that get the event of one timer the second one's `wait()` blocks
  (`event_poller.hpp:58`), and so does one for an event that `set()` or `cancel()` has discarded
  (`timer_fd.hpp:53`): `PollsAreTrue` holds when the poll returns, and promises nothing for later.
* Some properties exclude a case that the code does not prevent: the list in
  section 7, with the names of the conditions in section 3.

Not proved: liveness and whatever depends on ENABLED. The library's induction theorems
take an operator as a parameter, which the provers cannot instantiate; where the
length of a list or the place of a byte needs induction (EventPoller, Pipes), the proof takes
the least counterexample instead: `LeastOf` and `UpTo`, from `WFMin` and
`NatLessThanWellFounded`, which both modules have. No module uses RECURSIVE.

## 9 Plan

Followed, the most important behaviour first: FileLock, because the initialisation
stands on it; SboxInit over it, with OneTimeInit as its specification; Execute;
Mounts; Cgroup; EventPoller, with the timers' settings; Pipes; FdHolder and
UniqueFunction, and Routine over both; the theorems of all of them.

Left:

1. **Container lifecycle**: two containers of one name, `remove` and destructor in
   different processes, composed with Mounts.
2. Compose Execute with Cgroup and Pipes: a knob's `wait` as what makes a group tidy.
3. **Theorems**: a ready timer moves towards the head of epoll's list with every
   poll, the variant behind `NoneStarves`; values of more than `PIPE_BUF` bytes of a single
   sender that nothing interrupts.

## 10 How to run

```
tlc -workers 2 -config file_lock.cfg MCFileLock
tlapm FileLockProofs.tla
```

The other runs and their modules are in section 3; each `.cfg` is named after its run.
The longest, `mounts`, takes two minutes with two workers. TLC needs the
community module Functions on its path, `tlapm` the standard TLAPS library. `tlapm` needs a minute or two for each proof module.
