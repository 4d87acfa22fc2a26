# effect-zfs in TLA+

effect-zfs exposes ZFS to TypeScript programs as nine services whose methods are
described once and interpreted twice: by running `zfs` and `zpool` as child
processes (`packages/effect-zfs/src/cli`), and by calling `libzfs_core`,
`libnvpair` and `libzfs` through koffi (`packages/effect-zfs/src/native`).
ARCHITECTURE.md promises that "switching interpreters must not change the nine
domain services". This directory models the parts of the code where that promise
is hard to keep: concurrency with worker threads and child processes, resources
named by reusable numbers, failures and interruptions in the middle of a
transfer, and what every other operation has done when it answers. All paths below are relative to `packages/effect-zfs/src`.

## 1. Inventory

| Part | State it keeps | Operations | Hard behaviour |
|---|---|---|---|
| Native receive (`native/linux.ts` 1315-1534, `native/stream-header.ts`) | pipe descriptors, nvlists, header buffer, promise of `lzc_receive`, `closed`/`settled` flags | guards, pipe, pull chunks, buffer the begin record, start the worker, blocking writes, await, clean up | worker outlives the call; descriptors are numbers the process reuses; the event loop blocks in `writeSync` |
| Native send (`native/linux.ts` 1202-1305) | pipe descriptors, promise of `lzc_send`, a `ReadStream` | open, read ahead, deliver, complete, ensure | end of stream depends on who holds the write end; closes from two places |
| libuv pool (`callAsync`, `native/linux.ts` 220-226) | queue and threads, shared by all transfers | submit, dispatch, return | jobs that wait for each other's pipes while holding a thread |
| CLI transport (`cli/adapter.ts` 429-506, `cli/execute.ts`) | child, three pipes, four fibers | `run`, `runWithInput`, `stream` | full pipes, EPIPE against exit code, scoped kill |
| CLI protocol (`cli/adapter.ts` 687-2173) | cached userspace version | one command per operation; a few run several | JSON-to-text fallbacks, version gate, partial failure |
| CLI parsers (`cli/observe, project, quota, status, allow, decode`) | none | decode text | lossy text formats |
| Native lzc operations (`native/linux.ts`) | none (kernel state) | destroy, rename, snapshot, hold, clone, create, wait, keys, ... | routing by flags, eager calls, look-up before use |
| Native libzfs operations (`native/libzfs.ts`, `native/libzfs-extra.ts`) | library handle, open dataset and pool handles | list, get/set, mount, create pool, import, topology, events, recursive destroy, rollback, diff, project | callbacks during iteration, one step of several failing |
| nvlist and codec (`native/nvlist.ts`, `native/codec.ts`) | allocated nvlists | pack, unpack, snapshot ranges, flags | ownership |
| Bindings and native layer (`native/bindings.ts`) | none | choose a binding, map errors | two dispatch tables for receive |
| Classifier (`errors/classify.ts`) | none | stderr to tagged error | order of patterns |
| Names, limits, versions (`schema`) | none | validation | boundaries |
| Services (`services/*`) | none | protocol call, sometimes a read-back | read-back of something that changed |
| Arguments, generated tables, code generator | none | data | - |

How they meet: a service method calls one method of the protocol. The CLI
protocol turns it into an argument vector for the transport and decodes or
classifies the answer. The native protocol picks a binding; a binding calls a
library function either synchronously on the JavaScript thread or through
`callAsync` on a pool thread. `Replication.send` yields a stream and
`Replication.receive` consumes one, so a caller may connect two transfers of
either interpreter.

`PROJECT.json` lists each hazard at its line; those without a property say why.

## 2. Modules

```
ReceiveContract <--- NativeReceive <--- NativeReceive_proofs ---> StreamLemmas
          ^                                                        ^
          +------ ProcessTransport <--- ProcessTransport_proofs    |
          v                                                        |
SendContract <------ NativeSend <------ NativeSend_proofs ---------+

TransferPool <--- TransferPool_proofs
Destruction <--- MCDestruction, Destruction_proofs

Operations <--- Classification <--- MCClassification, Classification_proofs
      ^
      +-------- Programs <... MCCalls ---> Calls <--- Calls_proofs
```

* **ReceiveContract** and **SendContract** say what one receive and one send
  promise whichever interpreter runs them. A receive takes units of the caller's
  stream in order, succeeds only if the target applied all of them, and may still
  be applied after a failure was reported. A send delivers the units written, in
  order; it completes only with all of them, otherwise it breaks or is stopped.
* **NativeReceive** is `receiveImpl`. Its variables are the generator's locals
  (`pc`, `buffered`, `closed`, `settled`, the two descriptors, the nvlists), the
  process's descriptor table, the pipe, and the worker thread's progress through
  `lzc_receive`. The generator has no asynchronous wait between two of its steps
  except the pull of a chunk and the wait for the promise, so interruption is
  possible exactly at `pc = "pull"` and `pc = "await"`; a `writeSync` that does not
  fit blocks the thread in `pc = "write"`, where nothing else of the JavaScript
  side can run. Descriptors are numbers: `closePipe` closes whatever the number
  names now, and the rest of the process opens and closes files of its own. The
  worker looks descriptors and nvlists up when it uses them.
* **NativeSend** is `bound.send` with the `ReadStream`, which reads ahead on pool
  threads, and the worker in `lzc_send`. `Stop` leaves the async function of a
  started completion running (`dangling`); its `finally` is `LateClose`.
* **TransferPool** puts several sends, receives and send-to-receive pairs on one
  pool of `threads` threads and one JavaScript thread. It keeps counts only: what
  the other modules settle in detail is one step here. The size of the pool and
  the mix of transfers are initial choices. The guard of each action has a name
  (`CanOpen`, `CanDispatch`, ...), because `NeverStuck` says that one of them holds.
* **ProcessTransport** is one call of `processLayer`: child, three pipes, the
  fibers that drain stdout and stderr, wait for the exit code and pump stdin, and
  the scope that kills the child. `Awaiting` says what the call waits for: everything
  at once, or, in `stream`, stdout first, so that a stderr fiber that has failed
  (`StderrBreaks`) ends the call only at its join (`JoinBroken`). `mode` says which of the three methods it is.
* **Destruction** is one destroy or rollback of the native interpreter. `pc` is
  "route" until the request has become library calls (`plan`) on a set of objects
  (`left`), one action per branch of the routing: the merged `destroy` and
  `rollback` of `linux.ts` 1763-1803, `lzc_destroy` (446-464), `lzc_destroy_snaps`
  (825-853), and the libzfs handlers (`libzfs-extra.ts` 1621-1699). Each call is
  then a step, and between two steps other processes take and destroy snapshots.
  What `zfs` itself would destroy for the request is computed when it is made
  (`asked`), with creation as the order of snapshots; names are numbers, which the
  code compares as it compares strings. `zfs_destroy_snaps` may or may not descend
  into child filesystems; both are possible. Every library is taken to be loaded;
  bookmarks, mounts and clones of clones are left out.
* **MCDestruction** has the pools and the requests.
* **Operations** is the generated table of the protocol: its operations, the tags
  each of them declares, the codes of libzfs with their tags. **Classification**
  takes one failure through both interpreters: stderr, as the set of phrases it
  contains, through the ordered table of `errors/classify.ts`, and the code of
  libzfs or the errno of an lzc call through `native/bindings.ts`. **MCClassification**
  chooses the phrases that only say what was attempted.
* **Calls** is one call of any operation: `Build` makes the effect, `Run` runs it,
  `Check` and `Gate` refuse options, `Read` finds the objects, the `Act...` actions
  are the commands and library calls, `Finish` is what comes after them, `Retry`
  runs the effect again. Meanwhile children are created and destroyed by others,
  started work ends and the tools are upgraded. **Programs** is what differs from
  handler to handler, a table for each stretch of the source: the options of
  `args/index.ts`, the handlers of `cli/adapter.ts`, `native/linux.ts`,
  `libzfs.ts` and `libzfs-extra.ts`, the methods of the nine services. **MCCalls**
  puts the two together and names the exceptions. **Calls_proofs** has the theorems,
  for all tables that satisfy `TablesAssumption`.
* **NativeReceive_proofs**, **NativeSend_proofs**, **ProcessTransport_proofs**,
  **TransferPool_proofs**, **Destruction_proofs** and **Classification_proofs** hold the theorems about the
  module each is named for. **StreamLemmas** has what the first two need of
  sequences: units that move from one buffer to the next, one at a time, a head or a
  part at a time, leave the concatenation of the buffers as it is.

An entry of `Programs` says of a handler how it works through its objects, which of
its options it never reads (`drops`) or not on every path (`may`), which it
`refuses`, cannot do without (`needs`) or asks the release of the tools for
(`gated`), how it learns which children there are (`lists`: from what does the work,
by a walk of libzfs that may break off unnoticed, or by such a walk made when the
handler is called), and what of it happens when the effect is built (`eager`):

| `how` | What the handler does | Example |
|---|---|---|
| `once` | one command, or one libzfs function, that may fail in the middle | `runCommand` |
| `call` | one lzc call, all or nothing | `lzc_promote` |
| `each` | one call for each object, up to the first failure | `setBootenv` |
| `names` | the same, but the first call takes the children of all | `glue.snapshot` |
| `goesOn` | goes on after a failure and reports it | `mount -a` |
| `silent` | goes on after a failure and forgets it | `share -a`, `errorLog` |
| `quiet` | some failures stop it and some are forgotten | `project` |
| `again` | the command may be run once more, without `-j` | `channelProgram` |
| `never` | the interpreter has no such operation | CLI `eventsSeek` |

Only options that decide *what is touched* are in the tables: more names, children,
fewer devices or a range of the pool, a cancellation instead of the devices,
nothing at all, and `wait`. Options that shape a call are left out.
The native `destroy`, `rollback`, `send` and `receive` are in no table of handlers,
because they have modules of their own.

Operators commented as MUTANT are deliberate errors of the kind the code could
have; no specification uses them.

Environment that is not code of this repository is modelled from how the code
uses it and marked external in `PROJECT.json`: the libuv pool, `ReadStream`,
`lzc_send` and `lzc_receive` down to the kernel's reads and writes, the child
process, and the rest of the process's files. Units of a stream stand for bytes:
`HeaderLen` units are the begin record, and the code's comparisons against the
record's length become comparisons of counts. Which `lzc_*` variant is called,
and the contents of nvlists, are not told apart.

## 3. Runs

| Run | Bounds | Question |
|---|---|---|
| `receive` | 3 descriptors, stream of 4, header 2, chunks up to 3, pipe 2, fair | types, order, honest success, releases, double frees, stale use, late completion, contract; every receive ends, unless `writeSync` is stuck on a pipe only its own process could read |
| `receive_foreign_close` (violation) | stream 3, pipe 1 | a receive never closes a file of another |
| `send` | 3 descriptors, stream 4, pipe 2, read-ahead 2, failures, stray closes, fair | types, order, no silent end, misdirected writes, foreign closes, contract; a stream that is over gives back descriptors and thread |
| `send_ends` (violation) | stream 2, no failures, fair | a consumer that pulls to the end sees it |
| `transport` | input 3, output 3, stderr 2, pipes of 1, all modes, fair | complete successes, untruncated errors, both contracts, no circular wait, no orphan |
| `pool` | 2 transfers, 1 to 5 threads, stream 4, pipe 1, fair | with enough threads never all wait, and all end |
| `destroy_safety` | 4 filesystems, 3 names, 17 pools, all requests of `MCRequests` (every kind with the flags its class has), one snapshot taken by others | no collateral, honest success, all or nothing, order of a recursive destroy |
| `destroy_dry_run` (violation) | the same | a dry run destroys nothing |
| `destroy_range` (violation) | the same | a range is zfs's range |
| `rollback_spares` (violation) | the same | a rollback destroys only what its flags name |
| `classify` | every operation, every code, every phrase, at most one phrase of what was attempted | the tag of a failure does not depend on the interpreter, and is one the operation declares |
| `calls` | every operation of both interpreters, called directly and through every service, 3 options at a time, 2 listed objects, 1 child, 2 runs, fair | what an answer says about what was done |

Why the bounds are enough. Three descriptors are the pipe and one more, so that a
number can be freed, reused and closed again while the call still knows it; a
fourth would only add files nobody names. A stream longer than header plus pipe,
and chunks both shorter and longer than the header, reach every branch of the
buffering; a pipe smaller than a chunk makes `writeSync` block. A pipe of one
unit makes every wait on a full pipe and on an empty pipe occur. In the pool, the
stream is longer than its pipes and the reader's buffer together, so that a
transfer cannot hide in buffers, and five threads are as many as two transfers
can need. The tree of the destroys is three deep with a clone beside it, so that the
order of a recursive destroy matters at every level, and three snapshots are the
fewest in which the order of creation puts one inside a range that the names put
outside. One snapshot taken by others, and any number destroyed, is enough to
change every set that a handler has computed before. In `calls` two listed objects
have an order in which one can fail after the other, one child can appear or vanish
after it was looked for, three options meet in every triple (what `remove` does with
`cancel`, `dryRun` and `wait` depends on all), and two runs are the first
and a repetition; no operator counts further, and the theorems hold for all bounds.
`CHECK_DEADLOCK FALSE` everywhere: a call that has ended has no step,
and an environment may stop.

Fairness. `WF` of the worker threads, of the drains, of the child and of the
JavaScript side of a call says that threads, kernel and event loop keep running
whenever they can. No fairness is assumed for failures, interruptions, the rest of the
process, or, in the transport, a caller's input that may never yield. The receive
does assume of its upstream that it goes on, and the send of its consumer that it
pulls or stops, where the property is about what the code does with it. In
`TransferPool` every behaviour is finite, so weak fairness of `Next` is enough. In
`Calls`, `WF` of the call's own steps and of the end of the work says that commands
and library functions return and that scrubs, trims and the like come to an end: the
code sets no time limit anywhere and relies on both. Nothing is assumed of retries,
of other processes or of an upgrade.

What the runs show beyond "it holds":

* `StaleUseOnlyWhenAbandoned`, `OthersUnharmed`: a worker meets freed
  nvlists or a reused descriptor only if the call was interrupted or failed before
  `lzc_receive`/`lzc_send` was done. That condition is the exact limit of what the
  code ensures; without it the properties fail.
* `ReleasedAtExit` excludes one descriptor: the write end of a *successful dry
  run*, which sets `settled` and leaves by `closePipe(false)`.
* `ExitsOrWedges`: if `lzc_receive` fails before it has read all that `writeSync`
  writes, the write waits for a reader, and the only open read end belongs to the
  blocked process itself.
* `NeverStuck` and `EndsIfThreadsSuffice`: a send needs a thread for `lzc_send`, a receive one for
  `lzc_receive`, and all the sends together one more for the reads, if no thread
  is bound to come free. With one thread fewer every mix of two transfers has a
  behaviour that hangs. For the default pool of four threads it follows that four
  concurrent sends, or two sends piped into two receives, can starve.
* `OkMeansGone` holds of what the handlers read. Its exclusions are what they do
  not read: extra names beside a range, a dataset or a recursive destroy
  (`NamesUnread`), `-r` and `-R` of a range (`RangeUnread`), and `-R` of a snapshot
  without `-r` or with `-d` (`TreeUnread`). There the destroy succeeds and leaves the
  rest. The last exclusion came out of the proof: with `-r`, `-R` and `-d` together the
  clones that were asked for are not destroyed, but neither do they make the call fail,
  because a snapshot with a clone is only marked.
* `TreeFailsAtSnapshots`: a recursive destroy of filesystems takes children before
  parents, and can fail only because one has snapshots, which the handler does not
  destroy; what it had destroyed by then is gone.

* `calls`: an answer can be taken at its word, except for the calls of four sets in
  `MCCalls`. A member is an operation of an interpreter with the options that lead to
  the exception; all but one are native. The sets are exact: without any one of their
  members TLC finds a call that breaks the property that the set belongs to.
  * `Early` (23 members): the handler's body calls the library outside of any
    effect, as `bound.rename` (`native/linux.ts` 464) does. On the protocol itself
    such an effect acts when it is built, does not act when it is run, and repeats
    its first answer when it is retried. Through a service it behaves, because the
    services call the protocol inside of their own effects; that is what
    `NothingBeforeRun` and `RetryTriesAgain` say. `Pool.SetVdev` is one of them only for
    the property `fru` of a vdev given by its path (`libzfs-extra.ts` 2151-2171), and two
    only for the ancestors that `zfs_create_ancestors` makes at that moment.
  * `Short` (44): success does not mean that everything named was reached.
    * `Swallowing` (23): a failure is forgotten. `zfs_iter_*` and `zpool_iter` return a
      code that nobody looks at, so that a list that breaks off is the answer of `list`
      and leaves datasets out of `mount -a`; `iostat` passes over a pool that does not
      open, the list of faults ends at any error, an error log that cannot be read is
      empty, `lzc_exists` says no for a failure as for an absence.
    * `Losing` (21): the handler does not read `targets`, `recursive`, `all` or its
      devices, or works from a list it read when the effect was built.
  * `Wide` (6): more is touched than was named. `clear` does not read `dryRun`,
    `loadKey` for all does not read `noop`, `split` does not read its devices, `scrub`
    does not read its range and covers the whole pool, and `remove` removes where it
    should cancel if libzfs has no symbol for that. In the CLI `remove` with both
    `cancel` and `dryRun` runs `zpool remove -s` in earnest (`cli/adapter.ts` 1960).
  * `Hasty` (7): `wait` is not read, on every path or on that by GUID.
  ARCHITECTURE.md line 38 wants no difference for the services between the two
  interpreters; the last three sets are where there is one.
* `NothingTwice`: only the fallback from `-j` to plain output repeats a command. For
  `zpool status` that is harmless; a channel program that fails with a text that reads
  like an unknown flag is run twice.
* `GatedNeedsNewTools` holds because the cache errs in one direction: an old release,
  or text that is no version, is kept for good and refuses; the newest is kept too,
  which is right as long as nobody installs an older one.
* `SameTag`: what was attempted is printed on the same line as the cause, and may
  hide it from the CLI's caller, but only if its phrase is tried first.

### Divergences found

* **`receive_foreign_close`** - `native/linux.ts` 1378: `closePipe` closes the write
  end although line 1507 has closed it already, when the wait of lines 1513-1521 is
  interrupted or rejected. The comment "already closed" takes the second close for
  harmless; if another part of the process got the number meanwhile, that file is
  closed. `ForeignCloseOnlyAfterAwait` shows that this is the only way.
* **`send_ends`** - `native/linux.ts` 1296: the write end is closed by the
  completion that follows the bytes, but the bytes end only when every write end
  is closed. A consumer that pulls to the end, as
  `packages/effect-zfs/test/live/native.test.ts` line 266 does, waits for ever
  after `lzc_send` has returned.
* **`destroy_dry_run`** - `native/linux.ts` 1796: the choice by `needsLibzfsDestroy`
  ignores `dryRun`, so the refusal of dry runs in `libzfs-extra.ts` 1623-1630 is
  reached only with other flags. Dry runs of plain destroys, lists and ranges destroy.
* **`destroy_range`** - `native/codec.ts` 206: `snapshotInRange` compares names,
  `zfs destroy fs@from%to` (`schema/name.ts` 167) goes by creation. The run takes a
  range whose ends exist and are in order.
* **`rollback_spares`** - `native/libzfs-extra.ts` 1690: `destroyRecent`,
  `destroyClones` and `force` all become the same `zfs_rollback`, which destroys more
  recent snapshots and their clones; the CLI keeps `-r`, `-R` and `-f` apart.

## 4. Proofs

### Receive

`NativeReceive_proofs` proves, for all stream and header lengths, chunk sizes, pipe
capacities and descriptor sets that satisfy `ConstantsAssumption`:

| Theorem | States |
|---|---|
| `TypeCorrect` | `TypeOK` |
| `Releases` | `ReleasedAtExit` |
| `FreesOnce` | `NoDoubleFree`, which holds at all times; at exit it is part of `ReleasedAtExit` |
| `StaleOnlyWhenAbandoned`, `ForeignOnlyAfterAwait` | the two descriptor-reuse properties |
| `OkIsHonest` | `OkMeansReceived` |
| `NothingLost` | `NothingLostOrReordered` |
| `NoLate` | the action property `NoLateCompletion` |
| `Implements` | `ImplementsContract`: initial states and steps map to the contract |

None of the properties is inductive. The invariant `Inv` is the conjunction of
six parts, each preserved by every action: `Unborn` (nothing exists before the
pipe does), `Progress` (which program points go with which worker states and
counts), `Holding` (as long as the call has not closed a descriptor, its number
still names the pipe: this is what makes a double close the only danger), `Owned`
(who may free the nvlists), `Released` (what is closed at which point) and
`Answered` (what the outcome says of the errno). `NothingLost` needs a second
invariant, `Conserved`: what the kernel has read, what is in the pipe, what
`writeSync` still has to write and what is buffered, concatenated, are the units
pulled so far. It is proved over `Prefix` and a few lemmas about sequences, given
`TypeOK` and `Inv`. Both invariants were checked by TLC on the instance of
`receive` first. The proofs assume only `ConstantsAssumption`, which TLC evaluates in
every run.

### Calls

`Calls_proofs` proves the ten safety properties of `Calls` for every set of operations,
options, objects and tables, and every bound, that satisfy `ConstantsAssumption` and
`TablesAssumption`. The second says what the four sets are for: a call for which the
handler acts early, loses an option or swallows a failure is in the set for it. So the theorems
hold for a handler that is added to the tables, and TLC evaluates both assumptions on
the tables as they are.

| Theorem | States | Rests on |
|---|---|---|
| `TypeCorrect` | `TypeOK` | `Inv`: types, and what a request can be |
| `Refusals` | `RefusedTouchesNothing` | `Stage`: what can have been done at which point of the call, built or run |
| `Laziness` | `NothingBeforeRun` | `Stage` |
| `Gates` | `GatedNeedsNewTools` | `GateInv`: a cached release is never newer than the tools, and gated options pass the gate before anything is done |
| `Retries` | `RetryTriesAgain` | `TriedInv`: an answer is settled before a run only by early calls |
| `NoRepetition` | `NothingTwice` | `TwiceInv`: what is left and what this run has worked on are disjoint |
| `Prefixes` | `FailureIsPrefix` | `PrefixInv`: what is left is the end of the list, whatever earlier runs have done |
| `Waits` | `WaitedMeansFinished` | `WaitInv`: `wait` is still among the options when the work has begun |
| `NothingElse` | `TouchesOnlyTheMeant` | `TouchInv`: the options the handler has come down to cover no more than those of the request |
| `Success` | `OkMeansAllMeant` | `MeantInv`: whatever is covered, and was there all the time, is done or still left |

None is inductive. `Refusals` is the one with the longest argument: it needs that an
early refusal is settled at build, that a refusal in a run implies the same refusal in
every run, and that the ancestors are not created by a handler that refuses. `MeantInv`
compares what the options cover when the children are read with what they cover at the
end, through `stayed`; the lemmas `CoveredByFewer`, `CoveredByKept` and `MeantLess` say
how `Covered` depends on options and children. Each invariant is stated over `Inv` and
has one step for each action.

### Send

`NativeSend_proofs` assumes `ConstantsAssumption`; that the read-ahead is not zero is
what makes a `ReadStream` read at all.

| Theorem | States |
|---|---|
| `TypeCorrect` | `TypeOK` |
| `Others` | `OthersUnharmed` |
| `Whole_InOrder` | `InOrderAndWhole` |
| `Implements` | `ImplementsContract`: the send implements `SendContract` |

`TypeOK` is not inductive: that a read may return as much as the pipe holds is safe only
because it was issued when there was room (`RoomToRead`). `Inv` says which program points
go with which states of reader, worker and descriptors; its part `Ended` is the core of
the divergence `send_ends`: the end of the pipe is seen only after every write end is
closed, and while the stream is open this takes a stray close. `Conserved` is the
counterpart of the receive's: delivered, read ahead and in the pipe, concatenated, are
what `lzc_send` has written, as long as it has not written into somebody else's file.

### CLI process transport

| Theorem | States |
|---|---|
| `TypeCorrect` | `TypeOK` |
| `Verdicts` | `VerdictIsComplete` |
| `Implements` | `ImplementsContracts`: `stream` is a send, `runWithInput` a receive |

The invariant follows a fact from the child to the caller in four steps: what an exit code
says of the child (`Exited`), that what the drains and the exit fiber have seen is final
because the child is gone (`Seen`), that a verdict waits for all of them (`Judged`), and
when the pump is done (`Feeds`). With `Implements` of the native modules this is what the
architecture asks for: both interpreters keep the same two contracts.

### Concurrent transfers

`TransferPool_proofs` holds for every finite set of transfers, every mix of kinds, every
number of threads, and every length of streams and pipes.

| Theorem | States |
|---|---|
| `TypeCorrect` | `TypeOK` |
| `NoDeadlock` | `NeverStuck`: with `Needed` threads, some transfer can go on until all have ended |

The invariant `All` has the queue (`Waiting`: every queued job is in it, once), the
balance of the counts (`Balance`: written = in the pipe + held + taken; taken = being
written + in the pipe + read), and the course of the jobs (`Belongs`, `Submitted`,
`Finished`, `ReadsWhenEmpty`). The argument of `NoDeadlock`: if nothing can go on, some
job is queued (`Unstuck`, step 7), so all threads are taken, by jobs that wait. A send
whose `lzc_send` waits has a full pipe and one whose read waits an empty one, so of each
send at most one job runs, and of each receive at most one: no more jobs run than there
are sends and receives (`RunningAtMost`, by an injection for each). If every receive is
fed by a send, `Needed` is one more; otherwise a receive from outside cannot be among
the waiting, and neither can a receive whose `writeSync` blocks the JavaScript thread.
That transfers then also *end* is liveness and is left to the run.

### Destruction

`Destruction_proofs` holds for every set of requests the two argument classes allow and
every set of pools that are `Sound` (no snapshot without its filesystem, no clone without
its origin); `Above` is any finite strict order.

| Theorem | States | Rests on |
|---|---|---|
| `TypeCorrect` | `TypeOK` | `Base`: which requests become which calls, on which objects |
| `AllOrNothingAlways` | `AllOrNothing` | `Halfway`: a call that is not recursive has one object, or one list |
| `TreeOrder` | `TreeFailsAtSnapshots` | `Rooted`: what is left of a tree contains all that is under it, so its deepest filesystem is a leaf |
| `NothingElse` | `NoCollateral` | `Justified`: what the calls to come can reach was asked for or is somebody's new snapshot; `SameName`, `Consistent` |
| `AllGone` | `OkMeansGone` | `Gone`: what was asked for is gone, marked, or destroyed by a call still to come; `OfLive` |

All library calls are instances of two relations, `Destroys(S, B, D)` and `Ends`, and all
routes of a third, `Starts` (lemmas `CallKinds` and `RouteKinds`), so that an invariant is
shown for these and not for every handler again. The steps of other processes are
part of every one of these invariants. The proof showed two things the model had
left out: that a pool is `Sound` when the request is made, without which both
`NothingElse` and `AllGone` are false, and the deferred recursive destroy of clones above.

### Classification

`Classification_proofs` holds for every table of phrases, codes, errnos and declared tags,
and every set of attempts, that satisfy `TablesAssumption`: a phrase has one place in the
table, of two phrases of which one contains the other the longer is tried first, and what
unrecognised failures are called is no code. TLC evaluates it on the tables of
`errors/classify.ts`, so that a pattern added at the wrong place fails there.

| Theorem | States |
|---|---|
| `Agreement` | `SameTag` |
| `Declarations` | `OnlyDeclaredTags` |

The invariant says what a failure can look like (`Failed`) and what each side has made of
it (`Course`). The rest is about the table: of the phrases of a text the one tried first
is recognised (`FirstWins`); reading a text adds only phrases that are tried after the
printed ones (`Reading`); so the cause is recognised, or an attempt tried before it is
(`Hidden`).

### Not proved

Model-checked only: everything under fairness (tlapm does not prove `ENABLED`), that is
`ExitsOrWedges`, `GivesAllBack`, `EndsUnlessInputStalls`, `NoOrphan`,
`EndsIfThreadsSuffice` and `Returns`. That the tables of `Programs` and `Classification`
satisfy the assumptions is evaluated by TLC, not proved; the violations are runs by their
nature. Every safety property and every refinement that a passing run checks is a theorem.

## 5. Not modelled

Argument vectors, parsing of output (`cli/observe, project, quota, status, allow,
decode`), nvlist contents, raw ioctl buffers, property tables: text and data without a
state to get wrong. Name checks and limits: validation of single strings; in `Calls` a
name that does not decode is a refusal. Schema models: declarations. The code generator:
an offline tool. Of the answers only success, failure and refusal are told apart, so that
a wrong *value* in an answer (the pool `Pools.create` makes up, the first pool import
happens to find, 64 fault records) is listed as a hazard without a property. Waiting for
one activity after the other, and the JavaScript thread standing still meanwhile, are
listed too. Handle leaks of single functions. In the native send, a rejection of
`lzc_send`'s promise before anything awaits it, which Node may turn into a process-wide
event. Memory safety inside libzfs.

## 6. Plan

1. (done) `ReceiveContract`, `NativeReceive`, its proofs.
2. (done) `SendContract`, `NativeSend`, `ProcessTransport`, `TransferPool`.
3. (done) `Destruction`: the native destroy and rollback.
4. (done) `Operations`, `Classification`.
5. (done) `Calls` with `Programs` for all other operations, and its proofs. It covers
   what was planned as modules of their own: parents and snapshot sets, dispatch with
   version gate and fallback, effects built but not run, device by device operations,
   `mount -a`.
6. (done) Proofs of the safety properties and refinements of `NativeSend`,
   `ProcessTransport`, `TransferPool`, `Destruction` and `Classification`.
7. Proofs: what liveness leaves to prove without fairness, in the manner of `NeverStuck`
   (a receive that has not ended is wedged or can go on; a send whose stream is over can
   give back its descriptors; a process call whose input does not stall can go on), and
   that every step of `TransferPool` uses up some of a finite supply.
