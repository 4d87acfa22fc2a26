-------------------------- MODULE NativeReceive --------------------------
(***************************************************************************)
(* One call of the native interpreter's receive: receiveImpl in             *)
(* packages/effect-zfs/src/native/linux.ts.                                 *)
(*                                                                         *)
(* Three parties run concurrently.  The JavaScript thread pulls chunks of   *)
(* the caller's stream, finds the DRR_BEGIN header, and writes the chunks   *)
(* into a pipe with writeSync.  A worker thread runs lzc_receive, which     *)
(* names the pipe by its descriptor NUMBER.  The rest of the process opens  *)
(* and closes files of its own, so that a number this call has closed may   *)
(* name somebody else's file at any later moment.                           *)
(*                                                                         *)
(* The stream is a row of units 1, 2, 3, ...; a chunk is a run of them.     *)
(***************************************************************************)
EXTENDS Naturals, Sequences, FiniteSets

CONSTANTS
    Fd,         \* descriptor numbers of the process
    NoFd,       \* "no descriptor yet"
    StreamLen,  \* units of the complete stream, its end record included
    HeaderLen,  \* units of the DRR_BEGIN record (beginRecordBytes)
    MaxChunk,   \* bound: units in the caller's largest chunk
    PipeCap,    \* units the kernel pipe holds
    MayQuit     \* may lzc_receive return before it read the whole stream?

ASSUME ConstantsAssumption ==
    /\ StreamLen \in Nat /\ HeaderLen \in Nat \ {0}
    /\ MaxChunk \in Nat /\ PipeCap \in Nat
    /\ NoFd \notin Fd
    /\ MayQuit \in BOOLEAN

VARIABLES
    input,     \* the caller's options, and what the stream's header will say
    pc,        \* where the JavaScript thread is
    table,     \* the process's descriptor table
    readFd, writeFd,   \* the numbers pipe() returned
    nv,        \* the nvlists handed to lzc_receive
    closed,    \* closePipe's guard
    pulled,    \* units taken from the caller's stream
    buffered,  \* chunks kept until the header is complete
    toWrite,   \* what the current writeSync has still to write
    pending,   \* the promise of the receive: none yet, a dry run's, a real one
    pipe,      \* units in the kernel pipe
    worker,    \* the worker thread's progress through lzc_receive
    source,    \* the open file the receive ioctl holds
    taken,     \* units the kernel has taken from the pipe
    errno,     \* what lzc_receive returned
    outcome,   \* what the caller is told
    foreignClosed,  \* history: a close() of this call hit another's file
    staleUse        \* history: lzc_receive used a freed nvlist or another's file

jsVars     == <<input, readFd, writeFd, pulled, buffered, toWrite, pending>>
workerVars == <<worker, source, taken, errno, staleUse>>
fdVars     == <<table, nv, closed, foreignClosed>>
vars == <<jsVars, workerVars, fdVars, pc, pipe, outcome>>

Lists   == {"props", "cmdprops"}
NoErrno == "none"

(* receive's options that steer the call.  "supported" is FALSE when heal  *)
(* has no entry point or -h, -M, -u or an unbindable -x was asked for.     *)
Inputs == [dryRun : BOOLEAN, supported : BOOLEAN, nvLoaded : BOOLEAN,
           lists : SUBSET Lists, begin : {"ok", "invalid", "badname"}]

-----------------------------------------------------------------------------
(* Descriptors and nvlists                                                 *)

FreeFds    == {f \in Fd : table[f] = "free"}
Names(end) == {f \in Fd : table[f] = end}
ReadEndOpen  == Names("read") # {} \/ source = "pipe"
WriteEndOpen == Names("write") # {}

(* close() of each number of S.  A number that is free answers EBADF, a    *)
(* number that was reused loses its new owner's file.                      *)
CloseFds(S) ==
    /\ table' = [f \in Fd |-> IF f \in S THEN "free" ELSE table[f]]
    /\ foreignClosed' = (foreignClosed \/ \E f \in S : table[f] = "other")

FreeLists ==
    nv' = [l \in Lists |-> CASE nv[l] = "live"  -> "freed"
                             [] nv[l] = "freed" -> "twice"
                             [] OTHER           -> nv[l]]

(* MUTANT of ClosePipe: the `closed` guard is dropped.                     *)
ClosePipeUnguarded ==
    /\ closed' = TRUE
    /\ CloseFds({readFd, writeFd})
    /\ FreeLists

ClosePipe ==
    IF closed
    THEN UNCHANGED fdVars
    ELSE /\ closed' = TRUE
         /\ CloseFds({readFd, writeFd})
         /\ FreeLists

-----------------------------------------------------------------------------
(* The JavaScript thread                                                   *)

Init ==
    /\ input \in Inputs
    /\ pc = "guards"
    /\ table = [f \in Fd |-> "free"]
    /\ readFd = NoFd /\ writeFd = NoFd
    /\ nv = [l \in Lists |-> "absent"]
    /\ closed = FALSE
    /\ pulled = 0 /\ buffered = <<>> /\ toWrite = <<>>
    /\ pending = "none"
    /\ pipe = <<>>
    /\ worker = "idle" /\ source = "none" /\ taken = <<>>
    /\ errno = NoErrno
    /\ outcome = "none"
    /\ foreignClosed = FALSE /\ staleUse = FALSE

(* The early failures: an option the call cannot honor, a pipe() that      *)
(* fails, libnvpair missing (both ends are closed again at once).          *)
Refuse ==
    /\ pc = "guards"
    /\ \/ ~input.supported
       \/ Cardinality(FreeFds) < 2
       \/ ~input.nvLoaded
    /\ pc' = "exit"
    /\ outcome' = "refused"
    /\ UNCHANGED <<jsVars, workerVars, fdVars, pipe>>

(* pipe(), then the nvlists; from here on closePipe is the call's cleanup. *)
OpenPipe ==
    /\ pc = "guards"
    /\ input.supported /\ input.nvLoaded
    /\ \E r, w \in FreeFds :
          /\ r # w
          /\ readFd' = r /\ writeFd' = w
          /\ table' = [table EXCEPT ![r] = "read", ![w] = "write"]
    /\ nv' = [l \in Lists |-> IF l \in input.lists THEN "live" ELSE "absent"]
    /\ pc' = "pull"
    /\ UNCHANGED <<input, pulled, buffered, toWrite, pending, workerVars,
                   closed, foreignClosed, pipe, outcome>>

(* MUTANT of Chunk: the chunk is sliced one unit too far on.               *)
ChunkOffByOne(n) == [i \in 1 .. n |-> pulled + i + 1]

(* The next chunk of n units that the caller's stream yields.              *)
Chunk(n) == [i \in 1 .. n |-> pulled + i]

Pulls(n) ==
    /\ pc = "pull"
    /\ pulled + n <= StreamLen
    /\ pulled' = pulled + n

FailWith(why) ==
    /\ pc' = "ensure"
    /\ outcome' = why

(* A chunk that leaves the header short is kept.  The "exceeded" failure   *)
(* asks for four headers' worth of bytes of a stream that has less than    *)
(* one, so no stream reaches it.                                           *)
BufferShort(n) ==
    /\ pending = "none"
    /\ Pulls(n)
    /\ buffered' = buffered \o Chunk(n)
    /\ Len(buffered') < HeaderLen
    /\ IF Len(buffered') > 4 * HeaderLen
       THEN FailWith("badstream")
       ELSE UNCHANGED <<pc, outcome>>
    /\ UNCHANGED <<input, readFd, writeFd, toWrite, pending, workerVars,
                   fdVars, pipe>>

(* The chunk completes the header: it is invalid, or names no snapshot     *)
(* that may be received, or it is all a dry run wanted, or the receive     *)
(* starts and everything buffered is written to it.                        *)
HeaderComplete(n) ==
    /\ pending = "none"
    /\ Pulls(n)
    /\ buffered' = buffered \o Chunk(n)
    /\ Len(buffered') >= HeaderLen
    /\ UNCHANGED <<input, readFd, writeFd, fdVars, pipe,
                   source, taken, errno, staleUse>>

RejectHeader(n) ==
    /\ HeaderComplete(n)
    /\ input.begin # "ok"
    /\ FailWith("badstream")
    /\ UNCHANGED <<toWrite, pending, worker>>

AcceptDryRun(n) ==
    /\ HeaderComplete(n)
    /\ input.begin = "ok" /\ input.dryRun
    /\ pending' = "dry"
    /\ UNCHANGED <<pc, outcome, toWrite, worker>>

(* MUTANT of StartReceive: only the last chunk is written, not all that    *)
(* was buffered for the header.                                            *)
StartReceiveLastChunk(n) ==
    /\ HeaderComplete(n)
    /\ input.begin = "ok" /\ ~input.dryRun
    /\ pending' = "running"
    /\ worker' = "queued"
    /\ toWrite' = Chunk(n)
    /\ pc' = "write"
    /\ UNCHANGED outcome

StartReceive(n) ==
    /\ HeaderComplete(n)
    /\ input.begin = "ok" /\ ~input.dryRun
    /\ pending' = "running"
    /\ worker' = "queued"
    /\ toWrite' = buffered'
    /\ pc' = "write"
    /\ UNCHANGED outcome

(* Later chunks go straight to the pipe; a dry run drops them.             *)
ForwardChunk(n) ==
    /\ pending = "running"
    /\ Pulls(n)
    /\ toWrite' = Chunk(n)
    /\ pc' = "write"
    /\ UNCHANGED <<input, readFd, writeFd, buffered, pending, workerVars,
                   fdVars, pipe, outcome>>

DropChunk(n) ==
    /\ pending = "dry"
    /\ Pulls(n)
    /\ UNCHANGED <<input, readFd, writeFd, buffered, toWrite, pending,
                   workerVars, fdVars, pc, pipe, outcome>>

(* writeSync on a blocking pipe: the JavaScript thread does nothing else   *)
(* until the pipe has taken the whole chunk.                               *)
WriteUnit ==
    /\ pc = "write"
    /\ ReadEndOpen
    /\ Len(pipe) < PipeCap
    /\ pipe' = Append(pipe, Head(toWrite))
    /\ toWrite' = Tail(toWrite)
    /\ pc' = IF Len(toWrite) = 1 THEN "pull" ELSE "write"
    /\ UNCHANGED <<input, readFd, writeFd, pulled, buffered, pending,
                   workerVars, fdVars, outcome>>

(* MUTANT of UpstreamEnds: everything is released before the wait.         *)
UpstreamEndsReleasingAll ==
    /\ pc = "pull"
    /\ IF pending = "none"
       THEN FailWith("badstream") /\ UNCHANGED fdVars
       ELSE pc' = "await" /\ ClosePipe /\ UNCHANGED outcome
    /\ UNCHANGED <<jsVars, workerVars, pipe>>

(* MUTANT of UpstreamEnds: the write end stays open during the wait.       *)
UpstreamEndsLeavingWriteEnd ==
    /\ pc = "pull"
    /\ IF pending = "none"
       THEN FailWith("badstream")
       ELSE pc' = "await" /\ UNCHANGED outcome
    /\ UNCHANGED <<jsVars, workerVars, fdVars, pipe>>

(* The caller's stream ends: without a header that is an error, otherwise  *)
(* the write end is closed and the call waits for the receive.             *)
UpstreamEnds ==
    /\ pc = "pull"
    /\ CASE pending = "none" ->
              /\ FailWith("badstream")
              /\ UNCHANGED fdVars
         [] pending = "dry" ->
              /\ pc' = "await"
              /\ UNCHANGED <<fdVars, outcome>>
         [] OTHER ->
              /\ pc' = "await"
              /\ CloseFds({writeFd})
              /\ UNCHANGED <<nv, closed, outcome>>
    /\ UNCHANGED <<jsVars, workerVars, pipe>>

UpstreamFails ==
    /\ pc = "pull"
    /\ FailWith("upstream")
    /\ UNCHANGED <<jsVars, workerVars, fdVars, pipe>>

(* The fiber is interrupted while it waits for a chunk or for the receive. *)
Interrupt ==
    /\ pc \in {"pull", "await"}
    /\ FailWith("interrupted")
    /\ UNCHANGED <<jsVars, workerVars, fdVars, pipe>>

(* MUTANT of Settle: any errno is reported as success.                     *)
SettleIgnoringErrno ==
    /\ pc = "await"
    /\ pending = "dry" \/ (worker = "done" /\ errno # "reject")
    /\ CloseFds({readFd})
    /\ FreeLists
    /\ closed' = TRUE
    /\ FailWith("ok")
    /\ UNCHANGED <<jsVars, workerVars, pipe>>

(* MUTANT of Settle: `closed = true` is missing.                           *)
SettleForgettingClosed ==
    /\ pc = "await"
    /\ pending = "dry" \/ (worker = "done" /\ errno # "reject")
    /\ CloseFds({readFd})
    /\ FreeLists
    /\ FailWith(IF pending = "dry" \/ errno = "0" THEN "ok" ELSE "errno")
    /\ UNCHANGED <<jsVars, workerVars, closed, pipe>>

(* MUTANT of Settle: the promise is not awaited.                           *)
SettleWithoutAwait ==
    /\ pc = "await"
    /\ CloseFds({readFd})
    /\ FreeLists
    /\ closed' = TRUE
    /\ FailWith("ok")
    /\ UNCHANGED <<jsVars, workerVars, pipe>>

(* The promise settles with an errno: the read end and the nvlists go, and *)
(* closePipe is told that nothing is left to do.                           *)
Settle ==
    /\ pc = "await"
    /\ pending = "dry" \/ (worker = "done" /\ errno # "reject")
    /\ CloseFds({readFd})
    /\ FreeLists
    /\ closed' = TRUE
    /\ FailWith(IF pending = "dry" \/ errno = "0" THEN "ok" ELSE "errno")
    /\ UNCHANGED <<jsVars, workerVars, pipe>>

(* The promise rejects: lzc_receive could not be called.                   *)
SettleRejected ==
    /\ pc = "await"
    /\ worker = "done" /\ errno = "reject"
    /\ FailWith("rejected")
    /\ UNCHANGED <<jsVars, workerVars, fdVars, pipe>>

(* MUTANT of Ensure: the cleanup runs on success only.                     *)
EnsureOnSuccess ==
    /\ pc = "ensure"
    /\ IF outcome = "ok" THEN ClosePipe ELSE UNCHANGED fdVars
    /\ pc' = "exit"
    /\ UNCHANGED <<jsVars, workerVars, pipe, outcome>>

(* Effect.ensuring runs the cleanup on every exit.                         *)
Ensure ==
    /\ pc = "ensure"
    /\ ClosePipe
    /\ pc' = "exit"
    /\ UNCHANGED <<jsVars, workerVars, pipe, outcome>>

-----------------------------------------------------------------------------
(* The worker thread: lzc_receive                                          *)

WorkerReturns(e) ==
    /\ worker' = "done"
    /\ errno' = e
    /\ source' = "none"

(* A pool thread picks the call up.                                        *)
WorkerStart ==
    /\ worker = "queued"
    /\ worker' = "header"
    /\ UNCHANGED <<jsVars, fdVars, pc, pipe, source, taken, errno, outcome, staleUse>>

(* The call cannot be marshalled, or lzc_receive fails before it has the   *)
(* whole stream: a bad option, a wrong target, no space.                   *)
WorkerQuits ==
    /\ MayQuit
    /\ worker \in {"queued", "header", "kernel"}
    /\ Len(taken) < StreamLen
    /\ WorkerReturns(IF worker = "queued" THEN "reject" ELSE "err")
    /\ UNCHANGED <<jsVars, fdVars, pc, pipe, taken, outcome, staleUse>>

(* Library code reads the begin record with read(2) on the number.         *)
ReadHeader ==
    /\ worker = "header"
    /\ Len(taken) < HeaderLen
    /\ \/ /\ table[readFd] = "read" /\ pipe # <<>>
          /\ taken' = Append(taken, Head(pipe))
          /\ pipe' = Tail(pipe)
          /\ UNCHANGED <<worker, source, errno, staleUse>>
       \/ /\ \/ table[readFd] = "read" /\ pipe = <<>> /\ ~WriteEndOpen
             \/ table[readFd] = "free"
          /\ WorkerReturns("err")
          /\ UNCHANGED <<taken, pipe, staleUse>>
       \/ /\ table[readFd] = "other"
          /\ staleUse' = TRUE
          /\ WorkerReturns("err")
          /\ UNCHANGED <<taken, pipe>>
    /\ UNCHANGED <<jsVars, fdVars, pc, outcome>>

(* Then it copies the nvlists into the ioctl's arguments and enters the    *)
(* kernel, which takes its own reference to the file the number names.     *)
EnterKernel ==
    /\ worker = "header"
    /\ Len(taken) = HeaderLen
    /\ staleUse' = (\/ staleUse
                    \/ \E l \in Lists : nv[l] \in {"freed", "twice"}
                    \/ table[readFd] = "other")
    /\ IF table[readFd] = "read"
       THEN worker' = "kernel" /\ source' = "pipe" /\ UNCHANGED errno
       ELSE WorkerReturns("err")
    /\ UNCHANGED <<jsVars, fdVars, pc, pipe, taken, outcome>>

KernelTake ==
    /\ worker = "kernel"
    /\ pipe # <<>>
    /\ Len(taken) < StreamLen
    /\ taken' = Append(taken, Head(pipe))
    /\ pipe' = Tail(pipe)
    /\ UNCHANGED <<jsVars, fdVars, pc, outcome, worker, source, errno, staleUse>>

(* The kernel returns 0 once it has the end record, and fails on a stream  *)
(* that stops before it.                                                   *)
KernelReturn ==
    /\ worker = "kernel"
    /\ \/ Len(taken) = StreamLen /\ WorkerReturns("0")
       \/ /\ Len(taken) < StreamLen /\ pipe = <<>> /\ ~WriteEndOpen
          /\ WorkerReturns("err")
    /\ UNCHANGED <<jsVars, fdVars, pc, pipe, taken, outcome, staleUse>>

-----------------------------------------------------------------------------
(* The rest of the process opens and closes its own files.                 *)

OtherOpens ==
    /\ \E f \in FreeFds : table' = [table EXCEPT ![f] = "other"]
    /\ UNCHANGED <<jsVars, workerVars, nv, closed, foreignClosed, pc, pipe, outcome>>

OtherCloses ==
    /\ \E f \in Names("other") : table' = [table EXCEPT ![f] = "free"]
    /\ UNCHANGED <<jsVars, workerVars, nv, closed, foreignClosed, pc, pipe, outcome>>

-----------------------------------------------------------------------------
TakesChunk(n) ==
    \/ BufferShort(n) \/ RejectHeader(n) \/ AcceptDryRun(n)
    \/ StartReceive(n) \/ ForwardChunk(n) \/ DropChunk(n)

(* The caller's stream does something: a chunk, its end, or a failure.     *)
Upstream ==
    \/ \E n \in 1 .. MaxChunk : TakesChunk(n)
    \/ UpstreamEnds
    \/ UpstreamFails

Call   == Refuse \/ OpenPipe \/ WriteUnit \/ Settle \/ SettleRejected \/ Ensure
Worker == WorkerStart \/ ReadHeader \/ EnterKernel \/ KernelTake \/ KernelReturn

Next ==
    \/ Upstream \/ Interrupt
    \/ Refuse \/ OpenPipe \/ WriteUnit \/ Settle \/ SettleRejected \/ Ensure
    \/ WorkerStart \/ WorkerQuits
    \/ ReadHeader \/ EnterKernel \/ KernelTake \/ KernelReturn
    \/ OtherOpens \/ OtherCloses

Spec == Init /\ [][Next]_vars

(* The JavaScript thread and the worker threads keep running and the       *)
(* caller's stream keeps yielding until it ends.  Interruption, early      *)
(* failures of lzc_receive and the other files of the process are up to    *)
(* the environment.                                                        *)
Fairness == WF_vars(Upstream) /\ WF_vars(Call) /\ WF_vars(Worker)

FairSpec == Spec /\ Fairness

-----------------------------------------------------------------------------
(* Properties                                                              *)

Units == 1 .. StreamLen

TypeOK ==
    /\ input \in Inputs
    /\ pc \in {"guards", "pull", "write", "await", "ensure", "exit"}
    /\ table \in [Fd -> {"free", "read", "write", "other"}]
    /\ readFd \in Fd \cup {NoFd} /\ writeFd \in Fd \cup {NoFd}
    /\ nv \in [Lists -> {"absent", "live", "freed", "twice"}]
    /\ closed \in BOOLEAN
    /\ pulled \in 0 .. StreamLen
    /\ buffered \in Seq(Units) /\ toWrite \in Seq(Units)
    /\ pending \in {"none", "dry", "running"}
    /\ pipe \in Seq(Units)
    /\ worker \in {"idle", "queued", "header", "kernel", "done"}
    /\ source \in {"none", "pipe"}
    /\ taken \in Seq(Units)
    /\ errno \in {NoErrno, "0", "err", "reject"}
    /\ outcome \in {"none", "ok", "errno", "rejected", "refused",
                    "badstream", "upstream", "interrupted"}
    /\ foreignClosed \in BOOLEAN /\ staleUse \in BOOLEAN

(* Every unit of the caller's stream reaches the kernel once and in order, *)
(* across the switch from buffering the header to writing chunks through:  *)
(* what the kernel took, what the pipe holds and what is being written are *)
(* together exactly the units pulled so far.                               *)
NothingLostOrReordered ==
    pending = "running" =>
        taken \o pipe \o toWrite = [i \in 1 .. pulled |-> i]

(* Success of a real receive means that lzc_receive returned 0, and that   *)
(* it did so for the complete stream rather than for a truncated one.      *)
OkMeansReceived ==
    outcome = "ok" /\ ~input.dryRun => errno = "0" /\ Len(taken) = StreamLen

(* When the call has ended its two descriptors are closed and its nvlists  *)
(* freed, once each whichever of the two freeing sites ran, on every path  *)
(* but one: a dry run that succeeds keeps the write end, because the code  *)
(* closes it only for a real receive and then marks the cleanup as done.   *)
ReleasedAtExit ==
    pc = "exit" =>
        /\ \A l \in Lists : nv[l] \in {"absent", "freed"}
        /\ Names("read") = {}
        /\ \/ Names("write") = {}
           \/ input.dryRun /\ outcome = "ok" /\ Names("write") = {writeFd}

(* No nvlist is freed twice, not even before the call ends.                *)
NoDoubleFree == \A l \in Lists : nv[l] # "twice"

(* lzc_receive finds its nvlists and its descriptor as they were handed to *)
(* it, unless the call was abandoned under it: an interruption or a failed *)
(* upstream runs the cleanup while the worker thread is still going.       *)
StaleUseOnlyWhenAbandoned == staleUse => outcome \in {"interrupted", "upstream"}

(* A close() of this call never hits somebody else's file, unless the call *)
(* left its wait for the receive by interruption or rejection: the write   *)
(* end is then already closed and the cleanup closes the number again.     *)
ForeignCloseOnlyAfterAwait ==
    foreignClosed => outcome \in {"interrupted", "rejected"}

(* The comments at the two catch blocks ("already closed") say that a      *)
(* second close is harmless.  It is so only while the number stays free.   *)
NeverClosesForeign == ~foreignClosed

(* The target changes behind the caller's back, after the call has         *)
(* reported how it ended, only when it was abandoned.                      *)
NoLateCompletion ==
    [][errno' = "0" /\ errno # "0"
         => outcome = "none" \/ outcome \in {"interrupted", "upstream"}]_vars

(* The JavaScript thread is blocked for good in writeSync: the receive has *)
(* failed before it read the whole stream, nobody else reads the pipe, and *)
(* the call's own copy of the read end keeps the write from failing.       *)
Wedged ==
    /\ pc = "write"
    /\ worker = "done" /\ Len(taken) < StreamLen
    /\ Len(pipe) >= PipeCap
    /\ table[readFd] = "read"

(* Every receive ends, or is wedged: the thread blocked in writeSync and   *)
(* the worker that reads the pipe wait for each other in no other way, and *)
(* in none at all as long as lzc_receive reads its stream.                 *)
ExitsOrWedges == <>(pc = "exit" \/ Wedged)

-----------------------------------------------------------------------------
(* The call implements the interpreter-independent contract.               *)

Verdict ==
    CASE outcome = "none" -> "open"
      [] outcome = "ok"   -> "ok"
      [] OTHER            -> "failed"

Contract == INSTANCE ReceiveContract
    WITH dryRun <- input.dryRun, fed <- pulled,
         applied <- (errno = "0"), verdict <- Verdict

ImplementsContract == Contract!Spec
=============================================================================
