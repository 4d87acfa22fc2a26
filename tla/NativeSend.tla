---------------------------- MODULE NativeSend ----------------------------
(***************************************************************************)
(* One stream of the native interpreter's send: bound.send in               *)
(* packages/effect-zfs/src/native/linux.ts.                                 *)
(*                                                                         *)
(* A worker thread runs lzc_send, which writes the replication stream into  *)
(* a pipe it names by its descriptor NUMBER.  A Node ReadStream reads the   *)
(* other end ahead of the consumer.  When it ends, and only then, the       *)
(* stream asks for lzc_send's errno and closes the write end.  The rest of  *)
(* the process opens and closes files of its own and may, by a second       *)
(* close() like the one NativeReceive shows, close this call's write end.   *)
(***************************************************************************)
EXTENDS Naturals, Sequences, FiniteSets

CONSTANTS
    Fd,          \* descriptor numbers of the process
    NoFd,        \* "no descriptor yet"
    StreamLen,   \* units of the complete stream
    PipeCap,     \* units the kernel pipe holds
    ReadAhead,   \* units the ReadStream buffers before it stops reading
    MayFail,     \* may lzc_send or a read fail?
    StrayCloses  \* may another double close hit this call's write end?

ASSUME ConstantsAssumption ==
    /\ StreamLen \in Nat /\ PipeCap \in Nat
    /\ ReadAhead \in Nat \ {0}    \* a ReadStream's highWaterMark
    /\ NoFd \notin Fd
    /\ MayFail \in BOOLEAN /\ StrayCloses \in BOOLEAN

VARIABLES
    accepted,   \* the options are ones lzc_send can honor
    pc,         \* where the JavaScript side of the stream is
    table,      \* the process's descriptor table
    readFd, writeFd,   \* the numbers pipe() returned
    reader,     \* the ReadStream over the read end
    chunks,     \* what it has read and the consumer has not taken
    eof,        \* it has seen the end of the pipe
    delivered,  \* units the consumer has received
    dangling,   \* an interrupted completion still waits for lzc_send
    pipe,       \* units in the kernel pipe
    worker,     \* the worker thread's progress through lzc_send
    sink,       \* the open file the send ioctl writes to
    sent,       \* units the kernel has written
    errno,      \* what lzc_send returned
    outcome,    \* how the stream ended
    strayed,        \* history: a stray close hit the write end
    foreignClosed,  \* history: a close() of this call hit another's file
    misdirected     \* history: lzc_send got somebody else's file

readerVars == <<reader, chunks, eof>>
workerVars == <<worker, sink, sent, errno, misdirected>>
fdVars     == <<table, foreignClosed>>
callVars   == <<accepted, readFd, writeFd>>
vars == <<callVars, readerVars, workerVars, fdVars, pc, delivered, dangling,
          pipe, outcome, strayed>>

NoErrno == "none"

FreeFds    == {f \in Fd : table[f] = "free"}
Names(end) == {f \in Fd : table[f] = end}
ReadEndOpen  == Names("read") # {}
WriteEndOpen == Names("write") # {} \/ sink = "pipe"

(* close() of a number: nothing if it is free, its present owner's file if *)
(* it is not.                                                              *)
CloseFd(fd) ==
    /\ table' = [f \in Fd |-> IF f = fd THEN "free" ELSE table[f]]
    /\ foreignClosed' = (foreignClosed \/ \E f \in Fd : f = fd /\ table[f] = "other")

Init ==
    /\ accepted \in BOOLEAN
    /\ pc = "guards"
    /\ table = [f \in Fd |-> "free"]
    /\ readFd = NoFd /\ writeFd = NoFd
    /\ reader = "none" /\ chunks = <<>> /\ eof = FALSE
    /\ delivered = <<>> /\ dangling = FALSE
    /\ pipe = <<>>
    /\ worker = "idle" /\ sink = "none" /\ sent = 0 /\ errno = NoErrno
    /\ outcome = "none"
    /\ strayed = FALSE /\ foreignClosed = FALSE /\ misdirected = FALSE

-----------------------------------------------------------------------------
(* The JavaScript side                                                     *)

(* No snapshot, options that need libzfs's zfs_send, or no pipe.           *)
Refuse ==
    /\ pc = "guards"
    /\ ~accepted \/ Cardinality(FreeFds) < 2
    /\ pc' = "exit"
    /\ outcome' = "refused"
    /\ UNCHANGED <<callVars, readerVars, workerVars, fdVars, delivered,
                   dangling, pipe, strayed>>

Opens(leavesWriteEnd) ==
    /\ pc = "guards"
    /\ accepted
    /\ \E r, w \in FreeFds :
          /\ r # w
          /\ readFd' = r /\ writeFd' = w
          /\ table' = [table EXCEPT ![r] = "read",
                                    ![w] = IF leavesWriteEnd THEN "write" ELSE "free"]
    /\ worker' = "queued"
    /\ reader' = "idle"
    /\ pc' = "pull"
    /\ UNCHANGED <<accepted, chunks, eof, sink, sent, errno, misdirected,
                   foreignClosed, delivered, dangling, pipe, outcome, strayed>>

(* pipe(), lzc_send on a worker thread, a ReadStream over the read end.    *)
Start == Opens(TRUE)

(* MUTANT of Deliver: the newest of the buffered units comes first.        *)
DeliverNewest ==
    /\ pc = "pull"
    /\ chunks # <<>>
    /\ delivered' = Append(delivered, chunks[Len(chunks)])
    /\ chunks' = SubSeq(chunks, 1, Len(chunks) - 1)
    /\ UNCHANGED <<callVars, reader, eof, workerVars, fdVars, pc, dangling,
                   pipe, outcome, strayed>>

(* The consumer pulls the next unit out of the ReadStream.                 *)
Deliver ==
    /\ pc = "pull"
    /\ chunks # <<>>
    /\ delivered' = Append(delivered, Head(chunks))
    /\ chunks' = Tail(chunks)
    /\ UNCHANGED <<callVars, reader, eof, workerVars, fdVars, pc, dangling,
                   pipe, outcome, strayed>>

(* The ReadStream has ended, and closes itself; now the completion waits   *)
(* for lzc_send.                                                           *)
BytesEnd ==
    /\ pc = "pull"
    /\ eof /\ chunks = <<>>
    /\ pc' = "complete"
    /\ reader' = "closing"
    /\ UNCHANGED <<callVars, chunks, eof, workerVars, fdVars, delivered,
                   dangling, pipe, outcome, strayed>>

(* MUTANT of Complete: lzc_send's errno is not looked at.                  *)
CompleteIgnoringErrno ==
    /\ pc = "complete"
    /\ worker = "done"
    /\ CloseFd(writeFd)
    /\ outcome' = "ok"
    /\ pc' = "ensure"
    /\ UNCHANGED <<callVars, readerVars, workerVars, delivered, dangling,
                   pipe, strayed>>

(* lzc_send has returned: the write end is closed, an errno or a rejection *)
(* fails the stream.                                                       *)
Complete ==
    /\ pc = "complete"
    /\ worker = "done"
    /\ CloseFd(writeFd)
    /\ outcome' = IF errno = "0" THEN "ok" ELSE "failed"
    /\ pc' = "ensure"
    /\ UNCHANGED <<callVars, readerVars, workerVars, delivered, dangling,
                   pipe, strayed>>

(* MUTANT of Stop: the interruption closes the write end, the finalizer    *)
(* closes it again.                                                        *)
StopClosingWrite ==
    /\ pc \in {"pull", "complete"}
    /\ pc' = "ensure"
    /\ outcome' = "stopped"
    /\ dangling' = (pc = "complete")
    /\ CloseFd(writeFd)
    /\ UNCHANGED <<callVars, readerVars, workerVars, delivered, pipe, strayed>>

(* The consumer stops or is interrupted.  The async function of a started  *)
(* completion is not stopped with it.                                      *)
Stop ==
    /\ pc \in {"pull", "complete"}
    /\ pc' = "ensure"
    /\ outcome' = "stopped"
    /\ dangling' = (pc = "complete")
    /\ UNCHANGED <<callVars, readerVars, workerVars, fdVars, delivered, pipe, strayed>>

(* That function runs its own finally block when lzc_send returns.         *)
LateClose ==
    /\ dangling
    /\ worker = "done"
    /\ CloseFd(writeFd)
    /\ dangling' = FALSE
    /\ UNCHANGED <<callVars, readerVars, workerVars, pc, delivered, pipe,
                   outcome, strayed>>

(* readable.destroy(): a read in flight is waited for.                     *)
Destroy ==
    reader' = CASE reader = "reading" -> "draining"
                [] reader = "idle"    -> "closing"
                [] OTHER              -> reader

(* MUTANT of Ensure: one of the two finalizing calls is missing.           *)
EnsureKeepingWrite ==
    /\ pc = "ensure"
    /\ Destroy
    /\ pc' = "exit"
    /\ UNCHANGED <<callVars, chunks, eof, workerVars, fdVars, delivered,
                   dangling, pipe, outcome, strayed>>

(* Stream.ensuring: both ends are released, whatever was before.           *)
Ensure ==
    /\ pc = "ensure"
    /\ CloseFd(writeFd)
    /\ Destroy
    /\ pc' = "exit"
    /\ UNCHANGED <<callVars, chunks, eof, workerVars, delivered, dangling,
                   pipe, outcome, strayed>>

-----------------------------------------------------------------------------
(* The ReadStream: its reads and its close() run on pool threads.          *)

(* MUTANT of IssueRead: reading ahead has no limit.                        *)
IssueReadAlways ==
    /\ reader = "idle" /\ ~eof
    /\ reader' = "reading"
    /\ UNCHANGED <<callVars, chunks, eof, workerVars, fdVars, pc, delivered,
                   dangling, pipe, outcome, strayed>>

IssueRead ==
    /\ reader = "idle" /\ ~eof
    /\ Len(chunks) < ReadAhead
    /\ reader' = "reading"
    /\ UNCHANGED <<callVars, chunks, eof, workerVars, fdVars, pc, delivered,
                   dangling, pipe, outcome, strayed>>

(* A read returns what is in the pipe, or the end of a pipe that no one    *)
(* can write to, and is dropped if the stream was destroyed meanwhile.     *)
ReadReturns ==
    /\ reader \in {"reading", "draining"}
    /\ \/ \E n \in 1 .. Len(pipe) :
             /\ n <= ReadAhead
             /\ pipe' = SubSeq(pipe, n + 1, Len(pipe))
             /\ chunks' = IF reader = "reading"
                          THEN chunks \o SubSeq(pipe, 1, n) ELSE chunks
             /\ UNCHANGED eof
       \/ /\ pipe = <<>> /\ ~WriteEndOpen
          /\ eof' = TRUE
          /\ UNCHANGED <<pipe, chunks>>
    /\ reader' = IF reader = "reading" THEN "idle" ELSE "closing"
    /\ UNCHANGED <<callVars, workerVars, fdVars, pc, delivered, dangling,
                   outcome, strayed>>

(* A failed read fails the stream of bytes.                                *)
ReadFails ==
    /\ MayFail
    /\ reader = "reading" /\ pc = "pull"
    /\ reader' = "closing"
    /\ pc' = "ensure"
    /\ outcome' = "failed"
    /\ UNCHANGED <<callVars, chunks, eof, workerVars, fdVars, delivered,
                   dangling, pipe, strayed>>

CloseRead ==
    /\ reader = "closing"
    /\ CloseFd(readFd)
    /\ reader' = "closed"
    /\ UNCHANGED <<callVars, chunks, eof, workerVars, pc, delivered, dangling,
                   pipe, outcome, strayed>>

-----------------------------------------------------------------------------
(* The worker thread: lzc_send                                             *)

WorkerReturns(e) ==
    /\ worker' = "done"
    /\ errno' = e
    /\ sink' = "none"

(* A pool thread picks the call up and the kernel looks the number up.     *)
WorkerStart ==
    /\ worker = "queued"
    /\ \/ /\ table[writeFd] \in {"write", "other"}
          /\ worker' = "kernel"
          /\ sink' = IF table[writeFd] = "write" THEN "pipe" ELSE "other"
          /\ misdirected' = (misdirected \/ table[writeFd] = "other")
          /\ UNCHANGED errno
       \/ /\ MayFail \/ table[writeFd] \notin {"write", "other"}
          /\ WorkerReturns("err")
          /\ UNCHANGED misdirected
    /\ UNCHANGED <<callVars, readerVars, fdVars, sent, pc, delivered, dangling,
                   pipe, outcome, strayed>>

KernelWrite ==
    /\ worker = "kernel"
    /\ sent < StreamLen
    /\ \/ sink = "pipe" /\ ReadEndOpen /\ Len(pipe) < PipeCap
          /\ pipe' = Append(pipe, sent + 1)
       \/ sink = "other" /\ UNCHANGED pipe
    /\ sent' = sent + 1
    /\ UNCHANGED <<callVars, readerVars, fdVars, worker, sink, errno, misdirected,
                   pc, delivered, dangling, outcome, strayed>>

(* The whole stream is written, or nobody can read it any more (EPIPE).    *)
KernelReturn ==
    /\ worker = "kernel"
    /\ \/ sent = StreamLen /\ WorkerReturns("0")
       \/ sent < StreamLen /\ sink = "pipe" /\ ~ReadEndOpen /\ WorkerReturns("err")
    /\ UNCHANGED <<callVars, readerVars, fdVars, sent, misdirected, pc,
                   delivered, dangling, pipe, outcome, strayed>>

KernelFails ==
    /\ MayFail
    /\ worker = "kernel"
    /\ sent < StreamLen
    /\ WorkerReturns("err")
    /\ UNCHANGED <<callVars, readerVars, fdVars, sent, misdirected, pc,
                   delivered, dangling, pipe, outcome, strayed>>

-----------------------------------------------------------------------------
(* The rest of the process                                                 *)

OtherOpens ==
    /\ \E f \in FreeFds : table' = [table EXCEPT ![f] = "other"]
    /\ UNCHANGED <<callVars, readerVars, workerVars, foreignClosed, pc,
                   delivered, dangling, pipe, outcome, strayed>>

OtherCloses ==
    /\ \E f \in Names("other") : table' = [table EXCEPT ![f] = "free"]
    /\ UNCHANGED <<callVars, readerVars, workerVars, foreignClosed, pc,
                   delivered, dangling, pipe, outcome, strayed>>

StrayClose ==
    /\ StrayCloses
    /\ \E f \in Names("write") : table' = [table EXCEPT ![f] = "free"]
    /\ strayed' = TRUE
    /\ UNCHANGED <<callVars, readerVars, workerVars, foreignClosed, pc,
                   delivered, dangling, pipe, outcome>>

-----------------------------------------------------------------------------
Call   == Refuse \/ Start \/ Deliver \/ BytesEnd \/ Complete \/ LateClose \/ Ensure
Reader == IssueRead \/ ReadReturns \/ CloseRead
Worker == WorkerStart \/ KernelWrite \/ KernelReturn

Next ==
    \/ Refuse \/ Start \/ Deliver \/ BytesEnd \/ Complete \/ Stop \/ LateClose \/ Ensure
    \/ IssueRead \/ ReadReturns \/ ReadFails \/ CloseRead
    \/ WorkerStart \/ KernelWrite \/ KernelReturn \/ KernelFails
    \/ OtherOpens \/ OtherCloses \/ StrayClose

Spec == Init /\ [][Next]_vars

(* The event loop, the pool threads and the kernel keep running and the    *)
(* consumer keeps pulling.  When it stops, and whether the kernel fails, is *)
(* up to the environment.                                                  *)
Fairness == WF_vars(Call) /\ WF_vars(Reader) /\ WF_vars(Worker)

FairSpec == Spec /\ Fairness

-----------------------------------------------------------------------------
(* Properties                                                              *)

Units == 1 .. StreamLen

TypeOK ==
    /\ accepted \in BOOLEAN
    /\ pc \in {"guards", "pull", "complete", "ensure", "exit"}
    /\ table \in [Fd -> {"free", "read", "write", "other"}]
    /\ readFd \in Fd \cup {NoFd} /\ writeFd \in Fd \cup {NoFd}
    /\ reader \in {"none", "idle", "reading", "draining", "closing", "closed"}
    /\ chunks \in Seq(Units) /\ Len(chunks) < 2 * ReadAhead
    /\ eof \in BOOLEAN
    /\ delivered \in Seq(Units)
    /\ dangling \in BOOLEAN
    /\ pipe \in Seq(Units) /\ Len(pipe) <= PipeCap
    /\ worker \in {"idle", "queued", "kernel", "done"}
    /\ sink \in {"none", "pipe", "other"}
    /\ sent \in 0 .. StreamLen
    /\ errno \in {NoErrno, "0", "err"}
    /\ outcome \in {"none", "ok", "failed", "refused", "stopped"}
    /\ strayed \in BOOLEAN /\ foreignClosed \in BOOLEAN /\ misdirected \in BOOLEAN

(* While the consumer pulls, what it has, what the ReadStream holds and    *)
(* what the pipe holds are together exactly the units lzc_send has         *)
(* written: reading ahead loses, repeats and reorders nothing.  And no     *)
(* stream ends without an error unless the consumer has every unit of it,  *)
(* or lzc_send wrote to another file.                                      *)
InOrderAndWhole ==
    /\ pc \in {"pull", "complete"} /\ ~misdirected =>
           delivered \o chunks \o pipe = [i \in 1 .. sent |-> i]
    /\ outcome = "ok" =>
           errno = "0" /\ (delivered = [i \in Units |-> i] \/ misdirected)

(* Files of others are left alone.  lzc_send writes into one that got the  *)
(* number of this call's pipe only if the stream was over before the       *)
(* worker thread got to look the number up (the consumer stopped, a read   *)
(* failed), or somebody else closed it; and the two places that close the  *)
(* write end close another's file only if somebody else closed it first.   *)
OthersUnharmed ==
    /\ misdirected => outcome \in {"stopped", "failed"} \/ strayed
    /\ foreignClosed => strayed

(* A stream that ended, however it ended, gives back both descriptors, a   *)
(* read that was in flight and an lzc_send that still runs included, and   *)
(* the pool thread: lzc_send ends, if only with EPIPE.                     *)
GivesAllBack ==
    /\ pc = "exit" ~> Names("read") = {} /\ Names("write") = {}
    /\ pc = "exit" /\ worker # "idle" ~> worker = "done"

(* A consumer that keeps pulling sees the end of the stream once lzc_send  *)
(* has returned, as the live test of lzc_send assumes.                     *)
SendEnds == worker = "done" ~> pc = "exit"

-----------------------------------------------------------------------------
(* The stream implements the contract as long as lzc_send writes to it:    *)
(* counts delivered, ends and failures are the contract's, step by step.   *)

Verdict ==
    CASE outcome = "none"    -> "open"
      [] outcome = "ok"      -> "complete"
      [] outcome = "stopped" -> "stopped"
      [] OTHER               -> "failed"

Contract == INSTANCE SendContract
    WITH written <- sent, got <- Len(delivered), verdict <- Verdict

ImplementsContract ==
    Contract!Init /\ [][Contract!Next \/ misdirected]_(Contract!vars)
=============================================================================
