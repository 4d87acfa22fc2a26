--------------------------- MODULE TransferPool ---------------------------
(***************************************************************************)
(* Several native sends and receives of one process, and the two resources  *)
(* they share: the threads of libuv's pool, on which lzc_send, lzc_receive  *)
(* and every read of a send's ReadStream run to their end, blocked or not,  *)
(* and the one JavaScript thread, which blocks in the writeSync of a        *)
(* receive.  (packages/effect-zfs/src/native/linux.ts; the calls themselves *)
(* are the subject of NativeSend and NativeReceive.)                        *)
(*                                                                         *)
(* A transfer is a send, a receive from a source outside the process, or a  *)
(* send piped into a receive.                                               *)
(***************************************************************************)
EXTENDS Naturals, Sequences, FiniteSets

CONSTANTS
    Transfer,   \* the transfers of the process
    Nobody,     \* nobody blocks the JavaScript thread
    MaxThreads, \* bound: threads of the largest pool
    StreamLen,  \* bound: units of a stream
    PipeCap     \* units a pipe holds

ASSUME ConstantsAssumption ==
    /\ IsFiniteSet(Transfer) /\ Nobody \notin Transfer
    /\ MaxThreads \in Nat \ {0} /\ StreamLen \in Nat \ {0} /\ PipeCap \in Nat \ {0}

VARIABLES
    threads,  \* threads of the pool (UV_THREADPOOL_SIZE, by default 4)
    kind,     \* what each transfer is
    phase,    \* "new", "open", "ended"
    job,      \* the state of each transfer's "send", "read" and "receive" job
    queue,    \* the pool's FIFO of jobs that wait for a thread
    sent,     \* units lzc_send has written
    sendPipe, \* units in the send's pipe
    held,     \* units the ReadStream holds
    taken,    \* units the JavaScript side has taken from the source
    recvPipe, \* units in the receive's pipe
    received, \* units lzc_receive has read
    writing   \* the receive that blocks the JavaScript thread in writeSync

vars == <<threads, kind, phase, job, queue, sent, sendPipe, held, taken, recvPipe,
          received, writing>>

Kinds == {"send", "receive", "pair"}
Jobs  == {"send", "read", "receive"}

Sends(t)    == kind[t] \in {"send", "pair"}
Receives(t) == kind[t] \in {"receive", "pair"}

Running   == {j \in Transfer \X Jobs : job[j] = "running"}
Free      == writing = Nobody
AllEnded  == \A t \in Transfer : phase[t] = "ended"

Init ==
    /\ threads \in 1 .. MaxThreads
    /\ kind \in [Transfer -> Kinds]
    /\ phase = [t \in Transfer |-> "new"]
    /\ job = [j \in Transfer \X Jobs |-> "none"]
    /\ queue = <<>>
    /\ sent = [t \in Transfer |-> 0] /\ sendPipe = [t \in Transfer |-> 0]
    /\ held = [t \in Transfer |-> 0] /\ taken = [t \in Transfer |-> 0]
    /\ recvPipe = [t \in Transfer |-> 0] /\ received = [t \in Transfer |-> 0]
    /\ writing = Nobody

Submit(j) ==
    /\ job' = [job EXCEPT ![j] = "queued"]
    /\ queue' = Append(queue, j)

-----------------------------------------------------------------------------
(* The JavaScript thread.  The guard of each action has a name of its own,  *)
(* for NeverStuck is about what can go on.                                  *)

(* The stream of a send is pulled for the first time: lzc_send is queued.  *)
(* A receive queues nothing before its first chunk.                        *)
CanOpen(t) == Free /\ phase[t] = "new"

Open(t) ==
    /\ CanOpen(t)
    /\ phase' = [phase EXCEPT ![t] = "open"]
    /\ IF Sends(t) THEN Submit(<<t, "send">>) ELSE UNCHANGED <<job, queue>>
    /\ UNCHANGED <<threads, kind, sent, sendPipe, held, taken, recvPipe,
                   received, writing>>

(* MUTANT of IssueRead: reading goes on while units are still held.        *)
IssueReadAhead(t) ==
    /\ Free /\ phase[t] = "open" /\ Sends(t)
    /\ job[<<t, "read">>] = "none"
    /\ Submit(<<t, "read">>)
    /\ UNCHANGED <<threads, kind, phase, sent, sendPipe, held, taken, recvPipe,
                   received, writing>>

CanIssueRead(t) ==
    /\ Free /\ phase[t] = "open" /\ Sends(t)
    /\ job[<<t, "read">>] = "none" /\ held[t] = 0

IssueRead(t) ==
    /\ CanIssueRead(t)
    /\ Submit(<<t, "read">>)
    /\ UNCHANGED <<threads, kind, phase, sent, sendPipe, held, taken,
                   recvPipe, received, writing>>

(* The next unit of the source.  A receive is queued with the first one    *)
(* and blocks the thread until its pipe has taken the unit.                *)
CanTake(t) ==
    /\ Free /\ phase[t] = "open"
    /\ IF Sends(t) THEN held[t] > 0 ELSE taken[t] < StreamLen

Take(t) ==
    /\ CanTake(t)
    /\ held' = IF Sends(t) THEN [held EXCEPT ![t] = @ - 1] ELSE held
    /\ taken' = [taken EXCEPT ![t] = @ + 1]
    /\ writing' = IF Receives(t) THEN t ELSE Nobody
    /\ IF Receives(t) /\ taken[t] = 0
       THEN Submit(<<t, "receive">>)
       ELSE UNCHANGED <<job, queue>>
    /\ UNCHANGED <<threads, kind, phase, sent, sendPipe, recvPipe, received>>

CanWrite(t) == writing = t /\ recvPipe[t] < PipeCap

Write(t) ==
    /\ CanWrite(t)
    /\ recvPipe' = [recvPipe EXCEPT ![t] = @ + 1]
    /\ writing' = Nobody
    /\ UNCHANGED <<threads, kind, phase, job, queue, sent, sendPipe, held,
                   taken, received>>

(* The consumer of a send stops when it has the whole stream (of itself    *)
(* the stream does not end, see NativeSend); a receive ends with its job.  *)
CanEnd(t) ==
    /\ Free /\ phase[t] = "open"
    /\ taken[t] = StreamLen
    /\ Receives(t) => job[<<t, "receive">>] = "done"

End(t) ==
    /\ CanEnd(t)
    /\ phase' = [phase EXCEPT ![t] = "ended"]
    /\ UNCHANGED <<threads, kind, job, queue, sent, sendPipe, held, taken,
                   recvPipe,
                   received, writing>>

-----------------------------------------------------------------------------
(* The pool                                                                *)

(* MUTANT of CanDispatch: one thread is kept out of use.                   *)
CanDispatchSparing == queue # <<>> /\ Cardinality(Running) < threads - 1

CanDispatch == queue # <<>> /\ Cardinality(Running) < threads

Dispatch ==
    /\ CanDispatch
    /\ job' = [job EXCEPT ![Head(queue)] = "running"]
    /\ queue' = Tail(queue)
    /\ UNCHANGED <<threads, kind, phase, sent, sendPipe, held, taken,
                   recvPipe, received, writing>>

Finishes(j) == job' = [job EXCEPT ![j] = "done"]

CanKernelWrite(t) ==
    /\ job[<<t, "send">>] = "running"
    /\ sent[t] < StreamLen /\ sendPipe[t] < PipeCap

KernelWrites(t) ==
    /\ CanKernelWrite(t)
    /\ sent' = [sent EXCEPT ![t] = @ + 1]
    /\ sendPipe' = [sendPipe EXCEPT ![t] = @ + 1]
    /\ UNCHANGED <<threads, kind, phase, job, queue, held, taken, recvPipe,
                   received, writing>>

CanSendReturn(t) == job[<<t, "send">>] = "running" /\ sent[t] = StreamLen

SendReturns(t) ==
    /\ CanSendReturn(t)
    /\ Finishes(<<t, "send">>)
    /\ UNCHANGED <<threads, kind, phase, queue, sent, sendPipe, held, taken,
                   recvPipe,
                   received, writing>>

(* A read returns what there is; it sees the end of the pipe only when the *)
(* stream is over and its write end closed.                                *)
CanReadReturn(t) ==
    /\ job[<<t, "read">>] = "running"
    /\ sendPipe[t] > 0 \/ (phase[t] = "ended" /\ job[<<t, "send">>] = "done")

(* MUTANT of ReadReturns: it does not wait for the pipe, and is repeated.   *)
ReadReturnsAtOnce(t) ==
    /\ job[<<t, "read">>] = "running"
    /\ job' = [job EXCEPT ![<<t, "read">>] = "none"]
    /\ held' = [held EXCEPT ![t] = @ + sendPipe[t]]
    /\ sendPipe' = [sendPipe EXCEPT ![t] = 0]
    /\ UNCHANGED <<threads, kind, phase, queue, sent, taken, recvPipe,
                   received, writing>>

ReadReturns(t) ==
    /\ CanReadReturn(t)
    /\ IF sendPipe[t] > 0
       THEN job' = [job EXCEPT ![<<t, "read">>] = "none"]
       ELSE Finishes(<<t, "read">>)
    /\ held' = [held EXCEPT ![t] = @ + sendPipe[t]]
    /\ sendPipe' = [sendPipe EXCEPT ![t] = 0]
    /\ UNCHANGED <<threads, kind, phase, queue, sent, taken, recvPipe,
                   received, writing>>

CanKernelRead(t) == job[<<t, "receive">>] = "running" /\ recvPipe[t] > 0

KernelReads(t) ==
    /\ CanKernelRead(t)
    /\ recvPipe' = [recvPipe EXCEPT ![t] = @ - 1]
    /\ received' = [received EXCEPT ![t] = @ + 1]
    /\ UNCHANGED <<threads, kind, phase, job, queue, sent, sendPipe, held,
                   taken, writing>>

CanReceiveReturn(t) ==
    job[<<t, "receive">>] = "running" /\ received[t] = StreamLen

ReceiveReturns(t) ==
    /\ CanReceiveReturn(t)
    /\ Finishes(<<t, "receive">>)
    /\ UNCHANGED <<threads, kind, phase, queue, sent, sendPipe, held, taken,
                   recvPipe,
                   received, writing>>

-----------------------------------------------------------------------------
Next ==
    \/ \E t \in Transfer :
          \/ Open(t) \/ IssueRead(t) \/ Take(t) \/ Write(t) \/ End(t)
          \/ KernelWrites(t) \/ SendReturns(t) \/ ReadReturns(t)
          \/ KernelReads(t) \/ ReceiveReturns(t)
    \/ Dispatch

Spec == Init /\ [][Next]_vars

(* Threads and kernel keep running.  No transfer goes on for ever, so that *)
(* fairness of the whole is enough.                                        *)
FairSpec == Spec /\ WF_vars(Next)

-----------------------------------------------------------------------------
(* Properties                                                              *)

TypeOK ==
    /\ threads \in 1 .. MaxThreads
    /\ kind \in [Transfer -> Kinds]
    /\ phase \in [Transfer -> {"new", "open", "ended"}]
    /\ job \in [Transfer \X Jobs -> {"none", "queued", "running", "done"}]
    /\ queue \in Seq(Transfer \X Jobs)
    /\ sent \in [Transfer -> 0 .. StreamLen]
    /\ sendPipe \in [Transfer -> 0 .. PipeCap]
    /\ held \in [Transfer -> 0 .. PipeCap]
    /\ taken \in [Transfer -> 0 .. StreamLen]
    /\ recvPipe \in [Transfer -> 0 .. PipeCap]
    /\ received \in [Transfer -> 0 .. StreamLen]
    /\ writing \in Transfer \cup {Nobody}

(* The threads it takes: one for every lzc_send and every lzc_receive, for *)
(* these may all wait at once, and one more for the reads if each of them  *)
(* waits for a read.  A receive from outside the process does not: its     *)
(* thread comes free for the reads when it ends.                           *)
Sending   == {t \in Transfer : Sends(t)}
Receiving == {t \in Transfer : Receives(t)}

Needed ==
    Cardinality(Sending) + Cardinality(Receiving)
      + (IF Sending # {} /\ Receiving \subseteq Sending THEN 1 ELSE 0)

(* Something can go on.                                                    *)
CanStep ==
    \/ \E t \in Transfer :
          \/ CanOpen(t) \/ CanIssueRead(t) \/ CanTake(t) \/ CanWrite(t) \/ CanEnd(t)
          \/ CanKernelWrite(t) \/ CanSendReturn(t) \/ CanReadReturn(t)
          \/ CanKernelRead(t) \/ CanReceiveReturn(t)
    \/ CanDispatch

(* With that many threads the transfers are never all waiting, for a       *)
(* thread, for each other's pipes or for the blocked JavaScript thread.    *)
NeverStuck == Needed <= threads => AllEnded \/ CanStep

(* And then every transfer ends.                                           *)
EndsIfThreadsSuffice == Needed <= threads => <>AllEnded
=============================================================================
