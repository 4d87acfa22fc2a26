---------------------- MODULE NativeReceive_proofs ----------------------
(***************************************************************************)
(* Theorems about NativeReceive and their proofs: type correctness, what    *)
(* becomes of the call's descriptors and nvlists, the conservation of the   *)
(* stream's units, and the implementation of ReceiveContract.               *)
(***************************************************************************)
EXTENDS NativeReceive, StreamLemmas, TLAPS

(* An all-quiet prefix or a refused call has acquired nothing.             *)
Unborn ==
    pc = "guards" \/ outcome = "refused" =>
        /\ ~closed /\ ~foreignClosed /\ ~staleUse
        /\ \A f \in Fd : table[f] \in {"free", "other"}
        /\ \A l \in Lists : nv[l] = "absent"
        /\ pending = "none" /\ toWrite = <<>>

(* How far the call is and what it has told its caller.                    *)
Progress ==
    /\ pc \in {"guards", "pull", "write", "await"} <=> outcome = "none"
    /\ outcome = "refused" => pc = "exit"
    /\ pc = "exit" => closed \/ outcome = "refused"
    /\ closed => pc \in {"ensure", "exit"}
    /\ pc = "ensure" => (closed <=> outcome \in {"ok", "errno"})
    /\ pending \in {"none", "dry"} => worker = "idle" /\ errno = NoErrno
    /\ pending = "dry" => input.dryRun
    /\ pending = "running" => ~input.dryRun
    /\ pc = "write" => pending = "running"
    /\ pc = "await" => pending # "none"

Holding == pc \in {"pull", "write", "await"} \/ (pc = "ensure" /\ ~closed)

(* While the cleanup is still due, the read end is the call's own, the     *)
(* write end is its own or closed, and no nvlist was freed.                *)
Owned ==
    Holding =>
        /\ readFd \in Fd /\ writeFd \in Fd /\ readFd # writeFd
        /\ \A f \in Fd : table[f] = "read" <=> f = readFd
        /\ \A f \in Fd : table[f] = "write" => f = writeFd
        /\ table[writeFd] # "write" =>
              pc = "await" \/ outcome \in {"interrupted", "rejected"}
        /\ pc = "await" /\ pending = "running" => table[writeFd] # "write"
        /\ \A l \in Lists : nv[l] \in {"absent", "live"}

(* Once it is done, the cleanup has released everything but the write end  *)
(* of a successful dry run.                                                *)
Released ==
    closed =>
        /\ \A f \in Fd : table[f] # "read"
        /\ \A f \in Fd : table[f] = "write" =>
              f = writeFd /\ input.dryRun /\ outcome = "ok"
        /\ \A l \in Lists : nv[l] \in {"absent", "freed"}

(* The worker thread and the verdict.                                      *)
Answered ==
    /\ worker \in {"queued", "header", "kernel"}
          => outcome \in {"none", "interrupted", "upstream"}
    /\ errno = "0" => worker = "done" /\ Len(taken) = StreamLen
    /\ outcome = "ok" => pending = "dry" \/ errno = "0"

Inv ==
    /\ Unborn /\ Progress /\ Owned /\ Released /\ Answered
    /\ StaleUseOnlyWhenAbandoned /\ ForeignCloseOnlyAfterAwait

(* Where the units pulled so far are.                                      *)
Conserved ==
    /\ pending = "none" =>
          /\ buffered = Prefix(pulled)
          /\ taken = <<>> /\ pipe = <<>> /\ toWrite = <<>>
    /\ pending = "running" => taken \o (pipe \o toWrite) = Prefix(pulled)
    /\ pending = "dry" => taken = <<>>
    /\ pc = "write" <=> toWrite # <<>>

-----------------------------------------------------------------------------
(* Type correctness                                                        *)

(* A chunk is a sequence of stream units.                                  *)
LEMMA ChunkType ==
    ASSUME TypeOK, NEW n \in 1 .. MaxChunk, pulled + n <= StreamLen
    PROVE  /\ pulled + n \in 0 .. StreamLen
           /\ Chunk(n) \in Seq(Units)
           /\ Len(Chunk(n)) = n
           /\ buffered \o Chunk(n) \in Seq(Units)
<1>1. n \in Nat /\ pulled \in Nat /\ StreamLen \in Nat /\ pulled + n \in 0 .. StreamLen
    BY ConstantsAssumption DEF TypeOK
<1>2. \A i \in 1 .. n : pulled + i \in Units
    BY <1>1 DEF Units
<1>3. Chunk(n) \in Seq(Units) /\ Len(Chunk(n)) = n
    BY <1>1, <1>2 DEF Chunk
<1>4. buffered \o Chunk(n) \in Seq(Units)
    BY <1>3 DEF TypeOK
<1> QED
    BY <1>1, <1>3, <1>4

(* Closing keeps the types of what it touches.                             *)
LEMMA CloseFdsType ==
    ASSUME TypeOK, NEW S, CloseFds(S)
    PROVE  /\ table' \in [Fd -> {"free", "read", "write", "other"}]
           /\ foreignClosed' \in BOOLEAN
<1>1. table' \in [Fd -> {"free", "read", "write", "other"}]
    BY DEF TypeOK, CloseFds
<1>2. foreignClosed' \in BOOLEAN
    BY DEF CloseFds
<1> QED
    BY <1>1, <1>2

(* So does the cleanup.                                                    *)
LEMMA ClosePipeType ==
    ASSUME TypeOK, ClosePipe
    PROVE  /\ table' \in [Fd -> {"free", "read", "write", "other"}]
           /\ nv' \in [Lists -> {"absent", "live", "freed", "twice"}]
           /\ closed' \in BOOLEAN /\ foreignClosed' \in BOOLEAN
BY DEF TypeOK, ClosePipe, CloseFds, FreeLists, fdVars

(* A thread that is writing has something left to write: without this the  *)
(* types are not inductive, because WriteUnit takes the head of toWrite.   *)
Writing == pc = "write" => toWrite # <<>>

LEMMA WritingStep == TypeOK /\ Writing /\ [Next]_vars => Writing'
<1> SUFFICES ASSUME TypeOK, Writing, [Next]_vars PROVE Writing'
    OBVIOUS
<1> USE DEF Writing, jsVars, workerVars, fdVars
<1>1. ASSUME NEW n \in 1 .. MaxChunk, TakesChunk(n) PROVE Writing'
    <2>1. /\ pulled + n <= StreamLen /\ n >= 1
          /\ pc = "pull"
        BY <1>1, ConstantsAssumption DEF TakesChunk, BufferShort, RejectHeader,
            AcceptDryRun, StartReceive, ForwardChunk, DropChunk, HeaderComplete, Pulls
    <2>2. Chunk(n) # <<>>
        BY <2>1, ChunkType
    <2>3. CASE StartReceive(n)
        <3>1. toWrite' = buffered' /\ Len(buffered') >= HeaderLen
            BY <2>3 DEF StartReceive, HeaderComplete
        <3>2. buffered' \in Seq(Units)
            BY <2>3, <2>1, ChunkType DEF StartReceive, HeaderComplete
        <3> QED
            BY <3>1, <3>2, ConstantsAssumption
    <2>4. CASE ForwardChunk(n)
        BY <2>2, <2>4 DEF ForwardChunk
    <2>5. CASE BufferShort(n) \/ RejectHeader(n) \/ AcceptDryRun(n) \/ DropChunk(n)
        BY <2>1, <2>5 DEF BufferShort, RejectHeader, AcceptDryRun, DropChunk,
            HeaderComplete, Pulls, FailWith
    <2> QED
        BY <1>1, <2>3, <2>4, <2>5 DEF TakesChunk
<1>2. CASE WriteUnit
    <2>1. toWrite \in Seq(Units) /\ toWrite # <<>>
        BY <1>2 DEF TypeOK, WriteUnit
    <2>2. Len(toWrite) = 1 \/ Tail(toWrite) # <<>>
        <3>1. Len(Tail(toWrite)) = Len(toWrite) - 1 /\ Len(toWrite) \in Nat
            BY <2>1, HeadTailProperties, LenProperties
        <3>2. Len(<<>>) = 0
            BY EmptySeq
        <3> QED
            BY <3>1, <3>2
    <2> QED
        BY <1>2, <2>2 DEF WriteUnit
<1>3. CASE UpstreamEnds \/ UpstreamFails \/ Interrupt \/ Refuse \/ OpenPipe
    BY <1>3 DEF UpstreamEnds, UpstreamFails, Interrupt, Refuse, OpenPipe, FailWith
<1>4. CASE Settle \/ SettleRejected \/ Ensure
    BY <1>4 DEF Settle, SettleRejected, Ensure, FailWith
<1>5. CASE \/ WorkerStart \/ WorkerQuits \/ ReadHeader \/ EnterKernel \/ KernelTake
           \/ KernelReturn \/ OtherOpens \/ OtherCloses \/ UNCHANGED vars
    BY <1>5 DEF WorkerStart, WorkerQuits, ReadHeader, EnterKernel, KernelTake, KernelReturn,
        OtherOpens, OtherCloses, vars
<1> QED
    BY <1>1, <1>2, <1>3, <1>4, <1>5 DEF Next, Upstream

LEMMA TypeStep == TypeOK /\ Writing /\ [Next]_vars => TypeOK'
<1> SUFFICES ASSUME TypeOK, Writing, [Next]_vars PROVE TypeOK'
    OBVIOUS
<1> USE DEF jsVars, workerVars, fdVars
<1>1. ASSUME NEW n \in 1 .. MaxChunk, TakesChunk(n) PROVE TypeOK'
    <2>1. pulled + n <= StreamLen
        BY <1>1 DEF TakesChunk, BufferShort, RejectHeader, AcceptDryRun,
            StartReceive, ForwardChunk, DropChunk, HeaderComplete, Pulls
    <2>2. /\ pulled + n \in 0 .. StreamLen
          /\ Chunk(n) \in Seq(Units)
          /\ buffered \o Chunk(n) \in Seq(Units)
        BY <2>1, ChunkType
    <2>3. CASE BufferShort(n)
        BY <2>2, <2>3 DEF TypeOK, BufferShort, Pulls, FailWith
    <2>4. CASE RejectHeader(n)
        BY <2>2, <2>4 DEF TypeOK, RejectHeader, HeaderComplete, Pulls, FailWith
    <2>5. CASE AcceptDryRun(n)
        BY <2>2, <2>5 DEF TypeOK, AcceptDryRun, HeaderComplete, Pulls
    <2>6. CASE StartReceive(n)
        BY <2>2, <2>6 DEF TypeOK, StartReceive, HeaderComplete, Pulls
    <2>7. CASE ForwardChunk(n)
        BY <2>2, <2>7 DEF TypeOK, ForwardChunk, Pulls
    <2>8. CASE DropChunk(n)
        BY <2>2, <2>8 DEF TypeOK, DropChunk, Pulls
    <2> QED
        BY <1>1, <2>3, <2>4, <2>5, <2>6, <2>7, <2>8 DEF TakesChunk
<1>2. CASE UpstreamEnds
    <2>1. CASE pending = "running"
        <3>1. CloseFds({writeFd})
            BY <1>2, <2>1 DEF UpstreamEnds
        <3> QED
            BY <1>2, <2>1, <3>1, CloseFdsType DEF TypeOK, UpstreamEnds
    <2>2. CASE pending \in {"none", "dry"}
        BY <1>2, <2>2 DEF TypeOK, UpstreamEnds, FailWith
    <2> QED
        BY <2>1, <2>2 DEF TypeOK
<1>3. CASE UpstreamFails
    BY <1>3 DEF TypeOK, UpstreamFails, FailWith
<1>4. CASE Interrupt
    BY <1>4 DEF TypeOK, Interrupt, FailWith
<1>5. CASE Refuse
    BY <1>5 DEF TypeOK, Refuse
<1>6. CASE OpenPipe
    <2>1. /\ readFd' \in Fd /\ writeFd' \in Fd
          /\ table' \in [Fd -> {"free", "read", "write", "other"}]
        BY <1>6 DEF TypeOK, OpenPipe, FreeFds
    <2>2. nv' \in [Lists -> {"absent", "live", "freed", "twice"}]
        BY <1>6 DEF OpenPipe
    <2> QED
        BY <1>6, <2>1, <2>2 DEF TypeOK, OpenPipe
<1>7. CASE WriteUnit
    <2>1. Head(toWrite) \in Units /\ Tail(toWrite) \in Seq(Units)
        BY <1>7 DEF TypeOK, WriteUnit, Writing
    <2> QED
        BY <1>7, <2>1 DEF TypeOK, WriteUnit
<1>8. CASE Settle
    <2>1. CloseFds({readFd})
        BY <1>8 DEF Settle
    <2> QED
        BY <1>8, <2>1, CloseFdsType DEF TypeOK, Settle, FreeLists, FailWith
<1>9. CASE SettleRejected
    BY <1>9 DEF TypeOK, SettleRejected, FailWith
<1>10. CASE Ensure
    BY <1>10, ClosePipeType DEF TypeOK, Ensure
<1>11. CASE WorkerStart \/ WorkerQuits
    BY <1>11 DEF TypeOK, WorkerStart, WorkerQuits, WorkerReturns
<1>12. CASE ReadHeader
    <2>1. pipe = <<>> \/ (Head(pipe) \in Units /\ Tail(pipe) \in Seq(Units))
        BY DEF TypeOK
    <2>2. taken' \in Seq(Units) /\ pipe' \in Seq(Units)
        <3>1. CASE /\ pipe # <<>>
                   /\ taken' = Append(taken, Head(pipe)) /\ pipe' = Tail(pipe)
            BY <2>1, <3>1 DEF TypeOK
        <3>2. CASE UNCHANGED <<taken, pipe>>
            BY <3>2 DEF TypeOK
        <3> QED
            BY <1>12, <3>1, <3>2 DEF ReadHeader
    <2>3. /\ worker' \in {"queued", "header", "kernel", "done"}
          /\ source' \in {"none", "pipe"}
          /\ errno' \in {NoErrno, "0", "err", "reject"}
          /\ staleUse' \in BOOLEAN
        BY <1>12 DEF TypeOK, ReadHeader, WorkerReturns
    <2> QED
        BY <1>12, <2>2, <2>3 DEF TypeOK, ReadHeader
<1>13. CASE EnterKernel
    BY <1>13 DEF TypeOK, EnterKernel, WorkerReturns
<1>14. CASE KernelTake
    BY <1>14 DEF TypeOK, KernelTake
<1>15. CASE KernelReturn
    BY <1>15 DEF TypeOK, KernelReturn, WorkerReturns
<1>16. CASE OtherOpens
    BY <1>16 DEF TypeOK, OtherOpens, FreeFds
<1>17. CASE OtherCloses
    BY <1>17 DEF TypeOK, OtherCloses, Names
<1>18. CASE UNCHANGED vars
    BY <1>18 DEF TypeOK, vars
<1> QED
    BY <1>1, <1>2, <1>3, <1>4, <1>5, <1>6, <1>7, <1>8, <1>9, <1>10, <1>11,
       <1>12, <1>13, <1>14, <1>15, <1>16, <1>17, <1>18 DEF Next, Upstream

(* Every variable keeps its type, for every stream length, chunk size,     *)
(* pipe capacity and descriptor table.                                     *)
THEOREM TypeCorrect == Spec => []TypeOK
<1>1. Init => TypeOK
    <2> SUFFICES ASSUME Init PROVE TypeOK
        OBVIOUS
    <2>1. 0 \in 0 .. StreamLen
        BY ConstantsAssumption
    <2>2. <<>> \in Seq(Units)
        OBVIOUS
    <2> QED
        BY <2>1, <2>2 DEF Init, TypeOK
<1>2. Init => Writing
    BY DEF Init, Writing
<1> QED
    BY <1>1, <1>2, TypeStep, WritingStep, PTL DEF Spec

-----------------------------------------------------------------------------
(* Descriptors, nvlists and verdicts                                       *)

LEMMA InvStep == TypeOK /\ TypeOK' /\ Writing' /\ Inv /\ [Next]_vars => Inv'
<1> SUFFICES ASSUME TypeOK, TypeOK', Writing', Inv, [Next]_vars PROVE Inv'
    OBVIOUS
<1> USE DEF Inv, Unborn, Progress, Holding, Owned, Released, Answered,
        StaleUseOnlyWhenAbandoned, ForeignCloseOnlyAfterAwait,
        jsVars, workerVars, fdVars
<1>1. ASSUME NEW n \in 1 .. MaxChunk, TakesChunk(n) PROVE Inv'
    <2>3. CASE BufferShort(n)
        BY <2>3 DEF TypeOK, BufferShort, Pulls, FailWith
    <2>4. CASE RejectHeader(n)
        BY <2>4 DEF TypeOK, RejectHeader, HeaderComplete, Pulls, FailWith
    <2>5. CASE AcceptDryRun(n)
        BY <2>5 DEF TypeOK, AcceptDryRun, HeaderComplete, Pulls
    <2>6. CASE StartReceive(n)
        BY <2>6 DEF TypeOK, StartReceive, HeaderComplete, Pulls
    <2>7. CASE ForwardChunk(n)
        BY <2>7 DEF TypeOK, ForwardChunk, Pulls
    <2>8. CASE DropChunk(n)
        BY <2>8 DEF TypeOK, DropChunk, Pulls
    <2> QED
        BY <1>1, <2>3, <2>4, <2>5, <2>6, <2>7, <2>8 DEF TakesChunk
<1>2. CASE UpstreamEnds
    BY <1>2 DEF TypeOK, UpstreamEnds, FailWith, CloseFds
<1>3. CASE UpstreamFails
    BY <1>3 DEF TypeOK, UpstreamFails, FailWith
<1>4. CASE Interrupt
    BY <1>4 DEF TypeOK, Interrupt, FailWith
<1>5. CASE Refuse
    BY <1>5 DEF TypeOK, Refuse
<1>6. CASE OpenPipe
    BY <1>6 DEF TypeOK, OpenPipe, FreeFds
<1>7. CASE WriteUnit
    BY <1>7 DEF TypeOK, WriteUnit
<1>8. CASE Settle
    <2>1. /\ table' = [f \in Fd |-> IF f = readFd THEN "free" ELSE table[f]]
          /\ foreignClosed' => foreignClosed
        BY <1>8 DEF TypeOK, Settle, CloseFds
    <2>2. \A l \in Lists : nv'[l] \in {"absent", "freed"}
        BY <1>8 DEF Settle, FreeLists
    <2>3. Released'
        BY <1>8, <2>1, <2>2 DEF TypeOK, Settle, FailWith
    <2>4. Unborn' /\ Progress' /\ Owned' /\ Answered'
        BY <1>8 DEF TypeOK, Settle, FailWith
    <2>5. StaleUseOnlyWhenAbandoned' /\ ForeignCloseOnlyAfterAwait'
        BY <1>8, <2>1 DEF TypeOK, Settle, FailWith
    <2> QED
        BY <2>3, <2>4, <2>5
<1>9. CASE SettleRejected
    BY <1>9 DEF TypeOK, SettleRejected, FailWith
<1>10. CASE Ensure
    <2>1. CASE closed
        BY <1>10, <2>1 DEF TypeOK, Ensure, ClosePipe
    <2>2. CASE ~closed
        <3>1. /\ table' = [f \in Fd |-> IF f \in {readFd, writeFd}
                                        THEN "free" ELSE table[f]]
              /\ foreignClosed' => foreignClosed \/ table[writeFd] = "other"
              /\ closed' = TRUE
            BY <1>10, <2>2 DEF TypeOK, Ensure, ClosePipe, CloseFds
        <3>2. \A l \in Lists : nv'[l] \in {"absent", "freed"}
            BY <1>10, <2>2 DEF Ensure, ClosePipe, FreeLists
        <3>3. Released'
            BY <1>10, <2>2, <3>1, <3>2 DEF TypeOK, Ensure
        <3>4. Unborn' /\ Progress' /\ Owned' /\ Answered'
            BY <1>10, <2>2, <3>1 DEF TypeOK, Ensure
        <3>5. StaleUseOnlyWhenAbandoned' /\ ForeignCloseOnlyAfterAwait'
            BY <1>10, <2>2, <3>1 DEF TypeOK, Ensure
        <3> QED
            BY <3>3, <3>4, <3>5
    <2> QED
        BY <2>1, <2>2
<1>11. CASE WorkerStart \/ WorkerQuits
    BY <1>11 DEF TypeOK, WorkerStart, WorkerQuits, WorkerReturns
<1>12. CASE ReadHeader
    BY <1>12 DEF TypeOK, ReadHeader, WorkerReturns
<1>13. CASE EnterKernel
    BY <1>13 DEF TypeOK, EnterKernel, WorkerReturns
<1>14. CASE KernelTake
    BY <1>14 DEF TypeOK, KernelTake
<1>15. CASE KernelReturn
    BY <1>15 DEF TypeOK, KernelReturn, WorkerReturns
<1>16. CASE OtherOpens
    BY <1>16 DEF TypeOK, OtherOpens, FreeFds
<1>17. CASE OtherCloses
    BY <1>17 DEF TypeOK, OtherCloses, Names
<1>18. CASE UNCHANGED vars
    BY <1>18 DEF TypeOK, vars
<1> QED
    BY <1>1, <1>2, <1>3, <1>4, <1>5, <1>6, <1>7, <1>8, <1>9, <1>10, <1>11,
       <1>12, <1>13, <1>14, <1>15, <1>16, <1>17, <1>18 DEF Next, Upstream

LEMMA TypeInvariant == Spec => [](TypeOK /\ Writing)
<1>1. Init => Writing
    BY DEF Init, Writing
<1>2. Spec => []TypeOK
    BY TypeCorrect
<1> QED
    BY <1>1, <1>2, WritingStep, PTL DEF Spec

LEMMA InvInvariant == Spec => []Inv
<1>1. Init => Inv
    BY DEF Init, Inputs, NoErrno, Inv, Unborn, Progress, Holding, Owned, Released,
        Answered, StaleUseOnlyWhenAbandoned, ForeignCloseOnlyAfterAwait
<1>2. Spec => [](TypeOK /\ Writing)
    BY TypeInvariant
<1> QED
    BY <1>1, <1>2, InvStep, PTL DEF Spec

(* Whatever the outcome, a call that has ended has released its            *)
(* descriptors and nvlists, once each, save the write end of a successful   *)
(* dry run.                                                                *)
THEOREM Releases == Spec => []ReleasedAtExit
<1>1. TypeOK /\ Inv => ReleasedAtExit
    <2> SUFFICES ASSUME TypeOK, Inv, pc = "exit"
                 PROVE  /\ \A l \in Lists : nv[l] \in {"absent", "freed"}
                        /\ \A f \in Fd : table[f] # "read"
                        /\ \/ \A f \in Fd : table[f] # "write"
                           \/ /\ input.dryRun /\ outcome = "ok"
                              /\ \E g \in Fd : table[g] = "write"
                              /\ \A g \in Fd : table[g] = "write" => g = writeFd
        BY DEF ReleasedAtExit, Names
    <2>1. CASE outcome = "refused"
        BY <2>1 DEF Inv, Unborn
    <2>2. CASE closed
        BY <2>2 DEF Inv, Released, Owned, TypeOK
    <2> QED
        BY <2>1, <2>2 DEF Inv, Progress
<1> QED
    BY <1>1, TypeInvariant, InvInvariant, PTL

(* No nvlist is freed twice at any time.                                   *)
THEOREM FreesOnce == Spec => []NoDoubleFree
<1>1. TypeOK /\ Inv => NoDoubleFree
    BY DEF TypeOK, Inv, Unborn, Progress, Holding, Owned, Released, NoDoubleFree
<1> QED
    BY <1>1, TypeInvariant, InvInvariant, PTL

(* lzc_receive meets a freed nvlist or a reused descriptor only when the   *)
(* call was abandoned under it.                                            *)
THEOREM StaleOnlyWhenAbandoned == Spec => []StaleUseOnlyWhenAbandoned
<1>1. Inv => StaleUseOnlyWhenAbandoned
    BY DEF Inv
<1> QED
    BY <1>1, InvInvariant, PTL

(* The call closes somebody else's file only after it gave up waiting.     *)
THEOREM ForeignOnlyAfterAwait == Spec => []ForeignCloseOnlyAfterAwait
<1>1. Inv => ForeignCloseOnlyAfterAwait
    BY DEF Inv
<1> QED
    BY <1>1, InvInvariant, PTL

(* Success is only reported of a receive that returned 0 for the complete  *)
(* stream.                                                                 *)
THEOREM OkIsHonest == Spec => []OkMeansReceived
<1>1. TypeOK /\ Inv => OkMeansReceived
    BY DEF TypeOK, Inv, Progress, Answered, OkMeansReceived, Inputs
<1> QED
    BY <1>1, TypeInvariant, InvInvariant, PTL

(* The target does not change behind the back of a caller who was told how *)
(* the call ended, unless the call was abandoned.                          *)
THEOREM NoLate == Spec => NoLateCompletion
<1>1. TypeOK /\ Inv /\ [Next]_vars
         => [errno' = "0" /\ errno # "0"
               => outcome = "none" \/ outcome \in {"interrupted", "upstream"}]_vars
    <2> SUFFICES ASSUME TypeOK, Inv, [Next]_vars, errno' = "0", errno # "0"
                 PROVE  outcome \in {"none", "interrupted", "upstream"}
        OBVIOUS
    <2>1. worker \in {"queued", "header", "kernel"}
        BY DEF Next, Upstream, TakesChunk, BufferShort, RejectHeader, AcceptDryRun,
            StartReceive, ForwardChunk, DropChunk, HeaderComplete, UpstreamEnds,
            UpstreamFails, Interrupt, Refuse, OpenPipe, WriteUnit, Settle,
            SettleRejected, Ensure, WorkerStart, WorkerQuits, ReadHeader, EnterKernel,
            KernelTake, KernelReturn, WorkerReturns, OtherOpens, OtherCloses,
            vars, jsVars, workerVars
    <2> QED
        BY <2>1 DEF Inv, Answered
<1> QED
    BY <1>1, TypeInvariant, InvInvariant, PTL DEF Spec, NoLateCompletion

-----------------------------------------------------------------------------
(* Conservation of the stream                                              *)

(* The chunk continues the units pulled so far.                            *)
LEMMA PrefixGrows ==
    ASSUME TypeOK, NEW n \in 1 .. MaxChunk, pulled + n <= StreamLen
    PROVE  Prefix(pulled) \o Chunk(n) = Prefix(pulled + n)
<1>1. pulled \in Nat /\ n \in Nat
    BY ConstantsAssumption DEF TypeOK
<1>2. /\ Prefix(pulled) \in Seq(Nat) /\ Len(Prefix(pulled)) = pulled
      /\ Chunk(n) \in Seq(Nat) /\ Len(Chunk(n)) = n
      /\ Prefix(pulled + n) \in Seq(Nat) /\ Len(Prefix(pulled + n)) = pulled + n
    BY <1>1 DEF Prefix, Chunk
<1>3. /\ Prefix(pulled) \o Chunk(n) \in Seq(Nat)
      /\ Len(Prefix(pulled) \o Chunk(n)) = pulled + n
    BY <1>2, ConcatProperties
<1>4. ASSUME NEW i \in 1 .. pulled + n
      PROVE  (Prefix(pulled) \o Chunk(n))[i] = Prefix(pulled + n)[i]
    BY <1>1, <1>2 DEF Prefix, Chunk
<1> QED
    BY <1>2, <1>3, <1>4, SeqEqual

LEMMA Regroup ==
    ASSUME TypeOK, TypeOK'
    PROVE  taken \o (pipe \o toWrite') = (taken \o pipe) \o toWrite'
<1>1. taken \in Seq(Units) /\ pipe \in Seq(Units) /\ toWrite' \in Seq(Units)
    BY DEF TypeOK
<1> QED
    BY <1>1, ConcatAssociative

LEMMA ConservedStep ==
    TypeOK /\ TypeOK' /\ Inv /\ Writing' /\ Conserved /\ [Next]_vars => Conserved'
<1> SUFFICES ASSUME TypeOK, TypeOK', Inv, Writing', Conserved, [Next]_vars
             PROVE  Conserved'
    OBVIOUS
<1> USE DEF Conserved, jsVars, workerVars, fdVars
<1>t. /\ taken \in Seq(Units) /\ pipe \in Seq(Units) /\ toWrite \in Seq(Units)
      /\ buffered \in Seq(Units) /\ <<>> \in Seq(Units)
    BY DEF TypeOK
<1>1. ASSUME NEW n \in 1 .. MaxChunk, TakesChunk(n) PROVE Conserved'
    <2>1. pulled + n <= StreamLen /\ pc = "pull" /\ pulled' = pulled + n
        BY <1>1 DEF TakesChunk, BufferShort, RejectHeader, AcceptDryRun,
            StartReceive, ForwardChunk, DropChunk, HeaderComplete, Pulls
    <2>2. Prefix(pulled) \o Chunk(n) = Prefix(pulled')
        BY <2>1, PrefixGrows
    <2>3. CASE BufferShort(n)
        BY <2>1, <2>2, <2>3 DEF BufferShort, Pulls, FailWith
    <2>4. CASE RejectHeader(n)
        BY <2>1, <2>2, <2>4 DEF RejectHeader, HeaderComplete, Pulls, FailWith
    <2>5. CASE AcceptDryRun(n)
        BY <2>1, <2>2, <2>5 DEF AcceptDryRun, HeaderComplete, Pulls
    <2>6. CASE StartReceive(n)
        <3>1. /\ pending' = "running" /\ pc' = "write"
              /\ taken' = <<>> /\ pipe' = <<>>
              /\ toWrite' = Prefix(pulled')
            BY <2>1, <2>2, <2>6 DEF StartReceive, HeaderComplete, Pulls
        <3>2. toWrite' \in Seq(Units)
            BY DEF TypeOK
        <3>3. taken' \o (pipe' \o toWrite') = toWrite'
            BY <3>1, <3>2, ConcatEmptySeq
        <3> QED
            BY <3>1, <3>3 DEF Writing
    <2>7. CASE ForwardChunk(n)
        <3>1. /\ pending = "running" /\ toWrite = <<>>
              /\ UNCHANGED <<taken, pipe, pending>>
              /\ toWrite' = Chunk(n) /\ pc' = "write"
            BY <2>1, <2>7 DEF ForwardChunk
        <3>2. taken \o pipe = Prefix(pulled)
            BY <1>t, <3>1, ConcatEmptySeq
        <3>3. toWrite' \in Seq(Units) /\ toWrite' # <<>>
            BY <3>1 DEF TypeOK, Writing
        <3>4. taken \o (pipe \o toWrite') = (taken \o pipe) \o toWrite'
            BY Regroup
        <3>5. taken' \o (pipe' \o toWrite') = Prefix(pulled')
            BY <2>2, <3>1, <3>2, <3>4
        <3> QED
            BY <3>1, <3>3, <3>5
    <2>8. CASE DropChunk(n)
        BY <2>1, <2>8 DEF DropChunk, Pulls
    <2> QED
        BY <1>1, <2>3, <2>4, <2>5, <2>6, <2>7, <2>8 DEF TakesChunk
<1>2. CASE UpstreamEnds \/ UpstreamFails \/ Interrupt \/ Refuse \/ OpenPipe
    BY <1>2 DEF UpstreamEnds, UpstreamFails, Interrupt, Refuse, OpenPipe, FailWith
<1>3. CASE WriteUnit
    <2>1. /\ pending = "running" /\ pending' = pending
          /\ toWrite # <<>> /\ taken' = taken
          /\ pipe' = Append(pipe, Head(toWrite)) /\ toWrite' = Tail(toWrite)
          /\ pulled' = pulled
        BY <1>3 DEF WriteUnit, Inv, Progress
    <2>2. pipe' \o toWrite' = pipe \o toWrite
        BY <1>t, <2>1, MoveHead
    <2>3. pc' = "write" <=> toWrite' # <<>>
        <3>1. /\ Len(Tail(toWrite)) = Len(toWrite) - 1
              /\ Len(toWrite) \in Nat /\ Tail(toWrite) \in Seq(Units)
            BY <1>t, <2>1, HeadTailProperties, LenProperties
        <3>2. Tail(toWrite) = <<>> <=> Len(Tail(toWrite)) = 0
            BY <3>1, EmptySeq
        <3> QED
            BY <1>3, <2>1, <3>1, <3>2 DEF WriteUnit
    <2> QED
        BY <2>1, <2>2, <2>3
<1>4. CASE Settle \/ SettleRejected \/ Ensure
    BY <1>4 DEF Settle, SettleRejected, Ensure, FailWith
<1>5. ASSUME taken' = Append(taken, Head(pipe)), pipe' = Tail(pipe), pipe # <<>>,
             UNCHANGED <<jsVars, pc>>, worker \in {"header", "kernel"}
      PROVE  Conserved'
    <2>1. pending = "running"
        BY <1>5 DEF TypeOK, Inv, Progress
    <2>2. taken' \o (pipe' \o toWrite) = taken \o (pipe \o toWrite)
        <3>1. pipe # <<>>
            BY <1>5
        <3>2. Append(taken, Head(pipe)) \o (Tail(pipe) \o toWrite)
                 = taken \o (pipe \o toWrite)
            BY <1>t, <3>1, MoveHeadBefore
        <3> QED
            BY <1>5, <3>2
    <2> QED
        BY <1>5, <2>1, <2>2
<1>6. CASE ReadHeader
    BY <1>5, <1>6 DEF ReadHeader
<1>7. CASE KernelTake
    BY <1>5, <1>7 DEF KernelTake
<1>8. CASE \/ WorkerStart \/ WorkerQuits \/ EnterKernel \/ KernelReturn
           \/ OtherOpens \/ OtherCloses \/ UNCHANGED vars
    BY <1>8 DEF WorkerStart, WorkerQuits, EnterKernel, KernelReturn, OtherOpens,
        OtherCloses, vars
<1> QED
    BY <1>1, <1>2, <1>3, <1>4, <1>6, <1>7, <1>8 DEF Next, Upstream

LEMMA ConservedInvariant == Spec => []Conserved
<1>1. Init => Conserved
    BY DEF Init, Conserved, Prefix
<1> QED
    BY <1>1, TypeInvariant, InvInvariant, ConservedStep, PTL DEF Spec

(* Every unit of the caller's stream reaches the kernel once and in order, *)
(* through the switch from buffering the header to writing through.        *)
THEOREM NothingLost == Spec => []NothingLostOrReordered
<1>1. TypeOK /\ Conserved => NothingLostOrReordered
    <2> SUFFICES ASSUME TypeOK, Conserved, pending = "running"
                 PROVE  taken \o pipe \o toWrite = Prefix(pulled)
        BY DEF NothingLostOrReordered, Prefix
    <2>1. taken \in Seq(Units) /\ pipe \in Seq(Units) /\ toWrite \in Seq(Units)
        BY DEF TypeOK
    <2>2. (taken \o pipe) \o toWrite = taken \o (pipe \o toWrite)
        BY <2>1, ConcatAssociative
    <2> QED
        BY <2>2 DEF Conserved
<1> QED
    BY <1>1, TypeInvariant, ConservedInvariant, PTL

-----------------------------------------------------------------------------
(* NativeReceive implements ReceiveContract                                *)

(* When the kernel has a complete stream the caller's stream is used up.   *)
LEMMA TakenAll ==
    ASSUME TypeOK, Conserved, pending = "running", Len(taken) = StreamLen
    PROVE  pulled = StreamLen
<1>1. /\ taken \in Seq(Units) /\ pipe \o toWrite \in Seq(Units)
      /\ Len(taken) \in Nat /\ Len(pipe \o toWrite) \in Nat
    BY DEF TypeOK
<1>2. Len(taken \o (pipe \o toWrite)) = Len(taken) + Len(pipe \o toWrite)
    BY <1>1, ConcatProperties
<1>3. pulled \in Nat /\ pulled <= StreamLen
    BY ConstantsAssumption DEF TypeOK
<1>4. Len(taken \o (pipe \o toWrite)) = pulled
    BY <1>3 DEF Conserved, Prefix
<1> QED
    BY <1>1, <1>2, <1>3, <1>4, ConstantsAssumption

LEMMA ContractStep ==
    TypeOK /\ Inv /\ Conserved /\ [Next]_vars => [Contract!Next]_(Contract!vars)
<1> SUFFICES ASSUME TypeOK, Inv, Conserved, [Next]_vars
             PROVE  \/ Contract!Next
                    \/ UNCHANGED <<input, pulled, outcome>> /\ (errno' = "0") = (errno = "0")
    BY DEF Contract!vars, Verdict
<1> USE DEF jsVars, workerVars, fdVars
<1>n. pulled \in Nat /\ pulled <= StreamLen /\ MaxChunk \in Nat
    BY ConstantsAssumption DEF TypeOK
<1>v. pc \in {"guards", "pull", "write", "await"} => Verdict = "open"
    BY DEF Inv, Progress, Verdict
<1>1. ASSUME outcome' \notin {"none", "ok"}, Verdict = "open",
             UNCHANGED <<input, pulled, errno>>
      PROVE  Contract!Next
    <2>1. 0 \in 0 .. MaxChunk /\ pulled' = pulled + 0 /\ pulled + 0 <= StreamLen
        BY <1>n, <1>1
    <2> QED
        BY <1>1, <2>1 DEF Contract!Next, Contract!Fail, Contract!Takes, Verdict
<1>2. ASSUME NEW n \in 1 .. MaxChunk, TakesChunk(n) PROVE Contract!Next
    <2>1. /\ pulled + n <= StreamLen /\ pulled' = pulled + n
          /\ pc = "pull" /\ UNCHANGED <<input, errno>>
        BY <1>2 DEF TakesChunk, BufferShort, RejectHeader, AcceptDryRun,
            StartReceive, ForwardChunk, DropChunk, HeaderComplete, Pulls
    <2>2. outcome' = outcome \/ outcome' = "badstream"
        BY <1>2 DEF TakesChunk, BufferShort, RejectHeader, AcceptDryRun,
            StartReceive, ForwardChunk, DropChunk, FailWith
    <2>3. CASE outcome' = outcome
        BY <1>v, <2>1, <2>3 DEF Contract!Next, Contract!Feed, Contract!Takes, Verdict
    <2>4. CASE outcome' = "badstream"
        <3>1. n \in 0 .. MaxChunk
            OBVIOUS
        <3> QED
            BY <1>v, <2>1, <2>4, <3>1
               DEF Contract!Next, Contract!Fail, Contract!Takes, Verdict
    <2> QED
        BY <2>2, <2>3, <2>4
<1>3. CASE UpstreamEnds
    BY <1>1, <1>3, <1>v DEF UpstreamEnds, FailWith
<1>4. CASE UpstreamFails \/ Interrupt
    BY <1>1, <1>4, <1>v DEF UpstreamFails, Interrupt, FailWith
<1>5. CASE Refuse
    BY <1>1, <1>5, <1>v DEF Refuse
<1>6. CASE Settle
    <2>1. CASE pending = "dry" \/ errno = "0"
        <3>1. /\ outcome' = "ok" /\ pc = "await"
              /\ input.dryRun \/ errno = "0"
              /\ UNCHANGED <<input, pulled, errno>>
            BY <1>6, <2>1 DEF Settle, FailWith, Inv, Progress
        <3> QED
            BY <1>v, <3>1 DEF Contract!Next, Contract!Succeed, Verdict
    <2>2. CASE ~(pending = "dry" \/ errno = "0")
        BY <1>1, <1>6, <1>v, <2>2 DEF Settle, FailWith
    <2> QED
        BY <2>1, <2>2
<1>7. CASE SettleRejected
    BY <1>1, <1>7, <1>v DEF SettleRejected, FailWith
<1>8. CASE KernelReturn
    <2>1. CASE Len(taken) = StreamLen
        <3>1. /\ worker = "kernel" /\ errno' = "0"
              /\ UNCHANGED <<input, pulled, outcome>>
            BY <1>8, <2>1 DEF KernelReturn, WorkerReturns
        <3>2. pending = "running" /\ ~input.dryRun /\ errno # "0" /\ outcome # "ok"
            BY <3>1 DEF TypeOK, Inv, Progress, Answered
        <3>3. pulled = StreamLen
            BY <2>1, <3>2, TakenAll
        <3> QED
            BY <3>1, <3>2, <3>3 DEF Contract!Next, Contract!Apply, Verdict
    <2>2. CASE Len(taken) # StreamLen
        <3>1. /\ worker = "kernel" /\ errno' = "err"
              /\ UNCHANGED <<input, pulled, outcome>>
            BY <1>8, <2>2 DEF KernelReturn, WorkerReturns
        <3>2. errno # "0"
            BY <3>1 DEF Inv, Answered
        <3> QED
            BY <3>1, <3>2
    <2> QED
        BY <2>1, <2>2
<1>9. CASE WorkerStart \/ WorkerQuits \/ ReadHeader \/ EnterKernel
    <2>1. /\ UNCHANGED <<input, pulled, outcome>>
          /\ errno' = errno \/ (worker # "done" /\ errno' # "0")
        BY <1>9 DEF WorkerStart, WorkerQuits, ReadHeader, EnterKernel, WorkerReturns
    <2> QED
        BY <2>1 DEF Inv, Answered
<1>10. CASE \/ OpenPipe \/ WriteUnit \/ Ensure \/ KernelTake
            \/ OtherOpens \/ OtherCloses \/ UNCHANGED vars
    BY <1>10 DEF OpenPipe, WriteUnit, Ensure, KernelTake, OtherOpens,
        OtherCloses, vars
<1> QED
    BY <1>2, <1>3, <1>4, <1>5, <1>6, <1>7, <1>8, <1>9, <1>10 DEF Next, Upstream

(* The native receive implements the contract every interpreter of         *)
(* ZfsProtocol.receive owes its caller.                                    *)
THEOREM Implements == Spec => ImplementsContract
<1>1. TypeOK /\ Init => Contract!Init
    BY DEF Init, Inputs, NoErrno, TypeOK, Contract!Init, Verdict
<1> QED
    BY <1>1, TypeInvariant, InvInvariant, ConservedInvariant, ContractStep, PTL
       DEF Spec, ImplementsContract, Contract!Spec
=============================================================================
