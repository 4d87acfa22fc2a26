------------------------ MODULE NativeSend_proofs ------------------------
(***************************************************************************)
(* Theorems about NativeSend and their proofs: type correctness, what       *)
(* becomes of the descriptors, the conservation of the stream's units, and  *)
(* the implementation of SendContract.                                      *)
(***************************************************************************)
EXTENDS NativeSend, StreamLemmas, TLAPS

(* A read that is under way was asked for because there was room: without   *)
(* this the types are not inductive.                                       *)
RoomToRead == reader = "reading" => Len(chunks) < ReadAhead

(* A call that has not begun, or was refused, has touched nothing.          *)
Unborn ==
    pc = "guards" \/ outcome = "refused" =>
        /\ reader = "none" /\ worker = "idle"
        /\ chunks = <<>> /\ pipe = <<>> /\ delivered = <<>> /\ sent = 0
        /\ ~eof /\ ~strayed /\ ~foreignClosed /\ ~misdirected /\ ~dangling
        /\ \A f \in Fd : table[f] \in {"free", "other"}

(* How far the stream is and what it has told its consumer.                *)
Progress ==
    /\ pc \in {"guards", "pull", "complete"} <=> outcome = "none"
    /\ outcome = "refused" => pc = "exit"
    /\ reader = "none" <=> pc = "guards" \/ outcome = "refused"
    /\ reader = "draining" => pc = "exit"
    /\ pc = "pull" => reader \in {"idle", "reading"}
    /\ pc = "complete" => eof /\ chunks = <<>>

(* The call's descriptors: two numbers, the read end its own until the      *)
(* ReadStream closes it, the write end until the finalizer does, unless a   *)
(* stray close hits it.                                                    *)
Owned ==
    /\ reader # "none" => readFd \in Fd /\ writeFd \in Fd /\ readFd # writeFd
    /\ reader \notin {"none", "closed"} => table[readFd] = "read"
    /\ pc \in {"pull", "complete", "ensure"} /\ ~strayed => table[writeFd] = "write"
    /\ dangling => strayed /\ pc \in {"ensure", "exit"}

(* The end of the pipe is seen only when nothing can come any more, and     *)
(* while the stream is open this takes a stray close.                      *)
Ended ==
    eof => /\ pipe = <<>> /\ ~WriteEndOpen

(* The worker thread.                                                      *)
Answered ==
    /\ errno # NoErrno <=> worker = "done"
    /\ errno = "0" => sent = StreamLen
    /\ outcome = "ok" => errno = "0"
    /\ sink # "none" <=> worker = "kernel"
    /\ sink = "other" => misdirected

Inv == Unborn /\ Progress /\ Owned /\ Ended /\ Answered /\ OthersUnharmed

(* Where the units are that lzc_send has written.                          *)
Conserved ==
    pc \in {"guards", "pull", "complete"} /\ ~misdirected =>
        delivered \o (chunks \o pipe) = Prefix(sent)

Whole ==
    outcome = "ok" => errno = "0" /\ (delivered = Prefix(StreamLen) \/ misdirected)

-----------------------------------------------------------------------------
(* Type correctness                                                        *)

LEMMA TypeStep == TypeOK /\ RoomToRead /\ [Next]_vars => TypeOK' /\ RoomToRead'
<1> SUFFICES ASSUME TypeOK, RoomToRead, [Next]_vars PROVE TypeOK' /\ RoomToRead'
    OBVIOUS
<1> USE DEF RoomToRead, callVars, readerVars, workerVars, fdVars
<1>c. /\ ReadAhead \in Nat /\ PipeCap \in Nat /\ StreamLen \in Nat
      /\ Len(chunks) \in Nat /\ Len(pipe) \in Nat /\ sent \in Nat
    BY ConstantsAssumption DEF TypeOK
<1>1. ASSUME NEW fd, CloseFd(fd)
      PROVE  /\ table' \in [Fd -> {"free", "read", "write", "other"}]
             /\ foreignClosed' \in BOOLEAN
    BY <1>1 DEF CloseFd, TypeOK
<1>2. CASE Refuse \/ Start
    BY <1>2 DEF Refuse, Start, Opens, FreeFds, TypeOK
<1>3. CASE Deliver
    <2>1. /\ chunks \in Seq(Units) /\ chunks # <<>> /\ delivered \in Seq(Units)
          /\ chunks' = Tail(chunks) /\ delivered' = Append(delivered, Head(chunks))
        BY <1>3 DEF Deliver, TypeOK
    <2>2. /\ chunks' \in Seq(Units) /\ delivered' \in Seq(Units)
          /\ Len(chunks') = Len(chunks) - 1
        BY <2>1, HeadTailProperties, AppendProperties
    <2>3. Len(chunks') < 2 * ReadAhead /\ (Len(chunks) < ReadAhead => Len(chunks') < ReadAhead)
        BY <1>c, <2>2 DEF TypeOK
    <2> QED
        BY <1>3, <2>2, <2>3 DEF Deliver, TypeOK
<1>4. CASE BytesEnd \/ Stop
    <2>1. CASE BytesEnd
        BY <2>1 DEF BytesEnd, TypeOK
    <2>2. CASE Stop
        BY <2>2 DEF Stop, TypeOK
    <2> QED
        BY <1>4, <2>1, <2>2
<1>5. CASE Complete \/ LateClose
    <2>1. CloseFd(writeFd)
        BY <1>5 DEF Complete, LateClose
    <2>2. /\ table' \in [Fd -> {"free", "read", "write", "other"}]
          /\ foreignClosed' \in BOOLEAN
        BY <1>1, <2>1
    <2> QED
        <3>1. CASE Complete
            BY <2>2, <3>1 DEF Complete, TypeOK
        <3>2. CASE LateClose
            <4>1. /\ dangling' \in BOOLEAN
                  /\ UNCHANGED <<callVars, readerVars, workerVars, pc, delivered,
                                 pipe, outcome, strayed>>
                BY <3>2 DEF LateClose
            <4> QED
                BY <2>2, <4>1 DEF TypeOK
        <3> QED
            BY <1>5, <3>1, <3>2
<1>6. CASE Ensure
    BY <1>1, <1>6 DEF Ensure, Destroy, TypeOK
<1>7. CASE IssueRead \/ ReadFails
    BY <1>7 DEF IssueRead, ReadFails, TypeOK
<1>8. CASE ReadReturns
    <2>1. CASE pipe = <<>> /\ eof' = TRUE /\ UNCHANGED <<pipe, chunks>>
        BY <1>8, <2>1 DEF ReadReturns, TypeOK
    <2>2. ASSUME NEW n \in 1 .. Len(pipe), n <= ReadAhead,
                 pipe' = SubSeq(pipe, n + 1, Len(pipe)),
                 chunks' = IF reader = "reading"
                           THEN chunks \o SubSeq(pipe, 1, n) ELSE chunks,
                 UNCHANGED eof
          PROVE  TypeOK' /\ RoomToRead'
        <3>4. n \in Nat /\ 1 <= n /\ n <= Len(pipe)
            BY <1>c, <2>2
        <3>1. /\ SubSeq(pipe, 1, n) \in Seq(Units) /\ Len(SubSeq(pipe, 1, n)) = n
              /\ pipe' \in Seq(Units) /\ Len(pipe') = Len(pipe) - n
            BY <2>2, <3>4, Parts DEF TypeOK
        <3>2. Len(pipe') <= PipeCap
            BY <1>c, <3>1 DEF TypeOK
        <3>3. chunks' \in Seq(Units) /\ Len(chunks') < 2 * ReadAhead
            <4>1. CASE reader = "reading"
                <5>1. /\ chunks' \in Seq(Units)
                      /\ Len(chunks') = Len(chunks) + n
                    BY <2>2, <3>1, <4>1, ConcatProperties DEF TypeOK
                <5> QED
                    BY <1>c, <2>2, <4>1, <5>1
            <4>2. CASE reader # "reading"
                BY <2>2, <4>2 DEF TypeOK
            <4> QED
                BY <4>1, <4>2
        <3> QED
            BY <1>8, <2>2, <3>1, <3>2, <3>3 DEF ReadReturns, TypeOK
    <2> QED
        BY <1>8, <2>1, <2>2 DEF ReadReturns
<1>9. CASE CloseRead
    BY <1>1, <1>9 DEF CloseRead, TypeOK
<1>10. CASE WorkerStart
    <2>1. /\ worker' \in {"kernel", "done"} /\ errno' \in {errno, "err"}
          /\ sink' \in {"none", "pipe", "other"} /\ misdirected' \in BOOLEAN
        BY <1>10 DEF WorkerStart, WorkerReturns, TypeOK
    <2> QED
        BY <1>10, <2>1 DEF WorkerStart, TypeOK
<1>11. CASE KernelWrite
    <2>1. sent + 1 \in Units /\ sent' = sent + 1 /\ sent' \in 0 .. StreamLen
        BY <1>c, <1>11 DEF KernelWrite, Units
    <2>2. pipe' \in Seq(Units) /\ Len(pipe') <= PipeCap
        <3>1. CASE pipe' = Append(pipe, sent + 1) /\ Len(pipe) < PipeCap
            BY <1>c, <2>1, <3>1, AppendProperties DEF TypeOK
        <3>2. CASE pipe' = pipe
            BY <3>2 DEF TypeOK
        <3> QED
            BY <1>11, <3>1, <3>2 DEF KernelWrite
    <2> QED
        BY <1>11, <2>1, <2>2 DEF KernelWrite, TypeOK
<1>12. CASE KernelReturn \/ KernelFails
    BY <1>12 DEF KernelReturn, KernelFails, WorkerReturns, TypeOK
<1>13. CASE OtherOpens \/ OtherCloses \/ StrayClose
    <2>1. table' \in [Fd -> {"free", "read", "write", "other"}]
        BY <1>13 DEF OtherOpens, OtherCloses, StrayClose, FreeFds, Names, TypeOK
    <2> QED
        <3>1. CASE OtherOpens \/ OtherCloses
            BY <2>1, <3>1 DEF OtherOpens, OtherCloses, TypeOK
        <3>2. CASE StrayClose
            BY <2>1, <3>2 DEF StrayClose, TypeOK
        <3> QED
            BY <1>13, <3>1, <3>2
<1>14. CASE UNCHANGED vars
    BY <1>14 DEF vars, TypeOK
<1> QED
    BY <1>2, <1>3, <1>4, <1>5, <1>6, <1>7, <1>8, <1>9, <1>10, <1>11, <1>12, <1>13,
       <1>14 DEF Next

LEMMA TypeInvariant == Spec => [](TypeOK /\ RoomToRead)
<1>1. Init => TypeOK /\ RoomToRead
    <2> SUFFICES ASSUME Init PROVE TypeOK /\ RoomToRead
        OBVIOUS
    <2>1. /\ <<>> \in Seq(Units) /\ Len(<<>>) = 0
          /\ 0 < 2 * ReadAhead /\ 0 <= PipeCap /\ 0 \in 0 .. StreamLen
        BY ConstantsAssumption
    <2> QED
        BY <2>1 DEF Init, TypeOK, RoomToRead, NoErrno
<1> QED
    BY <1>1, TypeStep, PTL DEF Spec

(* Every variable stays in its type.  That the ReadStream never holds two   *)
(* buffers full, and the pipe never more than it can, is the part of it     *)
(* that says something.                                                    *)
THEOREM TypeCorrect == Spec => []TypeOK
<1>1. TypeOK /\ RoomToRead => TypeOK
    OBVIOUS
<1> QED
    BY <1>1, TypeInvariant, PTL

-----------------------------------------------------------------------------
(* Descriptors                                                             *)

(* What close() of a number does to every other.                           *)
LEMMA Closing ==
    ASSUME TypeOK, NEW fd \in Fd, CloseFd(fd)
    PROVE  /\ \A f \in Fd : table'[f] = IF f = fd THEN "free" ELSE table[f]
           /\ foreignClosed' = (foreignClosed \/ table[fd] = "other")
BY DEF TypeOK, CloseFd

(* While the stream is open and nobody else closed the write end, it is     *)
(* open, so that the end of the pipe cannot have been seen.                 *)
LEMMA EndTakesStray ==
    ASSUME TypeOK, Inv, eof, pc \in {"pull", "complete", "ensure"}
    PROVE  strayed
<1> SUFFICES ASSUME ~strayed PROVE FALSE
    BY DEF TypeOK
<1>1. reader # "none"
    BY DEF Inv, Unborn, Progress
<1>2. writeFd \in Fd /\ table[writeFd] = "write"
    BY <1>1 DEF Inv, Owned
<1> QED
    BY <1>2 DEF Inv, Ended, WriteEndOpen, Names

LEMMA InvStep == TypeOK /\ TypeOK' /\ Inv /\ [Next]_vars => Inv'
<1> SUFFICES ASSUME TypeOK, TypeOK', Inv, [Next]_vars PROVE Inv'
    OBVIOUS
<1> USE DEF callVars, readerVars, workerVars, fdVars
<1>i. /\ Unborn /\ Progress /\ Owned /\ Ended /\ Answered /\ OthersUnharmed
    BY DEF Inv
<1>1. CASE Refuse
    BY <1>1, <1>i DEF Refuse, Inv, Unborn, Progress, Owned, Ended, Answered,
        OthersUnharmed, WriteEndOpen, Names
<1>2. CASE Start
    <2>1. PICK r, w \in FreeFds : /\ r # w
                                 /\ readFd' = r /\ writeFd' = w
                                 /\ table' = [table EXCEPT ![r] = "read", ![w] = "write"]
        BY <1>2 DEF Start, Opens
    <2>2. /\ r \in Fd /\ w \in Fd /\ table'[r] = "read" /\ table'[w] = "write"
        BY <2>1 DEF FreeFds, TypeOK
    <2> QED
        BY <1>2, <1>i, <2>1, <2>2 DEF Start, Opens, Inv, Unborn, Progress, Owned,
            Ended, Answered, OthersUnharmed
<1>3. CASE Deliver
    BY <1>3, <1>i DEF Deliver, Inv, Unborn, Progress, Owned, Ended, Answered,
        OthersUnharmed, WriteEndOpen, Names
<1>4. CASE BytesEnd
    <2>1. Ended'
        BY <1>4, <1>i DEF BytesEnd, Ended, WriteEndOpen, Names
    <2>2. Progress' /\ Unborn'
        BY <1>4, <1>i DEF BytesEnd, Progress, Unborn
    <2> QED
        BY <1>4, <1>i, <2>1, <2>2 DEF BytesEnd, Inv, Progress, Owned, Answered,
            OthersUnharmed
<1>5. CASE Stop
    <2>1. pc = "complete" => strayed
        BY <1>i, EndTakesStray DEF Progress
    <2> QED
        BY <1>5, <1>i, <2>1 DEF Stop, Inv, Unborn, Progress, Owned, Ended, Answered,
            OthersUnharmed, WriteEndOpen, Names
<1>6. ASSUME CloseFd(writeFd), reader # "none",
             strayed \/ table[writeFd] = "write",
             UNCHANGED <<readFd, writeFd, eof, pipe, sink, strayed, chunks, worker,
                         sent, errno, misdirected>>,
             pc' \in {"ensure", "exit"}, pc' = "ensure" => strayed, pc # "guards",
             reader' \in {reader, "draining", "closing"}, reader' # "none",
             reader = "closed" => reader' = "closed", dangling' => strayed
      PROVE  Owned' /\ Ended' /\ (foreignClosed' => strayed)
    <2>1. /\ readFd \in Fd /\ writeFd \in Fd /\ readFd # writeFd
          /\ reader # "closed" => table[readFd] = "read"
        BY <1>6, <1>i DEF Owned
    <2>2. /\ \A f \in Fd : table'[f] = IF f = writeFd THEN "free" ELSE table[f]
          /\ foreignClosed' = (foreignClosed \/ table[writeFd] = "other")
        BY <1>6, <2>1, Closing
    <2>3. Ended'
        BY <1>6, <1>i, <2>2 DEF Ended, WriteEndOpen, Names
    <2>4. foreignClosed' => strayed
        BY <1>6, <1>i, <2>2 DEF OthersUnharmed
    <2> QED
        BY <1>6, <1>i, <2>1, <2>2, <2>3, <2>4 DEF Owned
<1>7. CASE Complete
    <2>1. strayed
        BY <1>7, <1>i, EndTakesStray DEF Complete, Progress
    <2>2. Owned' /\ Ended' /\ (foreignClosed' => strayed)
        BY <1>6, <1>7, <1>i, <2>1 DEF Complete, Unborn, Progress, Owned
    <2>3. Unborn' /\ Progress'
        BY <1>7, <1>i DEF Complete, Unborn, Progress
    <2>4. Answered' /\ OthersUnharmed'
        BY <1>7, <1>i, <2>1, <2>2 DEF Complete, Answered, OthersUnharmed
    <2> QED
        BY <2>2, <2>3, <2>4 DEF Inv
<1>8. CASE LateClose
    <2>1. strayed /\ pc \in {"ensure", "exit"} /\ outcome # "refused"
        BY <1>8, <1>i DEF LateClose, Unborn, Progress, Owned, TypeOK
    <2>2. reader # "none"
        BY <2>1, <1>i DEF Progress
    <2>3. Owned' /\ Ended' /\ (foreignClosed' => strayed)
        BY <1>6, <1>8, <1>i, <2>1, <2>2 DEF LateClose
    <2>4. Unborn' /\ Progress'
        BY <1>8, <1>i, <2>1 DEF LateClose, Unborn, Progress
    <2>5. Answered' /\ OthersUnharmed'
        BY <1>8, <1>i, <2>1, <2>3 DEF LateClose, Answered, OthersUnharmed
    <2> QED
        BY <2>3, <2>4, <2>5 DEF Inv
<1>9. CASE Ensure
    <2>1. reader # "none" /\ outcome # "refused"
        BY <1>9, <1>i DEF Ensure, Unborn, Progress
    <2>2. strayed \/ table[writeFd] = "write"
        BY <1>9, <1>i DEF Ensure, Owned
    <2>3. /\ reader' \in {reader, "draining", "closing"} /\ reader' # "none"
          /\ reader = "closed" => reader' = "closed"
        BY <1>9, <2>1 DEF Ensure, Destroy
    <2>4. dangling' => strayed
        BY <1>9, <1>i DEF Ensure, Owned
    <2>5. Owned' /\ Ended' /\ (foreignClosed' => strayed)
        BY <1>6, <1>9, <2>1, <2>2, <2>3, <2>4 DEF Ensure
    <2>6. Unborn' /\ Progress'
        BY <1>9, <1>i, <2>1, <2>3 DEF Ensure, Unborn, Progress
    <2>7. Answered' /\ OthersUnharmed'
        BY <1>9, <1>i, <2>5 DEF Ensure, Answered, OthersUnharmed
    <2> QED
        BY <2>5, <2>6, <2>7 DEF Inv
<1>10. CASE IssueRead \/ ReadFails
    BY <1>10, <1>i DEF IssueRead, ReadFails, Inv, Unborn, Progress, Owned, Ended,
        Answered, OthersUnharmed, WriteEndOpen, Names
<1>11. CASE ReadReturns
    <2>1. reader # "none" /\ pc # "guards" /\ outcome # "refused"
        BY <1>11, <1>i DEF ReadReturns, Unborn
    <2>2. Ended' /\ (pc = "complete" => chunks' = chunks /\ eof')
        <3>1. CASE pipe = <<>> /\ ~WriteEndOpen /\ eof' = TRUE /\ UNCHANGED <<pipe, chunks>>
            BY <1>11, <3>1 DEF ReadReturns, Ended, WriteEndOpen, Names
        <3>2. CASE pipe # <<>> /\ UNCHANGED eof
            BY <1>i, <3>2 DEF Ended, Progress
        <3>3. pipe = <<>> => 1 .. Len(pipe) = {}
            BY EmptySeq
        <3> QED
            BY <1>11, <3>1, <3>2, <3>3 DEF ReadReturns
    <2>3. Unborn' /\ Progress'
        BY <1>11, <1>i, <2>1, <2>2 DEF ReadReturns, Unborn, Progress
    <2>4. Owned' /\ Answered' /\ OthersUnharmed'
        BY <1>11, <1>i DEF ReadReturns, Owned, Answered, OthersUnharmed
    <2> QED
        BY <2>2, <2>3, <2>4 DEF Inv
<1>12. CASE CloseRead
    <2>1. /\ readFd \in Fd /\ writeFd \in Fd /\ readFd # writeFd
          /\ table[readFd] = "read"
        BY <1>12, <1>i DEF CloseRead, Owned
    <2>2. /\ \A f \in Fd : table'[f] = IF f = readFd THEN "free" ELSE table[f]
          /\ foreignClosed' = (foreignClosed \/ table[readFd] = "other")
        BY <1>12, <2>1, Closing DEF CloseRead
    <2>3. foreignClosed' = foreignClosed
        BY <2>1, <2>2 DEF TypeOK
    <2>4. Unborn' /\ Progress'
        BY <1>12, <1>i DEF CloseRead, Unborn, Progress
    <2>5. Owned' /\ Ended'
        BY <1>12, <1>i, <2>1, <2>2 DEF CloseRead, Owned, Ended, WriteEndOpen, Names
    <2>6. Answered' /\ OthersUnharmed'
        BY <1>12, <1>i, <2>3 DEF CloseRead, Answered, OthersUnharmed
    <2> QED
        BY <2>4, <2>5, <2>6 DEF Inv
<1>13. CASE WorkerStart
    <2>1. worker = "queued" /\ outcome # "ok"
        BY <1>13, <1>i DEF WorkerStart, Answered, NoErrno
    <2>2. reader # "none" /\ pc # "guards" /\ outcome # "refused"
        BY <2>1, <1>i DEF Unborn, Progress
    <2>3. table[writeFd] = "other" => outcome \in {"stopped", "failed"} \/ strayed
        BY <1>i, <2>1, <2>2 DEF Progress, Owned, TypeOK
    <2>4. eof => table[writeFd] # "write"
        BY <1>i, <2>2 DEF Ended, Owned, WriteEndOpen, Names
    <2>5. UNCHANGED <<callVars, readerVars, fdVars, sent, pc, delivered, dangling,
                      pipe, outcome, strayed>>
        BY <1>13 DEF WorkerStart
    <2>6. CASE /\ table[writeFd] \in {"write", "other"}
               /\ worker' = "kernel" /\ errno' = errno
               /\ sink' = IF table[writeFd] = "write" THEN "pipe" ELSE "other"
               /\ misdirected' = (misdirected \/ table[writeFd] = "other")
        <3>1. Ended'
            BY <1>i, <2>4, <2>5, <2>6 DEF Ended, WriteEndOpen, Names
        <3>2. OthersUnharmed'
            BY <1>i, <2>3, <2>5, <2>6 DEF OthersUnharmed
        <3>3. Answered'
            BY <1>i, <2>1, <2>5, <2>6 DEF Answered
        <3> QED
            BY <1>i, <2>2, <2>5, <3>1, <3>2, <3>3 DEF Inv, Unborn, Progress, Owned
    <2>7. CASE WorkerReturns("err") /\ UNCHANGED misdirected
        <3>1. worker' = "done" /\ errno' = "err" /\ sink' = "none"
            BY <2>7 DEF WorkerReturns
        <3>2. Ended'
            BY <1>i, <2>5, <3>1 DEF Ended, WriteEndOpen, Names
        <3>3. Answered'
            BY <2>1, <2>5, <3>1 DEF Answered, NoErrno
        <3> QED
            BY <1>i, <2>2, <2>5, <2>7, <3>2, <3>3 DEF Inv, Unborn, Progress, Owned,
                OthersUnharmed
    <2> QED
        BY <1>13, <2>6, <2>7 DEF WorkerStart
<1>14. CASE KernelWrite
    <2>1. worker = "kernel" /\ pc # "guards" /\ outcome # "refused"
        BY <1>14, <1>i DEF KernelWrite, Unborn
    <2>2. errno = NoErrno
        BY <2>1, <1>i DEF Answered
    <2>3. Ended'
        BY <1>14, <1>i DEF KernelWrite, Ended, WriteEndOpen, Names
    <2>4. Unborn' /\ Progress' /\ Owned' /\ OthersUnharmed'
        BY <1>14, <1>i, <2>1 DEF KernelWrite, Unborn, Progress, Owned, OthersUnharmed
    <2>5. Answered'
        BY <1>14, <1>i, <2>2 DEF KernelWrite, Answered, NoErrno
    <2> QED
        BY <2>3, <2>4, <2>5 DEF Inv
<1>15. CASE KernelReturn \/ KernelFails
    <2>1. worker = "kernel" /\ worker' = "done" /\ sink' = "none"
          /\ (errno' = "0" => sent = StreamLen) /\ errno' \in {"0", "err"}
          /\ UNCHANGED <<callVars, readerVars, fdVars, sent, misdirected, pc,
                         delivered, dangling, pipe, outcome, strayed>>
        BY <1>15 DEF KernelReturn, KernelFails, WorkerReturns
    <2>2. Ended'
        BY <1>i, <2>1 DEF Ended, WriteEndOpen, Names
    <2> QED
        BY <1>i, <2>1, <2>2 DEF Inv, Unborn, Progress, Owned, Answered,
            OthersUnharmed, NoErrno
<1>16. CASE OtherOpens \/ OtherCloses
    <2>1. \A f \in Fd : \/ table'[f] = table[f]
                        \/ /\ table[f] \in {"free", "other"}
                           /\ table'[f] \in {"free", "other"}
        <3>1. CASE OtherOpens
            <4>1. PICK g \in Fd : table[g] = "free" /\ table' = [table EXCEPT ![g] = "other"]
                BY <3>1 DEF OtherOpens, FreeFds
            <4> QED
                BY <4>1 DEF TypeOK
        <3>2. CASE OtherCloses
            <4>1. PICK g \in Fd : table[g] = "other" /\ table' = [table EXCEPT ![g] = "free"]
                BY <3>2 DEF OtherCloses, Names
            <4> QED
                BY <4>1 DEF TypeOK
        <3> QED
            BY <1>16, <3>1, <3>2
    <2>2. UNCHANGED <<callVars, readerVars, workerVars, foreignClosed, pc,
                      delivered, dangling, pipe, outcome, strayed>>
        BY <1>16 DEF OtherOpens, OtherCloses
    <2> QED
        BY <1>i, <2>1, <2>2 DEF Inv, Unborn, Progress, Owned, Ended, Answered,
            OthersUnharmed, WriteEndOpen, Names
<1>17. CASE StrayClose
    <2>1. PICK f \in Fd : table[f] = "write" /\ table' = [table EXCEPT ![f] = "free"]
        BY <1>17 DEF StrayClose, Names
    <2>2. /\ strayed' = TRUE
          /\ UNCHANGED <<callVars, readerVars, workerVars, foreignClosed, pc,
                         delivered, dangling, pipe, outcome>>
        BY <1>17 DEF StrayClose
    <2>3. pc # "guards" /\ outcome # "refused"
        BY <1>i, <2>1 DEF Unborn
    <2>4. Ended' /\ Owned'
        BY <1>i, <2>1, <2>2 DEF Ended, Owned, WriteEndOpen, Names, TypeOK
    <2> QED
        BY <1>i, <2>2, <2>3, <2>4 DEF Inv, Unborn, Progress, Answered, OthersUnharmed
<1>18. CASE UNCHANGED vars
    BY <1>18, <1>i DEF vars, Inv, Unborn, Progress, Owned, Ended, Answered,
        OthersUnharmed, WriteEndOpen, Names
<1> QED
    BY <1>1, <1>2, <1>3, <1>4, <1>5, <1>7, <1>8, <1>9, <1>10, <1>11, <1>12, <1>13,
       <1>14, <1>15, <1>16, <1>17, <1>18 DEF Next

LEMMA InvInvariant == Spec => []Inv
<1>1. Init => Inv
    BY DEF Init, Inv, Unborn, Progress, Owned, Ended, Answered, OthersUnharmed,
        NoErrno
<1> QED
    BY <1>1, TypeInvariant, InvStep, TypeStep, PTL DEF Spec

(* Files of others are left alone: lzc_send gets one in place of the pipe,  *)
(* and the call closes one, only after the stream was over or after a stray *)
(* close of somebody else.                                                 *)
THEOREM Others == Spec => []OthersUnharmed
<1>1. Inv => OthersUnharmed
    BY DEF Inv
<1> QED
    BY <1>1, InvInvariant, PTL

-----------------------------------------------------------------------------
(* The units of the stream                                                 *)

(* What the kernel appends to the pipe is what comes last of all.          *)
LEMMA AppendBehind ==
    ASSUME NEW S, NEW s \in Seq(S), NEW t \in Seq(S), NEW u \in Seq(S), NEW x \in S
    PROVE  s \o (t \o Append(u, x)) = Append(s \o (t \o u), x)
<1>1. /\ <<x>> \in Seq(S) /\ t \o u \in Seq(S) /\ s \o (t \o u) \in Seq(S)
    BY ConcatProperties
<1>2. Append(u, x) = u \o <<x>>
    BY AppendIsConcat
<1>3. t \o (u \o <<x>>) = (t \o u) \o <<x>>
    BY <1>1, ConcatAssociative
<1>4. s \o ((t \o u) \o <<x>>) = (s \o (t \o u)) \o <<x>>
    BY <1>1, ConcatAssociative
<1>5. Append(s \o (t \o u), x) = (s \o (t \o u)) \o <<x>>
    BY <1>1, AppendIsConcat
<1> QED
    BY <1>2, <1>3, <1>4, <1>5

(* When the bytes have ended the consumer has all that was written.        *)
LEMMA AllDelivered ==
    ASSUME TypeOK, Inv, Conserved, pc = "complete", ~misdirected
    PROVE  delivered = Prefix(sent)
<1>1. chunks = <<>> /\ pipe = <<>> /\ delivered \in Seq(Units)
    BY DEF Inv, Progress, Ended, TypeOK
<1>2. delivered \o (<<>> \o <<>>) = delivered
    <2>1. <<>> \o <<>> = <<>>
        BY ConcatEmptySeq
    <2> QED
        BY <1>1, <2>1, ConcatEmptySeq
<1> QED
    BY <1>1, <1>2 DEF Conserved

LEMMA ConservedStep ==
    TypeOK /\ TypeOK' /\ Inv /\ Conserved /\ [Next]_vars => Conserved'
<1> SUFFICES ASSUME TypeOK, TypeOK', Inv, Conserved, [Next]_vars,
                    pc' \in {"guards", "pull", "complete"}, ~misdirected'
             PROVE  delivered' \o (chunks' \o pipe') = Prefix(sent')
    BY DEF Conserved
<1> USE DEF callVars, readerVars, workerVars, fdVars
<1>t. delivered \in Seq(Units) /\ chunks \in Seq(Units) /\ pipe \in Seq(Units)
    BY DEF TypeOK
<1>n. sent \in Nat /\ Len(pipe) \in Nat
    BY ConstantsAssumption DEF TypeOK
<1>1. CASE Deliver
    <2>1. delivered \o (chunks \o pipe) = Prefix(sent)
        BY <1>1 DEF Deliver, Conserved
    <2> QED
        <3>1. Append(delivered, Head(chunks)) \o (Tail(chunks) \o pipe)
                  = delivered \o (chunks \o pipe)
            <4>1. chunks # <<>>
                BY <1>1 DEF Deliver
            <4> QED
                BY <1>t, <4>1, MoveHeadBefore
        <3> QED
            BY <1>1, <2>1, <3>1 DEF Deliver
<1>2. CASE ReadReturns
    <2>1. delivered \o (chunks \o pipe) = Prefix(sent)
        BY <1>2 DEF ReadReturns, Conserved
    <2>2. reader = "reading" /\ UNCHANGED <<delivered, sent>>
        BY <1>2 DEF ReadReturns, Inv, Progress
    <2>3. ASSUME NEW n \in 1 .. Len(pipe),
                 pipe' = SubSeq(pipe, n + 1, Len(pipe)),
                 chunks' = chunks \o SubSeq(pipe, 1, n)
          PROVE  chunks' \o pipe' = chunks \o pipe
        <3>1. n \in Nat /\ 1 <= n /\ n <= Len(pipe)
            BY <1>n, <2>3
        <3>2. (chunks \o SubSeq(pipe, 1, n)) \o SubSeq(pipe, n + 1, Len(pipe))
                  = chunks \o pipe
            BY <1>t, <3>1, MoveSome
        <3> QED
            BY <2>3, <3>2
    <2>4. CASE UNCHANGED <<pipe, chunks>>
        BY <2>1, <2>2, <2>4
    <2> QED
        BY <1>2, <2>1, <2>2, <2>3, <2>4 DEF ReadReturns
<1>3. CASE KernelWrite
    <2>1. /\ delivered \o (chunks \o pipe) = Prefix(sent)
          /\ UNCHANGED <<delivered, chunks>> /\ sent' = sent + 1
        BY <1>3 DEF KernelWrite, Conserved
    <2>2. pipe' = Append(pipe, sent + 1)
        BY <1>3 DEF KernelWrite, Inv, Answered
    <2>3. sent + 1 \in Units
        BY <1>3, <1>n, ConstantsAssumption DEF KernelWrite, Units
    <2>4. \A s, t, u \in Seq(Units), x \in Units :
              s \o (t \o Append(u, x)) = Append(s \o (t \o u), x)
        BY AppendBehind
    <2>5. delivered \o (chunks \o Append(pipe, sent + 1))
              = Append(delivered \o (chunks \o pipe), sent + 1)
        BY <1>t, <2>3, <2>4
    <2> QED
        BY <1>n, <2>1, <2>2, <2>5, PrefixAppend
<1>4. CASE \/ Refuse \/ Start \/ BytesEnd \/ Complete \/ Stop \/ LateClose \/ Ensure
           \/ IssueRead \/ ReadFails \/ CloseRead
           \/ WorkerStart \/ KernelReturn \/ KernelFails
           \/ OtherOpens \/ OtherCloses \/ StrayClose
    <2>1. /\ UNCHANGED <<delivered, chunks, pipe, sent>>
          /\ pc \in {"guards", "pull", "complete"} /\ ~misdirected
        BY <1>4 DEF Refuse, Start, Opens, BytesEnd, Complete, Stop, LateClose,
            Ensure, IssueRead, ReadFails, CloseRead, WorkerStart, KernelReturn,
            KernelFails, OtherOpens, OtherCloses, StrayClose, TypeOK
    <2> QED
        BY <2>1 DEF Conserved
<1>5. CASE UNCHANGED vars
    BY <1>5 DEF vars, Conserved
<1> QED
    BY <1>1, <1>2, <1>3, <1>4, <1>5 DEF Next

LEMMA WholeStep ==
    TypeOK /\ Inv /\ Conserved /\ Whole /\ [Next]_vars => Whole'
<1> SUFFICES ASSUME TypeOK, Inv, Conserved, Whole, [Next]_vars, outcome' = "ok"
             PROVE  errno' = "0" /\ (delivered' = Prefix(StreamLen) \/ misdirected')
    BY DEF Whole
<1> USE DEF callVars, readerVars, workerVars, fdVars
<1>1. CASE Complete
    <2>1. /\ errno = "0" /\ pc = "complete"
          /\ UNCHANGED <<errno, delivered, misdirected>>
        BY <1>1 DEF Complete
    <2>2. sent = StreamLen
        BY <2>1 DEF Inv, Answered
    <2> QED
        BY <2>1, <2>2, AllDelivered
<1>2. CASE ~Complete
    <2>1. outcome = "ok"
        BY <1>2 DEF Next, Refuse, Start, Opens, Deliver, BytesEnd, Stop, LateClose,
            Ensure, IssueRead, ReadReturns, ReadFails, CloseRead, WorkerStart,
            KernelWrite, KernelReturn, KernelFails, OtherOpens, OtherCloses,
            StrayClose, vars
    <2>2. worker = "done" /\ pc \in {"ensure", "exit"} /\ errno = "0"
        BY <2>1 DEF Inv, Answered, Progress, TypeOK, NoErrno
    <2>3. UNCHANGED <<errno, delivered, misdirected>>
        BY <1>2, <2>2 DEF Next, Refuse, Start, Opens, Deliver, BytesEnd, Stop,
            LateClose, Ensure, IssueRead, ReadReturns, ReadFails, CloseRead,
            WorkerStart, KernelWrite, KernelReturn, KernelFails, OtherOpens,
            OtherCloses, StrayClose, vars
    <2> QED
        BY <2>1, <2>2, <2>3 DEF Whole
<1> QED
    BY <1>1, <1>2

LEMMA ConservedInvariant == Spec => [](Conserved /\ Whole)
<1>1. Init => Conserved /\ Whole
    BY DEF Init, Conserved, Whole, Prefix
<1> QED
    BY <1>1, TypeInvariant, TypeStep, InvInvariant, ConservedStep, WholeStep, PTL
       DEF Spec

(* Reading ahead loses, repeats and reorders nothing, and a stream that     *)
(* ends without an error was delivered whole.                              *)
THEOREM Whole_InOrder == Spec => []InOrderAndWhole
<1>1. TypeOK /\ Conserved /\ Whole => InOrderAndWhole
    <2> SUFFICES ASSUME TypeOK, Conserved, Whole PROVE InOrderAndWhole
        OBVIOUS
    <2>1. /\ delivered \in Seq(Units) /\ chunks \in Seq(Units) /\ pipe \in Seq(Units)
        BY DEF TypeOK
    <2>2. (delivered \o chunks) \o pipe = delivered \o (chunks \o pipe)
        BY <2>1, ConcatAssociative
    <2>3. pc \in {"pull", "complete"} /\ ~misdirected =>
              delivered \o chunks \o pipe = [i \in 1 .. sent |-> i]
        BY <2>2 DEF Conserved, Prefix
    <2> QED
        BY <2>3 DEF Whole, InOrderAndWhole, Prefix, Units
<1> QED
    BY <1>1, TypeInvariant, ConservedInvariant, PTL

-----------------------------------------------------------------------------
(* NativeSend implements SendContract                                      *)

LEMMA ContractStep ==
    TypeOK /\ Inv /\ Conserved /\ [Next]_vars =>
        [Contract!Next \/ misdirected]_(Contract!vars)
<1> SUFFICES ASSUME TypeOK, Inv, Conserved, [Next]_vars, ~misdirected
             PROVE  Contract!Next \/ UNCHANGED <<sent, delivered, outcome>>
    BY DEF Contract!vars, Verdict
<1> USE DEF callVars, readerVars, workerVars, fdVars
<1>v. pc \in {"guards", "pull", "complete"} => Verdict = "open"
    BY DEF Inv, Progress, Verdict
<1>1. ASSUME outcome' \in {"failed", "refused", "stopped"}, Verdict = "open",
             UNCHANGED <<sent, delivered>>
      PROVE  Contract!Next
    BY <1>1 DEF Contract!Next, Contract!Break, Verdict
<1>2. CASE Refuse \/ Stop \/ ReadFails
    BY <1>1, <1>2, <1>v DEF Refuse, Stop, ReadFails
<1>3. CASE Deliver
    <2>1. /\ pc = "pull" /\ chunks # <<>> /\ UNCHANGED <<sent, outcome>>
          /\ delivered' = Append(delivered, Head(chunks))
        BY <1>3 DEF Deliver
    <2>2. /\ delivered \in Seq(Units) /\ chunks \in Seq(Units) /\ pipe \in Seq(Units)
          /\ sent \in Nat
        BY ConstantsAssumption DEF TypeOK
    <2>3. Len(delivered') = Len(delivered) + 1
        BY <2>1, <2>2, HeadTailProperties, AppendProperties
    <2>4. chunks \o pipe \in Seq(Units) /\ Len(chunks \o pipe) = Len(chunks) + Len(pipe)
        BY <2>2, ConcatProperties
    <2>5. Len(delivered \o (chunks \o pipe)) = Len(delivered) + Len(chunks \o pipe)
        BY <2>2, <2>4, ConcatProperties
    <2>6. Len(Prefix(sent)) = sent
        BY <2>2, PrefixAppend
    <2>7. Len(delivered) + (Len(chunks) + Len(pipe)) = sent
        BY <2>1, <2>4, <2>5, <2>6 DEF Conserved
    <2>8. Len(chunks) \in Nat /\ Len(chunks) # 0 /\ Len(pipe) \in Nat /\ Len(delivered) \in Nat
        BY <2>1, <2>2, EmptySeq, LenProperties
    <2>9. Len(delivered) < sent
        BY <2>7, <2>8
    <2> QED
        BY <1>v, <2>1, <2>3, <2>9 DEF Contract!Next, Contract!Deliver, Verdict
<1>4. CASE Complete
    <2>1. pc = "complete" /\ UNCHANGED <<sent, delivered>>
        BY <1>4 DEF Complete
    <2>2. CASE errno = "0"
        <3>1. sent = StreamLen /\ StreamLen \in Nat
            BY <2>2, ConstantsAssumption DEF Inv, Answered
        <3>2. Len(delivered) = StreamLen
            BY <2>1, <3>1, AllDelivered, PrefixAppend
        <3>3. outcome' = "ok"
            BY <1>4, <2>2 DEF Complete
        <3> QED
            BY <1>v, <2>1, <3>2, <3>3 DEF Contract!Next, Contract!Complete, Verdict
    <2>3. CASE errno # "0"
        BY <1>1, <1>4, <1>v, <2>1, <2>3 DEF Complete
    <2> QED
        BY <2>2, <2>3
<1>5. CASE KernelWrite
    <2>1. /\ worker = "kernel" /\ sent < StreamLen /\ sent' = sent + 1
          /\ UNCHANGED <<delivered, outcome>>
        BY <1>5 DEF KernelWrite
    <2>2. Verdict # "complete"
        BY <2>1 DEF Inv, Answered, Verdict, NoErrno, TypeOK
    <2> QED
        BY <2>1, <2>2 DEF Contract!Next, Contract!Write, Verdict
<1>6. CASE \/ Start \/ BytesEnd \/ LateClose \/ Ensure
           \/ IssueRead \/ ReadReturns \/ CloseRead
           \/ WorkerStart \/ KernelReturn \/ KernelFails
           \/ OtherOpens \/ OtherCloses \/ StrayClose \/ UNCHANGED vars
    BY <1>6 DEF Start, Opens, BytesEnd, LateClose, Ensure, IssueRead, ReadReturns,
        CloseRead, WorkerStart, KernelReturn, KernelFails, OtherOpens, OtherCloses,
        StrayClose, vars
<1> QED
    BY <1>2, <1>3, <1>4, <1>5, <1>6 DEF Next

(* The native send implements the contract of ZfsProtocol.send for as long  *)
(* as lzc_send writes into the call's own pipe.                            *)
THEOREM Implements == Spec => ImplementsContract
<1>1. Init => Contract!Init
    <2>1. Len(<<>>) = 0
        BY EmptySeq
    <2> QED
        BY <2>1 DEF Init, Contract!Init, Verdict
<1> QED
    BY <1>1, TypeInvariant, InvInvariant, ConservedInvariant, ContractStep, PTL
       DEF Spec, ImplementsContract
=============================================================================
