----------------------- MODULE TransferPool_proofs -----------------------
(***************************************************************************)
(* TransferPool for any number of transfers, threads, units and any         *)
(* capacity of the pipes: no count leaves its range, which takes the        *)
(* balance of the counts and the order in which jobs come and go.           *)
(***************************************************************************)
EXTENDS TransferPool, SequenceTheorems, FiniteSetTheorems, TLAPS

(* No unit is lost or made up on its way: what a send has written is in     *)
(* its pipe, in the ReadStream or taken; what a receive has been given is   *)
(* being written, in its pipe or read.                                      *)
Blocked(t) == IF writing = t THEN 1 ELSE 0

Balance(t) ==
    /\ Sends(t) => taken[t] + held[t] + sendPipe[t] = sent[t]
    /\ received[t] + recvPipe[t] + Blocked(t) = IF Receives(t) THEN taken[t] ELSE 0

(* A read is submitted when the ReadStream is empty, and empty it stays     *)
(* until the read returns.                                                  *)
ReadsWhenEmpty(t) == job[<<t, "read">>] # "none" => held[t] = 0

(* Which jobs a transfer has at all.                                        *)
Belongs(t) ==
    /\ job[<<t, "send">>] # "none" \/ job[<<t, "read">>] # "none" => Sends(t)
    /\ job[<<t, "receive">>] # "none" => Receives(t)

(* lzc_send is submitted when the send opens, lzc_receive with the first    *)
(* unit.                                                                    *)
Submitted(t) ==
    /\ phase[t] = "new" => job[<<t, "send">>] = "none" /\ taken[t] = 0
    /\ phase[t] # "new" /\ Sends(t) => job[<<t, "send">>] # "none"
    /\ Receives(t) => (taken[t] = 0 <=> job[<<t, "receive">>] = "none")

(* What has come to its end, and when.                                      *)
Finished(t) ==
    /\ job[<<t, "send">>] = "done" => sent[t] = StreamLen
    /\ job[<<t, "receive">>] = "done" => received[t] = StreamLen
    /\ job[<<t, "read">>] = "done" => phase[t] = "ended"
    /\ phase[t] = "ended" /\ Receives(t) => job[<<t, "receive">>] = "done"

(* What waits for a thread is queued, and is in the queue once.             *)
Waiting ==
    /\ \A i \in 1 .. Len(queue) : job[queue[i]] = "queued"
    /\ \A i, k \in 1 .. Len(queue) : queue[i] = queue[k] => i = k
    /\ \A j \in Transfer \X Jobs :
          job[j] = "queued" => \E i \in 1 .. Len(queue) : queue[i] = j

-----------------------------------------------------------------------------
(* The jobs and their queue                                                *)

JobStates == {"none", "queued", "running", "done"}

JobsOK ==
    /\ job \in [Transfer \X Jobs -> JobStates]
    /\ queue \in Seq(Transfer \X Jobs)

(* A job is submitted only if it is in no queue.                            *)
LEMMA Submits ==
    ASSUME NEW j \in Transfer \X Jobs, JobsOK, Waiting, job[j] = "none", Submit(j)
    PROVE  JobsOK' /\ Waiting'
<1> USE DEF JobsOK, JobStates
<1>1. JobsOK'
    BY DEF Submit
<1>2. /\ Len(queue') = Len(queue) + 1 /\ Len(queue) \in Nat
      /\ \A i \in 1 .. Len(queue) : queue'[i] = queue[i]
      /\ queue'[Len(queue) + 1] = j
    BY DEF Submit
<1>3. \A i \in 1 .. Len(queue) : queue[i] \in Transfer \X Jobs /\ queue[i] # j
    BY DEF Waiting
<1>4. \A i \in 1 .. Len(queue') : i \in 1 .. Len(queue) \/ i = Len(queue) + 1
    BY <1>2
<1>5. \A i \in 1 .. Len(queue') : job'[queue'[i]] = "queued"
    BY <1>2, <1>3, <1>4 DEF Waiting, Submit
<1>6. \A i, k \in 1 .. Len(queue') : queue'[i] = queue'[k] => i = k
    BY <1>2, <1>3, <1>4 DEF Waiting
<1>7. ASSUME NEW k \in Transfer \X Jobs, job'[k] = "queued"
      PROVE  \E i \in 1 .. Len(queue') : queue'[i] = k
    <2>1. CASE k = j
        BY <1>2, <2>1
    <2>2. CASE k # j
        <3>1. job[k] = "queued"
            BY <1>7, <2>2 DEF Submit
        <3>2. PICK i \in 1 .. Len(queue) : queue[i] = k
            BY <3>1 DEF Waiting
        <3> QED
            BY <1>2, <3>2
    <2> QED
        BY <2>1, <2>2
<1>8. QED
    BY <1>1, <1>5, <1>6, <1>7 DEF Waiting

(* The first of the queue gets a thread.                                    *)
LEMMA Dispatches ==
    ASSUME JobsOK, Waiting, Dispatch
    PROVE  /\ JobsOK' /\ Waiting'
           /\ Head(queue) \in Transfer \X Jobs
           /\ job[Head(queue)] = "queued"
<1> USE DEF JobsOK, JobStates
<1>1. queue # <<>> /\ Len(queue) \in Nat /\ Len(queue) >= 1 /\ Head(queue) = queue[1]
    BY EmptySeq DEF Dispatch, CanDispatch
<1>2. Head(queue) \in Transfer \X Jobs /\ job[Head(queue)] = "queued"
    BY <1>1 DEF Waiting
<1>3. JobsOK'
    BY <1>1, <1>2 DEF Dispatch, CanDispatch
<1>4. /\ Len(queue') = Len(queue) - 1
      /\ \A i \in 1 .. Len(queue') : queue'[i] = queue[i + 1]
    BY <1>1 DEF Dispatch, CanDispatch
<1>5. \A i \in 1 .. Len(queue') : i + 1 \in 1 .. Len(queue) /\ i + 1 # 1
    BY <1>1, <1>4
<1>6. \A i \in 1 .. Len(queue') : queue'[i] \in Transfer \X Jobs /\ queue'[i] # Head(queue)
    <2> SUFFICES ASSUME NEW i \in 1 .. Len(queue')
                 PROVE  queue'[i] \in Transfer \X Jobs /\ queue'[i] # Head(queue)
        OBVIOUS
    <2>1. i + 1 \in 1 .. Len(queue) /\ 1 \in 1 .. Len(queue) /\ i + 1 # 1
        BY <1>1, <1>5
    <2>2. queue[i + 1] # queue[1]
        BY ONLY <2>1, Waiting DEF Waiting
    <2>3. queue[i + 1] \in Transfer \X Jobs
        BY <2>1
    <2> QED
        BY <1>1, <1>4, <2>2, <2>3
<1>7. \A i \in 1 .. Len(queue') : job'[queue'[i]] = "queued"
    BY <1>2, <1>4, <1>5, <1>6 DEF Waiting, Dispatch, CanDispatch
<1>8. ASSUME NEW i \in 1 .. Len(queue'), NEW k \in 1 .. Len(queue'),
             queue'[i] = queue'[k]
      PROVE  i = k
    <2>1. /\ i + 1 \in 1 .. Len(queue) /\ k + 1 \in 1 .. Len(queue)
          /\ queue[i + 1] = queue[k + 1]
        BY <1>4, <1>5, <1>8
    <2>2. i + 1 = k + 1
        BY ONLY <2>1, Waiting DEF Waiting
    <2> QED
        BY <2>2, <1>4
<1>9. ASSUME NEW j \in Transfer \X Jobs, job'[j] = "queued"
      PROVE  \E i \in 1 .. Len(queue') : queue'[i] = j
    <2>1. job[j] = "queued" /\ j # Head(queue)
        BY <1>2, <1>9 DEF Dispatch, CanDispatch
    <2>2. PICK i \in 1 .. Len(queue) : queue[i] = j
        BY <2>1 DEF Waiting
    <2>3. i - 1 \in 1 .. Len(queue')
        BY <1>1, <1>4, <2>1, <2>2
    <2>4. queue'[i - 1] = queue[i]
        BY <1>4, <2>2, <2>3
    <2> QED
        BY <2>2, <2>3, <2>4
<1>10. QED
    BY <1>2, <1>3, <1>7, <1>8, <1>9 DEF Waiting

(* A job that runs is in no queue: whatever becomes of it, the others wait. *)
LEMMA Settles ==
    ASSUME NEW j \in Transfer \X Jobs, NEW s \in JobStates \ {"queued"},
           JobsOK, Waiting, job[j] = "running",
           job' = [job EXCEPT ![j] = s], UNCHANGED queue
    PROVE  JobsOK' /\ Waiting'
<1>1. JobsOK'
    BY DEF JobsOK
<1>2. \A i \in 1 .. Len(queue) : queue[i] \in Transfer \X Jobs /\ queue[i] # j
    BY DEF JobsOK, Waiting
<1>3. QED
    BY <1>1, <1>2 DEF JobsOK, Waiting
-----------------------------------------------------------------------------
(* Type correctness                                                        *)

(* Steps that leave the queue alone.                                       *)
LEMMA JobsStay ==
    JobsOK /\ Waiting /\ UNCHANGED <<job, queue>> => JobsOK' /\ Waiting'
BY DEF JobsOK, Waiting

(* The types without the bounds, and all that is to be shown of a transfer. *)
Typed ==
    /\ threads \in 1 .. MaxThreads
    /\ kind \in [Transfer -> Kinds]
    /\ phase \in [Transfer -> {"new", "open", "ended"}]
    /\ sent \in [Transfer -> Nat] /\ sendPipe \in [Transfer -> Nat]
    /\ held \in [Transfer -> Nat] /\ taken \in [Transfer -> Nat]
    /\ recvPipe \in [Transfer -> Nat] /\ received \in [Transfer -> Nat]
    /\ writing \in Transfer \cup {Nobody}

Counts(t) ==
    /\ sent[t] <= StreamLen /\ taken[t] <= StreamLen
    /\ sendPipe[t] <= PipeCap /\ held[t] <= PipeCap /\ recvPipe[t] <= PipeCap
    /\ Balance(t)

Course(t) == ReadsWhenEmpty(t) /\ Belongs(t) /\ Submitted(t) /\ Finished(t)

Facts(t) == Counts(t) /\ Course(t)

All == Typed /\ JobsOK /\ Waiting /\ \A t \in Transfer : Facts(t)

LEMMA Start == Init => All
<1> SUFFICES ASSUME Init PROVE All
    OBVIOUS
<1>1. Typed /\ JobsOK /\ Waiting
    BY ConstantsAssumption DEF Init, Typed, JobsOK, JobStates, Waiting
<1>2. ASSUME NEW t \in Transfer PROVE Facts(t)
    <2>1. writing # t
        BY ConstantsAssumption DEF Init
    <2>2. \A k \in Jobs : job[<<t, k>>] = "none"
        BY DEF Init
    <2> QED
        BY <2>1, <2>2, ConstantsAssumption DEF Init, Facts, Counts, Course, Balance, Blocked, ReadsWhenEmpty, Belongs, Submitted, Finished, Jobs
<1> QED
    BY <1>1, <1>2 DEF All

LEMMA Bounded == All => TypeOK
<1> SUFFICES ASSUME All PROVE TypeOK
    OBVIOUS
<1> USE DEF All
<1>2. ASSUME NEW t \in Transfer
      PROVE  /\ sent[t] \in 0 .. StreamLen /\ taken[t] \in 0 .. StreamLen
             /\ received[t] \in 0 .. StreamLen
             /\ sendPipe[t] \in 0 .. PipeCap /\ held[t] \in 0 .. PipeCap
             /\ recvPipe[t] \in 0 .. PipeCap
    BY ConstantsAssumption DEF Typed, Facts, Counts, Balance, Blocked
<1> QED
    BY <1>2 DEF Typed, JobsOK, JobStates, TypeOK

(* A step of one transfer, and of one job of it, is nothing to another one. *)
Same(u) ==
    /\ kind[u]' = kind[u] /\ phase[u]' = phase[u]
    /\ sent[u]' = sent[u] /\ sendPipe[u]' = sendPipe[u] /\ held[u]' = held[u]
    /\ taken[u]' = taken[u] /\ recvPipe[u]' = recvPipe[u]
    /\ received[u]' = received[u]
    /\ (writing' = u) <=> (writing = u)
    /\ \A k \in Jobs : job'[<<u, k>>] = job[<<u, k>>]

LEMMA Others == ASSUME NEW u \in Transfer, Facts(u), Same(u) PROVE Facts(u)'
<1>1. Counts(u)'
    BY DEF Same, Facts, Counts, Balance, Blocked, Sends, Receives
<1>2. Course(u)'
    BY DEF Same, Facts, Course, ReadsWhenEmpty, Belongs, Submitted, Finished,
       Sends, Receives, Jobs
<1> QED
    BY <1>1, <1>2 DEF Facts

LEMMA Step == All /\ [Next]_vars => All'
<1> SUFFICES ASSUME All, [Next]_vars PROVE All'
    OBVIOUS
<1>j. Typed /\ JobsOK /\ Waiting /\ \A t \in Transfer : Facts(t)
    BY DEF All
<1> USE ConstantsAssumption DEF Jobs
<1>1. ASSUME NEW t \in Transfer, Open(t)
      PROVE  All'
    <2>1. JobsOK' /\ Waiting'
        BY <1>1, <1>j, JobsStay, Submits DEF Open, CanOpen, Facts, Course, Belongs, Submitted, Finished
    <2>2. Typed'
        BY <1>1, <1>j DEF Open, CanOpen, Submit, Typed
    <2>3. ASSUME NEW u \in Transfer, u # t PROVE Same(u)
        BY <1>1, <1>j, <2>3 DEF Open, CanOpen, Submit, Typed, JobsOK, Same, Free
    <2>4. Counts(t)'
        BY <1>1, <1>j DEF Open, CanOpen, Submit, Typed, Facts, Counts, Balance,
           Blocked, Sends, Receives, Free
    <2>5. Course(t)'
        BY <1>1, <1>j DEF Open, CanOpen, Submit, Typed, JobsOK, Facts, Course,
           ReadsWhenEmpty, Belongs, Submitted, Finished, Sends, Receives, Free
    <2> QED
        BY <1>j, <2>1, <2>2, <2>3, <2>4, <2>5, Others DEF All, Facts
<1>2. ASSUME NEW t \in Transfer, IssueRead(t)
      PROVE  All'
    <2>1. JobsOK' /\ Waiting'
        BY <1>2, <1>j, Submits DEF IssueRead, CanIssueRead
    <2>2. Typed'
        BY <1>2, <1>j DEF IssueRead, CanIssueRead, Submit, Typed
    <2>3. ASSUME NEW u \in Transfer, u # t PROVE Same(u)
        BY <1>2, <1>j, <2>3 DEF IssueRead, CanIssueRead, Submit, Typed, JobsOK, Same, Free
    <2>4. Counts(t)'
        BY <1>2, <1>j DEF IssueRead, CanIssueRead, Submit, Typed, Facts, Counts, Balance,
           Blocked, Sends, Receives, Free
    <2>5. Course(t)'
        BY <1>2, <1>j DEF IssueRead, CanIssueRead, Submit, Typed, JobsOK, Facts, Course,
           ReadsWhenEmpty, Belongs, Submitted, Finished, Sends, Receives, Free
    <2> QED
        BY <1>j, <2>1, <2>2, <2>3, <2>4, <2>5, Others DEF All, Facts
<1>3. ASSUME NEW t \in Transfer, Take(t)
      PROVE  All'
    <2>1. JobsOK' /\ Waiting'
        BY <1>3, <1>j, JobsStay, Submits DEF Take, CanTake, Facts, Course, Belongs, Submitted, Finished
    <2>2. Typed'
        <3>1. held' \in [Transfer -> Nat]
            BY <1>3, <1>j DEF Take, CanTake, Typed
        <3>2. taken' \in [Transfer -> Nat] /\ writing' \in Transfer \cup {Nobody}
            BY <1>3, <1>j DEF Take, CanTake, Typed
        <3> QED
            BY <1>3, <1>j, <3>1, <3>2 DEF Take, CanTake, Typed
    <2>3. ASSUME NEW u \in Transfer, u # t PROVE Same(u)
        BY <1>3, <1>j, <2>3 DEF Take, CanTake, Submit, Typed, JobsOK, Same, Free
    <2>v. /\ taken'[t] = taken[t] + 1
          /\ Sends(t) => held[t] > 0 /\ held'[t] = held[t] - 1
          /\ ~Sends(t) => held'[t] = held[t] /\ taken[t] < StreamLen
          /\ writing # t /\ (~Receives(t) => writing' # t)
        BY <1>3, <1>j DEF Take, CanTake, Typed, JobsOK, Sends, Receives, Free
    <2>w. /\ job'[<<t, "read">>] = job[<<t, "read">>] /\ phase[t] = "open"
          /\ UNCHANGED <<kind, phase, sent, sendPipe, recvPipe, received>>
        BY <1>3, <1>j DEF Take, CanTake, Submit, JobsOK
    <2>4. Counts(t)'
        <3>1. taken'[t] <= StreamLen /\ held'[t] <= PipeCap
            BY <1>j, <2>v, <2>w DEF Typed, Facts, Counts, Balance
        <3>2. Sends(t)' => taken'[t] + held'[t] + sendPipe'[t] = sent'[t]
            BY <1>j, <2>v, <2>w DEF Typed, Facts, Counts, Balance, Sends
        <3>3. Receives(t) => writing' = t
            BY <1>3 DEF Take
        <3>4. received'[t] + recvPipe'[t] + Blocked(t)' = IF Receives(t)' THEN taken'[t] ELSE 0
            <4>1. CASE Receives(t)
                BY <1>j, <2>v, <2>w, <3>3, <4>1
                   DEF Typed, Facts, Counts, Balance, Blocked, Receives
            <4>2. CASE ~Receives(t)
                BY <1>j, <2>v, <2>w, <4>2
                   DEF Typed, Facts, Counts, Balance, Blocked, Receives
            <4> QED
                BY <4>1, <4>2
        <3> QED
            BY <1>j, <2>w, <3>1, <3>2, <3>4 DEF Facts, Counts, Balance
    <2>5. ReadsWhenEmpty(t)'
        <3>1. job[<<t, "read">>] # "none" => ~Sends(t)
            BY <1>j, <2>v DEF Typed, Facts, Course, ReadsWhenEmpty
        <3> QED
            BY <1>j, <2>v, <2>w, <3>1 DEF Facts, Course, ReadsWhenEmpty
    <2>6. Belongs(t)' /\ Submitted(t)' /\ Finished(t)'
        <3>1. job'[<<t, "send">>] = job[<<t, "send">>]
            BY <1>3, <1>j DEF Take, Submit, JobsOK
        <3>2. job'[<<t, "receive">>] = IF Receives(t) /\ taken[t] = 0
                                       THEN "queued" ELSE job[<<t, "receive">>]
            BY <1>3, <1>j DEF Take, Submit, JobsOK
        <3>3. taken[t] \in Nat /\ taken'[t] # 0
            BY <1>j, <2>v DEF Typed
        <3>4. (Sends(t)' <=> Sends(t)) /\ (Receives(t)' <=> Receives(t))
            BY <2>w DEF Sends, Receives
        <3>5. Belongs(t)'
            BY <1>j, <2>w, <3>1, <3>2, <3>4 DEF Facts, Course, Belongs
        <3>6. Submitted(t)'
            BY <1>j, <2>w, <3>1, <3>2, <3>3, <3>4 DEF Facts, Course, Submitted
        <3>7. Finished(t)'
            BY <1>j, <2>w, <3>1, <3>2, <3>4 DEF Facts, Course, Finished
        <3> QED
            BY <3>5, <3>6, <3>7
    <2> QED
        BY <1>j, <2>1, <2>2, <2>3, <2>4, <2>5, <2>6, Others DEF All, Facts, Course
<1>4. ASSUME NEW t \in Transfer, Write(t)
      PROVE  All'
    <2>1. JobsOK' /\ Waiting'
        BY <1>4, <1>j, JobsStay DEF Write, CanWrite
    <2>2. Typed'
        BY <1>4, <1>j DEF Write, CanWrite, Typed
    <2>3. ASSUME NEW u \in Transfer, u # t PROVE Same(u)
        BY <1>4, <1>j, <2>3 DEF Write, CanWrite, Typed, JobsOK, Same, Free
    <2>4. Counts(t)'
        BY <1>4, <1>j DEF Write, CanWrite, Typed, Facts, Counts, Balance,
           Blocked, Sends, Receives, Free
    <2>5. Course(t)'
        BY <1>4, <1>j DEF Write, CanWrite, Typed, JobsOK, Facts, Course,
           ReadsWhenEmpty, Belongs, Submitted, Finished, Sends, Receives, Free
    <2> QED
        BY <1>j, <2>1, <2>2, <2>3, <2>4, <2>5, Others DEF All, Facts
<1>5. ASSUME NEW t \in Transfer, End(t)
      PROVE  All'
    <2>1. JobsOK' /\ Waiting'
        BY <1>5, <1>j, JobsStay DEF End, CanEnd
    <2>2. Typed'
        BY <1>5, <1>j DEF End, CanEnd, Typed
    <2>3. ASSUME NEW u \in Transfer, u # t PROVE Same(u)
        BY <1>5, <1>j, <2>3 DEF End, CanEnd, Typed, JobsOK, Same, Free
    <2>4. Counts(t)'
        BY <1>5, <1>j DEF End, CanEnd, Typed, Facts, Counts, Balance,
           Blocked, Sends, Receives, Free
    <2>5. Course(t)'
        BY <1>5, <1>j DEF End, CanEnd, Typed, JobsOK, Facts, Course,
           ReadsWhenEmpty, Belongs, Submitted, Finished, Sends, Receives, Free
    <2> QED
        BY <1>j, <2>1, <2>2, <2>3, <2>4, <2>5, Others DEF All, Facts
<1>6. ASSUME NEW t \in Transfer, KernelWrites(t)
      PROVE  All'
    <2>1. JobsOK' /\ Waiting'
        BY <1>6, <1>j, JobsStay DEF KernelWrites, CanKernelWrite
    <2>2. Typed'
        BY <1>6, <1>j DEF KernelWrites, CanKernelWrite, Typed
    <2>3. ASSUME NEW u \in Transfer, u # t PROVE Same(u)
        BY <1>6, <1>j, <2>3 DEF KernelWrites, CanKernelWrite, Typed, JobsOK, Same, Free
    <2>v. /\ sent'[t] = sent[t] + 1 /\ sendPipe'[t] = sendPipe[t] + 1
        BY <1>6, <1>j DEF KernelWrites, CanKernelWrite, Typed, JobsOK, Sends, Receives, Free
    <2>w. /\ sent[t] < StreamLen /\ sendPipe[t] < PipeCap
          /\ UNCHANGED <<kind, held, taken, recvPipe, received, writing>>
        BY <1>6 DEF KernelWrites, CanKernelWrite
    <2>4. Counts(t)'
        <3>1. sent'[t] <= StreamLen /\ sendPipe'[t] <= PipeCap
            BY <1>j, <2>v, <2>w DEF Typed
        <3>2. Balance(t)'
            BY <1>j, <2>v, <2>w DEF Typed, Facts, Counts, Balance, Blocked, Sends, Receives
        <3> QED
            BY <1>j, <2>w, <3>1, <3>2 DEF Facts, Counts
    <2>5. Course(t)'
        BY <1>6, <1>j, <2>v DEF KernelWrites, CanKernelWrite, Typed, JobsOK, Facts, Course,
           ReadsWhenEmpty, Belongs, Submitted, Finished, Sends, Receives, Free
    <2> QED
        BY <1>j, <2>1, <2>2, <2>3, <2>4, <2>5, Others DEF All, Facts
<1>7. ASSUME NEW t \in Transfer, SendReturns(t)
      PROVE  All'
    <2>1. JobsOK' /\ Waiting'
        BY <1>7, <1>j, Settles DEF SendReturns, CanSendReturn, Finishes, JobStates
    <2>2. Typed'
        BY <1>7, <1>j DEF SendReturns, CanSendReturn, Finishes, Typed
    <2>3. ASSUME NEW u \in Transfer, u # t PROVE Same(u)
        BY <1>7, <1>j, <2>3 DEF SendReturns, CanSendReturn, Finishes, Typed, JobsOK, Same, Free
    <2>4. Counts(t)'
        BY <1>7, <1>j DEF SendReturns, CanSendReturn, Finishes, Typed, Facts, Counts, Balance,
           Blocked, Sends, Receives, Free
    <2>5. Course(t)'
        BY <1>7, <1>j DEF SendReturns, CanSendReturn, Finishes, Typed, JobsOK, Facts, Course,
           ReadsWhenEmpty, Belongs, Submitted, Finished, Sends, Receives, Free
    <2> QED
        BY <1>j, <2>1, <2>2, <2>3, <2>4, <2>5, Others DEF All, Facts
<1>8. ASSUME NEW t \in Transfer, ReadReturns(t)
      PROVE  All'
    <2>1. JobsOK' /\ Waiting'
        BY <1>8, <1>j, Settles DEF ReadReturns, CanReadReturn, Finishes, JobStates
    <2>2. Typed'
        BY <1>8, <1>j DEF ReadReturns, CanReadReturn, Finishes, Typed
    <2>3. ASSUME NEW u \in Transfer, u # t PROVE Same(u)
        BY <1>8, <1>j, <2>3 DEF ReadReturns, CanReadReturn, Finishes, Typed, JobsOK, Same, Free
    <2>v. held[t] = 0 /\ held'[t] = sendPipe[t] /\ sendPipe'[t] = 0
        BY <1>8, <1>j DEF ReadReturns, CanReadReturn, Typed, Facts, Course, ReadsWhenEmpty
    <2>w. \A k \in Jobs \ {"read"} : job'[<<t, k>>] = job[<<t, k>>]
        BY <1>8, <1>j DEF ReadReturns, Finishes, JobsOK
    <2>x. \/ sendPipe[t] > 0 /\ job'[<<t, "read">>] = "none"
          \/ sendPipe[t] = 0 /\ job'[<<t, "read">>] = "done" /\ phase[t] = "ended"
        BY <1>8, <1>j DEF ReadReturns, CanReadReturn, Finishes, JobsOK, Typed
    <2>4. Counts(t)'
        BY <1>8, <1>j, <2>v DEF ReadReturns, CanReadReturn, Finishes, Typed, Facts, Counts, Balance,
           Blocked, Sends, Receives, Free
    <2>y. UNCHANGED <<kind, phase, taken, sent, received>>
        BY <1>8 DEF ReadReturns
    <2>5. Course(t)'
        BY <1>8, <1>j, <2>v, <2>w, <2>x, <2>y DEF CanReadReturn, ReadReturns, Typed, Facts,
           Course, ReadsWhenEmpty, Belongs, Submitted, Finished, Sends, Receives
    <2> QED
        BY <1>j, <2>1, <2>2, <2>3, <2>4, <2>5, Others DEF All, Facts
<1>9. ASSUME NEW t \in Transfer, KernelReads(t)
      PROVE  All'
    <2>1. JobsOK' /\ Waiting'
        BY <1>9, <1>j, JobsStay DEF KernelReads, CanKernelRead
    <2>2. Typed'
        BY <1>9, <1>j DEF KernelReads, CanKernelRead, Typed
    <2>3. ASSUME NEW u \in Transfer, u # t PROVE Same(u)
        BY <1>9, <1>j, <2>3 DEF KernelReads, CanKernelRead, Typed, JobsOK, Same, Free
    <2>v. /\ recvPipe'[t] = recvPipe[t] - 1 /\ received'[t] = received[t] + 1
          /\ recvPipe'[t] \in Nat
        BY <1>9, <1>j DEF KernelReads, CanKernelRead, Typed, JobsOK, Sends, Receives, Free
    <2>w. UNCHANGED <<kind, sent, sendPipe, held, taken, writing>>
        BY <1>9 DEF KernelReads
    <2>4. Counts(t)'
        <3>1. received'[t] + recvPipe'[t] + Blocked(t)' = received[t] + recvPipe[t] + Blocked(t)
            BY <1>j, <2>v, <2>w DEF Typed, Blocked
        <3>2. recvPipe'[t] <= PipeCap
            BY <1>j, <2>v DEF Typed, Facts, Counts
        <3> QED
            BY <1>j, <2>w, <3>1, <3>2 DEF Typed, Facts, Counts, Balance, Sends, Receives
    <2>5. Course(t)'
        BY <1>9, <1>j, <2>v DEF KernelReads, CanKernelRead, Typed, JobsOK, Facts, Course,
           ReadsWhenEmpty, Belongs, Submitted, Finished, Sends, Receives, Free
    <2> QED
        BY <1>j, <2>1, <2>2, <2>3, <2>4, <2>5, Others DEF All, Facts
<1>10. ASSUME NEW t \in Transfer, ReceiveReturns(t)
      PROVE  All'
    <2>1. JobsOK' /\ Waiting'
        BY <1>10, <1>j, Settles DEF ReceiveReturns, CanReceiveReturn, Finishes, JobStates
    <2>2. Typed'
        BY <1>10, <1>j DEF ReceiveReturns, CanReceiveReturn, Finishes, Typed
    <2>3. ASSUME NEW u \in Transfer, u # t PROVE Same(u)
        BY <1>10, <1>j, <2>3 DEF ReceiveReturns, CanReceiveReturn, Finishes, Typed, JobsOK, Same, Free
    <2>4. Counts(t)'
        BY <1>10, <1>j DEF ReceiveReturns, CanReceiveReturn, Finishes, Typed, Facts, Counts, Balance,
           Blocked, Sends, Receives, Free
    <2>5. Course(t)'
        BY <1>10, <1>j DEF ReceiveReturns, CanReceiveReturn, Finishes, Typed, JobsOK, Facts, Course,
           ReadsWhenEmpty, Belongs, Submitted, Finished, Sends, Receives, Free
    <2> QED
        BY <1>j, <2>1, <2>2, <2>3, <2>4, <2>5, Others DEF All, Facts
<1>11. CASE Dispatch
    <2>1. JobsOK' /\ Waiting' /\ job[Head(queue)] = "queued"
        BY <1>11, <1>j, Dispatches
    <2>2. \A j \in Transfer \X Jobs : job'[j] = "none" <=> job[j] = "none"
        BY <1>11, <1>j, <2>1 DEF Dispatch, CanDispatch, JobsOK
    <2>5. \A j \in Transfer \X Jobs : job'[j] = "done" <=> job[j] = "done"
        BY <1>11, <1>j, <2>1 DEF Dispatch, JobsOK
    <2>3. ASSUME NEW u \in Transfer PROVE Facts(u)'
        <3>1. Counts(u)'
            BY <1>11, <1>j DEF Dispatch, Facts, Counts, Balance, Blocked, Sends, Receives
        <3>2. Course(u)'
            BY <1>11, <1>j, <2>2, <2>5 DEF Dispatch, Facts, Course, ReadsWhenEmpty,
               Belongs, Submitted, Finished, Sends, Receives
        <3> QED
            BY <3>1, <3>2 DEF Facts
    <2> QED
        BY <1>11, <1>j, <2>1, <2>3 DEF Dispatch, CanDispatch, Typed, All
<1>12. CASE UNCHANGED vars
    <2>1. JobsOK' /\ Waiting'
        BY <1>12, <1>j, JobsStay DEF vars
    <2>2. \A u \in Transfer : Same(u)
        BY <1>12 DEF vars, Same
    <2> QED
        BY <1>12, <1>j, <2>1, <2>2, Others DEF vars, Typed, All
<1> QED
    BY <1>1, <1>2, <1>3, <1>4, <1>5, <1>6, <1>7, <1>8, <1>9, <1>10, <1>11, <1>12
       DEF Next

(* Whatever is piped into whatever, and however few the threads: the stream *)
(* and the buffers bound every count, and the pool is given nothing but the *)
(* jobs of the transfers.                                                   *)
THEOREM TypeCorrect == Spec => []TypeOK
<1>1. Spec => []All
    BY Start, Step, PTL DEF Spec
<1> QED
    BY <1>1, Bounded, PTL

-----------------------------------------------------------------------------
(* Enough threads                                                          *)

(* If no send has both of its jobs running, what runs are at most as many   *)
(* jobs as there are sends, and receives that run.                          *)
LEMMA RunningAtMost ==
    ASSUME All,
           \A t \in Transfer :
              ~(job[<<t, "send">>] = "running" /\ job[<<t, "read">>] = "running"),
           NEW Q \in SUBSET Transfer,
           \A t \in Transfer : job[<<t, "receive">>] = "running" => t \in Q
    PROVE  /\ IsFiniteSet(Running)
           /\ Cardinality(Running) <= Cardinality(Sending) + Cardinality(Q)
<1> DEFINE Out == {j \in Running : j[2] # "receive"}
           In  == {j \in Running : j[2] = "receive"}
<1>1. IsFiniteSet(Sending) /\ IsFiniteSet(Q)
    BY ConstantsAssumption, FS_Subset DEF Sending
<1>2. \A j \in Running : j \in Transfer \X Jobs /\ job[j] = "running" /\ j = <<j[1], j[2]>>
    BY DEF Running
<1>3. [j \in Out |-> j[1]] \in Injection(Out, Sending)
    <2>1. ASSUME NEW j \in Out
          PROVE  j[1] \in Sending
        <3>1. j[1] \in Transfer /\ (j = <<j[1], "send">> \/ j = <<j[1], "read">>)
            BY <1>2 DEF Jobs
        <3>2. job[<<j[1], "send">>] # "none" \/ job[<<j[1], "read">>] # "none"
            BY <1>2, <3>1
        <3> QED
            BY <3>1, <3>2 DEF All, Facts, Course, Belongs, Sending
    <2>2. ASSUME NEW j \in Out, NEW k \in Out, j[1] = k[1]
          PROVE  j = k
        <3>1. /\ j[1] \in Transfer
              /\ j = <<j[1], "send">> \/ j = <<j[1], "read">>
              /\ k = <<j[1], "send">> \/ k = <<j[1], "read">>
            BY <1>2, <2>2 DEF Jobs
        <3> QED
            BY <1>2, <3>1
    <2> QED
        BY <2>1, <2>2 DEF Injection, IsInjective
<1>4. [j \in In |-> j[1]] \in Injection(In, Q)
    <2>1. \A j \in In : j[1] \in Transfer /\ j = <<j[1], "receive">>
        BY <1>2
    <2>2. \A j \in In : j[1] \in Q
        BY <1>2, <2>1
    <2> QED
        BY <2>1, <2>2 DEF Injection, IsInjective
<1>5. IsFiniteSet(Out) /\ Cardinality(Out) <= Cardinality(Sending)
    BY <1>1, <1>3, FS_Injection
<1>6. IsFiniteSet(In) /\ Cardinality(In) <= Cardinality(Q)
    BY <1>1, <1>4, FS_Injection
<1>7. Running = Out \cup In /\ Out \cap In = {}
    OBVIOUS
<1>8. /\ IsFiniteSet(Out \cup In)
      /\ Cardinality(Out \cup In) = Cardinality(Out) + Cardinality(In) - Cardinality({})
    BY <1>5, <1>6, <1>7, FS_Union
<1> HIDE DEF Out, In
<1>9. /\ Cardinality(Out) \in Nat /\ Cardinality(In) \in Nat
      /\ Cardinality(Sending) \in Nat /\ Cardinality(Q) \in Nat
      /\ Cardinality({}) = 0
    BY <1>1, <1>5, <1>6, FS_CardinalityType, FS_EmptySet
<1> QED
    BY <1>5, <1>6, <1>7, <1>8, <1>9

(* Nobody can go on only if all threads are taken by jobs that wait; but    *)
(* then one thread more than there are jobs that can wait at once is taken. *)
LEMMA Unstuck == All => NeverStuck
<1> SUFFICES ASSUME All, Needed <= threads, ~AllEnded, ~CanStep
             PROVE  FALSE
    BY DEF NeverStuck
<1> USE ConstantsAssumption
<1>a. ASSUME NEW t \in Transfer
      PROVE  /\ ~CanOpen(t) /\ ~CanIssueRead(t) /\ ~CanTake(t) /\ ~CanWrite(t) /\ ~CanEnd(t)
             /\ ~CanKernelWrite(t) /\ ~CanSendReturn(t) /\ ~CanReadReturn(t)
             /\ ~CanKernelRead(t) /\ ~CanReceiveReturn(t)
    BY DEF CanStep
<1>b. ASSUME NEW t \in Transfer
      PROVE  Counts(t) /\ Course(t)
    BY DEF All, Facts
<1>c. ASSUME NEW t \in Transfer
      PROVE  /\ sent[t] \in Nat /\ sendPipe[t] \in Nat /\ held[t] \in Nat
             /\ taken[t] \in Nat /\ recvPipe[t] \in Nat /\ received[t] \in Nat
             /\ phase[t] \in {"new", "open", "ended"} /\ kind[t] \in Kinds
             /\ \A k \in Jobs : job[<<t, k>>] \in JobStates
    BY DEF All, Typed, JobsOK
<1>d. \A t \in Transfer : "send" \in Jobs /\ "read" \in Jobs /\ "receive" \in Jobs
    BY DEF Jobs
<1>1. ASSUME NEW t \in Transfer, job[<<t, "send">>] = "running"
      PROVE  sendPipe[t] > 0
    BY <1>a, <1>b, <1>c, <1>1 DEF CanKernelWrite, CanSendReturn, Counts
<1>2. ASSUME NEW t \in Transfer, job[<<t, "read">>] = "running"
      PROVE  sendPipe[t] = 0
    <2>1. ~(sendPipe[t] > 0)
        BY <1>a, <1>2 DEF CanReadReturn
    <2>2. sendPipe[t] \in Nat
        BY <1>c
    <2> QED
        BY <2>1, <2>2
<1>3. \A t \in Transfer :
         ~(job[<<t, "send">>] = "running" /\ job[<<t, "read">>] = "running")
    <2> SUFFICES ASSUME NEW t \in Transfer,
                        job[<<t, "send">>] = "running", job[<<t, "read">>] = "running"
                 PROVE  FALSE
        OBVIOUS
    <2>1. sendPipe[t] > 0 /\ sendPipe[t] = 0
        BY <1>1, <1>2
    <2> QED
        BY <2>1
<1>4. ASSUME NEW t \in Transfer, job[<<t, "receive">>] = "running"
      PROVE  recvPipe[t] = 0 /\ received[t] # StreamLen
    BY <1>a, <1>c, <1>4 DEF CanKernelRead, CanReceiveReturn
<1>5. ASSUME NEW t \in Transfer, writing = t
      PROVE  Receives(t) /\ job[<<t, "receive">>] = "queued"
    <2>1. recvPipe[t] = PipeCap
        BY <1>a, <1>b, <1>c, <1>5 DEF CanWrite, Counts
    <2>2. Receives(t) /\ received[t] + PipeCap + 1 = taken[t]
        BY <1>b, <1>c, <1>5, <2>1 DEF Counts, Balance, Blocked
    <2>0. /\ received[t] \in Nat /\ taken[t] \in Nat
          /\ PipeCap \in Nat /\ StreamLen \in Nat /\ taken[t] <= StreamLen
        BY <1>b, <1>c DEF Counts
    <2>6. taken[t] # 0 /\ received[t] # StreamLen
        BY <2>0, <2>2
    <2>3. job[<<t, "receive">>] # "none"
        BY <1>b, <2>2, <2>6 DEF Course, Submitted
    <2>4. job[<<t, "receive">>] # "done"
        BY <1>b, <2>6 DEF Course, Finished
    <2>5. job[<<t, "receive">>] # "running"
        BY <1>4, <2>1
    <2> QED
        BY <1>c, <1>d, <2>2, <2>3, <2>4, <2>5 DEF JobStates
<1>6. ASSUME Free, NEW t \in Transfer, phase[t] = "open", taken[t] = StreamLen
      PROVE  job[<<t, "receive">>] = "queued"
    <2>1. Receives(t) /\ job[<<t, "receive">>] # "done"
        BY <1>a, <1>6 DEF CanEnd
    <2>2. job[<<t, "receive">>] # "none"
        BY <1>b, <1>6, <2>1 DEF Course, Submitted
    <2>3. received[t] + recvPipe[t] = StreamLen
        BY <1>b, <1>c, <1>6, <2>1 DEF Counts, Balance, Blocked, Free
    <2>4. job[<<t, "receive">>] # "running"
        BY <1>4, <1>c, <2>3
    <2> QED
        BY <1>c, <1>d, <2>1, <2>2, <2>4 DEF JobStates
<1>7. \E j \in Transfer \X Jobs : job[j] = "queued"
    <2>1. CASE ~Free
        <3>1. writing \in Transfer
            BY <2>1 DEF All, Typed, Free
        <3> QED
            BY <1>5, <3>1, <1>d
    <2>2. CASE Free
        <3>1. PICK t \in Transfer : phase[t] # "ended"
            BY DEF AllEnded
        <3>2. phase[t] = "open"
            BY <1>a, <1>c, <2>2, <3>1 DEF CanOpen
        <3>3. CASE taken[t] = StreamLen
            BY <1>6, <1>d, <2>2, <3>2, <3>3
        <3>4. CASE taken[t] # StreamLen
            <4>1. Sends(t)
                BY <1>a, <1>b, <1>c, <2>2, <3>2, <3>4 DEF CanTake, Counts
            <4>2. held[t] = 0
                BY <1>a, <1>c, <2>2, <3>2, <4>1 DEF CanTake
            <4>3. job[<<t, "read">>] \in {"queued", "running"}
                <5>1. job[<<t, "read">>] # "none"
                    BY <1>a, <2>2, <3>2, <4>1, <4>2 DEF CanIssueRead
                <5>2. job[<<t, "read">>] # "done"
                    BY <1>b, <3>2 DEF Course, Finished
                <5> QED
                    BY <1>c, <1>d, <5>1, <5>2 DEF JobStates
            <4>4. CASE job[<<t, "read">>] = "running"
                <5>1. sent[t] = taken[t]
                    BY <1>2, <1>b, <1>c, <4>1, <4>2, <4>4 DEF Counts, Balance
                <5>2. job[<<t, "send">>] \notin {"done", "none"}
                    BY <1>b, <3>2, <3>4, <4>1, <5>1 DEF Course, Finished, Submitted
                <5>3. job[<<t, "send">>] = "queued"
                    BY <1>3, <1>c, <1>d, <4>4, <5>2 DEF JobStates
                <5> QED
                    BY <1>d, <5>3
            <4> QED
                BY <1>d, <4>3, <4>4
        <3> QED
            BY <3>3, <3>4
    <2> QED
        BY <2>1, <2>2
<1>8. queue # <<>>
    BY <1>7 DEF All, Waiting
<1>9. /\ Sending \in SUBSET Transfer /\ Receiving \in SUBSET Transfer
      /\ IsFiniteSet(Sending) /\ IsFiniteSet(Receiving)
      /\ Cardinality(Sending) \in Nat /\ Cardinality(Receiving) \in Nat
    <2>1. Sending \in SUBSET Transfer /\ Receiving \in SUBSET Transfer
        BY DEF Sending, Receiving
    <2> QED
        BY <2>1, FS_Subset, FS_CardinalityType
<1>10. \A t \in Transfer : job[<<t, "receive">>] = "running" => t \in Receiving
    BY <1>b DEF Course, Belongs, Receiving
<1>11. IsFiniteSet(Running) /\ Cardinality(Running) \in Nat
    BY <1>3, <1>9, <1>10, RunningAtMost, FS_CardinalityType
<1>12. Cardinality(Running) >= threads /\ threads \in Nat
    BY <1>8, <1>11 DEF CanStep, CanDispatch, All, Typed
<1>13. Cardinality(Running) >= Cardinality(Sending) + Cardinality(Receiving)
    BY <1>9, <1>11, <1>12 DEF Needed
<1>14. ASSUME NEW t \in Receiving, job[<<t, "receive">>] # "running"
       PROVE  FALSE
    <2>1. /\ IsFiniteSet(Receiving \ {t})
          /\ Cardinality(Receiving \ {t}) = Cardinality(Receiving) - 1
        BY <1>9, FS_RemoveElement
    <2>2. Receiving \ {t} \in SUBSET Transfer
        BY <1>9
    <2>3. \A u \in Transfer : job[<<u, "receive">>] = "running" => u \in Receiving \ {t}
        BY <1>10, <1>14
    <2>4. Cardinality(Running) <= Cardinality(Sending) + Cardinality(Receiving \ {t})
        BY <1>3, <2>2, <2>3, RunningAtMost
    <2> QED
        BY <1>9, <1>11, <1>13, <2>1, <2>4
<1>15. Free
    BY <1>5, <1>14 DEF All, Typed, Free, Receiving
<1>16. Receiving \subseteq Sending
    <2> SUFFICES ASSUME NEW t \in Receiving, t \notin Sending PROVE FALSE
        OBVIOUS
    <2>1. t \in Transfer /\ Receives(t) /\ ~Sends(t)
        BY DEF Receiving, Sending
    <2>2. job[<<t, "receive">>] = "running"
        BY <1>14
    <2>3. received[t] = taken[t] /\ taken[t] # StreamLen
        BY <1>4, <1>b, <1>c, <1>15, <2>1, <2>2 DEF Counts, Balance, Blocked, Free
    <2>4. phase[t] = "open"
        BY <1>b, <1>c, <2>1, <2>2 DEF Course, Submitted, Finished
    <2> QED
        BY <1>a, <1>b, <1>c, <1>15, <2>1, <2>3, <2>4 DEF CanTake, Counts
<1>17. Sending # {}
    <2>1. PICK t \in Transfer : phase[t] # "ended"
        BY DEF AllEnded
    <2>2. t \in Sending \/ t \in Receiving
        BY <1>c DEF Sending, Receiving, Sends, Receives, Kinds
    <2> QED
        BY <1>16, <2>2
<1>18. Needed = Cardinality(Sending) + Cardinality(Receiving) + 1
    BY <1>16, <1>17 DEF Needed
<1>19. Cardinality(Running) <= Cardinality(Sending) + Cardinality(Receiving)
    BY <1>3, <1>9, <1>10, RunningAtMost
<1> QED
    BY <1>9, <1>11, <1>12, <1>18, <1>19

(* With a thread for each lzc_send and lzc_receive, and one for the reads   *)
(* if no thread is sure to come free, sends and receives of one process     *)
(* never block each other for good.                                         *)
THEOREM NoDeadlock == Spec => []NeverStuck
<1>1. Spec => []All
    BY Start, Step, PTL DEF Spec
<1> QED
    BY <1>1, Unstuck, PTL
=============================================================================
