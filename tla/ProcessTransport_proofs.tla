--------------------- MODULE ProcessTransport_proofs ---------------------
(***************************************************************************)
(* Theorems about ProcessTransport and their proofs: type correctness, that *)
(* a verdict is about everything, and the implementation of the contracts   *)
(* of send and receive.                                                     *)
(***************************************************************************)
EXTENDS ProcessTransport, TLAPS

(* A unit the pump holds has been pulled and not been accepted: without     *)
(* this the types are not inductive.                                       *)
Pumping == pump = "write" => accepted < fed

(* Which mode feeds the child, and when its input is used up.              *)
Feeds ==
    /\ mode = "runWithInput" <=> pump # "off"
    /\ pump = "done" => fed = InLen

(* What an exit code says of the child.                                    *)
Exited ==
    /\ code = "none" <=> child # "exited"
    /\ code = "zero" =>
           /\ wroteOut = OutLen
           /\ mode = "runWithInput" => childRead = InLen
    /\ code = "killed" => ~Open /\ outcome \notin {"ok", "command"}

(* What the fibers of the call have seen is final: a child that is gone    *)
(* writes nothing any more.                                                *)
Seen ==
    /\ outEof => child = "exited" /\ readOut = wroteOut
    /\ errEof => child = "exited" /\ readErr = wroteErr
    /\ exitSeen => child = "exited"

(* A verdict waits for all of them.                                        *)
Judged ==
    outcome \in {"ok", "command"} =>
        outEof /\ errEof /\ exitSeen /\ pump \in {"off", "done"}

Inv == Feeds /\ Exited /\ Seen /\ Judged /\ VerdictIsComplete

-----------------------------------------------------------------------------
(* Type correctness                                                        *)

LEMMA TypeStep == TypeOK /\ Pumping /\ [Next]_vars => TypeOK' /\ Pumping'
<1> SUFFICES ASSUME TypeOK, Pumping, [Next]_vars PROVE TypeOK' /\ Pumping'
    OBVIOUS
<1> USE ConstantsAssumption DEF TypeOK, Pumping, childVars, pumpVars, drainVars,
        Open, Live
<1>1. CASE Spawn \/ Finish \/ CloseScope \/ Interrupt
    BY <1>1 DEF Spawn, Finish, CloseScope, Interrupt
<1>2. CASE DrainOut \/ DrainErr
    BY <1>2 DEF DrainOut, DrainErr
<1>8. CASE OutEnds \/ ErrEnds \/ SeeExit
    BY <1>8 DEF OutEnds, ErrEnds, SeeExit
<1>9. CASE DrainFails \/ StderrBreaks \/ JoinBroken
    BY <1>9 DEF DrainFails, StderrBreaks, JoinBroken
<1>3. CASE PullInput \/ WriteStdin
    BY <1>3 DEF PullInput, WriteStdin
<1>4. CASE BrokenPipe \/ InputEnds \/ InputFails
    BY <1>4 DEF BrokenPipe, InputEnds, InputFails
<1>5. CASE ChildReads \/ ChildWritesOut \/ ChildWritesErr
    BY <1>5 DEF ChildReads, ChildWritesOut, ChildWritesErr
<1>6. CASE ChildSucceeds \/ ChildFails
    BY <1>6 DEF ChildSucceeds, ChildFails
<1>7. CASE UNCHANGED vars
    BY <1>7 DEF vars
<1> QED
    BY <1>1, <1>2, <1>3, <1>4, <1>5, <1>6, <1>7, <1>8, <1>9 DEF Next

LEMMA TypeInvariant == Spec => [](TypeOK /\ Pumping)
<1>1. Init => TypeOK /\ Pumping
    <2> SUFFICES ASSUME Init PROVE TypeOK /\ Pumping
        OBVIOUS
    <2>1. \A n \in Nat : 0 \in 0 .. n
        OBVIOUS
    <2>2. pump \in {"off", "pull"}
        BY DEF Init
    <2> QED
        BY <2>1, <2>2, ConstantsAssumption DEF Init, TypeOK, Pumping
<1> QED
    BY <1>1, TypeStep, PTL DEF Spec

(* Every variable stays in its type: stdin accepts no more than was pulled, *)
(* the child reads no more than that, and no pipe yields what was not       *)
(* written.                                                                *)
THEOREM TypeCorrect == Spec => []TypeOK
<1>1. TypeOK /\ Pumping => TypeOK
    OBVIOUS
<1> QED
    BY <1>1, TypeInvariant, PTL

-----------------------------------------------------------------------------
(* Verdicts                                                                *)

LEMMA InvStep == TypeOK /\ Inv /\ [Next]_vars => Inv'
<1> SUFFICES ASSUME TypeOK, Inv, [Next]_vars PROVE Inv'
    OBVIOUS
<1> USE DEF Inv, Feeds, Exited, Seen, Judged, VerdictIsComplete, childVars,
        pumpVars, drainVars, Open, Live
<1>1. CASE Spawn \/ CloseScope \/ Interrupt
    BY <1>1 DEF Spawn, CloseScope, Interrupt, TypeOK
<1>2. CASE Finish
    <2>1. /\ outcome' = IF code = "zero" THEN "ok" ELSE "command"
          /\ outEof /\ errEof /\ exitSeen /\ pump \in {"off", "done"}
          /\ Open /\ UNCHANGED <<mode, childVars, pumpVars, drainVars>>
        BY <1>2 DEF Finish
    <2>2. child = "exited" /\ readOut = wroteOut /\ readErr = wroteErr
        BY <2>1
    <2>3. code \in {"zero", "nonzero"}
        BY <2>1, <2>2 DEF TypeOK
    <2>4. VerdictIsComplete'
        BY <2>1, <2>2, <2>3
    <2> QED
        BY <2>1, <2>2, <2>3, <2>4
<1>3. CASE DrainOut \/ OutEnds \/ DrainErr \/ ErrEnds \/ SeeExit
    BY <1>3 DEF DrainOut, OutEnds, DrainErr, ErrEnds, SeeExit, TypeOK
<1>8. CASE DrainFails \/ StderrBreaks \/ JoinBroken
    BY <1>8 DEF DrainFails, StderrBreaks, JoinBroken, TypeOK
<1>4. CASE PullInput \/ WriteStdin \/ BrokenPipe \/ InputEnds \/ InputFails
    BY <1>4 DEF PullInput, WriteStdin, BrokenPipe, InputEnds, InputFails
<1>5. CASE ChildReads \/ ChildWritesOut \/ ChildWritesErr
    BY <1>5 DEF ChildReads, ChildWritesOut, ChildWritesErr
<1>6. CASE ChildSucceeds \/ ChildFails
    BY <1>6 DEF ChildSucceeds, ChildFails
<1>7. CASE UNCHANGED vars
    BY <1>7 DEF vars
<1> QED
    BY <1>1, <1>2, <1>3, <1>4, <1>5, <1>6, <1>7, <1>8 DEF Next

LEMMA InvInvariant == Spec => []Inv
<1>1. Init => Inv
    BY DEF Init, Inv, Feeds, Exited, Seen, Judged, VerdictIsComplete, Open
<1> QED
    BY <1>1, TypeInvariant, InvStep, PTL DEF Spec

(* A successful call has the whole output of a child that took all of the   *)
(* input, and the text a failure is classified by is never cut short.       *)
THEOREM Verdicts == Spec => []VerdictIsComplete
<1>1. Inv => VerdictIsComplete
    BY DEF Inv
<1> QED
    BY <1>1, InvInvariant, PTL

-----------------------------------------------------------------------------
(* The contracts                                                           *)

(* A call stays what it is.                                                *)
LEMMA SameMode == [Next]_vars => mode' = mode
<1> SUFFICES ASSUME [Next]_vars PROVE mode' = mode
    OBVIOUS
<1>1. CASE \/ Spawn \/ Finish \/ CloseScope \/ Interrupt \/ DrainOut \/ OutEnds
           \/ DrainErr \/ ErrEnds \/ SeeExit \/ DrainFails \/ StderrBreaks
           \/ JoinBroken
    BY <1>1 DEF Spawn, Finish, CloseScope, Interrupt, DrainOut, OutEnds, DrainErr,
        ErrEnds, SeeExit, DrainFails, StderrBreaks, JoinBroken
<1>2. CASE \/ PullInput \/ WriteStdin \/ BrokenPipe \/ InputEnds \/ InputFails
           \/ ChildReads \/ ChildWritesOut \/ ChildWritesErr \/ ChildSucceeds
           \/ ChildFails \/ UNCHANGED vars
    BY <1>2 DEF PullInput, WriteStdin, BrokenPipe, InputEnds, InputFails,
        ChildReads, ChildWritesOut, ChildWritesErr, ChildSucceeds, ChildFails, vars
<1> QED
    BY <1>1, <1>2 DEF Next

(* Every step of a stream is one the contract of send allows, or changes    *)
(* nothing it speaks of.                                                   *)
LEMMA SendingStep == TypeOK /\ Inv /\ [Next]_vars => [Sending!Next]_(Sending!vars)
<1> SUFFICES ASSUME TypeOK, Inv, [Next]_vars PROVE [Sending!Next]_(Sending!vars)
    OBVIOUS
<1>m. mode' = mode
    BY SameMode
<1>o. CASE mode # "stream"
    BY <1>m, <1>o DEF Sending!vars, Streaming
<1>s. CASE mode = "stream"
    <2> SUFFICES \/ Sending!Next
                 \/ UNCHANGED <<wroteOut, readOut, SendVerdict>>
        BY <1>m, <1>s DEF Sending!vars, Streaming
    <2> USE <1>m, <1>s DEF Streaming, SendVerdict, childVars, drainVars, Open, Live
    <2>1. ASSUME outcome = "none", outcome' \in {"command", "transport", "upstream", "stopped"},
                 UNCHANGED <<wroteOut, readOut>>
          PROVE  Sending!Next
        BY <2>1 DEF Sending!Next, Sending!Break
    <2>2. CASE Spawn
        BY <2>1, <2>2 DEF Spawn
    <2>3. CASE Finish
        <3>1. CASE code = "zero"
            BY <2>3, <3>1 DEF Finish, Inv, Seen, Exited, Sending!Next, Sending!Complete
        <3>2. CASE code # "zero"
            BY <2>1, <2>3, <3>2 DEF Finish
        <3> QED
            BY <3>1, <3>2
    <2>4. CASE DrainFails \/ JoinBroken \/ BrokenPipe \/ InputFails \/ Interrupt
        BY <2>1, <2>4 DEF DrainFails, JoinBroken, BrokenPipe, InputFails, Interrupt
    <2>5. CASE DrainOut
        BY <2>5, ConstantsAssumption DEF DrainOut, TypeOK, Sending!Next, Sending!Deliver
    <2>6. CASE ChildWritesOut
        BY <2>6 DEF ChildWritesOut, Inv, Judged, Seen, Sending!Next, Sending!Write
    <2>7. CASE \/ CloseScope \/ OutEnds \/ DrainErr \/ ErrEnds \/ SeeExit \/ PullInput
               \/ WriteStdin \/ InputEnds \/ ChildReads \/ ChildWritesErr
               \/ ChildSucceeds \/ ChildFails \/ StderrBreaks \/ UNCHANGED vars
        BY <2>7 DEF StderrBreaks, CloseScope, OutEnds, DrainErr, ErrEnds, SeeExit, PullInput,
            WriteStdin, InputEnds, ChildReads, ChildWritesErr, ChildSucceeds,
            ChildFails, vars
    <2> QED
        BY <2>2, <2>3, <2>4, <2>5, <2>6, <2>7 DEF Next
<1> QED
    BY <1>o, <1>s

(* So is every step of a call with input for the contract of receive: what  *)
(* the child has applied when it succeeds is all of the caller's stream.    *)
LEMMA ReceivingStep ==
    TypeOK /\ Inv /\ [Next]_vars => [Receiving!Next]_(Receiving!vars)
<1> SUFFICES ASSUME TypeOK, Inv, [Next]_vars
             PROVE  [Receiving!Next]_(Receiving!vars)
    OBVIOUS
<1>m. mode' = mode
    BY SameMode
<1>o. CASE mode # "runWithInput"
    BY <1>m, <1>o DEF Receiving!vars, Feeding
<1>s. CASE mode = "runWithInput"
    <2> SUFFICES \/ Receiving!Next
                 \/ /\ UNCHANGED <<fed, ReceiveVerdict>>
                    /\ (code' = "zero") = (code = "zero")
        BY <1>m, <1>s DEF Receiving!vars, Feeding
    <2> USE <1>m, <1>s DEF Feeding, ReceiveVerdict, childVars, pumpVars, drainVars,
            Open, Live
    <2>n. fed \in Nat /\ InLen \in Nat /\ fed <= InLen
        BY ConstantsAssumption DEF TypeOK
    <2>1. ASSUME outcome = "none", outcome' \in {"command", "transport", "upstream", "stopped"},
                 UNCHANGED <<fed, code>>
          PROVE  Receiving!Next
        <3>1. 0 \in 0 .. 1 /\ fed' = fed + 0 /\ fed + 0 <= InLen
            BY <2>n, <2>1
        <3> QED
            BY <2>1, <3>1 DEF Receiving!Next, Receiving!Fail, Receiving!Takes
    <2>2. CASE Spawn
        BY <2>1, <2>2 DEF Spawn
    <2>3. CASE Finish
        <3>1. CASE code = "zero"
            BY <2>3, <3>1 DEF Finish, Receiving!Next, Receiving!Succeed
        <3>2. CASE code # "zero"
            BY <2>1, <2>3, <3>2 DEF Finish
        <3> QED
            BY <3>1, <3>2
    <2>4. CASE DrainFails \/ JoinBroken \/ BrokenPipe \/ InputFails \/ Interrupt
        BY <2>1, <2>4 DEF DrainFails, JoinBroken, BrokenPipe, InputFails, Interrupt
    <2>5. CASE PullInput
        <3>1. 1 \in 1 .. 1 /\ fed' = fed + 1 /\ fed + 1 <= InLen
            BY <2>n, <2>5 DEF PullInput
        <3> QED
            BY <2>5, <3>1 DEF PullInput, Receiving!Next, Receiving!Feed, Receiving!Takes
    <2>6. CASE ChildSucceeds
        <3>1. childRead = InLen /\ child = "running" /\ code' = "zero"
              /\ UNCHANGED <<fed, outcome>>
            BY <2>6 DEF ChildSucceeds
        <3>2. fed = InLen
            BY <2>n, <3>1, ConstantsAssumption DEF TypeOK
        <3>3. code # "zero" /\ outcome # "ok"
            BY <3>1 DEF Inv, Exited, Judged, Seen
        <3> QED
            BY <3>1, <3>2, <3>3 DEF Receiving!Next, Receiving!Apply
    <2>7. CASE CloseScope \/ ChildFails
        BY <2>7 DEF CloseScope, ChildFails, Inv, Exited
    <2>8. CASE \/ DrainOut \/ OutEnds \/ DrainErr \/ ErrEnds \/ SeeExit \/ WriteStdin
               \/ InputEnds \/ ChildReads \/ ChildWritesOut \/ ChildWritesErr
               \/ StderrBreaks \/ UNCHANGED vars
        BY <2>8 DEF StderrBreaks, DrainOut, OutEnds, DrainErr, ErrEnds, SeeExit, WriteStdin,
            InputEnds, ChildReads, ChildWritesOut, ChildWritesErr, vars
    <2> QED
        BY <2>2, <2>3, <2>4, <2>5, <2>6, <2>7, <2>8 DEF Next
<1> QED
    BY <1>o, <1>s

(* The transport keeps what ZfsProtocol.send and receive promise their      *)
(* callers, whatever the child, its pipes and the caller's stream do.       *)
THEOREM Implements == Spec => ImplementsContracts
<1>1. Init => Sending!Init
    BY DEF Init, Sending!Init, Streaming, SendVerdict
<1>2. Init => Receiving!Init
    BY DEF Init, Receiving!Init, Feeding, ReceiveVerdict
<1> QED
    BY <1>1, <1>2, TypeInvariant, InvInvariant, SendingStep, ReceivingStep, PTL
       DEF Spec, ImplementsContracts, Sending!Spec, Receiving!Spec
=============================================================================
