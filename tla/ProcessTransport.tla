------------------------- MODULE ProcessTransport -------------------------
(***************************************************************************)
(* One call of the CLI interpreter's transport: run, runWithInput or stream *)
(* of processLayer in packages/effect-zfs/src/cli/adapter.ts, and what      *)
(* runCommand in cli/execute.ts makes of its result.                        *)
(*                                                                         *)
(* A child process (zfs, zpool) talks over three bounded pipes.  On this    *)
(* side one fiber drains its stdout (in stream mode: the consumer pulls     *)
(* it), one drains its stderr, one waits for its exit code, and in          *)
(* runWithInput one pumps the caller's stream into its stdin.  The first    *)
(* failure fails the call, and the call's scope kills the child.            *)
(***************************************************************************)
EXTENDS Naturals

CONSTANTS
    Modes,     \* of {"run", "runWithInput", "stream"}, those to consider
    InLen,     \* units of the caller's input
    OutLen,    \* units the child writes to stdout when it succeeds
    ErrLen,    \* bound: units the child writes to stderr
    PipeCap,   \* units a pipe holds
    MayFail    \* may the child, the spawner or a pipe fail?

ASSUME ConstantsAssumption ==
    /\ Modes \subseteq {"run", "runWithInput", "stream"}
    /\ InLen \in Nat /\ OutLen \in Nat /\ ErrLen \in Nat /\ PipeCap \in Nat
    /\ MayFail \in BOOLEAN

VARIABLES
    mode,
    child,      \* "none", "running", "exited"
    code,       \* its exit code: zero, non-zero, or killed by a signal
    fed,        \* units pulled from the caller's input
    pump,       \* the fiber that writes them to stdin
    accepted,   \* units stdin has accepted
    childRead,  \* units the child has read
    wroteOut, readOut, outEof,   \* stdout: written, drained, seen to end
    wroteErr, readErr, errEof,   \* stderr
    errBroken,  \* stream mode: the fiber that drains stderr has failed
    exitSeen,   \* the exit code has arrived
    outcome     \* what the caller is told

childVars == <<child, code, childRead, wroteOut, wroteErr>>
pumpVars  == <<fed, pump, accepted>>
drainVars == <<readOut, outEof, readErr, errEof, errBroken, exitSeen>>
vars == <<mode, childVars, pumpVars, drainVars, outcome>>

Init ==
    /\ mode \in Modes
    /\ child = "none" /\ code = "none" /\ childRead = 0
    /\ fed = 0 /\ accepted = 0
    /\ pump = IF mode = "runWithInput" THEN "pull" ELSE "off"
    /\ wroteOut = 0 /\ readOut = 0 /\ outEof = FALSE
    /\ wroteErr = 0 /\ readErr = 0 /\ errEof = FALSE /\ errBroken = FALSE
    /\ exitSeen = FALSE
    /\ outcome = "none"

Open == outcome = "none"
Live == Open /\ child # "none"

-----------------------------------------------------------------------------
(* The call                                                                *)

Spawn ==
    /\ Open /\ child = "none"
    /\ \/ child' = "running" /\ UNCHANGED outcome
       \/ MayFail /\ outcome' = "transport" /\ UNCHANGED child
    /\ UNCHANGED <<mode, code, childRead, wroteOut, wroteErr, pumpVars, drainVars>>

DrainOut ==
    /\ Live
    /\ readOut < wroteOut
    /\ readOut' = readOut + 1
    /\ UNCHANGED <<mode, childVars, pumpVars, outEof, readErr, errEof,
                   errBroken, exitSeen, outcome>>

OutEnds ==
    /\ Live /\ ~outEof
    /\ child = "exited" /\ readOut = wroteOut
    /\ outEof' = TRUE
    /\ UNCHANGED <<mode, childVars, pumpVars, readOut, readErr, errEof,
                   errBroken, exitSeen, outcome>>

(* MUTANT of DrainErr: stderr is read after stdout has ended.              *)
DrainErrAfterOut ==
    /\ Live /\ outEof
    /\ readErr < wroteErr
    /\ readErr' = readErr + 1
    /\ UNCHANGED <<mode, childVars, pumpVars, readOut, outEof, errEof,
                   errBroken, exitSeen, outcome>>

DrainErr ==
    /\ Live /\ ~errBroken
    /\ readErr < wroteErr
    /\ readErr' = readErr + 1
    /\ UNCHANGED <<mode, childVars, pumpVars, readOut, outEof, errEof,
                   errBroken, exitSeen, outcome>>

ErrEnds ==
    /\ Live /\ ~errEof /\ ~errBroken
    /\ child = "exited" /\ readErr = wroteErr
    /\ errEof' = TRUE
    /\ UNCHANGED <<mode, childVars, pumpVars, readOut, outEof, readErr,
                   errBroken, exitSeen, outcome>>

SeeExit ==
    /\ Live /\ ~exitSeen
    /\ child = "exited"
    /\ exitSeen' = TRUE
    /\ UNCHANGED <<mode, childVars, pumpVars, readOut, outEof, readErr,
                   errEof, errBroken, outcome>>

(* What is awaited at this moment: everything at once, but in stream mode   *)
(* stdout first and the others, in the completion, after its end.           *)
Awaiting ==
    IF mode = "stream" /\ ~outEof THEN {"stdout"}
    ELSE {fiber \in {"stdout", "stderr", "exit"} :
            ~ CASE fiber = "stdout" -> outEof
                [] fiber = "stderr" -> errEof
                [] fiber = "exit"   -> exitSeen}

(* Reading a pipe or the exit code fails, and the call that awaits it too.  *)
DrainFails ==
    /\ MayFail /\ Live
    /\ Awaiting # {}
    /\ outcome' = "transport"
    /\ UNCHANGED <<mode, childVars, pumpVars, drainVars>>

(* In stream mode the failure of the forked stderr fiber waits to be joined; *)
(* the pipe is closed, and what the child still writes there is lost.       *)
StderrBreaks ==
    /\ MayFail /\ Live
    /\ mode = "stream" /\ ~outEof
    /\ ~errEof /\ ~errBroken
    /\ errBroken' = TRUE
    /\ UNCHANGED <<mode, childVars, pumpVars, readOut, outEof, readErr, errEof,
                   exitSeen, outcome>>

JoinBroken ==
    /\ Live /\ outEof /\ errBroken
    /\ outcome' = "transport"
    /\ UNCHANGED <<mode, childVars, pumpVars, drainVars>>

(* The pump takes the next unit of the caller's input and writes it.       *)
PullInput ==
    /\ Live /\ pump = "pull"
    /\ fed < InLen
    /\ fed' = fed + 1
    /\ pump' = "write"
    /\ UNCHANGED <<mode, childVars, accepted, drainVars, outcome>>

(* MUTANT of WriteStdin: the pump does not wait for the next unit.         *)
WriteStdinAgain ==
    /\ Live /\ pump = "write"
    /\ child = "running"
    /\ accepted - childRead < PipeCap
    /\ accepted' = accepted + 1
    /\ UNCHANGED <<mode, childVars, pump, fed, drainVars, outcome>>

WriteStdin ==
    /\ Live /\ pump = "write"
    /\ child = "running"
    /\ accepted - childRead < PipeCap
    /\ accepted' = accepted + 1
    /\ pump' = "pull"
    /\ UNCHANGED <<mode, childVars, fed, drainVars, outcome>>

(* A child that is gone does not take it: EPIPE fails the call.            *)
BrokenPipe ==
    /\ Live /\ pump = "write"
    /\ child = "exited"
    /\ outcome' = "transport"
    /\ UNCHANGED <<mode, childVars, pumpVars, drainVars>>

(* The input ends and the sink closes stdin; or the input fails, and the   *)
(* call with it, with the caller's own error.                              *)
InputEnds ==
    /\ Live /\ pump = "pull"
    /\ fed = InLen
    /\ pump' = "done"
    /\ UNCHANGED <<mode, childVars, fed, accepted, drainVars, outcome>>

InputFails ==
    /\ Live /\ pump = "pull"
    /\ outcome' = "upstream"
    /\ UNCHANGED <<mode, childVars, pumpVars, drainVars>>

(* MUTANTS of Finish.                                                      *)
FinishAtExit ==
    /\ Live /\ exitSeen
    /\ outcome' = IF code = "zero" THEN "ok" ELSE "command"
    /\ UNCHANGED <<mode, childVars, pumpVars, drainVars>>

FinishIgnoringCode ==
    /\ Live
    /\ outEof /\ errEof /\ exitSeen
    /\ pump \in {"off", "done"}
    /\ outcome' = "ok"
    /\ UNCHANGED <<mode, childVars, pumpVars, drainVars>>

(* All the fibers have their result (in stream mode: stdout has ended and  *)
(* the completion has stderr and the exit code).                           *)
Finish ==
    /\ Live
    /\ outEof /\ errEof /\ exitSeen
    /\ pump \in {"off", "done"}
    /\ outcome' = IF code = "zero" THEN "ok" ELSE "command"
    /\ UNCHANGED <<mode, childVars, pumpVars, drainVars>>

(* The caller is interrupted, or the consumer stops pulling the stream.    *)
Interrupt ==
    /\ Open
    /\ outcome' = "stopped"
    /\ UNCHANGED <<mode, childVars, pumpVars, drainVars>>

(* MUTANT of CloseScope: only a call that was interrupted is scoped.       *)
CloseScopeOnInterrupt ==
    /\ outcome = "stopped" /\ child = "running"
    /\ child' = "exited"
    /\ code' = "killed"
    /\ UNCHANGED <<mode, childRead, wroteOut, wroteErr, pumpVars, drainVars, outcome>>

(* Closing the scope of a call that is over kills its child.               *)
CloseScope ==
    /\ ~Open /\ child = "running"
    /\ child' = "exited"
    /\ code' = "killed"
    /\ UNCHANGED <<mode, childRead, wroteOut, wroteErr, pumpVars, drainVars, outcome>>

-----------------------------------------------------------------------------
(* The child: its reads and writes block on the pipes.                     *)

ChildReads ==
    /\ child = "running"
    /\ childRead < accepted
    /\ childRead' = childRead + 1
    /\ UNCHANGED <<mode, child, code, wroteOut, wroteErr, pumpVars, drainVars, outcome>>

ChildWritesOut ==
    /\ child = "running"
    /\ wroteOut < OutLen /\ wroteOut - readOut < PipeCap
    /\ wroteOut' = wroteOut + 1
    /\ UNCHANGED <<mode, child, code, childRead, wroteErr, pumpVars, drainVars, outcome>>

ChildWritesErr ==
    /\ child = "running"
    /\ wroteErr < ErrLen /\ (errBroken \/ wroteErr - readErr < PipeCap)
    /\ wroteErr' = wroteErr + 1
    /\ UNCHANGED <<mode, child, code, childRead, wroteOut, pumpVars, drainVars, outcome>>

(* It succeeds when it has read its input and written its output, warnings *)
(* on stderr included, and may fail at any earlier point.                  *)
ChildSucceeds ==
    /\ child = "running"
    /\ mode = "runWithInput" => childRead = InLen
    /\ wroteOut = OutLen /\ wroteErr = ErrLen
    /\ child' = "exited" /\ code' = "zero"
    /\ UNCHANGED <<mode, childRead, wroteOut, wroteErr, pumpVars, drainVars, outcome>>

ChildFails ==
    /\ MayFail
    /\ child = "running"
    /\ child' = "exited" /\ code' = "nonzero"
    /\ UNCHANGED <<mode, childRead, wroteOut, wroteErr, pumpVars, drainVars, outcome>>

-----------------------------------------------------------------------------
Drain == DrainOut \/ OutEnds \/ DrainErr \/ ErrEnds \/ SeeExit
Call  == Spawn \/ Finish \/ JoinBroken \/ CloseScope
Pump  == WriteStdin \/ BrokenPipe
Child == ChildReads \/ ChildWritesOut \/ ChildWritesErr \/ ChildSucceeds

Next ==
    \/ Spawn \/ Finish \/ CloseScope \/ Interrupt
    \/ DrainOut \/ OutEnds \/ DrainErr \/ ErrEnds \/ SeeExit
    \/ DrainFails \/ StderrBreaks \/ JoinBroken
    \/ PullInput \/ WriteStdin \/ BrokenPipe \/ InputEnds \/ InputFails
    \/ ChildReads \/ ChildWritesOut \/ ChildWritesErr \/ ChildSucceeds \/ ChildFails

Spec == Init /\ [][Next]_vars

(* The fibers run concurrently and the child makes progress whenever its   *)
(* pipes let it; whether the caller's input ever yields is left open.      *)
Fairness ==
    /\ WF_vars(Drain) /\ WF_vars(Call) /\ WF_vars(Pump) /\ WF_vars(Child)

FairSpec == Spec /\ Fairness

-----------------------------------------------------------------------------
(* Properties                                                              *)

TypeOK ==
    /\ mode \in Modes
    /\ child \in {"none", "running", "exited"}
    /\ code \in {"none", "zero", "nonzero", "killed"}
    /\ fed \in 0 .. InLen
    /\ pump \in {"off", "pull", "write", "done"}
    /\ accepted \in 0 .. fed /\ childRead \in 0 .. accepted
    /\ wroteOut \in 0 .. OutLen /\ readOut \in 0 .. wroteOut
    /\ wroteErr \in 0 .. ErrLen /\ readErr \in 0 .. wroteErr
    /\ outEof \in BOOLEAN /\ errEof \in BOOLEAN
    /\ errBroken \in BOOLEAN /\ exitSeen \in BOOLEAN
    /\ outcome \in {"none", "ok", "command", "transport", "upstream", "stopped"}

(* A verdict is about everything.  A successful call has exit code zero,   *)
(* the whole of stdout and of stderr, and a child that took all of the     *)
(* caller's input; and the error text that the classifier works on is      *)
(* never truncated.                                                        *)
VerdictIsComplete ==
    /\ outcome = "ok" =>
           /\ code = "zero"
           /\ readOut = OutLen /\ readErr = wroteErr
           /\ mode = "runWithInput" => fed = InLen /\ childRead = InLen
    /\ outcome = "command" => code = "nonzero" /\ readErr = wroteErr

(* Every call ends, unless the caller's input yields nothing any more: no  *)
(* order of writes to stdout and stderr, however far beyond what the pipes *)
(* hold, no interplay with stdin and no exit makes child and caller wait   *)
(* for each other.                                                         *)
EndsUnlessInputStalls == <>(outcome # "none") \/ <>[](pump = "pull")

(* No call that is over leaves its child behind.                           *)
NoOrphan == outcome # "none" ~> child # "running"

-----------------------------------------------------------------------------
(* stream implements the contract of send and runWithInput the contract of *)
(* receive; the calls of the other modes stutter in the initial state.     *)

Streaming(e, idle) == IF mode = "stream" THEN e ELSE idle
Feeding(e, idle)   == IF mode = "runWithInput" THEN e ELSE idle

SendVerdict ==
    CASE outcome = "none"    -> "open"
      [] outcome = "ok"      -> "complete"
      [] outcome = "stopped" -> "stopped"
      [] OTHER               -> "failed"

Sending == INSTANCE SendContract
    WITH StreamLen <- OutLen, written <- Streaming(wroteOut, 0),
         got <- Streaming(readOut, 0), verdict <- Streaming(SendVerdict, "open")

ReceiveVerdict ==
    CASE outcome = "none" -> "open"
      [] outcome = "ok"   -> "ok"
      [] OTHER            -> "failed"

Receiving == INSTANCE ReceiveContract
    WITH StreamLen <- InLen, MaxChunk <- 1, dryRun <- FALSE,
         fed <- Feeding(fed, 0), applied <- Feeding(code = "zero", FALSE),
         verdict <- Feeding(ReceiveVerdict, "open")

ImplementsContracts == Sending!Spec /\ Receiving!Spec
=============================================================================
