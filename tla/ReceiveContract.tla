------------------------- MODULE ReceiveContract -------------------------
(***************************************************************************)
(* What ZfsProtocol.receive promises its caller, whatever interpreter runs  *)
(* it: the caller feeds a replication stream, the kernel applies it to the  *)
(* target dataset, and the call ends with one verdict.                      *)
(*                                                                         *)
(* NativeReceive is shown to implement this specification.                  *)
(***************************************************************************)
EXTENDS Naturals

CONSTANTS StreamLen,   \* units of the complete stream, its end record included
          MaxChunk     \* units in the largest chunk of the caller's stream

VARIABLES
    dryRun,   \* the caller asked only for a check (zfs receive -n)
    fed,      \* units taken from the caller's stream
    applied,  \* the kernel received the whole stream into the target
    verdict   \* "open" until the call ends, then "ok" or "failed"

vars == <<dryRun, fed, applied, verdict>>

Init ==
    /\ dryRun \in BOOLEAN
    /\ fed = 0
    /\ applied = FALSE
    /\ verdict = "open"

Takes(n) ==
    /\ fed + n <= StreamLen
    /\ fed' = fed + n

(* The call takes another chunk of the stream.                             *)
Feed ==
    /\ verdict = "open"
    /\ \E n \in 1 .. MaxChunk : Takes(n)
    /\ UNCHANGED <<dryRun, applied, verdict>>

(* Only a complete stream is applied, never a prefix of one, and never on  *)
(* behalf of a dry run.  It may still be applied after a failed verdict:   *)
(* a call that was abandoned does not stop the kernel.                     *)
Apply ==
    /\ ~dryRun
    /\ fed = StreamLen
    /\ ~applied
    /\ verdict # "ok"
    /\ applied' = TRUE
    /\ UNCHANGED <<dryRun, fed, verdict>>

(* Success is reported only of a stream that was applied.                  *)
Succeed ==
    /\ verdict = "open"
    /\ dryRun \/ applied
    /\ verdict' = "ok"
    /\ UNCHANGED <<dryRun, fed, applied>>

(* A call may fail at any time, on the chunk it has just taken or on none. *)
Fail ==
    /\ verdict = "open"
    /\ verdict' = "failed"
    /\ \E n \in 0 .. MaxChunk : Takes(n)
    /\ UNCHANGED <<dryRun, applied>>

Next == Feed \/ Apply \/ Succeed \/ Fail

Spec == Init /\ [][Next]_vars
=============================================================================
