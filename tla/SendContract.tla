--------------------------- MODULE SendContract ---------------------------
(***************************************************************************)
(* What ZfsProtocol.send promises the consumer of its stream: the units     *)
(* the kernel wrote, in order, and an end that tells a complete stream      *)
(* from a failed one.                                                       *)
(*                                                                         *)
(* NativeSend is shown to implement this specification.                     *)
(***************************************************************************)
EXTENDS Naturals

CONSTANT StreamLen    \* units of the complete stream

VARIABLES
    written,  \* units the kernel has written
    got,      \* units the consumer has received
    verdict   \* "open" until the stream ends: "complete", "failed", "stopped"

vars == <<written, got, verdict>>

Init == written = 0 /\ got = 0 /\ verdict = "open"

(* The kernel writes the next unit.  A consumer that stopped does not stop *)
(* the kernel at once.                                                     *)
Write ==
    /\ written < StreamLen
    /\ verdict # "complete"
    /\ written' = written + 1
    /\ UNCHANGED <<got, verdict>>

Deliver ==
    /\ verdict = "open"
    /\ got < written
    /\ got' = got + 1
    /\ UNCHANGED <<written, verdict>>

(* The stream ends without an error only when the consumer has all of it.  *)
Complete ==
    /\ verdict = "open"
    /\ got = StreamLen
    /\ verdict' = "complete"
    /\ UNCHANGED <<written, got>>

Break ==
    /\ verdict = "open"
    /\ verdict' \in {"failed", "stopped"}
    /\ UNCHANGED <<written, got>>

Next == Write \/ Deliver \/ Complete \/ Break

Spec == Init /\ [][Next]_vars
=============================================================================
