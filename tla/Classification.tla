-------------------------- MODULE Classification --------------------------
(***************************************************************************)
(* One failure of an operation, on its way to the caller through both       *)
(* interpreters: the tool prints the failure on stderr and the CLI adapter  *)
(* recognises phrases of it, libzfs returns a code and the native layer     *)
(* looks it up.  errors/classify.ts; native/bindings.ts and libzfs.ts.      *)
(*                                                                         *)
(* stderr is the set of phrases it contains: one for the cause, and maybe   *)
(* one for what was attempted ("cannot mount 'tank/a': ...").  A phrase is  *)
(* one alternative of the classifier's regular expressions.                 *)
(***************************************************************************)
EXTENDS Operations, Naturals, Sequences

CONSTANTS
    Attempts    \* phrases that only say what was attempted

VARIABLES
    op,         \* the operation that failed
    cause,      \* the libzfs code of what went wrong
    stderr,     \* the phrases the tool printed
    errno,      \* what an lzc call returned for it; "none": libzfs gave the code
    pc,         \* each interpreter: "failed", "candidate", "done"
    candidate,  \* the code each interpreter has recognised, or "none"
    verdict     \* the tag each interpreter fails with

vars == <<op, cause, stderr, errno, pc, candidate, verdict>>

(* classifyKnown: the codes and their phrases, in the order they are tried. *)
AccessPatterns == <<
    <<"PERM", {"permission denied", "operation not permitted",
               "unable to open /dev/zfs"}>>,
    <<"NODELEGATION", {"delegated administration is disabled"}>>,
    <<"BADPERMSET", {"invalid permission set"}>>,
    <<"BADWHO", {"invalid permission who", "invalid user/group",
                 "invalid user ", "invalid group "}>>,
    <<"BADPERM", {"invalid permission"}>>,
    <<"NOSPC", {"out of space", "no space left"}>>,
    <<"BADPROP", {"invalid property", "bad property", "unknown property"}>>,
    <<"PROPREADONLY", {"read-only property", "is readonly"}>>,
    <<"PROPTYPE", {"property does not apply", "property not applicable",
                   "does not apply to datasets"}>>,
    <<"PROPNONINHERIT", {"property cannot be inherited", "not inheritable"}>>,
    <<"RESILVERING", {"currently resilvering", "cannot restart resilver"}>>,
    <<"BUSY", {"dataset busy", "pool busy", "currently being scrubbed",
               "already in progress", "being held"}>>,
    <<"REFTAG_HOLD", {"tag already exists"}>>,
    <<"REFTAG_RELE", {"no such tag", "tag not found"}>>,
    <<"TAGTOOLONG", {"tag is too long", "tag too long"}>> >>

DevicePatterns == <<
    <<"EXISTS", {"already exists", "dataset exists", "pool exists",
                 "part of active pool", "part of an exported pool"}>>,
    <<"NODEVICE", {"no such device"}>>,
    <<"BADTARGET", {"can only attach", "can only detach", "invalid attach",
                    "invalid replace", "bad attach"}>>,
    <<"NOREPLICAS", {"no valid replicas"}>>,
    <<"DEVOVERFLOW", {"too many devices"}>>,
    <<"INVALCONFIG", {"invalid vdev configuration"}>>,
    <<"ISSPARE", {"is a hot spare", "is a spare"}>>,
    <<"ISL2CACHE", {"is a cache device"}>>,
    <<"VDEVNOTSUP", {"unsupported vdev"}>>,
    <<"BADDEV", {"invalid device to add", "invalid vdev specification"}>>,
    <<"POSTSPLIT_ONLINE", {"after splitting"}>> >>

ObjectPatterns == <<
    <<"NOENT", {"does not exist", "no such pool", "no such dataset",
                "cannot open: no such"}>>,
    <<"BADSTREAM", {"invalid backup stream", "bad stream"}>>,
    <<"VOLTOOBIG", {"volume too large", "exceeds limit"}>>,
    <<"INVALIDNAME", {"invalid name"}>>,
    <<"BADRESTORE", {"unable to restore", "cannot receive"}>>,
    <<"CROSSTARGET", {"crosses datasets", "different pool", "cross pool"}>>,
    <<"POOLUNAVAIL", {"pool is unavailable", "pool unavailable"}>>,
    <<"CRYPTOFAILED", {"incorrect key", "encryption failure",
                       "failed to setup encryption", "key load error",
                       "could not load key", "wrapping key",
                       "encryption currently not supported", "crypto failed"}>>,
    <<"BADPATH", {"must be an absolute path", "not an absolute path"}>> >>

StatePatterns == <<
    <<"ACTIVE_POOL", {"imported on another system",
                      "imported on a different system",
                      "active on another system"}>>,
    <<"CHECKPOINT_EXISTS", {"checkpoint exists", "already has a checkpoint"}>>,
    <<"DISCARDING_CHECKPOINT", {"discarding a checkpoint"}>>,
    <<"NO_CHECKPOINT", {"does not have a checkpoint", "no checkpoint"}>>,
    <<"MOUNTFAILED", {"cannot mount", "failed to mount", "already mounted"}>>,
    <<"UMOUNTFAILED", {"cannot unmount", "failed to unmount",
                       "not currently mounted"}>>,
    <<"SHAREFAILED", {"cannot share", "failed to share", "cannot unshare",
                      "failed to unshare"}>> >>

Patterns == AccessPatterns \o DevicePatterns \o ObjectPatterns \o StatePatterns

(* A text that contains the first phrase contains the second.              *)
Within == [p \in {"invalid permission set", "invalid permission who"} |->
             "invalid permission"]
          @@ "tag already exists" :> "already exists"

Places    == 1 .. Len(Patterns)
Reads(t)  == t \cup {Within[p] : p \in t \cap DOMAIN Within}
Phrases   == UNION {Patterns[i][2] : i \in Places}
Phrased   == {Patterns[i][1] : i \in Places}
Place(p)  == CHOOSE i \in Places : p \in Patterns[i][2]
CodeOf(p) == Patterns[Place(p)][1]

(* unixToCode: the code a bare errno is taken for.                         *)
unixToCode == "EPERM" :> "PERM" @@ "EACCES" :> "PERM" @@ "ENOENT" :> "NOENT"
           @@ "EBUSY" :> "BUSY" @@ "EEXIST" :> "EXISTS"
           @@ "EINVAL" :> "INVALIDNAME" @@ "ENOSPC" :> "NOSPC"

(* What an lzc call may return: the errno of the cause if it has one of its *)
(* own, EINVAL or another one otherwise.                                    *)
ErrnosFor(code) == LET own == {e \in DOMAIN unixToCode : unixToCode[e] = code}
                   IN  IF own # {} THEN own ELSE {"EINVAL", "EIO"}

(* What the order of the table is for: a phrase says one thing, and the     *)
(* longer of two phrases is tried first.                                    *)
ASSUME TablesAssumption ==
    /\ Patterns \in Seq(Codes \X SUBSET STRING)
    /\ \A i, j \in Places : Patterns[i][2] \cap Patterns[j][2] # {} => i = j
    /\ \A p \in DOMAIN Within :
          p \in Phrases /\ Within[p] \in Phrases /\ Place(p) < Place(Within[p])
    /\ Attempts \subseteq Phrases
    /\ \A e \in DOMAIN unixToCode : unixToCode[e] \in Codes
    /\ "EIO" \notin DOMAIN unixToCode
    /\ "other" \notin Codes /\ "none" \notin Codes

-----------------------------------------------------------------------------
Init ==
    /\ op \in ProtocolOperations
    /\ \/ \E p \in Phrases, tried \in {{}} \cup {{a} : a \in Attempts} :
            cause = CodeOf(p) /\ stderr = Reads({p} \cup tried)
       \/ cause \in (Codes \cup {"other"}) \ Phrased /\ stderr = {}
    /\ errno \in {"none"} \cup ErrnosFor(cause)
    /\ pc        = [by \in {"cli", "native"} |-> "failed"]
    /\ candidate = [by \in {"cli", "native"} |-> "none"]
    /\ verdict   = [by \in {"cli", "native"} |-> "none"]

(* MUTANT of classifyKnown: the last pattern wins.                         *)
classifyKnownLast(text) ==
    LET hits == {i \in Places : Patterns[i][2] \cap text # {}}
    IN  IF hits = {} THEN "none"
        ELSE Patterns[CHOOSE i \in hits : \A j \in hits : j <= i][1]

(* classifyKnown: the first pattern that the text matches.                 *)
classifyKnown(text) ==
    LET hits == {i \in Places : Patterns[i][2] \cap text # {}}
    IN  IF hits = {} THEN "none"
        ELSE Patterns[CHOOSE i \in hits : \A j \in hits : i <= j][1]

(* codeOf and knownError: every code of the contract has its class.        *)
codeOf == IF errno = "none" THEN cause
          ELSE IF errno \in DOMAIN unixToCode THEN unixToCode[errno] ELSE "none"

knownError(code) == IF code \in Codes THEN code ELSE "none"

Recognise(by, code) ==
    /\ pc[by] = "failed"
    /\ candidate' = [candidate EXCEPT ![by] = code]
    /\ pc' = [pc EXCEPT ![by] = "candidate"]
    /\ UNCHANGED <<op, cause, stderr, errno, verdict>>

RecogniseCli    == Recognise("cli", classifyKnown(stderr))
RecogniseNative == Recognise("native", knownError(codeOf))

(* MUTANT of Declared: the operation is not looked at.                     *)
DeclaredAnywhere(code) == \E o \in ProtocolOperations :
                             errorCodeToTag[code] \in OperationErrorTags[o]

(* classifyCliError, classifyNativeError: what was recognised is reported   *)
(* if the operation declares it.                                            *)
Declared(code) == errorCodeToTag[code] \in OperationErrorTags[op]

Report(by) ==
    /\ pc[by] = "candidate"
    /\ verdict' = [verdict EXCEPT ![by] =
           IF candidate[by] # "none" /\ Declared(candidate[by])
           THEN errorCodeToTag[candidate[by]] ELSE "UnknownZfsError"]
    /\ pc' = [pc EXCEPT ![by] = "done"]
    /\ UNCHANGED <<op, cause, stderr, errno, candidate>>

Stop == \A by \in {"cli", "native"} : pc[by] = "done" /\ UNCHANGED vars

Next == \/ RecogniseCli \/ RecogniseNative
        \/ \E by \in {"cli", "native"} : Report(by)
        \/ Stop

Spec == Init /\ [][Next]_vars

-----------------------------------------------------------------------------
Done == \A by \in {"cli", "native"} : pc[by] = "done"

(* The native failure names its cause: always from libzfs, and from an lzc  *)
(* call for six causes.                                                     *)
CauseReported == codeOf = cause

(* A failure has one tag, whichever interpreter ran the operation, as long  *)
(* as the native call names the cause: of two phrases of which one contains *)
(* the other the longer is tried first, the table of the native layer       *)
(* agrees with the classifier's, and both ask the same declaration.  The    *)
(* tags differ only where the tool also printed what was attempted and the  *)
(* phrase for that is tried before every phrase of the cause; even then an  *)
(* unrecognised failure is not turned into another operation's error.  The  *)
(* three codes without a phrase are the exception.                          *)
SameTag ==
    Done /\ CauseReported /\ verdict["cli"] # verdict["native"] /\ cause \in Phrased =>
        \E a \in stderr \cap Attempts, i \in Places :
            /\ Patterns[i][1] = cause /\ Place(a) < i
            /\ verdict["cli"] \in {errorCodeToTag[CodeOf(a)], "UnknownZfsError"}

(* No caller is handed a tag that the operation's type does not list, and a *)
(* failure nobody recognises stays UnknownZfsError on both sides; the       *)
(* exception is EINVAL, which lzc returns for much that is no name and the  *)
(* native layer reports as InvalidName.                                     *)
OnlyDeclaredTags ==
    \A by \in {"cli", "native"} : pc[by] = "done" =>
        /\ verdict[by] \in OperationError(op)
        /\ cause = "other" /\ errno # "EINVAL" => verdict[by] = "UnknownZfsError"
=============================================================================
