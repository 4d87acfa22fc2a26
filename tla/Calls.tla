------------------------------- MODULE Calls -------------------------------
(***************************************************************************)
(* One call of a protocol operation: the effect is built from its           *)
(* arguments, run, perhaps run again after a failure, and answers.          *)
(* The same machine runs every operation of both interpreters; what differs *)
(* between them is in tables (module Programs): how the handler works       *)
(* through its objects, which options it loses, refuses or asks the version *)
(* of the tools for, what it does already when the effect is built.         *)
(*                                                                         *)
(* The object named in the call is Root; Named are further objects the      *)
(* arguments list, Children are found by recursion or "all", and come and   *)
(* go while the call is under way.  Objects are worked through in their     *)
(* order as numbers.                                                       *)
(***************************************************************************)
EXTENDS Naturals, FiniteSets

CONSTANTS
    Operations,  \* the operations of the protocol
    Options,     \* the options of each: those that decide what is touched
    Lists,       \* operations that are given a list instead of one object
    Lasting,     \* operations that start work the pool goes on with
    Styles,      \* how a domain service makes each call
    Program,     \* the handler of each operation, by interpreter
    Named, Children,
    MaxOptions,  \* bound: options used together
    MaxRuns,     \* bound: runs of one effect
    Early,       \* calls that act when the effect is built
    Short,       \* calls that may report success and leave out objects
    Wide,        \* calls that may touch what was not asked for
    Hasty        \* calls that do not wait although asked to

(* Operations whose command is run again without -j.                       *)
Repeating == {"Pool.Program", "Pool.Status"}

Root == 0

Adders    == {"targets", "names", "snapshots", "parents"}
Wideners  == {"recursive", "all"}
Narrowers == {"devices"}
Parts     == {"range"}      \* a part of the object instead of all of it
Instead   == {"cancel"}     \* the pool's own work instead of the devices
Harmless  == {"dryRun", "noop"}

(* What a domain service adds: it decodes the arguments, makes the call for *)
(* each of several properties, lists the pools, or decodes the answer.      *)
Ways == {"decodes", "repeats", "lists", "reads"}

AllOptions == UNION {Options[op] : op \in Operations}
Hows  == {"once", "call", "each", "names", "goesOn", "silent", "quiet",
          "again", "never"}
Route == [how : Hows, drops : SUBSET AllOptions, may : SUBSET AllOptions,
          refuses : SUBSET AllOptions, needs : SUBSET AllOptions,
          gated : SUBSET AllOptions, lists : {"run", "walk", "build"},
          eager : {"no", "yes", "parents"}]

ASSUME ConstantsAssumption ==
    /\ Named \subseteq Nat \ {Root} /\ Children \subseteq Nat \ {Root}
    /\ Named \cap Children = {}
    /\ MaxOptions \in Nat /\ MaxRuns \in Nat \ {0}
    /\ Lists \subseteq Operations /\ Lasting \subseteq Operations
    /\ Options \in [Operations -> SUBSET AllOptions]
    /\ \A op \in Operations : Styles[op] \subseteq SUBSET Ways
    /\ \A by \in {"cli", "native"} : \A op \in DOMAIN Program[by] :
         /\ op \in Operations
         /\ Program[by][op].yes \in Route /\ Program[by][op].no \in Route

(* A member <<by, op, with>> of Early, Short, Wide or Hasty stands for the   *)
(* calls of one operation of one interpreter that use all options in with.  *)
Among(calls, by, op, options) ==
    \E with \in SUBSET options : <<by, op, with>> \in calls

(* A handler that acts early, loses an option or swallows a failure is in    *)
(* the set for it, with the options that take a call down that way.         *)
Told(by, op, branch) ==
    LET route == Program[by][op][branch]
        taken == IF branch = "yes" THEN {Program[by][op].on} ELSE {}
        lost  == Options[op] \cap (route.drops \cup route.may)
        Every(options, calls) ==
            \A o \in options \cap Options[op] : Among(calls, by, op, taken \cup {o})
    IN  /\ route.eager = "yes" => Among(Early, by, op, taken) /\ Every(Wideners, Short)
        /\ route.eager = "parents" =>
             /\ Every({"parents"}, Early)
             /\ Options[op] \cap Harmless \subseteq route.refuses /\ route.gated = {}
             /\ Options[op] \cap Instead = {}
        /\ Every(lost \cap (Harmless \cup Narrowers \cup Parts \cup Instead), Wide)
        /\ Every((lost \cap (Adders \cup Wideners \cup Narrowers \cup Instead))
                   \ {"parents"}, Short)
        /\ route.how \in {"silent", "quiet"} => Among(Short, by, op, taken)
        /\ route.lists # "run" => Every(Wideners, Short)
        /\ Every(lost \cap {"wait"}, Hasty)
        /\ route.how = "again" => by = "cli" /\ op \in Repeating

(* The exceptions named by the constants are all there are.                 *)
ASSUME TablesAssumption ==
    \A by \in {"cli", "native"} : \A op \in DOMAIN Program[by] :
    \A branch \in {"yes", "no"} : Told(by, op, branch)

VARIABLES
    req,       \* the request
    present,   \* the children there are
    stayed,    \* history: the children there were all the time of the run
    tools,     \* the release of the installed tools
    cached,    \* the release the layer has read, or "none"
    pc,        \* where the call is
    runs,      \* how often the effect has been run
    running,   \* is it being run, or still being built?
    settled,   \* what was decided while it was built
    listed,    \* the children there were when it was built
    used,      \* the options the handler has come down to
    left,      \* the objects still to be worked through
    done,      \* the objects the call has changed or reported
    acted,     \* history: those this run has
    twice,     \* history: those this run has worked on twice
    wrong,     \* has a step failed that the handler goes on after?
    tried,     \* history: has this run asked a library or a tool?
    pending,   \* work the call has started is still going on
    verdict

request == <<req, listed>>
world   == <<present, stayed, tools, pending>>
answer  == <<runs, running, settled, verdict>>
work    == <<used, left, done, acted, twice, wrong, tried>>
vars == <<request, world, cached, pc, answer, work>>

Handler == Program[req.by][req.op]
Chosen  == IF Handler.on \in req.flags THEN Handler.yes ELSE Handler.no
Bare    == "bare" \in req.via
How     == IF "repeats" \in req.via THEN "each" ELSE Chosen.how

(* Are ancestors created while the effect is put together?                 *)
Ancestors == Chosen.eager = "parents" /\ "parents" \in req.flags

(* The objects that a request with these options is about.  Who has lost    *)
(* that only parts of an object were meant does those with the rest of it.  *)
Listing(flags) == \/ req.op \in Lists \/ "repeats" \in req.via
                  \/ flags \cap (Narrowers \cup Parts) # {}
Covered(flags, children) ==
    IF flags \cap Harmless # {} THEN {}
    ELSE IF flags \cap Instead # {} THEN {Root}
    ELSE (IF Listing(flags) THEN {} ELSE {Root})
         \cup (IF \/ Listing(flags)
                  \/ (flags \cap Adders) \cup (req.flags \cap Parts) # {}
               THEN req.given ELSE {})
         \cup (IF flags \cap Wideners # {} THEN children ELSE {})

Objects == {Root} \cup Named \cup Children

Smallest(S) == {i \in S : \A j \in S : i <= j}

-----------------------------------------------------------------------------
(* A request is for an operation of an interpreter, called on the protocol  *)
(* or by a domain service, with a few of its options.                       *)
Init ==
    /\ \E by \in {"cli", "native"} : \E op \in DOMAIN Program[by] :
       \E via \in {{"bare"}} \cup Styles[op], flags \in SUBSET Options[op],
          given \in SUBSET Named :
            /\ Cardinality(flags) <= MaxOptions
            /\ "name" \in Options[op] => flags \cap {"name", "all"} # {}
            /\ req = [by |-> by, via |-> via, op |-> op, flags |-> flags, given |-> given]
            /\ (given # {}) <=> (Listing(flags) \/ flags \cap Adders # {})
    /\ present \in SUBSET Children
    /\ req.flags \cap Wideners = {} => present = {}
    /\ cached \in {"none", "old", "new"} /\ tools \in {"old", "new"}
    /\ cached = "new" => tools = "new"
    /\ req.flags \cap Chosen.gated = {} => cached = "none" /\ tools = "new"
    /\ stayed = present /\ pending = FALSE
    /\ pc = "build" /\ runs = 0 /\ running = FALSE /\ settled = "none"
    /\ listed = {} /\ used = req.flags /\ left = {}
    /\ done = {} /\ acted = {} /\ twice = {}
    /\ wrong = FALSE /\ tried = FALSE /\ verdict = "none"

(* MUTANT of Settle: the answer of a run is kept for the next one.         *)
SettleForGood(v) ==
    /\ pc' = IF running THEN "done" ELSE "built"
    /\ verdict' = IF running THEN v ELSE verdict
    /\ settled' = v
    /\ UNCHANGED <<runs, running>>

(* MUTANT of Settle: the answer is not delivered.                          *)
SettleUnsaid(v) ==
    /\ pc' = IF running THEN "done" ELSE "built"
    /\ settled' = IF running THEN settled ELSE v
    /\ UNCHANGED <<runs, running, verdict>>

(* A decision: the answer of a run, or what a run will answer.             *)
Settle(v) ==
    /\ pc' = IF running THEN "done" ELSE "built"
    /\ verdict' = IF running THEN v ELSE verdict
    /\ settled' = IF running THEN settled ELSE v
    /\ UNCHANGED <<runs, running>>

Refused(route) ==
    \/ req.flags \cap route.refuses # {} \/ ~ route.needs \subseteq req.flags
    \/ route.how = "never"

(* MUTANT of Build: a service calls the handler outside of its effect.      *)
BuildUnwrapped ==
    /\ pc = "build"
    /\ listed' = present
    /\ pc' = IF Chosen.eager = "yes" THEN "check"
             ELSE IF Ancestors THEN "parents" ELSE "built"
    /\ UNCHANGED <<req, world, cached, answer, work>>

(* The caller asks the protocol for the effect.  Most handlers return a     *)
(* description and do nothing; an eager one goes on to its calls, and some  *)
(* read at this point the list they will work through.                      *)
Build ==
    /\ pc = "build"
    /\ listed' = present
    /\ pc' = IF Bare /\ Chosen.eager = "yes" THEN "check"
             ELSE IF Bare /\ Ancestors THEN "parents" ELSE "built"
    /\ UNCHANGED <<req, world, cached, answer, work>>

(* zfs_create_ancestors, called while the effect is put together, works     *)
(* from the top.                                                           *)
CreateParents ==
    /\ pc = "parents"
    /\ IF Refused(Chosen)
       THEN Settle("refused") /\ UNCHANGED <<done, tried>>
       ELSE /\ tried' = TRUE
            /\ \/ /\ done' = done \cup req.given
                  /\ pc' = IF running THEN "check" ELSE "built"
                  /\ UNCHANGED answer
               \/ /\ \E made \in SUBSET req.given :
                        /\ \A i \in made, j \in req.given : j < i => j \in made
                        /\ done' = done \cup made
                  /\ Settle("failed")
    /\ UNCHANGED <<request, world, cached, used, left, acted, twice, wrong>>

(* The effect is run.  A domain service decodes its arguments and builds    *)
(* the protocol's effect only now.                                          *)
Run ==
    /\ pc = "built" /\ runs < MaxRuns
    /\ runs' = runs + 1 /\ running' = TRUE
    /\ stayed' = present /\ tried' = FALSE /\ wrong' = FALSE
    /\ used' = req.flags /\ left' = {} /\ acted' = {} /\ twice' = {}
    /\ listed' = IF Bare THEN listed ELSE present
    /\ \/ /\ verdict' = settled
          /\ pc' = IF settled # "none" THEN "done"
                   ELSE IF ~ Bare /\ Ancestors THEN "parents" ELSE "check"
       \/ "decodes" \in req.via /\ runs = 0 /\ verdict' = "refused" /\ pc' = "done"
    /\ UNCHANGED <<req, present, tools, pending, cached, settled, done>>

(* MUTANT of Check: the options that make a call harmless are not passed on. *)
CheckInEarnest ==
    /\ pc = "check"
    /\ IF Refused(Chosen)
       THEN Settle("refused") /\ UNCHANGED used
       ELSE /\ used' = req.flags \ (Chosen.drops \cup Harmless)
            /\ pc' = IF req.flags \cap Chosen.gated # {} THEN "gate" ELSE "read"
            /\ UNCHANGED answer
    /\ UNCHANGED <<request, world, cached, left, done, acted, twice, wrong, tried>>

(* The handler looks at the options: some it refuses, some it never reads.  *)
Check ==
    /\ pc = "check"
    /\ IF Refused(Chosen)
       THEN Settle("refused") /\ UNCHANGED used
       ELSE /\ \E lost \in {{}, Chosen.may} : used' = req.flags \ (Chosen.drops \cup lost)
            /\ pc' = IF req.flags \cap Chosen.gated # {} THEN "gate" ELSE "read"
            /\ UNCHANGED answer
    /\ UNCHANGED <<request, world, cached, left, done, acted, twice, wrong, tried>>

(* MUTANT of Gate: text that is no version counts as the newest release.    *)
GateTrusts ==
    /\ pc = "gate"
    /\ \/ /\ cached = "none"
          /\ tried' = TRUE
          /\ \/ cached' \in {tools, "new"} /\ UNCHANGED <<pc, answer>>
             \/ Settle("failed") /\ UNCHANGED cached
       \/ /\ cached = "old" /\ Settle("refused") /\ UNCHANGED <<cached, tried>>
       \/ /\ cached = "new" /\ pc' = "read" /\ UNCHANGED <<answer, cached, tried>>
    /\ UNCHANGED <<request, world, used, left, done, acted, twice, wrong>>

(* requireAllPoolsOps: the release is read once and kept by the layer; text *)
(* that is no version counts as release 0.                                  *)
Gate ==
    /\ pc = "gate"
    /\ \/ /\ cached = "none"
          /\ tried' = TRUE
          /\ \/ cached' \in {tools, "old"} /\ UNCHANGED <<pc, answer>>
             \/ Settle("failed") /\ UNCHANGED cached
       \/ /\ cached = "old" /\ Settle("refused") /\ UNCHANGED <<cached, tried>>
       \/ /\ cached = "new" /\ pc' = "read" /\ UNCHANGED <<answer, cached, tried>>
    /\ UNCHANGED <<request, world, used, left, done, acted, twice, wrong>>

Missable == IF Chosen.lists = "run" \/ used \cap Wideners = {} THEN {}
            ELSE {Root} \cup Children

(* The objects the handler will work through, or that one call will.  A     *)
(* dataset cannot be made where its parent is missing: a handler that has   *)
(* lost "parents" fails.  A walk may break off and not tell.               *)
Read ==
    /\ pc = "read"
    /\ tried' = TRUE
    /\ \/ /\ "parents" \in req.flags => "parents" \in used
          /\ \E missed \in SUBSET Missable :
                left' = Covered(used, IF Chosen.lists = "build" THEN listed ELSE present)
                        \ (missed \cup (IF Ancestors THEN req.given ELSE {}))
          /\ pc' = "act" /\ UNCHANGED answer
       \/ Settle("failed") /\ UNCHANGED left
    /\ UNCHANGED <<request, world, cached, used, done, acted, twice, wrong>>

-----------------------------------------------------------------------------
Touch(S) ==
    /\ done' = done \cup S /\ acted' = acted \cup S
    /\ twice' = twice \cup (S \cap acted)

(* All calls made: the work may go on in the background.                    *)
Through ==
    /\ pc' = "after" /\ left' = {}
    /\ pending' = (req.op \in Lasting /\ used \cap (Harmless \cup Instead) = {})
    /\ UNCHANGED <<answer, stayed, present, tools>>

(* MUTANT of ActOnce: a failure is reported as an operation there is not.    *)
ActOnceUnsupported ==
    /\ pc = "act" /\ How \in {"once", "again"}
    /\ \/ Touch(left) /\ Through
       \/ \E S \in SUBSET left : Touch(S) /\ left' = {} /\ Settle("refused")
             /\ UNCHANGED world
    /\ UNCHANGED <<request, cached, used, wrong, tried>>

(* One command or one library function for all objects: it does them all,   *)
(* or fails after some of them.                                            *)
ActOnce ==
    /\ pc = "act" /\ How \in {"once", "again"}
    /\ \/ Touch(left) /\ Through
       \/ \E S \in SUBSET left : Touch(S) /\ left' = {} /\ Settle("failed")
             /\ UNCHANGED world
    /\ UNCHANGED <<request, cached, used, wrong, tried>>

(* The tool does not know -j, so says its output, and is run without it.    *)
ActAgain ==
    /\ pc = "act" /\ How = "again" /\ ~ wrong
    /\ wrong' = TRUE
    /\ \E S \in SUBSET left : Touch(S)
    /\ UNCHANGED <<request, world, cached, pc, answer, used, left, tried>>

(* One lzc call: all of its objects, or none.                              *)
ActCall ==
    /\ pc = "act" /\ How = "call"
    /\ \/ Touch(left) /\ Through
       \/ UNCHANGED <<done, acted, twice, left, world>> /\ Settle("failed")
    /\ UNCHANGED <<request, cached, used, wrong, tried>>

(* One call for each object; "names": the first one takes the children too. *)
Turn(i) == IF How = "names" THEN {i} \cup (left \cap Children) ELSE {i}

(* MUTANT of ActEach: the calls are not made in the order of the list.      *)
ActEachAtOnce(i) ==
    /\ pc = "act" /\ How \in {"each", "names", "goesOn", "silent", "quiet"}
    /\ i \in left
    /\ \/ /\ Touch(Turn(i)) /\ left' = left \ Turn(i)
          /\ UNCHANGED <<pc, answer, wrong>>
       \/ /\ How \in {"each", "names", "quiet"}
          /\ UNCHANGED <<done, acted, twice, left, wrong>> /\ Settle("failed")
       \/ /\ How \in {"goesOn", "silent", "quiet"}
          /\ left' = left \ {i} /\ wrong' = (How = "goesOn" \/ wrong)
          /\ UNCHANGED <<done, acted, twice, pc, answer>>
    /\ UNCHANGED <<request, world, cached, used, tried>>

(* MUTANT of ActEach: what was done stays on the list.                     *)
ActEachAgain(i) ==
    /\ pc = "act" /\ How \in {"each", "names", "goesOn", "silent", "quiet"}
    /\ i \in Smallest(left)
    /\ \/ /\ Touch(Turn(i)) /\ left' = left
          /\ UNCHANGED <<pc, answer, wrong>>
       \/ /\ How \in {"each", "names", "quiet"}
          /\ UNCHANGED <<done, acted, twice, left, wrong>> /\ Settle("failed")
       \/ /\ How \in {"goesOn", "silent", "quiet"}
          /\ left' = left \ {i} /\ wrong' = (How = "goesOn" \/ wrong)
          /\ UNCHANGED <<done, acted, twice, pc, answer>>
    /\ UNCHANGED <<request, world, cached, used, tried>>

(* MUTANT of ActEach: a call that fails does not end the list.              *)
ActEachForgiving(i) ==
    /\ pc = "act" /\ How \in {"each", "names", "goesOn", "silent", "quiet"}
    /\ i \in Smallest(left)
    /\ \/ /\ Touch(Turn(i)) /\ left' = left \ Turn(i)
          /\ UNCHANGED <<pc, answer, wrong>>
       \/ /\ left' = left \ {i} /\ wrong' = (How = "goesOn" \/ wrong)
          /\ UNCHANGED <<done, acted, twice, pc, answer>>
    /\ UNCHANGED <<request, world, cached, used, tried>>

ActEach(i) ==
    /\ pc = "act" /\ How \in {"each", "names", "goesOn", "silent", "quiet"}
    /\ i \in Smallest(left)
    /\ \/ /\ Touch(Turn(i)) /\ left' = left \ Turn(i)
          /\ UNCHANGED <<pc, answer, wrong>>
       \/ /\ How \in {"each", "names", "quiet"}
          /\ UNCHANGED <<done, acted, twice, left, wrong>> /\ Settle("failed")
       \/ /\ How \in {"goesOn", "silent", "quiet"}
          /\ left' = left \ {i} /\ wrong' = (How = "goesOn" \/ wrong)
          /\ UNCHANGED <<done, acted, twice, pc, answer>>
    /\ UNCHANGED <<request, world, cached, used, tried>>

(* MUTANT of ActedOnEach: a failure that was gone over is never reported.   *)
ActedOnEachQuietly ==
    /\ pc = "act" /\ How \in {"each", "names", "goesOn", "silent", "quiet"}
    /\ left = {} /\ ~ wrong /\ Through
    /\ UNCHANGED <<request, cached, used, done, acted, twice, wrong, tried>>

ActedOnEach ==
    /\ pc = "act" /\ How \in {"each", "names", "goesOn", "silent", "quiet"}
    /\ left = {}
    /\ IF wrong THEN Settle("failed") /\ UNCHANGED <<world, left>> ELSE Through
    /\ UNCHANGED <<request, cached, used, done, acted, twice, wrong, tried>>

(* MUTANT of Finish: the work is not waited for.                           *)
FinishAtOnce ==
    /\ pc = "after"
    /\ \/ Settle("ok")
       \/ ("wait" \in used \/ req.via \cap {"lists", "reads"} # {}) /\ Settle("failed")
    /\ UNCHANGED <<request, world, cached, work>>

(* Afterwards: wait for the work, list the pools, decode the answer.        *)
Finish ==
    /\ pc = "after"
    /\ \/ ("wait" \in used => ~ pending) /\ Settle("ok")
       \/ ("wait" \in used \/ req.via \cap {"lists", "reads"} # {}) /\ Settle("failed")
    /\ UNCHANGED <<request, world, cached, work>>

(* The caller runs the same effect once more.                              *)
Retry ==
    /\ pc = "done" /\ verdict = "failed" /\ runs < MaxRuns
    /\ pc' = "built" /\ running' = FALSE /\ verdict' = "none"
    /\ UNCHANGED <<request, world, cached, runs, settled, work>>

-----------------------------------------------------------------------------
(* Meanwhile children come and go, the work ends, the tools are upgraded.   *)
Looked == req.flags \cap Wideners # {} /\ pc \notin {"build", "done"}

Appear ==
    /\ Looked
    /\ \E c \in Children \ present : present' = present \cup {c}
    /\ UNCHANGED <<request, stayed, tools, pending, cached, pc, answer, work>>

Vanish ==
    /\ Looked
    /\ \E c \in present : present' = present \ {c} /\ stayed' = stayed \ {c}
    /\ UNCHANGED <<request, tools, pending, cached, pc, answer, work>>

WorkEnds ==
    /\ pending /\ pending' = FALSE
    /\ UNCHANGED <<request, present, stayed, tools, cached, pc, answer, work>>

Upgrade ==
    /\ tools = "old" /\ tools' = "new"
    /\ UNCHANGED <<request, present, stayed, pending, cached, pc, answer, work>>

Step == \/ Build \/ CreateParents \/ Run \/ Check \/ Gate \/ Read
        \/ ActOnce \/ ActAgain \/ ActCall \/ ActedOnEach \/ Finish
        \/ \E i \in Objects : ActEach(i)

Stop == pc = "done" /\ (verdict = "failed" => runs = MaxRuns) /\ UNCHANGED vars

Next == \/ Step \/ Retry \/ Stop
        \/ Appear \/ Vanish \/ WorkEnds \/ Upgrade

Spec == Init /\ [][Next]_vars

(* Calls and commands return, and work in the pool comes to an end: the     *)
(* code sets no time limit, it relies on both.                             *)
FairSpec == Spec /\ WF_vars(Step) /\ WF_vars(WorkEnds)

-----------------------------------------------------------------------------
TypeOK ==
    /\ req.op \in Operations /\ req.by \in {"cli", "native"}
    /\ req.via \subseteq {"bare"} \cup Ways
    /\ req.flags \subseteq AllOptions /\ req.given \subseteq Named
    /\ present \subseteq Children /\ stayed \subseteq present /\ listed \subseteq Children
    /\ tools \in {"old", "new"} /\ cached \in {"none", "old", "new"}
    /\ pc \in {"build", "parents", "built", "check", "gate", "read", "act",
               "after", "done"}
    /\ runs \in 0 .. MaxRuns /\ used \subseteq req.flags
    /\ left \subseteq Objects /\ done \subseteq Objects
    /\ acted \subseteq Objects /\ twice \subseteq acted
    /\ running \in BOOLEAN /\ wrong \in BOOLEAN
    /\ tried \in BOOLEAN /\ pending \in BOOLEAN
    /\ settled \in {"none", "ok", "failed", "refused"}
    /\ verdict \in {"none", "ok", "failed", "refused"}
    /\ (pc = "done") <=> (verdict # "none")

Excepted(calls) == Among(calls, req.by, req.op, req.flags)

(* A refusal means that nothing was done: a handler that finds an option it *)
(* cannot honour, tools that are too old, or arguments that do not decode   *)
(* says so before its first call, also when it is run a second time.        *)
RefusedTouchesNothing ==
    verdict = "refused" => done = {}

(* A call touches nothing but what its options name: nothing at all for a   *)
(* dry run, no device when a removal is cancelled, not the rest of the pool  *)
(* for a list of devices or a range.  Calls that lose such an option are    *)
(* the exceptions.                                                         *)
TouchesOnlyTheMeant ==
    ~ Excepted(Wide) => done \subseteq Covered(req.flags, Children)

(* Success means that every object the options name was reached, children   *)
(* included if they were there all the time since the effect was run.  The  *)
(* exceptions lose an option, swallow failures, or work from a walk that    *)
(* may break off, or was made when the effect was built.                    *)
OkMeansAllMeant ==
    verdict = "ok" /\ ~ Excepted(Short) => Covered(req.flags, stayed) \subseteq done

(* Handlers that take a list one call at a time stop at the first failure:  *)
(* what is done is a beginning of the list, whatever was retried.           *)
FailureIsPrefix ==
    How = "each" /\ verdict = "failed" =>
        \A i \in done \cap req.given, j \in req.given : j < i => j \in done

(* Building an effect changes nothing until it is run, and a service's      *)
(* effect never does, because the handler is only called inside of it.      *)
NothingBeforeRun ==
    runs = 0 /\ done # {} => Bare /\ Excepted(Early)

(* Every run makes its own attempt: a retry asks the pool again and does    *)
(* not repeat an answer.  An effect that acted when it was built does.      *)
RetryTriesAgain ==
    verdict \in {"ok", "failed"} => tried \/ (Bare /\ Excepted(Early))

(* Nothing is done twice by one run: lists are not started again, and only  *)
(* the fallback of a channel program to plain output repeats a command that *)
(* may have had effects.                                                   *)
NothingTwice ==
    twice # {} => req.by = "cli" /\ req.op \in Repeating

(* A call that was asked to wait returns when the work is over.            *)
WaitedMeansFinished ==
    verdict = "ok" /\ "wait" \in req.flags /\ ~ Excepted(Hasty) => ~ pending

(* Options of release 2.4 reach the tools only if those know them, though   *)
(* the release is read once and an upgrade may happen at any moment.        *)
GatedNeedsNewTools ==
    done # {} /\ req.flags \cap Chosen.gated # {} => tools = "new"

(* Every run comes to an answer.                                           *)
Returns == running ~> pc = "done"
=============================================================================
