----------------------------- MODULE Calls_proofs -----------------------------
(***************************************************************************)
(* Proofs about Calls, for every set of operations, options, objects and    *)
(* tables that satisfy its assumptions.                                    *)
(***************************************************************************)
EXTENDS Calls, TLAPS

(* The request is never changed, and what is derived from it neither.       *)
LEMMA SameRequest ==
    ASSUME req' = req
    PROVE  /\ Chosen' = Chosen /\ How' = How /\ Bare' = Bare
           /\ Ancestors' = Ancestors
           /\ \A flags, children :
                 Covered(flags, children)' = Covered(flags, children)
BY DEF Chosen, How, Bare, Ancestors, Handler, Covered, Listing

(* Every route of a table is a Route.                                       *)
LEMMA RouteType ==
    ASSUME NEW by \in {"cli", "native"}, NEW op \in DOMAIN Program[by]
    PROVE  /\ op \in Operations
           /\ Program[by][op].yes \in Route /\ Program[by][op].no \in Route
BY ConstantsAssumption DEF ConstantsAssumption

(* The objects of a request are objects.                                   *)
LEMMA CoveredType ==
    ASSUME NEW flags, NEW children \in SUBSET Children, req.given \subseteq Named
    PROVE  Covered(flags, children) \subseteq Objects
BY DEF Covered, Objects

(* With fewer options than were given, but all those that narrow the call,  *)
(* no more is touched.                                                     *)
LEMMA CoveredByFewer ==
    ASSUME NEW fewer \in SUBSET req.flags,
           req.flags \cap (Harmless \cup Narrowers \cup Parts \cup Instead) \subseteq fewer,
           NEW children \in SUBSET Children
    PROVE  Covered(fewer, children) \subseteq Covered(req.flags, Children)
<1>1. Listing(fewer) <=> Listing(req.flags)
    BY DEF Listing
<1>2. CASE req.flags \cap (Harmless \cup Instead) # {}
    BY <1>2 DEF Covered
<1>3. CASE req.flags \cap (Harmless \cup Instead) = {}
    BY <1>1, <1>3 DEF Covered
<1> QED
    BY <1>2, <1>3

(* If all options that widen or direct the call are kept, and the children  *)
(* are still there, no less is.                                            *)
LEMMA CoveredByKept ==
    ASSUME NEW fewer \in SUBSET req.flags,
           req.flags \cap (Adders \cup Wideners \cup Narrowers \cup Instead) \subseteq fewer,
           NEW some, NEW children, some \subseteq children
    PROVE  Covered(req.flags, some) \subseteq Covered(fewer, children)
<1>1. CASE req.flags \cap (Harmless \cup Instead) # {}
    BY <1>1 DEF Covered
<1>2. CASE req.flags \cap (Harmless \cup Instead) = {}
    <2>1. Listing(fewer) => Listing(req.flags)
        BY DEF Listing
    <2>2. Listing(req.flags) => Listing(fewer) \/ req.flags \cap Parts # {}
        BY DEF Listing
    <2> QED
        BY <1>2, <2>1, <2>2 DEF Covered
<1> QED
    BY <1>1, <1>2

-----------------------------------------------------------------------------
(* Types.                                                                  *)

(* What Init makes of the request.                                         *)
Request ==
    /\ req.by \in {"cli", "native"} /\ req.op \in DOMAIN Program[req.by]
    /\ req.flags \subseteq Options[req.op] /\ req.given \subseteq Named
    /\ req.via = {"bare"} \/ req.via \subseteq Ways

LEMMA ChosenRoute ==
    ASSUME Request
    PROVE  /\ Chosen \in {Program[req.by][req.op].yes, Program[req.by][req.op].no}
           /\ Chosen \in Route
BY RouteType DEF Request, Chosen, Handler

Inv == TypeOK /\ Request

LEMMA InitInv == Init => Inv
<1> SUFFICES ASSUME Init PROVE Inv
    OBVIOUS
<1>1. PICK by \in {"cli", "native"} : \E op \in DOMAIN Program[by] :
        \E via \in {{"bare"}} \cup Styles[op], flags \in SUBSET Options[op],
           given \in SUBSET Named :
             req = [by |-> by, via |-> via, op |-> op, flags |-> flags, given |-> given]
    BY DEF Init
<1>2. PICK op \in DOMAIN Program[by] :
        \E via \in {{"bare"}} \cup Styles[op], flags \in SUBSET Options[op],
           given \in SUBSET Named :
             req = [by |-> by, via |-> via, op |-> op, flags |-> flags, given |-> given]
    BY <1>1
<1>3. op \in Operations
    BY RouteType
<1>4. Options[op] \subseteq AllOptions /\ Styles[op] \subseteq SUBSET Ways
    BY <1>3, ConstantsAssumption DEF ConstantsAssumption
<1>5. PICK via \in {{"bare"}} \cup Styles[op], flags \in SUBSET Options[op],
           given \in SUBSET Named :
             req = [by |-> by, via |-> via, op |-> op, flags |-> flags, given |-> given]
    BY <1>2
<1>6. Request
    BY <1>4, <1>5 DEF Request
<1>7. via \subseteq {"bare"} \cup Ways
    BY <1>4, <1>5
<1>8. 0 \in 0 .. MaxRuns
    BY ConstantsAssumption DEF ConstantsAssumption
<1>9. TypeOK
    BY <1>3, <1>4, <1>5, <1>7, <1>8 DEF Init, TypeOK
<1> QED
    BY <1>6, <1>9 DEF Inv

LEMMA NextInv == Inv /\ [Next]_vars => Inv'
<1> SUFFICES ASSUME Inv, [Next]_vars PROVE Inv'
    OBVIOUS
<1> USE DEF Inv
<1>r. Chosen \in Route
    BY ChosenRoute
<1>0. req' = req
    BY DEF Next, Step, Build, CreateParents, Run, Check, Gate, Read, ActOnce,
           ActAgain, ActCall, ActEach, ActedOnEach, Finish, Retry, Stop, Appear,
           Vanish, WorkEnds, Upgrade, vars, request
<1>1. Request'
    BY <1>0, SameRequest DEF Request
<1>2. TypeOK'
    <2> USE <1>0 DEF TypeOK, request, world, answer, work
    <2>1. CASE Build
        BY <2>1 DEF Build
    <2>2. CASE CreateParents
        <3>1. req.given \subseteq Objects
            BY DEF Objects
        <3> QED
            BY <2>2, <3>1 DEF CreateParents, Settle
    <2>3. CASE Run
        <3>1. runs + 1 \in 0 .. MaxRuns
            BY <2>3, ConstantsAssumption DEF Run, ConstantsAssumption
        <3> QED
            BY <2>3, <3>1 DEF Run
    <2>4. CASE Check
        BY <2>4 DEF Check, Settle
    <2>5. CASE Gate
        BY <2>5 DEF Gate, Settle
    <2>6. CASE Read
        <3>1. Covered(used, IF Chosen.lists = "build" THEN listed ELSE present)
                \subseteq Objects
            BY CoveredType DEF Request
        <3> QED
            BY <2>6, <3>1 DEF Read, Settle
    <2>7. CASE ActOnce
        BY <2>7 DEF ActOnce, Touch, Through, Settle
    <2>8. CASE ActAgain
        BY <2>8 DEF ActAgain, Touch
    <2>9. CASE ActCall
        BY <2>9 DEF ActCall, Touch, Through, Settle
    <2>10. CASE \E i \in Objects : ActEach(i)
        <3>1. PICK i \in Objects : ActEach(i)
            BY <2>10
        <3>2. Turn(i) \subseteq Objects
            BY DEF Turn
        <3> QED
            BY <3>1, <3>2 DEF ActEach, Touch, Settle
    <2>11. CASE ActedOnEach
        BY <2>11 DEF ActedOnEach, Through, Settle
    <2>12. CASE Finish
        BY <2>12 DEF Finish, Settle
    <2>13. CASE Retry
        BY <2>13 DEF Retry
    <2>14. CASE Appear
        BY <2>14 DEF Appear
    <2>15. CASE Vanish
        BY <2>15 DEF Vanish
    <2>16. CASE WorkEnds
        <3>1. pending' = FALSE
            BY <2>16 DEF WorkEnds
        <3>2. UNCHANGED <<req, present, stayed, listed, tools, cached, pc, runs,
                          running, settled, verdict, used, left, done, acted,
                          twice, wrong, tried>>
            BY <2>16 DEF WorkEnds
        <3>3. pending' \in BOOLEAN
            BY <3>1
        <3> QED
            BY <3>2, <3>3
    <2>17. CASE Upgrade
        BY <2>17 DEF Upgrade
    <2>18. CASE UNCHANGED vars
        BY <2>18 DEF vars
    <2> QED
        BY <2>1, <2>2, <2>3, <2>4, <2>5, <2>6, <2>7, <2>8, <2>9, <2>10, <2>11,
           <2>12, <2>13, <2>14, <2>15, <2>16, <2>17, <2>18 DEF Next, Step, Stop
<1> QED
    BY <1>1, <1>2

LEMMA Invariance == Spec => []Inv
BY InitInv, NextInv, PTL DEF Spec

(* Every variable keeps its type; the options in use are among those given, *)
(* and an answer stands exactly when the call is done.                      *)
THEOREM TypeCorrect == Spec => []TypeOK
<1>1. Inv => TypeOK
    BY DEF Inv
<1> QED
    BY <1>1, Invariance, PTL

-----------------------------------------------------------------------------
(* What the assumption on the tables says of the request at hand.           *)

LEMMA Tables ==
    ASSUME Request
    PROVE  /\ Chosen.eager = "yes" \/ Ancestors => Excepted(Early)
           /\ Chosen.eager = "yes" /\ req.flags \cap Wideners # {} => Excepted(Short)
           /\ Chosen.eager = "parents" =>
                /\ req.flags \cap Harmless \subseteq Chosen.refuses /\ Chosen.gated = {}
                /\ req.flags \cap Instead = {}
           /\ ~ Excepted(Wide) =>
                req.flags \cap (Chosen.drops \cup Chosen.may)
                  \cap (Harmless \cup Narrowers \cup Parts \cup Instead) = {}
           /\ ~ Excepted(Short) =>
                /\ req.flags \cap (Chosen.drops \cup Chosen.may)
                     \cap (Adders \cup Wideners \cup Narrowers \cup Instead) \subseteq {"parents"}
                /\ Chosen.how \notin {"silent", "quiet"}
                /\ Chosen.lists # "run" => req.flags \cap Wideners = {}
           /\ ~ Excepted(Hasty) => "wait" \notin req.flags \cap (Chosen.drops \cup Chosen.may)
           /\ Chosen.how = "again" => req.by = "cli" /\ req.op \in Repeating
<1> DEFINE by == req.by
           op == req.op
<1>1. by \in {"cli", "native"} /\ op \in DOMAIN Program[by] /\ req.flags \subseteq Options[op]
    BY DEF Request
<1>2. PICK branch \in {"yes", "no"} :
        Chosen = Program[by][op][branch] /\ (branch = "yes" => Program[by][op].on \in req.flags)
    BY DEF Chosen, Handler
<1> DEFINE route == Program[by][op][branch]
           taken == IF branch = "yes" THEN {Program[by][op].on} ELSE {}
           lost  == Options[op] \cap (route.drops \cup route.may)
           Every(options, calls) ==
               \A o \in options \cap Options[op] : Among(calls, by, op, taken \cup {o})
<1>3. taken \subseteq req.flags
    BY <1>2
<1>4. ASSUME NEW calls, Among(calls, by, op, taken)
      PROVE  Excepted(calls)
    BY <1>3, <1>4 DEF Excepted, Among
<1>5. ASSUME NEW calls, NEW options, Every(options, calls), ~ Excepted(calls)
      PROVE  options \cap req.flags = {}
    <2> SUFFICES ASSUME NEW o \in options \cap req.flags
                 PROVE  FALSE
        OBVIOUS
    <2>1. Among(calls, by, op, taken \cup {o})
        BY <1>1, <1>5
    <2>2. taken \cup {o} \subseteq req.flags
        BY <1>3
    <2> QED
        BY <1>5, <2>1, <2>2 DEF Excepted, Among
<1>6. /\ route.eager = "yes" => Among(Early, by, op, taken) /\ Every(Wideners, Short)
      /\ route.eager = "parents" =>
           /\ Every({"parents"}, Early)
           /\ Options[op] \cap Harmless \subseteq route.refuses /\ route.gated = {}
           /\ Options[op] \cap Instead = {}
      /\ Every(lost \cap (Harmless \cup Narrowers \cup Parts \cup Instead), Wide)
      /\ Every((lost \cap (Adders \cup Wideners \cup Narrowers \cup Instead)) \ {"parents"}, Short)
      /\ route.how \in {"silent", "quiet"} => Among(Short, by, op, taken)
      /\ route.lists # "run" => Every(Wideners, Short)
      /\ Every(lost \cap {"wait"}, Hasty)
      /\ route.how = "again" => by = "cli" /\ op \in Repeating
    <2>1. Told(by, op, branch)
        BY <1>1, TablesAssumption DEF TablesAssumption
    <2> QED
        BY <2>1, Zenon DEF Told
<1>c. Chosen = route
    BY <1>2
<1> HIDE DEF route, taken, lost, Every
<1>7. Chosen.eager = "yes" \/ Ancestors => Excepted(Early)
    BY <1>4, <1>5, <1>6, <1>c DEF Ancestors
<1>8. Chosen.eager = "yes" \/ Chosen.lists # "run" =>
        Excepted(Short) \/ req.flags \cap Wideners = {}
    BY <1>5, <1>6, <1>c
<1>9. Chosen.how \in {"silent", "quiet"} => Excepted(Short)
    BY <1>4, <1>6, <1>c
<1>10. ~ Excepted(Wide) =>
         (lost \cap (Harmless \cup Narrowers \cup Parts \cup Instead)) \cap req.flags = {}
    BY <1>5, <1>6
<1>11. ~ Excepted(Short) =>
         ((lost \cap (Adders \cup Wideners \cup Narrowers \cup Instead)) \ {"parents"})
           \cap req.flags = {}
    BY <1>5, <1>6
<1>12. ~ Excepted(Hasty) => (lost \cap {"wait"}) \cap req.flags = {}
    BY <1>5, <1>6
<1> USE DEF lost
<1>13. ~ Excepted(Wide) =>
         req.flags \cap (Chosen.drops \cup Chosen.may)
           \cap (Harmless \cup Narrowers \cup Parts \cup Instead) = {}
    BY <1>1, <1>c, <1>10
<1>14. ~ Excepted(Short) =>
         req.flags \cap (Chosen.drops \cup Chosen.may)
           \cap (Adders \cup Wideners \cup Narrowers \cup Instead) \subseteq {"parents"}
    BY <1>1, <1>c, <1>11
<1>15. ~ Excepted(Hasty) => "wait" \notin req.flags \cap (Chosen.drops \cup Chosen.may)
    BY <1>1, <1>c, <1>12
<1> QED
    BY <1>1, <1>6, <1>c, <1>7, <1>8, <1>9, <1>13, <1>14, <1>15

(* Does the handler act while the effect is put together?                   *)
BeforeRun == Chosen.eager = "yes" \/ Ancestors

(* Where the call is and what has been decided.                            *)
Stage ==
    /\ pc = "build" => done = {} /\ runs = 0 /\ ~ running
    /\ pc = "done" => running
    /\ runs = 0 => ~ running
    /\ settled # "none" => pc \in {"built", "done"} /\ Bare /\ BeforeRun
    /\ settled = "ok" => Chosen.eager = "yes"
    /\ pc = "parents" => Ancestors /\ (Bare <=> ~ running)
    /\ pc \in {"check", "gate", "read", "act", "after"} /\ ~ running =>
           Bare /\ Chosen.eager = "yes"
    /\ runs = 0 /\ done # {} => Bare /\ BeforeRun

LEMMA NextRequest == [Next]_vars => req' = req
BY DEF Next, Step, Build, CreateParents, Run, Check, Gate, Read, ActOnce, ActAgain,
       ActCall, ActEach, ActedOnEach, Finish, Retry, Stop, Appear, Vanish,
       WorkEnds, Upgrade, vars, request

LEMMA InitStage == Init => Stage
BY DEF Init, Stage

LEMMA NextStage == Inv /\ Stage /\ [Next]_vars => Stage'
<1> SUFFICES ASSUME Inv, Stage, [Next]_vars PROVE Stage'
    OBVIOUS
<1>0. req' = req
    BY NextRequest
<1>s. /\ Chosen' = Chosen /\ How' = How /\ Bare' = Bare /\ Ancestors' = Ancestors
      /\ \A flags, children : Covered(flags, children)' = Covered(flags, children)
    BY <1>0, SameRequest
<1> USE <1>0, <1>s DEF Inv, TypeOK, Stage, Ancestors, BeforeRun, request, world, answer, work
<1>1. CASE Build
    BY <1>1 DEF Build, Ancestors
<1>2. CASE CreateParents
    BY <1>2 DEF CreateParents, Settle
<1>3. CASE Run
    <2>1. runs' # 0
        BY <1>3, ConstantsAssumption DEF Run, ConstantsAssumption
    <2>2. Bare => "decodes" \notin req.via
        BY DEF Request, Bare, Ways
    <2> QED
        BY <1>3, <2>1, <2>2 DEF Run
<1>4. CASE Check
    BY <1>4 DEF Check, Settle
<1>5. CASE Gate
    BY <1>5 DEF Gate, Settle
<1>6. CASE Read
    BY <1>6 DEF Read, Settle
<1>7. CASE ActOnce
    BY <1>7 DEF ActOnce, Touch, Through, Settle
<1>8. CASE ActAgain
    BY <1>8 DEF ActAgain, Touch
<1>9. CASE ActCall
    BY <1>9 DEF ActCall, Touch, Through, Settle
<1>10. CASE \E i \in Objects : ActEach(i)
    <2>1. PICK i \in Objects : ActEach(i)
        BY <1>10
    <2> QED
        BY <2>1 DEF ActEach, Touch, Settle
<1>11. CASE ActedOnEach
    BY <1>11 DEF ActedOnEach, Through, Settle
<1>12. CASE Finish
    BY <1>12 DEF Finish, Settle
<1>13. CASE Retry
    BY <1>13 DEF Retry
<1>14. CASE Appear
    BY <1>14 DEF Appear
<1>15. CASE Vanish
    BY <1>15 DEF Vanish
<1>16. CASE WorkEnds
    BY <1>16 DEF WorkEnds
<1>17. CASE Upgrade
    BY <1>17 DEF Upgrade
<1>18. CASE UNCHANGED vars
    BY <1>18 DEF vars
<1> QED
    BY <1>1, <1>2, <1>3, <1>4, <1>5, <1>6, <1>7, <1>8, <1>9, <1>10,
       <1>11, <1>12, <1>13, <1>14, <1>15, <1>16, <1>17, <1>18 DEF Next, Step, Stop

LEMMA Staged == Spec => [](Inv /\ Stage)
<1>1. Inv /\ Stage /\ [Next]_vars => (Inv /\ Stage)'
    BY NextInv, NextStage
<1> QED
    BY <1>1, InitInv, InitStage, PTL DEF Spec

-----------------------------------------------------------------------------
(* Refusals and the version gate: the release is known before anything is   *)
(* touched, and a layer that has read a new one never reads an older one.   *)
GateInv ==
    /\ cached = "new" => tools = "new"
    /\ pc = "gate" => req.flags \cap Chosen.gated # {}
    /\ req.flags \cap Chosen.gated # {} /\ (pc \in {"read", "act", "after"} \/ done # {})
         => cached = "new"
    /\ Refused(Chosen) => done = {} /\ pc \notin {"gate", "read", "act", "after"}
    /\ verdict = "refused" \/ settled = "refused" => done = {}

LEMMA InitGate == Init => GateInv
BY DEF Init, GateInv

LEMMA NextGate == Inv /\ Stage /\ GateInv /\ [Next]_vars => GateInv'
<1> SUFFICES ASSUME Inv, Stage, GateInv, [Next]_vars PROVE GateInv'
    OBVIOUS
<1>0. req' = req
    BY NextRequest
<1>s. /\ Chosen' = Chosen /\ How' = How /\ Bare' = Bare /\ Ancestors' = Ancestors
      /\ \A flags, children : Covered(flags, children)' = Covered(flags, children)
    BY <1>0, SameRequest
<1> USE <1>0, <1>s DEF Inv, TypeOK, GateInv, Stage, Ancestors, Refused, request, world, answer, work
<1>1. CASE Build
    BY <1>1 DEF Build
<1>2. CASE CreateParents
    BY <1>2, Tables DEF CreateParents, Settle
<1>3. CASE Run
    <2>1. Bare => "decodes" \notin req.via
        BY DEF Request, Bare, Ways
    <2> QED
        BY <1>3, <2>1 DEF Run
<1>4. CASE Check
    BY <1>4 DEF Check, Settle
<1>5. CASE Gate
    BY <1>5 DEF Gate, Settle
<1>6. CASE Read
    BY <1>6 DEF Read, Settle
<1>7. CASE ActOnce
    BY <1>7 DEF ActOnce, Touch, Through, Settle
<1>8. CASE ActAgain
    BY <1>8 DEF ActAgain, Touch
<1>9. CASE ActCall
    BY <1>9 DEF ActCall, Touch, Through, Settle
<1>10. CASE \E i \in Objects : ActEach(i)
    <2>1. PICK i \in Objects : ActEach(i)
        BY <1>10
    <2> QED
        BY <2>1 DEF ActEach, Touch, Settle
<1>11. CASE ActedOnEach
    BY <1>11 DEF ActedOnEach, Through, Settle
<1>12. CASE Finish
    BY <1>12 DEF Finish, Settle
<1>13. CASE Retry
    BY <1>13 DEF Retry
<1>14. CASE Appear
    BY <1>14 DEF Appear
<1>15. CASE Vanish
    BY <1>15 DEF Vanish
<1>16. CASE WorkEnds
    BY <1>16 DEF WorkEnds
<1>17. CASE Upgrade
    BY <1>17 DEF Upgrade
<1>18. CASE UNCHANGED vars
    BY <1>18 DEF vars
<1> QED
    BY <1>1, <1>2, <1>3, <1>4, <1>5, <1>6, <1>7, <1>8, <1>9, <1>10,
       <1>11, <1>12, <1>13, <1>14, <1>15, <1>16, <1>17, <1>18 DEF Next, Step, Stop

LEMMA Gated == Spec => [](Inv /\ Stage /\ GateInv)
<1>1. Inv /\ Stage /\ GateInv /\ [Next]_vars => (Inv /\ Stage /\ GateInv)'
    BY NextInv, NextStage, NextGate
<1> QED
    BY <1>1, InitInv, InitStage, InitGate, PTL DEF Spec

(* A refusal means that nothing was touched, in any run.                    *)
THEOREM Refusals == Spec => []RefusedTouchesNothing
<1>1. GateInv => RefusedTouchesNothing
    BY DEF GateInv, RefusedTouchesNothing
<1> QED
    BY <1>1, Gated, PTL

(* Options of a release reach only tools of that release.                   *)
THEOREM Gates == Spec => []GatedNeedsNewTools
<1>1. GateInv => GatedNeedsNewTools
    BY DEF GateInv, GatedNeedsNewTools
<1> QED
    BY <1>1, Gated, PTL

(* An effect that has not been run has touched something only if the call is *)
(* one of the named exceptions.                                            *)
THEOREM Laziness == Spec => []NothingBeforeRun
<1>1. Inv /\ Stage => NothingBeforeRun
    BY Tables DEF Inv, Stage, BeforeRun, NothingBeforeRun
<1> QED
    BY <1>1, Staged, PTL

-----------------------------------------------------------------------------
(* Retries.                                                                *)
TriedInv ==
    /\ pc \in {"act", "after"} => tried
    /\ verdict \in {"ok", "failed"} => tried \/ (Bare /\ BeforeRun)

LEMMA NextTried == Inv /\ Stage /\ TriedInv /\ [Next]_vars => TriedInv'
<1> SUFFICES ASSUME Inv, Stage, TriedInv, [Next]_vars PROVE TriedInv'
    OBVIOUS
<1>0. req' = req
    BY NextRequest
<1>s. /\ Chosen' = Chosen /\ How' = How /\ Bare' = Bare /\ Ancestors' = Ancestors
      /\ \A flags, children : Covered(flags, children)' = Covered(flags, children)
    BY <1>0, SameRequest
<1> USE <1>0, <1>s DEF Inv, TypeOK, TriedInv, Stage, BeforeRun, request, world, answer, work
<1>1. CASE Build
    BY <1>1 DEF Build
<1>2. CASE CreateParents
    BY <1>2 DEF CreateParents, Settle
<1>3. CASE Run
    BY <1>3 DEF Run
<1>4. CASE Check
    BY <1>4 DEF Check, Settle
<1>5. CASE Gate
    BY <1>5 DEF Gate, Settle
<1>6. CASE Read
    BY <1>6 DEF Read, Settle
<1>7. CASE ActOnce
    BY <1>7 DEF ActOnce, Touch, Through, Settle
<1>8. CASE ActAgain
    BY <1>8 DEF ActAgain, Touch
<1>9. CASE ActCall
    BY <1>9 DEF ActCall, Touch, Through, Settle
<1>10. CASE \E i \in Objects : ActEach(i)
    <2>1. PICK i \in Objects : ActEach(i)
        BY <1>10
    <2> QED
        BY <2>1 DEF ActEach, Touch, Settle
<1>11. CASE ActedOnEach
    BY <1>11 DEF ActedOnEach, Through, Settle
<1>12. CASE Finish
    BY <1>12 DEF Finish, Settle
<1>13. CASE Retry
    BY <1>13 DEF Retry
<1>14. CASE Appear
    BY <1>14 DEF Appear
<1>15. CASE Vanish
    BY <1>15 DEF Vanish
<1>16. CASE WorkEnds
    BY <1>16 DEF WorkEnds
<1>17. CASE Upgrade
    BY <1>17 DEF Upgrade
<1>18. CASE UNCHANGED vars
    BY <1>18 DEF vars
<1> QED
    BY <1>1, <1>2, <1>3, <1>4, <1>5, <1>6, <1>7, <1>8, <1>9, <1>10,
       <1>11, <1>12, <1>13, <1>14, <1>15, <1>16, <1>17, <1>18 DEF Next, Step, Stop

(* Every run asks again, but for effects that acted when they were built.   *)
THEOREM Retries == Spec => []RetryTriesAgain
<1>1. Init => TriedInv
    BY DEF Init, TriedInv
<1>2. Inv /\ Stage /\ TriedInv /\ [Next]_vars => (Inv /\ Stage /\ TriedInv)'
    BY NextInv, NextStage, NextTried
<1>3. Inv /\ Stage /\ TriedInv => RetryTriesAgain
    BY Tables DEF Inv, TriedInv, BeforeRun, RetryTriesAgain
<1> QED
    BY <1>1, <1>2, <1>3, InitInv, InitStage, PTL DEF Spec

(* Within a run no object is worked on twice: what was done has left the    *)
(* list.                                                                   *)
TwiceInv ==
    /\ pc \in {"build", "parents", "check", "gate", "read"} => acted = {}
    /\ pc = "act" /\ How # "again" => acted \cap left = {}
    /\ twice # {} => How = "again"

LEMMA NextTwice == Inv /\ Stage /\ TwiceInv /\ [Next]_vars => TwiceInv'
<1> SUFFICES ASSUME Inv, Stage, TwiceInv, [Next]_vars PROVE TwiceInv'
    OBVIOUS
<1>0. req' = req
    BY NextRequest
<1>s. /\ Chosen' = Chosen /\ How' = How /\ Bare' = Bare /\ Ancestors' = Ancestors
      /\ \A flags, children : Covered(flags, children)' = Covered(flags, children)
    BY <1>0, SameRequest
<1> USE <1>0, <1>s DEF Inv, TypeOK, TwiceInv, Stage, request, world, answer, work
<1>1. CASE Build
    BY <1>1 DEF Build
<1>2. CASE CreateParents
    BY <1>2 DEF CreateParents, Settle
<1>3. CASE Run
    BY <1>3 DEF Run
<1>4. CASE Check
    BY <1>4 DEF Check, Settle
<1>5. CASE Gate
    BY <1>5 DEF Gate, Settle
<1>6. CASE Read
    BY <1>6 DEF Read, Settle
<1>7. CASE ActOnce
    BY <1>7 DEF ActOnce, Touch, Through, Settle
<1>8. CASE ActAgain
    BY <1>8 DEF ActAgain, Touch
<1>9. CASE ActCall
    BY <1>9 DEF ActCall, Touch, Through, Settle
<1>10. CASE \E i \in Objects : ActEach(i)
    <2>1. PICK i \in Objects : ActEach(i)
        BY <1>10
    <2>2. i \in left => Turn(i) \subseteq left
        BY DEF Turn
    <2> QED
        BY <2>1, <2>2 DEF ActEach, Touch, Settle, Smallest
<1>11. CASE ActedOnEach
    BY <1>11 DEF ActedOnEach, Through, Settle
<1>12. CASE Finish
    BY <1>12 DEF Finish, Settle
<1>13. CASE Retry
    BY <1>13 DEF Retry
<1>14. CASE Appear
    BY <1>14 DEF Appear
<1>15. CASE Vanish
    BY <1>15 DEF Vanish
<1>16. CASE WorkEnds
    BY <1>16 DEF WorkEnds
<1>17. CASE Upgrade
    BY <1>17 DEF Upgrade
<1>18. CASE UNCHANGED vars
    BY <1>18 DEF vars
<1> QED
    BY <1>1, <1>2, <1>3, <1>4, <1>5, <1>6, <1>7, <1>8, <1>9, <1>10,
       <1>11, <1>12, <1>13, <1>14, <1>15, <1>16, <1>17, <1>18 DEF Next, Step, Stop

(* Nothing is done twice by one run, but for the fallback of two commands.  *)
THEOREM NoRepetition == Spec => []NothingTwice
<1>1. Init => TwiceInv
    BY DEF Init, TwiceInv
<1>2. Inv /\ Stage /\ TwiceInv /\ [Next]_vars => (Inv /\ Stage /\ TwiceInv)'
    BY NextInv, NextStage, NextTwice
<1>3. Inv /\ TwiceInv => NothingTwice
    BY Tables DEF Inv, TwiceInv, NothingTwice, How
<1> QED
    BY <1>1, <1>2, <1>3, InitInv, InitStage, PTL DEF Spec

-----------------------------------------------------------------------------
(* Lists: while they are worked through, what has left the list is done,    *)
(* and it leaves it from the front.                                        *)
InOrder(S) == \A i \in S \cap req.given, j \in req.given : j < i => j \in S

PrefixInv ==
    How = "each" =>
        /\ InOrder(done)
        /\ pc = "act" => left \cap req.given = {} \/ req.given \ left \subseteq done

LEMMA GivenOrNot ==
    ASSUME Request, NEW flags, NEW children \in SUBSET Children
    PROVE  \/ Covered(flags, children) \cap req.given = {}
           \/ req.given \subseteq Covered(flags, children)
BY ConstantsAssumption DEF ConstantsAssumption, Request, Covered

LEMMA NextPrefix == Inv /\ Stage /\ PrefixInv /\ [Next]_vars => PrefixInv'
<1> SUFFICES ASSUME Inv, Stage, PrefixInv, [Next]_vars PROVE PrefixInv'
    OBVIOUS
<1>0. req' = req
    BY NextRequest
<1>s. /\ Chosen' = Chosen /\ How' = How /\ Bare' = Bare /\ Ancestors' = Ancestors
      /\ \A flags, children : Covered(flags, children)' = Covered(flags, children)
    BY <1>0, SameRequest
<1>i. done' = done => (InOrder(done)' <=> InOrder(done))
    BY <1>0 DEF InOrder
<1> USE <1>0, <1>s, <1>i DEF Inv, TypeOK, PrefixInv, Stage, Request, request, world, answer, work
<1>1. CASE Build
    BY <1>1 DEF Build
<1>2. CASE CreateParents
    <2>1. ASSUME NEW made \in SUBSET req.given,
                 \A i \in made, j \in req.given : j < i => j \in made,
                 InOrder(done)
          PROVE  InOrder(done \cup made)
        BY <2>1 DEF InOrder
    <2>2. InOrder(done) => InOrder(done \cup req.given)
        BY DEF InOrder
    <2>3. InOrder(done) => InOrder(done')
        BY <1>2, <2>1, <2>2 DEF CreateParents, Settle
    <2> QED
        BY <1>2, <2>3 DEF CreateParents, Settle, InOrder
<1>3. CASE Run
    BY <1>3 DEF Run
<1>4. CASE Check
    BY <1>4 DEF Check, Settle
<1>5. CASE Gate
    BY <1>5 DEF Gate, Settle
<1>6. CASE Read
    <2>1. CASE pc' = "act"
        <3> DEFINE all == Covered(used, IF Chosen.lists = "build" THEN listed ELSE present)
        <3>1. all \cap req.given = {} \/ req.given \subseteq all
            BY GivenOrNot
        <3>m. PICK missed \in SUBSET Missable :
                left' = all \ (missed \cup (IF Ancestors THEN req.given ELSE {}))
            BY <1>6, <2>1 DEF Read, Settle
        <3>n. Missable \cap req.given = {}
            BY ConstantsAssumption DEF ConstantsAssumption, Missable
        <3>2. left' \cap req.given = all \cap req.given \/ left' \cap req.given = {}
            BY <3>m, <3>n
        <3> QED
            BY <1>6, <2>1, <3>1, <3>2 DEF Read, InOrder
    <2> QED
        BY <1>6, <2>1 DEF Read, Settle, InOrder
<1>7. CASE ActOnce
    BY <1>7 DEF ActOnce, Touch, Through, Settle
<1>8. CASE ActAgain
    BY <1>8 DEF ActAgain, Touch
<1>9. CASE ActCall
    BY <1>9 DEF ActCall, Touch, Through, Settle
<1>10. CASE \E i \in Objects : ActEach(i)
    <2>1. PICK i \in Objects : ActEach(i)
        BY <1>10
    <2>2. ASSUME How = "each", i \in left, \A j \in left : i <= j
          PROVE  InOrder(done \cup {i})
        <3> SUFFICES ASSUME NEW j \in req.given, j < i, i \in req.given
                     PROVE  j \in done
            BY <2>2 DEF InOrder
        <3>1. i \in Nat /\ j \in Nat
            BY ConstantsAssumption DEF ConstantsAssumption, Request
        <3>2. j \notin left
            BY <2>2, <3>1
        <3> QED
            BY <2>1, <2>2, <3>2 DEF ActEach
    <2>3. How = "each" => Turn(i) = {i}
        BY DEF Turn
    <2>4. i \in left /\ \A j \in left : i <= j
        BY <2>1 DEF ActEach, Smallest
    <2>5. How = "each" => InOrder(done')
        BY <2>1, <2>2, <2>3, <2>4 DEF ActEach, Touch
    <2> QED
        BY <2>1, <2>3, <2>5 DEF ActEach, Touch, Settle, InOrder
<1>11. CASE ActedOnEach
    BY <1>11 DEF ActedOnEach, Through, Settle
<1>12. CASE Finish
    BY <1>12 DEF Finish, Settle
<1>13. CASE Retry
    BY <1>13 DEF Retry
<1>14. CASE Appear
    BY <1>14 DEF Appear
<1>15. CASE Vanish
    BY <1>15 DEF Vanish
<1>16. CASE WorkEnds
    BY <1>16 DEF WorkEnds
<1>17. CASE Upgrade
    BY <1>17 DEF Upgrade
<1>18. CASE UNCHANGED vars
    BY <1>18 DEF vars
<1> QED
    BY <1>1, <1>2, <1>3, <1>4, <1>5, <1>6, <1>7, <1>8, <1>9, <1>10,
       <1>11, <1>12, <1>13, <1>14, <1>15, <1>16, <1>17, <1>18 DEF Next, Step, Stop

(* A list that is worked through one call at a time is done from its front. *)
THEOREM Prefixes == Spec => []FailureIsPrefix
<1>1. Init => PrefixInv
    BY DEF Init, PrefixInv, InOrder
<1>2. Inv /\ Stage /\ PrefixInv /\ [Next]_vars => (Inv /\ Stage /\ PrefixInv)'
    BY NextInv, NextStage, NextPrefix
<1>3. Inv /\ Stage /\ PrefixInv => FailureIsPrefix
    BY DEF PrefixInv, FailureIsPrefix, InOrder
<1> QED
    BY <1>1, <1>2, <1>3, InitInv, InitStage, PTL DEF Spec

-----------------------------------------------------------------------------
(* Waiting.                                                                *)
WaitInv ==
    "wait" \in req.flags /\ ~ Excepted(Hasty) =>
        /\ pc \in {"gate", "read", "act", "after"} => "wait" \in used
        /\ verdict = "ok" \/ settled = "ok" => ~ pending

LEMMA SameExcepted == ASSUME req' = req PROVE \A calls : Excepted(calls)' = Excepted(calls)
BY DEF Excepted, Among

LEMMA NextWait == Inv /\ Stage /\ WaitInv /\ [Next]_vars => WaitInv'
<1> SUFFICES ASSUME Inv, Stage, WaitInv, [Next]_vars PROVE WaitInv'
    OBVIOUS
<1>0. req' = req
    BY NextRequest
<1>s. /\ Chosen' = Chosen /\ How' = How /\ Bare' = Bare /\ Ancestors' = Ancestors
      /\ \A flags, children : Covered(flags, children)' = Covered(flags, children)
    BY <1>0, SameRequest
<1>n. \A calls : Excepted(calls)' = Excepted(calls)
    BY <1>0, SameExcepted
<1> USE <1>0, <1>s, <1>n DEF Inv, TypeOK, WaitInv, Stage, request, world, answer, work
<1>1. CASE Build
    BY <1>1 DEF Build
<1>2. CASE CreateParents
    BY <1>2 DEF CreateParents, Settle
<1>3. CASE Run
    BY <1>3 DEF Run
<1>4. CASE Check
    BY <1>4, Tables, ChosenRoute DEF Check, Settle
<1>5. CASE Gate
    BY <1>5 DEF Gate, Settle
<1>6. CASE Read
    BY <1>6 DEF Read, Settle
<1>7. CASE ActOnce
    BY <1>7 DEF ActOnce, Touch, Through, Settle
<1>8. CASE ActAgain
    BY <1>8 DEF ActAgain, Touch
<1>9. CASE ActCall
    BY <1>9 DEF ActCall, Touch, Through, Settle
<1>10. CASE \E i \in Objects : ActEach(i)
    <2>1. PICK i \in Objects : ActEach(i)
        BY <1>10
    <2> QED
        BY <2>1 DEF ActEach, Touch, Settle
<1>11. CASE ActedOnEach
    BY <1>11 DEF ActedOnEach, Through, Settle
<1>12. CASE Finish
    BY <1>12 DEF Finish, Settle
<1>13. CASE Retry
    BY <1>13 DEF Retry
<1>14. CASE Appear
    BY <1>14 DEF Appear
<1>15. CASE Vanish
    BY <1>15 DEF Vanish
<1>16. CASE WorkEnds
    BY <1>16 DEF WorkEnds
<1>17. CASE Upgrade
    BY <1>17 DEF Upgrade
<1>18. CASE UNCHANGED vars
    BY <1>18 DEF vars
<1> QED
    BY <1>1, <1>2, <1>3, <1>4, <1>5, <1>6, <1>7, <1>8, <1>9, <1>10,
       <1>11, <1>12, <1>13, <1>14, <1>15, <1>16, <1>17, <1>18 DEF Next, Step, Stop

(* A call that was asked to wait, and did not lose the option, returns when  *)
(* the work is over.                                                       *)
THEOREM Waits == Spec => []WaitedMeansFinished
<1>1. Init => WaitInv
    BY DEF Init, WaitInv
<1>2. Inv /\ Stage /\ WaitInv /\ [Next]_vars => (Inv /\ Stage /\ WaitInv)'
    BY NextInv, NextStage, NextWait
<1>3. Inv /\ Stage /\ WaitInv => WaitedMeansFinished
    BY DEF WaitInv, WaitedMeansFinished
<1> QED
    BY <1>1, <1>2, <1>3, InitInv, InitStage, PTL DEF Spec

-----------------------------------------------------------------------------
(* What is touched: the options that narrow a call survive the handler, so  *)
(* the list it works through names no more than the request.                *)
TouchInv ==
    ~ Excepted(Wide) =>
        /\ done \subseteq Covered(req.flags, Children)
        /\ pc \in {"gate", "read", "act", "after"} =>
              req.flags \cap (Harmless \cup Narrowers \cup Parts \cup Instead) \subseteq used
        /\ pc = "act" => left \subseteq Covered(req.flags, Children)

LEMMA NextTouch == Inv /\ Stage /\ TouchInv /\ [Next]_vars => TouchInv'
<1> SUFFICES ASSUME Inv, Stage, TouchInv, [Next]_vars PROVE TouchInv'
    OBVIOUS
<1>0. req' = req
    BY NextRequest
<1>s. /\ Chosen' = Chosen /\ How' = How /\ Bare' = Bare /\ Ancestors' = Ancestors
      /\ \A flags, children : Covered(flags, children)' = Covered(flags, children)
    BY <1>0, SameRequest
<1>n. \A calls : Excepted(calls)' = Excepted(calls)
    BY <1>0, SameExcepted
<1> USE <1>0, <1>s, <1>n DEF Inv, TypeOK, TouchInv, Stage, request, world, answer, work
<1>1. CASE Build
    BY <1>1 DEF Build
<1>2. CASE CreateParents
    <2>1. CASE Refused(Chosen)
        BY <1>2, <2>1 DEF CreateParents, Settle
    <2>2. CASE ~ Refused(Chosen)
        <3>1. req.flags \cap (Harmless \cup Instead) = {}
            BY <2>2, <1>2, Tables DEF CreateParents, Ancestors, Refused
        <3>2. req.given \subseteq Covered(req.flags, Children)
            BY <3>1, <1>2 DEF CreateParents, Ancestors, Covered, Adders
        <3> QED
            BY <1>2, <2>2, <3>2 DEF CreateParents, Settle
    <2> QED
        BY <2>1, <2>2
<1>3. CASE Run
    BY <1>3 DEF Run
<1>4. CASE Check
    BY <1>4, Tables, ChosenRoute DEF Check, Settle
<1>5. CASE Gate
    BY <1>5 DEF Gate, Settle
<1>6. CASE Read
    <2>1. ~ Excepted(Wide) =>
            Covered(used, IF Chosen.lists = "build" THEN listed ELSE present)
              \subseteq Covered(req.flags, Children)
        BY <1>6, CoveredByFewer DEF Read
    <2> QED
        BY <1>6, <2>1 DEF Read, Settle
<1>7. CASE ActOnce
    BY <1>7 DEF ActOnce, Touch, Through, Settle
<1>8. CASE ActAgain
    BY <1>8 DEF ActAgain, Touch
<1>9. CASE ActCall
    BY <1>9 DEF ActCall, Touch, Through, Settle
<1>10. CASE \E i \in Objects : ActEach(i)
    <2>1. PICK i \in Objects : ActEach(i)
        BY <1>10
    <2>2. i \in left => Turn(i) \subseteq left
        BY DEF Turn
    <2> QED
        BY <2>1, <2>2 DEF ActEach, Touch, Settle, Smallest
<1>11. CASE ActedOnEach
    BY <1>11 DEF ActedOnEach, Through, Settle
<1>12. CASE Finish
    BY <1>12 DEF Finish, Settle
<1>13. CASE Retry
    BY <1>13 DEF Retry
<1>14. CASE Appear
    BY <1>14 DEF Appear
<1>15. CASE Vanish
    BY <1>15 DEF Vanish
<1>16. CASE WorkEnds
    BY <1>16 DEF WorkEnds
<1>17. CASE Upgrade
    BY <1>17 DEF Upgrade
<1>18. CASE UNCHANGED vars
    BY <1>18 DEF vars
<1> QED
    BY <1>1, <1>2, <1>3, <1>4, <1>5, <1>6, <1>7, <1>8, <1>9, <1>10,
       <1>11, <1>12, <1>13, <1>14, <1>15, <1>16, <1>17, <1>18 DEF Next, Step, Stop

(* Only calls that lose an option that narrows them touch more than         *)
(* what it names.                                                          *)
THEOREM NothingElse == Spec => []TouchesOnlyTheMeant
<1>1. Init => TouchInv
    BY DEF Init, TouchInv
<1>2. Inv /\ Stage /\ TouchInv /\ [Next]_vars => (Inv /\ Stage /\ TouchInv)'
    BY NextInv, NextStage, NextTouch
<1>3. Inv /\ Stage /\ TouchInv => TouchesOnlyTheMeant
    BY DEF TouchInv, TouchesOnlyTheMeant
<1> QED
    BY <1>1, <1>2, <1>3, InitInv, InitStage, PTL DEF Spec

-----------------------------------------------------------------------------
(* What success means: an object that the call is about is done, or still   *)
(* on the list, unless a failure was passed over, which is remembered.      *)
MeantNow == Covered(req.flags, stayed)

MeantInv ==
    ~ Excepted(Short) =>
        /\ pc \in {"gate", "read", "act", "after"} =>
              req.flags \cap (Adders \cup Wideners \cup Narrowers \cup Instead)
                \subseteq used \cup {"parents"}
        /\ pc = "act" /\ "parents" \in req.flags => "parents" \in used
        /\ Ancestors /\ (\/ pc \in {"check", "gate", "read", "act", "after"}
                         \/ pc \in {"built", "done"} /\ Bare /\ settled = "none") =>
              req.given \subseteq done
        /\ wrong => How \in {"again", "goesOn"}
        /\ pc = "act" /\ (How = "goesOn" => ~ wrong) => MeantNow \subseteq done \cup left
        /\ pc = "after" \/ verdict = "ok" \/ settled = "ok" => MeantNow \subseteq done

(* Children that come and go make no difference to a call that is not about *)
(* them, and those that go are nobody's business.                          *)
LEMMA MeantLess ==
    ASSUME req' = req, stayed' \subseteq stayed
    PROVE  MeantNow' \subseteq MeantNow
BY DEF MeantNow, Covered, Listing

LEMMA MeantAlways ==
    ASSUME req' = req, req.flags \cap Wideners = {}
    PROVE  MeantNow' = MeantNow
BY DEF MeantNow, Covered, Listing

LEMMA NextMeant == Inv /\ Stage /\ MeantInv /\ [Next]_vars => MeantInv'
<1> SUFFICES ASSUME Inv, Stage, MeantInv, [Next]_vars PROVE MeantInv'
    OBVIOUS
<1>0. req' = req
    BY NextRequest
<1>s. /\ Chosen' = Chosen /\ How' = How /\ Bare' = Bare /\ Ancestors' = Ancestors
      /\ \A flags, children : Covered(flags, children)' = Covered(flags, children)
    BY <1>0, SameRequest
<1>n. \A calls : Excepted(calls)' = Excepted(calls)
    BY <1>0, SameExcepted
<1>m. stayed' = stayed => MeantNow' = MeantNow
    BY <1>0, <1>s DEF MeantNow
<1>l. stayed' \subseteq stayed => MeantNow' \subseteq MeantNow
    BY <1>0, MeantLess
<1> USE <1>0, <1>s, <1>n, <1>m, <1>l DEF Inv, TypeOK, MeantInv, Stage, request, world, answer, work
<1>1. CASE Build
    BY <1>1 DEF Build, Ancestors
<1>2. CASE CreateParents
    BY <1>2 DEF CreateParents, Settle
<1>3. CASE Run
    <2>1. ~ Excepted(Short) /\ settled = "ok" => MeantNow' = MeantNow
        BY Tables, MeantAlways
    <2> QED
        BY <1>3, <2>1 DEF Run
<1>4. CASE Check
    BY <1>4, Tables, ChosenRoute DEF Check, Settle
<1>5. CASE Gate
    BY <1>5 DEF Gate, Settle
<1>6. CASE Read
    <2>1. CASE ~ Excepted(Short) /\ pc' = "act"
        <3> DEFINE all == Covered(used, IF Chosen.lists = "build" THEN listed ELSE present)
        <3>1. Chosen.lists # "run" => req.flags \cap Wideners = {}
            BY <2>1, Tables
        <3>m. Missable = {}
            BY <3>1 DEF Missable
        <3>2. req.flags \cap (Adders \cup Wideners \cup Narrowers \cup Instead) \subseteq used
            BY <1>6, <2>1 DEF Read, Settle
        <3>3. MeantNow \subseteq all
            <4>1. CASE Chosen.lists = "run"
                BY <4>1, <3>2, CoveredByKept DEF MeantNow
            <4>2. CASE Chosen.lists # "run"
                <5>1. MeantNow = Covered(req.flags, {})
                    BY <4>2, <3>1 DEF MeantNow, Covered
                <5> QED
                    BY <5>1, <3>2, CoveredByKept
            <4> QED
                BY <4>1, <4>2
        <3>a. Ancestors => req.given \subseteq done
            BY <1>6, <2>1 DEF Read
        <3>b. left' = all \ (IF Ancestors THEN req.given ELSE {})
            BY <1>6, <2>1, <3>m DEF Read, Settle
        <3>4. all \subseteq done \cup left'
            BY <3>a, <3>b
        <3>5. MeantNow' = MeantNow /\ done' = done
            BY <1>6 DEF Read, MeantNow
        <3> QED
            BY <1>6, <2>1, <3>2, <3>3, <3>4, <3>5 DEF Read, Settle
    <2> QED
        BY <1>6, <2>1 DEF Read, Settle
<1>7. CASE ActOnce
    BY <1>7 DEF ActOnce, Touch, Through, Settle
<1>8. CASE ActAgain
    BY <1>8 DEF ActAgain, Touch
<1>9. CASE ActCall
    BY <1>9 DEF ActCall, Touch, Through, Settle
<1>10. CASE \E i \in Objects : ActEach(i)
    <2>1. PICK i \in Objects : ActEach(i)
        BY <1>10
    <2>2. i \in left
        BY <2>1 DEF ActEach, Smallest
    <2>3. ~ Excepted(Short) => How \notin {"silent", "quiet"}
        BY Tables DEF How
    <2>4. MeantNow' = MeantNow /\ used' = used /\ pc = "act"
        BY <2>1 DEF ActEach, MeantNow
    <2>5. CASE Touch(Turn(i)) /\ left' = left \ Turn(i) /\ UNCHANGED <<pc, answer, wrong>>
        BY <2>4, <2>5 DEF Touch
    <2>6. CASE UNCHANGED <<done, left, wrong>> /\ Settle("failed")
        BY <2>4, <2>6 DEF Settle
    <2>7. CASE /\ How \in {"goesOn", "silent", "quiet"}
               /\ wrong' = (How = "goesOn" \/ wrong)
               /\ UNCHANGED <<done, pc, answer>>
        <3>1. How = "goesOn" => wrong'
            BY <2>7
        <3>2. UNCHANGED <<done, pc, answer>> /\ How \in {"goesOn", "silent", "quiet"}
            BY <2>7
        <3> QED
            BY <2>3, <2>4, <3>1, <3>2
    <2> QED
        BY <2>1, <2>5, <2>6, <2>7 DEF ActEach
<1>11. CASE ActedOnEach
    BY <1>11 DEF ActedOnEach, Through, Settle
<1>12. CASE Finish
    BY <1>12 DEF Finish, Settle
<1>13. CASE Retry
    BY <1>13 DEF Retry
<1>14. CASE Appear
    BY <1>14 DEF Appear
<1>15. CASE Vanish
    BY <1>15 DEF Vanish
<1>16. CASE WorkEnds
    BY <1>16 DEF WorkEnds
<1>17. CASE Upgrade
    BY <1>17 DEF Upgrade
<1>18. CASE UNCHANGED vars
    BY <1>18 DEF vars
<1> QED
    BY <1>1, <1>2, <1>3, <1>4, <1>5, <1>6, <1>7, <1>8, <1>9, <1>10,
       <1>11, <1>12, <1>13, <1>14, <1>15, <1>16, <1>17, <1>18 DEF Next, Step, Stop

(* Success means that every object the options name was reached, but for the *)
(* named exceptions.                                                       *)
THEOREM Success == Spec => []OkMeansAllMeant
<1>1. Init => MeantInv
    BY DEF Init, MeantInv, Ancestors
<1>2. Inv /\ Stage /\ MeantInv /\ [Next]_vars => (Inv /\ Stage /\ MeantInv)'
    BY NextInv, NextStage, NextMeant
<1>3. Inv /\ Stage /\ MeantInv => OkMeansAllMeant
    BY DEF MeantInv, OkMeansAllMeant, MeantNow
<1> QED
    BY <1>1, <1>2, <1>3, InitInv, InitStage, PTL DEF Spec
=============================================================================
