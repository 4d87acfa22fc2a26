------------------------ MODULE Destruction_proofs ------------------------
(***************************************************************************)
(* Theorems about Destruction and their proofs: for every pool and every    *)
(* request, what a destroy or a rollback may remove, what is gone after a   *)
(* success, and how it can fail half-way.                                  *)
(***************************************************************************)
EXTENDS Destruction, FiniteSetTheorems, TLAPS

Recursive == Has("recursive") \/ Has("descendants")

(* Before it is routed, the request means what it meant.                   *)
Unrouted ==
    pc = "route" =>
        /\ plan = "none" /\ left = {} /\ ~injected
        /\ doomed = {} /\ removed = {} /\ touched = {}
        /\ asked = Meant /\ ordered = InOrder

(* Which requests become which calls.                                      *)
Routed ==
    /\ pc \in {"route", "call"} => verdict = "none"
    /\ pc = "call" => plan # "none"
    /\ plan = "snaps" =>
         /\ left \subseteq Snap
         /\ req.kind = "range" \/ (allSnaps /\ ~Recursive)
    /\ plan = "each" =>
         /\ left \subseteq Snap
         /\ req.kind = "snapshot" /\ Recursive /\ ~Has("dryRun")
    /\ plan = "tree" =>
         /\ left \subseteq Fs
         /\ req.kind = "dataset" /\ ~Has("dryRun")
    /\ plan = "one" =>
         /\ req.kind \in {"snapshot", "dataset"} /\ ~Recursive
         /\ ~allSnaps
    /\ plan = "rollback" => left \subseteq Snap /\ req.kind = "rollback"

Base == Unrouted /\ Routed

-----------------------------------------------------------------------------
(* Steps                                                                   *)

busyOf(S) == {s \in S \cap Existing : Busy(s)}

(* A call that destroys S and marks B, after which D need not be looked at  *)
(* any more.                                                               *)
Destroys(S, B, D) ==
    /\ pc = "call"
    /\ Remove(S)
    /\ doomed' = doomed \cup B
    /\ left' = left \ D
    /\ pc' \in {"call", "done"}
    /\ verdict' \in {"none", "ok"}
    /\ pc' = "call" <=> verdict' = "none"
    /\ verdict' = "ok" => left' = {}
    /\ left' = {} /\ plan # "rollback" => verdict' = "ok"
    /\ UNCHANGED <<held, txg, req, plan, injected, asked, ordered, touched>>

(* A call that fails.                                                      *)
Ends ==
    /\ pc = "call" /\ pc' = "done" /\ verdict' = "failed"
    /\ injected' \in BOOLEAN
    /\ UNCHANGED <<poolVars, req, plan, left, asked, ordered, removed, touched>>

(* The six calls are of these two kinds.                                   *)
LEMMA CallKinds ==
    ASSUME TypeOK, Base, Call
    PROVE  \/ Ends
           \/ /\ plan = "snaps" /\ ~Blocked(left)
              /\ Destroys((left \cap Existing) \ busyOf(left), busyOf(left), left)
           \/ /\ plan = "each"
              /\ \E s \in left : \E S \in {{s}, {<<g, s[2]>> : g \in Under(s[1])}} :
                    /\ S \cap Existing # {} /\ ~Blocked(S)
                    /\ Destroys((S \cap Existing) \ busyOf(S), busyOf(S), {s})
           \/ /\ plan \in {"tree", "one"}
              /\ \E x \in left : Removable(x) /\ Destroys({x}, {}, {x})
           \/ /\ plan = "rollback"
              /\ \E s \in left :
                    Destroys(({s} \cup Dependents({s})) \cap Existing, {}, {s})
           \/ /\ plan = "rollback" /\ left = {}
              /\ Destroys({}, {}, {})
<1> USE DEF poolVars
<1>1. ASSUME NEW because, Fails(because) PROVE Ends
    BY <1>1 DEF Fails, Ends
<1>2. ASSUME NEW D, pc = "call", Goes(D)
      PROVE  /\ left' = left \ D
             /\ pc' \in {"call", "done"} /\ verdict' \in {"none", "ok"}
             /\ pc' = "call" <=> verdict' = "none"
             /\ verdict' = "ok" <=> left' = {}
             /\ UNCHANGED <<held, txg, req, plan, injected, asked, ordered, touched>>
    BY <1>2 DEF Goes
<1>3. CASE DestroySnaps
    BY <1>1, <1>2, <1>3 DEF DestroySnaps, Snapshots, Destroys, busyOf
<1>4. CASE DestroyEach
    BY <1>1, <1>2, <1>4 DEF DestroyEach, Snapshots, Destroys, busyOf
<1>5. CASE DestroyTree \/ DestroyOne
    BY <1>1, <1>2, <1>5 DEF DestroyTree, DestroyOne, Destroys
<1>6. CASE RollbackDestroys
    BY <1>1, <1>6 DEF RollbackDestroys, Destroys, Base, Routed
<1>7. CASE RollsBack
    BY <1>1, <1>2, <1>7 DEF RollsBack, Destroys
<1> QED
    BY <1>3, <1>4, <1>5, <1>6, <1>7 DEF Call

(* The calls that requests become.                                         *)
Starts ==
    /\ pc' \in {"call", "done"}
    /\ pc' = "call" => verdict' = "none"
    /\ pc' = "done" => verdict' = "ok" /\ left' = {}
    /\ \/ /\ plan' = "snaps" /\ req.kind = "range"
          /\ left' = {s \in SnapsOf({req.fs}) : snapshotInRange(s[2])}
       \/ /\ plan' = "snaps" /\ allSnaps /\ ~Recursive
          /\ left' = {Target} \cup req.names
       \/ /\ plan' = "each"
          /\ req.kind = "snapshot" /\ Recursive /\ ~Has("dryRun")
          /\ left' = {<<g, req.from>> :
                        g \in IF Has("recursive") THEN Under(req.fs) ELSE {req.fs}}
       \/ /\ plan' = "tree"
          /\ req.kind = "dataset" /\ ~Has("dryRun") /\ req.fs \in live
          /\ left' = IF Recursive THEN Under(req.fs) ELSE {req.fs}
       \/ /\ plan' = "one"
          /\ req.kind \in {"snapshot", "dataset"} /\ ~Recursive /\ ~allSnaps
          /\ left' = {IF req.kind = "dataset" THEN req.fs ELSE Target}
       \/ /\ plan' = "rollback" /\ req.kind = "rollback"
          /\ left' = IF needsLibzfsRollback THEN Recent ELSE {}

LEMMA RouteKinds ==
    ASSUME Route
    PROVE  /\ pc = "route" /\ UNCHANGED <<poolVars, req, history>>
           /\ \/ pc' = "done" /\ verdict' = "refused" /\ UNCHANGED <<plan, left>>
              \/ Starts
<1>1. ASSUME NEW calls, NEW objects, Plan(calls, objects)
      PROVE  /\ pc = "route" /\ UNCHANGED <<poolVars, req, history>>
             /\ pc' \in {"call", "done"}
             /\ pc' = "call" => verdict' = "none"
             /\ pc' = "done" => verdict' = "ok" /\ left' = {}
             /\ plan' = calls /\ left' = objects
    BY <1>1 DEF Plan
<1>2. ASSUME Refuse
      PROVE  /\ pc = "route" /\ UNCHANGED <<poolVars, req, history>>
             /\ pc' = "done" /\ verdict' = "refused" /\ UNCHANGED <<plan, left>>
    BY <1>2 DEF Refuse
<1>3. CASE RouteRange
    BY <1>1, <1>3 DEF RouteRange, Starts
<1>4. CASE RangeOfNothing \/ RefuseDryRun \/ RefuseDefer
    BY <1>2, <1>4 DEF RangeOfNothing, RefuseDryRun, RefuseDefer
<1>5. CASE RouteEach
    BY <1>1, <1>5 DEF RouteEach, Starts, needsLibzfsDestroy, Recursive
<1>6. CASE RouteTree
    BY <1>1, <1>2, <1>6 DEF RouteTree, Starts, needsLibzfsDestroy, Recursive
<1>7. CASE RouteSnaps
    BY <1>1, <1>7 DEF RouteSnaps, Starts, needsLibzfsDestroy, Recursive
<1>8. CASE RouteOne
    BY <1>1, <1>8 DEF RouteOne, Starts, needsLibzfsDestroy, Recursive
<1>9. CASE RouteRollback
    BY <1>1, <1>2, <1>9 DEF RouteRollback, Starts
<1> QED
    BY <1>3, <1>4, <1>5, <1>6, <1>7, <1>8, <1>9 DEF Route

-----------------------------------------------------------------------------
(* Type correctness                                                        *)

(* What the requests can say.                                              *)
LEMMA RequestType ==
    ASSUME TypeOK
    PROVE  /\ req.fs \in Fs /\ req.from \in Names /\ req.to \in Names
           /\ req.names \subseteq Objects
           /\ req.kind \in {"snapshot", "range", "dataset", "rollback"}
           /\ req.kind # "rollback" =>
                ~Has("destroyRecent") /\ ~Has("destroyClones")
           /\ req.kind = "rollback" => ~Recursive /\ ~Has("dryRun") /\ req.names = {}
BY ConstantsAssumption DEF TypeOK, Request, Has, Recursive

LEMMA Types ==
    ASSUME TypeOK
    PROVE  /\ Existing \subseteq Objects
           /\ \A f \in Fs : Under(f) \subseteq live
           /\ \A G : SnapsOf(G) \subseteq Snap /\ SnapsOf(G) \subseteq Existing
           /\ \A S : Dependents(S) \subseteq Existing
           /\ Target \in Snap /\ Recent \subseteq Snap
<1>1. req.fs \in Fs /\ req.from \in Names
    BY RequestType
<1>2. live \subseteq Existing /\ \A f : Under(f) \subseteq live
    BY DEF Existing, Under
<1>3. \A G : SnapsOf(G) \subseteq Snap /\ SnapsOf(G) \subseteq Existing
    BY DEF SnapsOf, Existing
<1>4. \A S : Dependents(S) \subseteq Existing
    BY <1>2, <1>3 DEF Dependents
<1> QED
    BY <1>1, <1>2, <1>3, <1>4 DEF TypeOK, Existing, Objects, Snap, Target, Recent

LEMMA TypeStep == TypeOK /\ Base /\ [Next]_vars => TypeOK' /\ Base'
<1> SUFFICES ASSUME TypeOK, Base, [Next]_vars PROVE TypeOK' /\ Base'
    OBVIOUS
<1> USE DEF poolVars, history
<1>c. MaxTxg \in Nat
    BY ConstantsAssumption
<1>1. CASE Route
    <2>1. /\ pc = "route" /\ UNCHANGED <<poolVars, req, history>>
          /\ \/ pc' = "done" /\ verdict' = "refused" /\ UNCHANGED <<plan, left>>
             \/ Starts
        BY <1>1, RouteKinds
    <2>2. CASE pc' = "done" /\ verdict' = "refused" /\ UNCHANGED <<plan, left>>
        BY <2>1, <2>2 DEF TypeOK, Base, Unrouted, Routed
    <2>3. CASE Starts
        <3>1. /\ req.fs \in Fs /\ req.from \in Names /\ req.names \subseteq Objects
              /\ Under(req.fs) \subseteq Fs /\ SnapsOf({req.fs}) \subseteq Snap
              /\ Target \in Snap /\ Recent \subseteq Snap
            BY RequestType, Types DEF TypeOK
        <3>2. plan' \in {"snaps", "each", "rollback"} => left' \subseteq Snap
            <4>1. \A G \in SUBSET Fs : {<<g, req.from>> : g \in G} \subseteq Snap
                BY <3>1 DEF Snap
            <4>2. {req.fs} \subseteq Fs /\ Under(req.fs) \subseteq Fs
                BY <3>1
            <4>3. plan' = "each" => left' \subseteq Snap
                BY <2>3, <4>1, <4>2 DEF Starts
            <4>4. plan' = "snaps" => left' \subseteq Snap
                BY <2>3, <3>1 DEF Starts, allSnaps
            <4>5. plan' = "rollback" => left' \subseteq Snap
                BY <2>3, <3>1 DEF Starts
            <4> QED
                BY <4>3, <4>4, <4>5
        <3>3. plan' = "tree" => left' \subseteq Fs
            BY <2>3, <3>1 DEF Starts
        <3>4. left' \subseteq Objects
            BY <2>3, <3>1, <3>2, <3>3 DEF Starts, Objects
        <3>5. TypeOK'
            BY <2>1, <2>3, <3>4 DEF TypeOK, Starts
        <3>6. Base'
            BY <2>1, <2>3, <3>2, <3>3 DEF Base, Unrouted, Routed, Starts, Recursive,
                Has, allSnaps
        <3> QED
            BY <3>5, <3>6
    <2> QED
        BY <2>1, <2>2, <2>3
<1>2. ASSUME NEW S, NEW B, NEW D, S \subseteq Existing, B \subseteq Snap, Destroys(S, B, D)
      PROVE  TypeOK' /\ Base'
    <2>1. /\ live' \subseteq Fs /\ born' \in [Snap -> 0 .. MaxTxg]
          /\ origin' \in [Fs -> Snap \cup {NoOrigin}] /\ removed' \subseteq Objects
        BY <1>2, <1>c, Types DEF Destroys, Remove, TypeOK
    <2>2. TypeOK'
        BY <1>2, <2>1 DEF Destroys, TypeOK
    <2>3. Base'
        BY <1>2 DEF Destroys, Base, Unrouted, Routed, Recursive, Has, allSnaps
    <2> QED
        BY <2>2, <2>3
<1>3. CASE Call
    <2>1. CASE Ends
        BY <2>1 DEF Ends, TypeOK, Base, Unrouted, Routed, Recursive, Has, allSnaps
    <2>2. \A S : busyOf(S) \subseteq Existing /\ (S \subseteq Snap => busyOf(S) \subseteq Snap)
        BY DEF busyOf
    <2>3. ASSUME plan = "each", NEW s \in left,
                 NEW S \in {{s}, {<<g, s[2]>> : g \in Under(s[1])}}
          PROVE  S \subseteq Snap
        <3>1. s \in Snap
            BY <2>3 DEF Base, Routed
        <3> QED
            BY <2>3, <3>1, Types DEF Snap, TypeOK
    <2>4. \A x : Removable(x) => x \in Existing
        BY DEF Removable
    <2>5. plan = "snaps" => left \subseteq Snap
        BY DEF Base, Routed
    <2>6. ASSUME plan = "snaps",
                 Destroys((left \cap Existing) \ busyOf(left), busyOf(left), left)
          PROVE  TypeOK' /\ Base'
        BY <1>2, <2>2, <2>5, <2>6
    <2>7. ASSUME plan = "each", NEW s \in left,
                 NEW S \in {{s}, {<<g, s[2]>> : g \in Under(s[1])}},
                 Destroys((S \cap Existing) \ busyOf(S), busyOf(S), {s})
          PROVE  TypeOK' /\ Base'
        <3>1. S \subseteq Snap
            BY <2>3, <2>7
        <3> QED
            BY <1>2, <2>2, <2>7, <3>1
    <2>8. ASSUME NEW x, Removable(x), Destroys({x}, {}, {x})
          PROVE  TypeOK' /\ Base'
        BY <1>2, <2>4, <2>8
    <2>9. ASSUME NEW s, Destroys(({s} \cup Dependents({s})) \cap Existing, {}, {s})
          PROVE  TypeOK' /\ Base'
        BY <1>2, <2>9
    <2>10. ASSUME Destroys({}, {}, {}) PROVE TypeOK' /\ Base'
        BY <1>2, <2>10
    <2> QED
        BY <1>3, <2>1, <2>6, <2>7, <2>8, <2>9, <2>10, CallKinds
<1>4. CASE OtherTakes
    <2>1. born' \in [Snap -> 0 .. MaxTxg] /\ txg' \in 0 .. MaxTxg /\ touched' \subseteq Snap
        BY <1>4, <1>c DEF OtherTakes, TypeOK
    <2> QED
        BY <1>4, <2>1 DEF OtherTakes, TypeOK, Base, Unrouted, Routed, Recursive, Has,
            allSnaps
<1>5. CASE OtherDestroys
    <2>1. born' \in [Snap -> 0 .. MaxTxg] /\ touched' \subseteq Snap
        BY <1>5, <1>c DEF OtherDestroys, TypeOK
    <2> QED
        BY <1>5, <2>1 DEF OtherDestroys, TypeOK, Base, Unrouted, Routed, Recursive,
            Has, allSnaps
<1>6. CASE UNCHANGED vars
    <2>1. Meant' = Meant /\ InOrder' = InOrder
        BY <1>6 DEF vars, Meant, Chosen, Named, Between, Tree, Dependents, Clones,
            Under, SnapsOf, Existing, Recent, Target, Has, InOrder
    <2> QED
        BY <1>6, <2>1 DEF vars, TypeOK, Base, Unrouted, Routed, Recursive, Has, allSnaps
<1> QED
    BY <1>1, <1>3, <1>4, <1>5, <1>6 DEF Next

LEMMA TypeInvariant == Spec => [](TypeOK /\ Base)
<1>1. Init => TypeOK /\ Base
    <2> SUFFICES ASSUME Init PROVE TypeOK /\ Base
        OBVIOUS
    <2>1. PICK p \in Pools : /\ live = p.live /\ born = p.born /\ held = p.held
                             /\ origin = p.origin /\ txg = p.txg
        BY DEF Init
    <2>2. p \in Pool
        BY ConstantsAssumption
    <2>3. /\ live \subseteq Fs /\ born \in [Snap -> 0 .. MaxTxg] /\ held \subseteq Snap
          /\ origin \in [Fs -> Snap \cup {NoOrigin}] /\ txg \in 0 .. MaxTxg
        BY <2>1, <2>2 DEF Pool
    <2>4. Existing \subseteq Objects /\ \A S : Dependents(S) \subseteq Existing
        BY <2>3 DEF Existing, Objects, Dependents, Under, SnapsOf
    <2>5. Meant \subseteq Objects
        BY <2>4 DEF Meant, Chosen
    <2>6. InOrder \in BOOLEAN
        BY DEF InOrder
    <2> QED
        BY <2>3, <2>5, <2>6 DEF Init, TypeOK, Base, Unrouted, Routed
<1> QED
    BY <1>1, TypeStep, PTL DEF Spec

(* Every variable stays in its type: what a request is for, what is left to *)
(* destroy and what was destroyed are objects of the pool's names.         *)
THEOREM TypeCorrect == Spec => []TypeOK
<1>1. TypeOK /\ Base => TypeOK
    OBVIOUS
<1> QED
    BY <1>1, TypeInvariant, PTL

-----------------------------------------------------------------------------
(* How a destroy can fail half-way                                         *)

(* A call that is not recursive removes one object, or a list at once.     *)
Halfway ==
    /\ plan \in {"tree", "one"} /\ ~Recursive => \A x, y \in left : x = y
    /\ pc = "call" /\ removed # {} => req.kind = "rollback" \/ Recursive
    /\ AllOrNothing

LEMMA HalfwayStep == TypeOK /\ Base /\ Halfway /\ [Next]_vars => Halfway'
<1> SUFFICES ASSUME TypeOK, Base, Halfway, [Next]_vars PROVE Halfway'
    OBVIOUS
<1> USE DEF poolVars, history
<1>1. CASE Route
    <2>1. pc = "route" /\ UNCHANGED <<removed, req>> /\ removed = {}
        BY <1>1, RouteKinds DEF Base, Unrouted
    <2>2. plan' \in {"tree", "one"} /\ ~Recursive => \A x, y \in left' : x = y
        <3>1. left = {}
            BY <2>1 DEF Base, Unrouted
        <3> QED
            BY <1>1, <3>1, RouteKinds DEF Starts
    <2> QED
        BY <2>1, <2>2 DEF Halfway, AllOrNothing, Recursive, Has
<1>2. CASE Call
    <2>1. CASE Ends
        BY <2>1 DEF Ends, Halfway, AllOrNothing, Recursive, Has
    <2>2. ASSUME NEW S, NEW B, NEW D, Destroys(S, B, D),
                 req.kind = "rollback" \/ Recursive \/ (left' = {} /\ plan # "rollback")
          PROVE  Halfway'
        BY <2>2 DEF Destroys, Halfway, AllOrNothing, Recursive, Has
    <2>3. CASE plan = "snaps" /\ Destroys((left \cap Existing) \ busyOf(left), busyOf(left), left)
        <3>1. left' = {}
            BY <2>3 DEF Destroys
        <3> QED
            BY <2>2, <2>3, <3>1
    <2>4. ASSUME plan \in {"tree", "one"}, NEW x \in left, Destroys({x}, {}, {x})
          PROVE  Halfway'
        <3>1. ~Recursive => left' = {}
            BY <2>4 DEF Halfway, Destroys
        <3> QED
            BY <2>2, <2>4, <3>1
    <2>5. ASSUME NEW S, NEW B, NEW D, Destroys(S, B, D), plan \in {"each", "rollback"}
          PROVE  Halfway'
        BY <2>2, <2>5 DEF Base, Routed
    <2> QED
        BY <1>2, <2>1, <2>3, <2>4, <2>5, CallKinds
<1>3. CASE OtherTakes \/ OtherDestroys \/ UNCHANGED vars
    BY <1>3 DEF OtherTakes, OtherDestroys, vars, Halfway, AllOrNothing, Recursive, Has
<1> QED
    BY <1>1, <1>2, <1>3 DEF Next

(* Only a recursive destroy, or a rollback, can fail after it has destroyed *)
(* something.                                                              *)
THEOREM AllOrNothingAlways == Spec => []AllOrNothing
<1>1. Init => Halfway
    BY DEF Init, Halfway, AllOrNothing
<1>2. Halfway => AllOrNothing
    BY DEF Halfway
<1> QED
    BY <1>1, <1>2, TypeInvariant, HalfwayStep, PTL DEF Spec

(* What is left of a tree are filesystems there are, with all that is under *)
(* them.                                                                   *)
Rooted ==
    /\ pc = "call" /\ plan = "tree" /\ Recursive =>
          /\ left \subseteq live
          /\ \A f \in left, g \in live : f \in Above[g] => g \in left
    /\ TreeFailsAtSnapshots

(* What is deepest in such a tree has no filesystem under it.              *)
LEMMA DeepestIsLeaf ==
    ASSUME TypeOK, NEW f \in left, left \subseteq live,
           \A g \in live : f \in Above[g] => g \in left,
           Deepest(f)
    PROVE  Under(f) = {f}
<1>1. f \in live /\ f \in Fs /\ live \subseteq Fs
    BY DEF TypeOK
<1>2. ASSUME NEW g \in live, f \in Above[g] PROVE FALSE
    <2>1. /\ IsFiniteSet(Above[g]) /\ IsFiniteSet(Above[f])
          /\ Above[f] \subseteq Above[g] /\ f \notin Above[f]
        BY <1>1, <1>2, ConstantsAssumption
    <2>2. /\ Cardinality(Above[f]) \in Nat /\ Cardinality(Above[g]) \in Nat
          /\ Cardinality(Above[f]) < Cardinality(Above[g])
        BY <1>2, <2>1, FS_Subset, FS_CardinalityType
    <2>3. Cardinality(Above[g]) <= Cardinality(Above[f])
        BY <1>2 DEF Deepest
    <2> QED
        BY <2>2, <2>3
<1> QED
    BY <1>1, <1>2 DEF Under

LEMMA RootedStep == TypeOK /\ Base /\ Rooted /\ [Next]_vars => Rooted'
<1> SUFFICES ASSUME TypeOK, Base, Rooted, [Next]_vars PROVE Rooted'
    OBVIOUS
<1> USE DEF poolVars, history
<1>1. CASE Route
    <2>1. /\ pc = "route" /\ UNCHANGED <<live, req>> /\ verdict' # "failed"
          /\ pc' = "call" => Starts
        BY <1>1, RouteKinds DEF Starts
    <2>2. TreeFailsAtSnapshots'
        BY <2>1 DEF TreeFailsAtSnapshots
    <2>3. ASSUME pc' = "call", plan' = "tree", Recursive
          PROVE  /\ left' \subseteq live'
                 /\ \A f \in left', g \in live' : f \in Above[g] => g \in left'
        <3>1. left' = Under(req.fs) /\ req.fs \in Fs
            BY <2>1, <2>3, RequestType DEF Starts
        <3>2. \A f \in Fs : \A g \in Above[f] : Above[g] \subseteq Above[f]
            BY ConstantsAssumption
        <3> QED
            BY <2>1, <3>1, <3>2 DEF Under, TypeOK
    <2> QED
        BY <2>1, <2>2, <2>3 DEF Rooted, Recursive, Has
<1>2. CASE Call /\ plan = "tree"
    <2>1. DestroyTree
        BY <1>2 DEF Call, DestroySnaps, DestroyEach, DestroyOne, RollbackDestroys, RollsBack
    <2>2. PICK f \in left : /\ Deepest(f)
                            /\ \/ Fails(~Removable(f))
                               \/ pc = "call" /\ Removable(f) /\ Remove({f}) /\ Goes({f})
                                  /\ UNCHANGED doomed
        BY <2>1 DEF DestroyTree
    <2>3. CASE Fails(~Removable(f))
        <3>1. ASSUME ~injected', Recursive PROVE SnapsOf(left) # {}
            <4>1. ~Removable(f) /\ pc = "call"
                BY <2>3, <3>1 DEF Fails
            <4>2. left \subseteq live /\ f \in Fs /\ f \in live
                BY <1>2, <3>1, <4>1 DEF Rooted, TypeOK
            <4>3. Under(f) = {f}
                BY <1>2, <2>2, <3>1, <4>1, <4>2, DeepestIsLeaf DEF Rooted
            <4>4. SnapsOf({f}) # {}
                BY <4>1, <4>2, <4>3 DEF Removable, Existing
            <4> QED
                BY <4>4 DEF SnapsOf
        <3>2. SnapsOf(left)' = SnapsOf(left)
            BY <2>3 DEF Fails, SnapsOf
        <3> QED
            BY <2>3, <3>1, <3>2 DEF Fails, Rooted, TreeFailsAtSnapshots, Recursive, Has
    <2>4. CASE pc = "call" /\ Remove({f}) /\ Goes({f})
        BY <2>4 DEF Remove, Goes, Rooted, TreeFailsAtSnapshots, Recursive, Has
    <2> QED
        BY <2>2, <2>3, <2>4
<1>3. CASE Call /\ plan # "tree"
    <2>1. plan' = plan
        BY <1>3, CallKinds DEF Ends, Destroys
    <2> QED
        BY <1>3, <2>1 DEF Rooted, TreeFailsAtSnapshots
<1>4. CASE OtherTakes \/ OtherDestroys
    BY <1>4 DEF OtherTakes, OtherDestroys, Rooted, TreeFailsAtSnapshots, Recursive, Has,
        Base, Routed
<1>5. CASE UNCHANGED vars
    BY <1>5 DEF vars, Rooted, TreeFailsAtSnapshots, Recursive, Has, SnapsOf
<1> QED
    BY <1>1, <1>2, <1>3, <1>4, <1>5 DEF Next

(* The order of a recursive destroy of filesystems is right for every tree: *)
(* by itself it fails only at a filesystem that has snapshots.             *)
THEOREM TreeOrder == Spec => []TreeFailsAtSnapshots
<1>1. Init => Rooted
    BY DEF Init, Rooted, TreeFailsAtSnapshots
<1>2. Rooted => TreeFailsAtSnapshots
    BY DEF Rooted
<1> QED
    BY <1>1, <1>2, TypeInvariant, RootedStep, PTL DEF Spec

-----------------------------------------------------------------------------
(* Pools                                                                   *)

(* The pool is the consistent one it started as, unless a rollback, which   *)
(* takes clones with their trees, changes it.                              *)
Consistent ==
    plan # "rollback" =>
        /\ \A s \in Snap : born[s] > 0 => s[1] \in live
        /\ \A g \in live : origin[g] # NoOrigin => born[origin[g]] > 0

LEMMA ConsistentStep == TypeOK /\ Base /\ Consistent /\ [Next]_vars => Consistent'
<1> SUFFICES ASSUME TypeOK, Base, Consistent, [Next]_vars, plan' # "rollback"
             PROVE  Consistent'
    BY DEF Consistent
<1> USE DEF poolVars, history
<1>1. CASE Route
    <2>1. plan # "rollback" /\ UNCHANGED poolVars
        BY <1>1, RouteKinds DEF Base, Unrouted
    <2> QED
        BY <2>1 DEF Consistent
<1>2. CASE Call
    <2>1. CASE Ends
        BY <2>1 DEF Ends, Consistent
    <2>2. ASSUME NEW S, NEW B, NEW D, Destroys(S, B, D),
                 S \subseteq Objects,
                 \A x \in S \cap Fs : SnapsOf({x}) = {},
                 \A x \in S \cap Snap : Clones({x}) = {}
          PROVE  Consistent'
        <3>1. /\ plan # "rollback" /\ live' = live \ S
              /\ \A s \in Snap : born'[s] = IF s \in S THEN 0 ELSE born[s]
              /\ \A g \in Fs : origin'[g] = IF g \in S THEN NoOrigin ELSE origin[g]
            BY <2>2 DEF Destroys, Remove
        <3>2. ASSUME NEW s \in Snap, born'[s] > 0 PROVE s[1] \in live'
            <4>1. born[s] > 0 /\ s[1] \in live /\ s[1] \in Fs
                BY <3>1, <3>2 DEF Consistent, TypeOK
            <4>2. s[1] \notin S
                BY <2>2, <4>1 DEF SnapsOf
            <4> QED
                BY <3>1, <4>1, <4>2
        <3>3. ASSUME NEW g \in live', origin'[g] # NoOrigin PROVE born'[origin'[g]] > 0
            <4>1. /\ g \in live /\ g \in Fs /\ origin'[g] = origin[g]
                  /\ origin[g] \in Snap
                BY <3>1, <3>3 DEF TypeOK
            <4>2. origin[g] \notin S
                BY <2>2, <4>1 DEF Clones
            <4> QED
                BY <3>1, <3>3, <4>1, <4>2 DEF Consistent
        <3> QED
            BY <3>2, <3>3 DEF Consistent
    <2>3. ASSUME NEW S, S \subseteq Snap
          PROVE  /\ (S \cap Existing) \ busyOf(S) \subseteq Objects
                 /\ ((S \cap Existing) \ busyOf(S)) \cap Fs = {}
                 /\ \A x \in (S \cap Existing) \ busyOf(S) : Clones({x}) = {}
        BY <2>3, ConstantsAssumption DEF busyOf, Busy, Objects
    <2>4. CASE plan = "snaps" /\ Destroys((left \cap Existing) \ busyOf(left), busyOf(left), left)
        <3>1. left \subseteq Snap
            BY <2>4 DEF Base, Routed
        <3> QED
            BY <2>2, <2>3, <2>4, <3>1
    <2>5. ASSUME plan = "each", NEW s \in left,
                 NEW S \in {{s}, {<<g, s[2]>> : g \in Under(s[1])}},
                 Destroys((S \cap Existing) \ busyOf(S), busyOf(S), {s})
          PROVE  Consistent'
        <3>1. s \in Snap
            BY <2>5 DEF Base, Routed
        <3>2. S \subseteq Snap
            BY <2>5, <3>1, Types DEF Snap, TypeOK
        <3> QED
            BY <2>2, <2>3, <2>5, <3>2
    <2>6. ASSUME NEW x \in left, Removable(x), Destroys({x}, {}, {x})
          PROVE  Consistent'
        <3>1. x \in Objects /\ (x \in Fs => SnapsOf({x}) = {})
            BY <2>6 DEF TypeOK, Removable
        <3>2. x \in Snap => Clones({x}) = {}
            BY <2>6, ConstantsAssumption DEF Removable, Busy
        <3> QED
            BY <2>2, <2>6, <3>1, <3>2
    <2>7. plan' = plan
        BY <1>2, CallKinds DEF Ends, Destroys
    <2> QED
        BY <1>2, <2>1, <2>4, <2>5, <2>6, <2>7, CallKinds
<1>3. CASE OtherTakes
    <2>1. PICK s \in Snap : s[1] \in live /\ born' = [born EXCEPT ![s] = txg + 1]
        BY <1>3 DEF OtherTakes
    <2>2. UNCHANGED <<live, origin, plan>> /\ txg + 1 > 0
        BY <1>3, ConstantsAssumption DEF OtherTakes, TypeOK
    <2> QED
        BY <2>1, <2>2 DEF Consistent, TypeOK
<1>4. CASE OtherDestroys
    <2>1. PICK s \in Snap : ~Busy(s) /\ born' = [born EXCEPT ![s] = 0]
        BY <1>4 DEF OtherDestroys
    <2>2. UNCHANGED <<live, origin, plan>>
        BY <1>4 DEF OtherDestroys
    <2>3. \A g \in live : origin[g] # s
        BY <2>1 DEF Busy, Clones
    <2> QED
        BY <2>1, <2>2, <2>3 DEF Consistent, TypeOK
<1>5. CASE UNCHANGED vars
    BY <1>5 DEF vars, Consistent
<1> QED
    BY <1>1, <1>2, <1>3, <1>4, <1>5 DEF Next

LEMMA ConsistentInvariant == Spec => []Consistent
<1>1. Init => Consistent
    <2> SUFFICES ASSUME Init PROVE Consistent
        OBVIOUS
    <2>1. PICK p \in Pools : live = p.live /\ born = p.born /\ origin = p.origin
        BY DEF Init
    <2>2. Sound(p)
        BY ConstantsAssumption
    <2> QED
        BY <2>1, <2>2 DEF Sound, Consistent
<1> QED
    BY <1>1, TypeInvariant, ConsistentStep, PTL DEF Spec

-----------------------------------------------------------------------------
(* Nothing is destroyed that was not asked for                             *)

Exempt ==
    \/ Has("dryRun")
    \/ req.kind = "range" /\ ~ordered
    \/ req.kind = "rollback" /\ req.flags # {} /\ ~Has("destroyClones")

(* What the calls still to be made may destroy.                            *)
Reach ==
    left \cup (IF plan = "each" THEN {<<g, req.from>> : g \in Under(req.fs)} ELSE {})
         \cup (IF plan = "rollback" THEN Dependents(left) ELSE {})

(* All of it was asked for, or is somebody's new snapshot.                 *)
Justified ==
    ~Exempt => removed \cup (Reach \cap Existing) \subseteq asked \cup touched

(* The snapshots a recursive destroy has left have the requested name and   *)
(* are of the requested filesystem or under it.                            *)
SameName ==
    plan = "each" =>
        \A s \in left : s[2] = req.from /\ (s[1] = req.fs \/ req.fs \in Above[s[1]])

(* Larger sets of snapshots have more dependents.                          *)
LEMMA DependentsGrow ==
    ASSUME NEW S, NEW T, S \subseteq T
    PROVE  Dependents(S) \subseteq Dependents(T)
<1>1. Clones(S) \subseteq Clones(T)
    BY DEF Clones
<1>2. UNION {Under(g) : g \in Clones(S)} \subseteq UNION {Under(g) : g \in Clones(T)}
    BY <1>1
<1> QED
    BY <1>2 DEF Dependents, SnapsOf

LEMMA NoDependents == Dependents({}) = {}
BY DEF Dependents, Clones, SnapsOf

(* In a pool that only grows by the snapshots N, and with less left to do,  *)
(* only those can come within reach.                                       *)
LEMMA ReachShrinks ==
    ASSUME TypeOK, Base, NEW N,
           live' \subseteq live,
           \A s \in Snap : born'[s] > 0 => born[s] > 0 \/ s \in N,
           \A g \in live' : origin'[g] \in {origin[g], NoOrigin},
           left' \subseteq left, UNCHANGED <<plan, req>>
    PROVE  (Reach \cap Existing)' \subseteq (Reach \cap Existing) \cup N
<1>1. Existing' \subseteq Existing \cup N
    BY DEF Existing
<1>2. \A g : Under(g)' \subseteq Under(g)
    BY DEF Under
<1>3. plan = "rollback" => Clones(left)' \subseteq Clones(left)
    <2>1. plan = "rollback" => NoOrigin \notin left
        BY ConstantsAssumption DEF Base, Routed, Objects
    <2> QED
        BY <2>1 DEF Clones
<1>4. plan = "rollback" => Dependents(left)' \subseteq Dependents(left) \cup N
    <2> SUFFICES ASSUME plan = "rollback"
                 PROVE  Dependents(left)' \subseteq Dependents(left) \cup N
        OBVIOUS
    <2> DEFINE trees == UNION {Under(g) : g \in Clones(left)}
    <2>1. Dependents(left) = trees \cup SnapsOf(trees)
        BY DEF Dependents
    <2>2. Dependents(left)' = trees' \cup SnapsOf(trees)'
        BY DEF Dependents
    <2>3. trees' \subseteq trees
        BY <1>2, <1>3
    <2>4. SnapsOf(trees)' \subseteq SnapsOf(trees) \cup N
        BY <2>3 DEF SnapsOf
    <2> QED
        BY <2>1, <2>2, <2>3, <2>4
<1> QED
    BY <1>1, <1>2, <1>4 DEF Reach

LEMMA SameNameStep == TypeOK /\ Base /\ SameName /\ [Next]_vars => SameName'
<1> SUFFICES ASSUME TypeOK, Base, SameName, [Next]_vars PROVE SameName'
    OBVIOUS
<1> USE DEF poolVars, history
<1>1. CASE Route
    <2>1. pc = "route" /\ UNCHANGED req /\ (plan' = "each" => Starts)
        BY <1>1, RouteKinds DEF Base, Unrouted
    <2> QED
        BY <2>1 DEF Starts, SameName, Under
<1>2. CASE Call
    <2>1. left' \subseteq left /\ UNCHANGED <<plan, req>>
        BY <1>2, CallKinds DEF Ends, Destroys
    <2> QED
        BY <2>1 DEF SameName
<1>3. CASE OtherTakes \/ OtherDestroys \/ UNCHANGED vars
    BY <1>3 DEF OtherTakes, OtherDestroys, vars, SameName
<1> QED
    BY <1>1, <1>2, <1>3 DEF Next

(* Every snapshot a call of a recursive destroy takes is within reach.      *)
LEMMA EachInReach ==
    ASSUME TypeOK, Base, SameName, plan = "each", NEW s \in left,
           NEW S \in {{s}, {<<g, s[2]>> : g \in Under(s[1])}}
    PROVE  S \subseteq Reach
<1>1. CASE S = {s}
    BY <1>1 DEF Reach
<1>2. CASE S = {<<g, s[2]>> : g \in Under(s[1])}
    <2>1. s \in Snap /\ s[1] \in Fs
        BY DEF Base, Routed, Snap
    <2>2. Under(s[1]) \subseteq Under(req.fs)
        <3>1. \A f \in Fs : \A g \in Above[f] : Above[g] \subseteq Above[f]
            BY ConstantsAssumption
        <3> QED
            BY <2>1, <3>1 DEF SameName, Under, TypeOK
    <2>3. s[2] = req.from
        BY DEF SameName
    <2> QED
        BY <1>2, <2>2, <2>3 DEF Reach
<1> QED
    BY <1>1, <1>2

(* What a request becomes is within what it means.                         *)
LEMMA RoutedIsMeant ==
    ASSUME TypeOK, Base, Consistent, pc = "route", Starts, ~Exempt,
           UNCHANGED <<poolVars, req>>
    PROVE  Reach' \cap Existing \subseteq Meant
<1> USE DEF poolVars
<1>1. /\ req.fs \in Fs /\ req.from \in Names /\ req.to \in Names
      /\ Target \in Snap /\ Target = <<req.fs, req.from>>
    BY RequestType, Types DEF Target
<1>2. /\ Chosen \subseteq Meant
      /\ Has("descendants") \/ Has("destroyClones") => Dependents(Chosen) \subseteq Meant
    BY DEF Exempt, Meant
<1>3. \A g : Under(g)' = Under(g)
    BY DEF Under
<1>r. plan' \notin {"each", "rollback"} => Reach' = left'
    BY DEF Reach
<1>t. Tree(req.fs) = IF Recursive THEN Under(req.fs) ELSE {req.fs}
    BY DEF Tree, Recursive
<1>4. CASE /\ plan' = "snaps" /\ req.kind = "range"
           /\ left' = {s \in SnapsOf({req.fs}) : snapshotInRange(s[2])}
    <2>1. Target \in Existing /\ <<req.fs, req.to>> \in Existing
        BY <1>4 DEF Exempt, Base, Unrouted, InOrder
    <2>2. /\ Target \in SnapsOf({req.fs}) /\ <<req.fs, req.to>> \in SnapsOf({req.fs})
        BY <1>1, <2>1, ConstantsAssumption DEF Existing, SnapsOf, Snap, TypeOK
    <2>3. \A s, t \in SnapsOf({req.fs}) : s[2] < t[2] => born[s] < born[t]
        BY <1>4 DEF Exempt, Base, Unrouted, InOrder
    <2>4. ASSUME NEW s \in left' PROVE s \in Chosen
        <3>1. /\ s \in SnapsOf({req.fs}) /\ s \in Snap /\ born[s] > 0 /\ s[1] = req.fs
              /\ s = <<req.fs, s[2]>> /\ s[2] \in Names
              /\ req.from <= s[2] /\ s[2] <= req.to
            BY <1>4, <2>4 DEF SnapsOf, Snap, snapshotInRange
        <3>2. req.from \in Nat /\ req.to \in Nat /\ s[2] \in Nat
            BY <1>1, <3>1, ConstantsAssumption
        <3>3. /\ born[s] \in Nat /\ born[Target] \in Nat /\ born[<<req.fs, req.to>>] \in Nat
              /\ born[Target] > 0
            BY <1>1, <2>2, <3>1, ConstantsAssumption DEF TypeOK, SnapsOf
        <3>4. born[Target] <= born[s]
            <4>1. CASE req.from = s[2]
                BY <1>1, <3>1, <3>3, <4>1
            <4>2. CASE req.from < s[2]
                <5>1. Target[2] = req.from
                    BY <1>1
                <5>2. Target[2] < s[2] /\ Target \in SnapsOf({req.fs})
                    BY <2>2, <4>2, <5>1
                <5>3. born[Target] < born[s]
                    BY <2>3, <3>1, <5>2
                <5> QED
                    BY <3>3, <5>3
            <4> QED
                BY <3>1, <3>2, <4>1, <4>2
        <3>5. born[s] <= born[<<req.fs, req.to>>]
            <4>1. CASE req.to = s[2]
                BY <3>1, <3>3, <4>1
            <4>2. CASE s[2] < req.to
                BY <2>2, <2>3, <3>1, <3>3, <4>2
            <4> QED
                BY <3>1, <3>2, <4>1, <4>2
        <3>6. s \in Between(req.fs)
            BY <1>1, <3>1, <3>3, <3>4, <3>5 DEF Between
        <3>7. req.fs \in Tree(req.fs)
            <4>1. plan # "rollback"
                BY DEF Base, Unrouted
            <4>2. req.fs \in live
                BY <3>1, <4>1 DEF Consistent
            <4> QED
                BY <1>t, <4>2 DEF Under
        <3> QED
            BY <1>4, <3>1, <3>6, <3>7, Types DEF Chosen
    <2> QED
        BY <1>2, <1>4, <1>r, <2>4
<1>5. CASE /\ plan' = "snaps" /\ allSnaps /\ ~Recursive
           /\ left' = {Target} \cup req.names
    <2>1. ASSUME NEW s \in left' PROVE s \in Named
        <3>1. s \in (req.names \cap Snap) \cup {Target} /\ req.kind = "snapshot"
            BY <1>5, <2>1 DEF allSnaps
        <3>2. s \in Snap /\ s = <<s[1], s[2]>> /\ s[1] \in Tree(s[1])
            BY <1>1, <1>5, <3>1 DEF Snap, Tree, Recursive
        <3> QED
            BY <3>1, <3>2 DEF Named
    <2> QED
        BY <1>2, <1>5, <1>r, <2>1 DEF Chosen
<1>6. CASE /\ plan' = "each" /\ req.kind = "snapshot" /\ Recursive
           /\ left' = {<<g, req.from>> :
                         g \in IF Has("recursive") THEN Under(req.fs) ELSE {req.fs}}
    <2>1. {<<g, req.from>> : g \in Under(req.fs)} \subseteq Named
        BY <1>1, <1>6, <1>t DEF Named
    <2>2. \A s \in left' \cap Existing : s \in {<<g, req.from>> : g \in Under(req.fs)}
        <3>1. Target \in Existing => req.fs \in Under(req.fs)
            <4>1. plan # "rollback"
                BY DEF Base, Unrouted
            <4> QED
                BY <1>1, <4>1, ConstantsAssumption DEF Consistent, Existing, Under, TypeOK
        <3> QED
            BY <1>1, <1>6, <3>1
    <2>3. Reach' = left' \cup {<<g, req.from>> : g \in Under(req.fs)}
        BY <1>3, <1>6 DEF Reach
    <2> QED
        BY <1>2, <2>1, <2>2, <2>3 DEF Chosen
<1>7. CASE /\ plan' = "tree" /\ req.kind = "dataset"
           /\ left' = IF Recursive THEN Under(req.fs) ELSE {req.fs}
    BY <1>2, <1>7, <1>r, <1>t DEF Chosen
<1>8. CASE /\ plan' = "one" /\ req.kind \in {"snapshot", "dataset"} /\ ~Recursive
           /\ left' = {IF req.kind = "dataset" THEN req.fs ELSE Target}
    <2>1. CASE req.kind = "dataset"
        BY <1>2, <1>8, <1>r, <1>t, <2>1 DEF Chosen
    <2>2. CASE req.kind = "snapshot"
        <3>1. Target \in Named
            BY <1>1, <1>8, <1>t, <2>2 DEF Named
        <3> QED
            BY <1>2, <1>8, <1>r, <2>2, <3>1 DEF Chosen
    <2> QED
        BY <1>8, <2>1, <2>2
<1>9. CASE /\ plan' = "rollback" /\ req.kind = "rollback"
           /\ left' = IF needsLibzfsRollback THEN Recent ELSE {}
    <2>1. \A S : Dependents(S)' = Dependents(S')
        BY DEF Dependents, Clones, Under, SnapsOf
    <2>2. Reach' = left' \cup Dependents(left)'
        BY <1>9 DEF Reach
    <2>3. CASE left' = {}
        BY <2>1, <2>2, <2>3, NoDependents
    <2>4. CASE left' = Recent /\ Has("destroyClones")
        <3>1. Recent \subseteq Chosen
            BY <1>9, <2>4, Types DEF Chosen, Recent
        <3> QED
            BY <1>2, <2>1, <2>2, <2>4, <3>1, DependentsGrow
    <2> QED
        BY <1>9, <2>3, <2>4 DEF Exempt, needsLibzfsRollback, Has
<1> QED
    BY <1>4, <1>5, <1>6, <1>7, <1>8, <1>9 DEF Starts

LEMMA JustifiedStep ==
    TypeOK /\ Base /\ Consistent /\ SameName /\ Justified /\ [Next]_vars => Justified'
<1> SUFFICES ASSUME TypeOK, Base, Consistent, SameName, Justified, [Next]_vars
             PROVE  Justified'
    OBVIOUS
<1> USE DEF poolVars, history
<1>1. CASE Route
    <2>1. /\ pc = "route" /\ UNCHANGED <<poolVars, req, history>>
          /\ Exempt' = Exempt /\ Existing' = Existing
        BY <1>1, RouteKinds DEF Exempt, Has, Existing
    <2>2. removed = {} /\ asked = Meant
        BY <2>1 DEF Base, Unrouted
    <2>3. CASE UNCHANGED <<plan, left>>
        <3>1. plan = "none" /\ left = {}
            BY <2>1 DEF Base, Unrouted
        <3> QED
            BY <2>1, <2>2, <2>3, <3>1 DEF Justified, Reach
    <2>4. CASE Starts /\ ~Exempt
        <3>1. Reach' \cap Existing \subseteq Meant
            BY <2>1, <2>4, RoutedIsMeant
        <3> QED
            BY <2>1, <2>2, <3>1 DEF Justified
    <2>5. CASE Exempt
        BY <2>1, <2>5 DEF Justified
    <2> QED
        BY <1>1, <2>3, <2>4, <2>5, RouteKinds
<1>2. ASSUME NEW S, NEW B, NEW D, Destroys(S, B, D), S \subseteq Reach \cap Existing
      PROVE  Justified'
    <2>1. /\ live' \subseteq live /\ left' \subseteq left /\ UNCHANGED <<plan, req>>
          /\ removed' = removed \cup S /\ UNCHANGED <<asked, ordered, touched>>
          /\ \A s \in Snap : born'[s] > 0 => born[s] > 0 \/ s \in {}
          /\ \A g \in Fs : origin'[g] \in {origin[g], NoOrigin}
        BY <1>2 DEF Destroys, Remove
    <2>2. live' \subseteq Fs
        BY <2>1 DEF TypeOK
    <2>3. (Reach \cap Existing)' \subseteq (Reach \cap Existing) \cup {}
        BY <2>1, <2>2, ReachShrinks
    <2> QED
        BY <1>2, <2>1, <2>3 DEF Justified, Exempt, Has
<1>3. CASE Call
    <2>1. CASE Ends
        BY <2>1 DEF Ends, Justified, Exempt, Has, Reach, Existing, Dependents, Clones,
            Under, SnapsOf
    <2>2. left \subseteq Reach
        BY DEF Reach
    <2>3. CASE plan = "snaps" /\ Destroys((left \cap Existing) \ busyOf(left), busyOf(left), left)
        BY <1>2, <2>2, <2>3
    <2>4. ASSUME plan = "each", NEW s \in left,
                 NEW S \in {{s}, {<<g, s[2]>> : g \in Under(s[1])}},
                 Destroys((S \cap Existing) \ busyOf(S), busyOf(S), {s})
          PROVE  Justified'
        <3>1. S \subseteq Reach
            BY <2>4, EachInReach
        <3> QED
            BY <1>2, <2>4, <3>1
    <2>5. ASSUME NEW x \in left, Removable(x), Destroys({x}, {}, {x})
          PROVE  Justified'
        BY <1>2, <2>2, <2>5 DEF Removable
    <2>6. ASSUME plan = "rollback", NEW s \in left,
                 Destroys(({s} \cup Dependents({s})) \cap Existing, {}, {s})
          PROVE  Justified'
        <3>1. Dependents({s}) \subseteq Dependents(left)
            BY <2>6, DependentsGrow
        <3>2. {s} \cup Dependents({s}) \subseteq Reach
            BY <2>2, <2>6, <3>1 DEF Reach
        <3> QED
            BY <1>2, <2>6, <3>2
    <2>7. CASE Destroys({}, {}, {})
        BY <1>2, <2>7
    <2> QED
        BY <1>3, <2>1, <2>3, <2>4, <2>5, <2>6, <2>7, CallKinds
<1>4. CASE OtherTakes
    <2>1. PICK s \in Snap : /\ born' = [born EXCEPT ![s] = txg + 1]
                            /\ touched' = touched \cup {s}
        BY <1>4 DEF OtherTakes
    <2>2. UNCHANGED <<live, origin, plan, left, req, removed, asked, ordered>>
        BY <1>4 DEF OtherTakes
    <2>3. \A t \in Snap : born'[t] > 0 => born[t] > 0 \/ t \in {s}
        BY <2>1 DEF TypeOK
    <2>4. (Reach \cap Existing)' \subseteq (Reach \cap Existing) \cup {s}
        BY <2>2, <2>3, ReachShrinks
    <2> QED
        BY <2>1, <2>2, <2>4 DEF Justified, Exempt, Has
<1>5. CASE OtherDestroys
    <2>1. PICK s \in Snap : /\ born' = [born EXCEPT ![s] = 0]
                            /\ touched' = touched \cup {s}
        BY <1>5 DEF OtherDestroys
    <2>2. UNCHANGED <<live, origin, plan, left, req, removed, asked, ordered>>
        BY <1>5 DEF OtherDestroys
    <2>3. \A t \in Snap : born'[t] > 0 => born[t] > 0 \/ t \in {}
        BY <2>1 DEF TypeOK
    <2>4. (Reach \cap Existing)' \subseteq (Reach \cap Existing) \cup {}
        BY <2>2, <2>3, ReachShrinks
    <2> QED
        BY <2>1, <2>2, <2>4 DEF Justified, Exempt, Has
<1>6. CASE UNCHANGED vars
    BY <1>6 DEF vars, Justified, Exempt, Has, Reach, Existing, Dependents, Clones,
        Under, SnapsOf
<1> QED
    BY <1>1, <1>3, <1>4, <1>5, <1>6 DEF Next

LEMMA JustifiedInvariant == Spec => [](SameName /\ Justified)
<1>1. Init => SameName /\ Justified
    BY DEF Init, SameName, Justified, Reach
<1> QED
    BY <1>1, TypeInvariant, ConsistentInvariant, SameNameStep, JustifiedStep, PTL
       DEF Spec

(* Whatever others do to the pool between the calls, no destroy and no      *)
(* rollback removes what its request did not mean, outside of the           *)
(* divergences the runs show.                                              *)
THEOREM NothingElse == Spec => []NoCollateral
<1>1. Justified => NoCollateral
    BY DEF Justified, Exempt, NoCollateral
<1> QED
    BY <1>1, JustifiedInvariant, PTL

-----------------------------------------------------------------------------
(* What is gone after a success                                            *)

Unread == NamesUnread \/ TreeUnread \/ RangeUnread

(* The snapshots of the filesystems left.                                  *)
LeftSnaps == {s \in Snap : s[1] \in left}

(* What the calls still to be made destroy, or else fail.                  *)
Pending ==
    left \cup (IF plan = "each" /\ ~Has("defer") THEN Dependents(left) ELSE {})
         \cup (IF plan = "tree" THEN LeftSnaps \cup Dependents(LeftSnaps) ELSE {})
         \cup (IF plan = "rollback" THEN Dependents(left) ELSE {})

Gone ==
    /\ verdict = "ok" => left = {}
    /\ pc # "route" /\ verdict \in {"none", "ok"} /\ ~Unread =>
         asked \cap Existing \subseteq touched \cup doomed \cup Pending

(* The filesystems a recursive destroy of snapshots has left are there.     *)
OfLive ==
    plan = "each" /\ Has("recursive") => \A s \in left : s[1] \in live

(* A call made for snapshots leaves the filesystems alone.                 *)
LEMMA SnapshotsOnly ==
    ASSUME TypeOK, Base, NEW S, S \subseteq Snap, NEW B, NEW D, Destroys(S, B, D)
    PROVE  live' = live /\ origin' = origin
<1>1. Fs \cap Snap = {}
    BY ConstantsAssumption
<1>2. live' = live
    BY <1>1 DEF Destroys, Remove, TypeOK
<1>3. /\ origin \in [Fs -> Snap \cup {NoOrigin}]
      /\ origin' = [g \in Fs |-> origin[g]]
    BY <1>1 DEF Destroys, Remove, TypeOK
<1> QED
    BY <1>2, <1>3

LEMMA EachOfSnapshots ==
    ASSUME TypeOK, Base, plan = "each", NEW s \in left,
           NEW S \in {{s}, {<<g, s[2]>> : g \in Under(s[1])}}
    PROVE  S \subseteq Snap
<1>1. s \in Snap
    BY DEF Base, Routed
<1> QED
    BY <1>1, Types DEF Snap, TypeOK

LEMMA OfLiveStep == TypeOK /\ Base /\ OfLive /\ [Next]_vars => OfLive'
<1> SUFFICES ASSUME TypeOK, Base, OfLive, [Next]_vars PROVE OfLive'
    OBVIOUS
<1> USE DEF poolVars, history
<1>1. CASE Route
    <2>1. pc = "route" /\ UNCHANGED <<req, live>> /\ (plan' = "each" => Starts)
        BY <1>1, RouteKinds DEF Base, Unrouted
    <2> QED
        BY <2>1 DEF Starts, OfLive, Under, Has
<1>2. CASE Call
    <2>1. plan' = plan /\ req' = req /\ left' \subseteq left
        BY <1>2, CallKinds DEF Ends, Destroys
    <2>2. plan = "each" => live' = live
        <3>1. CASE Ends
            BY <3>1 DEF Ends
        <3>2. ASSUME plan = "each", NEW s \in left,
                     NEW S \in {{s}, {<<g, s[2]>> : g \in Under(s[1])}},
                     Destroys((S \cap Existing) \ busyOf(S), busyOf(S), {s})
              PROVE  live' = live
            <4>1. (S \cap Existing) \ busyOf(S) \subseteq Snap
                BY <3>2, EachOfSnapshots
            <4> QED
                BY <3>2, <4>1, SnapshotsOnly
        <3> QED
            BY <1>2, <3>1, <3>2, CallKinds
    <2> QED
        BY <2>1, <2>2 DEF OfLive, Has
<1>3. CASE OtherTakes \/ OtherDestroys \/ UNCHANGED vars
    BY <1>3 DEF OtherTakes, OtherDestroys, vars, OfLive, Has
<1> QED
    BY <1>1, <1>2, <1>3 DEF Next

(* What a request means is among what it becomes, if it is read.           *)
LEMMA MeantIsRouted ==
    ASSUME TypeOK, Base, Consistent, pc = "route", Starts, ~Unread,
           UNCHANGED <<poolVars, req>>
    PROVE  Meant \subseteq Pending'
<1> USE DEF poolVars
<1>1. /\ req.fs \in Fs /\ req.from \in Names /\ req.to \in Names
      /\ Target \in Snap /\ Target = <<req.fs, req.from>>
      /\ req.names \subseteq Objects
      /\ Existing \subseteq Objects /\ Fs \cap Snap = {} /\ NoOrigin \notin Objects
    BY RequestType, Types, ConstantsAssumption DEF Target
<1>2. req.kind # "rollback" => ~Has("destroyClones")
    BY RequestType
<1>l. left' \subseteq Pending'
    BY DEF Pending
<1>d. \A S : Dependents(S)' = Dependents(S)
    BY DEF Dependents, Clones, Under, SnapsOf
<1>t. /\ Tree(req.fs) = IF Recursive THEN Under(req.fs) ELSE {req.fs}
      /\ ~Recursive => \A f : Tree(f) = {f}
    BY DEF Tree, Recursive
<1>m. Meant \subseteq Chosen \cup
          (IF Has("descendants") \/ Has("destroyClones") THEN Dependents(Chosen) ELSE {})
    BY DEF Meant
<1>3. CASE /\ plan' = "snaps" /\ req.kind = "range"
           /\ left' = {s \in SnapsOf({req.fs}) : snapshotInRange(s[2])}
    <2>1. ~Recursive /\ ordered /\ req.names = {}
        BY <1>3 DEF Unread, RangeUnread, NamesUnread, allSnaps, Recursive
    <2>2. Chosen \subseteq Between(req.fs)
        BY <1>3, <1>t, <2>1 DEF Chosen, Named
    <2>3. InOrder
        BY <2>1 DEF Base, Unrouted
    <2>4. /\ Target \in SnapsOf({req.fs}) /\ <<req.fs, req.to>> \in SnapsOf({req.fs})
          /\ \A s, t \in SnapsOf({req.fs}) : s[2] < t[2] => born[s] < born[t]
        <3>1. Target \in Existing /\ <<req.fs, req.to>> \in Existing
            BY <1>3, <2>3 DEF InOrder
        <3>2. Target \in SnapsOf({req.fs}) /\ <<req.fs, req.to>> \in SnapsOf({req.fs})
            BY <1>1, <3>1 DEF Existing, SnapsOf, Snap, TypeOK
        <3> QED
            BY <2>3, <3>2 DEF InOrder
    <2>5. ASSUME NEW s \in Between(req.fs) PROVE s \in left'
        <3>1. /\ s \in SnapsOf({req.fs}) /\ s[2] \in Names
              /\ born[Target] <= born[s] /\ born[s] <= born[<<req.fs, req.to>>]
            BY <1>1, <2>5 DEF Between, SnapsOf, Snap
        <3>2. /\ born[s] \in Nat /\ born[Target] \in Nat /\ born[<<req.fs, req.to>>] \in Nat
            BY <1>1, <2>4, <3>1, ConstantsAssumption DEF TypeOK, SnapsOf
        <3>3. req.from \in Nat /\ req.to \in Nat /\ s[2] \in Nat
            BY <1>1, <3>1, ConstantsAssumption
        <3>4. ~(s[2] < req.from)
            <4>1. s[2] < Target[2] => born[s] < born[Target]
                BY <2>4, <3>1
            <4> QED
                BY <1>1, <3>1, <3>2, <4>1
        <3>5. ~(req.to < s[2])
            <4>1. <<req.fs, req.to>>[2] < s[2] => born[<<req.fs, req.to>>] < born[s]
                BY <2>4, <3>1
            <4> QED
                BY <3>1, <3>2, <4>1
        <3> QED
            BY <1>3, <3>1, <3>3, <3>4, <3>5 DEF snapshotInRange
    <2> QED
        BY <1>2, <1>3, <1>l, <1>m, <2>1, <2>2, <2>5 DEF Recursive
<1>4. CASE /\ plan' = "snaps" /\ allSnaps /\ ~Recursive
           /\ left' = {Target} \cup req.names
    <2>1. req.kind = "snapshot" /\ req.names \subseteq Snap
        BY <1>4 DEF allSnaps
    <2>2. Named \subseteq left'
        <3>1. \A s \in Snap : s = <<s[1], s[2]>>
            BY DEF Snap
        <3> QED
            BY <1>1, <1>4, <1>t, <2>1, <3>1 DEF Named
    <2>3. Chosen \subseteq left'
        BY <1>1, <2>1, <2>2 DEF Chosen
    <2> QED
        BY <1>2, <1>4, <1>l, <1>m, <2>1, <2>3 DEF Recursive
<1>5. CASE /\ plan' = "each" /\ req.kind = "snapshot" /\ Recursive
           /\ left' = {<<g, req.from>> :
                         g \in IF Has("recursive") THEN Under(req.fs) ELSE {req.fs}}
    <2>1. /\ Has("recursive") /\ (Has("descendants") => ~Has("defer"))
          /\ req.names = {}
        BY <1>5 DEF Unread, TreeUnread, NamesUnread, needsLibzfsDestroy, Recursive
    <2>2. Chosen \subseteq left'
        BY <1>1, <1>5, <1>t, <2>1 DEF Chosen, Named
    <2>3. Has("descendants") => Dependents(Chosen) \subseteq Pending'
        BY <1>5, <1>d, <2>1, <2>2, DependentsGrow DEF Pending, Has
    <2> QED
        BY <1>2, <1>5, <1>l, <1>m, <2>2, <2>3
<1>6. CASE /\ plan' = "tree" /\ req.kind = "dataset"
           /\ left' = IF Recursive THEN Under(req.fs) ELSE {req.fs}
    <2>1. req.names = {}
        BY <1>6 DEF Unread, NamesUnread, allSnaps
    <2>2. Chosen \subseteq left' \cup LeftSnaps'
        BY <1>6, <1>t, <2>1 DEF Chosen, Named, Recursive, SnapsOf, LeftSnaps
    <2>3. Clones(Chosen) \subseteq Clones(LeftSnaps')
        <3>1. left' \subseteq Fs
            BY <1>1, <1>6, Types DEF TypeOK
        <3>2. \A g \in live : origin[g] \in Snap \cup {NoOrigin}
            BY DEF TypeOK
        <3> QED
            BY <1>1, <2>2, <3>1, <3>2 DEF Clones, Objects
    <2>4. Dependents(Chosen) \subseteq Dependents(LeftSnaps')
        <3>1. UNION {Under(g) : g \in Clones(Chosen)}
                  \subseteq UNION {Under(g) : g \in Clones(LeftSnaps')}
            BY <2>3
        <3> QED
            BY <3>1 DEF Dependents, SnapsOf
    <2>5. LeftSnaps' \cup Dependents(LeftSnaps') \subseteq Pending'
        BY <1>6, <1>d DEF Pending
    <2> QED
        BY <1>l, <1>m, <2>2, <2>4, <2>5
<1>7. CASE /\ plan' = "one" /\ req.kind \in {"snapshot", "dataset"} /\ ~Recursive
           /\ ~allSnaps
           /\ left' = {IF req.kind = "dataset" THEN req.fs ELSE Target}
    <2>1. req.names = {} /\ req.kind = "dataset"
        BY <1>7 DEF Unread, NamesUnread, allSnaps
    <2>2. Chosen \subseteq left'
        BY <1>7, <1>t, <2>1 DEF Chosen, Named, Recursive
    <2> QED
        BY <1>2, <1>7, <1>l, <1>m, <2>1, <2>2 DEF Recursive
<1>8. CASE /\ plan' = "rollback" /\ req.kind = "rollback"
           /\ left' = IF needsLibzfsRollback THEN Recent ELSE {}
    <2>1. req.names = {} /\ ~Recursive
        BY <1>8, RequestType
    <2>2. Chosen \subseteq left'
        BY <1>8, <2>1 DEF Chosen, Named, needsLibzfsRollback
    <2>3. Dependents(Chosen) \subseteq Pending'
        BY <1>8, <1>d, <2>2, DependentsGrow DEF Pending
    <2> QED
        BY <1>l, <1>m, <2>2, <2>3
<1> QED
    BY <1>3, <1>4, <1>5, <1>6, <1>7, <1>8 DEF Starts

(* Snapshots that come and go leave what is pending pending.               *)
LEMMA PendingStays ==
    ASSUME TypeOK, UNCHANGED <<live, origin, left, plan, req>>,
           NEW x \in Pending, x \in Existing'
    PROVE  x \in Pending'
<1>1. Fs \cap Snap = {} /\ live \subseteq Fs
    BY ConstantsAssumption DEF TypeOK
<1>2. ASSUME NEW S, x \in Dependents(S) PROVE x \in Dependents(S)'
    BY <1>1, <1>2 DEF Dependents, Clones, Under, SnapsOf, Existing
<1> QED
    BY <1>2 DEF Pending, LeftSnaps, Has

(* What is destroyed no longer exists.                                     *)
LEMMA Removed ==
    ASSUME TypeOK, NEW S, NEW B, NEW D, Destroys(S, B, D), NEW x \in Existing'
    PROVE  x \notin S /\ x \in Existing /\ (x \in Snap => born'[x] > 0)
<1>1. Fs \cap Snap = {} /\ live \subseteq Fs
    BY ConstantsAssumption DEF TypeOK
<1> QED
    BY <1>1 DEF Destroys, Remove, Existing

(* A call that succeeds destroys or marks what it no longer has to look at. *)
LEMMA PendingStep ==
    ASSUME TypeOK, Base, Consistent, OfLive, ~Unread, Call, ~Ends,
           NEW x \in Pending, x \in Existing'
    PROVE  x \in doomed' \cup Pending'
<1>1. /\ Fs \cap Snap = {} /\ live \subseteq Fs /\ NoOrigin \notin Objects
      /\ \A f \in Fs : \A g \in Above[f] : Above[g] \subseteq Above[f]
    BY ConstantsAssumption DEF TypeOK
<1>2. CASE /\ plan = "snaps"
           /\ Destroys((left \cap Existing) \ busyOf(left), busyOf(left), left)
    <2>1. x \in left /\ x \in Existing /\ x \notin (left \cap Existing) \ busyOf(left)
        BY <1>2, Removed DEF Pending
    <2> QED
        BY <1>2, <2>1 DEF Destroys
<1>3. ASSUME plan = "each", NEW s \in left,
             NEW S \in {{s}, {<<g, s[2]>> : g \in Under(s[1])}}, ~Blocked(S),
             Destroys((S \cap Existing) \ busyOf(S), busyOf(S), {s})
      PROVE  x \in doomed' \cup Pending'
    <2>1. /\ x \in Existing /\ x \notin (S \cap Existing) \ busyOf(S)
          /\ left' = left \ {s} /\ doomed' = doomed \cup busyOf(S)
          /\ UNCHANGED <<plan, req>>
        BY <1>3, Removed DEF Destroys
    <2>2. live' = live /\ origin' = origin
        <3>1. (S \cap Existing) \ busyOf(S) \subseteq Snap
            BY <1>3, EachOfSnapshots
        <3> QED
            BY <1>3, <3>1, SnapshotsOnly
    <2>3. s \in Snap /\ s = <<s[1], s[2]>>
        BY <1>3 DEF Base, Routed, Snap
    <2>4. s \in S
        <3>1. Has("recursive")
            BY <1>3 DEF Unread, TreeUnread, Base, Routed, Recursive
        <3>2. s[1] \in live
            BY <1>3, <3>1 DEF OfLive
        <3> QED
            BY <1>3, <2>3, <3>2 DEF Under
    <2>5. CASE x \in left
        BY <2>1, <2>4, <2>5 DEF Pending
    <2>6. CASE ~Has("defer") /\ x \in Dependents(left)
        <3>1. Clones({s}) = {}
            <4>1. s \in S \cap Existing => ~Busy(s)
                BY <1>3, <2>6 DEF Blocked
            <4>2. Clones({s}) # {} => s \in Existing
                BY <1>3, <2>3, <1>1 DEF Clones, Consistent, Existing, Objects
            <4> QED
                BY <2>4, <4>1, <4>2 DEF Busy
        <3>2. Clones(left) = Clones(left')
            BY <2>1, <3>1 DEF Clones
        <3>3. Dependents(left') = Dependents(left)
            BY <3>2 DEF Dependents
        <3>4. x \in Dependents(left)'
            <4>1. UNION {Under(g) : g \in Clones(left)} = (UNION {Under(g) : g \in Clones(left)})'
                BY <2>2, <3>2 DEF Clones, Under
            <4> QED
                BY <1>3, <2>6, <4>1, Removed DEF Dependents, SnapsOf
        <3> QED
            BY <1>3, <2>1, <2>6, <3>4 DEF Pending, Has
    <2> QED
        BY <1>3, <2>5, <2>6 DEF Pending
<1>4. ASSUME plan \in {"tree", "one"}, NEW f \in left, Removable(f), Destroys({f}, {}, {f})
      PROVE  x \in doomed' \cup Pending'
    <2>1. /\ x \in Existing /\ x # f /\ left' = left \ {f} /\ plan' = plan
          /\ live' = live \ {f}
          /\ \A g \in Fs : g # f => origin'[g] = origin[g]
        BY <1>4, Removed DEF Destroys, Remove
    <2>2. CASE x \in left
        BY <2>1, <2>2 DEF Pending
    <2>3. ASSUME plan = "tree" PROVE f \in Fs /\ f \in live /\ Under(f) = {f} /\ SnapsOf({f}) = {}
        <3>1. f \in Fs
            BY <1>4, <2>3 DEF Base, Routed
        <3> QED
            BY <1>1, <1>4, <3>1 DEF Removable, Existing
    <2>4. \A t \in Snap : plan = "tree" /\ born[t] > 0 => t[1] # f
        BY <2>3 DEF SnapsOf
    <2>5. CASE plan = "tree" /\ x \in LeftSnaps
        <3>1. x \in Snap /\ born[x] > 0 /\ x[1] \in left
            BY <1>1, <2>1, <2>5 DEF LeftSnaps, Existing
        <3> QED
            BY <2>1, <2>4, <2>5, <3>1 DEF Pending, LeftSnaps
    <2>6. CASE plan = "tree" /\ x \in Dependents(LeftSnaps)
        <3>1. PICK g \in Clones(LeftSnaps) :
                  x \in Under(g) \/ (x \in Snap /\ x[1] \in Under(g) /\ born[x] > 0)
            BY <2>6 DEF Dependents, SnapsOf
        <3>2. /\ g \in live /\ g \in Fs /\ origin[g] \in Snap
              /\ origin[g][1] \in left /\ born[origin[g]] > 0
            BY <1>1, <2>6, <3>1 DEF Clones, LeftSnaps, Consistent, Objects
        <3>3. g # f
            BY <2>1, <2>3, <2>4, <2>6, <3>1
        <3>4. origin'[g] = origin[g] /\ g \in live' /\ origin[g][1] \in left'
            BY <2>1, <2>4, <2>6, <3>2, <3>3
        <3>5. g \in Clones(LeftSnaps)'
            BY <3>2, <3>4 DEF Clones, LeftSnaps
        <3>6. x \in Under(g)' \/ (x \in Snap /\ x[1] \in Under(g)' /\ born'[x] > 0)
            <4>1. CASE x \in Under(g)
                BY <2>1, <4>1 DEF Under
            <4>2. CASE x \in Snap /\ x[1] \in Under(g) /\ born[x] > 0
                <5>1. x[1] # f /\ born'[x] > 0
                    BY <1>4, <2>4, <2>6, <4>2, Removed
                <5> QED
                    BY <2>1, <4>2, <5>1 DEF Under
            <4> QED
                BY <3>1, <4>1, <4>2
        <3>7. x \in Dependents(LeftSnaps)'
            BY <3>5, <3>6 DEF Dependents, SnapsOf
        <3> QED
            BY <2>1, <2>6, <3>7 DEF Pending
    <2> QED
        BY <1>4, <2>2, <2>5, <2>6 DEF Pending
<1>5. ASSUME plan = "rollback", NEW s \in left,
             Destroys(({s} \cup Dependents({s})) \cap Existing, {}, {s})
      PROVE  x \in doomed' \cup Pending'
    <2> DEFINE S == ({s} \cup Dependents({s})) \cap Existing
    <2>1. /\ x \in Existing /\ x \notin {s} \cup Dependents({s})
          /\ left' = left \ {s} /\ plan' = plan /\ live' = live \ S
          /\ \A g \in Fs : g \notin S => origin'[g] = origin[g]
        BY <1>5, Removed DEF Destroys, Remove
    <2>2. CASE x \in left
        BY <2>1, <2>2 DEF Pending
    <2>3. CASE x \in Dependents(left)
        <3>0. PICK g \in Clones(left) :
                  x \in Under(g) \/ (x \in Snap /\ x[1] \in Under(g) /\ born[x] > 0)
            BY <2>3 DEF Dependents, SnapsOf
        <3>1. PICK y \in Under(g) : x = y \/ (x \in Snap /\ x[1] = y /\ born[x] > 0)
            BY <3>0
        <3>2. /\ g \in live /\ g \in Fs /\ origin[g] \in left /\ y \in live /\ y \in Fs
              /\ s \in Snap
            BY <1>1, <1>5, <3>1 DEF Clones, Under, Base, Routed
        <3>3. ASSUME NEW c \in Clones({s}), y \in Under(c) PROVE FALSE
            BY <2>1, <3>1, <3>3 DEF Dependents, SnapsOf
        <3>4. ASSUME NEW d \in S, d \in Fs, y \in Under(d) PROVE FALSE
            <4>1. PICK c \in Clones({s}) : d \in Under(c)
                BY <1>1, <3>2, <3>4 DEF Dependents, SnapsOf
            <4>2. y \in Under(c)
                BY <1>1, <3>2, <3>4, <4>1 DEF Under
            <4> QED
                BY <3>3, <4>2
        <3>5. g \notin S /\ y \notin S
            BY <3>1, <3>2, <3>4 DEF Under
        <3>6. g \in live' /\ y \in live' /\ origin'[g] = origin[g]
            BY <2>1, <3>2, <3>5
        <3>7. origin[g] # s
            BY <3>1, <3>2, <3>3 DEF Clones
        <3>8. g \in Clones(left)' /\ y \in Under(g)'
            BY <2>1, <3>1, <3>2, <3>6, <3>7 DEF Clones, Under
        <3>9. x \in Snap => born'[x] > 0
            BY <1>5, Removed
        <3>10. x \in Dependents(left)'
            <4>1. y \in (UNION {Under(h) : h \in Clones(left)})'
                BY <3>8
            <4> QED
                BY <3>1, <3>9, <4>1 DEF Dependents, SnapsOf
        <3> QED
            BY <1>5, <2>1, <3>10 DEF Pending
    <2> QED
        BY <1>5, <2>2, <2>3 DEF Pending
<1>6. CASE Destroys({}, {}, {}) /\ plan = "rollback" /\ left = {}
    BY <1>6, NoDependents DEF Pending
<1> QED
    BY <1>2, <1>3, <1>4, <1>5, <1>6, CallKinds

LEMMA GoneStep ==
    TypeOK /\ Base /\ Consistent /\ OfLive /\ Gone /\ [Next]_vars => Gone'
<1> SUFFICES ASSUME TypeOK, Base, Consistent, OfLive, Gone, [Next]_vars PROVE Gone'
    OBVIOUS
<1> USE DEF poolVars, history
<1>u. UNCHANGED <<req, ordered>> => Unread' = Unread
    BY DEF Unread, NamesUnread, TreeUnread, RangeUnread, allSnaps, needsLibzfsDestroy, Has
<1>1. CASE Route
    <2>1. pc = "route" /\ UNCHANGED <<poolVars, req, history>> /\ asked = Meant
        BY <1>1, RouteKinds DEF Base, Unrouted
    <2>2. CASE verdict' = "refused"
        BY <2>2 DEF Gone
    <2>3. CASE Starts
        <3>1. ~Unread => Meant \subseteq Pending'
            BY <2>1, <2>3, MeantIsRouted
        <3>2. verdict' = "ok" => left' = {}
            BY <2>3 DEF Starts
        <3> QED
            BY <1>u, <2>1, <3>1, <3>2 DEF Gone
    <2> QED
        BY <1>1, <2>2, <2>3, RouteKinds
<1>2. CASE Call
    <2>1. CASE Ends
        BY <2>1 DEF Ends, Gone
    <2>2. CASE ~Ends
        <3>1. PICK S, B, D : Destroys(S, B, D)
            BY <1>2, <2>2, CallKinds
        <3>2. /\ verdict' = "ok" => left' = {}
              /\ pc = "call" /\ doomed' = doomed \cup B
              /\ UNCHANGED <<req, ordered, asked, touched>>
            BY <3>1 DEF Destroys
        <3>3. ASSUME ~Unread, NEW x \in asked, x \in Existing'
              PROVE  x \in touched' \cup doomed' \cup Pending'
            <4>1. x \in Existing
                BY <3>1, <3>3, Removed
            <4>2. x \in touched \cup doomed \cup Pending
                BY <3>2, <3>3, <4>1 DEF Gone, Base, Routed
            <4>3. x \in Pending => x \in doomed' \cup Pending'
                BY <1>2, <2>2, <3>3, PendingStep
            <4> QED
                BY <3>2, <4>2, <4>3
        <3> QED
            BY <1>u, <3>2, <3>3 DEF Gone
    <2> QED
        BY <2>1, <2>2
<1>3. CASE OtherTakes \/ OtherDestroys
    <2>1. PICK s \in Snap : /\ \E n : born' = [born EXCEPT ![s] = n]
                            /\ touched' = touched \cup {s}
        BY <1>3 DEF OtherTakes, OtherDestroys
    <2>2. UNCHANGED <<live, origin, doomed, req, pc, plan, left, verdict, asked, ordered>>
        BY <1>3 DEF OtherTakes, OtherDestroys
    <2>3. \A t \in Snap : t # s => born'[t] = born[t]
        BY <2>1 DEF TypeOK
    <2>4. Existing' \subseteq Existing \cup {s}
        BY <2>2, <2>3 DEF Existing
    <2>5. \A x \in Pending : x \in Existing' => x \in Pending'
        BY <2>2, PendingStays
    <2> QED
        BY <1>u, <2>1, <2>2, <2>4, <2>5 DEF Gone
<1>4. CASE UNCHANGED vars
    <2>1. UNCHANGED <<live, origin, doomed, born, req, pc, plan, left, verdict, asked,
                      ordered, touched>>
        BY <1>4 DEF vars
    <2>2. Existing' = Existing
        BY <2>1 DEF Existing
    <2>3. \A x \in Pending : x \in Existing' => x \in Pending'
        BY <2>1, PendingStays
    <2> QED
        BY <1>u, <2>1, <2>2, <2>3 DEF Gone
<1> QED
    BY <1>1, <1>2, <1>3, <1>4 DEF Next

LEMMA GoneInvariant == Spec => [](OfLive /\ Gone)
<1>1. Init => OfLive /\ Gone
    BY DEF Init, OfLive, Gone
<1> QED
    BY <1>1, TypeInvariant, ConsistentInvariant, OfLiveStep, GoneStep, PTL DEF Spec

(* A success means that all that was asked for is gone or marked, but for   *)
(* what the handlers do not read and what others took meanwhile.           *)
THEOREM AllGone == Spec => []OkMeansGone
<1>1. TypeOK /\ Base /\ Gone => OkMeansGone
    <2> SUFFICES ASSUME TypeOK, Base, Gone, verdict = "ok", ~Unread
                 PROVE  asked \cap Existing \subseteq touched \cup doomed
        BY DEF OkMeansGone, Unread
    <2>1. left = {} /\ pc # "route"
        BY DEF Gone, Base, Routed
    <2>2. LeftSnaps = {}
        BY <2>1 DEF LeftSnaps
    <2>3. Pending = {}
        BY <2>1, <2>2, NoDependents DEF Pending
    <2> QED
        BY <2>1, <2>3 DEF Gone
<1> QED
    BY <1>1, TypeInvariant, GoneInvariant, PTL
=============================================================================
