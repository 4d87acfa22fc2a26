--------------------------- MODULE Destruction ---------------------------
(***************************************************************************)
(* One destroy or rollback of the native interpreter, from its request to   *)
(* the library calls it makes, in a pool that other processes change in     *)
(* between.  packages/effect-zfs/src/native: linux.ts (routing and the lzc  *)
(* calls), libzfs-extra.ts (the libzfs calls), codec.ts (ranges and flags). *)
(*                                                                         *)
(* Every library is loaded.  Filesystems form a fixed tree; names of        *)
(* snapshots are numbers, compared as the code compares the strings.        *)
(* Bookmarks and mounts are left out, and so are clones of clones.          *)
(***************************************************************************)
EXTENDS Naturals, FiniteSets

CONSTANTS
    Fs,         \* filesystems
    Names,      \* snapshot names
    Above,      \* the ancestors of each filesystem
    NoOrigin,   \* the origin of what is no clone
    Pools,      \* the pools to start from
    Requests,   \* the requests to consider
    MaxTxg,     \* bound: transactions that take a snapshot
    MayFail     \* may a library call fail for reasons not modelled?

Snap    == Fs \X Names
Objects == Fs \cup Snap

(* What the two classes of requests can say: of a rollback that is less.    *)
Request ==
    [kind : {"snapshot", "range", "dataset"}, fs : Fs, from : Names, to : Names,
     names : SUBSET Objects,
     flags : SUBSET {"recursive", "descendants", "force", "defer", "dryRun"}]
    \cup
    [kind : {"rollback"}, fs : Fs, from : Names, to : Names, names : {{}},
     flags : SUBSET {"destroyRecent", "destroyClones", "force"}]

Pool == [live : SUBSET Fs, born : [Snap -> 0 .. MaxTxg], held : SUBSET Snap,
         origin : [Fs -> Snap \cup {NoOrigin}], txg : 0 .. MaxTxg]

(* There is no snapshot without its filesystem, and no clone without the    *)
(* snapshot it is a clone of.                                              *)
Sound(p) ==
    /\ \A s \in Snap : p.born[s] > 0 => s[1] \in p.live
    /\ \A g \in p.live : p.origin[g] # NoOrigin => p.born[p.origin[g]] > 0

ASSUME ConstantsAssumption ==
    /\ Names \subseteq Nat /\ MaxTxg \in Nat /\ MayFail \in BOOLEAN
    /\ Above \in [Fs -> SUBSET Fs]
    /\ \A f \in Fs : /\ IsFiniteSet(Above[f]) /\ f \notin Above[f]
                     /\ \A g \in Above[f] : Above[g] \subseteq Above[f]
    /\ NoOrigin \notin Objects
    /\ Fs \cap Snap = {}
    /\ Requests \subseteq Request
    /\ Pools \subseteq Pool /\ \A p \in Pools : Sound(p)

VARIABLES
    live,      \* the filesystems there are
    born,      \* the transaction that took each snapshot, 0 for none
    held,      \* snapshots with a hold
    doomed,    \* snapshots marked for deferred destruction
    origin,    \* the snapshot each filesystem is a clone of
    txg,       \* the last transaction that took a snapshot
    req,       \* the request
    pc,        \* "route", "call", "done"
    plan,      \* which library calls the request has become
    left,      \* the objects they are still to be made for
    verdict,
    injected,  \* history: a call failed for reasons not modelled
    asked,     \* history: what the request meant when it was made
    ordered,   \* history: InOrder then
    removed,   \* history: what the calls destroyed
    touched    \* history: what other processes took or destroyed meanwhile

poolVars == <<live, born, held, doomed, origin, txg>>
history  == <<injected, asked, ordered, removed, touched>>
vars == <<poolVars, req, pc, plan, left, verdict, history>>

Existing    == live \cup {s \in Snap : born[s] > 0}
Under(f)    == {g \in live : g = f \/ f \in Above[g]}
SnapsOf(G)  == {s \in Snap : s[1] \in G /\ born[s] > 0}
Clones(S)   == {g \in live : origin[g] \in S}
Busy(s)     == s \in held \/ Clones({s}) # {}
Has(flag)   == flag \in req.flags
Target      == <<req.fs, req.from>>
Recent      == {s \in SnapsOf({req.fs}) : born[Target] > 0 /\ born[s] > born[Target]}

(* A snapshot's clones, with the trees under them.                         *)
Dependents(S) ==
    LET trees == UNION {Under(g) : g \in Clones(S)} IN trees \cup SnapsOf(trees)

-----------------------------------------------------------------------------
(* What a request means: what zfs destroys for it, in the present pool.    *)

Tree(f) == IF Has("recursive") \/ Has("descendants") THEN Under(f) ELSE {f}

(* from%to is an interval of creation, not of names.                       *)
Between(f) ==
    {s \in SnapsOf({f}) : /\ born[<<f, req.from>>] \in 1 .. born[s]
                          /\ born[s] <= born[<<f, req.to>>]}

(* The snapshots asked for by name, and in -r and -R the ones of the same  *)
(* name further down.                                                      *)
Named ==
    LET snapshots == (req.names \cap Snap) \cup
                     (IF req.kind = "snapshot" THEN {Target} ELSE {})
    IN  UNION {{<<g, s[2]>> : g \in Tree(s[1])} : s \in snapshots}

Chosen ==
    Existing \cap (Named \cup (req.names \cap Fs) \cup
      CASE req.kind = "snapshot" -> {}
        [] req.kind = "range"    -> UNION {Between(f) : f \in Tree(req.fs)}
        [] req.kind = "dataset"  ->
             Tree(req.fs) \cup
             (IF Has("recursive") \/ Has("descendants") THEN SnapsOf(Tree(req.fs)) ELSE {})
        [] req.kind = "rollback" ->
             IF Has("destroyRecent") \/ Has("destroyClones") THEN Recent ELSE {})

Meant ==
    IF Has("dryRun") THEN {}
    ELSE Chosen \cup
         (IF Has("descendants") \/ Has("destroyClones") THEN Dependents(Chosen) ELSE {})

(* The names of the snapshots are in order of creation, and both ends of a  *)
(* range exist.                                                            *)
InOrder ==
    /\ \A s, t \in SnapsOf({req.fs}) : s[2] < t[2] => born[s] < born[t]
    /\ req.kind = "range" => {Target, <<req.fs, req.to>>} \subseteq Existing

Init ==
    /\ \E p \in Pools : /\ live = p.live /\ born = p.born /\ held = p.held
                        /\ origin = p.origin /\ txg = p.txg
    /\ doomed = {}
    /\ req \in Requests
    /\ pc = "route" /\ plan = "none" /\ left = {} /\ verdict = "none"
    /\ injected = FALSE /\ asked = Meant /\ ordered = InOrder
    /\ removed = {} /\ touched = {}

-----------------------------------------------------------------------------
(* Routing                                                                 *)

Plan(calls, objects) ==
    /\ pc = "route"
    /\ pc' = IF objects = {} /\ calls # "rollback" THEN "done" ELSE "call"
    /\ verdict' = IF objects = {} /\ calls # "rollback" THEN "ok" ELSE "none"
    /\ plan' = calls
    /\ left' = objects
    /\ UNCHANGED <<poolVars, req, history>>

Refuse ==
    /\ pc = "route"
    /\ pc' = "done" /\ verdict' = "refused"
    /\ UNCHANGED <<poolVars, req, plan, left, history>>

needsLibzfsDestroy ==
    \/ req.kind = "range" \/ Has("recursive") \/ Has("descendants")
    \/ Has("force") /\ req.kind = "dataset"

needsLibzfsRollback ==
    Has("destroyRecent") \/ Has("destroyClones") \/ Has("force")

allSnaps == req.kind = "snapshot" /\ req.names \subseteq Snap

(* MUTANT of snapshotInRange: the end of the range is not compared.        *)
snapshotInRangeOpen(n) == req.from <= n

snapshotInRange(n) == req.from <= n /\ n <= req.to

(* Ranges are listed and filtered by name; every flag but defer, and the   *)
(* extra names, are not looked at.                                         *)
RouteRange ==
    /\ req.kind = "range"
    /\ req.fs \in live
    /\ Plan("snaps", {s \in SnapsOf({req.fs}) : snapshotInRange(s[2])})

RangeOfNothing == req.kind = "range" /\ req.fs \notin live /\ Refuse

RefuseDryRun ==
    /\ req.kind \in {"snapshot", "dataset"}
    /\ needsLibzfsDestroy /\ Has("dryRun")
    /\ Refuse

(* MUTANT of RouteEach: the tree is not walked.                            *)
RouteEachRootOnly ==
    /\ req.kind = "snapshot"
    /\ needsLibzfsDestroy /\ ~Has("dryRun")
    /\ Plan("each", {Target})

(* zfs_destroy_snaps on every filesystem of the tree.                      *)
RouteEach ==
    /\ req.kind = "snapshot"
    /\ needsLibzfsDestroy /\ ~Has("dryRun")
    /\ Plan("each", {<<g, req.from>> :
                       g \in IF Has("recursive") THEN Under(req.fs) ELSE {req.fs}})

(* zfs_destroy on every filesystem of the tree, the root last.             *)
RouteTree ==
    /\ req.kind = "dataset"
    /\ needsLibzfsDestroy /\ ~Has("dryRun")
    /\ IF req.fs \in live
       THEN Plan("tree", IF Has("recursive") \/ Has("descendants")
                         THEN Under(req.fs) ELSE {req.fs})
       ELSE Refuse

(* MUTANT of RouteSnaps: one call for each name.                           *)
RouteSnapsOneByOne ==
    /\ allSnaps /\ ~needsLibzfsDestroy
    /\ Plan("each", {Target} \cup req.names)

(* One lzc_destroy_snaps for all the names.                                *)
RouteSnaps ==
    /\ allSnaps /\ ~needsLibzfsDestroy
    /\ Plan("snaps", {Target} \cup req.names)

RefuseDefer ==
    /\ req.kind \in {"snapshot", "dataset"}
    /\ ~allSnaps /\ ~needsLibzfsDestroy /\ Has("defer")
    /\ Refuse

(* MUTANT of RouteOne: the last component of the name is lost.             *)
RouteOneLosesComponent ==
    /\ req.kind \in {"snapshot", "dataset"}
    /\ ~allSnaps /\ ~needsLibzfsDestroy /\ ~Has("defer")
    /\ Plan("one", {IF req.kind = "dataset" THEN req.fs ELSE <<req.fs, 0>>})

RouteOne ==
    /\ req.kind \in {"snapshot", "dataset"}
    /\ ~allSnaps /\ ~needsLibzfsDestroy /\ ~Has("defer")
    /\ Plan("one", {IF req.kind = "dataset" THEN req.fs ELSE Target})

(* With any flag zfs_rollback, which destroys what is more recent; without *)
(* lzc_rollback_to.                                                        *)
RouteRollback ==
    /\ req.kind = "rollback"
    /\ IF Target \in Existing
       THEN Plan("rollback", IF needsLibzfsRollback THEN Recent ELSE {})
       ELSE Refuse

-----------------------------------------------------------------------------
(* Library calls                                                           *)

Remove(S) ==
    /\ live' = live \ S
    /\ born' = [s \in Snap |-> IF s \in S THEN 0 ELSE born[s]]
    /\ origin' = [g \in Fs |-> IF g \in S THEN NoOrigin ELSE origin[g]]
    /\ removed' = removed \cup S

(* The call made for `done` succeeded; the request with it if it was the   *)
(* last.                                                                   *)
Goes(done) ==
    /\ left' = left \ done
    /\ pc' = IF left \ done = {} THEN "done" ELSE "call"
    /\ verdict' = IF left \ done = {} THEN "ok" ELSE "none"
    /\ UNCHANGED <<held, txg, req, plan, injected, asked, ordered, touched>>

(* The first call that fails ends the request.                             *)
Fails(because) ==
    /\ pc = "call"
    /\ because \/ MayFail
    /\ injected' = ~because
    /\ pc' = "done" /\ verdict' = "failed"
    /\ UNCHANGED <<poolVars, req, plan, left, asked, ordered, removed, touched>>

(* lzc_destroy_snaps: all of them or none; absent ones do not count, busy  *)
(* ones are only marked if destruction may be deferred.                    *)
Snapshots(S) ==
    LET busy == {s \in S \cap Existing : Busy(s)} IN
    /\ Remove((S \cap Existing) \ busy)
    /\ doomed' = doomed \cup busy

Blocked(S) == ~Has("defer") /\ \E s \in S \cap Existing : Busy(s)

DestroySnaps ==
    /\ plan = "snaps"
    /\ \/ Fails(Blocked(left))
       \/ pc = "call" /\ ~Blocked(left) /\ Snapshots(left) /\ Goes(left)

(* zfs_destroy_snaps of one filesystem, parents first.  It may take the    *)
(* snapshots of that name further down with it; finding none is an error.  *)
DestroyEach ==
    /\ plan = "each"
    /\ \E s \in left :
          /\ \A t \in left : t[1] \notin Above[s[1]]
          /\ \E S \in {{s}, {<<g, s[2]>> : g \in Under(s[1])}} :
                LET fails == S \cap Existing = {} \/ Blocked(S) IN
                \/ Fails(fails)
                \/ pc = "call" /\ ~fails /\ Snapshots(S) /\ Goes({s})

(* MUTANT of Deepest: the comparison of the sort is turned round.          *)
Shallowest(f) == \A g \in left : Cardinality(Above[g]) >= Cardinality(Above[f])

Deepest(f) == \A g \in left : Cardinality(Above[g]) <= Cardinality(Above[f])

Removable(x) ==
    /\ x \in Existing
    /\ IF x \in Fs THEN Under(x) = {x} /\ SnapsOf({x}) = {} ELSE ~Busy(x)

(* zfs_destroy of the deepest filesystem left, the requested one last: it  *)
(* must have no children and no snapshots.                                 *)
DestroyTree ==
    /\ plan = "tree"
    /\ \E f \in left :
          /\ Deepest(f)
          /\ \/ Fails(~Removable(f))
             \/ pc = "call" /\ Removable(f) /\ Remove({f}) /\ Goes({f})
                /\ UNCHANGED doomed

DestroyOne ==
    /\ plan = "one"
    /\ \E x \in left :
          \/ Fails(~Removable(x))
          \/ pc = "call" /\ Removable(x) /\ Remove({x}) /\ Goes({x})
             /\ UNCHANGED doomed

(* zfs_rollback destroys one more recent snapshot with its clones.         *)
RollbackDestroys ==
    /\ plan = "rollback"
    /\ \E s \in left :
          LET S == ({s} \cup Dependents({s})) \cap Existing
              fails == S \cap held # {}
          IN  \/ Fails(fails)
              \/ /\ pc = "call" /\ ~fails
                 /\ Remove(S)
                 /\ left' = left \ {s}
                 /\ UNCHANGED <<held, doomed, txg, req, pc, plan, verdict,
                                injected, asked, ordered, touched>>

(* The rollback itself needs the target to be the latest snapshot.         *)
RollsBack ==
    /\ plan = "rollback" /\ left = {}
    /\ LET fails == Target \notin Existing \/ Recent # {} IN
       \/ Fails(fails)
       \/ pc = "call" /\ ~fails /\ Remove({}) /\ Goes({}) /\ UNCHANGED doomed

-----------------------------------------------------------------------------
(* Other processes                                                         *)

OtherTakes ==
    /\ pc = "call"
    /\ txg < MaxTxg
    /\ \E s \in Snap :
          /\ s[1] \in live /\ born[s] = 0
          /\ born' = [born EXCEPT ![s] = txg + 1]
          /\ touched' = touched \cup {s}
    /\ txg' = txg + 1
    /\ UNCHANGED <<live, held, doomed, origin, req, pc, plan, left, verdict,
                   injected, asked, ordered, removed>>

OtherDestroys ==
    /\ pc = "call"
    /\ \E s \in Snap :
          /\ born[s] > 0 /\ ~Busy(s)
          /\ born' = [born EXCEPT ![s] = 0]
          /\ touched' = touched \cup {s}
    /\ UNCHANGED <<live, held, doomed, origin, txg, req, pc, plan, left, verdict,
                   injected, asked, ordered, removed>>

-----------------------------------------------------------------------------
Route == RouteRange \/ RangeOfNothing \/ RefuseDryRun \/ RouteEach \/ RouteTree
           \/ RouteSnaps \/ RefuseDefer \/ RouteOne \/ RouteRollback
Call  == DestroySnaps \/ DestroyEach \/ DestroyTree \/ DestroyOne
           \/ RollbackDestroys \/ RollsBack

Next == Route \/ Call \/ OtherTakes \/ OtherDestroys

Spec == Init /\ [][Next]_vars

-----------------------------------------------------------------------------
(* Properties                                                              *)

TypeOK ==
    /\ live \subseteq Fs
    /\ born \in [Snap -> 0 .. MaxTxg]
    /\ held \subseteq Snap /\ doomed \subseteq Snap
    /\ origin \in [Fs -> Snap \cup {NoOrigin}]
    /\ txg \in 0 .. MaxTxg
    /\ req \in Requests
    /\ pc \in {"route", "call", "done"}
    /\ plan \in {"none", "snaps", "each", "tree", "one", "rollback"}
    /\ left \subseteq Objects
    /\ verdict \in {"none", "ok", "failed", "refused"}
    /\ injected \in BOOLEAN
    /\ asked \subseteq Objects /\ removed \subseteq Objects /\ touched \subseteq Snap
    /\ ordered \in BOOLEAN

(* Nothing is destroyed that the request did not mean when it was made,    *)
(* save snapshots that others took under a name that was meant, unless it  *)
(* was a dry run, a range whose names are not in order of creation (or     *)
(* whose ends do not exist), or a rollback with flags that was not to      *)
(* destroy clones: see the next three.                                     *)
NoCollateral ==
    \/ removed \subseteq asked \cup touched
    \/ Has("dryRun")
    \/ req.kind = "range" /\ ~ordered
    \/ req.kind = "rollback" /\ req.flags # {} /\ ~Has("destroyClones")

(* A dry run destroys nothing.                                             *)
DryRunDestroysNothing == Has("dryRun") => removed = {}

(* A range that zfs would find destroys what zfs would: an interval of      *)
(* creation, which the comparison of names in snapshotInRange is not.      *)
RangeIsOfCreation ==
    req.kind = "range" /\ asked # {} => removed \subseteq asked \cup touched

(* A rollback destroys more recent snapshots, and clones, only if told to. *)
RollbackSpares == req.kind = "rollback" => removed \subseteq asked \cup touched

(* The handlers that read no more of the request than this.  That the      *)
(* clones of snapshots are asked for too is not read either; without defer  *)
(* they make the call fail.                                                *)
NamesUnread  == req.names # {} /\ ~(allSnaps /\ ~needsLibzfsDestroy)
TreeUnread   == req.kind = "snapshot" /\ Has("descendants") /\
                  (~Has("recursive") \/ Has("defer"))
RangeUnread  == req.kind = "range" /\
                  (Has("recursive") \/ Has("descendants") \/ ~ordered)

(* After a success everything that was meant is gone or marked, unless the *)
(* handler does not read the part of the request that asked for it.        *)
OkMeansGone ==
    verdict = "ok" /\ ~NamesUnread /\ ~TreeUnread /\ ~RangeUnread =>
        asked \cap Existing \subseteq touched \cup doomed

(* A failed destroy has destroyed a part only if it was recursive: a list  *)
(* of snapshots, and a range, go together or not at all.                   *)
AllOrNothing ==
    verdict = "failed" /\ removed # {} =>
        req.kind = "rollback" \/ Has("recursive") \/ Has("descendants")

(* A recursive destroy of filesystems never trips over its own order: it   *)
(* fails only at one that has snapshots.                                   *)
TreeFailsAtSnapshots ==
    plan = "tree" /\ verdict = "failed" /\ ~injected =>
        SnapsOf(left) # {} \/ ~(Has("recursive") \/ Has("descendants"))
=============================================================================
