-------------------------- MODULE MCDestruction --------------------------
(* Small pools and the requests on them, for TLC.                          *)
EXTENDS Destruction

CONSTANTS root, child, leaf, clone

MCFs    == {root, child, leaf, clone}
MCNames == 1 .. 3
MCAbove == [f \in MCFs |-> CASE f = child -> {root} [] f = leaf -> {root, child}
                             [] OTHER -> {}]

(* Snapshots of the root, in and out of the order of their names; one of   *)
(* the child or none; a clone of the root's third; one hold.               *)
RootBirths == {<<1, 2, 3>>, <<1, 3, 2>>, <<3, 1, 2>>, <<2, 0, 1>>}

PoolOf(births, of, isHeld, isOrigin) ==
    [live   |-> IF of = 0 THEN MCFs \ {leaf} ELSE MCFs,
     txg    |-> 4,
     held   |-> IF isHeld THEN {<<root, 2>>} ELSE {},
     born   |-> [s \in MCFs \X MCNames |->
                   CASE s[1] = root -> births[s[2]]
                     [] s = <<child, 1>> -> of [] OTHER -> 0],
     origin |-> [f \in MCFs |-> IF f = clone /\ isOrigin THEN <<root, 3>> ELSE NoOrigin]]

MCPools ==
    {PoolOf(births, of, FALSE, isOrigin) :
        births \in RootBirths, of \in {0, 4}, isOrigin \in BOOLEAN}
    \cup {PoolOf(<<1, 2, 3>>, 4, TRUE, FALSE)}

DestroyFlags == SUBSET {"recursive", "descendants", "dryRun"}

MCRequests ==
    [kind : {"snapshot"}, fs : {root}, from : MCNames, to : {1},
     names : {{}, {<<root, 3>>}, {leaf}},
     flags : DestroyFlags \cup {{"defer"}, {"recursive", "defer"}, {"recursive", "descendants", "defer"}}]
    \cup
    [kind : {"range"}, fs : {root, leaf}, from : {1, 2}, to : {2, 3}, names : {{}, {<<child, 1>>}},
     flags : DestroyFlags \cup {{"defer"}}]
    \cup
    [kind : {"dataset"}, fs : {root, child, leaf}, from : {1}, to : {1},
     names : {{}, {clone}}, flags : DestroyFlags \cup {{"force"}, {"defer"}}]
    \cup
    [kind : {"rollback"}, fs : {root}, from : {1, 2}, to : {1}, names : {{}},
     flags : SUBSET {"destroyRecent", "destroyClones", "force"}]
=============================================================================
