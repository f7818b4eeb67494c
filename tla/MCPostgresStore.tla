--------------------------- MODULE MCPostgresStore ---------------------------
(* Two processes, one of them with two tasks; two agents whose names collide. *)
EXTENDS PostgresStore, TLC

CONSTANTS p1, p2, p3, e1, e2, k1, k2

Engines == p1 :> e1 @@ p2 :> e1 @@ p3 :> e2
Pools   == k1 :> e1 @@ k2 :> e2
Collide == [a \in Agent |-> CHOOSE h \in Hash : TRUE]
Tasks   == Permutations({p1, p2})
=============================================================================
