---------------------------- MODULE MCRegionPool ----------------------------
(***************************************************************************)
(* Three regions (one of which has only one resource), two regional        *)
(* collectors, one global collector, and pools of one (sequential), two    *)
(* and four workers: more workers than regions as well as fewer.           *)
(***************************************************************************)
EXTENDS RegionPool

MCFound ==
  [j \in 0..3 |->
     CASE j = 0 -> [k \in 0..1 |-> k]
       [] j = 1 -> [k \in 0..2 |-> k]
       [] j = 2 -> [k \in 0..2 |-> IF k = 2 THEN 1 ELSE 0]
       [] j = 3 -> [k \in 0..2 |-> IF k = 0 THEN 0 ELSE 1]]

MCCtxValues == {0, 2, 4}
=============================================================================
