-------------------------------- MODULE MCAccess --------------------------------
(* A small instance of Access for TLC.                                       *)
EXTENDS Access

MCTenantOf == [u \in Members |-> IF u = "u3" THEN "t2" ELSE "t1"]
MCTierLimit == [t \in {"t1", "t2"} |-> 1]
=============================================================================
