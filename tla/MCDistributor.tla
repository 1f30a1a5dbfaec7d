--------------------------- MODULE MCDistributor ---------------------------
(***************************************************************************)
(* Up to three small nodes with ranges of every length, and larger ones:   *)
(* for two shares of four viewers, and for more addresses than user names. *)
(***************************************************************************)
EXTENDS Distributor

MCPool == <<"CEO", None, None, "Employee", None>>
MCRoles == <<"Employee", "HR">>
MCRanges == UNION {[1 .. k -> 0 .. 2] : k \in 1 .. 3} \cup {<<5, 5>>, <<3, 1>>, <<4, 7>>}
=============================================================================
