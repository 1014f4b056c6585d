--------------------------- MODULE MCRouteTables ---------------------------
(* The local and main tables, one with the id of rtm_table's escape value,   *)
(* and two user tables beyond 255, one of which shares its low byte with the *)
(* main table.                                                               *)
EXTENDS RouteTables

MCTableIds == {252, 254, 255, 510, 1000}
=============================================================================
