---------------------------- MODULE MCSndSystem ----------------------------
(* A small instance of the sound system for TLC. *)
EXTENDS SndSystem

CONSTANTS hd, d1, d2, d3, q1

Tasks     == {hd, d1, d2, d3, q1}
DataTasks == {d1, d2, d3}
Clients   == {"main", "sound"}
=============================================================================
