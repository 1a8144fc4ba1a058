------------------------- MODULE MCRPSysSaveDataMgr -------------------------
(* A small instance of the save data manager for TLC. *)
EXTENDS RPSysSaveDataMgr
=============================================================================
