---------------------------- MODULE MCIPCClient ----------------------------
(* A small instance of the IPC client for TLC. *)
EXTENDS IPCClient

CONSTANTS r1, r2, r3, r4

Requests4 == {r1, r2, r3, r4}

\* A block may be used for different calls, one after the other: r2 with and
\* without a callback, r3 for a call with and without a relaunch.
Async2  == {r1, r2}
Sync2   == {r2, r3}
Reboot2 == {r3, r4}
=============================================================================
