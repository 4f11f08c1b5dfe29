------------------------- MODULE MCServerLifecycle -------------------------
(***************************************************************************)
(* Model of ServerLifecycle. Three starts: one of a fresh server, one that *)
(* may come too early or too late, and one after that. Two threads and two *)
(* connections, so that handlers of two runs are there at once.            *)
(***************************************************************************)
EXTENDS ServerLifecycle
=============================================================================
