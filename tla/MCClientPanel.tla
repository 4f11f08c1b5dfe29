--------------------------- MODULE MCClientPanel ---------------------------
(***************************************************************************)
(* Model of ClientPanel. Three tasks: a tick, a change of the state behind *)
(* it and one behind that. Two events: the end of a game that was given up *)
(* and the end of the next.                                                *)
(***************************************************************************)
EXTENDS ClientPanel
=============================================================================
