--------------------------- MODULE MCOnlineClient ---------------------------
(***************************************************************************)
(* Model of OnlineClient. Four connections, so that what is left of the    *)
(* first can be taken for the second, and what is left of both can meet    *)
(* the third and the fourth; two requests can wait, so that the user can   *)
(* be ahead of the strand; the write queue fills with two messages.        *)
(***************************************************************************)
EXTENDS OnlineClient
=============================================================================
