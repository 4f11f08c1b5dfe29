-------------------------- MODULE MCSessionManager --------------------------
(* The session manager with a few connections and messages. *)
EXTENDS SessionManager

EveryMessage == Incoming
Chats == {"login", "globalChat"}
=============================================================================
