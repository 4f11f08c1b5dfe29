--------------------------- MODULE MCGameManager ---------------------------
(* The game manager with a few sessions and room configurations. *)
EXTENDS GameManager, TLC

config(clock, password, maxSpectators) ==
    [clock |-> clock, password |-> password, allowSpectators |-> TRUE,
     allowMidgameJoin |-> maxSpectators = 0, maxSpectators |-> maxSpectators,
     spectatorsCanChat |-> maxSpectators = 0, visibleInLobby |-> ~password]

OpenConfig == config("enabled", FALSE, 0)
PrivateConfig == config("disabled", TRUE, 1)
ZeroConfig == config("zero", FALSE, 1)
NoSpectatorConfig == [PrivateConfig EXCEPT !.allowSpectators = FALSE]

TwoConfigs == {OpenConfig, PrivateConfig}
AllConfigs == {OpenConfig, PrivateConfig, ZeroConfig, NoSpectatorConfig}

SessionSymmetry == Permutations(SessionID)
=============================================================================
