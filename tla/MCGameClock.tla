---------------------------- MODULE MCGameClock ----------------------------
EXTENDS GameClock

MCConfigs ==
    {[enabled |-> TRUE, initialTime |-> 2, increment |-> 1],
     [enabled |-> TRUE, initialTime |-> 1, increment |-> 0],
     [enabled |-> TRUE, initialTime |-> 0, increment |-> 1],
     [enabled |-> FALSE, initialTime |-> 2, increment |-> 0]}
=============================================================================
