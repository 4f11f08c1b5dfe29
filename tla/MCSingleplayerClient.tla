------------------------ MODULE MCSingleplayerClient ------------------------
EXTENDS SingleplayerClient

\* Local games are always played with clocks.
MCConfigs ==
    {[enabled |-> TRUE, initialTime |-> 2, increment |-> 1],
     [enabled |-> TRUE, initialTime |-> 3, increment |-> 0]}
=============================================================================
