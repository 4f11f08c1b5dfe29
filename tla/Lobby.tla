------------------------------- MODULE Lobby -------------------------------
(***************************************************************************)
(* What the game manager promises its sessions, without maps, requests,    *)
(* clocks or versions: everybody is in one place at a time, a match is     *)
(* played by the two who sat down for it, it ends once, and its room       *)
(* closes for good when the last one leaves.                               *)
(***************************************************************************)
EXTENDS Naturals

CONSTANTS Guests, Rooms

VARIABLES
    place,   \* where each guest is: a room and a seat in it, or Nowhere
    phase,   \* how far each room has come
    result   \* the winner's colour in a room that is over

lobbyVars == <<place, phase, result>>

Nowhere == [room |-> 0, seat |-> "None"]
Seat == {"Player1", "Player2", "Spectator"}
Phase == {"unused", "waiting", "playing", "over", "closed"}

at(r) == {g \in Guests : place[g].room = r}
taken(r, seat) == \E g \in at(r) : place[g].seat = seat

LobbyInit ==
    /\ place = [g \in Guests |-> Nowhere]
    /\ phase = [r \in Rooms |-> "unused"]
    /\ result = [r \in Rooms |-> "EMPTY"]

\* A room is opened by the guest who takes the white side in it.
Open(g, r) ==
    /\ place[g] = Nowhere
    /\ phase[r] = "unused"
    /\ place' = [place EXCEPT ![g] = [room |-> r, seat |-> "Player1"]]
    /\ phase' = [phase EXCEPT ![r] = "waiting"]
    /\ UNCHANGED result

Watch(g, r) ==
    /\ place[g] = Nowhere
    /\ phase[r] \in {"waiting", "playing"}
    /\ place' = [place EXCEPT ![g] = [room |-> r, seat |-> "Spectator"]]
    /\ UNCHANGED <<phase, result>>

\* The second player's arrival starts the match; a match without any time to
\* play is over at once, and Black wins it.
SitDown(g, r, seat) ==
    /\ place[g] = Nowhere
    /\ phase[r] = "waiting"
    /\ ~taken(r, seat)
    /\ place' = [place EXCEPT ![g] = [room |-> r, seat |-> seat]]
    /\ \/ /\ ~taken(r, "Player1") /\ ~taken(r, "Player2")
          /\ UNCHANGED <<phase, result>>
       \/ /\ taken(r, "Player1") \/ taken(r, "Player2")
          /\ \/ /\ phase' = [phase EXCEPT ![r] = "playing"]
                /\ UNCHANGED result
             \/ /\ phase' = [phase EXCEPT ![r] = "over"]
                /\ result' = [result EXCEPT ![r] = "BLACK"]

\* Matches end on the board or on the clock while both players are there, and
\* clocks may end several at once.
End(over, winner) ==
    /\ \A r \in over : phase[r] = "playing"
    /\ phase' = [r \in Rooms |-> IF r \in over THEN "over" ELSE phase[r]]
    /\ result' = [r \in Rooms |-> IF r \in over THEN winner[r] ELSE result[r]]
    /\ UNCHANGED place

opponentColor(seat) == IF seat = "Player1" THEN "BLACK" ELSE "WHITE"

\* Leaving one's match gives it away; the last to leave closes the room.
Leave(g) ==
    LET r == place[g].room
        seat == place[g].seat
        forfeits == phase[r] = "playing" /\ seat # "Spectator"
    IN  /\ place[g] # Nowhere
        /\ place' = [place EXCEPT ![g] = Nowhere]
        /\ phase' = [phase EXCEPT ![r] =
                        IF at(r) = {g} THEN "closed"
                        ELSE IF forfeits THEN "over" ELSE @]
        /\ result' = [result EXCEPT ![r] =
                        IF at(r) = {g} THEN "EMPTY"
                        ELSE IF forfeits THEN opponentColor(seat) ELSE @]

\* The manager stops: everybody is out and every room opened is closed.
Shutdown ==
    /\ place' = [g \in Guests |-> Nowhere]
    /\ phase' = [r \in Rooms |->
                    IF phase[r] = "unused" THEN "unused" ELSE "closed"]
    /\ result' = [r \in Rooms |-> "EMPTY"]

LobbyNext ==
    \/ \E g \in Guests, r \in Rooms :
          \/ Open(g, r)
          \/ Watch(g, r)
          \/ \E seat \in {"Player1", "Player2"} : SitDown(g, r, seat)
    \/ \E g \in Guests : Leave(g)
    \/ \E over \in SUBSET Rooms :
          \E winner \in [over -> {"WHITE", "BLACK", "EMPTY"}] : End(over, winner)
    \/ Shutdown

LobbySpec == LobbyInit /\ [][LobbyNext]_lobbyVars
=============================================================================
