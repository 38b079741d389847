------------------------------ MODULE ChatRoom ------------------------------
(***************************************************************************)
(* What the chat host promises its clients, with no table, descriptor or   *)
(* loop in it: a room of bounded size; what a member says is heard by      *)
(* other members, piece by piece, at most once each, and in the order it   *)
(* was said; nobody hears himself; nobody is turned away while there is    *)
(* room.  Who hears a piece is left open: the host does not promise that   *)
(* everybody does.                                                         *)
(***************************************************************************)
EXTENDS Integers, FiniteSets, Sequences

CONSTANTS
  Conns,      \* connections, each entering and leaving at most once
  Capacity    \* how many fit in the room

VARIABLES
  members,    \* the connections in the room
  gone,       \* those that left or were turned away
  said,       \* said[q]: how many pieces q has said
  heard       \* heard[q]: the pieces <<speaker, number>> q was given, in order

roomVars == <<members, gone, said, heard>>

Pieces == Conns \X (Nat \ {0})

HasHeard(q, piece) == \E i \in DOMAIN heard[q] : heard[q][i] = piece

RoomInit ==
  /\ members = {}
  /\ gone = {}
  /\ said = [q \in Conns |-> 0]
  /\ heard = [q \in Conns |-> <<>>]

Join(q) ==
  /\ q \notin members \cup gone
  /\ Cardinality(members) < Capacity
  /\ members' = members \cup {q}
  /\ UNCHANGED <<gone, said, heard>>

TurnAway(q) ==
  /\ q \notin members \cup gone
  /\ Cardinality(members) >= Capacity
  /\ gone' = gone \cup {q}
  /\ UNCHANGED <<members, said, heard>>

Leave(q) ==
  /\ q \in members
  /\ members' = members \ {q}
  /\ gone' = gone \cup {q}
  /\ UNCHANGED <<said, heard>>

Say(q) ==
  /\ q \in members
  /\ said' = [said EXCEPT ![q] = @ + 1]
  /\ UNCHANGED <<members, gone, heard>>

\* Only the latest piece of a speaker is passed on, and once to each hearer.
Hear(q, speaker) ==
  LET piece == <<speaker, said[speaker]>> IN
  /\ {q, speaker} \subseteq members
  /\ q # speaker
  /\ said[speaker] > 0
  /\ ~HasHeard(q, piece)
  /\ heard' = [heard EXCEPT ![q] = Append(@, piece)]
  /\ UNCHANGED <<members, gone, said>>

RoomNext ==
  \E q \in Conns :
    \/ Join(q) \/ TurnAway(q) \/ Leave(q) \/ Say(q)
    \/ \E speaker \in Conns : Hear(q, speaker)

RoomSpec == RoomInit /\ [][RoomNext]_roomVars

-----------------------------------------------------------------------------
RoomTypeOK ==
  /\ members \subseteq Conns
  /\ gone \subseteq Conns
  /\ said \in [Conns -> Nat]
  /\ heard \in [Conns -> Seq(Pieces)]

\* The room is never over its capacity and nobody comes back.
RoomBounded == Cardinality(members) <= Capacity /\ members \cap gone = {}

\* What q hears from one speaker is strictly increasing: in the order said,
\* nothing twice, however the pieces of several speakers are mixed.
HeardInOrder ==
  \A q \in Conns : \A i, j \in DOMAIN heard[q] :
    i < j /\ heard[q][i][1] = heard[q][j][1] => heard[q][i][2] < heard[q][j][2]

\* Nobody hears himself, and nothing is heard that was not said.
HeardFromOthers ==
  \A q \in Conns : \A i \in DOMAIN heard[q] :
    /\ heard[q][i][1] # q
    /\ heard[q][i][2] <= said[heard[q][i][1]]
=============================================================================
