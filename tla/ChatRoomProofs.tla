--------------------------- MODULE ChatRoomProofs ---------------------------
(***************************************************************************)
(* Theorems about the room the chat host promises, for any connections and *)
(* any capacity.  Whatever implements the room inherits them.              *)
(***************************************************************************)
EXTENDS ChatRoom, FiniteSetTheorems, TLAPS

\* A piece that was heard had been said: what HeardFromOthers says of q.
HeardWasSaid(q) ==
  \A i \in DOMAIN heard[q] :
    /\ heard[q][i][1] # q
    /\ heard[q][i][2] <= said[heard[q][i][1]]

\* What HeardInOrder says of q.
InOrder(q) ==
  \A i, j \in DOMAIN heard[q] :
    i < j /\ heard[q][i][1] = heard[q][j][1] => heard[q][i][2] < heard[q][j][2]

\* The order holds because the room passes on the latest piece only, and only
\* to those who have not heard it: what was heard before is older.
RoomInv == RoomTypeOK /\ \A q \in Conns : HeardWasSaid(q) /\ InOrder(q)

LEMMA SayKeepsOrder ==
  ASSUME RoomInv, NEW q \in Conns, Say(q)
  PROVE  RoomInv'
<1>1. /\ said \in [Conns -> Nat] /\ heard \in [Conns -> Seq(Pieces)]
      /\ said' = [said EXCEPT ![q] = said[q] + 1]
      /\ UNCHANGED <<members, gone, heard>>
  BY DEF RoomInv, RoomTypeOK, Say
<1>2. RoomTypeOK'
  BY <1>1 DEF RoomInv, RoomTypeOK
<1>3. \A p \in Conns : said'[p] \in Nat /\ said[p] \in Nat /\ said'[p] >= said[p]
  BY <1>1
<1>4. ASSUME NEW p \in Conns
      PROVE  HeardWasSaid(p)' /\ InOrder(p)'
  <2>1. ASSUME NEW i \in DOMAIN heard[p]
        PROVE  /\ heard[p][i][1] # p
               /\ heard[p][i][2] <= said'[heard[p][i][1]]
    <3>1. heard[p][i] \in Pieces
      BY <1>1
    <3>2. heard[p][i][1] \in Conns /\ heard[p][i][2] \in Nat
      BY <3>1 DEF Pieces
    <3>3. heard[p][i][1] # p /\ heard[p][i][2] <= said[heard[p][i][1]]
      BY DEF RoomInv, HeardWasSaid
    <3>4. QED
      BY <1>3, <3>2, <3>3
  <2>2. QED
    BY <1>1, <2>1 DEF HeardWasSaid, InOrder, RoomInv
<1>5. QED
  BY <1>2, <1>4 DEF RoomInv

LEMMA HearKeepsOrder ==
  ASSUME RoomInv, NEW q \in Conns, NEW speaker \in Conns, Hear(q, speaker)
  PROVE  RoomInv'
<1> DEFINE piece == <<speaker, said[speaker]>>
<1>1. /\ said \in [Conns -> Nat] /\ heard \in [Conns -> Seq(Pieces)]
      /\ said[speaker] > 0 /\ q # speaker /\ ~HasHeard(q, piece)
      /\ heard' = [heard EXCEPT ![q] = Append(heard[q], piece)]
      /\ UNCHANGED <<members, gone, said>>
  BY DEF RoomInv, RoomTypeOK, Hear
<1>2. piece \in Pieces /\ piece[1] = speaker /\ piece[2] = said[speaker]
  BY <1>1 DEF Pieces
<1>3. HasHeard(q, piece) <=> \E i \in DOMAIN heard[q] : heard[q][i] = piece
  BY DEF HasHeard
<1>4. \A x \in Pieces : x[1] = speaker /\ x # piece => x[2] # said[speaker]
  BY DEF Pieces
<1> HIDE DEF piece
<1>5. /\ heard[q] \in Seq(Pieces) /\ Len(heard[q]) \in Nat
      /\ DOMAIN heard[q] = 1 .. Len(heard[q])
  BY <1>1
<1>6. /\ heard'[q] = Append(heard[q], piece) /\ heard'[q] \in Seq(Pieces)
      /\ DOMAIN heard'[q] = 1 .. Len(heard[q]) + 1
      /\ \A i \in DOMAIN heard[q] : heard'[q][i] = heard[q][i]
      /\ heard'[q][Len(heard[q]) + 1] = piece
  BY <1>1, <1>2, <1>5
<1>7. RoomTypeOK'
  BY <1>1, <1>6 DEF RoomInv, RoomTypeOK
<1>8. ASSUME NEW p \in Conns, p # q
      PROVE  HeardWasSaid(p)' /\ InOrder(p)'
  <2>1. heard'[p] = heard[p]
    BY <1>1, <1>8
  <2>2. QED
    BY <1>1, <2>1 DEF HeardWasSaid, InOrder, RoomInv
<1>9. HeardWasSaid(q)'
  <2> SUFFICES ASSUME NEW i \in DOMAIN heard'[q]
               PROVE  /\ heard'[q][i][1] # q
                      /\ heard'[q][i][2] <= said[heard'[q][i][1]]
    BY <1>1 DEF HeardWasSaid
  <2>1. CASE i \in DOMAIN heard[q]
    BY <1>6, <2>1 DEF RoomInv, HeardWasSaid
  <2>2. CASE i = Len(heard[q]) + 1
    BY <1>1, <1>2, <1>6, <2>2
  <2>3. QED
    BY <1>5, <1>6, <2>1, <2>2
<1>10. InOrder(q)'
  <2> SUFFICES ASSUME NEW i \in DOMAIN heard'[q], NEW j \in DOMAIN heard'[q],
                      i < j, heard'[q][i][1] = heard'[q][j][1]
               PROVE  heard'[q][i][2] < heard'[q][j][2]
    BY DEF InOrder
  <2>1. i \in DOMAIN heard[q] /\ heard'[q][i] = heard[q][i]
    BY <1>5, <1>6
  <2>2. CASE j \in DOMAIN heard[q]
    BY <1>6, <2>1, <2>2 DEF RoomInv, InOrder
  <2>3. CASE j = Len(heard[q]) + 1
    <3>1. heard'[q][j] = piece /\ heard[q][i][1] = speaker
      BY <1>2, <1>6, <2>1, <2>3
    <3>2. heard[q][i] \in Pieces /\ heard[q][i][2] \in Nat
      BY <1>5, <2>1 DEF Pieces
    <3>3. heard[q][i][2] <= said[speaker]
      BY <2>1, <3>1 DEF RoomInv, HeardWasSaid
    <3>4. heard[q][i][2] # said[speaker]
      BY <1>1, <1>3, <1>4, <2>1, <3>1, <3>2
    <3>5. QED
      BY <1>1, <1>2, <2>1, <3>1, <3>2, <3>3, <3>4
  <2>4. QED
    BY <1>5, <1>6, <2>2, <2>3
<1>11. QED
  BY <1>7, <1>8, <1>9, <1>10 DEF RoomInv

LEMMA StepRoomInv == RoomInv /\ [RoomNext]_roomVars => RoomInv'
<1> SUFFICES ASSUME RoomInv, [RoomNext]_roomVars PROVE RoomInv'
  OBVIOUS
<1>1. CASE \E q \in Conns : Join(q) \/ TurnAway(q) \/ Leave(q)
  <2>1. /\ members' \subseteq Conns /\ gone' \subseteq Conns
        /\ UNCHANGED <<said, heard>>
    BY <1>1 DEF Join, TurnAway, Leave, RoomInv, RoomTypeOK
  <2>2. QED
    BY <2>1 DEF RoomInv, RoomTypeOK, HeardWasSaid, InOrder
<1>2. CASE \E q \in Conns : Say(q)
  BY <1>2, SayKeepsOrder
<1>3. CASE \E q, speaker \in Conns : Hear(q, speaker)
  BY <1>3, HearKeepsOrder
<1>4. CASE UNCHANGED roomVars
  BY <1>4 DEF roomVars, RoomInv, RoomTypeOK, HeardWasSaid, InOrder
<1>5. QED
  BY <1>1, <1>2, <1>3, <1>4 DEF RoomNext

LEMMA InitRoomInv == RoomInit => RoomInv
BY DEF RoomInit, RoomInv, RoomTypeOK, HeardWasSaid, InOrder

\* In the room nobody hears himself or what was not said, and everybody hears
\* each speaker in the order of his pieces, nothing twice.
THEOREM RoomIsOrderly == RoomSpec => [](RoomTypeOK /\ HeardInOrder /\ HeardFromOthers)
<1>1. RoomInv => RoomTypeOK /\ HeardInOrder /\ HeardFromOthers
  BY DEF RoomInv, HeardWasSaid, InOrder, HeardInOrder, HeardFromOthers
<1>2. QED
  BY <1>1, InitRoomInv, StepRoomInv, PTL DEF RoomSpec

\* Never more members than seats, and nobody who left comes back.
Seated == /\ IsFiniteSet(members) /\ Cardinality(members) <= Capacity
          /\ members \cap gone = {}

\* The room keeps its capacity: joining is the only way in, and it asks for a
\* seat first.
THEOREM RoomKeepsCapacity ==
  ASSUME Capacity \in Nat
  PROVE  RoomSpec => []RoomBounded
<1>1. RoomInit => Seated
  BY FS_EmptySet DEF RoomInit, Seated
<1>2. Seated /\ [RoomNext]_roomVars => Seated'
  <2> SUFFICES ASSUME Seated, [RoomNext]_roomVars PROVE Seated'
    OBVIOUS
  <2>1. IsFiniteSet(members) /\ Cardinality(members) \in Nat
    BY FS_CardinalityType DEF Seated
  <2>2. CASE \E q \in Conns : Join(q)
    <3>1. PICK q \in Conns : Join(q)
      BY <2>2
    <3>2. /\ IsFiniteSet(members \cup {q})
          /\ Cardinality(members \cup {q}) = Cardinality(members) + 1
      BY <2>1, <3>1, FS_AddElement DEF Join
    <3>3. QED
      BY <2>1, <3>1, <3>2 DEF Join, Seated
  <2>3. CASE \E q \in Conns : TurnAway(q)
    BY <2>3 DEF TurnAway, Seated
  <2>4. CASE \E q \in Conns : Leave(q)
    <3>1. PICK q \in Conns : Leave(q)
      BY <2>4
    <3>2. /\ IsFiniteSet(members \ {q})
          /\ Cardinality(members \ {q}) = Cardinality(members) - 1
      BY <2>1, <3>1, FS_RemoveElement DEF Leave
    <3>3. QED
      BY <2>1, <3>1, <3>2 DEF Leave, Seated
  <2>5. CASE \E q \in Conns : Say(q) \/ \E speaker \in Conns : Hear(q, speaker)
    BY <2>5 DEF Say, Hear, Seated
  <2>6. CASE UNCHANGED roomVars
    BY <2>6 DEF roomVars, Seated
  <2>7. QED
    BY <2>2, <2>3, <2>4, <2>5, <2>6 DEF RoomNext
<1>3. Seated => RoomBounded
  BY DEF Seated, RoomBounded
<1>4. QED
  BY <1>1, <1>2, <1>3, PTL DEF RoomSpec
=============================================================================
