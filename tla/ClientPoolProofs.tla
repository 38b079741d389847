-------------------------- MODULE ClientPoolProofs --------------------------
(***************************************************************************)
(* Theorems about the pool of host.c, for every table size a uint8_t can   *)
(* hold and every sequence of calls.  The three conjuncts of PoolInv are   *)
(* inductive together: SlotsAgree says that client_remove empties an       *)
(* occupied slot, which CountMatches needs; CountMatches keeps the byte    *)
(* counter from wrapping.                                                  *)
(***************************************************************************)
EXTENDS ClientPool, FiniteSetTheorems, TLAPS

\* The table is finite, and so are the occupied and the free part of it.
LEMMA SlotSets ==
  /\ IsFiniteSet(Slots) /\ Cardinality(Slots) = MAX_CLIENTS
  /\ IsFiniteSet(Connected) /\ Cardinality(Connected) \in Nat
  /\ Cardinality(Connected) <= MAX_CLIENTS
<1>1. MAX_CLIENTS \in Nat /\ MAX_CLIENTS > 0
  BY PoolAssumption
<1>2. IsFiniteSet(Slots) /\ Cardinality(Slots) = MAX_CLIENTS
  BY <1>1, FS_Interval DEF Slots
<1>3. Connected \in SUBSET Slots
  BY DEF Connected
<1>4. QED
  BY <1>2, <1>3, FS_Subset, FS_CardinalityType

-----------------------------------------------------------------------------
(* What each operation preserves                                           *)

\* A new pool is well typed and consistent.
LEMMA InitPool ==
  ASSUME clients_init
  PROVE  PoolTypeOK /\ PoolInv
<1>1. Connected = {}
  BY DEF clients_init, Connected
<1>2. PoolTypeOK
  <2>1. \A s \in Slots : revents[s] \in {0, Reported, Leftover}
    BY PoolAssumption DEF clients_init
  <2>2. revents \in [Slots -> {0, Reported, Leftover}]
    BY <2>1 DEF clients_init
  <2>3. QED
    BY <2>2, PoolAssumption DEF clients_init, PoolTypeOK
<1>3. CountMatches
  BY <1>1, FS_EmptySet DEF CountMatches, clients_init
<1>4. SlotsAgree /\ UnusedAbove
  BY <1>1 DEF SlotsAgree, UnusedAbove, clients_init
<1>5. QED
  BY <1>2, <1>3, <1>4 DEF PoolInv

\* client_add, whether it finds room or not.
LEMMA AddPool ==
  ASSUME PoolTypeOK, PoolInv, NEW f \in Descriptors, client_add(f)
  PROVE  PoolTypeOK' /\ PoolInv'
<1>1. CASE UNCHANGED poolVars
  BY <1>1 DEF poolVars, PoolTypeOK, PoolInv, SlotsAgree, CountMatches,
              UnusedAbove, Connected, Free
<1>2. CASE ~AddFails /\ ~UNCHANGED poolVars
  <2>1. PICK s \in Free :
          /\ IsFirst(s, Free)
          /\ fd' = [fd EXCEPT ![s] = f]
          /\ is_connected' = [is_connected EXCEPT ![s] = TRUE]
    BY <1>2 DEF client_add
  <2>2. n_clients' = U8(n_clients + 1) /\ UNCHANGED revents
    BY <1>2 DEF client_add
  <2>3. s \in Slots /\ s \notin Connected
    BY DEF Free
  <2>4. Connected' = Connected \cup {s}
    BY <2>1, <2>3 DEF Connected, PoolTypeOK
  <2>5. n_clients < MAX_CLIENTS
    BY <1>2, PoolAssumption DEF AddFails, PoolTypeOK
  <2>6. n_clients' = n_clients + 1
    BY <2>2, <2>5, PoolAssumption DEF U8, PoolTypeOK
  <2>7. f # NoFd
    BY PoolAssumption DEF NoFd
  <2>8. PoolTypeOK'
    BY <2>1, <2>2, <2>3, <2>5, <2>6, PoolAssumption DEF PoolTypeOK
  <2>9. CountMatches'
    BY <2>3, <2>4, <2>6, SlotSets, FS_AddElement DEF CountMatches, PoolInv
  <2>10. SlotsAgree'
    BY <2>1, <2>3, <2>7 DEF SlotsAgree, PoolInv, PoolTypeOK
  <2>11. UnusedAbove'
    <3>1. Free' \subseteq Free \ {s}
      BY <2>4 DEF Free
    <3>2. ASSUME NEW t \in Free', revents[t] # 0
          PROVE  \A u \in Connected \cup {s} : u < t
      <4>1. \A u \in Connected : u < t
        BY <3>1, <3>2 DEF PoolInv, UnusedAbove
      <4>2. s <= t /\ s # t
        BY <2>1, <3>1, <3>2 DEF IsFirst
      <4>3. s < t
        BY <2>3, <3>1, <4>2, PoolAssumption DEF Free, Slots
      <4>4. QED
        BY <4>1, <4>3
    <3>3. QED
      BY <2>2, <2>4, <3>2 DEF UnusedAbove
  <2>12. QED
    BY <2>8, <2>9, <2>10, <2>11 DEF PoolInv
<1>3. QED
  BY <1>1, <1>2 DEF client_add

\* client_remove, whether it finds f or not.
LEMMA RemovePool ==
  ASSUME PoolTypeOK, PoolInv, NEW f \in Descriptors, client_remove(f)
  PROVE  PoolTypeOK' /\ PoolInv'
<1>1. CASE UNCHANGED poolVars
  BY <1>1 DEF poolVars, PoolTypeOK, PoolInv, SlotsAgree, CountMatches,
              UnusedAbove, Connected, Free
<1>2. CASE ~RemoveFails(f) /\ ~UNCHANGED poolVars
  <2>1. PICK s \in SlotsOf(f) :
          /\ IsFirst(s, SlotsOf(f))
          /\ fd' = [fd EXCEPT ![s] = NoFd]
          /\ is_connected' = [is_connected EXCEPT ![s] = FALSE]
          /\ revents' = [revents EXCEPT ![s] = 0]
    BY <1>2 DEF client_remove
  <2>2. n_clients' = U8(n_clients - 1)
    BY <1>2 DEF client_remove
  <2>3. s \in Slots /\ fd[s] = f /\ f # NoFd
    BY PoolAssumption DEF SlotsOf, NoFd
  <2>4. s \in Connected
    BY <2>3 DEF Connected, PoolInv, SlotsAgree
  <2>5. Connected' = Connected \ {s}
    BY <2>1, <2>3 DEF Connected, PoolTypeOK
  <2>6. n_clients' = n_clients - 1 /\ n_clients > 0
    BY <1>2, <2>2, PoolAssumption DEF RemoveFails, U8, PoolTypeOK
  <2>7. PoolTypeOK'
    BY <2>1, <2>3, <2>6, PoolAssumption DEF PoolTypeOK
  <2>8. CountMatches'
    BY <2>4, <2>5, <2>6, SlotSets, FS_RemoveElement DEF CountMatches, PoolInv
  <2>9. SlotsAgree'
    BY <2>1, <2>3 DEF SlotsAgree, PoolInv, PoolTypeOK
  <2>10. UnusedAbove'
    BY <2>1, <2>3, <2>5 DEF UnusedAbove, PoolInv, PoolTypeOK, Free
  <2>11. QED
    BY <2>7, <2>8, <2>9, <2>10 DEF PoolInv
<1>3. QED
  BY <1>1, <1>2 DEF client_remove

\* poll, whatever descriptors are ready.
LEMMA PollPool ==
  ASSUME PoolTypeOK, PoolInv, NEW ready \in SUBSET Descriptors, poll(ready)
  PROVE  PoolTypeOK' /\ PoolInv'
<1>1. UNCHANGED <<Connected, Free>>
  BY DEF poll, Connected, Free
<1>2. NoFd \notin ready
  BY PoolAssumption DEF NoFd
<1>3. \A s \in Free : fd[s] = NoFd
  BY DEF Free, Connected, PoolInv, SlotsAgree
<1>4. \A s \in Free : revents'[s] # 0 => revents[s] # 0
  BY <1>2, <1>3 DEF poll, Free
<1>5. PoolTypeOK'
  BY DEF PoolTypeOK, poll
<1>6. SlotsAgree' /\ CountMatches'
  BY <1>1 DEF PoolInv, SlotsAgree, CountMatches, poll
<1>7. UnusedAbove'
  BY <1>1, <1>4 DEF UnusedAbove, PoolInv
<1>8. QED
  BY <1>5, <1>6, <1>7 DEF PoolInv

-----------------------------------------------------------------------------
(* What PoolInv implies                                                    *)

\* Below the limit there is a free slot.
LEMMA InvFreeSlot ==
  ASSUME PoolTypeOK, PoolInv
  PROVE  FreeSlotExists
<1>1. Free = {} => Connected = Slots
  BY DEF Free, Connected
<1>2. QED
  BY <1>1, SlotSets DEF FreeSlotExists, PoolInv, CountMatches

\* A free slot inside the scanned prefix cannot have every client below it:
\* the counter would be larger than the number of clients.
LEMMA InvQuietHoles ==
  ASSUME PoolTypeOK, PoolInv
  PROVE  HolesAreQuiet
<1> SUFFICES ASSUME NEW s \in Holes, revents[s] # 0 PROVE FALSE
  BY DEF HolesAreQuiet
<1>1. s \in Free /\ s \in Slots /\ s < n_clients
  BY DEF Holes, Free, Polled
<1>2. \A t \in Connected : t < s
  BY <1>1 DEF PoolInv, UnusedAbove
<1>3. s \in Nat /\ n_clients \in Nat
  BY <1>1, PoolAssumption DEF Slots, PoolTypeOK
<1>4. Connected \in SUBSET (0 .. s-1)
  BY <1>2, <1>3, PoolAssumption DEF Connected, Slots
<1>5. IsFiniteSet(0 .. s-1) /\ Cardinality(0 .. s-1) = s
  BY <1>3, FS_Interval
<1>6. Cardinality(Connected) <= s
  BY <1>4, <1>5, FS_Subset
<1>7. QED
  BY <1>1, <1>3, <1>6 DEF PoolInv, CountMatches

-----------------------------------------------------------------------------
(* The theorems                                                            *)

\* The pool is well typed and consistent: client_add and client_remove keep
\* the flags, the descriptors and the byte counter in step.
THEOREM PoolCorrect == PoolSpec => [](PoolTypeOK /\ PoolInv)
<1>1. PoolInit => PoolTypeOK /\ PoolInv
  BY InitPool DEF PoolInit
<1>2. PoolTypeOK /\ PoolInv /\ [PoolNext]_poolVars => PoolTypeOK' /\ PoolInv'
  <2> SUFFICES ASSUME PoolTypeOK, PoolInv, [PoolNext]_poolVars
               PROVE  PoolTypeOK' /\ PoolInv'
    OBVIOUS
  <2>1. CASE \E f \in Descriptors : client_add(f)
    BY <2>1, AddPool
  <2>2. CASE \E f \in Descriptors : client_remove(f)
    BY <2>2, RemovePool
  <2>3. CASE \E ready \in SUBSET Descriptors : poll(ready)
    BY <2>3, PollPool
  <2>4. CASE UNCHANGED poolVars
    BY <2>4 DEF poolVars, PoolTypeOK, PoolInv, SlotsAgree, CountMatches,
                UnusedAbove, Connected, Free
  <2>5. QED
    BY <2>1, <2>2, <2>3, <2>4 DEF PoolNext
<1>3. QED
  BY <1>1, <1>2, PTL DEF PoolSpec

\* The last line of client_add is unreachable, as its comment says.
THEOREM AddIsTotal == PoolSpec => []FreeSlotExists
<1>1. PoolTypeOK /\ PoolInv => FreeSlotExists
  BY InvFreeSlot
<1>2. QED
  BY <1>1, PoolCorrect, PTL

\* What malloc left in revents is never read for a slot without a client.
THEOREM HolesStayQuiet == PoolSpec => []HolesAreQuiet
<1>1. PoolTypeOK /\ PoolInv => HolesAreQuiet
  BY InvQuietHoles
<1>2. QED
  BY <1>1, PoolCorrect, PTL
=============================================================================
