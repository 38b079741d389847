----------------------------- MODULE ClientPool -----------------------------
(***************************************************************************)
(* The table of poll descriptors of host.c: MAX_CLIENTS slots, each a      *)
(* struct pollfd and a Client flag, and the counter n_clients.  The        *)
(* counter is at once the number of occupied slots and the length of the   *)
(* prefix of the table that poll(), the main loop and broadcast_all()      *)
(* look at; slots are filled lowest first and emptied in any order.        *)
(*                                                                         *)
(* Left out, because no decision of the code reads them: `name` (only ever *)
(* NULL), `pfd` (the constant address of the slot) and `events` (POLLIN    *)
(* exactly when the slot holds a descriptor).  Of `revents` only matters   *)
(* whether it is nonzero, which is what main.c's `revents && POLLIN`       *)
(* tests, and whether poll or malloc put it there.                         *)
(***************************************************************************)
EXTENDS Integers, FiniteSets

CONSTANTS
  MAX_CLIENTS,    \* number of slots; 3 in host.h, the listener takes one
  Descriptors,    \* what client_add may be given: open file descriptors
  FreshRevents    \* what revents may read before it is first written: the
                  \* array comes from malloc and clients_init skips the field

\* revents is 0 or one of these: what poll reports, what malloc left.
Reported == 1
Leftover == 2

ASSUME PoolAssumption ==
  /\ MAX_CLIENTS \in 1..255              \* uint8_t max
  /\ Descriptors \subseteq Nat
  /\ FreshRevents \subseteq {0, Leftover}
  /\ FreshRevents # {}

VARIABLES
  fd,             \* pfds[s].fd, or NoFd
  is_connected,   \* clients[s].is_connected
  revents,        \* pfds[s].revents
  n_clients       \* uint8_t counter

poolVars == <<fd, is_connected, revents, n_clients>>

NoFd  == -1
Slots == 0 .. MAX_CLIENTS-1
U8(i) == i % 256

Connected == {s \in Slots : is_connected[s]}
Free      == Slots \ Connected
Polled    == {s \in Slots : s < n_clients}   \* the prefix the loops scan

IsFirst(s, S) == s \in S /\ \A t \in S : s <= t

(***************************************************************************)
(* The operations.                                                         *)
(***************************************************************************)
clients_init ==
  /\ fd = [s \in Slots |-> NoFd]
  /\ is_connected = [s \in Slots |-> FALSE]
  /\ revents \in [Slots -> FreshRevents]
  /\ n_clients = 0

\* client_add returns -1: the counter is at its limit, or no slot is free.
AddFails == n_clients >= MAX_CLIENTS \/ Free = {}

\* mutant: the slot at the count, as if no slot below were ever emptied.
client_add_AtCount(f) ==
  \/ AddFails /\ UNCHANGED poolVars
  \/ /\ ~AddFails
     /\ fd' = [fd EXCEPT ![n_clients] = f]
     /\ is_connected' = [is_connected EXCEPT ![n_clients] = TRUE]
     /\ n_clients' = U8(n_clients + 1)
     /\ UNCHANGED revents

client_add(f) ==
  \/ AddFails /\ UNCHANGED poolVars
  \/ /\ ~AddFails
     /\ \E s \in Free :
          /\ IsFirst(s, Free)
          /\ fd' = [fd EXCEPT ![s] = f]
          /\ is_connected' = [is_connected EXCEPT ![s] = TRUE]
     /\ n_clients' = U8(n_clients + 1)
     /\ UNCHANGED revents

SlotsOf(f) == {s \in Slots : fd[s] = f}

\* client_remove returns -1: nothing is connected, or f is in no slot.
RemoveFails(f) == n_clients = 0 \/ SlotsOf(f) = {}

\* Mutants: the stale revents stays; the counter goes down although f was not
\* found; the counter is left alone.
client_remove_KeepsRevents(f) ==
  \/ RemoveFails(f) /\ UNCHANGED poolVars
  \/ /\ ~RemoveFails(f)
     /\ \E s \in SlotsOf(f) :
          /\ IsFirst(s, SlotsOf(f))
          /\ fd' = [fd EXCEPT ![s] = NoFd]
          /\ is_connected' = [is_connected EXCEPT ![s] = FALSE]
     /\ n_clients' = U8(n_clients - 1)
     /\ UNCHANGED revents

client_remove_CountsMisses(f) ==
  LET hit == {s \in SlotsOf(f) : IsFirst(s, SlotsOf(f))} IN
  /\ fd' = [s \in Slots |-> IF s \in hit THEN NoFd ELSE fd[s]]
  /\ is_connected' = [s \in Slots |-> is_connected[s] /\ s \notin hit]
  /\ revents' = [s \in Slots |-> IF s \in hit THEN 0 ELSE revents[s]]
  /\ n_clients' = U8(n_clients - 1)

client_remove_KeepsCount(f) ==
  LET hit == {s \in SlotsOf(f) : IsFirst(s, SlotsOf(f))} IN
  /\ fd' = [s \in Slots |-> IF s \in hit THEN NoFd ELSE fd[s]]
  /\ is_connected' = [s \in Slots |-> is_connected[s] /\ s \notin hit]
  /\ revents' = [s \in Slots |-> IF s \in hit THEN 0 ELSE revents[s]]
  /\ UNCHANGED n_clients

client_remove(f) ==
  \/ RemoveFails(f) /\ UNCHANGED poolVars
  \/ /\ ~RemoveFails(f)
     /\ \E s \in SlotsOf(f) :
          /\ IsFirst(s, SlotsOf(f))
          /\ fd' = [fd EXCEPT ![s] = NoFd]
          /\ is_connected' = [is_connected EXCEPT ![s] = FALSE]
          /\ revents' = [revents EXCEPT ![s] = 0]
     /\ n_clients' = U8(n_clients - 1)

\* poll(pfds, n_clients, ...) writes revents of the scanned prefix only, and
\* zero for an entry whose descriptor is negative.
poll(ready) ==
  /\ revents' = [s \in Slots |-> IF s \notin Polled THEN revents[s]
                                ELSE IF fd[s] \in ready THEN Reported ELSE 0]
  /\ UNCHANGED <<fd, is_connected, n_clients>>

(***************************************************************************)
(* The pool driven by any sequence of calls on descriptors, duplicates and *)
(* unknown ones included, as UNIT_CLIENT_BASICS does.                      *)
(***************************************************************************)
PoolInit == clients_init

PoolNext ==
  \/ \E f \in Descriptors : client_add(f)
  \/ \E f \in Descriptors : client_remove(f)
  \/ \E ready \in SUBSET Descriptors : poll(ready)

PoolSpec == PoolInit /\ [][PoolNext]_poolVars

-----------------------------------------------------------------------------
\* The types; the counter, a byte that client_remove could take below zero,
\* stays within the table.
PoolTypeOK ==
  /\ fd \in [Slots -> Descriptors \cup {NoFd}]
  /\ is_connected \in [Slots -> BOOLEAN]
  /\ revents \in [Slots -> {0, Reported, Leftover}]
  /\ n_clients \in 0 .. MAX_CLIENTS

\* The flag and the descriptor of a slot, kept in two arrays by two
\* functions, agree: a slot is connected iff it holds a descriptor.
SlotsAgree == \A s \in Slots : is_connected[s] <=> fd[s] # NoFd

\* The byte counter is the number of occupied slots, whatever sequence of
\* adds and removes ran: it never wraps and never drifts.
CountMatches == n_clients = Cardinality(Connected)

\* A free slot with revents still set was never occupied, so every occupied
\* slot is below it: what malloc left in the array is not read for a hole.
UnusedAbove ==
  \A s \in Free : revents[s] # 0 => \A t \in Connected : t < s

\* The three together are what every call preserves.
PoolInv == SlotsAgree /\ CountMatches /\ UnusedAbove

\* host.c:78, "unreachable": below the limit client_add finds a free slot.
FreeSlotExists == n_clients < MAX_CLIENTS => Free # {}

\* Empty slots inside the prefix that poll and the loops look at, and clients
\* outside it.
Holes    == Free \cap Polled
Stranded == Connected \ Polled

\* Main's scan meets a nonzero revents only in a slot that holds a descriptor.
HolesAreQuiet == \A s \in Holes : revents[s] = 0
=============================================================================
