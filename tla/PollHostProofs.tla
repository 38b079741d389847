--------------------------- MODULE PollHostProofs ---------------------------
(***************************************************************************)
(* Theorems about the poll host, for every pool size, set of descriptors,  *)
(* number of clients and buffer size.  Inv is inductive: HostInv alone is  *)
(* not, since that a new descriptor is in no slot yet (OneSlotEach) rests  *)
(* on open descriptors being the listed ones (DescriptorsAccounted).       *)
(***************************************************************************)
EXTENDS PollHost, ClientPoolProofs, FunctionTheorems

Inv == HostTypeOK /\ HostInv /\ DescriptorsAccounted

\* Facts about the constants.
LEMMA Consts ==
  /\ Fds \subseteq Descriptors /\ Listener \in Descriptors
  /\ NoFd \notin Descriptors /\ Descriptors \subseteq Nat
  /\ 0 \in Slots /\ Slots \subseteq Nat
  /\ NoConn \notin Conns
  /\ SndBuf \in Nat \ {0}
BY PoolAssumption, HostAssumption DEF Fds, NoFd, Slots

\* A connected slot holds the listener or an open connection of its own.
LEMMA OpenSlot ==
  ASSUME Inv, NEW s \in Connected, fd[s] # Listener
  PROVE  /\ s \in Slots /\ fd[s] \in Fds /\ fd[s] \in Descriptors
         /\ conn(s) = sock[fd[s]]
         /\ conn(s) \in Conns /\ conn(s) # NoConn
<1>1. s \in Slots /\ is_connected[s]
  BY DEF Connected
<1>2. fd[s] \in Descriptors
  BY <1>1 DEF Inv, HostTypeOK, PoolTypeOK, HostInv, PoolInv, SlotsAgree
<1>3. fd[s] \in Fds
  BY <1>2 DEF Fds
<1>4. sock[fd[s]] # NoConn
  BY <1>1, <1>3 DEF Inv, DescriptorsAccounted, OpenIffListed
<1>5. QED
  BY <1>1, <1>2, <1>3, <1>4, Consts DEF conn, Inv, HostTypeOK

\* What conn can be.
LEMMA ConnType ==
  ASSUME Inv, NEW s, conn(s) # NoConn
  PROVE  conn(s) \in Conns /\ Held(conn(s))
BY DEF conn, Held, Inv, HostTypeOK

\* The scan is inside the table, and a slot it acts on is connected.
LEMMA ScanSlot ==
  ASSUME Inv, Scanning, revents[c] # 0
  PROVE  c \in Connected
<1>1. c \in Slots
  <2>1. n_clients <= MAX_CLIENTS /\ n_clients \in Nat
    BY SlotSets DEF Inv, HostInv, PoolInv, CountMatches
  <2>2. c \in Nat /\ c < n_clients
    BY DEF Inv, HostTypeOK, Scanning
  <2>3. QED
    BY <2>1, <2>2, PoolAssumption DEF Slots
<1>2. HolesAreQuiet
  BY InvQuietHoles DEF Inv, HostInv, HostTypeOK
<1>3. QED
  BY <1>1, <1>2 DEF HolesAreQuiet, Holes, Free, Polled, Scanning

\* Steps that leave the table and the descriptors alone.
LEMMA SameTable ==
  ASSUME Inv, UNCHANGED <<poolVars, sock>>
  PROVE  /\ PoolTypeOK' /\ PoolInv' /\ OneSlotEach'
         /\ OpenIffListed' /\ OneFdEach'
         /\ \A s : conn(s)' = conn(s)
         /\ \A q : Held(q)' = Held(q)
         /\ Connected' = Connected
<1>1. Connected' = Connected
  BY DEF Connected, poolVars
<1>2. PoolTypeOK' /\ PoolInv'
  BY <1>1 DEF Inv, HostTypeOK, HostInv, PoolTypeOK, PoolInv, SlotsAgree,
              CountMatches, UnusedAbove, Free, poolVars
<1>3. OneSlotEach' /\ OpenIffListed' /\ OneFdEach'
  BY <1>1 DEF Inv, HostInv, DescriptorsAccounted, OneSlotEach, OpenIffListed,
              OneFdEach, poolVars
<1>4. \A s : conn(s)' = conn(s)
  BY DEF conn, poolVars
<1>5. \A q : Held(q)' = Held(q)
  BY DEF Held
<1>6. QED
  BY <1>1, <1>2, <1>3, <1>4, <1>5

\* Accepting the first connection in the backlog.
LEMMA QueueTail ==
  ASSUME Inv, backlog # <<>>, backlog' = Tail(backlog)
  PROVE  /\ Head(backlog) \in Conns
         /\ Queued(Head(backlog))
         /\ backlog' \in Seq(Conns)
         /\ QueuedOnce'
         /\ \A q : Queued(q)' <=> (Queued(q) /\ q # Head(backlog))
<1>1. backlog \in Seq(Conns) /\ QueuedOnce
  BY DEF Inv, HostTypeOK, DescriptorsAccounted
<1>2. /\ Len(backlog) \in Nat /\ Len(backlog) > 0
      /\ DOMAIN backlog = 1 .. Len(backlog)
      /\ Head(backlog) = backlog[1] /\ backlog[1] \in Conns
  BY <1>1
<1>3. /\ backlog' \in Seq(Conns)
      /\ DOMAIN backlog' = 1 .. Len(backlog)-1
      /\ \A i \in 1 .. Len(backlog)-1 : backlog'[i] = backlog[i+1]
  BY <1>1, <1>2
<1>4. QueuedOnce'
  <2> SUFFICES ASSUME NEW i \in 1 .. Len(backlog)-1,
                      NEW j \in 1 .. Len(backlog)-1,
                      backlog'[i] = backlog'[j]
               PROVE  i = j
    BY <1>3 DEF QueuedOnce
  <2>1. i+1 \in DOMAIN backlog /\ j+1 \in DOMAIN backlog
    BY <1>2
  <2>2. backlog[i+1] = backlog[j+1]
    BY <1>3
  <2>3. i+1 = j+1
    BY <1>1, <2>1, <2>2 DEF QueuedOnce
  <2>4. QED
    BY <2>3
<1>5. ASSUME NEW q
      PROVE  Queued(q)' <=> (Queued(q) /\ q # Head(backlog))
  <2>1. ASSUME NEW i \in 1 .. Len(backlog)-1, backlog'[i] = q
        PROVE  Queued(q) /\ q # Head(backlog)
    <3>1. i+1 \in DOMAIN backlog /\ 1 \in DOMAIN backlog /\ i+1 # 1
      BY <1>2
    <3>2. backlog[i+1] = q
      BY <1>3, <2>1
    <3>3. q # backlog[1]
      BY <1>1, <3>1, <3>2 DEF QueuedOnce
    <3>4. QED
      BY <1>2, <3>1, <3>2, <3>3 DEF Queued
  <2>2. ASSUME NEW i \in DOMAIN backlog, backlog[i] = q, q # Head(backlog)
        PROVE  Queued(q)'
    <3>1. i # 1 /\ i \in 1 .. Len(backlog)
      BY <1>2, <2>2
    <3>2. i-1 \in 1 .. Len(backlog)-1 /\ (i-1)+1 = i
      BY <1>2, <3>1
    <3>3. backlog'[i-1] = q
      BY <1>3, <2>2, <3>2
    <3>4. QED
      BY <1>3, <3>2, <3>3 DEF Queued
  <2>3. QED
    BY <1>3, <2>1, <2>2 DEF Queued
<1>6. Queued(Head(backlog))
  BY <1>2 DEF Queued
<1>7. QED
  BY <1>2, <1>3, <1>4, <1>5, <1>6

\* A connection joins the backlog.
LEMMA QueueAppend ==
  ASSUME Inv, NEW p \in Conns, ~Queued(p), backlog' = Append(backlog, p)
  PROVE  /\ backlog' \in Seq(Conns)
         /\ QueuedOnce'
         /\ \A q : Queued(q)' <=> (Queued(q) \/ q = p)
<1>1. backlog \in Seq(Conns) /\ QueuedOnce
  BY DEF Inv, HostTypeOK, DescriptorsAccounted
<1>2. Len(backlog) \in Nat /\ DOMAIN backlog = 1 .. Len(backlog)
  BY <1>1
<1>3. /\ backlog' \in Seq(Conns)
      /\ DOMAIN backlog' = 1 .. Len(backlog)+1
      /\ \A i \in 1 .. Len(backlog) : backlog'[i] = backlog[i]
      /\ backlog'[Len(backlog)+1] = p
  BY <1>1, <1>2
<1>4. \A i \in 1 .. Len(backlog) : backlog[i] # p
  BY <1>2 DEF Queued
<1>5. \A i \in 1 .. Len(backlog)+1 : i \in 1 .. Len(backlog) \/ i = Len(backlog)+1
  BY <1>2
<1>6. QueuedOnce'
  BY <1>1, <1>2, <1>3, <1>4, <1>5 DEF QueuedOnce
<1>7. \A q : Queued(q)' <=> (Queued(q) \/ q = p)
  BY <1>2, <1>3, <1>5 DEF Queued
<1>8. QED
  BY <1>3, <1>6, <1>7

-----------------------------------------------------------------------------
(* The steps of the host                                                   *)

\* Initially the table is empty and no connection exists.
LEMMA InitInv == Init => Inv
<1> SUFFICES ASSUME Init PROVE Inv
  OBVIOUS
<1>1. PoolTypeOK /\ PoolInv
  BY InitPool DEF Init
<1>2. Connected = {}
  BY DEF Init, clients_init, Connected
<1>3. HostTypeOK
  BY <1>1, Consts DEF Init, HostTypeOK, Exits, Links
<1>4. HostInv
  BY <1>1, <1>2 DEF Init, HostInv, OneSlotEach, ListenerFirst, SenderStays
<1>5. OpenIffListed /\ OneFdEach
  BY Consts DEF Init, clients_init, OpenIffListed, OneFdEach, Fds
<1>6. QueuedOnce /\ AliveAccounted
  BY Consts DEF Init, QueuedOnce, AliveAccounted, Queued, Held, Alive
<1>7. QED
  BY <1>3, <1>4, <1>5, <1>6 DEF Inv, DescriptorsAccounted

\* Steps that move only the program counter and the loop indices.
LEMMA LocalStep ==
  ASSUME Inv, WorldUnchanged,
         pc' \in {"poll", "scan", "bcast", "exit"}, pc \notin {"start", "exit"} \/ pc' = "exit",
         pc' = "bcast" => pc = "bcast" /\ c' = c,
         c' \in Nat, d' \in Nat, exit' \in Exits
  PROVE  Inv'
<1>1. UNCHANGED <<poolVars, sock>>
  BY DEF WorldUnchanged
<1>2. HostTypeOK'
  BY <1>1, SameTable DEF HostTypeOK, Inv, WorldUnchanged, peerVars
<1>3. ListenerFirst'
  BY <1>1 DEF Inv, HostInv, ListenerFirst, poolVars
<1>4. SenderStays'
  BY <1>1, SameTable DEF Inv, HostInv, SenderStays, poolVars, WorldUnchanged
<1>5. QueuedOnce' /\ AliveAccounted'
  BY <1>1, SameTable DEF Inv, DescriptorsAccounted, QueuedOnce, AliveAccounted,
                         Queued, WorldUnchanged, peerVars
<1>6. QED
  BY <1>1, <1>2, <1>3, <1>4, <1>5, SameTable
     DEF Inv, HostInv, DescriptorsAccounted

\* Start-up puts the listener into the empty table.
LEMMA StartupInv ==
  ASSUME Inv, Startup
  PROVE  Inv'
<1>1. PoolTypeOK' /\ PoolInv'
  BY AddPool, Consts DEF Startup, Inv, HostTypeOK, HostInv
<1>2. Connected = {} /\ Free = Slots /\ n_clients = 0
  BY FS_EmptySet DEF Startup, Inv, HostInv, ListenerFirst, Free, PoolInv,
                     CountMatches
<1>3. ~AddFails
  BY <1>2, Consts, PoolAssumption DEF AddFails
<1>4. PICK s \in Free : /\ IsFirst(s, Free)
                        /\ fd' = [fd EXCEPT ![s] = Listener]
                        /\ is_connected' = [is_connected EXCEPT ![s] = TRUE]
  BY <1>3 DEF Startup, client_add
<1>5. s = 0
  BY <1>2, <1>4, Consts, PoolAssumption DEF IsFirst, Slots
<1>6. fd'[0] = Listener /\ Connected' = {0}
  BY <1>2, <1>4, <1>5, Consts
     DEF Connected, Inv, HostTypeOK, PoolTypeOK
<1>7. HostTypeOK'
  BY <1>1 DEF Startup, Inv, HostTypeOK, peerVars
<1>8. HostInv'
  BY <1>1, <1>6 DEF Startup, HostInv, OneSlotEach, ListenerFirst, SenderStays
<1>9. OpenIffListed'
  <2>1. \A t \in Slots : fd[t] = NoFd
    BY <1>2 DEF Inv, HostInv, PoolInv, SlotsAgree, Connected
  <2>2. \A t \in Slots : fd'[t] \in {NoFd, Listener}
    BY <1>4, <2>1 DEF Inv, HostTypeOK, PoolTypeOK
  <2>3. \A f \in Fds : f \notin {NoFd, Listener}
    BY Consts DEF Fds
  <2>4. \A f \in Fds : sock'[f] = NoConn
    BY <2>1, <2>3 DEF Startup, Inv, DescriptorsAccounted, OpenIffListed
  <2>5. QED
    BY <2>2, <2>3, <2>4 DEF OpenIffListed
<1>10. OneFdEach' /\ QueuedOnce' /\ AliveAccounted'
  BY DEF Startup, Inv, DescriptorsAccounted, OneFdEach, QueuedOnce,
         AliveAccounted, Held, Queued, peerVars
<1>11. QED
  BY <1>7, <1>8, <1>9, <1>10 DEF Inv, DescriptorsAccounted

\* poll rewrites revents.
LEMMA PollReturnsInv ==
  ASSUME Inv, PollReturns
  PROVE  Inv'
<1>1. poll(Ready) /\ pc = "poll" /\ pc' = "scan" /\ c' = 0
  BY DEF PollReturns, Polling
<1>2. UNCHANGED <<d, exit, sock, backlog, link, sent, unread, taken, relayed>>
  BY DEF PollReturns, peerVars
<1>3. Ready \in SUBSET Descriptors
  BY Consts DEF Ready
<1>4. PoolTypeOK' /\ PoolInv'
  BY <1>1, <1>3, PollPool DEF Inv, HostTypeOK, HostInv
<1>5. UNCHANGED <<fd, is_connected>>
  BY <1>1 DEF poll
<1>6. Connected' = Connected
  BY <1>5 DEF Connected
<1>7. HostTypeOK'
  BY <1>1, <1>2, <1>4 DEF Inv, HostTypeOK
<1>8. HostInv'
  BY <1>1, <1>4, <1>5, <1>6 DEF Inv, HostInv, OneSlotEach, ListenerFirst,
                                SenderStays
<1>9. DescriptorsAccounted'
  BY <1>2, <1>5 DEF Inv, DescriptorsAccounted, OpenIffListed, OneFdEach,
                    QueuedOnce, AliveAccounted, Held, Queued
<1>10. QED
  BY <1>7, <1>8, <1>9 DEF Inv

\* A connection is accepted: it goes to a free slot or is closed.
LEMMA AcceptInv ==
  ASSUME Inv, Accept
  PROVE  Inv'
<1>0. PICK q \in Conns : q = Head(backlog)
  BY QueueTail DEF Accept
<1>1. PICK f \in FreeFds : connect_client(f, q)
  BY <1>0 DEF Accept
<1>2. f \in Fds /\ sock[f] = NoConn
  BY <1>1 DEF FreeFds
<1>3. \A s \in Slots : fd[s] # f
  BY <1>2 DEF Inv, DescriptorsAccounted, OpenIffListed
<1>4. /\ Queued(q) /\ backlog' \in Seq(Conns) /\ QueuedOnce'
      /\ \A p : Queued(p)' <=> (Queued(p) /\ p # q)
  BY <1>0, QueueTail DEF Accept
<1>5. link[q] \in Alive /\ ~Held(q)
  <2>1. /\ link[q] \in Alive <=> (Held(q) \/ Queued(q))
        /\ ~(Held(q) /\ Queued(q))
    BY <1>0 DEF Inv, DescriptorsAccounted, AliveAccounted
  <2>2. QED
    BY <1>4, <2>1
<1>6. client_add(f) /\ PoolTypeOK' /\ PoolInv'
  BY <1>1, <1>2, AddPool, Consts
     DEF connect_client, Inv, HostTypeOK, HostInv
<1>7. /\ pc = "scan" /\ pc' = "scan" /\ c' = c + 1
      /\ UNCHANGED <<d, exit, sent, unread, taken, relayed>>
  BY DEF Accept, AtListener, Scanning, NextSlot
<1>8. fd[0] = Listener /\ 0 \in Connected
  BY <1>7, Consts
     DEF Inv, HostInv, ListenerFirst, PoolInv, SlotsAgree, Connected
<1>9. CASE AddFails
  <2>1. UNCHANGED poolVars /\ sock' = sock
    BY <1>1, <1>6, <1>9 DEF connect_client, client_add
  <2>2. link' = [link EXCEPT ![q] = "closed"]
    BY <1>1, <1>9 DEF connect_client
  <2>3. HostTypeOK'
    BY <1>4, <1>6, <1>7, <2>1, <2>2 DEF Inv, HostTypeOK, Links
  <2>4. HostInv'
    BY <1>6, <1>7, <1>8, <2>1, SameTable
       DEF HostInv, ListenerFirst, SenderStays, poolVars
  <2>5. AliveAccounted'
    BY <1>4, <1>5, <2>1, <2>2, SameTable
       DEF Inv, HostTypeOK, DescriptorsAccounted, AliveAccounted, Alive
  <2>6. QED
    BY <1>4, <2>1, <2>3, <2>4, <2>5, SameTable DEF Inv, DescriptorsAccounted
<1>10. CASE ~AddFails
  <2>1. PICK s \in Free :
          /\ fd' = [fd EXCEPT ![s] = f]
          /\ is_connected' = [is_connected EXCEPT ![s] = TRUE]
    BY <1>6, <1>10 DEF client_add
  <2>2. sock' = [sock EXCEPT ![f] = q] /\ link' = link
    BY <1>1, <1>4, <1>10 DEF connect_client, Inv, HostTypeOK
  <2>3. s \in Slots /\ s \notin Connected /\ s # 0
    BY <1>8 DEF Free
  <2>4. Connected' = Connected \cup {s}
    BY <2>1, <2>3 DEF Connected, Inv, HostTypeOK, PoolTypeOK
  <2>5. \A t \in Slots : fd'[t] = IF t = s THEN f ELSE fd[t]
    BY <2>1, <2>3 DEF Inv, HostTypeOK, PoolTypeOK
  <2>6. \A g \in Fds : sock'[g] = IF g = f THEN q ELSE sock[g]
    BY <1>2, <2>2 DEF Inv, HostTypeOK
  <2>7. HostTypeOK'
    BY <1>2, <1>4, <1>6, <1>7, <2>2 DEF Inv, HostTypeOK
  <2>8. OneSlotEach'
    BY <1>3, <2>3, <2>4, <2>5 DEF Inv, HostInv, OneSlotEach, Connected
  <2>9. ListenerFirst' /\ SenderStays'
    BY <1>7, <1>8, <2>3, <2>5, Consts DEF ListenerFirst, SenderStays
  <2>10. OpenIffListed'
    <3>1. ASSUME NEW g \in Fds
          PROVE  sock'[g] # NoConn <=> \E t \in Slots : fd'[t] = g
      <4>1. sock[g] # NoConn <=> \E t \in Slots : fd[t] = g
        BY DEF Inv, DescriptorsAccounted, OpenIffListed
      <4>2. fd[s] # g
        BY <2>3, Consts DEF Connected, Fds, Inv, HostInv, PoolInv, SlotsAgree
      <4>3. CASE g = f
        BY <2>3, <2>5, <2>6, <4>3, Consts
      <4>4. CASE g # f
        BY <2>5, <2>6, <4>1, <4>2, <4>4
      <4>5. QED
        BY <4>3, <4>4
    <3>2. QED
      BY <3>1 DEF OpenIffListed
  <2>11. OneFdEach'
    BY <1>5, <2>6 DEF Inv, DescriptorsAccounted, OneFdEach, Held
  <2>12. Held(q)'
    BY <1>2, <2>6 DEF Held
  <2>13. \A p : p # q /\ p # NoConn => (Held(p)' <=> Held(p))
    BY <1>2, <2>6 DEF Held
  <2>14. AliveAccounted'
    BY <1>4, <1>5, <2>2, <2>12, <2>13, Consts
       DEF Inv, DescriptorsAccounted, AliveAccounted
  <2>15. QED
    BY <1>4, <1>6, <2>7, <2>8, <2>9, <2>10, <2>11, <2>14
       DEF Inv, HostInv, DescriptorsAccounted
<1>11. QED
  BY <1>9, <1>10

\* accept fails: the connection it dropped leaves the backlog.
LEMMA AcceptFailsInv ==
  ASSUME Inv, AcceptFails
  PROVE  Inv'
<1>1. PICK q \in Conns : q = Head(backlog)
  BY QueueTail DEF AcceptFails
<1>2. /\ Queued(q) /\ backlog' \in Seq(Conns) /\ QueuedOnce'
      /\ \A p : Queued(p)' <=> (Queued(p) /\ p # q)
  BY <1>1, QueueTail DEF AcceptFails
<1>3. /\ UNCHANGED <<poolVars, sock, sent, unread, taken, relayed, d, exit>>
      /\ link' = [link EXCEPT ![q] = "aborted"]
      /\ pc = "scan" /\ pc' = "scan" /\ c' = c + 1
  BY <1>1 DEF AcceptFails, AtListener, Scanning, NextSlot
<1>4. HostTypeOK'
  BY <1>1, <1>2, <1>3, SameTable DEF Inv, HostTypeOK, Links
<1>5. HostInv'
  BY <1>3, SameTable DEF Inv, HostInv, ListenerFirst, SenderStays, poolVars
<1>6. AliveAccounted'
  <2>1. ASSUME NEW p \in Conns, p # q
        PROVE  /\ link'[p] \in Alive <=> (Held(p) \/ Queued(p))'
               /\ ~(Held(p) /\ Queued(p))'
    BY <1>2, <1>3, <2>1, SameTable
       DEF Inv, HostTypeOK, DescriptorsAccounted, AliveAccounted
  <2>2. link'[q] \notin Alive /\ ~Held(q)' /\ ~Queued(q)'
    BY <1>1, <1>2, <1>3, SameTable
       DEF Inv, HostTypeOK, DescriptorsAccounted, AliveAccounted, Alive
  <2>3. QED
    BY <2>1, <2>2 DEF AliveAccounted
<1>7. QED
  BY <1>2, <1>3, <1>4, <1>5, <1>6, SameTable DEF Inv, DescriptorsAccounted

\* disconnect_client finds the client in the slot main is at, and empties it.
LEMMA SlotEmptied ==
  ASSUME Inv, AtClient, disconnect_client(c)
  PROVE  /\ c \in Connected /\ c \in Slots
         /\ fd' = [fd EXCEPT ![c] = NoFd]
         /\ is_connected' = [is_connected EXCEPT ![c] = FALSE]
         /\ revents' = [revents EXCEPT ![c] = 0]
         /\ n_clients' = n_clients - 1 /\ n_clients \in Nat
<1>1. c \in Connected /\ c \in Slots /\ fd[c] # Listener
  BY ScanSlot DEF AtClient, Connected
<1>2. PICK f \in Descriptors : f = fd[c] /\ f # NoFd
  BY <1>1, OpenSlot, Consts
<1>3. n_clients \in Nat /\ n_clients > 0 /\ n_clients < 256
  BY PoolAssumption DEF AtClient, Scanning, Inv, HostTypeOK, PoolTypeOK
<1>4. ~RemoveFails(f)
  BY <1>1, <1>2, <1>3 DEF RemoveFails, SlotsOf
<1>5. PICK s \in SlotsOf(f) :
        /\ fd' = [fd EXCEPT ![s] = NoFd]
        /\ is_connected' = [is_connected EXCEPT ![s] = FALSE]
        /\ revents' = [revents EXCEPT ![s] = 0]
  BY <1>2, <1>4 DEF disconnect_client, client_remove
<1>6. n_clients' = U8(n_clients - 1)
  BY <1>2, <1>4 DEF disconnect_client, client_remove
<1>7. n_clients' = n_clients - 1 /\ n_clients \in Nat
  BY <1>3, <1>6 DEF U8
<1>8. s = c
  <2>1. s \in Slots /\ fd[s] = f
    BY <1>5 DEF SlotsOf
  <2>2. s \in Connected
    BY <1>2, <2>1 DEF Connected, Inv, HostInv, PoolInv, SlotsAgree
  <2>3. QED
    BY <1>1, <1>2, <2>1, <2>2 DEF Inv, HostInv, OneSlotEach
<1>9. QED
  BY <1>1, <1>5, <1>7, <1>8

\* A client is disconnected: its socket is closed and its slot emptied.
LEMMA DisconnectInv ==
  ASSUME Inv, AtClient, disconnect_client(c), NextSlot,
         UNCHANGED <<backlog, sent, unread, taken, relayed>>
  PROVE  Inv'
<1>1. c \in Connected /\ fd[c] # Listener /\ pc = "scan"
  BY ScanSlot DEF AtClient, Scanning
<1>2. PICK f \in Fds : f = fd[c]
  BY <1>1, OpenSlot
<1>3. PICK q \in Conns : q = sock[f] /\ q = conn(c)
  BY <1>1, <1>2, OpenSlot
<1>4. c \in Slots /\ f \in Descriptors /\ f # NoFd
  BY <1>1, <1>2, Consts, OpenSlot
<1>5. client_remove(f) /\ PoolTypeOK' /\ PoolInv'
  BY <1>2, <1>4, RemovePool DEF disconnect_client, Inv, HostTypeOK, HostInv
<1>6. /\ fd' = [fd EXCEPT ![c] = NoFd]
      /\ is_connected' = [is_connected EXCEPT ![c] = FALSE]
  BY SlotEmptied
<1>7. Connected' = Connected \ {c}
  BY <1>4, <1>6 DEF Connected, Inv, HostTypeOK, PoolTypeOK
<1>8. \A t \in Slots : fd'[t] = IF t = c THEN NoFd ELSE fd[t]
  BY <1>4, <1>6 DEF Inv, HostTypeOK, PoolTypeOK
<1>9. /\ sock' = [g \in Fds |-> IF g = f THEN NoConn ELSE sock[g]]
      /\ link' = [p \in Conns |-> IF p = q THEN "closed" ELSE link[p]]
  BY <1>2, <1>3 DEF disconnect_client, CloseSocket
<1>10. pc' = "scan" /\ c' = c + 1 /\ UNCHANGED <<d, exit>>
  BY DEF NextSlot
<1>11. HostTypeOK'
  BY <1>5, <1>9, <1>10 DEF Inv, HostTypeOK, Links
<1>12. OneSlotEach'
  BY <1>7, <1>8 DEF Inv, HostInv, OneSlotEach, Connected
<1>13. ListenerFirst' /\ SenderStays'
  BY <1>1, <1>8, <1>10, Consts
     DEF Inv, HostInv, ListenerFirst, SenderStays
<1>14. OpenIffListed'
  <2>1. ASSUME NEW g \in Fds
        PROVE  sock'[g] # NoConn <=> \E t \in Slots : fd'[t] = g
    <3>1. g # NoFd
      BY Consts DEF Fds
    <3>2. CASE g = f
      <4>1. \A t \in Slots : fd'[t] # f
        <5> SUFFICES ASSUME NEW t \in Slots, t # c, fd[t] = f PROVE FALSE
          BY <1>4, <1>8
        <5>1. t \in Connected
          BY <1>4 DEF Connected, Inv, HostInv, PoolInv, SlotsAgree
        <5>2. QED
          BY <1>1, <1>2, <5>1 DEF Inv, HostInv, OneSlotEach
      <4>2. QED
        BY <1>9, <3>2, <4>1
    <3>3. CASE g # f
      BY <1>2, <1>4, <1>8, <1>9, <3>1, <3>3
         DEF Inv, DescriptorsAccounted, OpenIffListed
    <3>4. QED
      BY <3>2, <3>3
  <2>2. QED
    BY <2>1 DEF OpenIffListed
<1>15. OneFdEach'
  BY <1>9 DEF Inv, DescriptorsAccounted, OneFdEach
<1>16. Held(q) /\ ~Held(q)' /\ \A p \in Conns \ {q} : Held(p)' <=> Held(p)
  <2>1. \A g \in Fds : sock[g] = q => g = f
    BY <1>2, <1>3, Consts DEF Inv, DescriptorsAccounted, OneFdEach
  <2>2. Held(q)
    BY <1>2, <1>3 DEF Held
  <2>3. ~Held(q)'
    BY <1>3, <1>9, <2>1, Consts DEF Held
  <2>4. ASSUME NEW p \in Conns \ {q}
        PROVE  Held(p)' <=> Held(p)
    BY <1>3, <1>9, <2>1, Consts DEF Held
  <2>5. QED
    BY <2>2, <2>3, <2>4
<1>17. QueuedOnce' /\ \A p : Queued(p)' <=> Queued(p)
  BY DEF Inv, DescriptorsAccounted, QueuedOnce, Queued
<1>18. AliveAccounted'
  <2>1. link'[q] \notin Alive /\ ~Held(q)' /\ ~Queued(q)'
    BY <1>3, <1>9, <1>16, <1>17
       DEF Inv, DescriptorsAccounted, AliveAccounted, Alive
  <2>2. ASSUME NEW p \in Conns \ {q}
        PROVE  /\ link'[p] \in Alive <=> (Held(p) \/ Queued(p))'
               /\ ~(Held(p) /\ Queued(p))'
    BY <1>9, <1>16, <1>17 DEF Inv, DescriptorsAccounted, AliveAccounted
  <2>3. QED
    BY <2>1, <2>2 DEF AliveAccounted
<1>19. QED
  BY <1>5, <1>11, <1>12, <1>13, <1>14, <1>15, <1>17, <1>18
     DEF Inv, HostInv, DescriptorsAccounted

\* A piece is received and its broadcast begins.
LEMMA RecvInv ==
  ASSUME Inv, Recv
  PROVE  Inv'
<1>1. UNCHANGED <<poolVars, c, exit, sock, backlog, peerVars, relayed>>
  BY DEF Recv
<1>2. conn(c) \in Conns /\ conn(c) # NoConn
  BY ConnType DEF Recv
<1>3. /\ pc = "scan" /\ c < n_clients /\ pc' = "bcast" /\ d' = 0
      /\ taken' = [taken EXCEPT ![conn(c)] = @ + 1]
  BY DEF Recv, AtClient, Scanning
<1>4. taken' \in [Conns -> Nat] /\ taken'[conn(c)] > 0
  BY <1>2, <1>3 DEF Inv, HostTypeOK
<1>5. HostTypeOK'
  BY <1>1, <1>3, <1>4, SameTable DEF Inv, HostTypeOK, peerVars
<1>6. ListenerFirst'
  BY <1>1, <1>3 DEF Inv, HostInv, ListenerFirst, poolVars
<1>7. SenderStays'
  <2>1. conn(c)' = conn(c) /\ c' = c /\ n_clients' = n_clients
    BY <1>1 DEF conn, poolVars
  <2>2. QED
    BY <1>2, <1>3, <1>4, <2>1 DEF SenderStays
<1>8. QueuedOnce' /\ AliveAccounted'
  BY <1>1, SameTable DEF Inv, DescriptorsAccounted, QueuedOnce, AliveAccounted,
                         Queued, peerVars
<1>9. QED
  BY <1>1, <1>5, <1>6, <1>7, <1>8, SameTable
     DEF Inv, HostInv, DescriptorsAccounted

\* A piece is sent on one connection.
LEMMA SendInv ==
  ASSUME Inv, Send
  PROVE  Inv'
<1>1. /\ UNCHANGED <<poolVars, pc, c, exit, sock, backlog, link, sent, taken>>
      /\ d' = d + 1 /\ pc = "bcast"
  BY DEF Send, SendThen, Casting
<1>2. PICK q \in Conns : q = conn(d)
  BY ConnType DEF Send, SendThen
<1>3. PICK x \in Conns \X Nat : x = piece
  BY <1>1, ConnType DEF piece, Inv, HostInv, SenderStays, HostTypeOK
<1>4. /\ relayed' = [relayed EXCEPT ![q] = Append(relayed[q], x)]
      /\ unread' = [unread EXCEPT ![q] = unread[q] + 1]
      /\ unread[q] < SndBuf
  BY <1>2, <1>3 DEF Send, SendThen, Writable
<1>5. relayed' \in [Conns -> Seq(Conns \X Nat)]
  <2>1. relayed \in [Conns -> Seq(Conns \X Nat)]
    BY DEF Inv, HostTypeOK
  <2>2. relayed[q] \in Seq(Conns \X Nat)
    BY <1>2, <2>1
  <2>3. Append(relayed[q], x) \in Seq(Conns \X Nat)
    BY <1>3, <2>2
  <2>4. QED
    BY <1>4, <2>1, <2>3
<1>6. unread' \in [Conns -> 0..SndBuf]
  <2>1. unread[q] \in 0..SndBuf
    BY <1>2 DEF Inv, HostTypeOK
  <2>2. unread[q] + 1 \in 0..SndBuf
    BY <1>4, <2>1, Consts
  <2>3. QED
    BY <1>4, <2>2 DEF Inv, HostTypeOK
<1>7. HostTypeOK'
  <2>1. PoolTypeOK'
    BY <1>1, SameTable
  <2>2. d' \in Nat
    BY <1>1 DEF Inv, HostTypeOK
  <2>3. QED
    BY <1>1, <1>5, <1>6, <2>1, <2>2, Zenon DEF Inv, HostTypeOK
<1>8. ListenerFirst' /\ SenderStays'
  BY <1>1, SameTable DEF Inv, HostInv, ListenerFirst, SenderStays, poolVars
<1>9. QueuedOnce' /\ AliveAccounted'
  BY <1>1, SameTable DEF Inv, DescriptorsAccounted, QueuedOnce, AliveAccounted,
                         Queued
<1>10. QED
  BY <1>1, <1>7, <1>8, <1>9, SameTable DEF Inv, HostInv, DescriptorsAccounted

-----------------------------------------------------------------------------
(* The steps of the peers                                                  *)

\* A new connection joins the backlog.
LEMMA PeerConnectInv ==
  ASSUME Inv, NEW q \in Conns, PeerConnect(q)
  PROVE  Inv'
<1>1. /\ UNCHANGED <<hostVars, sock, sent, unread, taken, relayed>>
      /\ link[q] = "idle" /\ link' = [link EXCEPT ![q] = "open"]
      /\ backlog' = Append(backlog, q)
  BY DEF PeerConnect
<1>2. UNCHANGED poolVars /\ UNCHANGED progVars
  BY <1>1 DEF hostVars
<1>3. ~Held(q) /\ ~Queued(q)
  BY <1>1 DEF Inv, DescriptorsAccounted, AliveAccounted, Alive
<1>4. /\ backlog' \in Seq(Conns) /\ QueuedOnce'
      /\ \A p : Queued(p)' <=> (Queued(p) \/ p = q)
  BY <1>1, <1>3, QueueAppend
<1>5. HostTypeOK'
  BY <1>1, <1>2, <1>4, SameTable DEF Inv, HostTypeOK, Links, Alive, progVars
<1>6. ListenerFirst' /\ SenderStays'
  BY <1>1, <1>2, SameTable
     DEF Inv, HostInv, ListenerFirst, SenderStays, poolVars, progVars
<1>7. AliveAccounted'
  <2>1. ASSUME NEW p \in Conns
        PROVE  /\ link'[p] \in Alive <=> (Held(p) \/ Queued(p))'
               /\ ~(Held(p) /\ Queued(p))'
    <3>1. Held(p)' = Held(p)
      BY <1>1, <1>2, SameTable
    <3>2. CASE p = q
      BY <1>1, <1>3, <1>4, <3>1, <3>2 DEF Alive, Inv, HostTypeOK
    <3>3. CASE p # q
      BY <1>1, <1>4, <3>1, <3>3
         DEF Inv, HostTypeOK, DescriptorsAccounted, AliveAccounted
    <3>4. QED
      BY <3>2, <3>3
  <2>2. QED
    BY <2>1 DEF AliveAccounted
<1>8. QED
  BY <1>1, <1>2, <1>4, <1>5, <1>6, <1>7, SameTable
     DEF Inv, HostInv, DescriptorsAccounted

\* What else a peer does leaves its connection alive and the host alone.
LEMMA PeerOtherInv ==
  ASSUME Inv, NEW q \in Conns,
         UNCHANGED <<hostVars, sock, backlog, taken, relayed>>,
         sent' \in [Conns -> Nat], unread' \in [Conns -> 0..SndBuf],
         link[q] \in Alive, NEW l \in Alive,
         link' = [link EXCEPT ![q] = l]
  PROVE  Inv'
<1>1. UNCHANGED poolVars /\ UNCHANGED progVars
  BY DEF hostVars
<1>2. HostTypeOK'
  BY <1>1, SameTable DEF Inv, HostTypeOK, Links, progVars
<1>3. ListenerFirst' /\ SenderStays'
  BY <1>1, SameTable
     DEF Inv, HostInv, ListenerFirst, SenderStays, poolVars, progVars
<1>4. \A p \in Conns : link'[p] \in Alive <=> link[p] \in Alive
  BY DEF Inv, HostTypeOK
<1>5. QueuedOnce' /\ AliveAccounted'
  BY <1>1, <1>4, SameTable DEF Inv, DescriptorsAccounted, QueuedOnce,
                               AliveAccounted, Queued
<1>6. QED
  BY <1>1, <1>2, <1>3, <1>5, SameTable DEF Inv, HostInv, DescriptorsAccounted

LEMMA PeerInv ==
  ASSUME Inv, PeerStep
  PROVE  Inv'
<1> PICK q \in Conns : \/ PeerConnect(q) \/ PeerSend(q) \/ PeerRead(q)
                       \/ PeerCloses(q) \/ PeerAborts(q) \/ PeerRejects(q)
  BY DEF PeerStep
<1>1. CASE PeerConnect(q)
  BY <1>1, PeerConnectInv
<1>2. /\ sent \in [Conns -> Nat] /\ unread \in [Conns -> 0..SndBuf]
      /\ link \in [Conns -> Links] /\ SndBuf \in Nat
      /\ {"open", "eof", "reset"} = Alive
  BY Consts DEF Inv, HostTypeOK, Alive
<1>3. CASE PeerSend(q)
  <2>1. sent' \in [Conns -> Nat] /\ link' = [link EXCEPT ![q] = "open"]
    BY <1>2, <1>3 DEF PeerSend
  <2>2. QED
    BY <1>2, <1>3, <2>1, PeerOtherInv DEF PeerSend
<1>4. CASE PeerRead(q)
  <2>1. unread' \in [Conns -> 0..SndBuf] /\ link' = [link EXCEPT ![q] = "open"]
    BY <1>2, <1>4 DEF PeerRead
  <2>2. QED
    BY <1>2, <1>4, <2>1, PeerOtherInv DEF PeerRead
<1>5. CASE PeerCloses(q)
  BY <1>2, <1>5, PeerOtherInv DEF PeerCloses
<1>6. CASE PeerAborts(q)
  BY <1>2, <1>6, PeerOtherInv DEF PeerAborts
<1>7. CASE PeerRejects(q)
  BY <1>2, <1>7, PeerOtherInv DEF PeerRejects
<1>8. QED
  BY <1>1, <1>3, <1>4, <1>5, <1>6, <1>7

-----------------------------------------------------------------------------
(* The theorems                                                            *)

LEMMA StepInv == Inv /\ [Next]_vars => Inv'
<1> SUFFICES ASSUME Inv, [Next]_vars PROVE Inv'
  OBVIOUS
<1> USE DEF Inv, HostTypeOK
<1>1. CASE Startup
  BY <1>1, StartupInv
<1>2. CASE PollReturns
  BY <1>2, PollReturnsInv
<1>3. CASE Accept
  BY <1>3, AcceptInv
<1>4. CASE AcceptFails
  BY <1>4, AcceptFailsInv
<1>5. CASE Recv
  BY <1>5, RecvInv
<1>6. CASE RecvHangup \/ RecvError
  BY <1>6, DisconnectInv DEF RecvHangup, RecvError, RecvFails
<1>7. CASE Send
  BY <1>7, SendInv
<1>0. c \in Nat /\ d \in Nat /\ c + 1 \in Nat /\ d + 1 \in Nat /\ exit \in Exits
  OBVIOUS
<1>8. CASE ScanEnds \/ SkipQuiet \/ CastEnds
  <2>1. WorldUnchanged /\ UNCHANGED <<d, exit>>
    BY <1>8 DEF ScanEnds, LeaveScanAt, SkipQuiet, NextSlot, CastEnds, BackToScan
  <2>2. pc \notin {"start", "exit"} /\ pc' \in {"poll", "scan"} /\ c' \in {c, c + 1}
    BY <1>8 DEF ScanEnds, LeaveScanAt, SkipQuiet, Scanning, NextSlot, CastEnds, BackToScan
  <2>3. QED
    BY <1>0, <2>1, <2>2, LocalStep
<1>9. CASE SkipExcluded \/ SendError
  <2>1. WorldUnchanged /\ UNCHANGED <<pc, c, exit>> /\ pc = "bcast" /\ d' = d + 1
    BY <1>9 DEF SkipExcluded, SendError, SendFails, Casting, NextDest
  <2>2. QED
    BY <1>0, <2>1, LocalStep
<1>10. CASE HostDies
  BY <1>10, LocalStep DEF HostDies, StartupFails, PollTimesOut, PollFails,
                          SendKilled, CrashInLog, Die, Exits
<1>11. CASE PeerStep
  BY <1>11, PeerInv
<1>12. CASE UNCHANGED vars
  <2>1. UNCHANGED <<poolVars, sock>> /\ UNCHANGED <<pc, c, d, exit>>
    BY <1>12 DEF vars, progVars
  <2>2. UNCHANGED <<backlog, link, sent, unread, taken, relayed>>
    BY <1>12 DEF vars, peerVars
  <2>3. QED
    BY <2>1, <2>2, SameTable
       DEF HostInv, ListenerFirst, SenderStays, poolVars, DescriptorsAccounted,
           QueuedOnce, AliveAccounted, Queued
<1>13. QED
  BY <1>1, <1>2, <1>3, <1>4, <1>5, <1>6, <1>7, <1>8, <1>9, <1>10, <1>11, <1>12
     DEF Next, HostNext, HostStep

\* The host's state is well typed, its table sound and its descriptors
\* accounted for, whatever clients connect, send, hang up or reset.
THEOREM HostCorrect == Spec => [](HostTypeOK /\ HostInv /\ DescriptorsAccounted)
<1>1. Init => Inv
  BY InitInv
<1>2. Inv /\ [Next]_vars => Inv'
  BY StepInv
<1>3. QED
  BY <1>1, <1>2, PTL DEF Spec, Inv

\* recv is called on open descriptors only, whatever malloc left in revents.
THEOREM RecvIsSafe == Spec => []RecvOnlyOpen
<1>1. Inv => RecvOnlyOpen
  <2> SUFFICES ASSUME Inv, AtClient PROVE conn(c) # NoConn
    BY DEF RecvOnlyOpen
  <2>1. c \in Connected /\ fd[c] # Listener
    BY ScanSlot DEF AtClient
  <2>2. QED
    BY <2>1, OpenSlot
<1>2. QED
  BY <1>1, HostCorrect, PTL DEF Inv

\* With at most three slots a broadcast meets no hole: the listener and the
\* sender are two of the clients counted, and the hole would be the third slot.
THEOREM BroadcastIsDense == Spec => []NoHoleInBroadcast
<1>1. Inv => NoHoleInBroadcast
  <2> SUFFICES ASSUME Inv, MAX_CLIENTS <= 3, Casting, fd[d] = NoFd PROVE FALSE
    BY DEF NoHoleInBroadcast
  <2>1. pc = "bcast" /\ d < n_clients /\ d \in Nat /\ c \in Nat
    BY DEF Casting, Inv, HostTypeOK
  <2>2. c < n_clients /\ conn(c) # NoConn /\ fd[0] = Listener
    BY <2>1 DEF Inv, HostInv, SenderStays, ListenerFirst
  <2>3. n_clients = Cardinality(Connected) /\ n_clients \in Nat
        /\ n_clients <= MAX_CLIENTS
    BY SlotSets DEF Inv, HostInv, PoolInv, CountMatches
  <2>4. c \in Slots /\ d \in Slots /\ 0 \in Slots
    BY <2>1, <2>2, <2>3, Consts, PoolAssumption DEF Slots
  <2>5. fd[c] \in Fds /\ c # 0 /\ d # 0 /\ d # c
    BY <2>2, Consts DEF conn, Fds
  <2>6. d \notin Connected
    BY <2>4 DEF Connected, Inv, HostInv, PoolInv, SlotsAgree
  <2>7. Slots \subseteq {0, c, d}
    BY <2>4, <2>5, PoolAssumption DEF Slots
  <2>8. Connected \in SUBSET {0, c}
    BY <2>6, <2>7 DEF Connected
  <2>9. IsFiniteSet({0}) /\ Cardinality({0}) = 1
    BY FS_Singleton
  <2>10. IsFiniteSet({0} \cup {c}) /\ Cardinality({0} \cup {c}) = 2
    BY <2>5, <2>9, FS_AddElement
  <2>11. {0, c} = {0} \cup {c}
    OBVIOUS
  <2>12. Cardinality(Connected) <= 2
    <3>1. IsFiniteSet({0, c}) /\ Cardinality({0, c}) = 2
      BY <2>10, <2>11, Zenon
    <3>2. Cardinality(Connected) <= Cardinality({0, c})
      BY <2>8, <3>1, FS_Subset, Zenon
    <3>3. QED
      BY <3>1, <3>2
  <2>13. QED
    BY <2>1, <2>2, <2>3, <2>5, <2>12
<1>2. QED
  BY <1>1, HostCorrect, PTL DEF Inv

\* One step of the host or its peers takes no client's slot from it, unless
\* it closes that client's socket.
LEMMA SlotsStayStep ==
  ASSUME Inv, [Next]_vars, NEW s \in Slots, NEW q \in Conns, conn(s) = q,
         conn(s)' # q
  PROVE  link'[q] = "closed"
<1>1. fd[s] \in Fds /\ sock[fd[s]] = q /\ q # NoConn
  BY Consts DEF conn
<1>2. s \in Connected
  BY <1>1, Consts DEF Connected, Fds, Inv, HostInv, PoolInv, SlotsAgree
<1>3. fd' # fd \/ sock' # sock
  BY DEF conn
<1>4. CASE Startup
  BY <1>2, <1>4 DEF Startup, Inv, HostInv, ListenerFirst
<1>5. CASE Accept
  <2>1. PICK p \in Conns, f \in FreeFds : connect_client(f, p)
    BY <1>5, QueueTail DEF Accept
  <2>2. f # fd[s] /\ f \in Fds
    BY <1>1, <2>1 DEF FreeFds
  <2>3. ~AddFails
    BY <1>3, <2>1 DEF connect_client, client_add, poolVars
  <2>4. PICK t \in Free : fd' = [fd EXCEPT ![t] = f]
    BY <2>1, <2>3 DEF connect_client, client_add
  <2>5. t # s
    BY <1>2 DEF Free
  <2>6. fd'[s] = fd[s]
    BY <2>4, <2>5 DEF Inv, HostTypeOK, PoolTypeOK
  <2>7. sock'[fd[s]] = sock[fd[s]]
    BY <1>1, <2>1, <2>2, <2>3 DEF connect_client, Inv, HostTypeOK
  <2>8. QED
    BY <1>1, <2>6, <2>7 DEF conn
<1>6. CASE RecvHangup \/ RecvError
  <2>1. AtClient /\ disconnect_client(c)
    BY <1>6 DEF RecvHangup, RecvError, RecvFails
  <2>2. fd' = [fd EXCEPT ![c] = NoFd] /\ c \in Connected
    BY <2>1, SlotEmptied
  <2>3. CASE s = c
    BY <2>1, <2>3 DEF disconnect_client, CloseSocket
  <2>4. CASE s # c
    <3>1. fd'[s] = fd[s]
      BY <2>2, <2>4 DEF Inv, HostTypeOK, PoolTypeOK
    <3>2. fd[s] # fd[c]
      BY <1>2, <2>2, <2>4 DEF Inv, HostInv, OneSlotEach
    <3>3. sock'[fd[s]] = sock[fd[s]]
      BY <1>1, <2>1, <3>2 DEF disconnect_client, CloseSocket
    <3>4. QED
      BY <1>1, <3>1, <3>3 DEF conn
  <2>5. QED
    BY <2>3, <2>4
<1>7. CASE PollReturns \/ AcceptFails \/ Recv \/ Send
  BY <1>3, <1>7 DEF PollReturns, poll, AcceptFails, Recv, Send,
                    SendThen, poolVars
<1>8. CASE ScanEnds \/ SkipQuiet \/ CastEnds \/ SkipExcluded \/ SendError \/ HostDies
  BY <1>3, <1>8 DEF ScanEnds, LeaveScanAt, SkipQuiet, CastEnds, BackToScan,
                    SkipExcluded, SendError, HostDies, StartupFails,
                    PollTimesOut, PollFails, SendKilled, CrashInLog,
                    WorldUnchanged, poolVars
<1>9. CASE PeerStep
  BY <1>3, <1>9 DEF PeerStep, PeerConnect, PeerSend, PeerRead, PeerCloses,
                    PeerAborts, PeerRejects, hostVars, poolVars
<1>10. CASE UNCHANGED vars
  BY <1>3, <1>10 DEF vars, poolVars
<1>11. QED
  BY <1>4, <1>5, <1>6, <1>7, <1>8, <1>9, <1>10 DEF Next, HostNext, HostStep

\* The slot of a client is its own until the host closes its socket, whatever
\* other clients come and go in the meantime.
THEOREM ClientKeepsItsSlot == Spec => SlotsStay
<1>1. Inv /\ [Next]_vars =>
        [\A s \in Slots, q \in Conns :
           conn(s) = q /\ conn(s)' # q => link'[q] = "closed"]_vars
  BY SlotsStayStep
<1>2. Spec => []Inv
  BY HostCorrect, PTL DEF Inv
<1>3. QED
  BY <1>1, <1>2, PTL DEF Spec, SlotsStay

-----------------------------------------------------------------------------
(* A pass over the table ends. Effort bounds the steps main has left in it: *)
(* each slot costs at most one broadcast, and a broadcast at most one step  *)
(* per slot.                                                                *)

PerSlot == MAX_CLIENTS + 2

Effort ==
  CASE pc = "scan"  -> (MAX_CLIENTS - c) * PerSlot + 1
    [] pc = "bcast" -> (MAX_CLIENTS - c) * PerSlot - d
    [] OTHER        -> 0

LoopBounds ==
  /\ pc = "scan"  => c <= MAX_CLIENTS
  /\ pc = "bcast" => d <= n_clients

\* From poll's return the host gets back to poll, or ends, within
\* MAX_CLIENTS * (MAX_CLIENTS + 2) + 1 steps of its own, and nothing a client
\* does meanwhile adds to them.
PassEnds ==
  [][/\ HostNext /\ pc \in {"scan", "bcast"} => Effort' < Effort
     /\ PeerStep => Effort' = Effort]_vars

\* The slots left to scan, in steps.
LEMMA SlotsLeft ==
  ASSUME NEW m \in Nat, NEW i \in Nat, i <= m, NEW k \in Nat
  PROVE  /\ (m - i) * k \in Nat
         /\ i < m => (m - i) * k = ((m - (i + 1)) * k) + k
         /\ i < m => (m - (i + 1)) * k \in Nat
<1>1. PICK r \in Nat : r = m - i
  OBVIOUS
<1>2. r * k \in Nat
  BY <1>1
<1>3. ASSUME i < m
      PROVE  /\ r * k = ((r - 1) * k) + k
             /\ m - (i + 1) = r - 1
             /\ (r - 1) * k \in Nat
  <2>1. r - 1 \in Nat /\ m - (i + 1) = r - 1
    BY <1>1, <1>3
  <2>2. \A n \in Nat : (n + 1) * k = (n * k) + k
    OBVIOUS
  <2>3. \A n \in Nat : n * k \in Nat
    OBVIOUS
  <2>4. (r - 1) + 1 = r
    OBVIOUS
  <2>5. QED
    BY <2>1, <2>2, <2>3, <2>4
<1>4. QED
  BY <1>1, <1>2, <1>3

\* Where the loops are, in numbers.
LEMMA LoopFacts ==
  ASSUME Inv, LoopBounds
  PROVE  /\ MAX_CLIENTS \in Nat /\ PerSlot \in Nat /\ PerSlot = MAX_CLIENTS + 2
         /\ n_clients \in Nat /\ n_clients <= MAX_CLIENTS
         /\ c \in Nat /\ d \in Nat
         /\ pc = "scan" => c <= MAX_CLIENTS
         /\ pc = "bcast" => c < n_clients /\ c < MAX_CLIENTS /\ d <= n_clients
<1>1. n_clients \in Nat /\ n_clients <= MAX_CLIENTS
  BY SlotSets DEF Inv, HostInv, PoolInv, CountMatches
<1>2. MAX_CLIENTS \in Nat /\ c \in Nat /\ d \in Nat
  BY PoolAssumption DEF Inv, HostTypeOK
<1>3. pc = "bcast" => c < n_clients
  BY DEF Inv, HostInv, SenderStays
<1>4. QED
  BY <1>1, <1>2, <1>3 DEF LoopBounds, PerSlot

\* Effort is a number, and positive inside a pass.
LEMMA EffortNat ==
  ASSUME Inv, LoopBounds
  PROVE  /\ Effort \in Nat
         /\ pc \in {"scan", "bcast"} => Effort > 0
<1>1. CASE pc = "scan"
  <2>1. (MAX_CLIENTS - c) * PerSlot \in Nat
    BY <1>1, LoopFacts, SlotsLeft
  <2>2. Effort = (MAX_CLIENTS - c) * PerSlot + 1
    BY <1>1 DEF Effort
  <2>3. QED
    BY <2>1, <2>2
<1>2. CASE pc = "bcast"
  <2> DEFINE rest == (MAX_CLIENTS - (c + 1)) * PerSlot
  <2>1. c <= MAX_CLIENTS /\ c < MAX_CLIENTS
    BY <1>2, LoopFacts
  <2>2. (MAX_CLIENTS - c) * PerSlot = rest + PerSlot /\ rest \in Nat
    BY <2>1, LoopFacts, SlotsLeft
  <2>3. Effort = (MAX_CLIENTS - c) * PerSlot - d
    BY <1>2 DEF Effort
  <2> HIDE DEF rest
  <2>4. QED
    BY <1>2, <2>2, <2>3, LoopFacts
<1>3. CASE pc \notin {"scan", "bcast"}
  BY <1>3 DEF Effort
<1>4. QED
  BY <1>1, <1>2, <1>3

\* The loops stay inside the table, whose size changes only in connect_client
\* and disconnect_client.
LEMMA StepLoop ==
  ASSUME Inv, Inv', LoopBounds, [Next]_vars
  PROVE  LoopBounds'
<1>1. CASE pc' = "scan"
  <2>1. CASE pc = "scan" /\ c' = c + 1 /\ c < n_clients
    BY <1>1, <2>1, LoopFacts DEF LoopBounds
  <2>2. CASE pc = "bcast" /\ c' = c + 1
    BY <1>1, <2>2, LoopFacts DEF LoopBounds
  <2>3. CASE c' = 0
    BY <1>1, <2>3, LoopFacts DEF LoopBounds
  <2>4. CASE pc = "scan" /\ c' = c
    BY <1>1, <2>4, LoopFacts DEF LoopBounds
  <2>5. \/ pc = "scan" /\ c' = c + 1 /\ c < n_clients
        \/ pc = "bcast" /\ c' = c + 1
        \/ c' = 0
        \/ pc = "scan" /\ c' = c
    BY <1>1 DEF Next, HostNext, HostStep, HostDies, PeerStep, Startup,
       PollReturns, ScanEnds, LeaveScanAt, SkipQuiet, Accept,
       AcceptFails, AtListener, AtClient, Scanning, NextSlot, Recv, RecvHangup,
       RecvError, RecvFails, SkipExcluded, Send, SendThen, SendError, SendFails,
       Casting, NextDest, CastEnds, BackToScan, StartupFails, PollTimesOut,
       PollFails, SendKilled, CrashInLog, Die, PeerConnect, PeerSend, PeerRead,
       PeerCloses, PeerAborts, PeerRejects, hostVars, progVars, vars
  <2>6. QED
    BY <2>1, <2>2, <2>3, <2>4, <2>5
<1>2. CASE pc' = "bcast"
  <2>1. CASE d' = 0
    <3>1. n_clients' \in Nat
      BY DEF Inv, HostTypeOK, PoolTypeOK
    <3>2. QED
      BY <1>2, <2>1, <3>1 DEF LoopBounds
  <2>2. CASE pc = "bcast" /\ d < n_clients /\ d' = d + 1 /\ n_clients' = n_clients
    BY <1>2, <2>2, LoopFacts DEF LoopBounds
  <2>3. CASE pc = "bcast" /\ d' = d /\ n_clients' = n_clients
    BY <1>2, <2>3 DEF LoopBounds
  <2>4. \/ d' = 0
        \/ pc = "bcast" /\ d < n_clients /\ d' = d + 1 /\ n_clients' = n_clients
        \/ pc = "bcast" /\ d' = d /\ n_clients' = n_clients
    BY <1>2 DEF Next, HostNext, HostStep, HostDies, PeerStep, Startup,
       PollReturns, ScanEnds, LeaveScanAt, SkipQuiet, Accept,
       AcceptFails, AtListener, AtClient, Scanning, NextSlot, Recv, RecvHangup,
       RecvError, RecvFails, SkipExcluded, Send, SendThen, SendError, SendFails,
       Casting, NextDest, CastEnds, BackToScan, StartupFails, PollTimesOut,
       PollFails, SendKilled, CrashInLog, Die, PeerConnect, PeerSend, PeerRead,
       PeerCloses, PeerAborts, PeerRejects, hostVars, progVars, vars, poolVars,
       WorldUnchanged
  <2>5. QED
    BY <2>1, <2>2, <2>3, <2>4
<1>3. QED
  BY <1>1, <1>2 DEF LoopBounds

\* Each step of a pass uses some of the effort up: by PerSlot when a slot is
\* done without a broadcast, by one inside a broadcast, and by what a broadcast
\* did not need when it ends.
LEMMA EffortFalls ==
  ASSUME Inv, Inv', LoopBounds, LoopBounds', HostNext, pc \in {"scan", "bcast"}
  PROVE  Effort' < Effort
<1> DEFINE all(i) == (MAX_CLIENTS - i) * PerSlot
<1>1. /\ pc = "scan"  => Effort = all(c) + 1
      /\ pc = "bcast" => Effort = all(c) - d
      /\ pc' = "scan"  => Effort' = all(c') + 1
      /\ pc' = "bcast" => Effort' = all(c') - d'
      /\ pc' \notin {"scan", "bcast"} => Effort' = 0
  BY DEF Effort, PerSlot
<1>2. all(c) \in Nat
  BY LoopFacts, SlotsLeft
<1>3. c < MAX_CLIENTS => all(c + 1) \in Nat /\ all(c) = all(c + 1) + PerSlot
  BY LoopFacts, SlotsLeft
<1> HIDE DEF all
<1>4. CASE pc' \notin {"scan", "bcast"}
  BY <1>1, <1>4, EffortNat
<1>5. CASE pc = "scan" /\ pc' = "scan"
  <2>1. c' = c + 1 /\ c < n_clients
    BY <1>5 DEF HostNext, HostStep, HostDies, Startup, PollReturns,
       Polling, ScanEnds, LeaveScanAt, SkipQuiet, Accept, AcceptFails,
       AtListener, AtClient, Scanning, NextSlot, Recv, RecvHangup, RecvError,
       RecvFails, SkipExcluded, Send, SendThen, SendError, SendFails, Casting,
       CastEnds, BackToScan, StartupFails, PollTimesOut, PollFails, SendKilled,
       CrashInLog, Die
  <2>2. c < MAX_CLIENTS
    BY <2>1, LoopFacts
  <2>3. QED
    BY <1>1, <1>3, <1>5, <2>1, <2>2, LoopFacts
<1>6. CASE pc = "scan" /\ pc' = "bcast"
  <2>1. c' = c /\ d' = 0
    BY <1>6 DEF HostNext, HostStep, HostDies, Startup, PollReturns,
       Polling, ScanEnds, LeaveScanAt, SkipQuiet, Accept, AcceptFails,
       NextSlot, Recv, RecvHangup, RecvError, SkipExcluded, Send, SendThen,
       SendError, SendFails, Casting, CastEnds, BackToScan, StartupFails,
       PollTimesOut, PollFails, SendKilled, CrashInLog, Die
  <2>2. QED
    BY <1>1, <1>2, <1>6, <2>1
<1>7. CASE pc = "bcast" /\ pc' = "bcast"
  <2>1. c' = c /\ d' = d + 1
    BY <1>7 DEF HostNext, HostStep, HostDies, Startup, PollReturns,
       Polling, ScanEnds, LeaveScanAt, SkipQuiet, Accept, AcceptFails,
       NextSlot, Recv, AtClient, AtListener, Scanning, RecvHangup, RecvError,
       RecvFails, SkipExcluded, Send, SendThen, NextDest, SendError, CastEnds,
       BackToScan, StartupFails, PollTimesOut, PollFails, SendKilled,
       CrashInLog, Die
  <2>2. d \in Nat
    BY LoopFacts
  <2>3. QED
    BY <1>1, <1>2, <1>7, <2>1, <2>2
<1>8. CASE pc = "bcast" /\ pc' = "scan"
  <2>1. c' = c + 1
    BY <1>8 DEF HostNext, HostStep, HostDies, Startup, PollReturns,
       Polling, ScanEnds, LeaveScanAt, SkipQuiet, Accept, AcceptFails,
       NextSlot, Recv, AtClient, AtListener, Scanning, RecvHangup, RecvError,
       RecvFails, SkipExcluded, Send, SendThen, NextDest, SendError, CastEnds,
       BackToScan, StartupFails, PollTimesOut, PollFails, SendKilled,
       CrashInLog, Die
  <2>2. QED
    BY <1>1, <1>3, <1>8, <2>1, LoopFacts
<1>9. QED
  BY <1>4, <1>5, <1>6, <1>7, <1>8

\* The scan and the broadcasts in it end: there is a number that each step of
\* the host makes smaller and no step of a client makes larger.
THEOREM PassIsBounded == Spec => [](Effort \in Nat) /\ PassEnds
<1>1. Init => LoopBounds
  BY DEF Init, LoopBounds
<1>2. Inv /\ Inv' /\ LoopBounds /\ [Next]_vars => LoopBounds'
  BY StepLoop
<1>3. Inv /\ LoopBounds => Effort \in Nat
  BY EffortNat
<1>4. Inv /\ Inv' /\ LoopBounds /\ LoopBounds' /\ [Next]_vars =>
        [/\ HostNext /\ pc \in {"scan", "bcast"} => Effort' < Effort
         /\ PeerStep => Effort' = Effort]_vars
  <2> SUFFICES ASSUME PeerStep PROVE Effort' = Effort
    BY EffortFalls
  <2>1. UNCHANGED <<pc, c, d>>
    BY DEF PeerStep, PeerConnect, PeerSend, PeerRead, PeerCloses, PeerAborts,
           PeerRejects, hostVars, progVars
  <2>2. QED
    BY <2>1 DEF Effort, PerSlot
<1>5. Spec => []Inv
  BY HostCorrect, PTL DEF Inv
<1>6. QED
  BY <1>1, <1>2, <1>3, <1>4, <1>5, PTL DEF Spec, PassEnds

-----------------------------------------------------------------------------
(* The host does not block in recv or accept on what poll reported.  A     *)
(* report stays true until main acts on it: what it announces can only be  *)
(* consumed in the slot's own turn, and a slot that had its turn stays     *)
(* inside the prefix that the next poll rewrites.  What malloc left is not *)
(* such a report; the listener's slot never holds it during a scan.        *)

\* The slots that had their turn in this scan are those below Visited.
Visited == IF pc = "bcast" THEN c + 1 ELSE c

\* What main would call for slot s returns at once.
Serviceable(s) ==
  IF fd[s] = Listener THEN backlog # <<>> ELSE Readable(conn(s))

\* An empty slot holds no report, though it may hold what malloc left.
FreeUnreported == \A s \in Free : revents[s] # Reported

Fresh(s) == revents[s] = Reported => (s < Visited /\ s < n_clients) \/ Serviceable(s)

ReadyStays == pc # "exit" => \A s \in Connected : Fresh(s)

\* The listener's slot was in the prefix of the poll this scan follows.
ListenerPolled == pc \in {"scan", "bcast"} => revents[0] # Leftover

ReadyInv == Inv /\ FreeUnreported /\ ReadyStays

\* Two slots never hold the same connection.
LEMMA DistinctConns ==
  ASSUME Inv, NEW s \in Connected, NEW t \in Connected,
         fd[s] # Listener, fd[t] # Listener, conn(s) = conn(t)
  PROVE  s = t
<1>1. /\ fd[s] \in Fds /\ fd[t] \in Fds
      /\ sock[fd[s]] = sock[fd[t]] /\ sock[fd[s]] # NoConn
  BY OpenSlot
<1>2. fd[s] = fd[t]
  BY <1>1 DEF Inv, DescriptorsAccounted, OneFdEach
<1>3. QED
  BY <1>2 DEF Inv, HostInv, OneSlotEach

\* Steps that leave the table alone, move the turn only forward, and take
\* nothing away from the slots that have not had their turn.
LEMMA ReadyKept ==
  ASSUME ReadyInv, Inv', UNCHANGED <<poolVars, sock>>,
         pc # "exit", Visited' >= Visited, Visited' \in Nat, Visited \in Nat,
         \A s \in Connected :
           revents[s] = Reported /\ Serviceable(s) /\ ~(s < Visited' /\ s < n_clients)
             => Serviceable(s)'
  PROVE  ReadyInv'
<1>1. Connected' = Connected /\ Free' = Free
  BY DEF Connected, Free, poolVars
<1>2. FreeUnreported'
  BY <1>1 DEF ReadyInv, FreeUnreported, poolVars
<1>3. ASSUME NEW s \in Connected PROVE Fresh(s)'
  <2>1. CASE revents[s] # Reported
    BY <2>1 DEF Fresh, poolVars
  <2>2. CASE revents[s] = Reported /\ s < Visited /\ s < n_clients
    <3>1. s < Visited'
      BY <2>2, Consts DEF Connected
    <3>2. QED
      BY <2>2, <3>1 DEF Fresh, poolVars
  <2>3. CASE revents[s] = Reported /\ Serviceable(s)
    BY <2>3 DEF Fresh, poolVars
  <2>4. QED
    BY <2>1, <2>2, <2>3 DEF ReadyInv, ReadyStays, Fresh
<1>4. QED
  BY <1>1, <1>2, <1>3 DEF ReadyInv, ReadyStays

\* What the peers and the host do to other connections than conn(s), or to
\* conn(s) without taking a piece from it, leaves slot s ready.
LEMMA ServiceableKept ==
  ASSUME Inv, NEW s \in Connected, Serviceable(s),
         fd'[s] = fd[s],
         fd[s] = Listener => backlog' # <<>>,
         fd[s] # Listener =>
           /\ sock'[fd[s]] = sock[fd[s]]
           /\ Readable(conn(s)) => \/ sent'[conn(s)] > taken'[conn(s)]
                                   \/ link'[conn(s)] \in {"eof", "reset"}
  PROVE  Serviceable(s)'
<1>1. CASE fd[s] = Listener
  BY <1>1 DEF Serviceable
<1>2. CASE fd[s] # Listener
  <2>1. fd[s] \in Fds /\ conn(s) = sock[fd[s]]
    BY <1>2, OpenSlot
  <2>2. conn(s)' = conn(s)
    BY <1>2, <2>1 DEF conn
  <2>3. QED
    BY <1>2, <2>2 DEF Serviceable, Readable
<1>3. QED
  BY <1>1, <1>2

\* Whatever malloc left, poll has reported nothing yet.
LEMMA InitReady ==
  ASSUME Init
  PROVE  ReadyInv
<1>1. Inv
  BY InitInv
<1>2. \A s \in Slots : revents[s] # Reported /\ ~is_connected[s]
  BY PoolAssumption DEF Init, clients_init, Reported, Leftover
<1>3. QED
  BY <1>1, <1>2
     DEF Init, ReadyInv, FreeUnreported, ReadyStays, Free, Connected, Fresh

LEMMA StartupReady ==
  ASSUME ReadyInv, Inv', Startup
  PROVE  ReadyInv'
<1>1. client_add(Listener) /\ UNCHANGED revents
  BY DEF Startup, client_add, poolVars
<1>2. Connected = {}
  BY DEF Startup, ReadyInv, Inv, HostInv, ListenerFirst
<1>3. \A s \in Slots : revents'[s] # Reported
  BY <1>1, <1>2 DEF ReadyInv, FreeUnreported, Free
<1>4. QED
  BY <1>3 DEF ReadyInv, FreeUnreported, ReadyStays, Fresh, Free, Connected

\* poll finds out what is ready in the prefix; beyond it nothing changes.
LEMMA PollReturnsReady ==
  ASSUME ReadyInv, Inv', PollReturns
  PROVE  ReadyInv'
<1>1. /\ revents' = [s \in Slots |-> IF s \notin Polled THEN revents[s]
                                      ELSE IF fd[s] \in Ready THEN Reported ELSE 0]
      /\ UNCHANGED <<fd, is_connected, n_clients>>
      /\ pc = "poll" /\ pc' = "scan" /\ c' = 0
      /\ UNCHANGED <<sock, backlog, link, sent, taken>>
  BY DEF PollReturns, Polling, poll, peerVars
<1>2. Connected' = Connected /\ Free' = Free
  BY <1>1 DEF Connected, Free
<1>3. \A s \in Connected : Serviceable(s)' <=> Serviceable(s)
  BY <1>1 DEF Serviceable, Readable, conn
<1>4. FreeUnreported'
  <2> SUFFICES ASSUME NEW s \in Free PROVE revents'[s] # Reported
    BY <1>2 DEF FreeUnreported
  <2>1. s \in Slots /\ fd[s] = NoFd
    BY DEF Free, Connected, ReadyInv, Inv, HostInv, PoolInv, SlotsAgree
  <2>2. fd[s] \notin Ready
    BY <2>1, Consts DEF Ready, Fds
  <2>3. QED
    BY <1>1, <2>1, <2>2 DEF ReadyInv, FreeUnreported, Reported
<1>5. ASSUME NEW s \in Connected, revents'[s] = Reported
      PROVE  Serviceable(s)
  <2>1. s \in Slots
    BY DEF Connected
  <2>2. CASE s \in Polled
    <3>1. fd[s] \in Ready
      BY <1>1, <1>5, <2>1, <2>2 DEF Reported
    <3>2. CASE fd[s] = Listener
      BY <3>1, <3>2 DEF Ready, Fds, Serviceable
    <3>3. CASE fd[s] # Listener
      <4>1. fd[s] \in Fds /\ conn(s) = sock[fd[s]] /\ conn(s) # NoConn
        BY <3>3, OpenSlot DEF ReadyInv
      <4>2. Readable(sock[fd[s]])
        BY <3>1, <3>3, <4>1 DEF Ready
      <4>3. QED
        BY <3>3, <4>1, <4>2 DEF Serviceable
    <3>4. QED
      BY <3>2, <3>3
  <2>3. CASE s \notin Polled
    <3>1. revents[s] = Reported
      BY <1>1, <1>5, <2>1, <2>3
    <3>2. ~(s < n_clients)
      BY <2>1, <2>3 DEF Polled
    <3>3. QED
      BY <1>1, <3>1, <3>2 DEF ReadyInv, ReadyStays, Fresh
  <2>4. QED
    BY <2>2, <2>3
<1>6. QED
  BY <1>1, <1>2, <1>3, <1>4, <1>5 DEF ReadyInv, ReadyStays, Fresh

\* The turn is a number.
LEMMA VisitedNat ==
  ASSUME Inv, Inv'
  PROVE  Visited \in Nat /\ Visited' \in Nat
<1>1. PICK n \in Nat : n = c'
  BY DEF Inv, HostTypeOK
<1>2. c' \in Nat /\ c' + 1 \in Nat
  <2>1. n + 1 \in Nat
    OBVIOUS
  <2>2. QED
    BY <1>1, <2>1, Zenon
<1>3. c \in Nat /\ c + 1 \in Nat
  BY DEF Inv, HostTypeOK
<1>4. QED
  BY <1>2, <1>3, Zenon DEF Visited

\* The turns of the loop that take nothing from any socket.
LEMMA TurnReady ==
  ASSUME ReadyInv, Inv', WorldUnchanged,
         pc \notin {"start", "exit"},
         pc' # "exit" => Visited' >= Visited
  PROVE  ReadyInv'
<1>1. UNCHANGED <<poolVars, sock>>
  BY DEF WorldUnchanged
<1>2. Visited \in Nat /\ Visited' \in Nat
  BY VisitedNat DEF ReadyInv
<1>3. \A s \in Connected : Serviceable(s) => Serviceable(s)'
  BY DEF WorldUnchanged, poolVars, peerVars, Serviceable, Readable, conn
<1>4. CASE pc' # "exit"
  BY <1>1, <1>2, <1>3, <1>4, ReadyKept
<1>5. CASE pc' = "exit"
  BY <1>1, <1>5 DEF ReadyInv, FreeUnreported, ReadyStays, Free, Connected, poolVars
<1>6. QED
  BY <1>4, <1>5

\* accept's slot is the listener's own, the first, and no other slot holds
\* the connection that leaves the backlog.
LEMMA AcceptReady ==
  ASSUME ReadyInv, Inv', Accept
  PROVE  ReadyInv'
<1>0. Inv /\ FreeUnreported /\ ReadyStays
  BY DEF ReadyInv
<1>1. PICK q \in Conns : q = Head(backlog)
  BY <1>0, QueueTail DEF Accept
<1>2. PICK f \in FreeFds : connect_client(f, q)
  BY <1>1 DEF Accept
<1>3. /\ pc = "scan" /\ pc' = "scan" /\ c' = c + 1 /\ c < n_clients /\ c \in Nat
      /\ fd[c] = Listener
      /\ UNCHANGED <<sent, taken>>
  BY <1>0 DEF Accept, AtListener, Scanning, NextSlot, Inv, HostTypeOK
<1>4. c \in Connected
  BY <1>0, <1>3, ScanSlot DEF Accept, AtListener
<1>5. \A s \in Connected : fd[s] = Listener => s = c
  BY <1>0, <1>3, <1>4 DEF Inv, HostInv, OneSlotEach
<1>6. ASSUME NEW s \in Connected, fd[s] # Listener
      PROVE  /\ sock'[fd[s]] = sock[fd[s]]
             /\ link'[conn(s)] = link[conn(s)]
  <2>1. conn(s) \in Conns /\ fd[s] \in Fds /\ conn(s) = sock[fd[s]] /\ sock[fd[s]] # NoConn
    BY <1>0, <1>6, OpenSlot
  <2>2. conn(s) # q
    <3>1. Queued(q)
      BY <1>0, <1>1, QueueTail DEF Accept
    <3>2. Held(conn(s))
      BY <2>1 DEF Held
    <3>3. QED
      BY <1>0, <2>1, <3>1, <3>2 DEF Inv, DescriptorsAccounted, AliveAccounted
  <2>3. fd[s] # f
    BY <1>2, <2>1 DEF FreeFds
  <2>4. QED
    BY <1>0, <1>2, <2>1, <2>2, <2>3 DEF connect_client, Inv, HostTypeOK
<1>7. CASE AddFails
  <2>1. UNCHANGED <<poolVars, sock>>
    BY <1>2, <1>7 DEF connect_client, client_add
  <2>2. ASSUME NEW s \in Connected, revents[s] = Reported, Serviceable(s),
               ~(s < Visited' /\ s < n_clients)
        PROVE  Serviceable(s)'
    <3>1. fd[s] # Listener
      BY <1>3, <1>5, <2>2 DEF Visited
    <3>2. QED
      BY <1>0, <1>3, <1>6, <2>1, <2>2, <3>1, ServiceableKept DEF Readable, poolVars
  <2>3. Visited = c /\ Visited' = c + 1
    BY <1>3 DEF Visited
  <2>4. QED
    BY <1>3, <2>1, <2>2, <2>3, ReadyKept
<1>8. CASE ~AddFails
  <2>1. PICK x \in Free :
          /\ fd' = [fd EXCEPT ![x] = f]
          /\ is_connected' = [is_connected EXCEPT ![x] = TRUE]
    BY <1>2, <1>8 DEF connect_client, client_add
  <2>2. UNCHANGED revents /\ n_clients' = U8(n_clients + 1)
    BY <1>2, <1>8 DEF connect_client, client_add, poolVars
  <2>3. x \in Slots /\ x \notin Connected /\ revents[x] # Reported
    BY <1>0, <2>1 DEF Free, FreeUnreported
  <2>4. Connected' = Connected \cup {x} /\ Free' = Free \ {x}
    BY <1>0, <2>1, <2>3 DEF Free, Connected, Inv, HostTypeOK, PoolTypeOK
  <2>5. n_clients' >= n_clients /\ n_clients' \in Nat /\ n_clients \in Nat
    <3>0. n_clients \in Nat /\ ~(n_clients >= MAX_CLIENTS)
      BY <1>0, <1>8, PoolAssumption DEF AddFails, Inv, HostTypeOK, PoolTypeOK
    <3>1. n_clients \in Nat /\ n_clients + 1 < 256
      BY <3>0, PoolAssumption
    <3>2. QED
      BY <2>2, <3>1 DEF U8
  <2>6. FreeUnreported'
    BY <1>0, <2>2, <2>4 DEF FreeUnreported
  <2>7. ASSUME NEW s \in Connected, revents[s] = Reported
        PROVE  Fresh(s)'
    <3>1. s # x /\ s \in Slots /\ fd'[s] = fd[s] /\ s \in Nat
      BY <1>0, <2>1, <2>3, <2>7, Consts DEF Connected, Inv, HostTypeOK, PoolTypeOK
    <3>2. CASE s < c + 1 /\ s < n_clients
      BY <1>3, <2>5, <3>1, <3>2 DEF Fresh, Visited
    <3>3. CASE Serviceable(s) /\ fd[s] # Listener
      <4>1. Serviceable(s)'
        BY <1>0, <1>3, <1>6, <2>7, <3>1, <3>3, ServiceableKept DEF Readable
      <4>2. QED
        BY <4>1 DEF Fresh
    <3>4. fd[s] = Listener => s = c
      BY <1>5, <2>7
    <3>5. (s < Visited /\ s < n_clients) \/ Serviceable(s)
      BY <1>0, <1>3, <2>7 DEF ReadyStays, Fresh
    <3>6. QED
      BY <1>3, <3>1, <3>2, <3>3, <3>4, <3>5 DEF Visited
  <2>8. Fresh(x)'
    BY <2>2, <2>3 DEF Fresh
  <2>9. QED
    BY <2>2, <2>4, <2>6, <2>7, <2>8 DEF ReadyInv, ReadyStays, Fresh
<1>9. QED
  BY <1>7, <1>8

LEMMA AcceptFailsReady ==
  ASSUME ReadyInv, Inv', AcceptFails
  PROVE  ReadyInv'
<1>0. Inv
  BY DEF ReadyInv
<1>1. PICK q \in Conns : q = Head(backlog)
  BY <1>0, QueueTail DEF AcceptFails
<1>2. /\ pc = "scan" /\ pc' = "scan" /\ c' = c + 1 /\ c < n_clients /\ c \in Nat
      /\ fd[c] = Listener
      /\ UNCHANGED <<poolVars, sock, sent, taken>>
      /\ link' = [link EXCEPT ![q] = "aborted"]
  BY <1>0, <1>1 DEF AcceptFails, AtListener, Scanning, NextSlot, Inv, HostTypeOK
<1>3. c \in Connected
  BY <1>0, <1>2, ScanSlot DEF AcceptFails, AtListener
<1>4. ASSUME NEW s \in Connected, Serviceable(s),
             ~(s < Visited' /\ s < n_clients)
      PROVE  Serviceable(s)'
  <2>1. fd[s] # Listener
    BY <1>0, <1>2, <1>3, <1>4 DEF Visited, Inv, HostInv, OneSlotEach
  <2>2. conn(s) \in Conns /\ fd[s] \in Fds /\ conn(s) = sock[fd[s]]
    BY <1>0, <2>1, OpenSlot
  <2>3. conn(s) # q
    <3>1. Queued(q)
      BY <1>0, <1>1, QueueTail DEF AcceptFails
    <3>2. Held(conn(s))
      BY <2>2 DEF Held
    <3>3. QED
      BY <1>0, <2>2, <3>1, <3>2 DEF Inv, DescriptorsAccounted, AliveAccounted
  <2>4. link'[conn(s)] = link[conn(s)]
    BY <1>0, <1>2, <2>2, <2>3 DEF Inv, HostTypeOK
  <2>5. QED
    BY <1>0, <1>2, <1>4, <2>1, <2>4, ServiceableKept DEF Readable, poolVars
<1>5. Visited = c /\ Visited' = c + 1
  BY <1>2 DEF Visited
<1>6. QED
  BY <1>2, <1>4, <1>5, ReadyKept

\* A disconnected slot's turn is over; the slots that had theirs are still
\* inside the prefix, which shrinks by one, because the emptied slot is not
\* below them.
LEMMA DisconnectReady ==
  ASSUME ReadyInv, Inv', AtClient, disconnect_client(c), NextSlot,
         UNCHANGED <<backlog, sent, unread, taken, relayed>>
  PROVE  ReadyInv'
<1>0. Inv /\ FreeUnreported /\ ReadyStays
  BY DEF ReadyInv
<1>1. /\ pc = "scan" /\ pc' = "scan" /\ c' = c + 1 /\ c < n_clients /\ c \in Nat
      /\ fd[c] # Listener
  BY <1>0 DEF AtClient, Scanning, NextSlot, Inv, HostTypeOK
<1>2. c \in Connected /\ c \in Slots
  BY <1>0, ScanSlot DEF AtClient, Connected
<1>3. /\ fd' = [fd EXCEPT ![c] = NoFd]
      /\ is_connected' = [is_connected EXCEPT ![c] = FALSE]
      /\ revents' = [revents EXCEPT ![c] = 0]
      /\ n_clients' = n_clients - 1 /\ n_clients \in Nat
  BY <1>0, SlotEmptied
<1>4. Connected' = Connected \ {c} /\ Free' = Free \cup {c}
  BY <1>0, <1>2, <1>3 DEF Free, Connected, Inv, HostTypeOK, PoolTypeOK
<1>5. \A s \in Slots : /\ revents'[s] = Reported => revents[s] = Reported /\ s # c
                       /\ s # c => fd'[s] = fd[s]
  BY <1>0, <1>2, <1>3 DEF Inv, HostTypeOK, PoolTypeOK, Reported
<1>6. FreeUnreported'
  BY <1>0, <1>2, <1>4, <1>5 DEF FreeUnreported, Free
<1>7. ASSUME NEW s \in Connected, s # c, revents[s] = Reported
       PROVE  Fresh(s)'
  <2>1. s \in Slots /\ s \in Nat /\ fd'[s] = fd[s]
    BY <1>5, <1>7, Consts DEF Connected
  <2>2. CASE s < c
    BY <1>1, <1>3, <2>1, <2>2 DEF Fresh, Visited
  <2>3. CASE Serviceable(s)
    <3>1. fd[s] = Listener => backlog' # <<>>
      BY <2>3 DEF Serviceable
    <3>2. ASSUME fd[s] # Listener
          PROVE  sock'[fd[s]] = sock[fd[s]] /\ link'[conn(s)] = link[conn(s)]
      <4>1. conn(s) \in Conns /\ fd[s] \in Fds
        BY <1>0, <3>2, OpenSlot
      <4>2. fd[s] # fd[c]
        BY <1>0, <1>2, <1>7 DEF Inv, HostInv, OneSlotEach
      <4>3. conn(s) # conn(c)
        BY <1>0, <1>1, <1>2, <1>7, <3>2, DistinctConns
      <4>4. QED
        BY <4>1, <4>2, <4>3 DEF disconnect_client, CloseSocket
    <3>3. Serviceable(s)'
      BY <1>0, <1>7, <2>1, <2>3, <3>1, <3>2, ServiceableKept DEF Readable
    <3>4. QED
      BY <3>3 DEF Fresh
  <2>4. QED
    BY <1>0, <1>1, <1>7, <2>2, <2>3 DEF ReadyStays, Fresh, Visited
<1>8. ASSUME NEW s \in Connected, s # c
       PROVE  Fresh(s)'
  BY <1>5, <1>7, <1>8 DEF Fresh, Connected
<1>9. QED
  BY <1>4, <1>6, <1>8 DEF ReadyInv, ReadyStays

\* A piece is taken from one connection, in its turn.
LEMMA RecvReady ==
  ASSUME ReadyInv, Inv', Recv
  PROVE  ReadyInv'
<1>0. Inv
  BY DEF ReadyInv
<1>1. /\ pc = "scan" /\ pc' = "bcast" /\ c' = c /\ c < n_clients /\ c \in Nat
      /\ fd[c] # Listener
      /\ UNCHANGED <<poolVars, sock, backlog, link, sent>>
      /\ taken' = [taken EXCEPT ![conn(c)] = @ + 1]
  BY <1>0 DEF Recv, AtClient, Scanning, peerVars, Inv, HostTypeOK
<1>2. c \in Connected
  BY <1>0, ScanSlot DEF Recv, AtClient
<1>3. ASSUME NEW s \in Connected, Serviceable(s),
             ~(s < Visited' /\ s < n_clients)
      PROVE  Serviceable(s)'
  <2>1. s # c
    BY <1>1, <1>3 DEF Visited
  <2>2. fd[s] = Listener => backlog' # <<>>
    BY <1>1, <1>3 DEF Serviceable
  <2>3. fd[s] # Listener => taken'[conn(s)] = taken[conn(s)]
    <3>1. SUFFICES ASSUME fd[s] # Listener
                   PROVE  taken'[conn(s)] = taken[conn(s)]
      OBVIOUS
    <3>2. conn(s) \in Conns /\ conn(s) # conn(c)
      BY <1>0, <1>1, <1>2, <2>1, <3>1, OpenSlot, DistinctConns
    <3>3. QED
      BY <1>0, <1>1, <3>2 DEF Inv, HostTypeOK
  <2>4. QED
    BY <1>0, <1>1, <1>3, <2>2, <2>3, ServiceableKept DEF Readable, poolVars
<1>4. Visited = c /\ Visited' = c + 1
  BY <1>1 DEF Visited
<1>5. QED
  BY <1>1, <1>3, <1>4, ReadyKept

\* Sending takes nothing from any connection.
LEMMA SendReady ==
  ASSUME ReadyInv, Inv', Send
  PROVE  ReadyInv'
<1>1. /\ pc = "bcast" /\ UNCHANGED <<poolVars, pc, c, sock, backlog, link, sent, taken>>
  BY DEF Send, SendThen, Casting
<1>2. \A s \in Connected : Serviceable(s) => Serviceable(s)'
  BY <1>1 DEF poolVars, Serviceable, Readable, conn
<1>3. Visited' = Visited /\ Visited \in Nat
  BY <1>1 DEF Visited, ReadyInv, Inv, HostTypeOK
<1>4. QED
  BY <1>1, <1>2, <1>3, ReadyKept

\* What the peers do only makes more slots ready.
LEMMA PeerReady ==
  ASSUME ReadyInv, Inv', PeerStep
  PROVE  ReadyInv'
<1>0. Inv
  BY DEF ReadyInv
<1>1. PICK q \in Conns : \/ PeerConnect(q) \/ PeerSend(q) \/ PeerRead(q)
                         \/ PeerCloses(q) \/ PeerAborts(q) \/ PeerRejects(q)
  BY DEF PeerStep
<1>2. UNCHANGED <<poolVars, sock, pc, c, taken>> /\ pc # "exit"
  BY <1>1 DEF PeerConnect, PeerSend, PeerRead, PeerCloses, PeerAborts,
              PeerRejects, Running, hostVars, progVars
<1>3. backlog' = backlog \/ (backlog' = Append(backlog, q) /\ backlog \in Seq(Conns))
  BY <1>0, <1>1 DEF PeerConnect, PeerSend, PeerRead, PeerCloses, PeerAborts,
                    PeerRejects, Inv, HostTypeOK
<1>4. backlog # <<>> => backlog' # <<>>
  BY <1>3
<1>5. /\ link \in [Conns -> Links] /\ sent \in [Conns -> Nat]
      /\ taken \in [Conns -> Nat]
  BY <1>0 DEF Inv, HostTypeOK
<1>6. ASSUME NEW p \in Conns
      PROVE  /\ sent'[p] >= sent[p]
             /\ link[p] \in {"eof", "reset"} => link'[p] \in {"eof", "reset"}
  BY <1>1, <1>5 DEF PeerConnect, PeerSend, PeerRead, PeerCloses, PeerAborts,
                    PeerRejects
<1>7. ASSUME NEW s \in Connected, Serviceable(s)
      PROVE  Serviceable(s)'
  <2>1. fd[s] = Listener => backlog' # <<>>
    BY <1>4, <1>7 DEF Serviceable
  <2>2. ASSUME fd[s] # Listener, Readable(conn(s))
        PROVE  \/ sent'[conn(s)] > taken'[conn(s)]
               \/ link'[conn(s)] \in {"eof", "reset"}
    <3>1. PICK p \in Conns : p = conn(s)
      BY <1>0, <2>2, OpenSlot
    <3>2. sent[p] \in Nat /\ sent'[p] \in Nat /\ taken[p] \in Nat
      BY <1>5 DEF Inv, HostTypeOK
    <3>3. QED
      BY <1>2, <1>6, <2>2, <3>1, <3>2 DEF Readable
  <2>3. QED
    BY <1>0, <1>2, <1>7, <2>1, <2>2, ServiceableKept DEF poolVars
<1>8. Visited' = Visited /\ Visited \in Nat
  BY <1>0, <1>2 DEF Visited, Inv, HostTypeOK
<1>9. QED
  BY <1>2, <1>7, <1>8, ReadyKept

LEMMA StepReady == ReadyInv /\ [Next]_vars => ReadyInv'
<1> SUFFICES ASSUME ReadyInv, [Next]_vars PROVE ReadyInv'
  OBVIOUS
<1>1. Inv /\ Inv'
  BY StepInv DEF ReadyInv
<1>2. c \in Nat /\ d \in Nat
  BY <1>1 DEF Inv, HostTypeOK
<1>3. CASE Startup
  BY <1>1, <1>3, StartupReady
<1>4. CASE PollReturns
  BY <1>1, <1>4, PollReturnsReady
<1>5. CASE Accept
  BY <1>1, <1>5, AcceptReady
<1>6. CASE AcceptFails
  BY <1>1, <1>6, AcceptFailsReady
<1>7. CASE Recv
  BY <1>1, <1>7, RecvReady
<1>8. CASE RecvHangup \/ RecvError
  BY <1>1, <1>8, DisconnectReady DEF RecvHangup, RecvError, RecvFails
<1>9. CASE Send
  BY <1>1, <1>9, SendReady
<1>10. CASE ScanEnds \/ SkipQuiet \/ CastEnds
  BY <1>1, <1>2, <1>10, TurnReady
     DEF ScanEnds, LeaveScanAt, SkipQuiet, Scanning, NextSlot, CastEnds,
         BackToScan, Visited
<1>11. CASE SkipExcluded \/ SendError
  BY <1>1, <1>2, <1>11, TurnReady
     DEF SkipExcluded, SendError, SendFails, Casting, NextDest, Visited
<1>12. CASE HostDies
  <2>1. pc' = "exit" /\ UNCHANGED poolVars
    BY <1>12 DEF HostDies, StartupFails, PollTimesOut, PollFails, SendKilled,
                 CrashInLog, Die, WorldUnchanged
  <2>2. QED
    BY <1>1, <2>1 DEF ReadyInv, FreeUnreported, ReadyStays, Free, Connected, poolVars
<1>13. CASE PeerStep
  BY <1>1, <1>13, PeerReady
<1>14. CASE UNCHANGED vars
  <2>1. UNCHANGED <<poolVars, sock, pc, c, backlog, link, sent, taken>>
    BY <1>14 DEF vars, progVars, peerVars
  <2>2. UNCHANGED <<fd, is_connected, revents, n_clients>>
    BY <2>1 DEF poolVars
  <2>3. QED
    BY <1>1, <2>1, <2>2 DEF ReadyInv, FreeUnreported, ReadyStays, Free, Connected, Fresh,
                      Serviceable, Readable, conn, Visited
<1>15. QED
  BY <1>3, <1>4, <1>5, <1>6, <1>7, <1>8, <1>9, <1>10, <1>11, <1>12, <1>13,
     <1>14 DEF Next, HostNext, HostStep

LEMMA StepListener ==
  ASSUME Inv, ListenerPolled, [Next]_vars
  PROVE  ListenerPolled'
<1>0. 0 \in Slots /\ revents \in [Slots -> {0, Reported, Leftover}]
  BY PoolAssumption DEF Slots, Inv, HostTypeOK, PoolTypeOK
<1>1. CASE PollReturns
  <2>1. PICK s \in Slots : s < n_clients
    BY <1>1 DEF PollReturns, Polled
  <2>2. 0 \in Polled
    BY <1>0, <2>1, PoolAssumption DEF Polled, Slots, Inv, HostTypeOK, PoolTypeOK
  <2>3. revents'[0] \in {0, Reported}
    BY <1>0, <1>1, <2>2 DEF PollReturns, poll
  <2>4. QED
    BY <2>3 DEF ListenerPolled, Reported, Leftover
<1>2. CASE RecvHangup \/ RecvError
  <2>1. AtClient /\ disconnect_client(c) /\ pc = "scan"
    BY <1>2 DEF RecvHangup, RecvError, RecvFails, AtClient, Scanning
  <2>2. revents' = [revents EXCEPT ![c] = 0]
    BY <2>1, SlotEmptied
  <2>3. revents'[0] # Leftover
    BY <1>0, <2>1, <2>2 DEF ListenerPolled, Leftover
  <2>4. QED
    BY <2>3 DEF ListenerPolled
<1>3. CASE Accept
  <2>1. UNCHANGED revents /\ pc = "scan"
    BY <1>3 DEF Accept, AtListener, Scanning, connect_client, client_add, poolVars
  <2>2. QED
    BY <2>1 DEF ListenerPolled
<1>4. CASE Startup
  BY <1>4 DEF Startup, ListenerPolled
<1>5. CASE \/ ScanEnds \/ SkipQuiet \/ AcceptFails \/ Recv \/ SkipExcluded
           \/ Send \/ SendError \/ CastEnds \/ HostDies
  <2>1. UNCHANGED revents /\ (pc' \in {"scan", "bcast"} => pc \in {"scan", "bcast"})
    BY <1>5
       DEF ScanEnds, LeaveScanAt, SkipQuiet, AcceptFails, Recv, SkipExcluded, Send,
           SendThen, SendError, CastEnds, BackToScan, HostDies, StartupFails,
           PollTimesOut, PollFails, SendKilled, CrashInLog, Die, WorldUnchanged,
           poolVars, AtListener, AtClient, Scanning, Casting, NextSlot, NextDest
  <2>2. QED
    BY <2>1 DEF ListenerPolled
<1>6. CASE PeerStep \/ UNCHANGED vars
  <2>1. UNCHANGED <<revents, pc>>
    BY <1>6 DEF PeerStep, PeerConnect, PeerSend, PeerRead, PeerCloses, PeerAborts,
                PeerRejects, hostVars, progVars, poolVars, vars
  <2>2. QED
    BY <2>1 DEF ListenerPolled
<1>7. QED
  BY <1>1, <1>2, <1>3, <1>4, <1>5, <1>6 DEF Next, HostNext, HostStep

\* So accept finds a connection, and recv what poll reported, unless the slot
\* is one that poll has not looked at.
LEMMA ReadyAnswers ==
  ASSUME ReadyInv, ListenerPolled
  PROVE  /\ AtListener => backlog # <<>>
         /\ AtClient => conn(c) # NoConn /\ (Readable(conn(c)) \/ RecvBlocks)
<1>1. Inv
  BY DEF ReadyInv
<1>2. ASSUME Scanning, revents[c] # 0
      PROVE  c \in Connected /\ (Serviceable(c) \/ revents[c] = Leftover)
  <2>1. c \in Connected /\ pc = "scan" /\ c \in Nat
    BY <1>1, <1>2, ScanSlot DEF Scanning, Inv, HostTypeOK
  <2>2. revents[c] \in {Reported, Leftover}
    BY <1>1, <1>2, <2>1 DEF Connected, Inv, HostTypeOK, PoolTypeOK
  <2>3. QED
    BY <2>1, <2>2 DEF ReadyInv, ReadyStays, Fresh, Visited
<1>3. ASSUME AtClient
      PROVE  conn(c) # NoConn /\ (Readable(conn(c)) \/ RecvBlocks)
  BY <1>1, <1>2, <1>3, OpenSlot DEF AtClient, Serviceable, RecvBlocks
<1>4. ASSUME AtListener
      PROVE  backlog # <<>>
  <2>1. c \in Connected /\ pc = "scan" /\ fd[c] = Listener
    BY <1>2, <1>4 DEF AtListener, Scanning
  <2>2. 0 \in Connected /\ fd[0] = Listener
    <3>1. fd[0] = Listener /\ 0 \in Slots
      BY <1>1, <2>1, PoolAssumption DEF Inv, HostInv, ListenerFirst, Slots
    <3>2. QED
      BY <1>1, <3>1, Consts DEF Connected, Inv, HostInv, PoolInv, SlotsAgree
  <2>3. c = 0
    BY <1>1, <2>1, <2>2 DEF Inv, HostInv, OneSlotEach
  <2>4. QED
    BY <1>2, <1>4, <2>1, <2>3 DEF AtListener, ListenerPolled, Serviceable
<1>5. QED
  BY <1>3, <1>4

\* A descriptor is left for accept: each one in use is in a slot, one of the
\* slots is the listener's, and there are more descriptors than slots.
LEMMA DescriptorLeft ==
  ASSUME Inv, fd[0] = Listener
  PROVE  FreeFds # {}
<1> SUFFICES ASSUME FreeFds = {} PROVE FALSE
  OBVIOUS
<1>1. \A f \in Descriptors : \E s \in Slots : fd[s] = f
  <2> SUFFICES ASSUME NEW f \in Descriptors
               PROVE  \E s \in Slots : fd[s] = f
    OBVIOUS
  <2>1. CASE f = Listener
    BY <2>1, Consts
  <2>2. CASE f # Listener
    <3>1. f \in Fds /\ sock[f] # NoConn
      BY <2>2 DEF Fds, FreeFds
    <3>2. QED
      BY <3>1 DEF Inv, DescriptorsAccounted, OpenIffListed
  <2>3. QED
    BY <2>1, <2>2
<1> DEFINE holder == [s \in Slots |-> IF fd[s] \in Descriptors THEN fd[s]
                                                               ELSE Listener]
<1>2. holder \in [Slots -> Descriptors]
  BY Consts
<1>3. \A f \in Descriptors : \E s \in Slots : holder[s] = f
  BY <1>1
<1> HIDE DEF holder
<1>4. holder \in Surjection(Slots, Descriptors)
  BY <1>2, <1>3, Fun_IsSurj, Zenon
<1>5. IsFiniteSet(Slots) /\ Cardinality(Slots) = MAX_CLIENTS
  BY SlotSets
<1>6. Cardinality(Descriptors) <= Cardinality(Slots)
  BY <1>4, <1>5, FS_Surjection, Zenon
<1>7. Cardinality(Descriptors) \in Nat /\ Cardinality(Descriptors) > MAX_CLIENTS
  BY HostAssumption, FS_CardinalityType
<1>8. QED
  BY <1>5, <1>6, <1>7, PoolAssumption

\* The one thread stands still in two places only: in send to a client whose
\* buffer is full, and in recv on what malloc left in a slot new to poll.  The
\* rest of recv and accept find what poll announced, and accept a free descriptor,
\* whatever connects, hangs up and reuses slots during a scan.
THEOREM HostBlocksInTwoPlaces == Spec => []BlocksInTwoPlaces
<1>1. Init => ReadyInv /\ ListenerPolled
  BY InitReady DEF Init, ListenerPolled
<1>2. ReadyInv /\ ListenerPolled /\ [Next]_vars => ReadyInv' /\ ListenerPolled'
  BY StepReady, StepListener DEF ReadyInv
<1>3. ReadyInv /\ ListenerPolled => BlocksInTwoPlaces
  <2> SUFFICES ASSUME ReadyInv, ListenerPolled, pc # "exit"
               PROVE  CanStep \/ SendBlocks \/ RecvBlocks
    BY DEF BlocksInTwoPlaces
  <2>1. /\ Inv
        /\ AtListener => backlog # <<>>
        /\ AtClient => conn(c) # NoConn /\ (Readable(conn(c)) \/ RecvBlocks)
    BY ReadyAnswers DEF ReadyInv
  <2>2. /\ pc \in {"start", "poll", "scan", "bcast"}
        /\ c \in Nat /\ d \in Nat /\ n_clients \in Nat
    BY <2>1 DEF Inv, HostTypeOK, PoolTypeOK
  <2>3. CASE pc \in {"start", "poll"}
    BY <2>3 DEF CanStep
  <2>4. CASE pc = "scan"
    <3>1. CASE c >= n_clients \/ revents[c] = 0
      BY <2>4, <3>1 DEF CanStep
    <3>2. CASE AtListener
      <4>1. fd[0] = Listener
        BY <2>1, <2>4 DEF Inv, HostInv, ListenerFirst
      <4>2. QED
        BY <2>1, <3>2, <4>1, DescriptorLeft DEF CanStep
    <3>3. CASE AtClient
      BY <2>1, <3>3 DEF CanStep
    <3>4. QED
      BY <2>2, <2>4, <3>1, <3>2, <3>3 DEF Scanning, AtListener, AtClient
  <2>5. CASE pc = "bcast"
    <3>1. CASE d >= n_clients
      BY <2>5, <3>1 DEF CanStep
    <3>2. CASE Casting /\ (Excluded \/ conn(d) = NoConn)
      BY <3>2 DEF CanStep, SendFails
    <3>3. CASE Casting /\ ~Excluded /\ conn(d) # NoConn
      <4>1. PICK q \in Conns : q = conn(d)
        BY <2>1, <3>3, ConnType
      <4>2. link[q] \in Alive
        BY <2>1, <3>3, <4>1, ConnType
           DEF Inv, DescriptorsAccounted, AliveAccounted
      <4>3. unread[q] \in 0..SndBuf
        BY <2>1 DEF Inv, HostTypeOK
      <4>4. CASE link[q] = "reset"
        BY <3>3, <4>1, <4>4 DEF CanStep, SendFails
      <4>5. CASE link[q] \in {"open", "eof"}
        <5>1. unread[q] < SndBuf \/ unread[q] = SndBuf
          BY <4>3, Consts
        <5>2. CASE unread[q] < SndBuf
          BY <3>3, <4>1, <4>5, <5>2 DEF CanStep, Writable
        <5>3. CASE unread[q] = SndBuf
          BY <3>3, <4>1, <4>5, <5>3 DEF SendBlocks
        <5>4. QED
          BY <5>1, <5>2, <5>3
      <4>6. QED
        BY <4>2, <4>4, <4>5 DEF Alive
    <3>4. QED
      BY <2>2, <2>5, <3>1, <3>2, <3>3 DEF Casting
  <2>6. QED
    BY <2>2, <2>3, <2>4, <2>5
<1>4. QED
  BY <1>1, <1>2, <1>3, PTL DEF Spec

-----------------------------------------------------------------------------
(* How the process ends                                                    *)

\* What the host died of is recorded when it dies.
ExitRecorded == pc # "exit" => exit = "none"

\* Nothing happens once the process is gone.
LEMMA ExitIsFinal ==
  ASSUME pc = "exit", Next
  PROVE  FALSE
BY DEF Next, HostNext, HostStep, HostDies, PeerStep, Startup, PollReturns,
       Polling, ScanEnds, LeaveScanAt, SkipQuiet, Scanning, Accept,
       AcceptFails, AtListener, Recv, RecvHangup, RecvError, RecvFails, AtClient,
       SkipExcluded, Send, SendThen, SendError, SendFails, Casting, CastEnds,
       BackToScan, StartupFails, PollTimesOut, PollFails, SendKilled, CrashInLog,
       PeerConnect, PeerSend, PeerRead, PeerCloses, PeerAborts, PeerRejects,
       Running

\* Only a step of HostDies ends the process, and only it sets exit.
LEMMA OnlyDeathExits ==
  ASSUME HostStep \/ PeerStep
  PROVE  pc' # "exit" /\ exit' = exit
<1>1. CASE PeerStep
  <2>1. Running /\ UNCHANGED <<pc, exit>>
    BY <1>1 DEF PeerStep, PeerConnect, PeerSend, PeerRead, PeerCloses,
                PeerAborts, PeerRejects, hostVars, progVars
  <2>2. QED
    BY <2>1 DEF Running
<1>2. CASE HostStep
  BY <1>2 DEF HostStep, Startup, PollReturns, ScanEnds, LeaveScanAt,
              SkipQuiet, Accept, AcceptFails, AtListener, Recv, RecvHangup,
              RecvError, AtClient, Scanning, NextSlot, SkipExcluded, Send,
              SendThen, SendError, SendFails, Casting, NextDest, CastEnds,
              BackToScan
<1>3. QED
  BY <1>1, <1>2

LEMMA StepExit == ExitRecorded /\ [Next]_vars => ExitRecorded'
<1> SUFFICES ASSUME ExitRecorded, [Next]_vars PROVE ExitRecorded'
  OBVIOUS
<1>1. CASE HostDies
  BY <1>1 DEF HostDies, StartupFails, PollTimesOut, PollFails, SendKilled,
              CrashInLog, Die, ExitRecorded
<1>2. CASE HostStep \/ PeerStep
  <2>1. pc # "exit"
    BY <1>2, ExitIsFinal DEF Next, HostNext
  <2>2. QED
    BY <1>2, <2>1, OnlyDeathExits DEF ExitRecorded
<1>3. CASE UNCHANGED vars
  BY <1>3 DEF ExitRecorded, vars, progVars
<1>4. QED
  BY <1>1, <1>2, <1>3 DEF Next, HostNext

\* The host dies of an error of its own clients only when one of them reset
\* its connection: no bookkeeping of the table leads it into errno's "%s" or
\* into SIGPIPE.
OnlyResetsKill ==
  exit \in {"crash", "sigpipe"} => \E q \in Conns : link[q] = "reset"

\* Properties of how the process ended are settled by the step that ended it.
LEMMA EndIsSettled ==
  ASSUME ExitRecorded, ExitRecorded', [Next]_vars, ~HostDies
  PROVE  \/ exit' = "none"
         \/ UNCHANGED vars
<1>1. CASE HostStep \/ PeerStep
  BY <1>1, OnlyDeathExits DEF ExitRecorded
<1>2. QED
  BY <1>1 DEF Next, HostNext

\* With the pool of host.h a failed recv or send means a reset: recv is given
\* open descriptors and send is given no hole.
LEMMA FailureIsReset ==
  ASSUME RecvOnlyOpen, NoHoleInBroadcast, MAX_CLIENTS <= 3, Inv,
         RecvFails \/ SendFails
  PROVE  \E q \in Conns : link[q] = "reset"
<1>1. CASE RecvFails
  <2>1. conn(c) # NoConn /\ link[conn(c)] = "reset"
    BY <1>1 DEF RecvFails, RecvOnlyOpen
  <2>2. QED
    BY <2>1, ConnType
<1>2. CASE SendFails
  <2>1. fd[d] # NoFd /\ d \in Slots
    <3>1. Casting
      BY <1>2 DEF SendFails
    <3>2. n_clients <= MAX_CLIENTS /\ n_clients \in Nat
      BY SlotSets DEF Inv, HostInv, PoolInv, CountMatches
    <3>3. d \in Nat /\ d < n_clients
      BY <3>1 DEF Casting, Inv, HostTypeOK
    <3>4. QED
      BY <3>1, <3>2, <3>3, PoolAssumption DEF NoHoleInBroadcast, Slots
  <2>2. d \in Connected /\ fd[d] # Listener
    BY <1>2, <2>1 DEF SendFails, Excluded, Connected, Inv, HostInv, PoolInv,
                      SlotsAgree
  <2>3. conn(d) \in Conns /\ conn(d) # NoConn
    BY <2>2, OpenSlot
  <2>4. QED
    BY <1>2, <2>3 DEF SendFails
<1>3. QED
  BY <1>1, <1>2

\* With at most three slots the host crashes in its log or dies of SIGPIPE
\* only after a client reset its connection.
THEOREM OnlyAResetKills ==
  ASSUME MAX_CLIENTS <= 3
  PROVE  Spec => []OnlyResetsKill
<1> DEFINE I == ExitRecorded /\ OnlyResetsKill
           G == Inv /\ RecvOnlyOpen /\ NoHoleInBroadcast
<1>1. Init => I
  BY DEF Init, ExitRecorded, OnlyResetsKill
<1>2. I /\ G /\ [Next]_vars => I'
  <2> SUFFICES ASSUME I, G, [Next]_vars PROVE I'
    OBVIOUS
  <2>1. ExitRecorded'
    BY StepExit
  <2>2. CASE ~HostDies
    <3>1. CASE exit' = "none"
      BY <2>1, <3>1 DEF OnlyResetsKill
    <3>2. CASE UNCHANGED vars
      BY <2>1, <3>2 DEF vars, progVars, peerVars, OnlyResetsKill
    <3>3. QED
      BY <2>1, <2>2, <3>1, <3>2, EndIsSettled
  <2>3. CASE SendKilled \/ CrashInLog
    <3>1. RecvFails \/ SendFails
      BY <2>3 DEF SendKilled, CrashInLog
    <3>2. link' = link
      BY <2>3 DEF SendKilled, CrashInLog, WorldUnchanged, peerVars
    <3>3. PICK q \in Conns : link[q] = "reset"
      BY <3>1, FailureIsReset
    <3>4. QED
      BY <2>1, <3>2, <3>3 DEF OnlyResetsKill
  <2>4. CASE StartupFails \/ PollFails \/ PollTimesOut
    <3>1. exit' \notin {"crash", "sigpipe"}
      BY <2>4 DEF StartupFails, PollFails, PollTimesOut, Die
    <3>2. QED
      BY <2>1, <3>1 DEF OnlyResetsKill
  <2>5. QED
    BY <2>2, <2>3, <2>4 DEF HostDies
<1>3. Spec => []G
  BY HostCorrect, RecvIsSafe, BroadcastIsDense, PTL DEF Inv
<1>4. QED
  BY <1>1, <1>2, <1>3, PTL DEF Spec

-----------------------------------------------------------------------------
(* The host implements the chat room. RelayInv adds to Inv what the        *)
(* connections were given: only pieces already taken from others, in order *)
(* (which the room's HeardInOrder is), and, while a piece is broadcast,    *)
(* who has it: nobody from slot d on was ever given it.                    *)

LastIs(q, p) == relayed[q] # <<>> /\ relayed[q][Len(relayed[q])] = p

GivenTaken ==
  \A q \in Conns : \A i \in DOMAIN relayed[q] :
    /\ relayed[q][i][1] # q
    /\ relayed[q][i][2] <= taken[relayed[q][i][1]]

GivenInOrder ==
  \A q \in Conns : \A i, j \in DOMAIN relayed[q] :
    i < j /\ relayed[q][i][1] = relayed[q][j][1] => relayed[q][i][2] < relayed[q][j][2]

\* Slot s in the broadcast that reached slot d.
Given(s) ==
  /\ s < d /\ link[conn(s)] \in {"open", "eof"} => LastIs(conn(s), piece)
  /\ s >= d => \A i \in DOMAIN relayed[conn(s)] : relayed[conn(s)][i] # piece

CastSoFar ==
  pc = "bcast" => \A s \in Slots : conn(s) \notin {NoConn, conn(c)} => Given(s)

RelayInv == Inv /\ GivenTaken /\ GivenInOrder /\ CastSoFar

\* A slot with a connection behind it is connected, and not the listener's.
LEMMA SlotOfConn ==
  ASSUME Inv, NEW s \in Slots, conn(s) # NoConn
  PROVE  s \in Connected /\ fd[s] # Listener /\ fd[s] \in Fds
BY Consts DEF conn, Fds, Connected, Inv, HostInv, PoolInv, SlotsAgree

\* Two slots never hold the same connection, seen from the connection.
LEMMA SlotIsUnique ==
  ASSUME Inv, NEW s \in Slots, NEW t \in Slots, conn(s) # NoConn, conn(s) = conn(t)
  PROVE  s = t
BY SlotOfConn, DistinctConns

\* The types of what was relayed.
LEMMA RelayTypes ==
  ASSUME Inv, NEW q \in Conns
  PROVE  /\ relayed[q] \in Seq(Conns \X Nat)
         /\ Len(relayed[q]) \in Nat /\ DOMAIN relayed[q] = 1 .. Len(relayed[q])
         /\ \A i \in DOMAIN relayed[q] : /\ relayed[q][i] \in Conns \X Nat
                                         /\ relayed[q][i][1] \in Conns
                                         /\ relayed[q][i][2] \in Nat
<1>1. relayed[q] \in Seq(Conns \X Nat)
  BY DEF Inv, HostTypeOK
<1>2. Len(relayed[q]) \in Nat /\ DOMAIN relayed[q] = 1 .. Len(relayed[q])
  BY <1>1
<1>3. ASSUME NEW i \in DOMAIN relayed[q]
      PROVE  relayed[q][i] \in Conns \X Nat
  BY <1>1, <1>2
<1>4. QED
  BY <1>1, <1>2, <1>3

\* Steps that take and relay nothing and are in no broadcast afterwards.
LEMMA QuietRelay ==
  ASSUME RelayInv, Inv', UNCHANGED <<taken, relayed>>, pc' # "bcast"
  PROVE  RelayInv'
BY DEF RelayInv, GivenTaken, GivenInOrder, CastSoFar

\* Steps during a broadcast that relay nothing.
LEMMA CastRelay ==
  ASSUME RelayInv, Inv', UNCHANGED <<poolVars, sock, c, taken, relayed>>,
         pc' = "bcast" => pc = "bcast",
         pc' = "bcast" =>
           \A s \in Slots : conn(s) \notin {NoConn, conn(c)} =>
             /\ s >= d' => s >= d
             /\ s < d' => \/ s < d
                          \/ link'[conn(s)] \notin {"open", "eof"}
             /\ link'[conn(s)] \in {"open", "eof"} => link[conn(s)] \in {"open", "eof"}
  PROVE  RelayInv'
<1>1. \A s : conn(s)' = conn(s)
  BY DEF conn, poolVars
<1>2. piece' = piece /\ \A q, p : LastIs(q, p)' <=> LastIs(q, p)
  BY <1>1 DEF piece, LastIs
<1>3. ASSUME pc' = "bcast", NEW s \in Slots, conn(s) \notin {NoConn, conn(c)}
      PROVE  Given(s)'
  <2>1. Given(s)
    BY <1>3 DEF RelayInv, CastSoFar
  <2>2. conn(s)' = conn(s) /\ piece' = piece
    BY <1>1, <1>2
  <2>3. s < d' /\ link'[conn(s)] \in {"open", "eof"} => LastIs(conn(s), piece)
    BY <1>3, <2>1 DEF Given
  <2>4. s >= d' => \A i \in DOMAIN relayed[conn(s)] : relayed[conn(s)][i] # piece
    BY <1>3, <2>1 DEF Given
  <2>5. LastIs(conn(s), piece)' <=> LastIs(conn(s), piece)
    BY <2>2 DEF LastIs
  <2>6. QED
    BY <2>2, <2>3, <2>4, <2>5 DEF Given
<1>4. CastSoFar'
  <2>1. conn(c)' = conn(c)
    BY DEF conn, poolVars
  <2>2. QED
    BY <1>1, <1>3, <2>1 DEF CastSoFar
<1>5. GivenTaken' /\ GivenInOrder'
  BY DEF RelayInv, GivenTaken, GivenInOrder
<1>6. QED
  BY <1>4, <1>5 DEF RelayInv

\* The piece just taken is one that nobody was given before.
LEMMA RecvRelay ==
  ASSUME RelayInv, Inv', Recv
  PROVE  RelayInv'
<1>0. Inv
  BY DEF RelayInv
<1>1. /\ UNCHANGED <<poolVars, sock, c, relayed, link>> /\ d' = 0
      /\ taken' = [taken EXCEPT ![conn(c)] = @ + 1]
  BY DEF Recv, peerVars
<1>2. conn(c) \in Conns /\ taken \in [Conns -> Nat]
  BY <1>0, ConnType DEF Recv, Inv, HostTypeOK
<1>3. \A s : conn(s)' = conn(s)
  BY <1>1 DEF conn, poolVars
<1>4. piece' = <<conn(c), taken[conn(c)] + 1>>
  BY <1>1, <1>2, <1>3 DEF piece
<1>5. GivenTaken'
  <2>1. ASSUME NEW q \in Conns, NEW i \in DOMAIN relayed[q]
        PROVE  relayed[q][i][1] # q /\ relayed[q][i][2] <= taken'[relayed[q][i][1]]
    <3>1. relayed[q][i][1] \in Conns /\ relayed[q][i][2] \in Nat
      BY <1>0, RelayTypes
    <3>2. relayed[q][i][1] # q /\ relayed[q][i][2] <= taken[relayed[q][i][1]]
      BY DEF RelayInv, GivenTaken
    <3>3. taken[relayed[q][i][1]] <= taken'[relayed[q][i][1]]
          /\ taken[relayed[q][i][1]] \in Nat /\ taken'[relayed[q][i][1]] \in Nat
      BY <1>1, <1>2, <3>1
    <3>4. QED
      BY <3>1, <3>2, <3>3
  <2>2. QED
    BY <1>1, <2>1 DEF GivenTaken
<1>6. GivenInOrder'
  BY <1>1 DEF RelayInv, GivenInOrder
<1>7. ASSUME NEW q \in Conns, NEW i \in DOMAIN relayed[q]
      PROVE  relayed[q][i] # piece'
  <2>1. relayed[q][i][2] <= taken[relayed[q][i][1]] /\ relayed[q][i][2] \in Nat
    BY <1>0, RelayTypes DEF RelayInv, GivenTaken
  <2>2. ASSUME relayed[q][i] = <<conn(c), taken[conn(c)] + 1>> PROVE FALSE
    <3>1. relayed[q][i][1] = conn(c) /\ relayed[q][i][2] = taken[conn(c)] + 1
      BY <2>2
    <3>2. taken[conn(c)] \in Nat
      BY <1>2
    <3>3. QED
      BY <2>1, <3>1, <3>2
  <2>3. QED
    BY <1>4, <2>2
<1>8. CastSoFar'
  <2>1. ASSUME NEW s \in Slots, conn(s) \notin {NoConn, conn(c)}
        PROVE  Given(s)'
    <3>1. conn(s) \in Conns
      BY <1>0, <2>1, ConnType
    <3>2. s >= 0 /\ ~(s < 0)
      BY Consts
    <3>3. \A i \in DOMAIN relayed[conn(s)] : relayed[conn(s)][i] # piece'
      BY <1>7, <3>1
    <3>4. QED
      BY <1>1, <1>3, <3>2, <3>3 DEF Given
  <2>2. conn(c)' = conn(c)
    BY <1>1 DEF conn, poolVars
  <2>3. QED
    BY <1>3, <2>1, <2>2 DEF CastSoFar
<1>9. QED
  BY <1>5, <1>6, <1>8 DEF RelayInv

\* What Send does, seen from the two connections.
LEMMA SendFacts ==
  ASSUME Inv, Send
  PROVE  /\ d \in Slots /\ conn(d) \in Conns /\ conn(c) \in Conns /\ conn(d) # conn(c)
         /\ pc = "bcast" /\ d' = d + 1 /\ d \in Nat
         /\ UNCHANGED <<poolVars, pc, c, sock, link, taken>>
         /\ relayed' = [relayed EXCEPT ![conn(d)] = Append(relayed[conn(d)], piece)]
         /\ piece \in Conns \X Nat /\ piece[1] = conn(c) /\ piece[2] = taken[conn(c)]
         /\ taken[conn(c)] > 0
<1>1. /\ pc = "bcast" /\ d < n_clients /\ d' = d + 1 /\ fd[d] \notin {Listener, fd[c]}
      /\ conn(d) # NoConn
      /\ UNCHANGED <<poolVars, pc, c, sock, link, taken>>
      /\ relayed' = [relayed EXCEPT ![conn(d)] = Append(relayed[conn(d)], piece)]
  BY DEF Send, SendThen, Casting, Excluded
<1>2. d \in Nat /\ n_clients \in Nat /\ n_clients <= MAX_CLIENTS /\ c \in Nat
  BY SlotSets DEF Inv, HostTypeOK, HostInv, PoolInv, CountMatches
<1>3. c < n_clients /\ conn(c) # NoConn /\ taken[conn(c)] > 0
  BY <1>1 DEF Inv, HostInv, SenderStays
<1>4. d \in Slots /\ c \in Slots
  BY <1>1, <1>2, <1>3, PoolAssumption DEF Slots
<1>5. conn(d) \in Conns /\ conn(c) \in Conns
  BY <1>1, <1>3, ConnType
<1>6. conn(d) # conn(c)
  BY <1>1, <1>3, <1>4, SlotIsUnique
<1>7. taken[conn(c)] \in Nat
  BY <1>5 DEF Inv, HostTypeOK
<1>8. QED
  BY <1>1, <1>2, <1>3, <1>4, <1>5, <1>6, <1>7 DEF piece

\* A piece is relayed: the next after all that were given of its speaker.
LEMMA SendRelay ==
  ASSUME RelayInv, Inv', Send
  PROVE  RelayInv'
<1>0. Inv
  BY DEF RelayInv
<1> DEFINE q == conn(d)
<1>1. /\ d \in Slots /\ q \in Conns /\ conn(c) \in Conns /\ q # conn(c)
      /\ pc = "bcast" /\ d' = d + 1 /\ d \in Nat
      /\ UNCHANGED <<poolVars, pc, c, sock, link, taken>>
      /\ piece \in Conns \X Nat /\ piece[1] = conn(c) /\ piece[2] = taken[conn(c)]
  BY <1>0, SendFacts
<1>2. relayed' = [relayed EXCEPT ![q] = Append(relayed[q], piece)]
      /\ relayed \in [Conns -> Seq(Conns \X Nat)]
  BY <1>0, SendFacts DEF Inv, HostTypeOK
<1>3. \A s : conn(s)' = conn(s)
  BY <1>1 DEF conn, poolVars
<1>4. piece' = piece
  BY <1>1, <1>3 DEF piece
<1>5. q # NoConn
  BY <1>1, Consts
<1>6. \A i \in DOMAIN relayed[q] : relayed[q][i] # piece
  BY <1>1, <1>5 DEF RelayInv, CastSoFar, Given
<1> HIDE DEF q
<1>7. /\ relayed[q] \in Seq(Conns \X Nat) /\ Len(relayed[q]) \in Nat
      /\ DOMAIN relayed[q] = 1 .. Len(relayed[q])
      /\ \A i \in DOMAIN relayed[q] :
           /\ relayed[q][i] \in Conns \X Nat
           /\ relayed[q][i][1] \in Conns /\ relayed[q][i][2] \in Nat
           /\ relayed[q][i][2] <= taken[relayed[q][i][1]]
           /\ relayed[q][i][1] # q
  BY <1>0, <1>1, RelayTypes DEF RelayInv, GivenTaken
<1>8. /\ relayed'[q] = Append(relayed[q], piece)
      /\ \A p \in Conns : p # q => relayed'[p] = relayed[p]
  BY <1>1, <1>2
<1>9. /\ Len(relayed'[q]) = Len(relayed[q]) + 1
      /\ DOMAIN relayed'[q] = 1 .. Len(relayed[q]) + 1
      /\ relayed'[q][Len(relayed[q]) + 1] = piece
      /\ \A i \in 1 .. Len(relayed[q]) : relayed'[q][i] = relayed[q][i]
  BY <1>1, <1>7, <1>8
<1>10. \A i \in DOMAIN relayed'[q] :
         \/ i \in DOMAIN relayed[q] /\ relayed'[q][i] = relayed[q][i]
         \/ i = Len(relayed[q]) + 1 /\ relayed'[q][i] = piece
  BY <1>7, <1>9
<1>11. GivenTaken'
  <2>1. taken[conn(c)] \in Nat
    BY <1>0, <1>1 DEF Inv, HostTypeOK
  <2>2. \A i \in DOMAIN relayed'[q] :
          relayed'[q][i][1] # q /\ relayed'[q][i][2] <= taken[relayed'[q][i][1]]
    <3> SUFFICES ASSUME NEW i \in DOMAIN relayed'[q]
                 PROVE  relayed'[q][i][1] # q /\ relayed'[q][i][2] <= taken[relayed'[q][i][1]]
      OBVIOUS
    <3>1. CASE i \in DOMAIN relayed[q] /\ relayed'[q][i] = relayed[q][i]
      BY <1>7, <3>1
    <3>2. CASE relayed'[q][i] = piece
      BY <1>1, <2>1, <3>2
    <3>3. QED
      BY <1>10, <3>1, <3>2
  <2>3. \A p \in Conns : p # q => \A i \in DOMAIN relayed'[p] :
          relayed'[p][i][1] # p /\ relayed'[p][i][2] <= taken[relayed'[p][i][1]]
    BY <1>8 DEF RelayInv, GivenTaken
  <2>4. QED
    BY <1>1, <2>2, <2>3 DEF GivenTaken
<1>12. GivenInOrder'
  <2>1. ASSUME NEW i \in DOMAIN relayed'[q], NEW j \in DOMAIN relayed'[q],
               i < j, relayed'[q][i][1] = relayed'[q][j][1]
        PROVE  relayed'[q][i][2] < relayed'[q][j][2]
    <3>1. i \in DOMAIN relayed[q] /\ relayed'[q][i] = relayed[q][i]
      BY <1>7, <1>9, <2>1
    <3>2. CASE j \in DOMAIN relayed[q] /\ relayed'[q][j] = relayed[q][j]
      BY <1>1, <2>1, <3>1, <3>2 DEF RelayInv, GivenInOrder
    <3>3. CASE relayed'[q][j] = piece
      <4>1. relayed[q][i][1] = conn(c) /\ relayed[q][i][2] <= taken[conn(c)]
        BY <1>1, <1>7, <2>1, <3>1, <3>3
      <4>2. relayed[q][i][2] # taken[conn(c)]
        <5>1. relayed[q][i] = <<relayed[q][i][1], relayed[q][i][2]>>
          BY <1>7, <3>1
        <5>2. piece = <<conn(c), taken[conn(c)]>>
          BY DEF piece
        <5>3. QED
          BY <1>6, <3>1, <4>1, <5>1, <5>2
      <4>3. taken[conn(c)] \in Nat /\ relayed[q][i][2] \in Nat
        BY <1>0, <1>1, <1>7, <3>1 DEF Inv, HostTypeOK
      <4>4. QED
        BY <1>1, <3>1, <3>3, <4>1, <4>2, <4>3
    <3>4. QED
      BY <1>10, <3>2, <3>3
  <2>2. ASSUME NEW p \in Conns, p # q,
               NEW i \in DOMAIN relayed'[p], NEW j \in DOMAIN relayed'[p],
               i < j, relayed'[p][i][1] = relayed'[p][j][1]
        PROVE  relayed'[p][i][2] < relayed'[p][j][2]
    BY <1>8, <2>2 DEF RelayInv, GivenInOrder
  <2>3. QED
    BY <2>1, <2>2 DEF GivenInOrder
<1>13. CastSoFar'
  <2>1. ASSUME NEW s \in Slots, conn(s) \notin {NoConn, conn(c)}
        PROVE  Given(s)'
    <3>1. conn(s) \in Conns /\ s \in Nat
      BY <1>0, <2>1, ConnType, Consts
    <3>2. CASE s = d
      <4>1. LastIs(conn(s), piece)'
        <5>1. relayed'[q] # <<>>
          BY <1>7, <1>9
        <5>2. conn(s)' = q
          BY <1>3, <3>2 DEF q
        <5>3. QED
          BY <1>4, <1>9, <5>1, <5>2 DEF LastIs
      <4>2. ~(s >= d')
        BY <1>1, <3>2
      <4>3. QED
        BY <4>1, <4>2 DEF Given
    <3>3. CASE s # d
      <4>1. conn(s) # q
        BY <1>0, <1>1, <2>1, <3>3, SlotIsUnique DEF q
      <4>2. relayed'[conn(s)] = relayed[conn(s)]
        BY <1>8, <3>1, <4>1
      <4>3. Given(s)
        BY <1>1, <2>1 DEF RelayInv, CastSoFar
      <4>4. (s < d' <=> s < d) /\ (s >= d' => s >= d)
        BY <1>1, <3>1, <3>3
      <4>5. conn(s)' = conn(s) /\ link' = link
        BY <1>1, <1>3
      <4>6. LastIs(conn(s), piece)' <=> LastIs(conn(s), piece)
        BY <1>4, <4>2, <4>5 DEF LastIs
      <4>7. QED
        BY <1>4, <4>2, <4>3, <4>4, <4>5, <4>6 DEF Given
    <3>4. QED
      BY <3>2, <3>3
  <2>2. conn(c)' = conn(c)
    BY <1>1 DEF conn, poolVars
  <2>3. QED
    BY <1>3, <2>1, <2>2 DEF CastSoFar
<1>14. QED
  BY <1>11, <1>12, <1>13 DEF RelayInv

\* A peer's life only goes from open over eof to reset.
LEMMA PeerRelay ==
  ASSUME RelayInv, Inv', PeerStep
  PROVE  RelayInv'
<1>0. Inv
  BY DEF RelayInv
<1>1. PICK q \in Conns : \/ PeerConnect(q) \/ PeerSend(q) \/ PeerRead(q)
                         \/ PeerCloses(q) \/ PeerAborts(q) \/ PeerRejects(q)
  BY DEF PeerStep
<1>2. UNCHANGED <<hostVars, sock, taken, relayed>>
  BY <1>1 DEF PeerConnect, PeerSend, PeerRead, PeerCloses, PeerAborts, PeerRejects
<1>3. UNCHANGED <<poolVars, sock, c, d, pc, taken, relayed>>
  BY <1>2 DEF hostVars, progVars
<1>4. ASSUME NEW p \in Conns, Held(p), link'[p] \in {"open", "eof"}
      PROVE  link[p] \in {"open", "eof"}
  <2>1. link[p] \in Alive /\ link \in [Conns -> Links]
    BY <1>0, <1>4 DEF Inv, HostTypeOK, DescriptorsAccounted, AliveAccounted
  <2>2. CASE link' = link
    BY <1>4, <2>2
  <2>3. CASE PeerConnect(q)
    BY <1>4, <2>1, <2>3 DEF PeerConnect, Alive
  <2>4. CASE PeerCloses(q) \/ PeerAborts(q) \/ PeerRejects(q)
    BY <1>4, <2>1, <2>4 DEF PeerCloses, PeerAborts, PeerRejects
  <2>5. CASE PeerSend(q) \/ PeerRead(q)
    BY <1>4, <2>5 DEF PeerSend, PeerRead
  <2>6. QED
    BY <1>1, <2>3, <2>4, <2>5
<1>5. ASSUME NEW s \in Slots, conn(s) # NoConn, link'[conn(s)] \in {"open", "eof"}
      PROVE  link[conn(s)] \in {"open", "eof"}
  BY <1>0, <1>4, <1>5, ConnType
<1>6. QED
  BY <1>3, <1>5, CastRelay

\* The broadcast passes over the listener, the sender, the hole and the
\* connection that was reset.
LEMMA PassRelay ==
  ASSUME RelayInv, Inv', SkipExcluded \/ SendError
  PROVE  RelayInv'
<1>0. Inv
  BY DEF RelayInv
<1>1. /\ pc = "bcast" /\ d < n_clients /\ UNCHANGED <<poolVars, sock, c, pc, link, taken, relayed>>
      /\ d' = d + 1 /\ d \in Nat
  BY <1>0 DEF SkipExcluded, SendError, SendFails, Casting, NextDest, WorldUnchanged, peerVars,
              Inv, HostTypeOK
<1>2. ASSUME NEW s \in Slots, conn(s) \notin {NoConn, conn(c)}, s = d
      PROVE  link[conn(s)] \notin {"open", "eof"}
  <2>1. CASE SkipExcluded
    <3>1. fd[s] = Listener \/ fd[s] = fd[c]
      BY <1>2, <2>1 DEF SkipExcluded, Excluded
    <3>2. conn(s) = NoConn \/ conn(s) = conn(c)
      BY <3>1 DEF conn, Fds
    <3>3. QED
      BY <1>2, <3>2
  <2>2. CASE SendError
    BY <1>2, <2>2 DEF SendError, SendFails
  <2>3. QED
    BY <2>1, <2>2
<1>3. ASSUME NEW s \in Slots
      PROVE  (s >= d' => s >= d) /\ (s < d' => s < d \/ s = d)
  BY <1>1, Consts
<1>4. QED
  BY <1>1, <1>2, <1>3, CastRelay

LEMMA InitRelay == Init => RelayInv
<1> SUFFICES ASSUME Init PROVE RelayInv
  OBVIOUS
<1>1. Inv
  BY InitInv
<1>2. \A q \in Conns : DOMAIN relayed[q] = {}
  BY DEF Init
<1>3. GivenTaken /\ GivenInOrder
  BY <1>2 DEF GivenTaken, GivenInOrder
<1>4. CastSoFar
  BY DEF Init, CastSoFar
<1>5. QED
  BY <1>1, <1>3, <1>4 DEF RelayInv

LEMMA StepRelay == RelayInv /\ [Next]_vars => RelayInv'
<1> SUFFICES ASSUME RelayInv, [Next]_vars PROVE RelayInv'
  OBVIOUS
<1>1. Inv /\ Inv'
  BY StepInv DEF RelayInv
<1>2. CASE Startup \/ PollReturns \/ Accept \/ AcceptFails \/ RecvHangup \/ RecvError
  <2>1. UNCHANGED <<taken, relayed>> /\ pc' # "bcast"
    BY <1>2 DEF Startup, PollReturns, Accept, AcceptFails, RecvHangup, RecvError,
                NextSlot
  <2>2. QED
    BY <1>1, <2>1, QuietRelay
<1>3. CASE ScanEnds \/ SkipQuiet \/ CastEnds
  <2>1. UNCHANGED <<taken, relayed>> /\ pc' # "bcast"
    BY <1>3 DEF ScanEnds, LeaveScanAt, SkipQuiet, CastEnds, BackToScan, NextSlot,
                WorldUnchanged
  <2>2. QED
    BY <1>1, <2>1, QuietRelay
<1>4. CASE HostDies
  <2>1. UNCHANGED <<taken, relayed>> /\ pc' # "bcast"
    BY <1>4 DEF HostDies, StartupFails, PollTimesOut, PollFails, SendKilled, CrashInLog, Die,
                WorldUnchanged
  <2>2. QED
    BY <1>1, <2>1, QuietRelay
<1>5. CASE Recv
  BY <1>1, <1>5, RecvRelay
<1>6. CASE Send
  BY <1>1, <1>6, SendRelay
<1>7. CASE SkipExcluded \/ SendError
  BY <1>1, <1>7, PassRelay
<1>8. CASE PeerStep
  BY <1>1, <1>8, PeerRelay
<1>9. CASE UNCHANGED vars
  <2>1. UNCHANGED <<poolVars, sock, c, d, pc, link, taken, relayed>>
    BY <1>9 DEF vars, progVars, peerVars
  <2>2. QED
    BY <1>1, <2>1, CastRelay
<1>10. QED
  BY <1>2, <1>3, <1>4, <1>5, <1>6, <1>7, <1>8, <1>9 DEF Next, HostNext, HostStep

\* Whatever clients do, each is given the others' pieces in the order they were
\* taken, each at most once, and never its own.
THEOREM RelayIsInOrder == Spec => []RelayInOrder
<1>1. RelayInv => RelayInOrder
  BY DEF RelayInv, GivenTaken, GivenInOrder, RelayInOrder, Room!HeardInOrder,
         Room!HeardFromOthers
<1>2. QED
  BY <1>1, InitRelay, StepRelay, PTL DEF Spec

\* A broadcast that reached slot d has served everybody below d that can be
\* written to, and nobody from d on.
THEOREM BroadcastReachesAll == Spec => []BroadcastPrefix
<1>1. RelayInv => BroadcastPrefix
  <2> SUFFICES ASSUME RelayInv, pc = "bcast", NEW s \in Slots,
                      conn(s) \notin {NoConn, conn(c)}
               PROVE  /\ s < d /\ link[conn(s)] \in {"open", "eof"} => LastIs(conn(s), piece)
                      /\ s >= d => ~LastIs(conn(s), piece)
    BY DEF BroadcastPrefix, LastIs
  <2>1. Given(s) /\ Inv
    BY DEF RelayInv, CastSoFar
  <2>2. conn(s) \in Conns
    BY <2>1, ConnType
  <2>3. Len(relayed[conn(s)]) \in Nat /\ DOMAIN relayed[conn(s)] = 1 .. Len(relayed[conn(s)])
        /\ relayed[conn(s)] \in Seq(Conns \X Nat)
    BY <2>1, <2>2, RelayTypes
  <2>4. relayed[conn(s)] # <<>> => Len(relayed[conn(s)]) \in DOMAIN relayed[conn(s)]
    BY <2>3
  <2>5. QED
    BY <2>1, <2>4 DEF Given, LastIs
<1>2. QED
  BY <1>1, InitRelay, StepRelay, PTL DEF Spec

-----------------------------------------------------------------------------
(* Each step of the host is one of the room, or none.                      *)

\* The members are the connections behind a descriptor, also after a step.
LEMMA MemberHeld == Inv => \A q \in Conns : q \in Members <=> Held(q)
<1> SUFFICES ASSUME Inv, NEW q \in Conns
             PROVE  q \in Members <=> Held(q)
  OBVIOUS
<1>1. ASSUME NEW s \in Slots, conn(s) = q PROVE Held(q)
  BY <1>1, ConnType, Consts
<1>2. ASSUME NEW f \in Fds, sock[f] = q PROVE \E s \in Slots : conn(s) = q
  <2>1. PICK s \in Slots : fd[s] = f
    BY <1>2, Consts DEF Inv, DescriptorsAccounted, OpenIffListed
  <2>2. QED
    BY <1>2, <2>1 DEF conn
<1>3. QED
  BY <1>1, <1>2 DEF Members, Held

LEMMA MemberHeldNext == Inv' => (\A q \in Conns : q \in Members <=> Held(q))'
BY MemberHeld, PTL

\* Every connected slot but the listener's is one member.
LEMMA MembersCounted ==
  ASSUME Inv, pc \notin {"start", "exit"}
  PROVE  /\ IsFiniteSet(Members) /\ Cardinality(Members) \in Nat
         /\ Cardinality(Connected) = Cardinality(Members) + 1
<1>1. IsFiniteSet(Connected) /\ 0 \in Connected /\ fd[0] = Listener
  <2>1. fd[0] = Listener
    BY DEF Inv, HostInv, ListenerFirst
  <2>2. 0 \in Connected
    BY <2>1, Consts DEF Connected, Inv, HostInv, PoolInv, SlotsAgree
  <2>3. QED
    BY <2>1, <2>2, SlotSets
<1> DEFINE Seats == Connected \ {0}
           sit   == [s \in Seats |-> conn(s)]
<1>2. \A s \in Seats : s \in Slots /\ fd[s] # Listener /\ conn(s) \in Conns /\ conn(s) # NoConn
  <2> SUFFICES ASSUME NEW s \in Seats
               PROVE  s \in Slots /\ fd[s] # Listener /\ conn(s) \in Conns /\ conn(s) # NoConn
    OBVIOUS
  <2>1. fd[s] # Listener
    BY <1>1 DEF Inv, HostInv, OneSlotEach
  <2>2. QED
    BY <2>1, OpenSlot
<1>3. \A s, t \in Seats : conn(s) = conn(t) => s = t
  BY <1>2, DistinctConns
<1>4. \A s \in Seats : conn(s) \in Members
  BY <1>2 DEF Members
<1>5. ASSUME NEW q \in Members PROVE \E s \in Seats : conn(s) = q
  <2>1. PICK s \in Slots : conn(s) = q
    BY DEF Members
  <2>2. conn(s) # NoConn
    BY <2>1, Consts DEF Members
  <2>3. s \in Connected /\ fd[s] # Listener
    BY <2>2, SlotOfConn
  <2>4. QED
    BY <1>1, <2>1, <2>3
<1>6. sit \in Bijection(Seats, Members)
  <2>1. sit \in [Seats -> Members] /\ \A s \in Seats : sit[s] = conn(s)
    BY <1>4
  <2> HIDE DEF sit, Seats
  <2>2. \A s, t \in Seats : sit[s] = sit[t] => s = t
    BY <1>3, <2>1
  <2>3. \A q \in Members : \E s \in Seats : sit[s] = q
    BY <1>5, <2>1
  <2>4. QED
    BY <2>1, <2>2, <2>3, Fun_IsBij, Zenon
<1>7. IsFiniteSet(Seats) /\ Cardinality(Connected) = Cardinality(Seats) + 1
      /\ Cardinality(Seats) \in Nat
  <2>1. IsFiniteSet(Seats) /\ Cardinality(Seats) = Cardinality(Connected) - 1
    BY <1>1, FS_RemoveElement
  <2>2. Cardinality(Connected) \in Nat /\ Cardinality(Seats) \in Nat
    BY <1>1, <2>1, FS_CardinalityType
  <2>3. QED
    BY <2>1, <2>2
<1>8. ExistsBijection(Seats, Members)
  BY <1>6 DEF ExistsBijection
<1> HIDE DEF Seats
<1>9. IsFiniteSet(Members) /\ Cardinality(Members) = Cardinality(Seats)
  BY <1>7, <1>8, FS_Bijection
<1>10. QED
  BY <1>7, <1>9

\* Steps that open and close nothing.
LEMMA SameRoom ==
  ASSUME UNCHANGED <<fd, sock>>, \A q \in Conns : link'[q] = "closed" <=> link[q] = "closed"
  PROVE  Members' = Members /\ Gone' = Gone
BY DEF Members, Gone, conn

LEMMA InitRoom == Init => Room!RoomInit
<1> SUFFICES ASSUME Init PROVE Room!RoomInit
  OBVIOUS
<1>1. \A s \in Slots : conn(s) = NoConn
  BY Consts DEF Init, clients_init, conn, Fds
<1>2. Members = {} /\ Gone = {}
  BY <1>1, Consts DEF Init, Members, Gone
<1>3. QED
  BY <1>2 DEF Init, Room!RoomInit

\* The room counts with the Cardinality of the host.
LEMMA RoomCardinality == \A S : Room!Cardinality(S) = Cardinality(S)
BY DEF Room!Cardinality, Cardinality

\* Accepting is joining if there is room, and being turned away if not.
LEMMA AcceptRoom ==
  ASSUME Inv, Inv', Accept
  PROVE  \E q \in Conns : Room!Join(q) \/ Room!TurnAway(q)
<1>1. PICK q \in Conns : q = Head(backlog)
  BY QueueTail DEF Accept
<1>2. PICK f \in FreeFds : connect_client(f, q)
  BY <1>1 DEF Accept
<1>3. Queued(q)
  BY <1>1, QueueTail DEF Accept
<1>4. link[q] \in Alive /\ ~Held(q)
  BY <1>3 DEF Inv, DescriptorsAccounted, AliveAccounted
<1>5. q \notin Members /\ q \notin Gone
  BY <1>4, MemberHeld DEF Gone, Alive
<1>6. UNCHANGED <<taken, relayed>> /\ pc = "scan" /\ pc' = "scan"
  BY DEF Accept, AtListener, Scanning, NextSlot
<1>7. /\ Cardinality(Members) \in Nat
      /\ n_clients = Cardinality(Members) + 1 /\ n_clients <= MAX_CLIENTS
      /\ MAX_CLIENTS \in Nat
  BY <1>6, MembersCounted, SlotSets, PoolAssumption DEF Inv, HostInv, PoolInv, CountMatches
<1>8. AddFails => n_clients = MAX_CLIENTS
  <2>1. Free = {} => n_clients = MAX_CLIENTS
    <3>1. ASSUME Free = {} PROVE Connected = Slots
      BY <3>1 DEF Free, Connected
    <3>2. QED
      BY <3>1, SlotSets DEF Inv, HostInv, PoolInv, CountMatches
  <2>2. QED
    BY <1>7, <2>1 DEF AddFails
<1>9. ~AddFails => n_clients < MAX_CLIENTS
  BY <1>7 DEF AddFails
<1>10. CASE AddFails
  <2>1. UNCHANGED <<fd, sock>> /\ link' = [link EXCEPT ![q] = "closed"]
    BY <1>2, <1>10 DEF connect_client, client_add, poolVars
  <2>2. Members' = Members
    BY <2>1 DEF Members, conn
  <2>3. Gone' = Gone \cup {q}
    <3>1. \A p \in Conns : link'[p] = IF p = q THEN "closed" ELSE link[p]
      BY <2>1 DEF Inv, HostTypeOK
    <3>2. QED
      BY <3>1 DEF Gone
  <2>4. Cardinality(Members) >= MAX_CLIENTS - 1
    BY <1>7, <1>8, <1>10
  <2>5. QED
    BY <1>5, <1>6, <2>2, <2>3, <2>4, RoomCardinality DEF Room!TurnAway
<1>11. CASE ~AddFails
  <2>1. sock' = [sock EXCEPT ![f] = q] /\ link' = link /\ f \in Fds /\ sock[f] = NoConn
    BY <1>2, <1>11 DEF connect_client, FreeFds, Inv, HostTypeOK
  <2>2. Gone' = Gone
    BY <2>1 DEF Gone
  <2>3. \A p \in Conns : Held(p)' <=> (Held(p) \/ p = q)
    <3>1. \A g \in Fds : sock'[g] = IF g = f THEN q ELSE sock[g]
      BY <2>1 DEF Inv, HostTypeOK
    <3>2. QED
      BY <2>1, <3>1, Consts DEF Held
  <2>4. Members' = Members \cup {q}
    <3>1. \A p \in Conns : p \in Members' <=> Held(p)'
      BY MemberHeldNext
    <3>2. Members \subseteq Conns /\ Members' \subseteq Conns
      BY DEF Members
    <3>3. QED
      BY <2>3, <3>1, <3>2, MemberHeld
  <2>5. Cardinality(Members) < MAX_CLIENTS - 1
    BY <1>7, <1>9, <1>11
  <2>6. QED
    BY <1>5, <1>6, <2>2, <2>4, <2>5, RoomCardinality DEF Room!Join
<1>12. QED
  BY <1>10, <1>11

\* Disconnecting a client is leaving.
LEMMA DisconnectRoom ==
  ASSUME Inv, Inv', AtClient, disconnect_client(c), UNCHANGED <<taken, relayed>>
  PROVE  \E q \in Conns : Room!Leave(q)
<1>1. c \in Connected /\ fd[c] # Listener
  BY ScanSlot DEF AtClient
<1>2. PICK q \in Conns : q = conn(c) /\ q = sock[fd[c]] /\ fd[c] \in Fds /\ c \in Slots
  BY <1>1, OpenSlot
<1>3. /\ \A g \in Fds : sock'[g] = IF g = fd[c] THEN NoConn ELSE sock[g]
      /\ \A p \in Conns : link'[p] = IF p = q THEN "closed" ELSE link[p]
  BY <1>2 DEF disconnect_client, CloseSocket
<1>4. Gone' = Gone \cup {q}
  BY <1>2, <1>3 DEF Gone
<1>5. \A p \in Conns : Held(p)' <=> (Held(p) /\ p # q)
  <2>1. \A g \in Fds : sock[g] = q => g = fd[c]
    BY <1>2, Consts DEF Inv, DescriptorsAccounted, OneFdEach
  <2>2. QED
    BY <1>2, <1>3, <2>1, Consts DEF Held
<1>6. q \in Members /\ Members \subseteq Conns /\ Members' \subseteq Conns
  BY <1>2 DEF Members
<1>7. Members' = Members \ {q}
  BY <1>5, <1>6, MemberHeld, MemberHeldNext
<1>8. QED
  BY <1>4, <1>6, <1>7 DEF Room!Leave

\* Receiving a piece is saying it.
LEMMA RecvRoom ==
  ASSUME Inv, Recv
  PROVE  \E q \in Conns : Room!Say(q)
<1>1. PICK q \in Conns : q = conn(c)
  BY ConnType DEF Recv
<1>2. UNCHANGED <<fd, sock, link, relayed>> /\ taken' = [taken EXCEPT ![q] = taken[q] + 1]
  BY <1>1 DEF Recv, peerVars, poolVars
<1>3. Members' = Members /\ Gone' = Gone
  BY <1>2, SameRoom
<1>4. q \in Members
  <2>1. c \in Connected
    BY ScanSlot DEF Recv, AtClient
  <2>2. QED
    BY <1>1, <2>1 DEF Members, Connected
<1>5. QED
  BY <1>2, <1>3, <1>4 DEF Room!Say

\* Sending a piece is hearing it, for the first time.
LEMMA SendRoom ==
  ASSUME RelayInv, Send
  PROVE  \E q, speaker \in Conns : Room!Hear(q, speaker)
<1>0. Inv
  BY DEF RelayInv
<1>1. PICK q \in Conns, speaker \in Conns : q = conn(d) /\ speaker = conn(c) /\ q # speaker
  BY <1>0, SendFacts
<1>2. /\ d \in Slots /\ pc = "bcast" /\ d \in Nat /\ taken[speaker] > 0
      /\ UNCHANGED <<fd, sock, link, taken>>
      /\ relayed' = [relayed EXCEPT ![q] = Append(relayed[q], <<speaker, taken[speaker]>>)]
  BY <1>0, <1>1, SendFacts DEF poolVars, piece
<1>3. Members' = Members /\ Gone' = Gone
  BY <1>2, SameRoom
<1>4. q \in Members /\ speaker \in Members
  <2>1. c \in Slots
    <3>1. c < n_clients /\ c \in Nat
      BY <1>0, <1>2 DEF Inv, HostInv, SenderStays, HostTypeOK
    <3>2. n_clients \in Nat /\ n_clients <= MAX_CLIENTS
      BY <1>0, SlotSets DEF Inv, HostInv, PoolInv, CountMatches
    <3>3. QED
      BY <3>1, <3>2, PoolAssumption DEF Slots
  <2>2. QED
    BY <1>1, <1>2, <2>1 DEF Members
<1>5. \A i \in DOMAIN relayed[q] : relayed[q][i] # <<speaker, taken[speaker]>>
  BY <1>1, <1>2, Consts DEF RelayInv, CastSoFar, Given, piece
<1>6. Room!Hear(q, speaker)
  BY <1>1, <1>2, <1>3, <1>4, <1>5 DEF Room!Hear, Room!HasHeard
<1>7. QED
  BY <1>6

LEMMA StepRoom == RelayInv /\ RelayInv' /\ [Next]_vars => [Room!RoomNext]_(Room!roomVars)
<1> SUFFICES ASSUME RelayInv, RelayInv', [Next]_vars
             PROVE  Room!RoomNext \/ UNCHANGED <<Members, Gone, taken, relayed>>
  BY DEF Room!roomVars
<1>1. Inv /\ Inv'
  BY DEF RelayInv
<1>2. CASE Accept
  BY <1>1, <1>2, AcceptRoom DEF Room!RoomNext
<1>3. CASE RecvHangup \/ RecvError
  <2>1. AtClient /\ disconnect_client(c) /\ UNCHANGED <<taken, relayed>>
    BY <1>3 DEF RecvHangup, RecvError, RecvFails
  <2>2. QED
    BY <1>1, <2>1, DisconnectRoom DEF Room!RoomNext
<1>4. CASE Recv
  BY <1>1, <1>4, RecvRoom DEF Room!RoomNext
<1>5. CASE Send
  BY <1>5, SendRoom DEF Room!RoomNext
<1>6. CASE Startup
  <2>1. UNCHANGED <<sock, link, taken, relayed>>
    BY <1>6 DEF Startup, peerVars
  <2>2. \A q : Held(q)' <=> Held(q)
    BY <2>1 DEF Held
  <2>3. Members' = Members
    <3>1. Members \subseteq Conns /\ Members' \subseteq Conns
      BY DEF Members
    <3>2. QED
      BY <1>1, <2>2, <3>1, MemberHeld, MemberHeldNext
  <2>4. Gone' = Gone
    BY <2>1 DEF Gone
  <2>5. QED
    BY <2>1, <2>3, <2>4
<1>7. CASE PollReturns
  <2>1. UNCHANGED <<fd, sock, link, taken, relayed>>
    BY <1>7 DEF PollReturns, poll, peerVars
  <2>2. QED
    BY <2>1, SameRoom
<1>8. CASE AcceptFails
  <2>1. PICK q \in Conns : q = Head(backlog) /\ Queued(q)
    BY <1>1, <1>8, QueueTail DEF AcceptFails
  <2>2. UNCHANGED <<fd, sock, taken, relayed>> /\ link' = [link EXCEPT ![q] = "aborted"]
    BY <1>8, <2>1 DEF AcceptFails, poolVars
  <2>3. link[q] \in Alive /\ link \in [Conns -> Links]
    BY <1>1, <2>1 DEF Inv, HostTypeOK, DescriptorsAccounted, AliveAccounted
  <2>4. \A p \in Conns : link'[p] = "closed" <=> link[p] = "closed"
    BY <2>2, <2>3 DEF Alive
  <2>5. QED
    BY <2>2, <2>4, SameRoom
<1>9. CASE ScanEnds \/ SkipQuiet \/ CastEnds \/ SkipExcluded \/ SendError \/ HostDies
  <2>1. WorldUnchanged
    BY <1>9 DEF ScanEnds, LeaveScanAt, SkipQuiet, CastEnds, BackToScan, SkipExcluded, SendError,
                HostDies, StartupFails, PollTimesOut, PollFails, SendKilled, CrashInLog
  <2>2. UNCHANGED <<fd, sock, link, taken, relayed>>
    BY <2>1 DEF WorldUnchanged, poolVars, peerVars
  <2>3. QED
    BY <2>2, SameRoom
<1>10. CASE PeerStep
  <2>1. PICK q \in Conns : \/ PeerConnect(q) \/ PeerSend(q) \/ PeerRead(q)
                           \/ PeerCloses(q) \/ PeerAborts(q) \/ PeerRejects(q)
    BY <1>10 DEF PeerStep
  <2>2. UNCHANGED <<fd, sock, taken, relayed>>
    BY <2>1 DEF PeerConnect, PeerSend, PeerRead, PeerCloses, PeerAborts, PeerRejects, hostVars,
                poolVars
  <2>3. \/ link' = link
        \/ \E l \in Alive : link[q] # "closed" /\ link' = [link EXCEPT ![q] = l]
    BY <2>1 DEF PeerConnect, PeerSend, PeerRead, PeerCloses, PeerAborts, PeerRejects, Alive
  <2>4. \A p \in Conns : link'[p] = "closed" <=> link[p] = "closed"
    BY <1>1, <2>3 DEF Alive, Inv, HostTypeOK
  <2>5. QED
    BY <2>2, <2>4, SameRoom
<1>11. CASE UNCHANGED vars
  <2>1. UNCHANGED <<fd, sock, link, taken, relayed>>
    BY <1>11 DEF vars, poolVars, peerVars
  <2>2. QED
    BY <2>1, SameRoom
<1>12. QED
  BY <1>2, <1>3, <1>4, <1>5, <1>6, <1>7, <1>8, <1>9, <1>10, <1>11
     DEF Next, HostNext, HostStep

\* Seen through who is connected, what was taken and what was relayed, the host
\* is a chat room of MAX_CLIENTS-1 seats, whatever its loops, slots and
\* descriptors do underneath.
THEOREM HostImplementsRoom == Spec => ImplementsRoom
<1>1. Init => Room!RoomInit
  BY InitRoom
<1>2. RelayInv /\ RelayInv' /\ [Next]_vars => [Room!RoomNext]_(Room!roomVars)
  BY StepRoom
<1>3. QED
  BY <1>1, <1>2, InitRelay, StepRelay, PTL DEF Spec, ImplementsRoom, Room!RoomSpec

-----------------------------------------------------------------------------
(* What the host inherits from the room.                                   *)

RoomFacts == INSTANCE ChatRoomProofs WITH
               Capacity <- MAX_CLIENTS - 1,
               members <- Members, gone <- Gone, said <- taken, heard <- relayed

\* The host never serves more than MAX_CLIENTS-1 clients, and none whose socket
\* it closed: the room's bound, which the host keeps because it implements it.
THEOREM HostKeepsCapacity == Spec => []Room!RoomBounded
<1>1. MAX_CLIENTS - 1 \in Nat
  BY PoolAssumption
<1>2. RoomFacts!RoomSpec => []RoomFacts!RoomBounded
  BY <1>1, RoomFacts!RoomKeepsCapacity
<1>3. \A S : Room!Cardinality(S) = RoomFacts!Cardinality(S)
  BY DEF Room!Cardinality, RoomFacts!Cardinality, Room!IsFiniteSet,
         RoomFacts!IsFiniteSet
<1>4. Room!RoomInit => RoomFacts!RoomInit
  BY DEF Room!RoomInit, RoomFacts!RoomInit
<1>5. [Room!RoomNext]_(Room!roomVars) => [RoomFacts!RoomNext]_(RoomFacts!roomVars)
  BY <1>3 DEF Room!RoomNext, RoomFacts!RoomNext, Room!roomVars,
     RoomFacts!roomVars, Room!Join, RoomFacts!Join, Room!TurnAway,
     RoomFacts!TurnAway, Room!Leave, RoomFacts!Leave, Room!Say, RoomFacts!Say,
     Room!Hear, RoomFacts!Hear, Room!HasHeard, RoomFacts!HasHeard
<1>6. RoomFacts!RoomBounded => Room!RoomBounded
  BY <1>3 DEF Room!RoomBounded, RoomFacts!RoomBounded
<1>7. QED
  BY <1>2, <1>4, <1>5, <1>6, HostImplementsRoom, PTL
     DEF ImplementsRoom, Room!RoomSpec, RoomFacts!RoomSpec
=============================================================================
