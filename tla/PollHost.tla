------------------------------ MODULE PollHost ------------------------------
(***************************************************************************)
(* The chat host: main.c's poll loop over the pool of ClientPool, with     *)
(* connect_client, disconnect_client and broadcast_all of host.c, against  *)
(* the part of the kernel and of the peers it can observe.                 *)
(*                                                                         *)
(* The host is one thread, so a step here is one system call with the      *)
(* straight-line code around it; the peers act between any two steps.  A   *)
(* "piece" is what one recv returns (up to MAX_DATA_LEN bytes): the n-th   *)
(* piece of connection q is <<q, n>>, and the bytes themselves are left    *)
(* out.  Sockets block, as get_listener_socket and accept make them: a     *)
(* step that would block is not enabled.                                   *)
(***************************************************************************)
EXTENDS ClientPool, Sequences

CONSTANTS
  Listener,    \* the descriptor get_listener_socket returns
  Conns,       \* connections, each made once
  NoConn,      \* behind a descriptor that is not open
  BACKLOG,     \* listen(listener_fd, 10)
  MaxSend,     \* bound: pieces a peer sends
  SndBuf,      \* pieces the kernel buffers towards a peer that does not read
  BadFormat    \* what LOG_APPEND("errno: %s\n", errno) may do with an int
               \* for %s: undefined behaviour, "crash" or "garbled" output

ASSUME HostAssumption ==
  /\ Listener \in Descriptors
  /\ NoConn \notin Conns
  /\ BACKLOG \in Nat \ {0}
  /\ MaxSend \in Nat
  /\ SndBuf \in Nat \ {0}
  /\ BadFormat \subseteq {"crash", "garbled"}
  /\ BadFormat # {}
  /\ IsFiniteSet(Descriptors)
  /\ Cardinality(Descriptors) > MAX_CLIENTS   \* no EMFILE

VARIABLES
  pc,        \* where main is: "start", "poll", "scan", "bcast", "exit"
  c,         \* the loop index of main's scan
  d,         \* the loop index of broadcast_all
  exit,      \* why the process ended
  sock,      \* the connection behind each descriptor, or NoConn
  backlog,   \* connections completed by the kernel, not yet accepted
  link,      \* the life of each connection as the host's kernel sees it
  sent,      \* pieces that reached the host's kernel from each peer
  taken,     \* pieces the host received from each connection
  relayed,   \* pieces the host sent on each connection, a history
  unread     \* how many of those the peer has not read yet

progVars == <<pc, c, d, exit>>
hostVars == <<progVars, poolVars>>
peerVars == <<link, sent, unread>>
vars == <<poolVars, progVars, sock, backlog, peerVars, taken, relayed>>

Fds     == Descriptors \ {Listener}
FreeFds == {f \in Fds : sock[f] = NoConn}

\* "idle" before connect; then, first in the backlog and later behind a
\* descriptor, "open", "eof" after the peer's FIN or "reset" after its RST;
\* "closed" by the host; "aborted" when accept reports it dead.
Alive  == {"open", "eof", "reset"}
Links  == Alive \cup {"idle", "closed", "aborted"}
Exits  == {"none", "fatal", "timeout", "crash", "sigpipe"}

conn(s) == IF fd[s] \in Fds THEN sock[fd[s]] ELSE NoConn

Readable(q) == sent[q] > taken[q] \/ link[q] \in {"eof", "reset"}

\* A descriptor that is not open is ready too: POLLNVAL.
Ready ==
  {f \in Fds : sock[f] = NoConn \/ Readable(sock[f])}
    \cup (IF backlog = <<>> THEN {} ELSE {Listener})

WorldUnchanged == UNCHANGED <<poolVars, sock, backlog, peerVars, taken, relayed>>

Die(why) == pc' = "exit" /\ exit' = why /\ UNCHANGED <<c, d>>

Init ==
  /\ clients_init
  /\ pc = "start" /\ c = 0 /\ d = 0 /\ exit = "none"
  /\ sock = [f \in Fds |-> NoConn]
  /\ backlog = <<>>
  /\ link = [q \in Conns |-> "idle"]
  /\ sent = [q \in Conns |-> 0]
  /\ taken = [q \in Conns |-> 0]
  /\ relayed = [q \in Conns |-> <<>>]
  /\ unread = [q \in Conns |-> 0]

-----------------------------------------------------------------------------
(* main: start-up and poll                                                 *)

Startup ==
  /\ pc = "start"
  /\ client_add(Listener)
  /\ pc' = "poll"
  /\ UNCHANGED <<c, d, exit, sock, backlog, peerVars, taken, relayed>>

\* pool_malloc_guard_fatal and every LOG_FATAL of get_listener_socket.
StartupFails ==
  /\ pc = "start"
  /\ Die("fatal")
  /\ WorldUnchanged

Polling == pc = "poll"

\* poll returns the number of ready descriptors.
PollReturns ==
  /\ Polling
  /\ \E s \in Polled : fd[s] \in Ready
  /\ poll(Ready)
  /\ pc' = "scan" /\ c' = 0
  /\ UNCHANGED <<d, exit, sock, backlog, peerVars, taken, relayed>>

\* poll returns 0: nothing happened on the polled descriptors for TIMEOUT ms.
PollTimesOut ==
  /\ Polling
  /\ \A s \in Polled : fd[s] \notin Ready
  /\ Die("timeout")
  /\ WorldUnchanged

\* poll returns -1.
PollFails ==
  /\ Polling
  /\ Die("fatal")
  /\ WorldUnchanged

-----------------------------------------------------------------------------
(* main: the scan                                                          *)

Scanning == pc = "scan" /\ c < n_clients
NextSlot == pc' = "scan" /\ c' = c + 1 /\ UNCHANGED <<d, exit>>

LeaveScanAt(i) ==
  /\ pc = "scan" /\ c >= i
  /\ pc' = "poll"
  /\ UNCHANGED <<c, d, exit>> /\ WorldUnchanged

ScanEnds_Early == LeaveScanAt(n_clients - 1)   \* mutant: may leave too early

ScanEnds == LeaveScanAt(n_clients)

SkipQuiet ==
  /\ Scanning /\ revents[c] = 0
  /\ NextSlot
  /\ WorldUnchanged

AtListener == Scanning /\ revents[c] # 0 /\ fd[c] = Listener
AtClient   == Scanning /\ revents[c] # 0 /\ fd[c] # Listener

connect_client_Leaks(f, q) ==    \* mutant: one that does not fit stays open
  /\ client_add(f)
  /\ sock' = [sock EXCEPT ![f] = q]
  /\ UNCHANGED link

\* accept gives the lowest free descriptor; connect_client puts it into the
\* pool, or closes it when client_add fails.
connect_client(f, q) ==
  /\ client_add(f)
  /\ sock' = IF AddFails THEN sock ELSE [sock EXCEPT ![f] = q]
  /\ link' = [link EXCEPT ![q] = IF AddFails THEN "closed" ELSE @]

Accept ==
  /\ AtListener
  /\ backlog # <<>>
  /\ \E f \in FreeFds : IsFirst(f, FreeFds) /\ connect_client(f, Head(backlog))
  /\ backlog' = Tail(backlog)
  /\ NextSlot
  /\ UNCHANGED <<sent, unread, taken, relayed>>

\* accept returns -1 because the queued connection was aborted; connect_client
\* logs it and returns.
AcceptFails ==
  /\ AtListener
  /\ backlog # <<>>
  /\ link' = [link EXCEPT ![Head(backlog)] = "aborted"]
  /\ backlog' = Tail(backlog)
  /\ NextSlot
  /\ UNCHANGED <<poolVars, sock, sent, unread, taken, relayed>>

CloseSocket(s) ==
  /\ sock' = [f \in Fds |-> IF f = fd[s] THEN NoConn ELSE sock[f]]
  /\ link' = [q \in Conns |-> IF q = conn(s) THEN "closed" ELSE link[q]]

disconnect_client_KeepsSlot(s) ==    \* mutant: the slot stays taken
  CloseSocket(s) /\ UNCHANGED poolVars

disconnect_client(s) == CloseSocket(s) /\ client_remove(fd[s])

\* recv returns a piece: broadcast_all starts.
Recv ==
  /\ AtClient /\ conn(c) # NoConn
  /\ sent[conn(c)] > taken[conn(c)]
  /\ taken' = [taken EXCEPT ![conn(c)] = @ + 1]
  /\ pc' = "bcast" /\ d' = 0
  /\ UNCHANGED <<poolVars, c, exit, sock, backlog, peerVars, relayed>>

\* recv returns 0.  After a reset it does so once the error was reported.
RecvHangup ==
  /\ AtClient /\ conn(c) # NoConn
  /\ sent[conn(c)] = taken[conn(c)]
  /\ link[conn(c)] \in {"eof", "reset"}
  /\ disconnect_client(c)
  /\ NextSlot
  /\ UNCHANGED <<backlog, sent, unread, taken, relayed>>

\* recv returns -1: the connection was reset, or the descriptor is not open.
RecvFails ==
  /\ AtClient
  /\ conn(c) # NoConn => link[conn(c)] = "reset" /\ sent[conn(c)] = taken[conn(c)]

RecvError ==
  /\ RecvFails
  /\ "garbled" \in BadFormat
  /\ disconnect_client(c)
  /\ NextSlot
  /\ UNCHANGED <<backlog, sent, unread, taken, relayed>>

-----------------------------------------------------------------------------
(* broadcast_all, called from slot c with the piece just received          *)

Casting  == pc = "bcast" /\ d < n_clients
piece    == <<conn(c), taken[conn(c)]>>
NextDest == d' = d + 1 /\ UNCHANGED <<pc, c, exit>>

\* Mutants: the sender hears itself; slots up to the sender's are left out.
Excluded_ListenerOnly == fd[d] = Listener
Excluded_UpToSender   == fd[d] = Listener \/ d <= c

Excluded == fd[d] \in {Listener, fd[c]}

SkipExcluded ==
  /\ Casting /\ Excluded
  /\ NextDest
  /\ WorldUnchanged

Writable_Always(q) == link[q] \in {"open", "eof"}    \* mutant: never blocks
Writable(q) == link[q] \in {"open", "eof"} /\ unread[q] < SndBuf

SendThen(next) ==
  /\ Casting /\ ~Excluded /\ conn(d) # NoConn
  /\ Writable(conn(d))
  /\ relayed' = [relayed EXCEPT ![conn(d)] = Append(@, piece)]
  /\ unread' = [unread EXCEPT ![conn(d)] = @ + 1]
  /\ d' \in next
  /\ UNCHANGED <<poolVars, pc, c, exit, sock, backlog, link, sent, taken>>

Send_Again == SendThen({d, d + 1})    \* mutant: the same piece may go out twice

\* send blocks while the peer's buffer is full; a peer that sent FIN may still
\* be written to.
Send == SendThen({d + 1})

\* send returns -1: the connection was reset, or the descriptor is not open.
SendFails ==
  /\ Casting /\ ~Excluded
  /\ conn(d) # NoConn => link[conn(d)] = "reset"

SendError ==
  /\ SendFails
  /\ "garbled" \in BadFormat
  /\ NextDest
  /\ WorldUnchanged

\* A send on a reset connection raises SIGPIPE, which nothing handles.
SendKilled ==
  /\ SendFails /\ conn(d) # NoConn
  /\ Die("sigpipe")
  /\ WorldUnchanged

BackToScan(i) ==
  /\ pc = "bcast" /\ d >= n_clients
  /\ pc' = "scan" /\ c' = i
  /\ UNCHANGED <<d, exit>> /\ WorldUnchanged

CastEnds_Drains == BackToScan(c)    \* mutant: the same slot is read again

CastEnds == BackToScan(c + 1)

\* main.c:36 and host.c:225 give the int errno to %s.
CrashInLog ==
  /\ RecvFails \/ SendFails
  /\ "crash" \in BadFormat
  /\ Die("crash")
  /\ WorldUnchanged

-----------------------------------------------------------------------------
(* The peers and the network                                               *)

Running == pc # "exit"

PeerConnect(q) ==
  /\ Running /\ link[q] = "idle" /\ Len(backlog) < BACKLOG
  /\ link' = [link EXCEPT ![q] = "open"]
  /\ backlog' = Append(backlog, q)
  /\ UNCHANGED <<hostVars, sock, sent, unread, taken, relayed>>

PeerSend(q) ==
  /\ Running /\ link[q] = "open" /\ sent[q] < MaxSend
  /\ sent' = [sent EXCEPT ![q] = @ + 1]
  /\ UNCHANGED <<hostVars, sock, backlog, link, unread, taken, relayed>>

PeerRead(q) ==
  /\ Running /\ link[q] = "open" /\ unread[q] > 0
  /\ unread' = [unread EXCEPT ![q] = @ - 1]
  /\ UNCHANGED <<hostVars, sock, backlog, link, sent, taken, relayed>>

PeerCloses(q) ==
  /\ Running /\ link[q] = "open"
  /\ link' = [link EXCEPT ![q] = "eof"]
  /\ UNCHANGED <<hostVars, sock, backlog, sent, unread, taken, relayed>>

\* An abortive close, for instance with data unread.
PeerAborts(q) ==
  /\ Running /\ link[q] = "open"
  /\ link' = [link EXCEPT ![q] = "reset"]
  /\ UNCHANGED <<hostVars, sock, backlog, sent, unread, taken, relayed>>

\* A closed peer answers data with RST.
PeerRejects(q) ==
  /\ Running /\ link[q] = "eof" /\ unread[q] > 0
  /\ link' = [link EXCEPT ![q] = "reset"]
  /\ UNCHANGED <<hostVars, sock, backlog, sent, unread, taken, relayed>>

-----------------------------------------------------------------------------
HostStep ==
  \/ Startup \/ PollReturns \/ ScanEnds \/ SkipQuiet
  \/ Accept \/ AcceptFails \/ Recv \/ RecvHangup \/ RecvError
  \/ SkipExcluded \/ Send \/ SendError \/ CastEnds

HostDies ==
  StartupFails \/ PollTimesOut \/ PollFails \/ SendKilled \/ CrashInLog

PeerStep ==
  \E q \in Conns :
    \/ PeerConnect(q) \/ PeerSend(q) \/ PeerRead(q)
    \/ PeerCloses(q) \/ PeerAborts(q) \/ PeerRejects(q)

HostNext == HostStep \/ HostDies
Next     == HostNext \/ PeerStep

Spec == Init /\ [][Next]_vars

\* The host's thread runs whenever it can, clients read what they are sent,
\* and the kernel of a client that is gone refuses data.
Fairness ==
  /\ WF_vars(HostNext)
  /\ \A q \in Conns : WF_vars(PeerRead(q)) /\ WF_vars(PeerRejects(q))

FairSpec == Spec /\ Fairness

-----------------------------------------------------------------------------
(* What holds of the host's state                                          *)

HostTypeOK ==
  /\ PoolTypeOK
  /\ pc \in {"start", "poll", "scan", "bcast", "exit"}
  /\ c \in Nat /\ d \in Nat
  /\ exit \in Exits
  /\ sock \in [Fds -> Conns \cup {NoConn}]
  /\ backlog \in Seq(Conns)
  /\ link \in [Conns -> Links]
  /\ sent \in [Conns -> Nat]
  /\ taken \in [Conns -> Nat]
  /\ relayed \in [Conns -> Seq(Conns \X Nat)]
  /\ unread \in [Conns -> 0..SndBuf]

OneSlotEach == \A s, t \in Connected : fd[s] = fd[t] => s = t

\* The listener, added first and never removed, is the first slot polled.
ListenerFirst ==
  /\ pc = "start" => Connected = {}
  /\ pc \notin {"start", "exit"} => fd[0] = Listener

\* While a piece is broadcast, its sender is still where main found it.
SenderStays ==
  pc = "bcast" => /\ c < n_clients
                  /\ conn(c) # NoConn
                  /\ taken[conn(c)] > 0

\* The table is sound whatever the clients do: flags, descriptors and the
\* counter agree, no descriptor is listed twice, the listener stays polled,
\* and a broadcast's sender is not pulled from under it.
HostInv == PoolInv /\ OneSlotEach /\ ListenerFirst /\ SenderStays

Held(q)   == \E f \in Fds : sock[f] = q
Queued(q) == \E i \in DOMAIN backlog : backlog[i] = q

OpenIffListed  == \A f \in Fds : sock[f] # NoConn <=> \E s \in Slots : fd[s] = f
OneFdEach      == \A f, g \in Fds : sock[f] = sock[g] /\ sock[f] # NoConn => f = g
QueuedOnce     == \A i, j \in DOMAIN backlog : backlog[i] = backlog[j] => i = j
AliveAccounted ==
  \A q \in Conns :
    /\ link[q] \in Alive <=> (Held(q) \/ Queued(q))
    /\ ~(Held(q) /\ Queued(q))

\* No descriptor leaks and none is used after close: those that are open are
\* exactly those in the table, and a connection the kernel holds is either
\* in the backlog or behind one descriptor.
DescriptorsAccounted ==
  OpenIffListed /\ OneFdEach /\ QueuedOnce /\ AliveAccounted

\* A client keeps its slot until the host closes its socket: no accept takes
\* a slot that is in use, and no disconnect empties another one.
SlotsStay ==
  [][\A s \in Slots, q \in Conns :
       conn(s) = q /\ conn(s)' # q => link'[q] = "closed"]_vars

\* Main calls recv on open descriptors only, although a slot may be emptied
\* and filled during a scan and revents starts as whatever malloc left.
RecvOnlyOpen == AtClient => conn(c) # NoConn

\* With the pool size of host.h, send is never given the -1 of an emptied
\* slot; with four slots it would be.
NoHoleInBroadcast == MAX_CLIENTS <= 3 /\ Casting => fd[d] # NoFd

\* A call main is at returns: accept finds a connection and a descriptor,
\* recv a piece, an end or an error, send room or an error.
CanStep ==
  \/ pc \in {"start", "poll"}
  \/ pc = "scan" /\ (c >= n_clients \/ revents[c] = 0)
  \/ AtListener /\ backlog # <<>> /\ FreeFds # {}
  \/ AtClient /\ (RecvFails \/ (conn(c) # NoConn /\ Readable(conn(c))))
  \/ pc = "bcast" /\ d >= n_clients
  \/ Casting /\ (Excluded \/ SendFails \/ Writable(conn(d)))

\* send waits for a client that does not read.
SendBlocks ==
  /\ Casting /\ ~Excluded /\ conn(d) # NoConn
  /\ link[conn(d)] \in {"open", "eof"} /\ unread[conn(d)] = SndBuf

\* recv waits for a client that has said nothing: it was accepted into a slot
\* that poll has not looked at yet, and revents there is what malloc left.
RecvBlocks ==
  /\ AtClient /\ revents[c] = Leftover
  /\ conn(c) # NoConn /\ ~Readable(conn(c))

\* The one thread stands still in two places only: in send to a client whose
\* buffer is full, and in recv on what malloc left in a slot new to poll.  Not
\* in accept, not for want of a descriptor, and not in recv on anything that
\* poll reported, in this pass or before the slot was hidden and came back.
BlocksInTwoPlaces == pc # "exit" => CanStep \/ SendBlocks \/ RecvBlocks

\* A broadcast that reached slot d has given its piece to every other client
\* in a slot below d that can still be written to, and to nobody from d on.
BroadcastPrefix ==
  pc = "bcast" =>
    \A s \in Slots :
      conn(s) \notin {NoConn, conn(c)} =>
        LET got == relayed[conn(s)]
            has == got # <<>> /\ got[Len(got)] = piece
        IN /\ s < d /\ link[conn(s)] \in {"open", "eof"} => has
           /\ s >= d => ~has

-----------------------------------------------------------------------------
(* The host implements a chat room of MAX_CLIENTS-1 seats.                 *)

Members == {q \in Conns : \E s \in Slots : conn(s) = q}
Gone    == {q \in Conns : link[q] = "closed"}

Room == INSTANCE ChatRoom WITH
          Capacity <- MAX_CLIENTS - 1,
          members <- Members, gone <- Gone, said <- taken, heard <- relayed

\* Every step of the host and its peers is a step of the room or none.
ImplementsRoom == Room!RoomSpec

\* Clients get each other's pieces in order, once, and never their own, in
\* whatever order the host finds its sockets ready.
RelayInOrder == Room!HeardInOrder /\ Room!HeardFromOthers

-----------------------------------------------------------------------------
(* What the host eventually does, unless it dies of an error               *)

Died == exit \in {"fatal", "crash", "sigpipe"}

\* q sits in a slot beyond the prefix the loops look at.
IsStranded(q) == \E s \in Stranded : conn(s) = q

\* q waits to be accepted, to be received from, or to be disconnected.
Waiting(q) == link[q] \in Alive /\ (Queued(q) \/ Readable(q))

\* No client waits for ever, unless it is stranded: it is accepted or turned
\* away, what it sent is received, and once it hung up it is disconnected.
\* In particular poll does not time out on it, and no other client's traffic
\* keeps the host from it.
ClientServed ==
  \A q \in Conns : Waiting(q) ~> ~Waiting(q) \/ IsStranded(q) \/ Died

-----------------------------------------------------------------------------
(* What the source says of the host and the code does not keep             *)

\* host.c:173, "polling timed out, do data": the host ends for lack of data
\* only when no client's data waits.
TimeoutMeansIdle ==
  exit = "timeout" => \A s \in Slots : conn(s) # NoConn => ~Readable(conn(s))

\* host.h:18-19, "15 minutes", and host.c:173: the host waits for its clients in
\* poll, which ends the wait after TIMEOUT; what it calls then has an answer
\* ready, a piece or an end for recv and a connection for accept.
WaitsInPollOnly ==
  /\ AtClient => conn(c) # NoConn /\ Readable(conn(c))
  /\ AtListener => backlog # <<>>

\* log.h:59-60 keeps "exiting immediately" for FATAL; a failed recv or send
\* of one client is an ERR (main.c:35, host.c:224) and the host goes on.
ErrorsAreNotFatal == exit \notin {"crash", "sigpipe"}
=============================================================================
