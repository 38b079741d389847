---------------------------- MODULE ThreadedHost ----------------------------
(***************************************************************************)
(* The first host, probe/host-threaded.c: main accepts, one thread serves  *)
(* each client, one waits for signals.  They share RUN, CLIENT_COUNT and   *)
(* CLIENTS without a lock, and the descriptors of the process.             *)
(*                                                                         *)
(* A step makes at most one access to what is shared: Makefile.old builds  *)
(* without optimisation, so every statement loads CLIENT_COUNT afresh, and *)
(* its ++ and -- are a load and a store.  The thread that serves           *)
(* connection q is named q.  What the clients do is not a step of its own: *)
(* that data or an end of file arrived, or that a client is gone, shows    *)
(* when recv or send returns.  Left out: the bytes, and `id`,              *)
(* `is_connected` and `name`, which nothing reads.                         *)
(***************************************************************************)
EXTENDS Integers, FiniteSets

CONSTANTS
  MAX_CLIENTS,    \* 2 in the code
  Conns,          \* connections, and the threads that serve them
  Descriptors,    \* what accept may return
  NoConn,         \* no connection, no thread; thread_id starts as zero
  MayInterrupt    \* whether a signal may come

ASSUME ThreadedAssumption ==
  /\ MAX_CLIENTS \in Nat \ {0}
  /\ Descriptors \subseteq Nat
  /\ NoConn \notin Conns
  /\ MayInterrupt \in BOOLEAN

VARIABLES
  RUN, CLIENT_COUNT,
  thread_id, socket,    \* CLIENTS[s].thread_id, CLIENTS[s].socket
  pc,                   \* where main is
  client_socket,        \* main's descriptor in hand,
  current,              \* the connection behind it and its thread,
  reg,                  \* a loaded CLIENT_COUNT,
  i,                    \* and the index of join_all_threads
  tpc,                  \* where each thread is
  arg,                  \* its *client_socket
  n,                    \* its loop index
  treg,                 \* its loaded CLIENT_COUNT
  cancel,               \* "no", "pending", or "acted": unwinding
  sock,                 \* the connection behind each descriptor, or NoConn
  accepted              \* the connections accepted so far

tableVars  == <<thread_id, socket>>
mainVars   == <<pc, client_socket, current, reg, i>>
threadVars == <<tpc, arg, n, treg, cancel>>
netVars    == <<sock, accepted>>
vars == <<RUN, CLIENT_COUNT, tableVars, mainVars, threadVars, netVars>>

NoFd  == -1
Slots == 0 .. MAX_CLIENTS-1

FreeFds == {f \in Descriptors : sock[f] = NoConn}
IsOpen(f) == f \in Descriptors /\ sock[f] # NoConn
Closed(f) == [g \in Descriptors |-> IF g = f THEN NoConn ELSE sock[g]]

Ended   == pc \in {"exit", "crash", "sigpipe"}
Running == ~Ended

Unused == [q \in Conns |-> 0]
NoFds == [q \in Conns |-> NoFd]

Init ==
  /\ RUN = TRUE /\ CLIENT_COUNT = 0
  /\ thread_id = [s \in Slots |-> NoConn] /\ socket = [s \in Slots |-> NoFd]
  /\ pc = "loop" /\ client_socket = NoFd /\ current = NoConn
  /\ reg = 0 /\ i = 0
  /\ tpc = [q \in Conns |-> "none"] /\ cancel = [q \in Conns |-> "no"]
  /\ arg = NoFds /\ n = Unused /\ treg = Unused
  /\ sock = [f \in Descriptors |-> NoConn] /\ accepted = {}

\* The process is gone, with its threads, memory and descriptors.
Dies(how) ==
  /\ Running
  /\ pc' = how
  /\ CLIENT_COUNT' = 0
  /\ thread_id' = [s \in Slots |-> NoConn] /\ socket' = [s \in Slots |-> NoFd]
  /\ client_socket' = NoFd /\ current' = NoConn
  /\ reg' = 0 /\ i' = 0
  /\ tpc' = [q \in Conns |-> "none"] /\ cancel' = [q \in Conns |-> "no"]
  /\ arg' = NoFds /\ n' = Unused /\ treg' = Unused
  /\ sock' = [f \in Descriptors |-> NoConn]
  /\ UNCHANGED <<RUN, accepted>>

-----------------------------------------------------------------------------
(* main: the accept loop and resolve_client_connection                     *)

MainGoto(from, to) == pc = from /\ pc' = to

MainMoves(from, to) ==
  /\ MainGoto(from, to)
  /\ UNCHANGED <<RUN, CLIENT_COUNT, tableVars, client_socket, current, reg, i,
                 threadVars, netVars>>

Loop == RUN /\ MainMoves("loop", "accept")

\* accept returns the lowest free descriptor, ...
Accept ==
  /\ MainGoto("accept", "check")
  /\ \E f \in FreeFds, q \in Conns :
       /\ \A g \in FreeFds : f <= g
       /\ q \notin accepted
       /\ sock' = [sock EXCEPT ![f] = q]
       /\ accepted' = accepted \cup {q}
       /\ client_socket' = f /\ current' = q
  /\ UNCHANGED <<RUN, CLIENT_COUNT, tableVars, reg, i, threadVars>>

\* ... or fails, for want of a client or of a descriptor.
AcceptFails == MainMoves("accept", "loop")

\* No room, or malloc or pthread_create failed.
Refuse_Leaks ==    \* mutant: the descriptor stays open
  /\ MainGoto("check", "loop")
  /\ client_socket' = NoFd /\ current' = NoConn
  /\ UNCHANGED <<RUN, CLIENT_COUNT, tableVars, reg, i, threadVars, netVars>>

Refuse ==
  /\ MainGoto("check", "loop")
  /\ sock' = Closed(client_socket)
  /\ client_socket' = NoFd /\ current' = NoConn
  /\ UNCHANGED <<RUN, CLIENT_COUNT, tableVars, reg, i, threadVars, accepted>>

HasRoom_OneTooMany == CLIENT_COUNT <= MAX_CLIENTS    \* mutant

HasRoom == CLIENT_COUNT + 1 <= MAX_CLIENTS

\* pthread_create: the thread runs before add_client has recorded it.
Create ==
  /\ MainGoto("check", "add_thread")
  /\ HasRoom
  /\ tpc' = [tpc EXCEPT ![current] = "recv"]
  /\ arg' = [arg EXCEPT ![current] = client_socket]
  /\ UNCHANGED <<RUN, CLIENT_COUNT, tableVars, client_socket, current, reg, i,
                 n, treg, cancel, netVars>>

-----------------------------------------------------------------------------
(* main: add_client.  An index below zero writes to other memory.          *)

AddThread_Skipped == MainMoves("add_thread", "add_index")    \* mutant

AddThread ==
  /\ MainGoto("add_thread", "add_index")
  /\ thread_id' = [s \in Slots |-> IF s = CLIENT_COUNT THEN current
                                                      ELSE thread_id[s]]
  /\ UNCHANGED <<RUN, CLIENT_COUNT, socket, client_socket, current, reg, i,
                 threadVars, netVars>>

AddIndex ==
  /\ MainGoto("add_index", "add_socket")
  /\ reg' = CLIENT_COUNT
  /\ UNCHANGED <<RUN, CLIENT_COUNT, tableVars, client_socket, current, i,
                 threadVars, netVars>>

AddSocket ==
  /\ MainGoto("add_socket", "inc_load")
  /\ socket' = [s \in Slots |-> IF s = reg THEN client_socket ELSE socket[s]]
  /\ UNCHANGED <<RUN, CLIENT_COUNT, thread_id, client_socket, current, reg, i,
                 threadVars, netVars>>

AddCrashes ==
  /\ pc \in {"add_thread", "add_index"}
  /\ CLIENT_COUNT < 0
  /\ Dies("crash")

IncLoad ==
  /\ MainGoto("inc_load", "inc_store")
  /\ reg' = CLIENT_COUNT
  /\ UNCHANGED <<RUN, CLIENT_COUNT, tableVars, client_socket, current, i,
                 threadVars, netVars>>

IncStore ==
  /\ MainGoto("inc_store", "welcome")
  /\ CLIENT_COUNT' = reg + 1
  /\ reg' = 0
  /\ UNCHANGED <<RUN, tableVars, client_socket, current, i, threadVars, netVars>>

Welcome ==
  /\ MainGoto("welcome", "loop")
  /\ client_socket' = NoFd /\ current' = NoConn
  /\ UNCHANGED <<RUN, CLIENT_COUNT, tableVars, reg, i, threadVars, netVars>>

-----------------------------------------------------------------------------
(* main: shutdown and join_all_threads                                     *)

LeaveLoop == ~RUN /\ MainMoves("loop", "join")

CancelNext_JoinOnly ==    \* mutant: waits without cancelling
  i < CLIENT_COUNT /\ MainMoves("join", "joining")

CancelNext ==
  /\ MainGoto("join", "joining")
  /\ i < CLIENT_COUNT /\ thread_id[i] # NoConn
  /\ cancel' = [cancel EXCEPT ![thread_id[i]] =
                   IF tpc[thread_id[i]] = "done" THEN "no" ELSE "pending"]
  /\ UNCHANGED <<RUN, CLIENT_COUNT, tableVars, client_socket, current, reg, i,
                 tpc, arg, n, treg, netVars>>

Joined ==
  /\ MainGoto("joining", "join")
  /\ tpc[thread_id[i]] = "done"
  /\ i' = i + 1
  /\ UNCHANGED <<RUN, CLIENT_COUNT, tableVars, client_socket, current, reg,
                 threadVars, netVars>>

\* main returns, which ends every thread that is left.
Exit ==
  /\ pc = "join" /\ i >= CLIENT_COUNT
  /\ Dies("exit")

-----------------------------------------------------------------------------
(* handle_client                                                           *)

Goto(q, from, to) == tpc[q] = from /\ tpc' = [tpc EXCEPT ![q] = to]
Others == <<RUN, tableVars, mainVars>>
Serving == {"recv", "blocked", "cast", "compare"}

\* A pending cancellation acts in recv, send, close and printf.
MayCall(q) == Running /\ cancel[q] # "pending"

\* A step of q that moves it on and changes nothing else.
Moves(q, from, to) ==
  /\ Goto(q, from, to)
  /\ UNCHANGED <<Others, CLIENT_COUNT, arg, n, treg, cancel, netVars>>

\* The thread is over; what it had is of no more use.
Over(q, at) ==
  /\ Goto(q, at, "done")
  /\ arg' = [arg EXCEPT ![q] = NoFd]
  /\ n' = [n EXCEPT ![q] = 0]
  /\ cancel' = [cancel EXCEPT ![q] = "no"]
  /\ UNCHANGED <<Others, CLIENT_COUNT, treg, netVars>>

\* recv holds on to the connection although the descriptor may be closed
\* meanwhile; on a closed descriptor it fails.  (That RUN is loaded before
\* makes no difference: the thread goes to the same two places.)
Recv(q) == MayCall(q) /\ RUN /\ IsOpen(arg[q]) /\ Moves(q, "recv", "blocked")

LeaveRecv(q) ==
  /\ MayCall(q) /\ Moves(q, "recv", "close")
  /\ ~RUN \/ ~IsOpen(arg[q])

\* Data, answered with "msg sent"; the result of send is not looked at.
RecvData(q) == MayCall(q) /\ Moves(q, "blocked", "cast")
RecvHangup(q) == MayCall(q) /\ Moves(q, "blocked", "close")

\* broadcast_message_from.  That send loads the socket again after the
\* comparison decides where the bytes go and nothing else.
Cast_OffByOne(q) ==    \* mutant
  Running /\ n[q] <= CLIENT_COUNT /\ Moves(q, "cast", "compare")

Cast(q) == Running /\ n[q] < CLIENT_COUNT /\ Moves(q, "cast", "compare")

NextDest(q) ==
  /\ Goto(q, "compare", "cast")
  /\ n' = [n EXCEPT ![q] = @ + 1]
  /\ UNCHANGED <<Others, CLIENT_COUNT, arg, treg, cancel, netVars>>

SkipSender(q) == Running /\ NextDest(q) /\ socket[n[q]] = arg[q]
Send(q) == MayCall(q) /\ NextDest(q) /\ socket[n[q]] # arg[q]

CastEnds(q) ==
  /\ Running /\ Goto(q, "cast", "recv")
  /\ n[q] >= CLIENT_COUNT
  /\ n' = [n EXCEPT ![q] = 0]
  /\ UNCHANGED <<Others, CLIENT_COUNT, arg, treg, cancel, netVars>>

\* Line 236.  The cleanup handler closes the same number again.
Close(q) ==
  /\ MayCall(q) /\ Goto(q, "close", "handler")
  /\ sock' = Closed(arg[q])
  /\ UNCHANGED <<Others, CLIENT_COUNT, arg, n, treg, cancel, accepted>>

\* The cancelled thread unwinds into the handler, ...
CancelActs(q) ==
  /\ Running /\ cancel[q] = "pending"
  /\ tpc[q] \in {"recv", "blocked", "compare", "close"}
  /\ tpc[q] = "compare" => socket[n[q]] # arg[q]
  /\ tpc' = [tpc EXCEPT ![q] = "handler"]
  /\ cancel' = [cancel EXCEPT ![q] = "acted"]
  /\ n' = [n EXCEPT ![q] = 0]
  /\ UNCHANGED <<Others, CLIENT_COUNT, arg, treg, netVars>>

\* ... but when pthread_cleanup_pop called it, it is no longer installed: a
\* close or printf in it ends the thread half-way.
CancelSkips(q) ==
  /\ Running /\ cancel[q] = "pending"
  /\ \E at \in {"handler", "report"} : Over(q, at)

-----------------------------------------------------------------------------
(* client_cleanup_handler and remove_client                                *)

CloseAgain_Skipped(q) ==    \* mutant: the handler leaves it to line 236
  /\ MayCall(q) /\ Goto(q, "handler", "scan")
  /\ n' = [n EXCEPT ![q] = 0]
  /\ UNCHANGED <<Others, CLIENT_COUNT, arg, treg, cancel, netVars>>

CloseAgain(q) ==
  /\ MayCall(q) /\ Goto(q, "handler", "scan")
  /\ sock' = Closed(arg[q])
  /\ n' = [n EXCEPT ![q] = 0]
  /\ UNCHANGED <<Others, CLIENT_COUNT, arg, treg, cancel, accepted>>

PassSlot(q) ==
  /\ Running /\ tpc[q] = "scan"
  /\ n[q] < MAX_CLIENTS /\ socket[n[q]] # arg[q]
  /\ n' = [n EXCEPT ![q] = @ + 1]
  /\ UNCHANGED <<Others, CLIENT_COUNT, tpc, arg, treg, cancel, netVars>>

FindSlot(q) ==
  /\ Running /\ Moves(q, "scan", "clear")
  /\ n[q] < MAX_CLIENTS /\ socket[n[q]] = arg[q]

ClearSlot(q) ==
  /\ Running /\ Goto(q, "clear", "dec_load")
  /\ socket' = [socket EXCEPT ![n[q]] = NoFd]
  /\ UNCHANGED <<RUN, thread_id, mainVars, CLIENT_COUNT, arg, n, treg,
                 cancel, netVars>>

DecLoad(q) ==
  /\ Running /\ Goto(q, "dec_load", "dec_store")
  /\ treg' = [treg EXCEPT ![q] = CLIENT_COUNT]
  /\ UNCHANGED <<Others, CLIENT_COUNT, arg, n, cancel, netVars>>

DecStore(q) ==
  /\ Running /\ Goto(q, "dec_store", "report")
  /\ CLIENT_COUNT' = treg[q] - 1
  /\ treg' = [treg EXCEPT ![q] = 0]
  /\ UNCHANGED <<Others, arg, n, cancel, netVars>>

\* The printf after it.
Report(q) ==
  /\ MayCall(q) /\ Goto(q, "report", "scan")
  /\ n' = [n EXCEPT ![q] = @ + 1]
  /\ UNCHANGED <<Others, CLIENT_COUNT, arg, treg, cancel, netVars>>

ThreadEnds(q) == Running /\ n[q] = MAX_CLIENTS /\ Over(q, "scan")

-----------------------------------------------------------------------------
(* Signals                                                                 *)

\* handle_signal_thread, on SIGINT or SIGTERM.
Interrupt ==
  /\ MayInterrupt /\ Running /\ RUN
  /\ RUN' = FALSE
  /\ UNCHANGED <<CLIENT_COUNT, tableVars, mainVars, threadVars, netVars>>

\* A second send to a client that answered with RST raises SIGPIPE.
SendKills ==
  /\ \/ pc = "welcome" /\ IsOpen(client_socket)
     \/ \E q \in Conns :
          MayCall(q) /\ \/ tpc[q] = "blocked" /\ IsOpen(arg[q])
                        \/ tpc[q] = "compare" /\ IsOpen(socket[n[q]])
  /\ Dies("sigpipe")

-----------------------------------------------------------------------------
MainWork ==
  \/ Loop \/ Accept \/ AcceptFails \/ Refuse
  \/ Create \/ AddThread \/ AddIndex \/ AddSocket \/ AddCrashes
  \/ IncLoad \/ IncStore \/ Welcome
  \/ LeaveLoop \/ CancelNext \/ Joined \/ Exit

\* Calls that return when the client lets them.
Served(q) == RecvData(q) \/ RecvHangup(q) \/ Send(q)

Work(q) ==
  \/ Recv(q) \/ LeaveRecv(q)
  \/ Cast(q) \/ SkipSender(q) \/ CastEnds(q) \/ Close(q)
  \/ CancelActs(q) \/ CancelSkips(q)
  \/ CloseAgain(q) \/ PassSlot(q) \/ FindSlot(q) \/ ClearSlot(q)
  \/ DecLoad(q) \/ DecStore(q) \/ Report(q) \/ ThreadEnds(q)

Next ==
  \/ MainWork \/ Interrupt \/ SendKills
  \/ \E q \in Conns : Served(q) \/ Work(q)

Spec == Init /\ [][Next]_vars

\* The scheduler runs main and every thread; a client may keep its thread in
\* recv or send for ever.
Fairness == WF_vars(MainWork) /\ \A q \in Conns : WF_vars(Work(q))

FairSpec == Spec /\ Fairness

-----------------------------------------------------------------------------
ThreadedTypeOK ==
  /\ RUN \in BOOLEAN /\ CLIENT_COUNT \in Int
  /\ thread_id \in [Slots -> Conns \cup {NoConn}]
  /\ socket \in [Slots -> Descriptors \cup {NoFd}]
  /\ pc \in {"loop", "accept", "check", "add_thread", "add_index",
             "add_socket", "inc_load", "inc_store", "welcome", "join",
             "joining", "exit", "crash", "sigpipe"}
  /\ client_socket \in Descriptors \cup {NoFd}
  /\ current \in Conns \cup {NoConn}
  /\ reg \in Int
  /\ i \in 0..MAX_CLIENTS /\ (pc = "joining" => i \in Slots)
  /\ tpc \in [Conns -> Serving \cup {"none", "close", "handler", "scan", "clear",
                        "dec_load", "dec_store", "report", "done"}]
  /\ arg \in [Conns -> Descriptors \cup {NoFd}]
  /\ n \in [Conns -> 0..MAX_CLIENTS]
  /\ \A q \in Conns :
       tpc[q] \in {"compare", "clear", "dec_load", "dec_store", "report"} =>
         n[q] \in Slots
  /\ treg \in [Conns -> Int]
  /\ cancel \in [Conns -> {"no", "pending", "acted"}]
  /\ sock \in [Descriptors -> Conns \cup {NoConn}]
  /\ accepted \in SUBSET Conns

\* However increments and decrements lose each other, the counter does not
\* pass the table's end, and neither do the indices made from it: main tests
\* it before it adds one, and a late store of a thread is below what main
\* once stored.  (It can fall below zero.)
CountBounded ==
  /\ CLIENT_COUNT <= MAX_CLIENTS
  /\ pc \in {"add_thread", "add_index", "add_socket", "inc_load"} =>
       CLIENT_COUNT < MAX_CLIENTS
  /\ pc \in {"add_socket", "inc_store"} => reg < MAX_CLIENTS

\* Every slot below the counter has had a thread, and no two the same, so
\* join_all_threads cancels no thread id zero and joins no thread twice,
\* although the counter goes down and up again independently of the slots.
JoinsCreatedOnce ==
  \A s \in Slots : s < CLIENT_COUNT =>
    /\ thread_id[s] # NoConn
    /\ \A t \in Slots \ {s} : thread_id[t] # thread_id[s]

\* A descriptor outlives neither its client's thread nor a refusal, although
\* threads close numbers that may no longer be theirs.
NoDescriptorLeak ==
  \A f \in Descriptors : Running /\ sock[f] # NoConn =>
    \/ sock[f] = current /\ pc = "check"
    \/ tpc[sock[f]] \in Serving \cup {"close"}
    \/ tpc[sock[f]] = "handler" /\ cancel[sock[f]] = "acted"

\* Places in the cleanup handler, which waits for no client.
Unwinding == {"handler", "scan", "clear", "dec_load", "dec_store", "report"}

\* The thread that main waits for in pthread_join exists, and it is over, or is
\* to be cancelled in its next call, or is cleaning up: in whatever state the
\* threads are when join_all_threads reads the table, no client can keep main
\* waiting.
JoinAwaitsCancelled ==
  pc = "joining" =>
    LET q == thread_id[i] IN
    /\ q \in Conns /\ tpc[q] # "none"
    /\ \/ tpc[q] = "done"
       \/ cancel[q] = "pending"
       \/ cancel[q] = "acted" /\ tpc[q] \in Unwinding

\* After SIGINT or SIGTERM the process ends, whatever the clients do.
ShutdownEnds == ~RUN ~> Ended

-----------------------------------------------------------------------------
(* What the source says and the code does not keep                         *)

\* "Cleaning up threads" (host-threaded.c:162) before "Host closed peacefully"
\* (:140): join_all_threads returns when no client's thread serves any more.
AllThreadsJoined ==
  pc = "join" /\ i >= CLIENT_COUNT => \A q \in Conns : tpc[q] \notin Serving

\* "Total clients: %d" (host-threaded.c:202): when main prints CLIENT_COUNT
\* and no client is on its way out, it is the number of threads that serve.
TotalIsRight ==
  RUN /\ pc = "welcome" /\ (\A q \in Conns : tpc[q] \in Serving \cup {"none", "done"})
    => CLIENT_COUNT = Cardinality({q \in Conns : tpc[q] \in Serving})
=============================================================================
