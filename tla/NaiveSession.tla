---------------------------- MODULE NaiveSession ----------------------------
(***************************************************************************)
(* Naive clients (naive-client.c) in a session with the threaded host: the *)
(* client waits for an answer after every line, the host waits for the     *)
(* next line.  Each takes what the other's socket holds as one message, so *)
(* who waits for whom depends on how the bytes were glued together.        *)
(*                                                                         *)
(* The host's sends block, and its thread for one client sends to all the  *)
(* others: so a client that sits at its prompt, and reads nothing, can     *)
(* keep another from its answer.                                           *)
(*                                                                         *)
(* The host here is what a client sees of it; its table, its counter and   *)
(* its descriptors are the subject of ThreadedHost.  What the messages say *)
(* is left out: a client takes whatever comes for the answer.              *)
(***************************************************************************)
EXTENDS Naturals, FiniteSets

CONSTANTS
  Clients,
  Nobody,
  TableSlots,   \* MAX_CLIENTS of host-threaded.c
  Fits,         \* messages of the host one recv of BUFFER_SIZE - 1 bytes takes
  RcvRoom,      \* messages the kernel holds for a client that does not read
  MaxLines      \* bound: lines each client's user types

ASSUME NaiveAssumption ==
  /\ IsFiniteSet(Clients) /\ Nobody \notin Clients
  /\ TableSlots \in Nat /\ Fits \in Nat \ {0} /\ RcvRoom \in Nat \ {0}
  /\ MaxLines \in [Clients -> Nat]

VARIABLES
  cl,        \* where the client's main is
  asked,     \* what it sent last: a "line", or the "empty" line of ENTER alone
  lines,     \* lines typed
  inq,       \* the host's messages that wait in the client's socket
  outq,      \* lines that wait in the host's socket
  conn,      \* the connection, as the client's kernel sees it
  th,        \* where handle_client is: the host's thread for the client
  slot,      \* the loop index of broadcast_message_from in that thread
  dest,      \* the client it is in send to, or Nobody
  greeting,  \* the clients main has a thread for and not yet welcomed
  drifted,   \* a thread has left, so CLIENT_COUNT may be off
  up         \* the host runs

clientVars == <<cl, asked, lines>>
castVars   == <<slot, dest>>
hostVars   == <<th, castVars, greeting, drifted, up>>
naiveVars  == <<clientVars, inq, outq, conn, hostVars>>

NaiveInit ==
  /\ cl = [c \in Clients |-> "start"] /\ asked = [c \in Clients |-> "none"]
  /\ lines = [c \in Clients |-> 0]
  /\ inq = [c \in Clients |-> 0] /\ outq = [c \in Clients |-> 0]
  /\ conn = [c \in Clients |-> "none"] /\ th = [c \in Clients |-> "none"]
  /\ slot = [c \in Clients |-> 0] /\ dest = [c \in Clients |-> Nobody]
  /\ greeting = {} /\ drifted = FALSE /\ up = TRUE

Move(c, l) == cl' = [cl EXCEPT ![c] = l]

-----------------------------------------------------------------------------
(* The client                                                              *)

Connect(c) ==
  /\ cl[c] = "start"
  /\ \/ up /\ Move(c, "welcome") /\ conn' = [conn EXCEPT ![c] = "backlog"]
     \/ Move(c, "gone") /\ UNCHANGED conn
  /\ UNCHANGED <<asked, lines, inq, outq, hostVars>>

recv(c) == inq' = [inq EXCEPT ![c] = IF @ > Fits THEN @ - Fits ELSE 0]

\* The first message is taken for the welcome. A recv of 0 goes unnoticed; the
\* -1 of an aborted connection indexes the buffer before its start.
TakeWelcome(c) ==
  /\ cl[c] = "welcome"
  /\ \/ inq[c] > 0 /\ recv(c) /\ Move(c, "prompt")
     \/ inq[c] = 0 /\ conn[c] = "closed" /\ Move(c, "prompt") /\ UNCHANGED inq
     \/ inq[c] = 0 /\ conn[c] = "reset" /\ Move(c, "overrun") /\ UNCHANGED inq
  /\ UNCHANGED <<asked, lines, outq, conn, hostVars>>

Ask_Twice(c) ==                            \* mutant: sends the line again
  /\ cl[c] = "prompt" /\ lines[c] < MaxLines[c] /\ conn[c] # "reset"
  /\ lines' = [lines EXCEPT ![c] = @ + 1]
  /\ asked' = [asked EXCEPT ![c] = "line"]
  /\ outq' = [outq EXCEPT ![c] = @ + 2]
  /\ Move(c, "answer")
  /\ UNCHANGED <<inq, conn, hostVars>>

\* A line goes out without its newline; on a closed connection send succeeds
\* once and the answer is a reset.
Ask(c) ==
  /\ cl[c] = "prompt" /\ lines[c] < MaxLines[c] /\ conn[c] # "reset"
  /\ lines' = [lines EXCEPT ![c] = @ + 1]
  /\ asked' = [asked EXCEPT ![c] = "line"]
  /\ outq' = [outq EXCEPT ![c] = @ + 1]
  /\ conn' = [conn EXCEPT ![c] = IF @ = "closed" THEN "reset" ELSE @]
  /\ Move(c, "answer")
  /\ UNCHANGED <<inq, hostVars>>

\* ENTER alone: a send of no bytes, which nobody receives.
AskNothing(c) ==
  /\ cl[c] = "prompt" /\ lines[c] < MaxLines[c] /\ conn[c] # "reset"
  /\ lines' = [lines EXCEPT ![c] = @ + 1]
  /\ asked' = [asked EXCEPT ![c] = "empty"]
  /\ Move(c, "answer")
  /\ UNCHANGED <<inq, outq, conn, hostVars>>

\* "exit", the end of the input, or a send that fails.
Leave(c) ==
  /\ cl[c] = "prompt"
  /\ Move(c, "gone")
  /\ UNCHANGED <<asked, lines, inq, outq, conn, hostVars>>

TakeAnswer_Twice(c) ==                     \* mutant: waits for the rest too
  /\ cl[c] = "answer"
  /\ \/ inq[c] > 1 /\ recv(c) /\ Move(c, "prompt")
     \/ inq[c] = 0 /\ conn[c] \in {"closed", "reset"} /\ Move(c, "gone") /\ UNCHANGED inq
  /\ UNCHANGED <<asked, lines, outq, conn, hostVars>>

TakeAnswer(c) ==
  /\ cl[c] = "answer"
  /\ \/ inq[c] > 0 /\ recv(c) /\ Move(c, "prompt")
     \/ inq[c] = 0 /\ conn[c] \in {"closed", "reset"} /\ Move(c, "gone") /\ UNCHANGED inq
  /\ UNCHANGED <<asked, lines, outq, conn, hostVars>>

-----------------------------------------------------------------------------
(* The host                                                                *)

Gone(c) == cl[c] \in {"gone", "overrun"}

\* send waits for room; what is sent to a client that is gone is lost.
Full(c) == conn[c] = "open" /\ ~Gone(c) /\ inq[c] = RcvRoom

send(c) ==
  /\ ~Full(c)
  /\ inq' = [inq EXCEPT ![c] = IF conn[c] \in {"open", "backlog"} /\ ~Gone(c) THEN @ + 1 ELSE @]

\* CLIENT_COUNT is the number of threads as long as none has left.
Threads   == {c \in Clients : th[c] # "none"}
HasRoom   == drifted \/ Cardinality(Threads) < TableSlots
AtCapacity == drifted \/ Cardinality(Threads) >= TableSlots

Accept(c) ==
  /\ up /\ conn[c] = "backlog" /\ greeting = {} /\ HasRoom
  /\ conn' = [conn EXCEPT ![c] = "open"] /\ th' = [th EXCEPT ![c] = "recv"]
  /\ greeting' = {c}
  /\ UNCHANGED <<clientVars, inq, outq, castVars, drifted, up>>

Welcome(c) ==
  /\ up /\ c \in greeting
  /\ send(c) /\ greeting' = {}
  /\ UNCHANGED <<clientVars, outq, conn, th, castVars, drifted, up>>

Refuse(c) ==
  /\ up /\ conn[c] = "backlog" /\ greeting = {} /\ AtCapacity
  /\ send(c)
  /\ conn' = [conn EXCEPT ![c] = "closed"]
  /\ UNCHANGED <<clientVars, outq, hostVars>>

\* malloc or pthread_create fails: the socket is closed without a word.
TurnAway(c) ==
  /\ up /\ conn[c] = "backlog" /\ greeting = {} /\ HasRoom
  /\ conn' = [conn EXCEPT ![c] = "closed"]
  /\ UNCHANGED <<clientVars, inq, outq, hostVars>>

HandleLine_NoAck(c) ==                     \* mutant: relays without an answer
  /\ up /\ th[c] = "recv" /\ outq[c] > 0
  /\ outq' = [outq EXCEPT ![c] = 0]
  /\ th' = [th EXCEPT ![c] = "relay"]
  /\ UNCHANGED <<clientVars, inq, conn, castVars, greeting, drifted, up>>

HandleLine(c) ==
  /\ up /\ th[c] = "recv" /\ outq[c] > 0
  /\ outq' = [outq EXCEPT ![c] = 0]
  /\ th' = [th EXCEPT ![c] = "ack"]
  /\ UNCHANGED <<clientVars, inq, conn, castVars, greeting, drifted, up>>

Ack(c) ==
  /\ up /\ th[c] = "ack"
  /\ send(c)
  /\ th' = [th EXCEPT ![c] = "relay"] /\ slot' = [slot EXCEPT ![c] = 0]
  /\ UNCHANGED <<clientVars, outq, conn, dest, greeting, drifted, up>>

\* broadcast_message_from, one slot: it names another client that has a thread,
\* or nobody to send to.
BroadcastSlot(c) ==
  /\ up /\ th[c] = "relay" /\ dest[c] = Nobody /\ slot[c] < TableSlots
  /\ \E t \in {Nobody} \cup (Threads \ {c}) : dest' = [dest EXCEPT ![c] = t]
  /\ slot' = [slot EXCEPT ![c] = @ + 1]
  /\ UNCHANGED <<clientVars, inq, outq, conn, th, greeting, drifted, up>>

BroadcastSend(c) ==
  /\ up /\ dest[c] # Nobody
  /\ send(dest[c])
  /\ dest' = [dest EXCEPT ![c] = Nobody]
  /\ UNCHANGED <<clientVars, outq, conn, th, slot, greeting, drifted, up>>

\* The index is at CLIENT_COUNT, which is not above the slots.
BroadcastEnds(c) ==
  /\ up /\ th[c] = "relay" /\ dest[c] = Nobody
  /\ th' = [th EXCEPT ![c] = "recv"] /\ slot' = [slot EXCEPT ![c] = 0]
  /\ UNCHANGED <<clientVars, inq, outq, conn, dest, greeting, drifted, up>>

Hangup(c) ==
  /\ up /\ th[c] = "recv" /\ outq[c] = 0 /\ Gone(c)
  /\ conn' = [conn EXCEPT ![c] = "closed"] /\ th' = [th EXCEPT ![c] = "none"]
  /\ drifted' = TRUE
  /\ UNCHANGED <<clientVars, inq, outq, castVars, greeting, up>>

\* The host ends: connections it has not accepted, or not read to the end, are
\* reset.
HostEnds ==
  /\ up /\ up' = FALSE
  /\ conn' = [c \in Clients |->
       CASE conn[c] = "backlog"                -> "reset"
         [] conn[c] = "open" /\ outq[c] > 0     -> "reset"
         [] conn[c] = "open" /\ outq[c] = 0     -> "closed"
         [] OTHER                              -> conn[c]]
  /\ th' = [c \in Clients |-> "none"] /\ dest' = [c \in Clients |-> Nobody]
  /\ greeting' = {}
  /\ UNCHANGED <<clientVars, inq, outq, slot, drifted>>

ClientNext(c) ==
  Connect(c) \/ TakeWelcome(c) \/ Ask(c) \/ AskNothing(c) \/ Leave(c) \/ TakeAnswer(c)

ThreadNext(c) ==
  \/ HandleLine(c) \/ Ack(c) \/ BroadcastSlot(c) \/ BroadcastSend(c)
  \/ BroadcastEnds(c) \/ Hangup(c)

HostNext(c) ==
  Accept(c) \/ Welcome(c) \/ Refuse(c) \/ TurnAway(c) \/ ThreadNext(c)

NaiveNext == (\E c \in Clients : ClientNext(c) \/ HostNext(c)) \/ HostEnds

NaiveSpec == NaiveInit /\ [][NaiveNext]_naiveVars

\* recv returns when there is something, send when there is room, main accepts
\* and every thread runs; the user need not type and the host need not end.
NaiveFairness ==
  /\ WF_naiveVars(\E c \in Clients : Welcome(c))
  /\ \A c \in Clients :
       /\ WF_naiveVars(TakeWelcome(c) \/ TakeAnswer(c))
       /\ SF_naiveVars(Accept(c) \/ Refuse(c) \/ TurnAway(c))
       /\ WF_naiveVars(ThreadNext(c))

-----------------------------------------------------------------------------
(* Properties                                                              *)

\* The types, no more lines on their way than were typed, and no more messages
\* in a socket than it holds.
NaiveTypeOK ==
  /\ cl \in [Clients -> {"start", "welcome", "prompt", "answer", "gone", "overrun"}]
  /\ asked \in [Clients -> {"none", "line", "empty"}]
  /\ lines \in [Clients -> Nat] /\ outq \in [Clients -> Nat]
  /\ \A c \in Clients : outq[c] <= lines[c]
  /\ inq \in [Clients -> 0 .. RcvRoom]
  /\ conn \in [Clients -> {"none", "backlog", "open", "closed", "reset"}]
  /\ th \in [Clients -> {"none", "recv", "ack", "relay"}]
  /\ slot \in [Clients -> 0 .. TableSlots] /\ dest \in [Clients -> Clients \cup {Nobody}]
  /\ greeting \subseteq Clients /\ drifted \in BOOLEAN /\ up \in BOOLEAN

\* A client that waits for the answer to a line never waits for a host that
\* waits for it, in whatever portions lines and answers were received: the line
\* or its answer is on the way, or the connection is over.
NobodyWaitsInVain ==
  \A c \in Clients :
    cl[c] = "answer" /\ asked[c] = "line" =>
      \/ inq[c] > 0
      \/ conn[c] = "open" /\ (th[c] = "ack" \/ (outq[c] > 0 /\ th[c] # "none"))
      \/ conn[c] \in {"closed", "reset"}

\* No client stays at its prompt for good while its socket is full.
PromptsMoveOn == \A c \in Clients : []<>~(cl[c] = "prompt" /\ inq[c] = RcvRoom)

\* Every client gets past its welcome, and past each line that is not empty,
\* provided no other stays at its prompt with its socket full: then the host's
\* send to that one never returns, and the thread that is in it answers no more.
Waits(c)    == cl[c] = "welcome" \/ (cl[c] = "answer" /\ asked[c] = "line")
AnswersCome == PromptsMoveOn => \A c \in Clients : Waits(c) ~> ~Waits(c)

=============================================================================
