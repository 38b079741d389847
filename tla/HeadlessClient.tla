--------------------------- MODULE HeadlessClient ---------------------------
(***************************************************************************)
(* The headless client (headless_client.c): a poll loop that sends what it *)
(* reads on standard input and prints what the host sends, with the part   *)
(* of stdio and of the kernel that decides what it gets to see.            *)
(*                                                                         *)
(* Bytes are counted, not named: the n-th byte typed is n, and only where  *)
(* newlines and NULs are is remembered: fgets stops behind the former,     *)
(* strlen in front of the latter.  Standard input has three stages:        *)
(* 1..used went through fgets, used+1..took waits in stdio's buffer,       *)
(* took+1..typed waits in the kernel.  poll sees the last stage only.      *)
(***************************************************************************)
EXTENDS Naturals, Sequences, FiniteSets

CONSTANTS
  MAX_LINE,   \* BUF_SIZE - 1, the bytes fgets and recv ask for at most
  STDIO,      \* the size of stdio's read-ahead buffer
  SndBuf,     \* bytes the kernel holds for a host that does not read
  MaxTyped,   \* bound: bytes typed
  MaxNuls,    \* bound: NUL bytes among them
  MaxPosted   \* bound: bytes the host sends

ASSUME HeadlessAssumption ==
  /\ MAX_LINE \in Nat \ {0} /\ STDIO \in Nat \ {0} /\ SndBuf \in Nat \ {0}
  /\ MaxTyped \in Nat /\ MaxNuls \in Nat /\ MaxPosted \in Nat

VARIABLES
  kind,       \* what standard input is: "tty", "pipe" or "file"
  typed,      \* bytes written to standard input
  newlines,   \* the positions of the newlines among them
  nuls,       \* and of the NUL bytes
  closed,     \* a pipe was closed, a tty's user typed the end-of-file key
  took,       \* bytes read(2) moved to stdio's buffer
  used,       \* bytes fgets returned
  sent,       \* the bytes the kernel accepted from send, in order: a history
  got,        \* how many of them the host received
  posted,     \* bytes of the host that arrived
  shown,      \* bytes received and printed
  link,       \* the connection
  revents,    \* the descriptors poll found readable, "stdin" and "sock";
              \* forgotten when main has looked at them
  pc,         \* where main is
  exit        \* the code main exits with

stdinVars == <<kind, typed, newlines, nuls, closed>>
sockVars  == <<got, posted, link>>
vars == <<stdinVars, sockVars, took, used, sent, shown, revents, pc, exit>>

\* "fin": the host closed; "reset": it also threw away unread data, and the
\* error is still to be reported; "dead": the connection knows it is dead.
Links == {"none", "up", "fin", "reset", "dead"}
PCs   == {"start", "poll", "stdin", "sock", "exit"}
SetupErrors == {"F_GETFL", "F_SETFL", "SOCKET_OPEN_FAIL", "NO_HOST", "CONNECT_FAIL"}
Exits == {"none", "SUCCESS", "POLL_ERROR", "SERVER_CLOSE", "SIGPIPE"} \cup SetupErrors

Least(a, b) == IF a < b THEN a ELSE b

Init ==
  /\ kind \in {"tty", "pipe", "file"}
  /\ typed = 0 /\ newlines = {} /\ nuls = {} /\ closed = FALSE
  /\ took = 0 /\ used = 0 /\ sent = <<>> /\ got = 0
  /\ posted = 0 /\ shown = 0 /\ link = "none"
  /\ revents = {} /\ pc = "start" /\ exit = "none"

Exit(code) == pc' = "exit" /\ exit' = code /\ revents' = {}

-----------------------------------------------------------------------------
(* main                                                                    *)

\* socket, gethostbyname, connect, set_non_blocking.
Connects ==
  /\ pc = "start"
  /\ pc' = "poll" /\ link' = "up"
  /\ UNCHANGED <<stdinVars, got, posted, took, used, sent, shown, revents, exit>>

SetupFails ==
  /\ pc = "start"
  /\ \E code \in SetupErrors : Exit(code)
  /\ UNCHANGED <<stdinVars, sockVars, took, used, sent, shown>>

\* POLLIN on a tty or a pipe says that a read would return; a regular file is
\* always readable.  The end of a pipe is POLLHUP, without POLLIN.
StdinReadable ==
  \/ kind = "file"
  \/ typed > took
  \/ kind = "tty" /\ closed
StdinHangup  == kind = "pipe" /\ closed
SockReadable == posted > shown \/ link # "up"

Readable == {s \in {"stdin", "sock"} : IF s = "stdin" THEN StdinReadable ELSE SockReadable}

Poll ==
  /\ pc = "poll"
  /\ Readable # {} \/ StdinHangup
  /\ revents' = Readable
  /\ pc' = CASE "stdin" \in Readable -> "stdin"
             [] Readable = {"sock"}  -> "sock"
             [] OTHER                -> "poll"
  /\ UNCHANGED <<stdinVars, sockVars, took, used, sent, shown, exit>>

PollFails ==
  /\ pc = "poll"
  /\ Exit("POLL_ERROR")
  /\ UNCHANGED <<stdinVars, sockVars, took, used, sent, shown>>

IsFirst(e, S) == \A f \in S : e <= f

\* Where fgets may stop in stdio's buffer, and does at the first: after a
\* newline or at MAX_LINE bytes.
Ends == {e \in used + 1 .. took : e \in newlines \/ e = used + MAX_LINE}

AtEnd == typed = took /\ (closed \/ kind = "file")

\* What one read(2) is offered: all that was typed, but a tty gives one line at
\* a time.
NewLines == {n \in newlines : n > took}
Offered  == IF kind = "tty" /\ NewLines # {}
            THEN {n \in NewLines : IsFirst(n, NewLines)} ELSE {typed}

\* fgets needs more: read(2) waits for input.
Refill ==
  /\ pc = "stdin" /\ Ends = {}
  /\ typed > took
  /\ \E n \in Offered : took' = took + Least(n - took, STDIO)
  /\ UNCHANGED <<stdinVars, sockVars, used, sent, shown, revents, pc, exit>>

\* strlen of the piece used+1..e: the bytes in front of its first NUL.
IsStrlen(n, e) ==
  /\ used + n = e \/ used + n + 1 \in nuls
  /\ \A z \in nuls : z <= used \/ z > used + n

\* send on the non-blocking socket takes what there is room for; its result is
\* ignored.
Room == SndBuf - (Len(sent) - got)

\* mutants: a short send starts again; the first or the last byte is left out.
Accepted_Again(n)     == [i \in 1 .. (IF n = 0 THEN 0 ELSE Room) |-> used + 1 + ((i - 1) % n)]
Accepted_NoFirst(n)   == [i \in 1 .. Least(n - 1, Room) |-> used + 1 + i]
Accepted_NoNewline(n) == [i \in 1 .. Least(n - 1, Room) |-> used + i]

Accepted(n) == [i \in 1 .. Least(n, Room) |-> used + i]

AfterStdin ==
  /\ pc' = (IF "sock" \in revents THEN "sock" ELSE "poll")
  /\ revents' = {} /\ UNCHANGED exit

Send(e) ==
  \/ /\ link \in {"up", "fin"}
     /\ \E n \in 0 .. e - used : IsStrlen(n, e) /\ sent' = sent \o Accepted(n)
     /\ AfterStdin /\ UNCHANGED link
  \/ /\ link = "reset"                      \* ECONNRESET, for no bytes too
     /\ link' = "dead"
     /\ AfterStdin /\ UNCHANGED sent
  \/ /\ link = "dead"
     /\ Exit("SIGPIPE") /\ UNCHANGED <<sent, link>>

SendLine_Blocks ==                         \* mutant: the socket blocks
  /\ pc = "stdin" /\ Room > 0
  /\ \E e \in Ends : IsFirst(e, Ends) /\ Send(e) /\ used' = e
  /\ UNCHANGED <<stdinVars, got, posted, took, shown>>

SendLine ==
  /\ pc = "stdin"
  /\ \E e \in Ends : IsFirst(e, Ends) /\ Send(e) /\ used' = e
  /\ UNCHANGED <<stdinVars, got, posted, took, shown>>

\* The end of the input inside a line: fgets returns what it has.
SendRest ==
  /\ pc = "stdin" /\ Ends = {} /\ AtEnd /\ used < took
  /\ Send(took)
  /\ used' = took
  /\ UNCHANGED <<stdinVars, got, posted, took, shown>>

InputEnds_Ignored ==                       \* mutant: does not leave the loop
  /\ pc = "stdin" /\ AtEnd /\ used = took
  /\ AfterStdin
  /\ UNCHANGED <<stdinVars, sockVars, took, used, sent, shown>>

\* fgets returns NULL: main returns EXIT_SUCCESS.
InputEnds ==
  /\ pc = "stdin" /\ AtEnd /\ used = took
  /\ Exit("SUCCESS")
  /\ UNCHANGED <<stdinVars, sockVars, took, used, sent, shown>>

Receive_Full ==                            \* mutant: counts the whole buffer
  /\ pc = "sock" /\ posted > shown
  /\ shown' = shown + MAX_LINE
  /\ pc' = "poll" /\ revents' = {}
  /\ UNCHANGED <<stdinVars, sockVars, took, used, sent, exit>>

Receive ==
  /\ pc = "sock" /\ posted > shown
  /\ shown' = Least(posted, shown + MAX_LINE)
  /\ pc' = "poll" /\ revents' = {}
  /\ UNCHANGED <<stdinVars, sockVars, took, used, sent, exit>>

\* recv returns -1 once; the loop ignores it.
ReceiveError ==
  /\ pc = "sock" /\ posted = shown /\ link = "reset"
  /\ link' = "dead"
  /\ pc' = "poll" /\ revents' = {}
  /\ UNCHANGED <<stdinVars, got, posted, took, used, sent, shown, exit>>

HostClosed_Ignored ==                      \* mutant: 0 is taken for an error
  /\ pc = "sock" /\ posted = shown /\ link \in {"fin", "dead"}
  /\ pc' = "poll" /\ revents' = {}
  /\ UNCHANGED <<stdinVars, sockVars, took, used, sent, shown, exit>>

HostClosed ==
  /\ pc = "sock" /\ posted = shown /\ link \in {"fin", "dead"}
  /\ Exit("SERVER_CLOSE")
  /\ UNCHANGED <<stdinVars, sockVars, took, used, sent, shown>>

Step == Connects \/ Poll \/ Refill \/ SendLine \/ SendRest \/ InputEnds
        \/ Receive \/ ReceiveError \/ HostClosed
Main == Step \/ SetupFails \/ PollFails

-----------------------------------------------------------------------------
(* The writer of standard input, the host, the network                     *)

mainVars == <<took, used, sent, shown, revents, pc, exit>>

\* A tty hands over whole lines, a file is there before the client starts.
Type(k, line) ==
  /\ ~closed /\ pc # "exit" /\ typed + k <= MaxTyped
  /\ kind = "tty" => line
  /\ kind = "file" => pc = "start"
  /\ typed' = typed + k
  /\ newlines' = newlines \cup (IF line THEN {typed + k} ELSE {})
  /\ \/ nuls' = nuls
     \/ /\ Cardinality(nuls) < MaxNuls
        /\ \E z \in typed + 1 .. typed + k :
             z \notin newlines' /\ nuls' = nuls \cup {z}
  /\ UNCHANGED <<kind, closed, sockVars, mainVars>>

CloseInput ==
  /\ ~closed /\ pc # "exit" /\ kind # "file"
  /\ closed' = TRUE
  /\ UNCHANGED <<kind, typed, newlines, nuls, sockVars, mainVars>>

HostPosts ==
  /\ link = "up" /\ pc # "exit" /\ posted < MaxPosted
  /\ posted' = posted + 1
  /\ UNCHANGED <<stdinVars, got, link, mainVars>>

HostReceives ==
  /\ link = "up" /\ got < Len(sent)
  /\ got' = Len(sent)
  /\ UNCHANGED <<stdinVars, posted, link, mainVars>>

\* close with unread data resets the connection.
HostCloses ==
  /\ link = "up" /\ pc # "exit"
  /\ link' = (IF got < Len(sent) THEN "reset" ELSE "fin")
  /\ UNCHANGED <<stdinVars, got, posted, mainVars>>

\* Data for a socket that is gone is answered with a reset.
ResetArrives ==
  /\ link = "fin" /\ pc # "exit" /\ got < Len(sent)
  /\ link' = "dead"
  /\ UNCHANGED <<stdinVars, got, posted, mainVars>>

World ==
  \/ \E k \in 1 .. MaxTyped, line \in BOOLEAN : Type(k, line)
  \/ CloseInput \/ HostPosts \/ HostReceives \/ HostCloses \/ ResetArrives

Next == Main \/ World

Spec == Init /\ [][Next]_vars

\* main takes every step it can; the writer, the host and the failing calls
\* need not act.
FairSpec == Spec /\ WF_vars(Step)

-----------------------------------------------------------------------------
(* Properties                                                              *)

\* The types, and the order of the three stages of standard input.
HeadlessTypeOK ==
  /\ kind \in {"tty", "pipe", "file"}
  /\ typed \in Nat /\ took \in 0 .. typed /\ used \in 0 .. took
  /\ newlines \subseteq 1 .. typed /\ nuls \subseteq 1 .. typed
  /\ closed \in BOOLEAN
  /\ sent \in Seq(1 .. used) /\ got \in 0 .. Len(sent)
  /\ posted \in Nat /\ shown \in 0 .. posted
  /\ link \in Links /\ revents \subseteq {"stdin", "sock"}
  /\ pc \in PCs /\ exit \in Exits

\* Whatever is lost, what the host gets is in the order it was typed in and
\* nothing comes twice: fgets may cut a line, send may take part of a piece.
SentInOrder ==
  \A i, j \in DOMAIN sent : i < j => sent[i] < sent[j]

\* fgets cuts the input after every newline and every MAX_LINE bytes of a line:
\* p is a whole number of pieces behind the last newline before it.
PieceStart(p) ==
  \E n \in newlines \cup {0}, k \in 0 .. p :
    /\ p - 1 = n + k * MAX_LINE
    /\ \A m \in newlines : m <= n \/ m >= p

\* b is behind a NUL of its own piece, or is one: strlen does not get to it.
BehindNul(b) ==
  \E z \in nuls : z <= b /\ \A p \in z + 1 .. b : ~PieceStart(p)

IsSent(b) == \E i \in DOMAIN sent : sent[i] = b

\* The result of send is ignored, so bytes are lost; but a host that is there
\* loses none as long as what was typed fits into the kernel's buffer, except
\* for what a NUL hides, up to the end of the piece it is in.
NoLossWithinBuffer ==
  used <= SndBuf /\ link \in {"up", "fin"} =>
    \A b \in 1 .. used : IsSent(b) \/ BehindNul(b)

\* A short send loses the end of a piece, never its head or its middle: where
\* the host sees a gap, what follows the gap is the head of a piece.
LostIsTail ==
  \A i \in DOMAIN sent :
    PieceStart(sent[i]) \/ (i > 1 /\ sent[i - 1] = sent[i] - 1)

\* A line of the input is taken to send, or the client ends. The exceptions are
\* what poll does not see, stdio's buffer: on a pipe any lines read ahead, on a
\* tty the rest of a line longer than fgets takes, wait there for more input.
ReadAhead ==
  /\ took = typed
  /\ kind = "pipe" \/ (kind = "tty" /\ used \notin newlines \cup {0})

LinesLeave ==
  \A n \in 1 .. MaxTyped :
    n \in newlines ~> (used >= n \/ pc = "exit" \/ ReadAhead)

\* A client whose host is gone ends, unless it sits in fgets, which waits for
\* the rest of a line that nobody writes.
WaitsForRest == pc = "stdin" /\ Ends = {} /\ typed = took /\ ~closed

HostCloseSeen == link \in {"fin", "reset", "dead"} ~> (pc = "exit" \/ WaitsForRest)

\* The end of the input ends the client on a tty and on a file. (On a pipe
\* poll says POLLHUP only, and the loop spins until the host closes.)
InputEndSeen ==
  (kind = "file" \/ (kind = "tty" /\ closed)) ~> pc = "exit"

=============================================================================
