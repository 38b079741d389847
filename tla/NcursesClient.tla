---------------------------- MODULE NcursesClient ----------------------------
(***************************************************************************)
(* The ncurses client: main of client.c with the input box of ui.c.  The   *)
(* keyboard has two readers, wgetch and (through stdio) fgets, and main    *)
(* waits in either while nobody reads its socket: so the host is part of   *)
(* the model, with the send of host.c's broadcast, which blocks.           *)
(*                                                                         *)
(* A key is one of the kinds the code tells apart, and one character to    *)
(* fgets; what a line says, and where strlen cuts it, is left out.  The    *)
(* host's pieces are counted.  Of the drawing only the input box and the   *)
(* cursor are here.                                                        *)
(***************************************************************************)
EXTENDS Naturals, Sequences

CONSTANTS
  SIZE,       \* sizeof(input_buffer)
  MAX_LINE,   \* BUF_SIZE - 1, the characters fgets returns at most
  MaxQueue,   \* bound: keys typed and not yet read
  RcvBuf,     \* pieces the kernel holds while the client does not read
  Percent     \* whether the host's text may hold a conversion such as %s

ASSUME NcursesAssumption ==
  /\ SIZE \in Nat \ {0} /\ MAX_LINE \in Nat \ {0} /\ RcvBuf \in Nat \ {0}
  /\ MaxQueue \in Nat /\ Percent \in BOOLEAN

VARIABLES
  keys,       \* typed and still in the terminal
  ahead,      \* what stdio has read of the terminal and fgets not returned
  eof,        \* the terminal hung up: a read gives nothing, wgetch gives ERR
  buf, i,     \* input_buffer and its index in handle_input
  boxes,      \* input windows created and not deleted
  cursor,     \* curs_set
  announced,  \* what poll found readable; forgotten when the loop goes round
  unread,     \* the host's pieces that wait in the socket
  link,       \* the connection, as in HeadlessClient
  host,       \* "sending" while the host is in send to this client
  pc, exit

kbdVars  == <<keys, ahead, eof>>
boxVars  == <<buf, i, boxes, cursor>>
netVars  == <<unread, link, host>>
mainVars == <<ahead, boxVars, announced, pc, exit>>
ncursesVars == <<kbdVars, boxVars, announced, netVars, pc, exit>>

Keys  == {"F1", "ESC", "q", "NL", "BACKSPACE", "char", "NUL"}
Links == {"none", "up", "fin", "reset", "dead"}
PCs   == {"start", "ui", "poll", "sock", "master", "box", "fgets", "exit"}
SetupErrors == {"F_GETFL", "F_SETFL", "SOCKET_OPEN_FAIL", "NO_HOST", "CONNECT_FAIL"}
UiErrors    == {"NULL_MASTER", "NULL_BORDER", "NULL_INPUT", "NO_COLORS_IS_LAME"}
Exits == {"none", "SUCCESS", "POLL_ERROR", "SERVER_CLOSE", "SIGPIPE", "CRASH"}
         \cup SetupErrors \cup UiErrors

Empty == [j \in 0 .. SIZE - 1 |-> "NUL"]

NcursesInit ==
  /\ keys = <<>> /\ ahead = <<>> /\ eof = FALSE
  /\ buf = Empty /\ i = 0 /\ boxes = 0 /\ cursor = TRUE
  /\ announced = {} /\ unread = 0 /\ link = "none" /\ host = "idle"
  /\ pc = "start" /\ exit = "none"

Goto(l)    == pc' = l /\ UNCHANGED <<announced, exit>>
GoRound    == pc' = "poll" /\ announced' = {} /\ UNCHANGED exit
Exit(code) == pc' = "exit" /\ exit' = code /\ announced' = {}

-----------------------------------------------------------------------------
(* main: set-up, poll, the socket                                          *)

Connects ==
  /\ pc = "start"
  /\ Goto("ui") /\ link' = "up"
  /\ UNCHANGED <<kbdVars, boxVars, unread, host>>

SetupFails ==
  /\ pc = "start"
  /\ \E code \in SetupErrors : Exit(code)
  /\ UNCHANGED <<kbdVars, boxVars, netVars>>

\* init_ncurses, init_colors and create_master_win.
InitUi ==
  /\ pc = "ui"
  /\ Goto("poll") /\ cursor' = FALSE
  /\ UNCHANGED <<kbdVars, buf, i, boxes, netVars>>

\* A terminal without colours, or no memory for the window; the cursor is
\* hidden by then and nobody shows it again.
InitUiFails ==
  /\ pc = "ui"
  /\ \E code \in {"NO_COLORS_IS_LAME", "NULL_MASTER"} : Exit(code)
  /\ cursor' = FALSE
  /\ UNCHANGED <<kbdVars, buf, i, boxes, netVars>>

\* poll sees the terminal, not what stdio has read of it.
Readable ==
  {f \in {"stdin", "sock"} : IF f = "stdin" THEN keys # <<>> \/ eof
                                            ELSE unread > 0 \/ link # "up"}

Poll_KeysFirst ==                          \* mutant: a key puts the socket off
  /\ pc = "poll" /\ Readable # {}
  /\ announced' = Readable
  /\ pc' = (IF "stdin" \in Readable THEN "master" ELSE "sock")
  /\ UNCHANGED <<kbdVars, boxVars, netVars, exit>>

Poll ==
  /\ pc = "poll" /\ Readable # {}
  /\ announced' = Readable
  /\ pc' = (IF "sock" \in Readable THEN "sock" ELSE "master")
  /\ UNCHANGED <<kbdVars, boxVars, netVars, exit>>

PollFails ==
  /\ pc = "poll"
  /\ Exit("POLL_ERROR")
  /\ UNCHANGED <<kbdVars, boxVars, netVars>>

Receive ==
  /\ pc = "sock" /\ unread > 0
  /\ unread' = unread - 1
  /\ Goto("master")
  /\ UNCHANGED <<kbdVars, boxVars, link, host>>

\* mvwprintw takes the host's text for its format: undefined behaviour.
ReceiveCrashes ==
  /\ pc = "sock" /\ unread > 0 /\ Percent
  /\ Exit("CRASH")
  /\ UNCHANGED <<kbdVars, boxVars, netVars>>

ReceiveError ==
  /\ pc = "sock" /\ unread = 0 /\ link = "reset"
  /\ link' = "dead"
  /\ Goto("master")
  /\ UNCHANGED <<kbdVars, boxVars, unread, host>>

HostClosed_Ignored ==                      \* mutant: 0 taken for an error
  /\ pc = "sock" /\ unread = 0 /\ link \in {"fin", "dead"}
  /\ Goto("master")
  /\ UNCHANGED <<kbdVars, boxVars, netVars>>

HostClosed ==
  /\ pc = "sock" /\ unread = 0 /\ link \in {"fin", "dead"}
  /\ Exit("SERVER_CLOSE")
  /\ UNCHANGED <<kbdVars, boxVars, netVars>>

-----------------------------------------------------------------------------
(* main: wgetch and the input box                                          *)

\* wgetch waits for a key; after a hangup it gives ERR at once.
wgetch(S) ==
  \/ keys # <<>> /\ Head(keys) \in S /\ keys' = Tail(keys)
  \/ keys = <<>> /\ eof /\ "ERR" \in S /\ UNCHANGED keys

create_input_box  == boxes' = boxes + 1 /\ cursor' = TRUE
destroy_input_box == boxes' = boxes - 1 /\ cursor' = FALSE

Quit ==
  /\ pc = "master"
  /\ wgetch({"q", "ESC"})
  /\ Exit("SUCCESS")
  /\ UNCHANGED <<ahead, eof, boxVars, netVars>>

OpenBox ==
  /\ pc = "master"
  /\ wgetch({"F1"})
  /\ create_input_box /\ buf' = Empty /\ i' = 0
  /\ Goto("box")
  /\ UNCHANGED <<ahead, eof, netVars>>

\* newwin returns NULL for the border or the box.
OpenBoxFails ==
  /\ pc = "master"
  /\ wgetch({"F1"})
  /\ \E code \in {"NULL_BORDER", "NULL_INPUT"} : Exit(code)
  /\ UNCHANGED <<ahead, eof, boxVars, netVars>>

IgnoreKey ==
  /\ pc = "master"
  /\ wgetch({"NL", "BACKSPACE", "char", "NUL", "ERR"})
  /\ GoRound
  /\ UNCHANGED <<ahead, eof, boxVars, netVars>>

Rubout_Keeps == i' = i - 1 /\ UNCHANGED buf           \* mutant: not zeroed
Rubout       == i' = i - 1 /\ buf' = [buf EXCEPT ![i - 1] = "NUL"]

HasSpace_OffByOne == i < SIZE                              \* mutant
HasSpace          == i < SIZE - 1

Store(c) ==
  IF HasSpace THEN i' = i + 1 /\ buf' = [buf EXCEPT ![i] = c] ELSE UNCHANGED <<buf, i>>

Edit ==
  /\ pc = "box"
  /\ \/ wgetch({"BACKSPACE"}) /\ IF i > 0 THEN Rubout ELSE UNCHANGED <<buf, i>>
     \/ wgetch({"q", "char", "ERR"}) /\ Store("char")
     \/ wgetch({"NUL"}) /\ Store("NUL")
  /\ UNCHANGED <<ahead, eof, boxes, cursor, announced, netVars, pc, exit>>

LeaveBox == buf' = Empty /\ i' = 0

Cancel_Leaks ==                            \* mutant: only ENTER deletes the box
  /\ pc = "box"
  /\ wgetch({"F1", "ESC", "NL"})
  /\ LeaveBox /\ UNCHANGED <<boxes, cursor>>
  /\ GoRound
  /\ UNCHANGED <<ahead, eof, netVars>>

\* F1 or ESC, or malloc fails on ENTER: handle_input returns NULL.
Cancel ==
  /\ pc = "box"
  /\ wgetch({"F1", "ESC", "NL"})
  /\ LeaveBox /\ destroy_input_box
  /\ GoRound
  /\ UNCHANGED <<ahead, eof, netVars>>

\* ENTER: the message is posted to the feed; what poll said before the box was
\* opened decides whether fgets reads another line.
Post ==
  /\ pc = "box"
  /\ wgetch({"NL"})
  /\ LeaveBox
  /\ IF "stdin" \in announced
     THEN Goto("fgets") /\ UNCHANGED <<boxes, cursor>>
     ELSE GoRound /\ destroy_input_box
  /\ UNCHANGED <<ahead, eof, netVars>>

-----------------------------------------------------------------------------
(* main: fgets and send                                                    *)

\* Where fgets may stop in stdio's buffer, and does at the first: after a
\* newline or at MAX_LINE characters.
Stops == {e \in 1 .. Len(ahead) : ahead[e] = "NL" \/ e = MAX_LINE}

\* fgets needs more: stdio reads all that the terminal has.
Refill ==
  /\ pc = "fgets" /\ Stops = {} /\ keys # <<>>
  /\ ahead' = ahead \o [n \in 1 .. Len(keys) |-> IF keys[n] = "NL" THEN "NL" ELSE "char"]
  /\ keys' = <<>>
  /\ UNCHANGED <<eof, boxVars, announced, netVars, pc, exit>>

\* send's result is ignored.  A host that has gone answers the data with a
\* reset, sooner or later; the first send behind the reset fails, the next one
\* raises SIGPIPE.
Send ==
  \/ /\ link \in {"up", "fin"} /\ UNCHANGED link
     /\ destroy_input_box /\ GoRound
  \/ /\ link \in {"fin", "reset"} /\ link' = "dead"
     /\ destroy_input_box /\ GoRound
  \/ link = "dead" /\ Exit("SIGPIPE") /\ UNCHANGED <<link, boxes, cursor>>

SendLine ==
  /\ pc = "fgets"
  /\ \E e \in Stops : /\ \A f \in Stops : e <= f
                     /\ ahead' = SubSeq(ahead, e + 1, Len(ahead))
  /\ Send
  /\ UNCHANGED <<keys, eof, buf, i, unread, host>>

FgetsAtEof == pc = "fgets" /\ eof /\ keys = <<>> /\ Stops = {}

SendRest ==
  /\ FgetsAtEof /\ ahead # <<>>
  /\ ahead' = <<>>
  /\ Send
  /\ UNCHANGED <<keys, eof, buf, i, unread, host>>

\* fgets returns NULL: break leaves the switch, past destroy_input_box.
FgetsNull ==
  /\ FgetsAtEof /\ ahead = <<>>
  /\ GoRound
  /\ UNCHANGED <<kbdVars, boxVars, netVars>>

MainNext ==
  \/ Connects \/ InitUi \/ Poll \/ Receive \/ ReceiveError \/ HostClosed
  \/ Quit \/ OpenBox \/ IgnoreKey \/ Edit \/ Cancel \/ Post
  \/ Refill \/ SendLine \/ SendRest \/ FgetsNull

Failure == SetupFails \/ InitUiFails \/ PollFails \/ ReceiveCrashes \/ OpenBoxFails

-----------------------------------------------------------------------------
(* The user and the host                                                   *)

Type(k) ==
  /\ ~eof /\ pc # "exit" /\ Len(keys) < MaxQueue
  /\ keys' = Append(keys, k)
  /\ UNCHANGED <<eof, netVars, mainVars>>

TerminalHangup ==
  /\ ~eof /\ pc # "exit"
  /\ eof' = TRUE
  /\ UNCHANGED <<keys, netVars, mainVars>>

HostSends ==
  /\ host = "idle" /\ link = "up" /\ pc # "exit"
  /\ host' = "sending"
  /\ UNCHANGED <<keys, eof, unread, link, mainVars>>

\* send returns when the kernel has taken the piece.
HostSent ==
  /\ host = "sending" /\ unread < RcvBuf /\ pc # "exit"
  /\ host' = "idle" /\ unread' = unread + 1
  /\ UNCHANGED <<keys, eof, link, mainVars>>

HostCloses ==
  /\ link = "up" /\ pc # "exit"
  /\ link' \in {"fin", "reset"} /\ host' = "idle"
  /\ UNCHANGED <<keys, eof, unread, mainVars>>

NcursesNext ==
  \/ MainNext \/ Failure
  \/ \E k \in Keys : Type(k)
  \/ TerminalHangup \/ HostSends \/ HostSent \/ HostCloses

NcursesSpec == NcursesInit /\ [][NcursesNext]_ncursesVars

\* main takes every step it can and the kernel completes the host's send; the
\* user, the host and the failing calls need not act.
NcursesFairSpec == NcursesSpec /\ WF_ncursesVars(MainNext) /\ WF_ncursesVars(HostSent)

-----------------------------------------------------------------------------
(* Properties                                                              *)

\* The types; the index of handle_input stays inside the buffer.
NcursesTypeOK ==
  /\ keys \in Seq(Keys) /\ ahead \in Seq({"NL", "char"}) /\ eof \in BOOLEAN
  /\ buf \in [0 .. SIZE - 1 -> {"char", "NUL"}] /\ i \in 0 .. SIZE - 1
  /\ boxes \in Nat /\ cursor \in BOOLEAN
  /\ announced \subseteq {"stdin", "sock"}
  /\ unread \in 0 .. RcvBuf /\ link \in Links /\ host \in {"idle", "sending"}
  /\ pc \in PCs /\ exit \in Exits

\* Whatever is typed and rubbed out, the text in the buffer is terminated: what
\* lies behind the index is zero, so the i + 1 bytes ENTER copies end in one.
TextTerminated == \A j \in i .. SIZE - 1 : buf[j] = "NUL"

\* Outside the input box its window is deleted and the cursor hidden: a box is
\* left behind only by a break at the end of the input.
Boxed == pc \in {"box", "fgets"}

BoxesDeleted ==
  pc \notin {"start", "ui", "exit"} /\ ~eof =>
    IF Boxed THEN boxes = 1 /\ cursor = TRUE ELSE boxes = 0 /\ cursor = FALSE

\* main may wait in wgetch or fgets for as long as the user likes, and until
\* then the host may hang in its send to this client. But as long as keys bring
\* main back to poll, each time round frees the host.
HostGetsOn == (host = "sending") ~> (host = "idle" \/ pc = "exit" \/ [](pc # "poll"))

\* Once the host has closed, main comes back to poll only finitely often.
CloseSeen == (link \in {"fin", "reset", "dead"}) ~> [](pc # "poll")

=============================================================================
