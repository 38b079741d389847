------------------------- MODULE NcursesClientProofs -------------------------
(***************************************************************************)
(* Theorems about the ncurses client, for any size of the input buffer,    *)
(* any keys and any host.  The invariant is proved in four parts that the  *)
(* steps change independently: the keyboard, the buffer of handle_input,   *)
(* the connection, and main's control with the box's window.               *)
(*                                                                         *)
(* TextTerminated and BoxesDeleted are not inductive alone: the first      *)
(* needs the index inside the buffer, the second that a box is there       *)
(* whenever main is about to delete one (BoxAtHand).                       *)
(***************************************************************************)
EXTENDS NcursesClient, TLAPS

\* The box that destroy_input_box is given exists.
BoxAtHand ==
  /\ Boxed => boxes > 0
  /\ pc \in {"start", "ui"} => boxes = 0

KeysOK == keys \in Seq(Keys) /\ ahead \in Seq({"NL", "char"})
BufOK  == /\ buf \in [0 .. SIZE - 1 -> {"char", "NUL"}] /\ i \in 0 .. SIZE - 1
          /\ TextTerminated
NetOK  == unread \in 0 .. RcvBuf /\ link \in Links /\ host \in {"idle", "sending"}
CtlOK  == /\ eof \in BOOLEAN /\ boxes \in Nat /\ cursor \in BOOLEAN
          /\ announced \subseteq {"stdin", "sock"} /\ pc \in PCs /\ exit \in Exits
          /\ BoxesDeleted /\ BoxAtHand

Inv == KeysOK /\ BufOK /\ NetOK /\ CtlOK

-----------------------------------------------------------------------------
(* The keyboard                                                            *)

\* wgetch takes the first key, if it takes one.
LEMMA GetchKeys ==
  ASSUME KeysOK, NEW S, wgetch(S), UNCHANGED ahead
  PROVE  KeysOK'
<1>1. CASE keys' = keys
  BY <1>1 DEF KeysOK
<1>2. CASE keys # <<>> /\ keys' = Tail(keys)
  BY <1>2 DEF KeysOK
<1>3. QED
  BY <1>1, <1>2 DEF wgetch

\* Whoever reads the keyboard, what is left of it are keys.
LEMMA KeysStep ==
  ASSUME KeysOK, [NcursesNext]_ncursesVars
  PROVE  KeysOK'
<1>1. CASE UNCHANGED <<keys, ahead>>
  BY <1>1 DEF KeysOK
<1>2. CASE Quit \/ OpenBox \/ OpenBoxFails \/ IgnoreKey \/ Cancel \/ Post
  BY <1>2, GetchKeys DEF Quit, OpenBox, OpenBoxFails, IgnoreKey, Cancel, Post
<1>3. CASE Edit
  BY <1>3, GetchKeys DEF Edit
<1>4. CASE Refill
  <2> DEFINE read == [n \in 1 .. Len(keys) |-> IF keys[n] = "NL" THEN "NL" ELSE "char"]
  <2>1. read \in Seq({"NL", "char"})
    BY DEF KeysOK
  <2>2. keys' = <<>> /\ ahead' = ahead \o read
    BY <1>4 DEF Refill
  <2>3. QED
    BY <2>1, <2>2 DEF KeysOK
<1>5. CASE SendLine
  <2>1. PICK e \in 1 .. Len(ahead) : ahead' = SubSeq(ahead, e + 1, Len(ahead))
    BY <1>5 DEF SendLine, Stops
  <2>2. ahead' \in Seq({"NL", "char"})
    BY <2>1 DEF KeysOK
  <2>3. QED
    BY <1>5, <2>2 DEF KeysOK, SendLine
<1>6. CASE SendRest
  BY <1>6 DEF KeysOK, SendRest
<1>7. CASE \E k \in Keys : Type(k)
  BY <1>7 DEF KeysOK, Type, mainVars
<1>8. QED
  BY <1>1, <1>2, <1>3, <1>4, <1>5, <1>6, <1>7
     DEF NcursesNext, MainNext, Failure, Connects, SetupFails, InitUi, InitUiFails, Poll,
         PollFails, Receive, ReceiveCrashes, ReceiveError, HostClosed, FgetsNull,
         TerminalHangup, HostSends, HostSent, HostCloses, ncursesVars, kbdVars, mainVars

-----------------------------------------------------------------------------
(* The buffer of handle_input                                              *)

\* A zeroed buffer.
LEMMA EmptyBuf ==
  ASSUME buf' = Empty, i' = 0
  PROVE  BufOK'
BY NcursesAssumption DEF BufOK, TextTerminated, Empty

\* A key stored at the index, or rubbed out below it.
LEMMA EditBuf ==
  ASSUME BufOK, Edit
  PROVE  BufOK'
<1>1. CASE UNCHANGED <<buf, i>>
  BY <1>1 DEF BufOK, TextTerminated
<1>2. CASE i > 0 /\ Rubout
  BY <1>2, NcursesAssumption DEF BufOK, TextTerminated, Rubout
<1>3. ASSUME NEW k \in {"char", "NUL"}, HasSpace, i' = i + 1, buf' = [buf EXCEPT ![i] = k]
      PROVE  BufOK'
  BY <1>3, NcursesAssumption DEF BufOK, TextTerminated, HasSpace
<1>4. QED
  BY <1>1, <1>2, <1>3 DEF Edit, Store

LEMMA BufStep ==
  ASSUME BufOK, [NcursesNext]_ncursesVars
  PROVE  BufOK'
<1>1. CASE UNCHANGED <<buf, i>>
  BY <1>1 DEF BufOK, TextTerminated
<1>2. CASE OpenBox \/ Cancel \/ Post
  BY <1>2, EmptyBuf DEF OpenBox, Cancel, Post, LeaveBox
<1>3. CASE Edit
  BY <1>3, EditBuf
<1>4. QED
  BY <1>1, <1>2, <1>3
     DEF NcursesNext, MainNext, Failure, Connects, SetupFails, InitUi, InitUiFails, Poll,
         PollFails, Receive, ReceiveCrashes, ReceiveError, HostClosed, Quit,
         OpenBoxFails, IgnoreKey, Refill, SendLine, SendRest, FgetsNull, Type,
         TerminalHangup, HostSends, HostSent, HostCloses, ncursesVars, boxVars, mainVars

-----------------------------------------------------------------------------
(* The connection                                                          *)

LEMMA NetStep ==
  ASSUME NetOK, [NcursesNext]_ncursesVars
  PROVE  NetOK'
<1>1. CASE UNCHANGED netVars
  BY <1>1 DEF NetOK, netVars
<1>2. CASE Connects \/ ReceiveError
  BY <1>2 DEF NetOK, Connects, ReceiveError, Links
<1>3. CASE Receive
  BY <1>3, NcursesAssumption DEF NetOK, Receive
<1>4. CASE SendLine \/ SendRest
  BY <1>4 DEF NetOK, SendLine, SendRest, Send, Links
<1>5. CASE HostSends \/ HostSent \/ HostCloses
  BY <1>5, NcursesAssumption DEF NetOK, HostSends, HostSent, HostCloses, Links
<1>6. QED
  BY <1>1, <1>2, <1>3, <1>4, <1>5
     DEF NcursesNext, MainNext, Failure, SetupFails, InitUi, InitUiFails, Poll, PollFails,
         ReceiveCrashes, HostClosed, Quit, OpenBox, OpenBoxFails, IgnoreKey, Edit,
         Cancel, Post, Refill, FgetsNull, Type, TerminalHangup, ncursesVars

-----------------------------------------------------------------------------
(* Main's control and the box's window                                     *)

USE DEF CtlOK, BoxesDeleted, BoxAtHand, Boxed, PCs

\* The way out of the program.
LEMMA ExitCtl ==
  ASSUME CtlOK, NEW code \in Exits, Exit(code), UNCHANGED <<eof, boxes>>, cursor' \in BOOLEAN
  PROVE  CtlOK'
BY DEF Exit

\* Back to poll with no box open, or with it deleted.
LEMMA RoundCtl ==
  ASSUME CtlOK, GoRound, UNCHANGED eof,
         \/ ~Boxed /\ pc \notin {"start", "ui", "exit"} /\ UNCHANGED <<boxes, cursor>>
         \/ Boxed /\ destroy_input_box
  PROVE  CtlOK'
<1>1. CASE ~Boxed /\ pc \notin {"start", "ui", "exit"} /\ UNCHANGED <<boxes, cursor>>
  BY <1>1 DEF GoRound
<1>2. CASE Boxed /\ destroy_input_box
  <2>1. boxes \in Nat /\ boxes > 0 /\ (~eof => boxes = 1)
    BY <1>2
  <2>2. boxes' \in Nat /\ cursor' = FALSE /\ (~eof => boxes' = 0)
    BY <1>2, <2>1 DEF destroy_input_box
  <2>3. QED
    BY <2>2 DEF GoRound
<1>3. QED
  BY <1>1, <1>2

LEMMA SocketCtl ==
  ASSUME CtlOK, Connects \/ InitUi \/ Poll \/ Receive \/ ReceiveError
  PROVE  CtlOK'
<1>1. CASE Connects \/ InitUi
  BY <1>1 DEF Connects, InitUi, Goto, kbdVars, boxVars
<1>2. CASE Poll
  BY <1>2 DEF Poll, Readable, kbdVars, boxVars
<1>3. CASE Receive \/ ReceiveError
  BY <1>3 DEF Receive, ReceiveError, Goto, kbdVars, boxVars
<1>4. QED
  BY <1>1, <1>2, <1>3

LEMMA ExitsCtl ==
  ASSUME CtlOK,
         SetupFails \/ InitUiFails \/ PollFails \/ ReceiveCrashes \/ HostClosed \/ Quit
           \/ OpenBoxFails
  PROVE  CtlOK'
<1>1. UNCHANGED <<eof, boxes>> /\ cursor' \in BOOLEAN
  BY DEF SetupFails, InitUiFails, PollFails, ReceiveCrashes, HostClosed, Quit,
         OpenBoxFails, kbdVars, boxVars
<1>2. \E code \in Exits : Exit(code)
  BY DEF SetupFails, InitUiFails, PollFails, ReceiveCrashes, HostClosed, Quit,
         OpenBoxFails, Exits, SetupErrors, UiErrors
<1>3. QED
  BY <1>1, <1>2, ExitCtl

LEMMA BoxCtl ==
  ASSUME CtlOK, OpenBox \/ IgnoreKey \/ Edit \/ Cancel \/ Post
  PROVE  CtlOK'
<1>1. CASE OpenBox
  BY <1>1 DEF OpenBox, create_input_box, Goto
<1>2. CASE IgnoreKey
  BY <1>2, RoundCtl DEF IgnoreKey, boxVars
<1>3. CASE Edit
  BY <1>3 DEF Edit
<1>4. CASE Cancel
  BY <1>4, RoundCtl DEF Cancel
<1>5. CASE Post
  <2>1. CASE "stdin" \in announced
    BY <1>5, <2>1 DEF Post, Goto
  <2>2. CASE "stdin" \notin announced
    BY <1>5, <2>2, RoundCtl DEF Post
  <2>3. QED
    BY <2>1, <2>2
<1>6. QED
  BY <1>1, <1>2, <1>3, <1>4, <1>5

\* A break at the end of the input leaves the box; the end is there by then.
LEMMA FgetsCtl ==
  ASSUME CtlOK, Refill \/ SendLine \/ SendRest \/ FgetsNull
  PROVE  CtlOK'
<1>1. CASE Refill
  BY <1>1 DEF Refill, boxVars
<1>2. CASE SendLine \/ SendRest
  <2>1. Boxed /\ Send /\ UNCHANGED eof
    BY <1>2 DEF SendLine, SendRest, FgetsAtEof
  <2>2. CASE GoRound /\ destroy_input_box
    BY <2>1, <2>2, RoundCtl
  <2>3. CASE Exit("SIGPIPE") /\ UNCHANGED <<boxes, cursor>>
    BY <2>1, <2>3, ExitCtl DEF Exits
  <2>4. QED
    BY <2>1, <2>2, <2>3 DEF Send
<1>3. CASE FgetsNull
  BY <1>3 DEF FgetsNull, FgetsAtEof, GoRound, kbdVars, boxVars
<1>4. QED
  BY <1>1, <1>2, <1>3

LEMMA WorldCtl ==
  ASSUME CtlOK,
         (\E k \in Keys : Type(k)) \/ TerminalHangup \/ HostSends \/ HostSent \/ HostCloses
           \/ UNCHANGED ncursesVars
  PROVE  CtlOK'
BY DEF Type, TerminalHangup, HostSends, HostSent, HostCloses, ncursesVars, kbdVars, boxVars, mainVars

LEMMA CtlStep ==
  ASSUME CtlOK, [NcursesNext]_ncursesVars
  PROVE  CtlOK'
BY SocketCtl, ExitsCtl, BoxCtl, FgetsCtl, WorldCtl DEF NcursesNext, MainNext, Failure

-----------------------------------------------------------------------------
\* The index stays in the buffer, the text ENTER copies is terminated, and the
\* box is deleted on every way out but the break at the end of the input,
\* whatever keys come and whatever the host and the failing calls do.
THEOREM NcursesCorrect ==
  NcursesSpec => [](NcursesTypeOK /\ TextTerminated /\ BoxesDeleted)
<1>1. NcursesInit => Inv
  <2> SUFFICES ASSUME NcursesInit PROVE Inv
    OBVIOUS
  <2>0. KeysOK
    BY DEF NcursesInit, KeysOK
  <2>1. CtlOK
    <3>1. exit \in Exits
      BY DEF NcursesInit, Exits
    <3>2. QED
      BY <3>1 DEF NcursesInit
  <2>2. BufOK
    BY NcursesAssumption DEF NcursesInit, BufOK, TextTerminated, Empty
  <2>3. NetOK
    BY NcursesAssumption DEF NcursesInit, NetOK, Links
  <2>4. QED
    BY <2>0, <2>1, <2>2, <2>3 DEF Inv
<1>2. Inv /\ [NcursesNext]_ncursesVars => Inv'
  BY KeysStep, BufStep, NetStep, CtlStep DEF Inv
<1>3. Inv => NcursesTypeOK /\ TextTerminated /\ BoxesDeleted
  BY DEF Inv, KeysOK, BufOK, NetOK, NcursesTypeOK
<1>4. QED
  BY <1>1, <1>2, <1>3, PTL DEF NcursesSpec
=============================================================================
