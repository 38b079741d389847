------------------------ MODULE HeadlessClientProofs ------------------------
(***************************************************************************)
(* Theorems about the headless client, for any buffer sizes, any kind of   *)
(* standard input and any host.  What the properties say of the bytes sent *)
(* rests on four facts about where main is in its input: the kernel's      *)
(* buffer never holds more than it can (SendBufferBound), no more was sent *)
(* than used (SentBound), main starts with nothing used (NothingYet), and  *)
(* fgets always goes on at the head of a piece, unless the input is over   *)
(* (AtPiece).                                                              *)
(***************************************************************************)
EXTENDS HeadlessClient, SequenceTheorems, TLAPS

SendBufferBound == Len(sent) - got <= SndBuf
SentBound       == Len(sent) <= used
NothingYet      == pc = "start" => took = 0 /\ used = 0 /\ sent = <<>> /\ link = "none"
InputOver       == closed \/ (kind = "file" /\ pc # "start")
AtPiece         == PieceStart(used + 1) \/ (InputOver /\ used = typed)

InOK  == /\ kind \in {"tty", "pipe", "file"} /\ closed \in BOOLEAN
         /\ typed \in Nat /\ took \in 0 .. typed /\ used \in 0 .. took
         /\ newlines \subseteq 1 .. typed /\ nuls \subseteq 1 .. typed
OutOK == /\ sent \in Seq(1 .. used) /\ got \in 0 .. Len(sent)
         /\ SendBufferBound /\ SentBound /\ SentInOrder
CtlOK == /\ posted \in Nat /\ shown \in 0 .. posted
         /\ link \in Links /\ revents \subseteq {"stdin", "sock"}
         /\ pc \in PCs /\ exit \in Exits /\ NothingYet

Inv == InOK /\ OutOK /\ CtlOK

-----------------------------------------------------------------------------
(* Standard input: fgets and read stay inside what was typed               *)

LEMMA RefillIn ==
  ASSUME InOK, Refill
  PROVE  InOK'
<1>1. PICK n \in Offered : took' = took + Least(n - took, STDIO)
  BY DEF Refill
<1>2. n \in Nat /\ took < n /\ n <= typed
  BY DEF InOK, Offered, NewLines, Refill
<1>3. took' \in took .. typed
  BY <1>1, <1>2, HeadlessAssumption DEF InOK, Least
<1>4. QED
  BY <1>3 DEF InOK, Refill, stdinVars

LEMMA InStep ==
  ASSUME InOK, [Next]_vars
  PROVE  InOK'
<1>1. CASE UNCHANGED <<stdinVars, took, used>>
  BY <1>1 DEF InOK, stdinVars
<1>2. CASE Refill
  BY <1>2, RefillIn
<1>3. CASE SendLine
  <2>1. used' \in used + 1 .. took
    BY <1>3 DEF SendLine, Ends
  <2>2. took' = took
    BY <1>3 DEF SendLine
  <2>3. QED
    BY <1>3, <2>1, <2>2 DEF InOK, SendLine, stdinVars
<1>4. CASE SendRest
  BY <1>4 DEF InOK, SendRest, stdinVars
<1>5. CASE \E k \in 1 .. MaxTyped, line \in BOOLEAN : Type(k, line)
  <2>1. PICK k \in 1 .. MaxTyped, line \in BOOLEAN : Type(k, line)
    BY <1>5
  <2>2. typed' = typed + k /\ newlines' \subseteq newlines \cup {typed + k}
    BY <2>1 DEF Type
  <2>3. UNCHANGED <<kind, closed, took, used>>
    BY <2>1 DEF Type, mainVars
  <2>4. nuls' \subseteq nuls \cup (typed + 1 .. typed + k)
    BY <2>1 DEF Type
  <2>5. QED
    BY <2>2, <2>3, <2>4, HeadlessAssumption DEF InOK
<1>6. CASE CloseInput
  BY <1>6 DEF InOK, CloseInput, mainVars
<1>7. QED
  BY <1>1, <1>2, <1>3, <1>4, <1>5, <1>6
     DEF Next, Main, Step, World, Connects, SetupFails, Poll, PollFails, InputEnds,
         Receive, ReceiveError, HostClosed, HostPosts, HostReceives, HostCloses,
         ResetArrives, vars, mainVars

-----------------------------------------------------------------------------
(* What send hands to the kernel                                           *)

\* The bytes send accepts of the w it is offered, appended to those it accepted
\* before.
LEMMA SendBytes ==
  ASSUME InOK, OutOK, NEW e \in used + 1 .. took, NEW w \in 0 .. e - used,
         sent' = sent \o Accepted(w)
  PROVE  LET n == Least(w, Room) IN
         /\ n \in Nat /\ n <= w /\ n <= SndBuf - (Len(sent) - got)
         /\ n = w \/ n = SndBuf - (Len(sent) - got)
         /\ Len(sent) \in Nat
         /\ sent' \in Seq(1 .. e) /\ Len(sent') = Len(sent) + n
         /\ \A j \in 1 .. Len(sent) : sent'[j] = sent[j]
         /\ \A j \in Len(sent) + 1 .. Len(sent) + n : sent'[j] = used + (j - Len(sent))
<1> DEFINE n == Least(w, Room)
           a == [j \in 1 .. n |-> used + j]
<1>1. /\ used \in Nat /\ e \in Nat /\ e > used /\ Len(sent) \in Nat /\ got \in Nat
      /\ w \in Nat /\ w <= e - used
  BY LenProperties DEF InOK, OutOK
<1>2. Room \in Nat /\ Room = SndBuf - (Len(sent) - got)
  BY <1>1, HeadlessAssumption DEF Room, OutOK, SendBufferBound
<1>3. n \in Nat /\ n <= w /\ n <= Room /\ (n = w \/ n = Room)
  BY <1>1, <1>2 DEF Least
<1>4. a \in Seq(1 .. e) /\ Len(a) = n
  <2>1. \A j \in 1 .. n : used + j \in 1 .. e
    BY <1>1, <1>3
  <2>2. a \in [1 .. n -> 1 .. e]
    BY <2>1
  <2>3. a \in Seq(1 .. e)
    <3> HIDE DEF n, a
    <3>1. n \in Nat /\ a \in [1 .. n -> 1 .. e]
      BY <1>3, <2>2, Zenon
    <3>2. a \in UNION {[1 .. m -> 1 .. e] : m \in Nat}
      BY <3>1, Zenon
    <3>3. QED
      BY <3>2, SeqDef, Zenon
  <2>4. Len(a) \in Nat /\ DOMAIN a = 1 .. Len(a)
    BY <2>3, LenProperties, Zenon
  <2>5. DOMAIN a = 1 .. n
    OBVIOUS
  <2>6. Len(a) = n
    <3> HIDE DEF n, a
    <3>1. n \in Nat /\ Len(a) \in Nat /\ 1 .. n = 1 .. Len(a)
      BY <1>3, <2>4, <2>5, Zenon
    <3>2. (n > 0 => n \in 1 .. Len(a)) /\ (Len(a) > 0 => Len(a) \in 1 .. n)
      <4>1. (n > 0 => n \in 1 .. n) /\ (Len(a) > 0 => Len(a) \in 1 .. Len(a))
        BY <3>1
      <4>2. QED
        BY <3>1, <4>1, Zenon
    <3>3. QED
      BY <3>1, <3>2
  <2>7. QED
    BY <2>3, <2>6, Zenon
<1>5. sent \in Seq(1 .. e)
  <2>1. 1 .. used \subseteq 1 .. e
    BY <1>1
  <2>2. QED
    BY <2>1, SeqMonotonic DEF OutOK
<1>6. sent' = sent \o a
  BY DEF Accepted
<1>7. /\ sent' \in Seq(1 .. e) /\ Len(sent') = Len(sent) + n
      /\ \A j \in 1 .. Len(sent) + n :
           sent'[j] = IF j <= Len(sent) THEN sent[j] ELSE a[j - Len(sent)]
  <2> HIDE DEF n, a
  <2>1. a \in Seq(1 .. e) /\ Len(a) = n
    BY <1>4
  <2>2. /\ sent \o a \in Seq(1 .. e)
        /\ Len(sent \o a) = Len(sent) + Len(a)
        /\ \A j \in 1 .. Len(sent) + Len(a) :
             (sent \o a)[j] = IF j <= Len(sent) THEN sent[j] ELSE a[j - Len(sent)]
    BY <2>1, <1>5, ConcatProperties, Zenon
  <2>3. QED
    BY <2>1, <2>2, <1>6, Zenon
<1>8. \A j \in Len(sent) + 1 .. Len(sent) + n : sent'[j] = used + (j - Len(sent))
  <2> TAKE j \in Len(sent) + 1 .. Len(sent) + n
  <2>1. j \in 1 .. Len(sent) + n /\ ~(j <= Len(sent)) /\ j - Len(sent) \in 1 .. n
    BY <1>1, <1>3
  <2>2. QED
    BY <1>7, <2>1
<1>9. \A j \in 1 .. Len(sent) : sent'[j] = sent[j]
  BY <1>1, <1>3, <1>7
<1>10. QED
  BY <1>1, <1>2, <1>3, <1>7, <1>8, <1>9

\* What the kernel may do with a piece: take the front of it, or refuse.
LEMMA SendCases ==
  ASSUME InOK, OutOK, NEW e \in used + 1 .. took, Send(e)
  PROVE  \/ /\ link \in {"up", "fin"} /\ UNCHANGED link
            /\ \E w \in 0 .. e - used : IsStrlen(w, e) /\ sent' = sent \o Accepted(w)
         \/ link' \notin {"up", "fin"} /\ UNCHANGED sent
BY DEF Send

\* A piece handed to send, taken in part or in full, or refused.
LEMMA SendOut ==
  ASSUME InOK, OutOK, NEW e \in used + 1 .. took, Send(e), used' = e, got' = got
  PROVE  OutOK'
<1>0. used \in Nat /\ e \in Nat /\ e > used /\ Len(sent) \in Nat /\ got \in 0 .. Len(sent)
  BY LenProperties DEF InOK, OutOK
<1>1. ASSUME NEW w \in 0 .. e - used, sent' = sent \o Accepted(w)
      PROVE  OutOK'
  <2> DEFINE n == Least(w, Room)
  <2>1. /\ n \in Nat /\ n <= w /\ n <= SndBuf - (Len(sent) - got)
        /\ sent' \in Seq(1 .. e) /\ Len(sent') = Len(sent) + n
        /\ \A j \in 1 .. Len(sent) : sent'[j] = sent[j]
        /\ \A j \in Len(sent) + 1 .. Len(sent) + n : sent'[j] = used + (j - Len(sent))
    BY <1>1, SendBytes
  <2> HIDE DEF n
  <2>2. sent' \in Seq(1 .. used') /\ got' \in 0 .. Len(sent') /\ SendBufferBound' /\ SentBound'
    <3>1. sent' \in Seq(1 .. used')
      BY <2>1
    <3>2. got' \in 0 .. Len(sent')
      BY <1>0, <2>1
    <3>3. Len(sent') - got' <= SndBuf
      BY <1>0, <2>1, HeadlessAssumption
    <3>4. Len(sent') <= used'
      BY <1>0, <2>1 DEF OutOK, SentBound
    <3>5. QED
      BY <3>1, <3>2, <3>3, <3>4 DEF SendBufferBound, SentBound
  <2>3. SentInOrder'
    <3>1. DOMAIN sent' = 1 .. Len(sent) + n /\ DOMAIN sent = 1 .. Len(sent)
      BY <2>1, LenProperties DEF OutOK
    <3>2. \A j \in 1 .. Len(sent) : sent[j] \in 1 .. used
      BY ElementOfSeq DEF OutOK
    <3>3. SUFFICES ASSUME NEW j \in 1 .. Len(sent) + n, NEW k \in 1 .. Len(sent) + n, j < k
                   PROVE  sent'[j] < sent'[k]
      BY <3>1 DEF SentInOrder
    <3>4. CASE k <= Len(sent)
      <4>1. j \in 1 .. Len(sent) /\ k \in 1 .. Len(sent)
        BY <1>0, <3>3, <3>4
      <4>2. QED
        BY <2>1, <3>1, <3>3, <4>1 DEF OutOK, SentInOrder
    <3>5. CASE j <= Len(sent) /\ k > Len(sent)
      <4>1. sent'[j] = sent[j] /\ sent[j] \in 1 .. used
        BY <1>0, <2>1, <3>2, <3>5
      <4>2. k \in Len(sent) + 1 .. Len(sent) + n
        BY <1>0, <2>1, <3>5
      <4>3. sent'[k] = used + (k - Len(sent))
        BY <2>1, <4>2
      <4>4. QED
        BY <1>0, <4>1, <4>2, <4>3
    <3>6. CASE j > Len(sent)
      <4>1. j \in Len(sent) + 1 .. Len(sent) + n /\ k \in Len(sent) + 1 .. Len(sent) + n
        BY <1>0, <2>1, <3>3, <3>6
      <4>2. sent'[j] = used + (j - Len(sent)) /\ sent'[k] = used + (k - Len(sent))
        BY <2>1, <4>1
      <4>3. QED
        BY <1>0, <3>3, <4>1, <4>2
    <3>7. QED
      BY <1>0, <2>1, <3>4, <3>5, <3>6
  <2>4. QED
    BY <2>2, <2>3 DEF OutOK
<1>2. CASE UNCHANGED sent
  <2>1. sent \in Seq(1 .. e)
    <3>1. 1 .. used \subseteq 1 .. e
      BY <1>0
    <3>2. QED
      BY <3>1, SeqMonotonic DEF OutOK
  <2>2. Len(sent) <= e
    BY <1>0 DEF OutOK, SentBound
  <2>3. QED
    BY <1>2, <2>1, <2>2 DEF OutOK, SendBufferBound, SentBound, SentInOrder
<1>3. QED
  BY <1>1, <1>2, SendCases

LEMMA OutStep ==
  ASSUME InOK, OutOK, NothingYet, [Next]_vars
  PROVE  OutOK'
<1> USE DEF OutOK, SendBufferBound, SentBound, SentInOrder
<1>1. CASE UNCHANGED <<used, sent, got, link>>
  BY <1>1
<1>2. CASE Connects
  BY <1>2, EmptySeq DEF NothingYet, Connects
<1>3. CASE SendLine
  <2>1. PICK e \in Ends : Send(e) /\ used' = e
    BY <1>3 DEF SendLine
  <2>2. e \in used + 1 .. took /\ got' = got
    BY <1>3 DEF Ends, SendLine
  <2>3. QED
    BY <2>1, <2>2, SendOut
<1>4. CASE SendRest
  <2>1. took \in used + 1 .. took /\ Send(took) /\ used' = took /\ got' = got
    BY <1>4 DEF SendRest, InOK
  <2>2. QED
    BY <2>1, SendOut
<1>5. CASE ReceiveError
  BY <1>5 DEF ReceiveError
<1>6. CASE HostReceives
  <2>1. Len(sent) \in Nat
    BY LenProperties
  <2>2. QED
    BY <1>6, <2>1, HeadlessAssumption DEF HostReceives, mainVars
<1>7. CASE HostCloses
  BY <1>7 DEF HostCloses, mainVars
<1>8. CASE ResetArrives
  BY <1>8 DEF ResetArrives, mainVars
<1>9. QED
  BY <1>1, <1>2, <1>3, <1>4, <1>5, <1>6, <1>7, <1>8
     DEF Next, Main, Step, World, SetupFails, Poll, PollFails, Refill, InputEnds,
         Receive, HostClosed, Type, CloseInput, HostPosts, vars, mainVars, sockVars,
         stdinVars

-----------------------------------------------------------------------------
(* Main's control and what the host sends                                  *)

LEMMA ExitCtl ==
  ASSUME CtlOK, NEW code \in Exits, Exit(code), UNCHANGED <<posted, shown>>, link' \in Links
  PROVE  CtlOK'
BY DEF CtlOK, Exit, PCs, NothingYet

LEMMA SendCtl ==
  ASSUME CtlOK, pc = "stdin", NEW e, Send(e), UNCHANGED <<posted, shown>>
  PROVE  CtlOK'
<1>1. CASE link' \in {"up", "fin", "dead"} /\ AfterStdin
  BY <1>1 DEF CtlOK, AfterStdin, PCs, Links, NothingYet
<1>2. CASE Exit("SIGPIPE") /\ UNCHANGED link
  <2>1. "SIGPIPE" \in Exits /\ link' \in Links
    BY <1>2 DEF CtlOK, Exits
  <2>2. QED
    BY <1>2, <2>1, ExitCtl
<1>3. QED
  BY <1>1, <1>2 DEF Send

LEMMA ExitsCtl ==
  ASSUME CtlOK, SetupFails \/ PollFails \/ InputEnds \/ HostClosed
  PROVE  CtlOK'
<1>1. UNCHANGED <<posted, shown, link>>
  BY DEF SetupFails, PollFails, InputEnds, HostClosed, sockVars
<1>2. \E code \in Exits : Exit(code)
  BY DEF SetupFails, PollFails, InputEnds, HostClosed, Exits
<1>3. link' \in Links
  BY <1>1 DEF CtlOK
<1>4. QED
  BY <1>1, <1>2, <1>3, ExitCtl

LEMMA CtlStep ==
  ASSUME CtlOK, [Next]_vars
  PROVE  CtlOK'
<1> USE DEF CtlOK, PCs, Links, NothingYet
<1>1. CASE Connects
  BY <1>1 DEF Connects
<1>2. CASE Poll
  BY <1>2 DEF Poll, Readable, sockVars
<1>3. CASE Refill
  BY <1>3 DEF Refill, sockVars
<1>4. CASE SendLine \/ SendRest
  <2>1. pc = "stdin" /\ UNCHANGED <<posted, shown>> /\ \E e \in Nat \cup {took} \cup Ends : Send(e)
    BY <1>4 DEF SendLine, SendRest
  <2>2. QED
    BY <2>1, SendCtl
<1>5. CASE SetupFails \/ PollFails \/ InputEnds \/ HostClosed
  BY <1>5, ExitsCtl
<1>6. CASE Receive
  BY <1>6, HeadlessAssumption DEF Receive, Least, sockVars, stdinVars
<1>7. CASE ReceiveError
  BY <1>7 DEF ReceiveError
<1>8. CASE HostPosts \/ HostReceives \/ HostCloses \/ ResetArrives
  <2>1. UNCHANGED <<shown, revents, pc, exit>> /\ posted' \in {posted, posted + 1}
    BY <1>8 DEF HostPosts, HostReceives, HostCloses, ResetArrives, mainVars
  <2>2. link' \in Links /\ pc # "start"
    BY <1>8 DEF HostPosts, HostReceives, HostCloses, ResetArrives
  <2>3. QED
    BY <2>1, <2>2
<1>9. CASE CloseInput \/ UNCHANGED vars \/ \E k \in 1 .. MaxTyped, line \in BOOLEAN : Type(k, line)
  BY <1>9 DEF CloseInput, Type, vars, mainVars, sockVars
<1>10. QED
  BY <1>1, <1>2, <1>3, <1>4, <1>5, <1>6, <1>7, <1>8, <1>9 DEF Next, Main, Step, World

-----------------------------------------------------------------------------
LEMMA InitInv == Init => Inv
<1> SUFFICES ASSUME Init PROVE Inv
  OBVIOUS
<1>1. InOK
  <2>1. newlines \subseteq 1 .. typed /\ closed \in BOOLEAN
    BY DEF Init
  <2>2. typed \in Nat /\ took \in 0 .. typed /\ used \in 0 .. took
    BY DEF Init
  <2>3. QED
    BY <2>1, <2>2 DEF Init, InOK
<1>2. OutOK
  BY EmptySeq, HeadlessAssumption
     DEF Init, OutOK, SendBufferBound, SentBound, SentInOrder
<1>3. exit \in Exits
  BY DEF Init, Exits
<1>4. CtlOK
  BY <1>3 DEF Init, CtlOK, PCs, Links, NothingYet
<1>5. QED
  BY <1>1, <1>2, <1>4 DEF Inv

LEMMA StepInv == Inv /\ [Next]_vars => Inv'
BY InStep, OutStep, CtlStep DEF Inv, CtlOK

\* Whatever was typed, wherever fgets, strlen and send cut it, and whatever the
\* host does: the bytes sent are bytes that went through fgets, in their order
\* and none twice.
THEOREM HeadlessCorrect == Spec => [](HeadlessTypeOK /\ SentInOrder)
<1>1. Inv => HeadlessTypeOK /\ SentInOrder
  BY DEF Inv, InOK, OutOK, CtlOK, HeadlessTypeOK
<1>2. QED
  BY <1>1, InitInv, StepInv, PTL DEF Spec

-----------------------------------------------------------------------------
(* Where the losses are                                                    *)

PieceInv == Inv /\ AtPiece /\ LostIsTail

\* What is typed later does not move the head of a piece.
LEMMA StartStays ==
  ASSUME InOK, NEW p \in 1 .. used + 1, PieceStart(p),
         \/ newlines' = newlines
         \/ newlines \subseteq newlines' /\ \A m \in newlines' \ newlines : m > typed /\ m \in Nat
  PROVE  \E n \in newlines' \cup {0}, k \in 0 .. p :
           /\ p - 1 = n + k * MAX_LINE
           /\ \A m \in newlines' : m <= n \/ m >= p
<1>1. PICK n \in newlines \cup {0}, k \in 0 .. p :
        /\ p - 1 = n + k * MAX_LINE
        /\ \A m \in newlines : m <= n \/ m >= p
  BY DEF PieceStart
<1>2. n \in newlines' \cup {0}
  OBVIOUS
<1>3. \A m \in newlines' : m <= n \/ m >= p
  <2> TAKE m \in newlines'
  <2>1. CASE m \in newlines
    BY <1>1, <2>1
  <2>2. CASE m \notin newlines
    <3>1. m > typed /\ m \in Nat /\ typed \in Nat /\ used <= typed /\ used \in Nat
      BY <2>2 DEF InOK
    <3>2. QED
      BY <3>1
  <2>3. QED
    BY <2>1, <2>2
<1>4. QED
  BY <1>1, <1>2, <1>3

\* The head of a piece, given the newline before it and the pieces in between.
LEMMA IsStart ==
  ASSUME NEW p, NEW n \in newlines \cup {0}, NEW k \in 0 .. p,
         p - 1 = n + k * MAX_LINE, \A m \in newlines : m <= n \/ m >= p
  PROVE  PieceStart(p)
BY Zenon DEF PieceStart

\* Behind the end of a line, and MAX_LINE bytes further in the same line, is the
\* head of the next piece.
LEMMA NextPiece ==
  ASSUME InOK, PieceStart(used + 1), NEW e \in Ends, IsFirst(e, Ends)
  PROVE  PieceStart(e + 1)
<1>1. used \in Nat /\ e \in used + 1 .. took /\ took \in Nat /\ newlines \subseteq Nat
  BY DEF InOK, Ends
<1>2. CASE e \in newlines
  <2>1. (e + 1) - 1 = e + 0 * MAX_LINE /\ 0 \in 0 .. e + 1
    BY <1>1, HeadlessAssumption
  <2>2. \A m \in newlines : m <= e \/ m >= e + 1
    BY <1>1
  <2>3. QED
    BY <1>2, <2>1, <2>2, IsStart, Zenon
<1>3. CASE e \notin newlines
  <2>1. e = used + MAX_LINE
    BY <1>3 DEF Ends
  <2>2. PICK n \in newlines \cup {0}, k \in 0 .. used + 1 :
          /\ (used + 1) - 1 = n + k * MAX_LINE
          /\ \A m \in newlines : m <= n \/ m >= used + 1
    BY Zenon DEF PieceStart
  <2>3. (e + 1) - 1 = n + (k + 1) * MAX_LINE
    <3>1. (k + 1) * MAX_LINE = k * MAX_LINE + MAX_LINE /\ k * MAX_LINE \in Nat /\ n \in Nat
      BY <1>1, <2>2, HeadlessAssumption
    <3>2. QED
      BY <1>1, <2>1, <2>2, <3>1, HeadlessAssumption
  <2>4. k + 1 \in 0 .. e + 1
    BY <1>1, <2>2
  <2>5. \A m \in newlines : m <= n \/ m >= e + 1
    <3> TAKE m \in newlines
    <3>1. CASE m \in used + 1 .. took
      <4>1. m \in Ends
        BY <3>1 DEF Ends
      <4>2. e <= m /\ m # e
        BY <1>3, <4>1 DEF IsFirst
      <4>3. QED
        BY <1>1, <4>2
    <3>2. CASE m > took
      BY <1>1, <3>2
    <3>3. QED
      BY <1>1, <2>2, <3>1, <3>2
  <2>6. QED
    BY <2>2, <2>3, <2>4, <2>5, IsStart, Zenon
<1>4. QED
  BY <1>2, <1>3

\* What send takes of a piece is its head.
LEMMA SendTail ==
  ASSUME Inv, PieceStart(used + 1), LostIsTail, UNCHANGED newlines,
         NEW e \in used + 1 .. took, Send(e)
  PROVE  LostIsTail'
<1>0. InOK /\ OutOK
  BY DEF Inv
<1>1. CASE UNCHANGED sent
  BY <1>1 DEF LostIsTail, PieceStart
<1>2. ASSUME NEW w \in 0 .. e - used, sent' = sent \o Accepted(w)
      PROVE  LostIsTail'
  <2> DEFINE n == Least(w, Room)
  <2>1. /\ n \in Nat /\ Len(sent) \in Nat
        /\ sent' \in Seq(1 .. e) /\ Len(sent') = Len(sent) + n
        /\ \A j \in 1 .. Len(sent) : sent'[j] = sent[j]
        /\ \A j \in Len(sent) + 1 .. Len(sent) + n : sent'[j] = used + (j - Len(sent))
    BY <1>0, <1>2, SendBytes
  <2> HIDE DEF n
  <2>2. DOMAIN sent' = 1 .. Len(sent) + n /\ DOMAIN sent = 1 .. Len(sent)
    BY <1>0, <2>1, LenProperties DEF OutOK
  <2>3. used \in Nat
    BY <1>0 DEF InOK
  <2>4. SUFFICES ASSUME NEW j \in 1 .. Len(sent) + n
                 PROVE  PieceStart(sent'[j]) \/ (j > 1 /\ sent'[j - 1] = sent'[j] - 1)
    BY <2>2 DEF LostIsTail, PieceStart
  <2>5. CASE j <= Len(sent)
    <3>1. j \in 1 .. Len(sent) /\ (j > 1 => j - 1 \in 1 .. Len(sent))
      BY <2>1, <2>5
    <3>2. sent'[j] = sent[j] /\ (j > 1 => sent'[j - 1] = sent[j - 1])
      BY <2>1, <3>1
    <3>3. PieceStart(sent[j]) \/ (j > 1 /\ sent[j - 1] = sent[j] - 1)
      BY <2>2, <3>1 DEF LostIsTail
    <3>4. QED
      BY <3>2, <3>3, Zenon
  <2>6. CASE j = Len(sent) + 1
    <3>1. j \in Len(sent) + 1 .. Len(sent) + n /\ j - Len(sent) = 1
      BY <2>1, <2>6
    <3>2. sent'[j] = used + 1
      BY <2>1, <3>1
    <3>3. QED
      BY <3>2
  <2>7. CASE j > Len(sent) + 1
    <3>1. j \in Len(sent) + 1 .. Len(sent) + n /\ j - 1 \in Len(sent) + 1 .. Len(sent) + n
      BY <2>1, <2>7
    <3>2. sent'[j] = used + (j - Len(sent)) /\ sent'[j - 1] = used + ((j - 1) - Len(sent))
      BY <2>1, <3>1
    <3>3. QED
      BY <2>1, <2>3, <2>7, <3>2
  <2>8. j <= Len(sent) \/ j = Len(sent) + 1 \/ j > Len(sent) + 1
    BY <2>1
  <2>9. QED
    BY <2>5, <2>6, <2>7, <2>8, Zenon
<1>3. QED
  BY <1>0, <1>1, <1>2, SendCases

\* main never comes back to its start.
LEMMA Started ==
  ASSUME pc # "start", [Next]_vars
  PROVE  pc' # "start"
BY DEF Next, Main, Step, World, Connects, SetupFails, Poll, PollFails, Refill, SendLine,
       SendRest, Send, AfterStdin, Exit, InputEnds, Receive, ReceiveError, HostClosed,
       Type, CloseInput, HostPosts, HostReceives, HostCloses, ResetArrives, vars, mainVars

LEMMA PieceStep == PieceInv /\ [Next]_vars => PieceInv'
<1> SUFFICES ASSUME PieceInv, [Next]_vars PROVE AtPiece' /\ LostIsTail'
  BY StepInv DEF PieceInv
<1>0. InOK /\ OutOK /\ Inv /\ used \in Nat
  BY DEF PieceInv, Inv, InOK
<1>1. CASE UNCHANGED <<kind, typed, newlines, used, sent>> /\ (closed => closed' = TRUE)
  <2>1. InputOver => InputOver'
    BY <1>1, Started DEF InputOver
  <2>2. QED
    BY <1>1, <2>1 DEF PieceInv, AtPiece, LostIsTail, PieceStart
<1>2. CASE SendLine
  <2>1. PICK e \in Ends : IsFirst(e, Ends) /\ Send(e) /\ used' = e
    BY <1>2 DEF SendLine
  <2>2. e \in used + 1 .. took /\ UNCHANGED newlines
    BY <1>2 DEF Ends, SendLine, stdinVars
  <2>3. PieceStart(used + 1)
    BY <1>0, <2>2 DEF PieceInv, AtPiece, InOK
  <2>4. LostIsTail'
    BY <1>0, <2>1, <2>2, <2>3, SendTail DEF PieceInv
  <2>5. PieceStart(e + 1)
    BY <1>0, <2>1, <2>3, NextPiece
  <2>6. QED
    BY <2>1, <2>2, <2>4, <2>5 DEF AtPiece, PieceStart
<1>3. CASE SendRest
  <2>1. took \in used + 1 .. took /\ Send(took) /\ UNCHANGED newlines
    BY <1>0, <1>3 DEF SendRest, InOK, stdinVars
  <2>2. PieceStart(used + 1)
    BY <1>0, <2>1 DEF PieceInv, AtPiece, InOK
  <2>3. LostIsTail'
    BY <1>0, <2>1, <2>2, SendTail DEF PieceInv
  <2>4. InputOver' /\ used' = typed'
    BY <1>3, Started DEF SendRest, AtEnd, InputOver, stdinVars
  <2>5. QED
    BY <2>3, <2>4 DEF AtPiece
<1>4. CASE \E k \in 1 .. MaxTyped, line \in BOOLEAN : Type(k, line)
  <2>1. PICK k \in 1 .. MaxTyped, line \in BOOLEAN : Type(k, line)
    BY <1>4
  <2>2. /\ ~InputOver /\ UNCHANGED <<used, sent>> /\ newlines \subseteq newlines'
        /\ \A m \in newlines' \ newlines : m = typed + k
    BY <2>1 DEF Type, InputOver, mainVars
  <2>3. newlines \subseteq newlines' /\ \A m \in newlines' \ newlines : m > typed /\ m \in Nat
    BY <1>0, <2>2, HeadlessAssumption DEF InOK
  <2>4. AtPiece'
    <3>1. PieceStart(used + 1) /\ used + 1 \in 1 .. used + 1
      BY <1>0, <2>2 DEF PieceInv, AtPiece
    <3>2. QED
      BY <1>0, <2>2, <2>3, <3>1, StartStays DEF AtPiece, PieceStart
  <2>5. LostIsTail'
    <3>1. SUFFICES ASSUME NEW j \in DOMAIN sent
                   PROVE  PieceStart(sent[j])' \/ (j > 1 /\ sent[j - 1] = sent[j] - 1)
      BY <2>2 DEF LostIsTail
    <3>2. CASE PieceStart(sent[j])
      <4>1. sent[j] \in 1 .. used
        BY <1>0, ElementOfSeq, LenProperties DEF OutOK
      <4>2. sent[j] \in 1 .. used + 1
        BY <1>0, <4>1
      <4>3. QED
        BY <1>0, <2>2, <2>3, <3>2, <4>2, StartStays DEF PieceStart
    <3>3. QED
      BY <3>2 DEF PieceInv, LostIsTail
  <2>6. QED
    BY <2>4, <2>5
<1>5. QED
  BY <1>1, <1>2, <1>3, <1>4
     DEF Next, Main, Step, World, Connects, SetupFails, Poll, PollFails, Refill,
         InputEnds, Receive, ReceiveError, HostClosed, CloseInput, HostPosts,
         HostReceives, HostCloses, ResetArrives, vars, stdinVars, mainVars

LEMMA InitPieces == Init => PieceInv
<1> SUFFICES ASSUME Init PROVE PieceInv
  OBVIOUS
<1>1. (used + 1) - 1 = 0 + 0 * MAX_LINE /\ 0 \in 0 .. used + 1 /\ newlines = {}
  BY HeadlessAssumption DEF Init
<1>2. PieceStart(used + 1)
  BY <1>1, IsStart
<1>3. AtPiece
  BY <1>2 DEF AtPiece
<1>4. LostIsTail
  BY DEF Init, LostIsTail
<1>5. QED
  BY <1>3, <1>4, InitInv DEF PieceInv

\* Only the end of a piece is ever lost: what follows a gap is the head of the
\* next piece fgets cut, for every line length, every buffer and every NUL.
THEOREM LossIsAtTheTail == Spec => []LostIsTail
<1>1. PieceInv => LostIsTail
  BY DEF PieceInv
<1>2. QED
  BY <1>1, InitPieces, PieceStep, PTL DEF Spec

-----------------------------------------------------------------------------
(* What is not lost                                                        *)

LossInv == PieceInv /\ NoLossWithinBuffer

\* A multiple of a number is none of the numbers between 0 and it.
LEMMA NoMultiple ==
  ASSUME NEW m \in Nat \ {0}, NEW j \in Int, NEW r \in 1 .. m - 1
  PROVE  r # j * m
<1>1. CASE j <= 0
  <2>1. j * m <= 0
    BY <1>1
  <2>2. QED
    BY <2>1
<1>2. CASE j >= 1
  <2>1. j * m = (j - 1) * m + m /\ (j - 1) * m >= 0
    BY <1>2
  <2>2. j * m >= m
    BY <2>1
  <2>3. QED
    BY <2>2
<1>3. QED
  BY <1>1, <1>2

\* Inside what fgets returns no other piece begins.
LEMMA OnePiece ==
  ASSUME InOK, PieceStart(used + 1), NEW e \in used + 1 .. took,
         e <= used + MAX_LINE, \A m \in newlines : m <= used \/ m >= e,
         NEW p \in used + 2 .. e
  PROVE  ~PieceStart(p)
<1> SUFFICES ASSUME PieceStart(p) PROVE FALSE
  OBVIOUS
<1>0. used \in Nat /\ e \in Nat /\ p \in Nat /\ newlines \subseteq Nat
  BY DEF InOK
<1>1. PICK n \in newlines \cup {0}, k \in 0 .. used + 1 :
        /\ (used + 1) - 1 = n + k * MAX_LINE
        /\ \A m \in newlines : m <= n \/ m >= used + 1
  BY Zenon DEF PieceStart
<1>2. PICK o \in newlines \cup {0}, l \in 0 .. p :
        /\ p - 1 = o + l * MAX_LINE
        /\ \A m \in newlines : m <= o \/ m >= p
  BY Zenon DEF PieceStart
<1>3. /\ k * MAX_LINE \in Nat /\ l * MAX_LINE \in Nat /\ n \in Nat /\ o \in Nat
      /\ k \in Nat /\ l \in Nat
  BY <1>0, <1>1, <1>2, HeadlessAssumption
<1>4. n <= used /\ o < p
  BY <1>0, <1>1, <1>2, <1>3
<1>5. n <= o
  BY <1>0, <1>2, <1>3, <1>4
<1>6. o <= n
  <2>1. o <= used
    BY <1>0, <1>3, <1>4
  <2>2. QED
    BY <1>0, <1>1, <1>3, <2>1
<1>7. (p - 1) - used = l * MAX_LINE - k * MAX_LINE
  BY <1>0, <1>1, <1>2, <1>3, <1>5, <1>6
<1>8. l * MAX_LINE - k * MAX_LINE = (l - k) * MAX_LINE
  BY <1>3, HeadlessAssumption
<1>9. (p - 1) - used \in 1 .. MAX_LINE - 1
  BY <1>0, HeadlessAssumption
<1>10. l - k \in Int
  BY <1>3
<1>11. QED
  BY <1>7, <1>8, <1>9, <1>10, NoMultiple, HeadlessAssumption

\* With room for a whole piece, the kernel takes what is in front of its first
\* NUL, and the rest is behind that NUL in the same piece.
LEMMA PieceLeaves ==
  ASSUME LossInv, UNCHANGED <<newlines, nuls>>, NEW e \in used + 1 .. took,
         Send(e), used' = e, PieceStart(used + 1),
         e <= used + MAX_LINE, \A m \in newlines : m <= used \/ m >= e
  PROVE  NoLossWithinBuffer'
<1>0. /\ InOK /\ OutOK /\ used \in Nat /\ Len(sent) \in Nat /\ e \in Nat /\ e > used
      /\ got \in 0 .. Len(sent)
  BY LenProperties DEF LossInv, PieceInv, Inv, InOK, OutOK
<1>1. CASE link' \notin {"up", "fin"}
  BY <1>1 DEF NoLossWithinBuffer
<1>2. ASSUME NEW w \in 0 .. e - used, IsStrlen(w, e), sent' = sent \o Accepted(w),
             link \in {"up", "fin"}
      PROVE  NoLossWithinBuffer'
  <2> SUFFICES ASSUME e <= SndBuf, NEW b \in 1 .. e
               PROVE  (IsSent(b) \/ BehindNul(b))'
    BY DEF NoLossWithinBuffer
  <2>1. \A x : BehindNul(x) => BehindNul(x)'
    BY DEF BehindNul, PieceStart
  <2> DEFINE n == Least(w, Room)
  <2>2. /\ n \in Nat /\ (n = w \/ n = SndBuf - (Len(sent) - got)) /\ n <= w
        /\ sent' \in Seq(1 .. e) /\ Len(sent') = Len(sent) + n
        /\ \A j \in 1 .. Len(sent) : sent'[j] = sent[j]
        /\ \A j \in Len(sent) + 1 .. Len(sent) + n : sent'[j] = used + (j - Len(sent))
    BY <1>0, <1>2, SendBytes
  <2> HIDE DEF n
  <2>3. n = w
    <3>1. Len(sent) <= used /\ SndBuf \in Nat
      BY <1>0, HeadlessAssumption DEF OutOK, SentBound
    <3>2. SndBuf - (Len(sent) - got) >= e - used
      BY <1>0, <3>1
    <3>3. QED
      BY <1>0, <2>2, <3>2
  <2>4. DOMAIN sent' = 1 .. Len(sent) + n /\ DOMAIN sent = 1 .. Len(sent)
    BY <1>0, <2>2, LenProperties DEF OutOK
  <2>5. CASE b <= used
    <3>1. IsSent(b) \/ BehindNul(b)
      BY <1>0, <1>2, <2>5, HeadlessAssumption DEF LossInv, NoLossWithinBuffer
    <3>2. ASSUME IsSent(b) PROVE IsSent(b)'
      <4>1. PICK i \in 1 .. Len(sent) : sent[i] = b
        BY <2>4, <3>2 DEF IsSent
      <4>2. i \in 1 .. Len(sent) + n /\ sent'[i] = b
        BY <1>0, <2>2, <4>1
      <4>3. QED
        BY <2>4, <4>2 DEF IsSent
    <3>3. QED
      BY <2>1, <3>1, <3>2
  <2>6. CASE b \in used + 1 .. used + n
    <3> DEFINE i == Len(sent) + (b - used)
    <3>1. i \in Len(sent) + 1 .. Len(sent) + n /\ i \in 1 .. Len(sent) + n
      BY <1>0, <2>2, <2>6
    <3>2. sent'[i] = used + (i - Len(sent))
      BY <2>2, <3>1
    <3>3. sent'[i] = b
      BY <1>0, <2>6, <3>2
    <3>4. QED
      BY <2>4, <3>1, <3>3 DEF IsSent
  <2>7. CASE b > used + n
    <3>1. used + n # e /\ used + n + 1 \in nuls
      BY <1>0, <1>2, <2>2, <2>3, <2>7 DEF IsStrlen
    <3>2. used + n + 1 <= b
      BY <1>0, <2>2, <2>7
    <3>3. ASSUME NEW p \in used + n + 2 .. b PROVE ~PieceStart(p)
      <4>1. p \in used + 2 .. e
        BY <1>0, <2>2
      <4>2. QED
        BY <1>0, <4>1, OnePiece
    <3>4. (used + n + 1) + 1 = used + n + 2
      BY <1>0, <2>2
    <3>5. BehindNul(b)
      BY <3>1, <3>2, <3>3, <3>4 DEF BehindNul
    <3>6. QED
      BY <2>1, <3>5
  <2>8. QED
    BY <1>0, <2>2, <2>5, <2>6, <2>7
<1>3. QED
  BY <1>0, <1>1, <1>2, SendCases

\* What is typed later begins no piece in what was used.
LEMMA NoNewStart ==
  ASSUME InOK, NEW k \in 1 .. MaxTyped, NEW line \in BOOLEAN, Type(k, line),
         NEW p \in 1 .. used, PieceStart(p)'
  PROVE  PieceStart(p)
<1>0. typed \in Nat /\ used \in Nat /\ used <= typed /\ p \in Nat /\ p <= typed
  BY DEF InOK
<1>1. newlines \subseteq newlines' /\ \A m \in newlines' \ newlines : m > typed /\ m \in Nat
  BY <1>0, HeadlessAssumption DEF Type
<1>2. PICK n \in newlines' \cup {0}, l \in 0 .. p :
        /\ p - 1 = n + l * MAX_LINE
        /\ \A m \in newlines' : m <= n \/ m >= p
  BY DEF PieceStart
<1>3. n \in newlines \cup {0}
  <2>1. n \in Nat /\ l * MAX_LINE \in Nat
    BY <1>1, <1>2, HeadlessAssumption DEF InOK
  <2>2. n <= typed
    BY <1>0, <1>2, <2>1
  <2>3. QED
    BY <1>0, <1>1, <2>1, <2>2
<1>4. QED
  BY <1>1, <1>2, <1>3, IsStart, Zenon

LEMMA LossStep ==
  ASSUME LossInv, [Next]_vars
  PROVE  LossInv'
<1>0. InOK /\ OutOK /\ used \in Nat /\ CtlOK /\ PieceInv'
  BY PieceStep DEF LossInv, PieceInv, Inv, InOK
<1> SUFFICES NoLossWithinBuffer'
  BY <1>0 DEF LossInv
<1>1. CASE /\ UNCHANGED <<newlines, nuls, used, sent>>
           /\ link' \in {"up", "fin"} => link \in {"up", "fin"}
  BY <1>1 DEF LossInv, NoLossWithinBuffer, IsSent, BehindNul, PieceStart
<1>2. CASE Connects
  <2>1. used' = 0
    BY <1>0, <1>2 DEF Connects, CtlOK, NothingYet
  <2>2. QED
    BY <2>1 DEF NoLossWithinBuffer
<1>3. CASE SendLine
  <2>1. PICK e \in Ends : IsFirst(e, Ends) /\ Send(e) /\ used' = e
    BY <1>3 DEF SendLine
  <2>2. e \in used + 1 .. took /\ UNCHANGED <<newlines, nuls>>
    BY <1>3 DEF Ends, SendLine, stdinVars
  <2>3. PieceStart(used + 1)
    BY <1>0, <2>2 DEF LossInv, PieceInv, AtPiece, InOK
  <2>4. took \in Nat /\ newlines \subseteq Nat
    BY <1>0 DEF InOK
  <2>5. e <= used + MAX_LINE
    <3>1. SUFFICES ASSUME ~(e <= used + MAX_LINE) PROVE FALSE
      OBVIOUS
    <3>2. used + MAX_LINE \in Ends
      BY <1>0, <2>2, <2>4, <3>1, HeadlessAssumption DEF Ends
    <3>3. QED
      BY <2>1, <3>1, <3>2 DEF IsFirst
  <2>6. ASSUME NEW m \in newlines, ~(m <= used \/ m >= e) PROVE FALSE
    <3>1. m \in Ends
      BY <1>0, <2>2, <2>4, <2>6 DEF Ends
    <3>2. QED
      BY <2>1, <2>6, <3>1 DEF IsFirst
  <2>7. QED
    BY <2>1, <2>2, <2>3, <2>5, <2>6, PieceLeaves
<1>4. CASE SendRest
  <2>1. took \in used + 1 .. took /\ Send(took) /\ UNCHANGED <<newlines, nuls>> /\ used' = took
    BY <1>0, <1>4 DEF SendRest, InOK, stdinVars
  <2>2. PieceStart(used + 1)
    BY <1>0, <2>1 DEF LossInv, PieceInv, AtPiece, InOK
  <2>3. took \in Nat /\ newlines \subseteq Nat /\ Ends = {}
    BY <1>0, <1>4 DEF InOK, SendRest
  <2>4. took <= used + MAX_LINE
    <3>1. SUFFICES ASSUME ~(took <= used + MAX_LINE) PROVE FALSE
      OBVIOUS
    <3>2. used + MAX_LINE \in Ends
      BY <1>0, <2>1, <2>3, <3>1, HeadlessAssumption DEF Ends
    <3>3. QED
      BY <2>3, <3>2
  <2>5. ASSUME NEW m \in newlines, ~(m <= used \/ m >= took) PROVE FALSE
    <3>1. m \in Ends
      BY <1>0, <2>1, <2>3, <2>5 DEF Ends
    <3>2. QED
      BY <2>3, <3>1
  <2>6. QED
    BY <2>1, <2>2, <2>4, <2>5, PieceLeaves
<1>5. CASE \E k \in 1 .. MaxTyped, line \in BOOLEAN : Type(k, line)
  <2>1. PICK k \in 1 .. MaxTyped, line \in BOOLEAN : Type(k, line)
    BY <1>5
  <2>2. UNCHANGED <<used, sent, link>> /\ nuls \subseteq nuls'
    BY <2>1 DEF Type, mainVars, sockVars
  <2>3. SUFFICES ASSUME used <= SndBuf, link \in {"up", "fin"}, NEW b \in 1 .. used
                 PROVE  (IsSent(b) \/ BehindNul(b))'
    BY <2>2 DEF NoLossWithinBuffer
  <2>4. IsSent(b) => IsSent(b)'
    BY <2>2 DEF IsSent
  <2>5. ASSUME BehindNul(b) PROVE BehindNul(b)'
    <3>1. PICK z \in nuls : z <= b /\ \A p \in z + 1 .. b : ~PieceStart(p)
      BY <2>5 DEF BehindNul
    <3>2. ASSUME NEW p \in z + 1 .. b PROVE ~PieceStart(p)'
      <4>1. p \in 1 .. used
        BY <1>0, <3>1 DEF InOK
      <4>2. QED
        BY <1>0, <2>1, <3>1, <4>1, NoNewStart
    <3>3. QED
      BY <2>2, <3>1, <3>2 DEF BehindNul
  <2>6. QED
    BY <2>3, <2>4, <2>5 DEF LossInv, NoLossWithinBuffer
<1>6. QED
  BY <1>1, <1>2, <1>3, <1>4, <1>5
     DEF Next, Main, Step, World, SetupFails, Poll, PollFails, Refill, InputEnds,
         Receive, ReceiveError, HostClosed, CloseInput, HostPosts, HostReceives,
         HostCloses, ResetArrives, vars, stdinVars, sockVars, mainVars

\* As long as everything typed fits into the kernel's buffer, a host that is
\* there is sent every byte of it that is not behind a NUL of its own piece.
THEOREM NothingLostEarly == Spec => []NoLossWithinBuffer
<1>1. Init => LossInv
  <2> SUFFICES ASSUME Init PROVE LossInv
    OBVIOUS
  <2>1. NoLossWithinBuffer
    BY DEF Init, NoLossWithinBuffer
  <2>2. QED
    BY <2>1, InitPieces DEF LossInv
<1>2. LossInv => NoLossWithinBuffer
  BY DEF LossInv
<1>3. QED
  BY <1>1, <1>2, LossStep, PTL DEF Spec
=============================================================================
