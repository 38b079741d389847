--------------------------- MODULE ProgramsProofs ---------------------------
(***************************************************************************)
(* Theorems about the programs that MCPrograms runs side by side: the      *)
(* session of naive clients and get_listener_socket (those on the database,*)
(* the pool and the ncurses client are in modules of their own), and that  *)
(* in the execution model-checked there every variable of the session and  *)
(* of the database keeps its type.                                         *)
(***************************************************************************)
EXTENDS MCPrograms, MessageDbProofs

-----------------------------------------------------------------------------
(* The session of naive clients, for any number of clients, slots, lines   *)
(* and messages in a recv.  NobodyWaitsInVain is not inductive: it needs   *)
(* that a client that got past its welcome has been accepted or turned     *)
(* away (Accepted), and that an open connection has a thread (Threaded).   *)
(* That no socket holds more than its room needs that a thread sends only  *)
(* to clients that have been accepted (Aimed).                             *)

Accepted(c) ==
  /\ cl[c] = "start" => conn[c] = "none"
  /\ conn[c] = "none" => cl[c] \in {"start", "gone"}
  /\ conn[c] = "backlog" => cl[c] = "welcome"
  /\ conn[c] \in {"none", "backlog"} => inq[c] = 0

Threaded(c) ==
  /\ conn[c] = "open" <=> th[c] # "none"
  /\ c \in greeting => conn[c] \notin {"none", "backlog"}

Answered(c) ==
  cl[c] = "answer" /\ asked[c] = "line" =>
    \/ inq[c] > 0
    \/ conn[c] = "open" /\ (th[c] = "ack" \/ (outq[c] > 0 /\ th[c] # "none"))
    \/ conn[c] \in {"closed", "reset"}

Good(c)  == Accepted(c) /\ Threaded(c) /\ Answered(c)
Aimed(c) == dest[c] # Nobody => conn[dest[c]] \notin {"none", "backlog"}

ClientOK ==
  /\ cl \in [Clients -> {"start", "welcome", "prompt", "answer", "gone", "overrun"}]
  /\ asked \in [Clients -> {"none", "line", "empty"}]
  /\ lines \in [Clients -> Nat] /\ outq \in [Clients -> Nat]
  /\ \A c \in Clients : outq[c] <= lines[c]
InqOK  == inq \in [Clients -> 0 .. RcvRoom]
ConnOK == conn \in [Clients -> {"none", "backlog", "open", "closed", "reset"}]
HostOK ==
  /\ th \in [Clients -> {"none", "recv", "ack", "relay"}]
  /\ slot \in [Clients -> 0 .. TableSlots] /\ dest \in [Clients -> Clients \cup {Nobody}]
  /\ greeting \subseteq Clients /\ drifted \in BOOLEAN /\ up \in BOOLEAN

SessionInv ==
  ClientOK /\ InqOK /\ ConnOK /\ HostOK /\ \A c \in Clients : Good(c) /\ Aimed(c)

-----------------------------------------------------------------------------
(* recv and send                                                           *)

\* recv leaves what did not fit.
LEMMA RecvInq ==
  ASSUME InqOK, NEW c \in Clients, recv(c)
  PROVE  InqOK' /\ \A b \in Clients \ {c} : inq'[b] = inq[b]
<1>1. inq[c] \in 0 .. RcvRoom /\ Fits \in Nat \ {0} /\ RcvRoom \in Nat
  BY NaiveAssumption DEF InqOK
<1>2. (IF inq[c] > Fits THEN inq[c] - Fits ELSE 0) \in 0 .. RcvRoom
  BY <1>1
<1>3. QED
  BY <1>2 DEF InqOK, recv

\* send adds a message for a client that is there to receive it, and never
\* more than its socket holds.
LEMMA SendInq ==
  ASSUME InqOK, ConnOK, NEW c \in Clients, send(c), conn[c] = "backlog" => inq[c] = 0
  PROVE  /\ InqOK'
         /\ \A b \in Clients : b # c => inq'[b] = inq[b]
         /\ inq[c] > 0 => inq'[c] > 0
         /\ conn[c] \in {"open", "backlog"} /\ ~Gone(c) => inq'[c] > 0
<1>1. inq[c] \in 0 .. RcvRoom /\ RcvRoom \in Nat \ {0}
  BY NaiveAssumption DEF InqOK
<1>2. CASE conn[c] \in {"open", "backlog"} /\ ~Gone(c)
  <2>1. inq[c] < RcvRoom
    BY <1>1, <1>2 DEF send, Full
  <2>2. inq' = [inq EXCEPT ![c] = inq[c] + 1]
    BY <1>2 DEF send
  <2>3. QED
    BY <1>1, <2>1, <2>2 DEF InqOK
<1>3. CASE ~(conn[c] \in {"open", "backlog"} /\ ~Gone(c))
  <2>1. inq' = inq
    BY <1>3 DEF send, InqOK
  <2>2. QED
    BY <1>3, <2>1 DEF InqOK
<1>4. QED
  BY <1>2, <1>3

-----------------------------------------------------------------------------
(* One lemma for each actor                                                *)

\* What a client's part of the invariant depends on.
LEMMA SameGood ==
  ASSUME NEW b \in Clients, Good(b),
         cl'[b] = cl[b], asked'[b] = asked[b], outq'[b] = outq[b],
         conn'[b] = conn[b], th'[b] = th[b], b \in greeting' => b \in greeting,
         inq[b] = 0 /\ conn[b] \in {"none", "backlog"} => inq'[b] = 0,
         inq[b] > 0 => inq'[b] > 0
  PROVE  Good(b)'
<1>1. Accepted(b)' /\ Threaded(b)'
  BY DEF Good, Accepted, Threaded
<1>2. Answered(b)'
  BY DEF Good, Answered
<1>3. QED
  BY <1>1, <1>2 DEF Good

\* A thread's target is still one, once connections have only moved on.
LEMMA SameAim ==
  ASSUME HostOK, NEW b \in Clients, Aimed(b), dest'[b] = dest[b],
         \A t \in Clients : conn'[t] \in {"none", "backlog"} => conn[t] \in {"none", "backlog"}
  PROVE  Aimed(b)'
BY DEF HostOK, Aimed

\* A step of one client c that keeps the host and the others.
LEMMA OneClient ==
  ASSUME SessionInv, NEW c \in Clients, ClientOK', InqOK', ConnOK', UNCHANGED hostVars,
         \A b \in Clients \ {c} : /\ cl'[b] = cl[b] /\ asked'[b] = asked[b]
                                  /\ outq'[b] = outq[b] /\ conn'[b] = conn[b]
                                  /\ inq'[b] = inq[b],
         conn'[c] \in {"none", "backlog"} => conn[c] \in {"none", "backlog"},
         Good(c)'
  PROVE  SessionInv'
<1>1. UNCHANGED <<th, slot, dest, greeting, drifted, up>>
  BY DEF hostVars, castVars
<1>2. HostOK'
  BY <1>1 DEF SessionInv, HostOK
<1>3. ASSUME NEW b \in Clients PROVE Good(b)'
  <2>1. CASE b = c
    BY <2>1
  <2>2. CASE b # c
    BY <1>1, <2>2, SameGood DEF SessionInv
  <2>3. QED
    BY <2>1, <2>2
<1>4. ASSUME NEW b \in Clients PROVE Aimed(b)'
  <2>1. \A t \in Clients : conn'[t] \in {"none", "backlog"} => conn[t] \in {"none", "backlog"}
    OBVIOUS
  <2>2. QED
    BY <1>1, <2>1, SameAim DEF SessionInv
<1>5. QED
  BY <1>2, <1>3, <1>4 DEF SessionInv

LEMMA ClientInv ==
  ASSUME SessionInv, NEW c \in Clients, ClientNext(c)
  PROVE  SessionInv'
<1> USE DEF ClientOK, ConnOK, Move
<1>0. ClientOK /\ InqOK /\ ConnOK /\ Good(c) /\ Accepted(c) /\ Threaded(c)
  BY DEF SessionInv, Good
<1>h. UNCHANGED hostVars => UNCHANGED <<th, slot, dest, greeting, drifted, up>>
  BY DEF hostVars, castVars
<1>1. CASE Connect(c)
  <2>1. ClientOK' /\ ConnOK' /\ InqOK' /\ UNCHANGED hostVars
    BY <1>0, <1>1 DEF Connect, InqOK
  <2>2. \A b \in Clients \ {c} : /\ cl'[b] = cl[b] /\ asked'[b] = asked[b]
                                 /\ outq'[b] = outq[b] /\ conn'[b] = conn[b]
                                 /\ inq'[b] = inq[b]
    BY <1>0, <1>1 DEF Connect
  <2>3. conn[c] = "none"
    BY <1>0, <1>1 DEF Connect, Accepted
  <2>4. Good(c)'
    BY <1>0, <1>1, <1>h, <2>1, <2>3 DEF Connect, Good, Accepted, Threaded, Answered
  <2>5. QED
    BY <2>1, <2>2, <2>3, <2>4, OneClient
<1>2. CASE TakeWelcome(c)
  <2>1. UNCHANGED <<asked, lines, outq, conn>> /\ UNCHANGED hostVars
    BY <1>2 DEF TakeWelcome
  <2>2. InqOK' /\ \A b \in Clients \ {c} : inq'[b] = inq[b]
    <3>1. CASE recv(c)
      BY <1>0, <3>1, RecvInq
    <3>2. CASE UNCHANGED inq
      BY <1>0, <3>2 DEF InqOK
    <3>3. QED
      BY <1>2, <3>1, <3>2 DEF TakeWelcome
  <2>3. /\ ClientOK' /\ ConnOK' /\ \A b \in Clients \ {c} : cl'[b] = cl[b]
        /\ cl'[c] \in {"prompt", "overrun"} /\ conn[c] \notin {"none", "backlog"}
    <3>1. conn[c] \notin {"none", "backlog"}
      BY <1>0, <1>2 DEF TakeWelcome, Accepted
    <3>2. QED
      BY <1>0, <1>2, <2>1, <3>1 DEF TakeWelcome
  <2>4. Good(c)'
    BY <1>0, <1>h, <2>1, <2>3 DEF Good, Accepted, Threaded, Answered
  <2>5. QED
    BY <2>1, <2>2, <2>3, <2>4, OneClient
<1>3. CASE Ask(c)
  <2>1. UNCHANGED inq /\ UNCHANGED hostVars
    BY <1>3 DEF Ask
  <2>2. ClientOK' /\ InqOK' /\ ConnOK'
    <3>1. InqOK' /\ ConnOK'
      BY <1>0, <1>3, <2>1 DEF Ask, InqOK
    <3>2. /\ cl' \in [Clients -> {"start", "welcome", "prompt", "answer", "gone", "overrun"}]
          /\ asked' \in [Clients -> {"none", "line", "empty"}]
      BY <1>0, <1>3 DEF Ask
    <3>3. lines' \in [Clients -> Nat] /\ outq' \in [Clients -> Nat]
      BY <1>0, <1>3 DEF Ask
    <3>4. \A b \in Clients : outq'[b] <= lines'[b]
      BY <1>0, <1>3 DEF Ask
    <3>5. QED
      BY <3>1, <3>2, <3>3, <3>4
  <2>3. \A b \in Clients \ {c} : /\ cl'[b] = cl[b] /\ asked'[b] = asked[b]
                                 /\ outq'[b] = outq[b] /\ conn'[b] = conn[b]
                                 /\ inq'[b] = inq[b]
    BY <1>0, <1>3 DEF Ask
  <2>4. /\ cl[c] = "prompt" /\ cl'[c] = "answer" /\ outq'[c] > 0
        /\ conn'[c] = IF conn[c] = "closed" THEN "reset" ELSE conn[c]
    BY <1>0, <1>3 DEF Ask
  <2>5. conn[c] \in {"open", "closed", "reset"}
    BY <1>0, <2>4 DEF Accepted
  <2>6. Good(c)'
    BY <1>0, <1>h, <2>1, <2>4, <2>5 DEF Good, Accepted, Threaded, Answered
  <2>7. QED
    BY <2>1, <2>2, <2>3, <2>4, <2>5, <2>6, OneClient
<1>4. CASE AskNothing(c)
  <2>1. UNCHANGED <<inq, outq, conn>> /\ UNCHANGED hostVars
    BY <1>4 DEF AskNothing
  <2>2. ClientOK' /\ InqOK' /\ ConnOK'
    BY <1>0, <1>4, <2>1 DEF AskNothing, InqOK
  <2>3. \A b \in Clients \ {c} : cl'[b] = cl[b] /\ asked'[b] = asked[b]
    BY <1>0, <1>4 DEF AskNothing
  <2>4. cl[c] = "prompt" /\ cl'[c] = "answer" /\ asked'[c] = "empty"
    BY <1>0, <1>4 DEF AskNothing
  <2>5. Good(c)'
    BY <1>0, <1>h, <2>1, <2>4 DEF Good, Accepted, Threaded, Answered
  <2>6. QED
    BY <2>1, <2>2, <2>3, <2>5, OneClient
<1>5. CASE Leave(c)
  <2>1. UNCHANGED <<asked, lines, inq, outq, conn>> /\ UNCHANGED hostVars
    BY <1>5 DEF Leave
  <2>2. /\ ClientOK' /\ InqOK' /\ ConnOK' /\ \A b \in Clients \ {c} : cl'[b] = cl[b]
        /\ cl[c] = "prompt" /\ cl'[c] = "gone"
    BY <1>0, <1>5 DEF Leave, InqOK
  <2>3. Good(c)'
    BY <1>0, <1>h, <2>1, <2>2 DEF Good, Accepted, Threaded, Answered
  <2>4. QED
    BY <2>1, <2>2, <2>3, OneClient
<1>6. CASE TakeAnswer(c)
  <2>1. UNCHANGED <<asked, lines, outq, conn>> /\ UNCHANGED hostVars
    BY <1>6 DEF TakeAnswer
  <2>2. InqOK' /\ \A b \in Clients \ {c} : inq'[b] = inq[b]
    <3>1. CASE recv(c)
      BY <1>0, <3>1, RecvInq
    <3>2. CASE UNCHANGED inq
      BY <1>0, <3>2 DEF InqOK
    <3>3. QED
      BY <1>6, <3>1, <3>2 DEF TakeAnswer
  <2>3. /\ ClientOK' /\ ConnOK' /\ \A b \in Clients \ {c} : cl'[b] = cl[b]
        /\ cl'[c] \in {"prompt", "gone"} /\ conn[c] \notin {"none", "backlog"}
    <3>1. conn[c] \notin {"none", "backlog"}
      BY <1>0, <1>6 DEF TakeAnswer, Accepted
    <3>2. QED
      BY <1>0, <1>6, <2>1, <3>1 DEF TakeAnswer
  <2>4. Good(c)'
    BY <1>0, <1>h, <2>1, <2>3 DEF Good, Accepted, Threaded, Answered
  <2>5. QED
    BY <2>1, <2>2, <2>3, <2>4, OneClient
<1>7. QED
  BY <1>1, <1>2, <1>3, <1>4, <1>5, <1>6 DEF ClientNext

\* A step of the host that sends nothing: for each client its queue stays, and
\* its connection moves on.
LEMMA NothingSent ==
  ASSUME SessionInv, UNCHANGED clientVars, UNCHANGED inq, HostOK', ConnOK', ClientOK',
         \A t \in Clients : conn'[t] \in {"none", "backlog"} => conn[t] \in {"none", "backlog"},
         \A b \in Clients : Good(b)',
         \A b \in Clients : dest'[b] # dest[b] => Aimed(b)'
  PROVE  SessionInv'
<1>1. InqOK'
  BY DEF SessionInv, InqOK
<1>2. ASSUME NEW b \in Clients PROVE Aimed(b)'
  <2>1. CASE dest'[b] = dest[b]
    BY <2>1, SameAim DEF SessionInv
  <2>2. QED
    BY <2>1
<1>3. QED
  BY <1>1, <1>2 DEF SessionInv

\* A step of the host that sends to client t.
LEMMA Sent ==
  ASSUME SessionInv, NEW t \in Clients, send(t), UNCHANGED <<clientVars, outq>>,
         HostOK', ConnOK',
         \A b \in Clients : (conn'[b] = conn[b] /\ th'[b] = th[b]) \/ (b = t /\ Good(t)'),
         greeting' \subseteq greeting,
         \A b \in Clients : dest'[b] = dest[b] \/ dest'[b] = Nobody,
         conn[t] \in {"none", "backlog"} => conn'[t] = "closed" /\ Good(t)',
         conn'[t] \in {"none", "backlog"} => conn[t] \in {"none", "backlog"}
  PROVE  SessionInv'
<1>0. /\ ClientOK /\ InqOK /\ ConnOK /\ HostOK
      /\ \A b \in Clients : Good(b) /\ Accepted(b) /\ Aimed(b)
  BY DEF SessionInv, Good
<1>1. UNCHANGED <<cl, asked, lines>>
  BY DEF clientVars
<1>2. /\ InqOK'
      /\ \A b \in Clients : b # t => inq'[b] = inq[b]
      /\ inq[t] > 0 => inq'[t] > 0
  BY <1>0, SendInq DEF Accepted
<1>3. ClientOK'
  BY <1>0, <1>1 DEF ClientOK
<1>4. ASSUME NEW b \in Clients PROVE Good(b)'
  <2>1. CASE (b = t /\ Good(t)')
    BY <2>1
  <2>2. CASE conn'[b] = conn[b] /\ th'[b] = th[b] /\ b # t
    BY <1>0, <1>1, <1>2, <2>2, SameGood
  <2>3. CASE conn'[b] = conn[b] /\ th'[b] = th[b] /\ b = t /\ conn[t] \notin {"none", "backlog"}
    BY <1>0, <1>1, <1>2, <2>3, SameGood
  <2>4. QED
    BY <2>1, <2>2, <2>3
<1>5. ASSUME NEW b \in Clients PROVE Aimed(b)'
  <2>1. CASE dest'[b] = Nobody
    BY <2>1 DEF Aimed
  <2>2. CASE dest'[b] = dest[b]
    <3>1. \A d \in Clients : conn'[d] \in {"none", "backlog"} => conn[d] \in {"none", "backlog"}
      OBVIOUS
    <3>2. QED
      BY <1>0, <2>2, <3>1, SameAim
  <2>3. QED
    BY <2>1, <2>2
<1>6. QED
  BY <1>2, <1>3, <1>4, <1>5 DEF SessionInv

LEMMA HostInv ==
  ASSUME SessionInv, NEW c \in Clients, HostNext(c)
  PROVE  SessionInv'
<1> USE DEF ClientOK, ConnOK, HostOK, castVars
<1>0. /\ ClientOK /\ InqOK /\ ConnOK /\ HostOK /\ \A b \in Clients : Good(b) /\ Aimed(b)
      /\ Accepted(c) /\ Threaded(c)
  BY DEF SessionInv, Good
<1>c. UNCHANGED clientVars => UNCHANGED <<cl, asked, lines>>
  BY DEF clientVars
<1>1. CASE Accept(c)
  <2>1. UNCHANGED clientVars /\ UNCHANGED <<inq, outq, dest>> /\ conn[c] = "backlog"
        /\ conn' = [conn EXCEPT ![c] = "open"] /\ th' = [th EXCEPT ![c] = "recv"]
        /\ greeting' = {c}
    BY <1>1 DEF Accept
  <2>2. ClientOK' /\ ConnOK' /\ HostOK'
    BY <1>0, <1>1, <1>c DEF Accept
  <2>3. ASSUME NEW b \in Clients, b # c PROVE Good(b)'
    BY <1>0, <1>c, <2>1, <2>3, SameGood
  <2>4. Good(c)'
    BY <1>0, <1>c, <2>1 DEF Good, Accepted, Threaded, Answered
  <2>5. QED
    BY <1>0, <2>1, <2>2, <2>3, <2>4, NothingSent
<1>2. CASE Welcome(c)
  <2>1. UNCHANGED <<clientVars, outq>> /\ UNCHANGED <<conn, th, slot, dest, drifted, up>>
        /\ send(c) /\ c \in greeting /\ greeting' = {}
    BY <1>2 DEF Welcome
  <2>2. ConnOK' /\ HostOK' /\ conn[c] \notin {"none", "backlog"}
    BY <1>0, <2>1 DEF Threaded
  <2>3. /\ \A b \in Clients : (conn'[b] = conn[b] /\ th'[b] = th[b]) \/ (b = c /\ Good(c)')
        /\ \A b \in Clients : dest'[b] = dest[b] \/ dest'[b] = Nobody
        /\ greeting' \subseteq greeting /\ conn'[c] \notin {"none", "backlog"}
    BY <2>1, <2>2
  <2> HIDE DEF ClientOK, ConnOK, HostOK
  <2>4. QED
    BY <2>1, <2>2, <2>3, Sent
<1>3. CASE Refuse(c)
  <2>1. /\ UNCHANGED <<clientVars, outq>> /\ UNCHANGED hostVars /\ conn[c] = "backlog"
        /\ conn' = [conn EXCEPT ![c] = "closed"] /\ send(c)
    BY <1>3 DEF Refuse
  <2>2. UNCHANGED <<th, slot, dest, greeting, drifted, up>>
    BY <2>1 DEF hostVars
  <2>3. ConnOK' /\ HostOK' /\ conn'[c] = "closed" /\ \A b \in Clients : b # c => conn'[b] = conn[b]
    BY <1>0, <2>1, <2>2
  <2>4. Good(c)'
    BY <1>0, <1>c, <2>1, <2>2, <2>3 DEF Good, Accepted, Threaded, Answered
  <2>5. QED
    BY <2>1, <2>2, <2>3, <2>4, Sent
<1>4. CASE TurnAway(c)
  <2>1. /\ UNCHANGED clientVars /\ UNCHANGED <<inq, outq>> /\ UNCHANGED hostVars
        /\ conn[c] = "backlog" /\ conn' = [conn EXCEPT ![c] = "closed"]
    BY <1>4 DEF TurnAway
  <2>2. UNCHANGED <<th, slot, dest, greeting, drifted, up>>
    BY <2>1 DEF hostVars
  <2>3. ClientOK' /\ ConnOK' /\ HostOK' /\ conn'[c] = "closed"
        /\ \A b \in Clients : b # c => conn'[b] = conn[b]
    BY <1>0, <1>c, <2>1, <2>2
  <2>4. ASSUME NEW b \in Clients, b # c PROVE Good(b)'
    BY <1>0, <1>c, <2>1, <2>2, <2>3, <2>4, SameGood
  <2>5. Good(c)'
    BY <1>0, <1>c, <2>1, <2>2, <2>3 DEF Good, Accepted, Threaded, Answered
  <2>6. QED
    BY <1>0, <2>1, <2>2, <2>3, <2>4, <2>5, NothingSent
<1>5. CASE HandleLine(c)
  <2>1. /\ UNCHANGED clientVars /\ UNCHANGED <<inq, conn, slot, dest, greeting, drifted, up>>
        /\ th[c] = "recv" /\ th' = [th EXCEPT ![c] = "ack"] /\ outq' = [outq EXCEPT ![c] = 0]
    BY <1>5 DEF HandleLine
  <2>2. ClientOK' /\ ConnOK' /\ HostOK'
    BY <1>0, <1>c, <2>1
  <2>3. ASSUME NEW b \in Clients, b # c PROVE Good(b)'
    BY <1>0, <1>c, <2>1, <2>3, SameGood
  <2>4. Good(c)'
    BY <1>0, <1>c, <2>1 DEF Good, Accepted, Threaded, Answered
  <2>5. QED
    BY <1>0, <2>1, <2>2, <2>3, <2>4, NothingSent
<1>6. CASE Ack(c)
  <2>1. /\ UNCHANGED <<clientVars, outq>> /\ UNCHANGED <<conn, dest, greeting, drifted, up>>
        /\ send(c) /\ th[c] = "ack"
        /\ th' = [th EXCEPT ![c] = "relay"] /\ slot' = [slot EXCEPT ![c] = 0]
    BY <1>6 DEF Ack
  <2>2. 0 \in 0 .. TableSlots
    BY NaiveAssumption
  <2>3. ConnOK' /\ HostOK'
    BY <1>0, <2>1, <2>2
  <2>4. conn[c] = "open"
    BY <1>0, <2>1 DEF Threaded
  <2>5. ~Gone(c) => inq'[c] > 0
    BY <1>0, <2>1, <2>4, SendInq
  <2>6. Good(c)'
    BY <1>0, <1>c, <2>1, <2>4, <2>5 DEF Good, Accepted, Threaded, Answered, Gone
  <2>7. \A b \in Clients : (conn'[b] = conn[b] /\ th'[b] = th[b]) \/ (b = c /\ Good(c)')
    BY <1>0, <2>1, <2>6
  <2>8. QED
    BY <2>1, <2>3, <2>4, <2>6, <2>7, Sent
<1>7. CASE BroadcastSlot(c)
  <2>1. /\ UNCHANGED clientVars /\ UNCHANGED <<inq, outq, conn, th, greeting, drifted, up>>
        /\ slot[c] < TableSlots /\ slot' = [slot EXCEPT ![c] = @ + 1]
    BY <1>7 DEF BroadcastSlot
  <2>2. PICK t \in {Nobody} \cup (Threads \ {c}) : dest' = [dest EXCEPT ![c] = t]
    BY <1>7 DEF BroadcastSlot
  <2>3. slot[c] + 1 \in 0 .. TableSlots
    BY <1>0, <2>1, NaiveAssumption
  <2>4. ClientOK' /\ ConnOK' /\ HostOK'
    BY <1>0, <1>c, <2>1, <2>2, <2>3 DEF Threads
  <2>5. ASSUME NEW b \in Clients PROVE Good(b)'
    BY <1>0, <1>c, <2>1, SameGood
  <2>6. Aimed(c)'
    <3>1. dest'[c] = t
      BY <1>0, <2>2
    <3>2. CASE t = Nobody
      BY <3>1, <3>2 DEF Aimed
    <3>3. CASE t \in Threads
      <4>1. t \in Clients /\ th[t] # "none" /\ Threaded(t)
        BY <1>0, <3>3 DEF Threads, Good
      <4>2. conn[t] = "open"
        BY <4>1 DEF Threaded
      <4>3. QED
        BY <2>1, <3>1, <4>2 DEF Aimed
    <3>4. QED
      BY <3>2, <3>3
  <2>7. \A b \in Clients : dest'[b] # dest[b] => Aimed(b)'
    BY <1>0, <2>2, <2>6
  <2>8. QED
    BY <2>1, <2>4, <2>5, <2>7, NothingSent
<1>8. CASE BroadcastSend(c)
  <2>1. /\ UNCHANGED <<clientVars, outq>> /\ UNCHANGED <<conn, th, slot, greeting, drifted, up>>
        /\ dest[c] # Nobody /\ send(dest[c]) /\ dest' = [dest EXCEPT ![c] = Nobody]
    BY <1>8 DEF BroadcastSend
  <2>2. dest[c] \in Clients /\ conn[dest[c]] \notin {"none", "backlog"}
    BY <1>0, <2>1 DEF Aimed
  <2>3. ConnOK' /\ HostOK' /\ \A b \in Clients : dest'[b] = dest[b] \/ dest'[b] = Nobody
    BY <1>0, <2>1
  <2> DEFINE t == dest[c]
  <2>4. /\ \A b \in Clients : (conn'[b] = conn[b] /\ th'[b] = th[b]) \/ (b = t /\ Good(t)')
        /\ greeting' \subseteq greeting /\ conn'[t] \notin {"none", "backlog"}
        /\ t \in Clients /\ conn[t] \notin {"none", "backlog"} /\ send(t)
    BY <2>1, <2>2
  <2> HIDE DEF ClientOK, ConnOK, HostOK, t
  <2>5. QED
    BY <2>1, <2>3, <2>4, Sent
<1>9. CASE BroadcastEnds(c)
  <2>1. /\ UNCHANGED clientVars /\ UNCHANGED <<inq, outq, conn, dest, greeting, drifted, up>>
        /\ th[c] = "relay" /\ th' = [th EXCEPT ![c] = "recv"] /\ slot' = [slot EXCEPT ![c] = 0]
    BY <1>9 DEF BroadcastEnds
  <2>2. 0 \in 0 .. TableSlots
    BY NaiveAssumption
  <2>3. ClientOK' /\ ConnOK' /\ HostOK'
    BY <1>0, <1>c, <2>1, <2>2
  <2>4. ASSUME NEW b \in Clients, b # c PROVE Good(b)'
    BY <1>0, <1>c, <2>1, <2>4, SameGood
  <2>5. Good(c)'
    BY <1>0, <1>c, <2>1 DEF Good, Accepted, Threaded, Answered
  <2>6. QED
    BY <2>1, <2>3, <2>4, <2>5, NothingSent
<1>10. CASE Hangup(c)
  <2>1. /\ UNCHANGED clientVars /\ UNCHANGED <<inq, outq, slot, dest, greeting, up>>
        /\ th[c] = "recv" /\ drifted' = TRUE /\ Gone(c)
        /\ conn' = [conn EXCEPT ![c] = "closed"] /\ th' = [th EXCEPT ![c] = "none"]
    BY <1>10 DEF Hangup
  <2>2. ClientOK' /\ ConnOK' /\ HostOK'
    BY <1>0, <1>c, <2>1
  <2>3. conn'[c] = "closed" /\ \A b \in Clients : b # c => conn'[b] = conn[b]
    BY <1>0, <2>1
  <2>4. ASSUME NEW b \in Clients, b # c PROVE Good(b)'
    BY <1>0, <1>c, <2>1, <2>4, SameGood
  <2>5. Good(c)'
    BY <1>0, <1>c, <2>1 DEF Good, Accepted, Threaded, Answered, Gone
  <2>6. QED
    BY <2>1, <2>2, <2>3, <2>4, <2>5, NothingSent
<1>11. QED
  BY <1>1, <1>2, <1>3, <1>4, <1>5, <1>6, <1>7, <1>8, <1>9, <1>10 DEF HostNext, ThreadNext

LEMMA EndInv ==
  ASSUME SessionInv, HostEnds
  PROVE  SessionInv'
<1>0. ClientOK /\ InqOK /\ ConnOK /\ HostOK /\ \A b \in Clients : Good(b)
  BY DEF SessionInv
<1>1. /\ UNCHANGED <<cl, asked, lines, inq, outq, slot, drifted>>
      /\ up' = FALSE /\ greeting' = {}
  BY DEF HostEnds, clientVars
<1>2. \A c \in Clients :
        /\ th'[c] = "none" /\ dest'[c] = Nobody
        /\ conn'[c] = IF conn[c] = "backlog" THEN "reset"
                      ELSE IF conn[c] = "open" /\ outq[c] > 0 THEN "reset"
                      ELSE IF conn[c] = "open" THEN "closed" ELSE conn[c]
  BY <1>0 DEF HostEnds, ConnOK, ClientOK
<1>3. ClientOK' /\ InqOK'
  BY <1>0, <1>1 DEF ClientOK, InqOK
<1>4. HostOK' /\ ConnOK'
  <2>1. DOMAIN conn' = Clients /\ conn' = [c \in Clients |-> conn'[c]]
    BY DEF HostEnds
  <2>2. \A c \in Clients : conn'[c] \in {"none", "backlog", "open", "closed", "reset"}
    BY <1>0, <1>2 DEF ConnOK
  <2>3. /\ th' \in [Clients -> {"none", "recv", "ack", "relay"}]
        /\ dest' \in [Clients -> Clients \cup {Nobody}]
    BY DEF HostEnds
  <2>4. QED
    BY <1>0, <1>1, <2>1, <2>2, <2>3 DEF HostOK, ConnOK
<1>5. ASSUME NEW c \in Clients PROVE Good(c)' /\ Aimed(c)'
  BY <1>0, <1>1, <1>2 DEF Good, Aimed, Accepted, Threaded, Answered
<1>6. QED
  BY <1>3, <1>4, <1>5 DEF SessionInv

LEMMA SessionInit == NaiveInit => SessionInv
<1> SUFFICES ASSUME NaiveInit PROVE SessionInv
  OBVIOUS
<1>1. ClientOK /\ ConnOK /\ InqOK /\ HostOK
  <2>1. ClientOK /\ ConnOK
    BY DEF NaiveInit, ClientOK, ConnOK
  <2>2. 0 \in 0 .. RcvRoom /\ 0 \in 0 .. TableSlots
    BY NaiveAssumption
  <2>3. InqOK /\ HostOK
    BY <2>2 DEF NaiveInit, InqOK, HostOK
  <2>4. QED
    BY <2>1, <2>3
<1>2. \A c \in Clients : Good(c) /\ Aimed(c)
  BY DEF NaiveInit, Good, Accepted, Threaded, Answered, Aimed
<1>3. QED
  BY <1>1, <1>2 DEF SessionInv

LEMMA SessionStep == SessionInv /\ [NaiveNext]_naiveVars => SessionInv'
<1>1. ASSUME SessionInv, UNCHANGED naiveVars PROVE SessionInv'
  <2>1. /\ UNCHANGED <<cl, asked, lines, inq, outq, conn>>
        /\ UNCHANGED <<th, slot, dest, greeting, drifted, up>>
    BY <1>1 DEF naiveVars, clientVars, hostVars, castVars
  <2>2. ClientOK' /\ InqOK' /\ ConnOK' /\ HostOK'
    BY <1>1, <2>1 DEF SessionInv, ClientOK, InqOK, ConnOK, HostOK
  <2>3. \A c \in Clients : Good(c)' /\ Aimed(c)'
    BY <1>1, <2>1 DEF SessionInv, Good, Accepted, Threaded, Answered, Aimed
  <2>4. QED
    BY <2>2, <2>3 DEF SessionInv
<1>2. QED
  BY <1>1, ClientInv, HostInv, EndInv DEF NaiveNext

-----------------------------------------------------------------------------
\* For every number of clients, and however the bytes of lines and answers are
\* glued together: no client waits for an answer that nobody is going to send.
\* No socket ever holds more than its room, whatever thread sends to it.
THEOREM SessionCorrect == NaiveSpec => [](NaiveTypeOK /\ NobodyWaitsInVain)
<1>1. NaiveInit => SessionInv
  BY SessionInit
<1>2. SessionInv => NaiveTypeOK /\ NobodyWaitsInVain
  BY DEF SessionInv, ClientOK, InqOK, ConnOK, HostOK, Good, Answered, NaiveTypeOK,
         NobodyWaitsInVain
<1>3. QED
  BY <1>1, <1>2, SessionStep, PTL DEF NaiveSpec

\* When its first recv fails the client writes buffer[-1] (naive-client.c:50):
\* this happens to it only once the host has ended.
OverrunNeedsHostEnd == \A c \in Clients : cl[c] = "overrun" => ~up

\* A client that waits for its welcome on a reset connection is one the host
\* ended on.
ResetByEnd == \A c \in Clients : cl[c] = "welcome" /\ conn[c] = "reset" => ~up

\* While the host runs no client writes before its buffer: no connection that
\* waits to be accepted, welcomed or refused is reset.
THEOREM OverrunIsTheHostsEnd == NaiveSpec => []OverrunNeedsHostEnd
<1> DEFINE I == OverrunNeedsHostEnd /\ ResetByEnd
<1>1. NaiveInit => I
  BY DEF NaiveInit, OverrunNeedsHostEnd, ResetByEnd
<1>2. SessionInv /\ I /\ [NaiveNext]_naiveVars => I'
  <2> SUFFICES ASSUME SessionInv, I, [NaiveNext]_naiveVars PROVE I'
    OBVIOUS
  <2>1. /\ cl \in [Clients -> {"start", "welcome", "prompt", "answer", "gone", "overrun"}]
        /\ conn \in [Clients -> {"none", "backlog", "open", "closed", "reset"}]
    BY DEF SessionInv, ClientOK, ConnOK
  <2>2. CASE HostEnds
    BY <2>2 DEF HostEnds, OverrunNeedsHostEnd, ResetByEnd
  <2>3. ASSUME NEW c \in Clients, ClientNext(c) PROVE I'
    <3>1. up' = up /\ \A b \in Clients \ {c} : cl'[b] = cl[b] /\ conn'[b] = conn[b]
      BY <2>1, <2>3 DEF ClientNext, Connect, TakeWelcome, Ask, AskNothing, Leave,
                        TakeAnswer, Move, hostVars
    <3>2. /\ cl'[c] = "overrun" => cl[c] = "overrun" \/ (cl[c] = "welcome" /\ conn[c] = "reset")
          /\ cl'[c] = "welcome" /\ conn'[c] = "reset" => cl[c] = "welcome" /\ conn[c] = "reset"
      BY <2>1, <2>3 DEF ClientNext, Connect, TakeWelcome, Ask, AskNothing, Leave,
                        TakeAnswer, Move
    <3>3. QED
      BY <3>1, <3>2 DEF OverrunNeedsHostEnd, ResetByEnd
  <2>4. ASSUME NEW c \in Clients, HostNext(c) PROVE I'
    <3>1. UNCHANGED <<cl, up>> /\ \A b \in Clients : conn'[b] = "reset" => conn[b] = "reset"
      BY <2>1, <2>4 DEF HostNext, ThreadNext, Accept, Welcome, Refuse, TurnAway, HandleLine,
                        Ack, BroadcastSlot, BroadcastSend, BroadcastEnds, Hangup,
                        clientVars, hostVars
    <3>2. QED
      BY <3>1 DEF OverrunNeedsHostEnd, ResetByEnd
  <2>5. CASE UNCHANGED naiveVars
    BY <2>5 DEF naiveVars, clientVars, hostVars, OverrunNeedsHostEnd, ResetByEnd
  <2>6. QED
    BY <2>2, <2>3, <2>4, <2>5 DEF NaiveNext
<1>3. NaiveInit => SessionInv
  BY SessionInit
<1>4. QED
  BY <1>1, <1>2, <1>3, SessionStep, PTL DEF NaiveSpec

-----------------------------------------------------------------------------
(* get_listener_socket, for any number of addresses and any descriptors.   *)
(* OneDescriptor is not inductive: that the descriptor given to listen is  *)
(* bound to the address in hand is a fact about the way from bind to       *)
(* listen, and that the function has not ended before its end is needed    *)
(* for "returned".                                                         *)

InHand ==
  /\ at_socket \in {"getaddrinfo", "socket", "bind", "listen", "end"}
  /\ curr \in Nat /\ bound \in [SocketFds -> Nat]
  /\ at_socket # "end" => outcome = "none"
  /\ at_socket \in {"bind", "listen"} => listener_fd \in SocketFds /\ curr <= Addresses
  /\ at_socket = "listen" => bound[listener_fd] = curr

ListenerInv == InHand /\ OneDescriptor

\* However many addresses fail in whatever call, no descriptor of an earlier
\* attempt stays open, and the one returned is bound.
THEOREM ListenerIsTheOnlyDescriptor == ListenerSpec => []OneDescriptor
<1>1. ListenerInit => ListenerInv
  BY ListenerAssumption DEF ListenerInit, ListenerInv, InHand, OneDescriptor
<1>2. ListenerInv /\ [ListenerNext]_lsVars => ListenerInv'
  <2> SUFFICES ASSUME ListenerInv, [ListenerNext]_lsVars PROVE ListenerInv'
    OBVIOUS
  <2> USE DEF ListenerInv, InHand, OneDescriptor
  <2>1. CASE getaddrinfo
    BY <2>1 DEF getaddrinfo, Ends
  <2>2. CASE socket
    <3>1. curr <= Addresses /\ Addresses \in Nat
      BY <2>2, ListenerAssumption DEF socket
    <3>2. CASE at_socket' = "socket"
      BY <2>2, <3>1, <3>2 DEF socket
    <3>3. CASE at_socket' = "bind"
      BY <2>2, <3>1, <3>3 DEF socket
    <3>4. QED
      BY <2>2, <3>2, <3>3 DEF socket
  <2>3. CASE bind
    <3>1. listener_fd \in SocketFds /\ open = {listener_fd} /\ outcome = "none"
      BY <2>3 DEF bind
    <3>2. CASE at_socket' = "listen"
      BY <2>3, <3>1, <3>2 DEF bind
    <3>3. CASE at_socket' = "socket"
      BY <2>3, <3>1, <3>3 DEF bind, closes
    <3>4. QED
      BY <2>3, <3>2, <3>3 DEF bind
  <2>4. CASE no_address
    BY <2>4 DEF no_address, Ends
  <2>5. CASE listen
    BY <2>5 DEF listen, Ends
  <2>6. CASE UNCHANGED lsVars
    BY <2>6 DEF lsVars
  <2>7. QED
    BY <2>1, <2>2, <2>3, <2>4, <2>5, <2>6 DEF ListenerNext
<1>3. ListenerInv => OneDescriptor
  BY DEF ListenerInv
<1>4. QED
  BY <1>1, <1>2, <1>3, PTL DEF ListenerSpec

-----------------------------------------------------------------------------
(* The five together                                                       *)

\* The session and the database take their own steps, or stand still.
LEMMA OneProgramSteps ==
  ASSUME [MCNext]_MCVars
  PROVE  [NaiveNext]_naiveVars /\ [DbNext]_dbVars
<1>1. CASE MCNext
  BY <1>1 DEF MCNext
<1>2. CASE UNCHANGED MCVars
  BY <1>2 DEF MCVars
<1>3. QED
  BY <1>1, <1>2

\* In the execution that is model-checked, whatever program runs, the session and
\* the database keep their types, the files' contents and the sockets' included.
THEOREM ProgramsAreTyped == MCSpec => []ProgramsTypeOK
<1>1. MCInit => SessionInv /\ DbInv
  BY SessionInit, DbInitInv DEF MCInit
<1>2. SessionInv /\ DbInv /\ [MCNext]_MCVars => (SessionInv /\ DbInv)'
  BY OneProgramSteps, SessionStep, DbStepInv
<1>3. SessionInv => NaiveTypeOK
  BY DEF SessionInv, ClientOK, InqOK, ConnOK, HostOK, NaiveTypeOK
<1>4. SessionInv /\ DbInv => ProgramsTypeOK
  BY <1>3, DbInvTyped DEF ProgramsTypeOK
<1>5. QED
  BY <1>1, <1>2, <1>4, PTL DEF MCSpec
=============================================================================
