-------------------------- MODULE ThreadedHostProofs --------------------------
(***************************************************************************)
(* Theorems about the threaded host, for every table size and any number   *)
(* of connections and descriptors.  The invariants of ThreadedHost speak   *)
(* of the shared counter and table; each is strengthened with what is      *)
(* known of the values that main and the threads have loaded from them.    *)
(***************************************************************************)
EXTENDS ThreadedHost, TLAPS

\* A thread stores less than it loaded, so its loaded value may be as large
\* as the counter.
CountInv ==
  /\ CountBounded
  /\ \A q \in Conns : treg[q] <= MAX_CLIENTS

\* The slots below k have had a thread.
Recorded(k) == \A s \in Slots : s < k => thread_id[s] # NoConn

\* A late store of a thread may raise the counter again, but not above what
\* was recorded when it loaded it.
RecordInv ==
  /\ Recorded(CLIENT_COUNT)
  /\ \A q \in Conns : Recorded(treg[q])
  /\ pc \in {"add_index", "add_socket", "inc_load"} => Recorded(CLIENT_COUNT + 1)
  /\ pc = "inc_store" => Recorded(reg + 1)

\* No thread is in two slots: main records each right after its creation.
DistinctInv ==
  /\ \A s, t \in Slots :
       s # t /\ thread_id[s] # NoConn => thread_id[s] # thread_id[t]
  /\ \A s \in Slots : thread_id[s] # NoConn => thread_id[s] \in accepted
  /\ pc \in {"check", "add_thread"} =>
       current \in accepted /\ \A s \in Slots : thread_id[s] # current

\* At most the thread that main is joining is being cancelled.
CancelInv ==
  \A q \in Conns : cancel[q] # "no" =>
    pc = "joining" /\ thread_id[i] = q /\ tpc[q] # "done"

\* The thread of q will still close f.
WillClose(q, f) ==
  /\ arg[q] = f
  /\ \/ tpc[q] \in Serving \cup {"close"}
     \/ tpc[q] = "handler" /\ cancel[q] = "acted"

\* An open descriptor is in main's hand, or in that of its own thread.
FdInv ==
  /\ \A q \in Conns : tpc[q] # "none" => q \in accepted
  /\ pc = "check" => tpc[current] = "none"
  /\ \A f \in Descriptors : sock[f] # NoConn =>
       \/ pc = "check" /\ sock[f] = current /\ client_socket = f
       \/ WillClose(sock[f], f)

\* A thread in the table was created, a cancelled one is in its handler, and
\* main waits for a thread only once that was cancelled.
JoinInv ==
  /\ \A s \in Slots : thread_id[s] # NoConn => tpc[thread_id[s]] # "none"
  /\ pc = "add_thread" => tpc[current] # "none"
  /\ \A q \in Conns : cancel[q] = "acted" => tpc[q] \in Unwinding
  /\ pc = "joining" =>
       /\ thread_id[i] # NoConn
       /\ tpc[thread_id[i]] = "done" \/ cancel[thread_id[i]] # "no"

Inv == ThreadedTypeOK /\ CountInv /\ RecordInv /\ DistinctInv /\ CancelInv
       /\ FdInv /\ JoinInv

-----------------------------------------------------------------------------
\* What a thread cannot change, and its only steps at the counter.
LEMMA ThreadSteps ==
  ASSUME NEW q \in Conns, Served(q) \/ Work(q)
  PROVE  /\ UNCHANGED <<RUN, thread_id, pc, client_socket, current, reg, i,
                        accepted>>
         /\ UNCHANGED <<CLIENT_COUNT, treg>> \/ DecLoad(q) \/ DecStore(q)
BY Zenon DEF Served, Work, RecvData, RecvHangup, Send, Recv, LeaveRecv, Cast,
       SkipSender, CastEnds, Close, CancelActs, CancelSkips, CloseAgain,
       PassSlot, FindSlot, ClearSlot, DecLoad, DecStore, Report, ThreadEnds,
       NextDest, Moves, Over, Others, mainVars, tableVars, netVars

-----------------------------------------------------------------------------
LEMMA CountInit == Init => CountInv
BY ThreadedAssumption DEF Init, CountInv, CountBounded, Unused

LEMMA CountStep ==
  ASSUME ThreadedTypeOK, CountInv, [Next]_vars
  PROVE  CountInv'
<1>0. /\ CLIENT_COUNT \in Int /\ reg \in Int /\ treg \in [Conns -> Int]
      /\ MAX_CLIENTS \in Nat \ {0}
  BY ThreadedAssumption DEF ThreadedTypeOK
<1> USE <1>0
<1>1. CASE UNCHANGED <<CLIENT_COUNT, pc, reg, treg>>
  BY <1>1 DEF CountInv, CountBounded
<1>2. CASE MainWork
  <2>1. CASE Loop \/ AcceptFails \/ LeaveLoop
    BY <2>1 DEF Loop, AcceptFails, LeaveLoop, MainMoves, MainGoto, threadVars,
                CountInv, CountBounded
  <2>2. CASE Accept \/ Refuse
    BY <2>2 DEF Accept, Refuse, MainGoto, threadVars, CountInv, CountBounded
  <2>3. CASE Create
    BY <2>3 DEF Create, HasRoom, MainGoto, CountInv, CountBounded
  <2>4. CASE AddThread \/ AddIndex \/ AddSocket
    BY <2>4 DEF AddThread, AddIndex, AddSocket, MainGoto, threadVars,
                CountInv, CountBounded
  <2>5. CASE IncLoad \/ IncStore \/ Welcome
    BY <2>5 DEF IncLoad, IncStore, Welcome, MainGoto, threadVars,
                CountInv, CountBounded
  <2>6. CASE CancelNext \/ Joined
    BY <2>6 DEF CancelNext, Joined, MainGoto, threadVars, CountInv,
                CountBounded
  <2>7. CASE AddCrashes \/ Exit
    BY <2>7 DEF AddCrashes, Exit, Dies, Unused, CountInv, CountBounded
  <2>8. QED
    BY <1>2, <2>1, <2>2, <2>3, <2>4, <2>5, <2>6, <2>7 DEF MainWork
<1>3. CASE SendKills
  BY <1>3 DEF SendKills, Dies, Unused, CountInv, CountBounded
<1>4. ASSUME NEW q \in Conns, DecLoad(q) \/ DecStore(q)  PROVE CountInv'
  BY <1>4 DEF DecLoad, DecStore, Others, mainVars, CountInv, CountBounded
<1>5. CASE Interrupt
  BY <1>1, <1>5 DEF Interrupt, mainVars, threadVars
<1>6. CASE UNCHANGED vars
  BY <1>1, <1>6 DEF vars, mainVars, threadVars
<1>7. CASE \E q \in Conns : Served(q) \/ Work(q)
  BY <1>1, <1>4, <1>7, ThreadSteps
<1>8. QED
  BY <1>2, <1>3, <1>5, <1>6, <1>7 DEF Next

-----------------------------------------------------------------------------
LEMMA TypeInit == Init => ThreadedTypeOK
BY ThreadedAssumption DEF Init, ThreadedTypeOK, Unused, NoFds, Serving

-----------------------------------------------------------------------------
\* The indices that come from the counter are in the table.
LEMMA Indices ==
  ASSUME ThreadedTypeOK, CountInv
  PROVE  /\ CLIENT_COUNT \in Int /\ CLIENT_COUNT <= MAX_CLIENTS
         /\ MAX_CLIENTS \in Nat /\ Slots = 0 .. MAX_CLIENTS-1
         /\ \A k \in 0..MAX_CLIENTS : k < CLIENT_COUNT => k \in Slots
         /\ \A k \in Slots : k + 1 \in 0..MAX_CLIENTS
         /\ \A k \in 0..MAX_CLIENTS : k < MAX_CLIENTS => k \in Slots
BY ThreadedAssumption DEF ThreadedTypeOK, CountInv, CountBounded, Slots

LEMMA TypeDies ==
  ASSUME ThreadedTypeOK, NEW how \in {"exit", "crash", "sigpipe"}, Dies(how)
  PROVE  ThreadedTypeOK'
BY ThreadedAssumption DEF Dies, ThreadedTypeOK, Unused, NoFds, Serving

LEMMA TypeMain ==
  ASSUME ThreadedTypeOK, CountInv, MainWork
  PROVE  ThreadedTypeOK'
<1> USE DEF MainGoto, tableVars, threadVars, netVars
<1>1. CASE Loop \/ AcceptFails \/ LeaveLoop
  BY <1>1 DEF Loop, AcceptFails, LeaveLoop, MainMoves, ThreadedTypeOK
<1>2. CASE Accept
  BY <1>2 DEF Accept, FreeFds, ThreadedTypeOK
<1>3. CASE Refuse
  BY <1>3 DEF Refuse, Closed, ThreadedTypeOK
<1>4. CASE Create
  BY <1>4 DEF Create, Serving, ThreadedTypeOK
<1>5. CASE AddThread
  BY <1>5 DEF AddThread, ThreadedTypeOK
<1>6. CASE AddIndex
  BY <1>6 DEF AddIndex, ThreadedTypeOK
<1>7. CASE AddSocket
  BY <1>7 DEF AddSocket, ThreadedTypeOK
<1>8. CASE IncLoad \/ IncStore
  BY <1>8 DEF IncLoad, IncStore, ThreadedTypeOK
<1>9. CASE Welcome
  BY <1>9 DEF Welcome, ThreadedTypeOK
<1>10. CASE CancelNext
  BY <1>10, Indices DEF CancelNext, ThreadedTypeOK
<1>11. CASE Joined
  BY <1>11, Indices DEF Joined, ThreadedTypeOK
<1>12. CASE AddCrashes \/ Exit
  BY <1>12, TypeDies DEF AddCrashes, Exit
<1>13. QED
  BY <1>1, <1>2, <1>3, <1>4, <1>5, <1>6, <1>7, <1>8, <1>9, <1>10, <1>11, <1>12
  DEF MainWork

LEMMA TypeThread ==
  ASSUME ThreadedTypeOK, CountInv, NEW q \in Conns, Served(q) \/ Work(q)
  PROVE  ThreadedTypeOK'
<1> USE DEF Goto, Others, tableVars, mainVars, netVars
<1>1. CASE Recv(q) \/ LeaveRecv(q) \/ RecvData(q) \/ RecvHangup(q)
  BY <1>1 DEF Recv, LeaveRecv, RecvData, RecvHangup, Moves, Serving,
              ThreadedTypeOK
<1>2. CASE Cast(q)
  BY <1>2, Indices DEF Cast, Moves, Serving, ThreadedTypeOK
<1>3. CASE SkipSender(q) \/ Send(q)
  <2>1. NextDest(q)
    BY <1>3 DEF SkipSender, Send
  <2>2. n[q] + 1 \in 0..MAX_CLIENTS
    BY <2>1, Indices DEF NextDest, ThreadedTypeOK
  <2>3. QED
    BY <2>1, <2>2 DEF NextDest, Serving, ThreadedTypeOK
<1>4. CASE CastEnds(q)
  BY <1>4, Indices DEF CastEnds, Serving, ThreadedTypeOK
<1>5. CASE Close(q)
  BY <1>5 DEF Close, Closed, ThreadedTypeOK
<1>6. CASE CancelActs(q)
  BY <1>6, Indices DEF CancelActs, ThreadedTypeOK
<1>7. CASE CancelSkips(q) \/ ThreadEnds(q)
  <2>1. PICK at \in {"handler", "report", "scan"} : Over(q, at)
    BY <1>7 DEF CancelSkips, ThreadEnds
  <2>2. 0 \in 0..MAX_CLIENTS
    BY Indices
  <2>3. QED
    BY <2>1, <2>2 DEF Over, ThreadedTypeOK
<1>8. CASE CloseAgain(q)
  BY <1>8, Indices DEF CloseAgain, Closed, ThreadedTypeOK
<1>9. CASE PassSlot(q) \/ FindSlot(q)
  <2>1. n[q] \in Slots /\ n[q] + 1 \in 0..MAX_CLIENTS
    BY <1>9, Indices DEF PassSlot, FindSlot, ThreadedTypeOK
  <2>2. QED
    BY <1>9, <2>1 DEF PassSlot, FindSlot, Moves, ThreadedTypeOK
<1>10. CASE ClearSlot(q)
  BY <1>10 DEF ClearSlot, ThreadedTypeOK
<1>11. CASE DecLoad(q) \/ DecStore(q)
  BY <1>11 DEF DecLoad, DecStore, ThreadedTypeOK
<1>12. CASE Report(q)
  <2>1. n[q] + 1 \in 0..MAX_CLIENTS
    BY <1>12, Indices DEF Report, ThreadedTypeOK
  <2>2. QED
    BY <1>12, <2>1 DEF Report, ThreadedTypeOK
<1>13. QED
  BY <1>1, <1>2, <1>3, <1>4, <1>5, <1>6, <1>7, <1>8, <1>9, <1>10, <1>11, <1>12
  DEF Served, Work

LEMMA TypeStep ==
  ASSUME ThreadedTypeOK, CountInv, [Next]_vars
  PROVE  ThreadedTypeOK'
<1>1. CASE MainWork
  BY <1>1, TypeMain
<1>2. CASE \E q \in Conns : Served(q) \/ Work(q)
  BY <1>2, TypeThread
<1>3. CASE SendKills
  BY <1>3, TypeDies DEF SendKills
<1>4. CASE Interrupt
  BY <1>4 DEF Interrupt, tableVars, mainVars, threadVars, netVars,
              ThreadedTypeOK
<1>5. CASE UNCHANGED vars
  BY <1>5 DEF vars, tableVars, mainVars, threadVars, netVars, ThreadedTypeOK
<1>6. QED
  BY <1>1, <1>2, <1>3, <1>4, <1>5 DEF Next

-----------------------------------------------------------------------------
LEMMA RecordInit == Init => RecordInv
BY ThreadedAssumption DEF Init, RecordInv, Recorded, Slots, Unused

\* Recorded(k) says less the smaller k is, and nothing below one.
LEMMA RecordedLess ==
  ASSUME NEW k \in Int, NEW m \in Int, m <= k, Recorded(k)
  PROVE  Recorded(m)
BY ThreadedAssumption DEF Recorded, Slots

LEMMA RecordedZero == Recorded(0)
BY ThreadedAssumption DEF Recorded, Slots

\* RecordInv speaks of these variables only.
LEMMA SameRecord ==
  ASSUME RecordInv, UNCHANGED <<CLIENT_COUNT, thread_id, pc, reg, treg>>
  PROVE  RecordInv'
BY DEF RecordInv, Recorded

LEMMA RecordDies ==
  ASSUME NEW how \in {"exit", "crash", "sigpipe"}, Dies(how)
  PROVE  RecordInv'
BY ThreadedAssumption DEF Dies, RecordInv, Recorded, Slots, Unused

\* What main records is a thread.
LEMMA CurrentIsThread ==
  ASSUME ThreadedTypeOK, DistinctInv, pc \in {"check", "add_thread"}
  PROVE  current \in Conns /\ current # NoConn
BY ThreadedAssumption DEF ThreadedTypeOK, DistinctInv

LEMMA RecordMain ==
  ASSUME ThreadedTypeOK, RecordInv, DistinctInv, MainWork
  PROVE  RecordInv'
<1>0. CLIENT_COUNT \in Int /\ reg \in Int /\ treg \in [Conns -> Int]
  BY DEF ThreadedTypeOK
<1>1. CASE Loop \/ AcceptFails \/ LeaveLoop \/ Accept \/ Refuse \/ Create
           \/ AddIndex \/ AddSocket \/ Welcome \/ CancelNext \/ Joined
  <2>1. /\ UNCHANGED <<CLIENT_COUNT, thread_id, treg>>
        /\ pc' = "inc_load" => pc = "add_socket"
        /\ pc' = "add_socket" => pc = "add_index"
        /\ pc' \notin {"add_index", "inc_store"}
    BY <1>1 DEF Loop, AcceptFails, LeaveLoop, MainMoves, Accept, Refuse, Create,
                AddIndex, AddSocket, Welcome, CancelNext, Joined, MainGoto,
                tableVars, threadVars
  <2>2. QED
    BY <2>1 DEF RecordInv, Recorded
<1>2. CASE AddThread
  <2>1. /\ UNCHANGED <<CLIENT_COUNT, treg>> /\ pc' = "add_index"
        /\ \A s \in Slots : thread_id[s] # NoConn => thread_id'[s] # NoConn
        /\ \A s \in Slots : s = CLIENT_COUNT => thread_id'[s] # NoConn
    BY <1>2, CurrentIsThread DEF AddThread, MainGoto, threadVars
  <2>2. QED
    BY <1>0, <2>1, ThreadedAssumption DEF RecordInv, Recorded, Slots
<1>3. CASE IncLoad
  BY <1>3 DEF IncLoad, MainGoto, tableVars, threadVars, RecordInv, Recorded
<1>4. CASE IncStore
  BY <1>4 DEF IncStore, MainGoto, tableVars, threadVars, RecordInv, Recorded
<1>5. CASE AddCrashes \/ Exit
  BY <1>5, RecordDies DEF AddCrashes, Exit
<1>6. QED
  BY <1>1, <1>2, <1>3, <1>4, <1>5 DEF MainWork

LEMMA RecordStep ==
  ASSUME ThreadedTypeOK, RecordInv, DistinctInv, [Next]_vars
  PROVE  RecordInv'
<1>1. CASE MainWork
  BY <1>1, RecordMain
<1>2. CASE SendKills
  BY <1>2, RecordDies DEF SendKills
<1>3. CASE Interrupt \/ UNCHANGED vars
  BY <1>3, SameRecord DEF Interrupt, vars, tableVars, mainVars, threadVars
<1>4. ASSUME NEW q \in Conns, Served(q) \/ Work(q)
      PROVE  RecordInv'
  <2>1. CASE UNCHANGED <<CLIENT_COUNT, treg>>
    BY <1>4, <2>1, ThreadSteps, SameRecord
  <2>2. CASE DecLoad(q)
    BY <2>2 DEF DecLoad, Others, tableVars, mainVars, ThreadedTypeOK, RecordInv,
                Recorded
  <2>3. CASE DecStore(q)
    <3>1. /\ CLIENT_COUNT' = treg[q] - 1 /\ treg[q] \in Int
          /\ treg' = [treg EXCEPT ![q] = 0]
          /\ UNCHANGED <<thread_id, pc, reg>>
      BY <2>3 DEF DecStore, Others, tableVars, mainVars, ThreadedTypeOK
    <3>2. Recorded(treg[q]) /\ Recorded(treg[q] - 1) /\ Recorded(0)
      BY <3>1, RecordedLess, RecordedZero DEF RecordInv
    <3>3. CLIENT_COUNT' + 1 = treg[q]
      BY <3>1
    <3>4. QED
      BY <3>1, <3>2, <3>3 DEF RecordInv, Recorded, ThreadedTypeOK
  <2>4. QED
    BY <1>4, <2>1, <2>2, <2>3, ThreadSteps
<1>5. QED
  BY <1>1, <1>2, <1>3, <1>4 DEF Next

-----------------------------------------------------------------------------
LEMMA DistinctInit == Init => DistinctInv
BY DEF Init, DistinctInv

LEMMA DistinctStep ==
  ASSUME ThreadedTypeOK, DistinctInv, [Next]_vars
  PROVE  DistinctInv'
<1>1. CASE /\ UNCHANGED <<thread_id, accepted>>
           /\ pc' \notin {"check", "add_thread"} \/ UNCHANGED <<pc, current>>
  BY <1>1 DEF DistinctInv
<1>2. CASE Loop \/ AcceptFails \/ LeaveLoop \/ Refuse \/ AddIndex \/ AddSocket
           \/ IncLoad \/ IncStore \/ Welcome \/ CancelNext \/ Joined
  BY <1>1, <1>2 DEF Loop, AcceptFails, LeaveLoop, MainMoves, Refuse, AddIndex,
       AddSocket, IncLoad, IncStore, Welcome, CancelNext, Joined, MainGoto,
       tableVars, netVars
<1>3. CASE Accept
  BY <1>3, ThreadedAssumption
  DEF Accept, MainGoto, tableVars, ThreadedTypeOK, DistinctInv
<1>4. CASE Create
  BY <1>4 DEF Create, MainGoto, tableVars, netVars, DistinctInv
<1>5. CASE AddThread
  BY <1>5 DEF AddThread, MainGoto, netVars, ThreadedTypeOK, DistinctInv
<1>6. CASE AddCrashes \/ Exit \/ SendKills
  BY <1>6 DEF AddCrashes, Exit, SendKills, Dies, DistinctInv
<1>7. CASE Interrupt \/ UNCHANGED vars
  BY <1>1, <1>7 DEF Interrupt, vars, tableVars, mainVars, netVars
<1>8. CASE \E q \in Conns : Served(q) \/ Work(q)
  BY <1>1, <1>8, ThreadSteps
<1>9. QED
  BY <1>2, <1>3, <1>4, <1>5, <1>6, <1>7, <1>8 DEF Next, MainWork

-----------------------------------------------------------------------------
LEMMA CancelInit == Init => CancelInv
BY DEF Init, CancelInv

\* Main cancels one thread at a time and waits for it.
LEMMA CancelMain ==
  ASSUME ThreadedTypeOK, CancelInv, MainWork
  PROVE  CancelInv'
<1>1. pc # "joining" => \A q \in Conns : cancel[q] = "no"
  BY DEF CancelInv
<1>2. CASE Loop \/ AcceptFails \/ LeaveLoop \/ Accept \/ Refuse \/ Create
           \/ AddThread \/ AddIndex \/ AddSocket \/ IncLoad \/ IncStore
           \/ Welcome
  <2>1. pc # "joining" /\ cancel' = cancel
    BY <1>2 DEF Loop, AcceptFails, LeaveLoop, MainMoves, Accept, Refuse, Create,
         AddThread, AddIndex, AddSocket, IncLoad, IncStore, Welcome, MainGoto,
         threadVars
  <2>2. QED
    BY <1>1, <2>1 DEF CancelInv
<1>3. CASE CancelNext
  BY <1>1, <1>3
  DEF CancelNext, MainGoto, tableVars, ThreadedTypeOK, CancelInv
<1>4. CASE Joined
  BY <1>4 DEF Joined, MainGoto, threadVars, CancelInv
<1>5. CASE AddCrashes \/ Exit
  BY <1>5 DEF AddCrashes, Exit, Dies, CancelInv
<1>6. QED
  BY <1>2, <1>3, <1>4, <1>5 DEF MainWork

\* A thread is cancelled only by main, and done only when it is past that.
LEMMA ThreadCancel ==
  ASSUME ThreadedTypeOK, NEW q \in Conns, Served(q) \/ Work(q)
  PROVE  /\ \A r \in Conns \ {q} : cancel'[r] = cancel[r] /\ tpc'[r] = tpc[r]
         /\ cancel'[q] # "no" => cancel[q] # "no" /\ tpc'[q] # "done"
<1> USE DEF ThreadedTypeOK, Goto
<1>1. CASE Recv(q) \/ LeaveRecv(q) \/ RecvData(q) \/ RecvHangup(q) \/ Cast(q)
           \/ FindSlot(q)
  BY <1>1 DEF Recv, LeaveRecv, RecvData, RecvHangup, Cast, FindSlot, Moves
<1>2. CASE SkipSender(q) \/ Send(q) \/ CastEnds(q) \/ Close(q) \/ CloseAgain(q)
  BY <1>2 DEF SkipSender, Send, NextDest, CastEnds, Close, CloseAgain
<1>3. CASE ClearSlot(q) \/ DecLoad(q) \/ DecStore(q) \/ Report(q)
  BY <1>3 DEF ClearSlot, DecLoad, DecStore, Report
<1>4. CASE PassSlot(q)
  BY <1>4 DEF PassSlot
<1>5. CASE CancelActs(q)
  BY <1>5 DEF CancelActs
<1>6. CASE CancelSkips(q) \/ ThreadEnds(q)
  BY <1>6 DEF CancelSkips, ThreadEnds, Over
<1>7. QED
  BY <1>1, <1>2, <1>3, <1>4, <1>5, <1>6 DEF Served, Work

LEMMA CancelStep ==
  ASSUME ThreadedTypeOK, CancelInv, [Next]_vars
  PROVE  CancelInv'
<1>1. CASE MainWork
  BY <1>1, CancelMain
<1>2. CASE SendKills
  BY <1>2 DEF SendKills, Dies, CancelInv
<1>3. CASE Interrupt \/ UNCHANGED vars
  BY <1>3 DEF Interrupt, vars, tableVars, mainVars, threadVars, CancelInv
<1>4. ASSUME NEW q \in Conns, Served(q) \/ Work(q)
      PROVE  CancelInv'
  BY <1>4, ThreadSteps, ThreadCancel DEF CancelInv
<1>5. QED
  BY <1>1, <1>2, <1>3, <1>4 DEF Next

-----------------------------------------------------------------------------
LEMMA FdInit == Init => FdInv
BY DEF Init, FdInv

LEMMA FdDies ==
  ASSUME NEW how \in {"exit", "crash", "sigpipe"}, Dies(how)
  PROVE  FdInv'
BY DEF Dies, FdInv

LEMMA FdMain ==
  ASSUME ThreadedTypeOK, DistinctInv, CancelInv, FdInv, MainWork
  PROVE  FdInv'
<1>1. CASE Loop \/ AcceptFails \/ LeaveLoop \/ AddThread \/ AddIndex
           \/ AddSocket \/ IncLoad \/ IncStore \/ Welcome \/ Joined
  <2>1. UNCHANGED <<tpc, arg, cancel, sock, accepted>> /\ pc # "check"
        /\ pc' # "check"
    BY <1>1 DEF Loop, AcceptFails, LeaveLoop, MainMoves, AddThread, AddIndex,
         AddSocket, IncLoad, IncStore, Welcome, Joined, MainGoto, threadVars,
         netVars
  <2>2. QED
    BY <2>1 DEF FdInv, WillClose
<1>2. CASE Accept
  <2>1. PICK f \in FreeFds, q \in Conns :
          /\ q \notin accepted
          /\ sock' = [sock EXCEPT ![f] = q]
          /\ accepted' = accepted \cup {q}
          /\ client_socket' = f /\ current' = q
    BY <1>2 DEF Accept
  <2>2. UNCHANGED <<tpc, arg, cancel>> /\ pc # "check" /\ pc' = "check"
    BY <1>2 DEF Accept, MainGoto, threadVars
  <2>3. tpc[q] = "none" /\ f \in Descriptors
    BY <2>1 DEF FdInv, FreeFds
  <2>4. QED
    BY <2>1, <2>2, <2>3 DEF FdInv, WillClose, ThreadedTypeOK
<1>3. CASE Refuse
  BY <1>3 DEF Refuse, MainGoto, threadVars, Closed, FdInv, WillClose,
              ThreadedTypeOK
<1>4. CASE Create
  <2>1. current \in Conns /\ current \in accepted /\ tpc[current] = "none"
        /\ pc = "check" /\ pc' # "check"
    BY <1>4, CurrentIsThread DEF Create, MainGoto, DistinctInv, FdInv
  <2>2. /\ UNCHANGED <<sock, cancel, accepted>>
        /\ tpc' = [tpc EXCEPT ![current] = "recv"]
        /\ arg' = [arg EXCEPT ![current] = client_socket]
    BY <1>4 DEF Create, netVars
  <2>3. \A q \in Conns : tpc'[q] # "none" => q \in accepted'
    BY <2>1, <2>2 DEF FdInv, ThreadedTypeOK
  <2>4. ASSUME NEW f \in Descriptors, sock'[f] # NoConn
        PROVE  WillClose(sock[f], f)'
    <3>1. sock[f] \in Conns
      BY <2>2, <2>4 DEF ThreadedTypeOK
    <3>2. CASE sock[f] = current
      BY <2>1, <2>2, <2>4, <3>2
      DEF FdInv, WillClose, ThreadedTypeOK, Serving
    <3>3. CASE sock[f] # current
      BY <2>1, <2>2, <2>4, <3>1, <3>3 DEF FdInv, WillClose, ThreadedTypeOK
    <3>4. QED
      BY <3>2, <3>3
  <2>5. QED
    BY <2>1, <2>3, <2>4 DEF FdInv
<1>5. CASE CancelNext
  <2>1. /\ UNCHANGED <<sock, tpc, arg, accepted>>
        /\ pc # "check" /\ pc' # "check" /\ pc # "joining"
    BY <1>5 DEF CancelNext, MainGoto, netVars
  <2>2. \A q \in Conns : cancel[q] = "no"
    BY <2>1 DEF CancelInv
  <2>3. QED
    BY <2>1, <2>2 DEF FdInv, WillClose, ThreadedTypeOK
<1>6. CASE AddCrashes \/ Exit
  BY <1>6, FdDies DEF AddCrashes, Exit
<1>7. QED
  BY <1>1, <1>2, <1>3, <1>4, <1>5, <1>6 DEF MainWork

\* What a step of q does to what FdInv says of q: it goes on to close its
\* descriptor, or has closed it.
LEMMA ThreadFd ==
  ASSUME ThreadedTypeOK, NEW q \in Conns, Served(q) \/ Work(q)
  PROVE  /\ \A r \in Conns \ {q} : arg'[r] = arg[r]
         /\ tpc[q] # "none"
         /\ \A f \in Descriptors : sock'[f] = sock[f] \/ sock'[f] = NoConn
         /\ \A f \in Descriptors :
              WillClose(q, f) /\ sock'[f] # NoConn => WillClose(q, f)'
<1> USE DEF ThreadedTypeOK, Goto, WillClose, Serving
<1>1. CASE Recv(q) \/ LeaveRecv(q) \/ RecvData(q) \/ RecvHangup(q) \/ Cast(q)
           \/ FindSlot(q)
  BY <1>1 DEF Recv, LeaveRecv, RecvData, RecvHangup, Cast, FindSlot, Moves,
              netVars
<1>2. CASE SkipSender(q) \/ Send(q) \/ CastEnds(q)
  BY <1>2 DEF SkipSender, Send, NextDest, CastEnds, netVars
<1>3. CASE Close(q) \/ CloseAgain(q)
  BY <1>3 DEF Close, CloseAgain, Closed
<1>4. CASE ClearSlot(q) \/ DecLoad(q) \/ DecStore(q) \/ Report(q) \/ PassSlot(q)
  BY <1>4 DEF ClearSlot, DecLoad, DecStore, Report, PassSlot, netVars
<1>5. CASE CancelActs(q)
  BY <1>5 DEF CancelActs, netVars
<1>6. CASE CancelSkips(q) \/ ThreadEnds(q)
  BY <1>6 DEF CancelSkips, ThreadEnds, Over, netVars
<1>7. QED
  BY <1>1, <1>2, <1>3, <1>4, <1>5, <1>6 DEF Served, Work

LEMMA FdStep ==
  ASSUME ThreadedTypeOK, DistinctInv, CancelInv, FdInv, [Next]_vars
  PROVE  FdInv'
<1>1. CASE MainWork
  BY <1>1, FdMain
<1>2. CASE SendKills
  BY <1>2, FdDies DEF SendKills
<1>3. CASE Interrupt \/ UNCHANGED vars
  BY <1>3 DEF Interrupt, vars, mainVars, threadVars, netVars, FdInv, WillClose
<1>4. ASSUME NEW q \in Conns, Served(q) \/ Work(q)
      PROVE  FdInv'
  <2>1. UNCHANGED <<pc, current, client_socket, accepted>>
    BY <1>4, ThreadSteps
  <2>2. \A r \in Conns \ {q} : /\ tpc'[r] = tpc[r] /\ cancel'[r] = cancel[r]
                               /\ arg'[r] = arg[r]
    BY <1>4, ThreadCancel, ThreadFd
  <2>3. q \in accepted
    BY <1>4, ThreadFd DEF FdInv
  <2>4. pc = "check" => current \in Conns /\ current # q
    BY <1>4, ThreadFd, CurrentIsThread DEF FdInv
  <2>5. ASSUME NEW f \in Descriptors, sock'[f] # NoConn
        PROVE  \/ pc = "check" /\ sock'[f] = current /\ client_socket = f
               \/ WillClose(sock[f], f)'
    <3>1. sock'[f] = sock[f] /\ sock[f] \in Conns
      BY <1>4, <2>5, ThreadFd DEF ThreadedTypeOK
    <3>2. CASE sock[f] = q
      BY <1>4, <2>4, <2>5, <3>1, <3>2, ThreadFd DEF FdInv
    <3>3. CASE sock[f] # q
      BY <2>2, <2>5, <3>1, <3>3 DEF FdInv, WillClose
    <3>4. QED
      BY <3>2, <3>3
  <2>6. QED
    BY <2>1, <2>2, <2>3, <2>4, <2>5 DEF FdInv
<1>5. QED
  BY <1>1, <1>2, <1>3, <1>4 DEF Next

-----------------------------------------------------------------------------
LEMMA JoinInit == Init => JoinInv
BY DEF Init, JoinInv

LEMMA JoinMain ==
  ASSUME ThreadedTypeOK, CountInv, DistinctInv, CancelInv, JoinInv, MainWork
  PROVE  JoinInv'
<1>1. CASE Loop \/ AcceptFails \/ LeaveLoop \/ AddIndex \/ AddSocket
           \/ IncLoad \/ IncStore \/ Welcome \/ Joined \/ Accept \/ Refuse
  <2>1. UNCHANGED <<thread_id, tpc, cancel>>
        /\ pc' \notin {"add_thread", "joining"}
    BY <1>1 DEF Loop, AcceptFails, LeaveLoop, MainMoves, AddIndex, AddSocket,
         IncLoad, IncStore, Welcome, Joined, Accept, Refuse, MainGoto,
         threadVars, tableVars
  <2>2. QED
    BY <2>1 DEF JoinInv
<1>2. CASE Create
  <2>1. current \in Conns /\ pc = "check" /\ pc' = "add_thread"
        /\ cancel[current] = "no"
    BY <1>2, CurrentIsThread DEF Create, MainGoto, CancelInv
  <2>2. /\ UNCHANGED <<thread_id, cancel, current>>
        /\ tpc' = [tpc EXCEPT ![current] = "recv"]
    BY <1>2 DEF Create, tableVars
  <2>3. QED
    BY <2>1, <2>2 DEF JoinInv, ThreadedTypeOK
<1>3. CASE AddThread
  <2>1. /\ UNCHANGED <<tpc, cancel, current>>
        /\ pc = "add_thread" /\ pc' = "add_index"
        /\ \A s \in Slots : thread_id'[s] \in {thread_id[s], current}
    BY <1>3 DEF AddThread, MainGoto, threadVars
  <2>2. QED
    BY <2>1 DEF JoinInv
<1>4. CASE CancelNext
  <2>1. i \in Slots /\ thread_id[i] \in Conns /\ i' = i
    BY <1>4, Indices DEF CancelNext, ThreadedTypeOK
  <2>2. /\ UNCHANGED <<thread_id, tpc>>
        /\ pc # "joining" /\ pc' = "joining"
        /\ cancel' = [cancel EXCEPT ![thread_id[i]] =
                        IF tpc[thread_id[i]] = "done" THEN "no" ELSE "pending"]
    BY <1>4 DEF CancelNext, MainGoto, tableVars
  <2>3. \A q \in Conns : cancel'[q] # "acted"
    BY <2>1, <2>2 DEF CancelInv, ThreadedTypeOK
  <2>4. tpc'[thread_id'[i']] = "done" \/ cancel'[thread_id'[i']] # "no"
    BY <2>1, <2>2 DEF ThreadedTypeOK
  <2>5. thread_id'[i'] # NoConn
    BY <2>1, <2>2, ThreadedAssumption
  <2>6. QED
    BY <2>2, <2>3, <2>4, <2>5 DEF JoinInv
<1>5. CASE AddCrashes \/ Exit
  BY <1>5 DEF AddCrashes, Exit, Dies, JoinInv
<1>6. QED
  BY <1>1, <1>2, <1>3, <1>4, <1>5 DEF MainWork

\* A cancelled thread goes to its handler and through it, or is over.
LEMMA ThreadUnwinds ==
  ASSUME ThreadedTypeOK, NEW q \in Conns, Served(q) \/ Work(q),
         cancel[q] = "acted" => tpc[q] \in Unwinding
  PROVE  /\ tpc'[q] # "none"
         /\ tpc'[q] = "done" \/ cancel'[q] = cancel[q] \/ cancel'[q] = "acted"
         /\ cancel'[q] = "acted" => tpc'[q] \in Unwinding
         /\ tpc[q] # "done"
<1> USE DEF ThreadedTypeOK, Goto, Unwinding
<1>1. CASE Recv(q) \/ LeaveRecv(q) \/ RecvData(q) \/ RecvHangup(q) \/ Cast(q)
           \/ FindSlot(q)
  BY <1>1 DEF Recv, LeaveRecv, RecvData, RecvHangup, Cast, FindSlot, Moves
<1>2. CASE SkipSender(q) \/ Send(q) \/ CastEnds(q) \/ Close(q) \/ CloseAgain(q)
  BY <1>2 DEF SkipSender, Send, NextDest, CastEnds, Close, CloseAgain
<1>3. CASE ClearSlot(q) \/ DecLoad(q) \/ DecStore(q) \/ Report(q)
  BY <1>3 DEF ClearSlot, DecLoad, DecStore, Report
<1>4. CASE PassSlot(q)
  BY <1>4 DEF PassSlot
<1>5. CASE CancelActs(q)
  BY <1>5 DEF CancelActs
<1>6. CASE CancelSkips(q) \/ ThreadEnds(q)
  BY <1>6 DEF CancelSkips, ThreadEnds, Over
<1>7. QED
  BY <1>1, <1>2, <1>3, <1>4, <1>5, <1>6 DEF Served, Work

LEMMA JoinStep ==
  ASSUME ThreadedTypeOK, CountInv, DistinctInv, CancelInv, JoinInv, [Next]_vars
  PROVE  JoinInv'
<1>1. CASE MainWork
  BY <1>1, JoinMain
<1>2. CASE SendKills
  BY <1>2 DEF SendKills, Dies, JoinInv
<1>3. CASE Interrupt \/ UNCHANGED vars
  BY <1>3 DEF Interrupt, vars, tableVars, mainVars, threadVars, JoinInv
<1>4. ASSUME NEW q \in Conns, Served(q) \/ Work(q)
      PROVE  JoinInv'
  <2>1. UNCHANGED <<pc, thread_id, current, i>>
    BY <1>4, ThreadSteps
  <2>2. \A r \in Conns \ {q} : tpc'[r] = tpc[r] /\ cancel'[r] = cancel[r]
    BY <1>4, ThreadCancel
  <2>3. /\ tpc'[q] # "none"
        /\ tpc'[q] = "done" \/ cancel'[q] = cancel[q] \/ cancel'[q] = "acted"
        /\ cancel'[q] = "acted" => tpc'[q] \in Unwinding
        /\ tpc[q] # "done"
    BY <1>4, ThreadUnwinds DEF JoinInv
  <2>4. \A s \in Slots : thread_id[s] # NoConn => thread_id[s] \in Conns
    BY DEF ThreadedTypeOK
  <2>5. pc = "add_thread" => current \in Conns
    BY CurrentIsThread
  <2>6. pc = "joining" => thread_id[i] \in Conns
    BY <2>4 DEF ThreadedTypeOK, JoinInv
  <2>7. QED
    BY <2>1, <2>2, <2>3, <2>4, <2>5, <2>6 DEF JoinInv
<1>5. QED
  BY <1>1, <1>2, <1>3, <1>4 DEF Next

-----------------------------------------------------------------------------
\* Everything together, for every reachable state.
THEOREM ThreadedInvariant == Spec => []Inv
<1>1. Init => Inv
  BY TypeInit, CountInit, RecordInit, DistinctInit, CancelInit, FdInit,
     JoinInit DEF Inv
<1>2. Inv /\ [Next]_vars => Inv'
  BY TypeStep, CountStep, RecordStep, DistinctStep, CancelStep, FdStep,
     JoinStep DEF Inv
<1>3. QED
  BY <1>1, <1>2, PTL DEF Spec

\* Every variable keeps its type, and every index into the table stays in it
\* although the counter it was compared with changes meanwhile.
THEOREM ThreadedTypes == Spec => []ThreadedTypeOK
BY ThreadedInvariant, PTL DEF Inv

\* However increments and decrements of the unprotected counter lose each
\* other, add_client (host-threaded.c:294) never writes beyond the table.
THEOREM CounterStaysInTable == Spec => []CountBounded
<1>1. Inv => CountBounded
  BY DEF Inv, CountInv
<1>2. QED
  BY <1>1, ThreadedInvariant, PTL

\* join_all_threads (host-threaded.c:161) gives pthread_cancel and
\* pthread_join threads that were created, each at most once.
THEOREM JoinsAreSound == Spec => []JoinsCreatedOnce
<1>1. Inv => JoinsCreatedOnce
  BY DEF Inv, RecordInv, Recorded, DistinctInv, JoinsCreatedOnce
<1>2. QED
  BY <1>1, ThreadedInvariant, PTL

\* No descriptor of a client stays open once its thread has cleaned up, or
\* main has refused it, although threads close numbers twice.
THEOREM DescriptorsAreClosed == Spec => []NoDescriptorLeak
<1>1. Inv => NoDescriptorLeak
  BY DEF Inv, FdInv, WillClose, NoDescriptorLeak
<1>2. QED
  BY <1>1, ThreadedInvariant, PTL

\* pthread_join (host-threaded.c:161) is only called on a thread that no client
\* can keep from ending: whatever the threads were doing when the signal came,
\* and however the table and the counter disagree.
THEOREM JoinWaitsForNoClient == Spec => []JoinAwaitsCancelled
<1>1. Inv => JoinAwaitsCancelled
  BY DEF Inv, JoinInv, ThreadedTypeOK, JoinAwaitsCancelled
<1>2. QED
  BY <1>1, ThreadedInvariant, PTL

-----------------------------------------------------------------------------
(* A cancelled thread ends. What ShutdownEnds needs besides the scheduler:  *)
(* from the moment pthread_cancel marks a thread, each of its steps brings  *)
(* it closer to its end, and no step of main or of another thread takes it  *)
(* back, although they change the counter and the table it loops over.     *)

SlotsAhead(q) == MAX_CLIENTS - n[q]
HandlerSteps  == 5 * MAX_CLIENTS + 2

\* The steps a cancelled thread has left at most: two for each slot of a
\* broadcast it is in, and five for each slot of remove_client.
StepsLeft(q) ==
  CASE tpc[q] = "cast"      -> (2 * SlotsAhead(q)) + HandlerSteps + 2
    [] tpc[q] = "compare"   -> (2 * SlotsAhead(q)) + HandlerSteps + 1
    [] tpc[q] \in {"recv", "blocked", "close"} -> HandlerSteps + 1
    [] tpc[q] = "handler"   -> HandlerSteps
    [] tpc[q] = "scan"      -> (5 * SlotsAhead(q)) + 1
    [] tpc[q] = "clear"     -> 5 * SlotsAhead(q)
    [] tpc[q] = "dec_load"  -> (5 * SlotsAhead(q)) - 1
    [] tpc[q] = "dec_store" -> (5 * SlotsAhead(q)) - 2
    [] tpc[q] = "report"    -> (5 * SlotsAhead(q)) - 3
    [] OTHER                -> 0

\* A cancelled thread stays cancelled until it is over, and is over within
\* StepsLeft steps of its own.
CancelledEnds ==
  [][\A q \in Conns : cancel[q] # "no" /\ Running' =>
       /\ cancel'[q] # "no" \/ tpc'[q] = "done"
       /\ IF Served(q) \/ Work(q) THEN StepsLeft(q)' < StepsLeft(q)
                                  ELSE StepsLeft(q)' = StepsLeft(q)]_vars

LEMMA StepsLeftNat ==
  ASSUME ThreadedTypeOK, NEW q \in Conns
  PROVE  StepsLeft(q) \in Nat
<1>1. n[q] \in 0..MAX_CLIENTS /\ MAX_CLIENTS \in Nat
  BY ThreadedAssumption DEF ThreadedTypeOK
<1>2. tpc[q] \in {"compare", "clear", "dec_load", "dec_store", "report"} =>
        n[q] < MAX_CLIENTS
  BY <1>1 DEF ThreadedTypeOK, Slots
<1>3. QED
  BY <1>1, <1>2 DEF StepsLeft, SlotsAhead, HandlerSteps

\* What a cancelled thread does next brings it closer to its end.
LEMMA CancelledSteps ==
  ASSUME ThreadedTypeOK, NEW q \in Conns, Served(q) \/ Work(q),
         cancel[q] # "no", cancel[q] = "acted" => tpc[q] \in Unwinding
  PROVE  /\ StepsLeft(q)' < StepsLeft(q)
         /\ cancel'[q] # "no" \/ tpc'[q] = "done"
<1>0. /\ n[q] \in 0..MAX_CLIENTS /\ MAX_CLIENTS \in Nat
      /\ q \in DOMAIN tpc /\ q \in DOMAIN n /\ q \in DOMAIN cancel
      /\ cancel[q] \in {"pending", "acted"}
      /\ tpc[q] \in {"compare", "clear", "dec_load", "dec_store", "report"} =>
           n[q] < MAX_CLIENTS
  BY ThreadedAssumption DEF ThreadedTypeOK, Slots
<1> USE <1>0 DEF Goto, StepsLeft, SlotsAhead, HandlerSteps
<1>1. CASE Recv(q) \/ LeaveRecv(q) \/ RecvData(q) \/ RecvHangup(q) \/ Send(q)
           \/ Close(q)
  <2>1. cancel[q] # "pending" /\ tpc[q] \notin Unwinding
    BY <1>1 DEF Recv, LeaveRecv, RecvData, RecvHangup, Send, Close, NextDest,
                MayCall, Moves, Unwinding
  <2>2. QED
    BY <2>1
<1>2. CASE Cast(q)
  BY <1>2 DEF Cast, Moves
<1>3. CASE SkipSender(q)
  BY <1>3 DEF SkipSender, NextDest
<1>4. CASE CastEnds(q)
  BY <1>4 DEF CastEnds
<1>5. CASE CancelActs(q)
  BY <1>5 DEF CancelActs
<1>6. CASE CancelSkips(q)
  BY <1>6 DEF CancelSkips, Over
<1>7. CASE CloseAgain(q)
  BY <1>7 DEF CloseAgain
<1>8. CASE PassSlot(q)
  BY <1>8 DEF PassSlot
<1>9. CASE FindSlot(q)
  BY <1>9 DEF FindSlot, Moves
<1>10. CASE ClearSlot(q) \/ DecLoad(q) \/ DecStore(q)
  BY <1>10 DEF ClearSlot, DecLoad, DecStore
<1>11. CASE Report(q)
  BY <1>11 DEF Report
<1>12. CASE ThreadEnds(q)
  BY <1>12 DEF ThreadEnds, Over
<1>13. QED
  BY <1>1, <1>2, <1>3, <1>4, <1>5, <1>6, <1>7, <1>8, <1>9, <1>10, <1>11,
     <1>12 DEF Served, Work

\* A thread's loop index is its own.
LEMMA ThreadIndex ==
  ASSUME ThreadedTypeOK, NEW q \in Conns, Served(q) \/ Work(q)
  PROVE  \A r \in Conns \ {q} : n'[r] = n[r]
<1> USE DEF ThreadedTypeOK
<1>1. CASE Recv(q) \/ LeaveRecv(q) \/ RecvData(q) \/ RecvHangup(q) \/ Cast(q)
           \/ FindSlot(q) \/ Close(q) \/ ClearSlot(q) \/ DecLoad(q)
           \/ DecStore(q)
  BY <1>1 DEF Recv, LeaveRecv, RecvData, RecvHangup, Cast, FindSlot, Moves,
              Close, ClearSlot, DecLoad, DecStore
<1>2. CASE SkipSender(q) \/ Send(q) \/ CastEnds(q) \/ CloseAgain(q)
           \/ PassSlot(q) \/ Report(q)
  BY <1>2 DEF SkipSender, Send, NextDest, CastEnds, CloseAgain, PassSlot, Report
<1>3. CASE CancelActs(q) \/ CancelSkips(q) \/ ThreadEnds(q)
  BY <1>3 DEF CancelActs, CancelSkips, ThreadEnds, Over
<1>4. QED
  BY <1>1, <1>2, <1>3 DEF Served, Work

\* Only the thread's own steps, and the end of the process, move it.
LEMMA OthersLeaveIt ==
  ASSUME ThreadedTypeOK, CancelInv, NEW q \in Conns, cancel[q] # "no",
         [Next]_vars, Running', ~(Served(q) \/ Work(q))
  PROVE  tpc'[q] = tpc[q] /\ n'[q] = n[q] /\ cancel'[q] = cancel[q]
<1>1. pc = "joining"
  BY DEF CancelInv
<1>2. CASE MainWork
  <2>1. Joined
    BY <1>1, <1>2 DEF MainWork, Loop, Accept, AcceptFails, Refuse, Create,
         AddThread, AddIndex, AddSocket, AddCrashes, IncLoad, IncStore, Welcome,
         LeaveLoop, CancelNext, Exit, MainMoves, MainGoto
  <2>2. QED
    BY <2>1 DEF Joined, threadVars
<1>3. CASE SendKills
  BY <1>3 DEF SendKills, Dies, Running, Ended
<1>4. CASE Interrupt \/ UNCHANGED vars
  BY <1>4 DEF Interrupt, vars, threadVars
<1>5. ASSUME NEW r \in Conns, Served(r) \/ Work(r)
      PROVE  tpc'[q] = tpc[q] /\ n'[q] = n[q] /\ cancel'[q] = cancel[q]
  <2>1. q \in Conns \ {r}
    BY <1>5
  <2>2. QED
    BY <1>5, <2>1, ThreadCancel, ThreadIndex
<1>6. QED
  BY <1>2, <1>3, <1>4, <1>5 DEF Next

\* pthread_join returns (host-threaded.c:167): the thread it waits for was
\* cancelled, and whatever the clients, main and the other threads do, it ends
\* after a bounded number of steps, each of which lowers a natural number.
THEOREM CancelledThreadEnds ==
  Spec => [](\A q \in Conns : StepsLeft(q) \in Nat) /\ CancelledEnds
<1>1. Inv => \A q \in Conns : StepsLeft(q) \in Nat
  BY StepsLeftNat DEF Inv
<1>2. Inv /\ [Next]_vars =>
          [\A q \in Conns : cancel[q] # "no" /\ Running' =>
             /\ cancel'[q] # "no" \/ tpc'[q] = "done"
             /\ IF Served(q) \/ Work(q) THEN StepsLeft(q)' < StepsLeft(q)
                                        ELSE StepsLeft(q)' = StepsLeft(q)]_vars
  <2> SUFFICES ASSUME Inv, [Next]_vars, NEW q \in Conns, cancel[q] # "no",
                      Running'
               PROVE  /\ cancel'[q] # "no" \/ tpc'[q] = "done"
                      /\ IF Served(q) \/ Work(q)
                           THEN StepsLeft(q)' < StepsLeft(q)
                           ELSE StepsLeft(q)' = StepsLeft(q)
    OBVIOUS
  <2>1. CASE Served(q) \/ Work(q)
    <3>1. cancel[q] = "acted" => tpc[q] \in Unwinding
      BY DEF Inv, JoinInv
    <3>2. QED
      BY <2>1, <3>1, CancelledSteps DEF Inv
  <2>2. CASE ~(Served(q) \/ Work(q))
    <3>1. tpc'[q] = tpc[q] /\ n'[q] = n[q] /\ cancel'[q] = cancel[q]
      BY <2>2, OthersLeaveIt DEF Inv
    <3>2. StepsLeft(q)' = StepsLeft(q)
      BY <3>1 DEF StepsLeft, SlotsAhead, HandlerSteps
    <3>3. QED
      BY <2>2, <3>1, <3>2
  <2>3. QED
    BY <2>1, <2>2
<1>3. QED
  BY <1>1, <1>2, ThreadedInvariant, PTL DEF Spec, CancelledEnds
=============================================================================
