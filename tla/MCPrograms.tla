----------------------------- MODULE MCPrograms -----------------------------
(***************************************************************************)
(* Five parts that share nothing, model-checked in one run: an execution   *)
(* is one of the naive session, of the message database, of                *)
(* get_listener_socket, of the client pool or of the ncurses client, and   *)
(* the state space is the union of the five.                               *)
(***************************************************************************)
EXTENDS NaiveSession, MessageDb, ListenerSocket, ClientPool, NcursesClient

CONSTANTS c1, c2

\* c1 may run ahead of its answers, and fill c2's socket while c2 sits at its
\* prompt: without PromptsMoveOn, AnswersCome fails within this bound.
MCLines == [c \in Clients |-> IF c = c1 THEN 3 ELSE 1]

VARIABLE program

MCVars == <<program, naiveVars, dbVars, lsVars, poolVars, ncursesVars>>

MCInit ==
  /\ program \in {"session", "database", "listener", "pool", "ncurses"}
  /\ NaiveInit /\ DbInit /\ ListenerInit /\ PoolInit /\ NcursesInit
  /\ program # "pool" => revents = [s \in Slots |-> 0]

MCNext ==
  /\ UNCHANGED program
  /\ \/ /\ program = "session"  /\ NaiveNext
        /\ UNCHANGED <<dbVars, lsVars, poolVars, ncursesVars>>
     \/ /\ program = "database" /\ DbNext
        /\ UNCHANGED <<naiveVars, lsVars, poolVars, ncursesVars>>
     \/ /\ program = "listener" /\ ListenerNext
        /\ UNCHANGED <<naiveVars, dbVars, poolVars, ncursesVars>>
     \/ /\ program = "pool"     /\ PoolNext
        /\ UNCHANGED <<naiveVars, dbVars, lsVars, ncursesVars>>
     \/ /\ program = "ncurses"  /\ NcursesNext
        /\ UNCHANGED <<naiveVars, dbVars, lsVars, poolVars>>

\* A session that is not running needs no exemption: it stays where none of its
\* fair actions is enabled.
MCSpec ==
  /\ MCInit /\ [][MCNext]_MCVars
  /\ NaiveFairness
  /\ WF_ncursesVars(program = "ncurses" /\ MainNext) /\ WF_ncursesVars(HostSent)

\* The types of the session and of the database, its files included.
ProgramsTypeOK == NaiveTypeOK /\ DbTypeOK

=============================================================================
