------------------------------ MODULE MessageDb ------------------------------
(***************************************************************************)
(* The message database (db.c): main fills a database in memory and saves  *)
(* it to a file named after the second of the clock. Every call of SQLite  *)
(* may fail, main goes on regardless, and it may be killed and run again   *)
(* over the same directory.                                                *)
(***************************************************************************)
EXTENDS Integers, Sequences, FiniteSets

CONSTANTS
  Seconds,    \* bound: the clock, as time(NULL) reads it
  MaxRuns     \* bound: times the program is run

ASSUME DbAssumption == Seconds \in Nat \ {0} /\ MaxRuns \in Nat \ {0}

VARIABLES
  at,         \* the place in Call of main's next call; 0: the program has ended
  tables,     \* the tables of the database in memory
  users,      \* rows of table users; AUTOINCREMENT numbers them from 1
  messages,   \* rows of table messages, as records of the two ids
  uid,        \* uid1 and uid2
  clock,      \* what time(NULL) returns
  now,        \* commit_from_memory's reading of it
  copied,     \* whether its backup went through
  disk,       \* the database in the file of each second, or NoFile
  backups,    \* the backups made, in order: a history
  saves,      \* the saves reported as successful: a history
  runs        \* how often the program has been run

memory  == <<tables, users, messages, uid>>
commit  == <<now, copied>>
storage == <<disk, backups, saves>>
dbVars  == <<at, memory, clock, commit, storage, runs>>

NoFile   == [users |-> -1, messages |-> <<>>]
Snapshot == [users |-> users, messages |-> messages]

\* The calls of main, in order; a message names its sender and recipient by the
\* place of their ids in uid.
Call ==
  << [op |-> "open"], [op |-> "create", table |-> "messages"],
     [op |-> "create", table |-> "users"],
     [op |-> "user", n |-> 1], [op |-> "user", n |-> 2],
     [op |-> "message", from |-> 1, to |-> 2], [op |-> "message", from |-> 1, to |-> 2],
     [op |-> "message", from |-> 2, to |-> 1], [op |-> "message", from |-> 2, to |-> 1],
     [op |-> "commit"], [op |-> "backup"], [op |-> "report"], [op |-> "close"] >>

Calls(op) == at \in DOMAIN Call /\ Call[at].op = op

Blank ==
  tables = {} /\ users = 0 /\ messages = <<>> /\ uid = [n \in 1 .. 2 |-> 0]
BlankNext ==
  tables' = {} /\ users' = 0 /\ messages' = <<>> /\ uid' = [n \in 1 .. 2 |-> 0]

DbInit ==
  /\ at = 1 /\ Blank
  /\ clock = 1 /\ now = 1 /\ copied = FALSE /\ runs = 1
  /\ disk = [t \in 1 .. Seconds |-> NoFile] /\ backups = <<>> /\ saves = {}

Returns == at' = at + 1 /\ UNCHANGED <<clock, runs>>

-----------------------------------------------------------------------------
open_db_or_die ==
  /\ Calls("open")
  /\ \/ Returns /\ UNCHANGED memory
     \/ at' = 0 /\ BlankNext /\ UNCHANGED <<clock, runs>>
  /\ UNCHANGED <<commit, storage>>

create_table ==
  /\ Calls("create")
  /\ tables' \in {tables, tables \cup {Call[at].table}}
  /\ Returns /\ UNCHANGED <<users, messages, uid, commit, storage>>

\* The new row's id, or -1 when prepare or step fails.
insert_user ==
  /\ Calls("user")
  /\ \/ /\ "users" \in tables
        /\ users' = users + 1 /\ uid' = [uid EXCEPT ![Call[at].n] = users + 1]
     \/ users' = users /\ uid' = [uid EXCEPT ![Call[at].n] = -1]
  /\ Returns /\ UNCHANGED <<tables, messages, commit, storage>>

\* The ids go in unchecked: SQLite does not enforce the foreign keys by default.
insert_message ==
  /\ Calls("message")
  /\ \/ /\ "messages" \in tables
        /\ messages' = Append(messages, [sender    |-> uid[Call[at].from],
                                         recipient |-> uid[Call[at].to]])
     \/ UNCHANGED messages
  /\ Returns /\ UNCHANGED <<tables, users, uid, commit, storage>>

filename == now

\* The time is taken; the directory or the file may fail to open.
OpenFile ==
  /\ Calls("commit")
  /\ now' = clock /\ copied' = FALSE
  /\ at' \in {at + 1, at + 3}
  /\ UNCHANGED <<memory, clock, storage, runs>>

\* The backup replaces what the file held, or fails and leaves it as it is:
\* SQLite's journal sees to it that nothing in between is ever found.
Backup ==
  /\ Calls("backup")
  /\ \/ UNCHANGED <<copied, disk, backups>>
     \/ /\ copied' = TRUE
        /\ disk' = [disk EXCEPT ![filename] = Snapshot]
        /\ backups' = Append(backups, [second |-> now, db |-> Snapshot])
  /\ Returns /\ UNCHANGED <<memory, now, saves>>

Report_Unchecked ==                        \* mutant: does not ask for the error code
  /\ Calls("report")
  /\ saves' = saves \cup {[second |-> now, db |-> Snapshot, made |-> Len(backups)]}
  /\ Returns /\ UNCHANGED <<memory, commit, disk, backups>>

\* The history notes how many backups had been made.
Report ==
  /\ Calls("report")
  /\ saves' = IF copied
              THEN saves \cup {[second |-> now, db |-> Snapshot, made |-> Len(backups)]}
              ELSE saves
  /\ Returns /\ UNCHANGED <<memory, commit, disk, backups>>

commit_from_memory == OpenFile \/ Backup \/ Report

\* The database in memory goes with the process.
close_db ==
  /\ Calls("close")
  /\ at' = 0 /\ BlankNext
  /\ UNCHANGED <<clock, commit, storage, runs>>

-----------------------------------------------------------------------------
Killed ==
  /\ at # 0
  /\ at' = 0 /\ BlankNext
  /\ UNCHANGED <<clock, commit, storage, runs>>

RunAgain ==
  /\ at = 0 /\ runs < MaxRuns
  /\ at' = 1 /\ runs' = runs + 1
  /\ UNCHANGED <<memory, clock, commit, storage>>

Tick ==
  /\ clock < Seconds /\ clock' = clock + 1
  /\ UNCHANGED <<at, memory, commit, storage, runs>>

DbNext ==
  \/ open_db_or_die \/ create_table \/ insert_user \/ insert_message
  \/ commit_from_memory \/ close_db \/ Killed \/ RunAgain \/ Tick

DbSpec == DbInit /\ [][DbNext]_dbVars

-----------------------------------------------------------------------------
(* Properties                                                              *)

Ids  == Nat \cup {-1}
Rows == [sender : Ids, recipient : Ids]
Dbs  == [users : Ids, messages : Seq(Rows)]

\* The types: AUTOINCREMENT's ids and -1, in memory, on disk and in the history.
DbTypeOK ==
  /\ at \in 0 .. Len(Call) /\ tables \subseteq {"users", "messages"} /\ users \in Nat
  /\ messages \in Seq(Rows) /\ uid \in [1 .. 2 -> Ids]
  /\ clock \in 1 .. Seconds /\ now \in 1 .. clock /\ copied \in BOOLEAN
  /\ runs \in 1 .. MaxRuns
  /\ disk \in [1 .. Seconds -> Dbs]
  /\ backups \in Seq([second : 1 .. Seconds, db : Dbs])
  /\ saves \subseteq [second : 1 .. Seconds, db : Dbs, made : Nat]

\* The schema (db.c:22-23): sender_id and recipient_id REFERENCE users(id), so
\* every message names two rows of users.
KeysHold ==
  \A k \in DOMAIN messages :
    messages[k].sender \in 1 .. users /\ messages[k].recipient \in 1 .. users

\* A save of which success was reported is in the file of its second, whatever
\* failed and whoever was killed since, unless a later backup was made in the
\* same second, reported or not: then the file holds that one.
SavesStay ==
  \A s \in saves :
    \/ disk[s.second] = s.db
    \/ \E l \in s.made + 1 .. Len(backups) :
         backups[l].second = s.second /\ disk[s.second] = backups[l].db

=============================================================================
