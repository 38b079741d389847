--------------------------- MODULE MessageDbProofs ---------------------------
(***************************************************************************)
(* Theorems about the message database, for any number of runs and of      *)
(* seconds.  What a message may name depends on the two ids insert_user    *)
(* has returned (IdsMatch), and these on how far main has come; that a     *)
(* reported save is in its file, on what the backup of the same call of    *)
(* commit_from_memory has left (Committed).                                *)
(***************************************************************************)
EXTENDS MessageDb, SequenceTheorems, TLAPS

Refers(id, n) == id \in 1 .. n \/ id = -1

\* What the two insertions of users can have left: rows and returned ids.
Returned(a, b) == uid[1] = a /\ uid[2] = b

IdsMatch ==
  /\ at \in 0 .. 4 => users = 0
  /\ at = 5 => (users = 1 /\ uid[1] = 1) \/ (users = 0 /\ uid[1] = -1)
  /\ at > 5 => \/ users = 2 /\ Returned(1, 2)
               \/ users = 1 /\ (Returned(1, -1) \/ Returned(-1, 1))
               \/ users = 0 /\ Returned(-1, -1)

RowsMatch ==
  \A k \in DOMAIN messages :
    /\ at > 5
    /\ \/ messages[k].sender = uid[1] /\ messages[k].recipient = uid[2]
       \/ messages[k].sender = uid[2] /\ messages[k].recipient = uid[1]

Consistent(db) ==
  \A k \in DOMAIN db.messages :
    /\ Refers(db.messages[k].sender, db.users)
    /\ Refers(db.messages[k].recipient, db.users)
    /\ db.messages[k].sender = db.messages[k].recipient => db.users = 0

FilesConsistent == \A t \in 1 .. Seconds : Consistent(disk[t])

Committed ==
  /\ at = 11 => ~copied
  /\ at = 12 /\ copied => disk[now] = Snapshot

MemTypes ==
  /\ at \in 0 .. 13 /\ tables \subseteq {"users", "messages"} /\ users \in Nat
  /\ messages \in Seq(Rows) /\ uid \in [1 .. 2 -> Ids]
ClockTypes ==
  clock \in 1 .. Seconds /\ now \in 1 .. clock /\ copied \in BOOLEAN /\ runs \in 1 .. MaxRuns
Backups == [second : 1 .. Seconds, db : Dbs]
Reports == [second : 1 .. Seconds, db : Dbs, made : Nat]
DiskTypes ==
  /\ disk \in [1 .. Seconds -> Dbs] /\ backups \in Seq(Backups) /\ saves \subseteq Reports
  /\ \A s \in saves : s.made <= Len(backups)

MemInv  == MemTypes /\ IdsMatch /\ RowsMatch
DiskInv == DiskTypes /\ FilesConsistent /\ SavesStay
DbInv   == MemInv /\ ClockTypes /\ DiskInv /\ Committed

-----------------------------------------------------------------------------
\* Which call of main each place is.
LEMMA Places ==
  /\ Len(Call) = 13
  /\ Calls("open") <=> at = 1
  /\ Calls("create") <=> at \in 2 .. 3
  /\ Calls("user") <=> at \in 4 .. 5
  /\ Calls("message") <=> at \in 6 .. 9
  /\ Calls("commit") <=> at = 10
  /\ Calls("backup") <=> at = 11
  /\ Calls("report") <=> at = 12
  /\ Calls("close") <=> at = 13
<1>1. Len(Call) = 13 /\ DOMAIN Call = 1 .. 13
  BY DEF Call
<1>2. Call[1].op = "open" /\ Call[2].op = "create" /\ Call[3].op = "create"
  BY DEF Call
<1>3. /\ Call[4].op = "user" /\ Call[5].op = "user" /\ Call[10].op = "commit"
      /\ Call[11].op = "backup" /\ Call[12].op = "report" /\ Call[13].op = "close"
  BY DEF Call
<1>4. Call[6].op = "message" /\ Call[7].op = "message" /\ Call[8].op = "message"
      /\ Call[9].op = "message"
  BY DEF Call
<1>5. at \in 1 .. 13 => at \in {1, 2, 3, 4, 5, 6, 7, 8, 9, 10, 11, 12, 13}
  OBVIOUS
<1>6. QED
  BY <1>1, <1>2, <1>3, <1>4, <1>5 DEF Calls

\* The places of the ids that insert_user returns and insert_message is given.
LEMMA Arguments ==
  /\ Call[4].n = 1 /\ Call[5].n = 2
  /\ Call[2].table = "messages" /\ Call[3].table = "users"
  /\ \A k \in 6 .. 9 : \/ Call[k].from = 1 /\ Call[k].to = 2
                       \/ Call[k].from = 2 /\ Call[k].to = 1
<1>1. Call[4].n = 1 /\ Call[5].n = 2 /\ Call[2].table = "messages" /\ Call[3].table = "users"
  BY DEF Call
<1>2. Call[6].from = 1 /\ Call[6].to = 2 /\ Call[7].from = 1 /\ Call[7].to = 2
  BY DEF Call
<1>3. Call[8].from = 2 /\ Call[8].to = 1 /\ Call[9].from = 2 /\ Call[9].to = 1
  BY DEF Call
<1>4. \A k \in 6 .. 9 : k \in {6, 7, 8, 9}
  OBVIOUS
<1>5. QED
  BY <1>1, <1>2, <1>3, <1>4

\* An ended program has an empty memory.
LEMMA BlankMem ==
  ASSUME at' \in 0 .. 4, BlankNext
  PROVE  MemInv'
<1>1. <<>> \in Seq(Rows) /\ DOMAIN <<>> = {}
  BY EmptySeq
<1>2. MemTypes'
  BY <1>1 DEF BlankNext, MemTypes, Ids
<1>3. IdsMatch' /\ RowsMatch'
  BY <1>1 DEF BlankNext, IdsMatch, RowsMatch
<1>4. QED
  BY <1>2, <1>3 DEF MemInv

\* What is in memory would make a consistent file.
LEMMA SnapshotConsistent ==
  ASSUME MemInv
  PROVE  Consistent(Snapshot) /\ Snapshot \in Dbs
<1>1. Snapshot.users = users /\ Snapshot.messages = messages /\ Snapshot \in Dbs
  BY DEF Snapshot, MemInv, MemTypes, Dbs, Ids
<1>2. ASSUME NEW k \in DOMAIN messages
      PROVE  /\ Refers(messages[k].sender, users) /\ Refers(messages[k].recipient, users)
             /\ messages[k].sender = messages[k].recipient => users = 0
  <2>1. at > 5
    BY <1>2 DEF MemInv, RowsMatch
  <2>2. \/ users = 2 /\ Returned(1, 2)
        \/ users = 1 /\ (Returned(1, -1) \/ Returned(-1, 1))
        \/ users = 0 /\ Returned(-1, -1)
    BY <2>1 DEF MemInv, IdsMatch
  <2>3. QED
    BY <1>2, <2>2 DEF MemInv, RowsMatch, Returned, Refers
<1>3. QED
  BY <1>1, <1>2 DEF Consistent

-----------------------------------------------------------------------------
(* One lemma for each call                                                 *)

LEMMA CreateInv ==
  ASSUME MemInv, create_table
  PROVE  MemInv'
<1>1. at \in 2 .. 3 /\ at' = at + 1 /\ UNCHANGED <<users, messages, uid>>
  BY Places DEF create_table, Returns
<1>2. Call[at].table \in {"users", "messages"}
  <2>1. at = 2 \/ at = 3
    BY <1>1
  <2>2. QED
    BY <2>1, Arguments
<1>3. tables' \subseteq {"users", "messages"}
  BY <1>2 DEF create_table, MemInv, MemTypes
<1>4. MemTypes' /\ IdsMatch'
  BY <1>1, <1>3 DEF MemInv, MemTypes, IdsMatch
<1>5. RowsMatch'
  BY <1>1 DEF MemInv, RowsMatch
<1>6. QED
  BY <1>4, <1>5 DEF MemInv

LEMMA UserInv ==
  ASSUME MemInv, insert_user
  PROVE  MemInv'
<1>1. (at = 4 \/ at = 5) /\ at' = at + 1 /\ UNCHANGED <<tables, messages>>
  BY Places DEF insert_user, Returns
<1>2. Call[at].n = at - 3
  BY <1>1, Arguments
<1>3. \/ users' = users + 1 /\ uid' = [uid EXCEPT ![at - 3] = users + 1]
      \/ users' = users /\ uid' = [uid EXCEPT ![at - 3] = -1]
  BY <1>2 DEF insert_user
<1>4. uid \in [1 .. 2 -> Ids] /\ users \in Nat
  BY DEF MemInv, MemTypes
<1>5. MemTypes'
  <2>1. uid' \in [1 .. 2 -> Ids] /\ users' \in Nat
    BY <1>1, <1>3, <1>4 DEF Ids
  <2>2. QED
    BY <1>1, <2>1 DEF MemInv, MemTypes
<1>6. IdsMatch'
  <2>1. CASE at = 4
    BY <1>3, <1>4, <1>1, <2>1 DEF MemInv, IdsMatch
  <2>2. CASE at = 5
    <3>1. uid'[1] = uid[1] /\ at' = 6
      BY <1>1, <1>3, <1>4, <2>2
    <3>2. \/ users' = users + 1 /\ uid'[2] = users + 1
          \/ users' = users /\ uid'[2] = -1
      BY <1>3, <1>4, <2>2
    <3>3. (users = 1 /\ uid[1] = 1) \/ (users = 0 /\ uid[1] = -1)
      BY <2>2 DEF MemInv, IdsMatch
    <3>4. QED
      BY <3>1, <3>2, <3>3 DEF IdsMatch, Returned
  <2>3. QED
    BY <1>1, <2>1, <2>2
<1>7. RowsMatch'
  <2>1. \A k \in DOMAIN messages : FALSE
    BY <1>1 DEF MemInv, RowsMatch
  <2>2. QED
    BY <1>1, <2>1 DEF RowsMatch
<1>8. QED
  BY <1>5, <1>6, <1>7 DEF MemInv

LEMMA MessageInv ==
  ASSUME MemInv, insert_message
  PROVE  MemInv'
<1>1. at \in 6 .. 9 /\ at' = at + 1 /\ UNCHANGED <<tables, users, uid>>
  BY Places DEF insert_message, Returns
<1>2. IdsMatch'
  BY <1>1 DEF MemInv, IdsMatch, Returned
<1>3. CASE UNCHANGED messages
  BY <1>1, <1>2, <1>3 DEF MemInv, MemTypes, RowsMatch
<1>4. CASE messages' = Append(messages, [sender    |-> uid[Call[at].from],
                                        recipient |-> uid[Call[at].to]])
  <2> DEFINE row == [sender |-> uid[Call[at].from], recipient |-> uid[Call[at].to]]
  <2>1. \/ row.sender = uid[1] /\ row.recipient = uid[2]
        \/ row.sender = uid[2] /\ row.recipient = uid[1]
    BY <1>1, Arguments
  <2>2. row \in Rows
    <3>1. uid[1] \in Ids /\ uid[2] \in Ids
      BY DEF MemInv, MemTypes
    <3>2. \/ Call[at].from = 1 /\ Call[at].to = 2
          \/ Call[at].from = 2 /\ Call[at].to = 1
      BY <1>1, Arguments
    <3>3. QED
      BY <3>1, <3>2 DEF Rows
  <2>3. messages \in Seq(Rows)
    BY DEF MemInv, MemTypes
  <2>4. messages' = Append(messages, row)
    BY <1>4
  <2> HIDE DEF row
  <2>5. /\ messages' \in Seq(Rows) /\ Len(messages') = Len(messages) + 1
        /\ \A k \in 1 .. Len(messages) : messages'[k] = messages[k]
        /\ messages'[Len(messages) + 1] = row
    BY <2>2, <2>3, <2>4, AppendProperties
  <2>6. RowsMatch'
    <3>1. DOMAIN messages = 1 .. Len(messages) /\ Len(messages) \in Nat
      BY <2>3, LenProperties
    <3>2. DOMAIN messages' = 1 .. Len(messages')
      BY <2>5, LenProperties
    <3>3. ASSUME NEW k \in DOMAIN messages'
          PROVE  \/ messages'[k] = row
                 \/ k \in DOMAIN messages /\ messages'[k] = messages[k]
      BY <2>5, <3>1, <3>2, <3>3
    <3>4. QED
      BY <1>1, <2>1, <3>3 DEF MemInv, RowsMatch
  <2>7. MemTypes'
    BY <1>1, <2>5 DEF MemInv, MemTypes
  <2>8. QED
    BY <1>2, <2>6, <2>7 DEF MemInv
<1>5. QED
  BY <1>3, <1>4 DEF insert_message
\* A backup touches the file of one second only, and is the last of that second
\* in the history: whatever was reported of it before is now superseded.
LEMMA BackupInv ==
  ASSUME MemInv, DiskInv, ClockTypes,
         disk' = [disk EXCEPT ![filename] = Snapshot],
         backups' = Append(backups, [second |-> now, db |-> Snapshot]),
         saves' = saves
  PROVE  DiskInv' /\ disk'[now] = Snapshot
<1> DEFINE made == [second |-> now, db |-> Snapshot]
<1>1. Consistent(Snapshot) /\ Snapshot \in Dbs
  BY SnapshotConsistent
<1>2. /\ now \in 1 .. Seconds /\ disk \in [1 .. Seconds -> Dbs] /\ backups \in Seq(Backups)
      /\ saves \subseteq Reports /\ \A s \in saves : s.made <= Len(backups)
  BY DbAssumption DEF ClockTypes, DiskInv, DiskTypes
<1>3. disk' = [disk EXCEPT ![now] = Snapshot] /\ disk'[now] = Snapshot
  BY <1>2 DEF filename
<1>4. made \in Backups /\ made.second = now /\ made.db = Snapshot
  BY <1>1, <1>2 DEF Backups
<1>5. backups' = Append(backups, made)
  OBVIOUS
<1> HIDE DEF made
<1>6. /\ backups' \in Seq(Backups) /\ Len(backups) \in Nat
      /\ Len(backups') = Len(backups) + 1 /\ backups'[Len(backups) + 1] = made
      /\ \A k \in 1 .. Len(backups) : backups'[k] = backups[k]
  BY <1>2, <1>4, <1>5, AppendProperties, LenProperties
<1>7. DiskTypes'
  <2>1. disk' \in [1 .. Seconds -> Dbs]
    BY <1>1, <1>2, <1>3
  <2>2. \A s \in saves : s.made <= Len(backups')
    BY <1>2, <1>6 DEF Reports
  <2>3. QED
    BY <1>2, <1>6, <2>1, <2>2 DEF DiskTypes, Backups, Reports
<1>8. FilesConsistent'
  <2>1. ASSUME NEW t \in 1 .. Seconds PROVE Consistent(disk'[t])
    <3>1. disk'[t] = Snapshot \/ disk'[t] = disk[t]
      BY <1>2, <1>3
    <3>2. Consistent(disk[t])
      BY DEF DiskInv, FilesConsistent
    <3>3. QED
      BY <1>1, <3>1, <3>2
  <2>2. QED
    BY <2>1 DEF FilesConsistent, Consistent, Refers
<1>9. SavesStay'
  <2>1. ASSUME NEW s \in saves
        PROVE  \/ disk'[s.second] = s.db
               \/ \E l \in s.made + 1 .. Len(backups') :
                    backups'[l].second = s.second /\ disk'[s.second] = backups'[l].db
    <3>1. s.second \in 1 .. Seconds /\ s.made \in Nat /\ s.made <= Len(backups)
      BY <1>2 DEF Reports
    <3>2. CASE s.second = now
      <4>1. Len(backups) + 1 \in s.made + 1 .. Len(backups')
        BY <1>6, <3>1
      <4>2. QED
        BY <1>3, <1>4, <1>6, <3>2, <4>1
    <3>3. CASE s.second # now
      <4>1. disk'[s.second] = disk[s.second]
        BY <1>2, <1>3, <3>1, <3>3
      <4>2. ASSUME NEW l \in s.made + 1 .. Len(backups)
            PROVE  l \in s.made + 1 .. Len(backups') /\ backups'[l] = backups[l]
        BY <1>6, <3>1
      <4>3. \/ disk[s.second] = s.db
            \/ \E l \in s.made + 1 .. Len(backups) :
                 backups[l].second = s.second /\ disk[s.second] = backups[l].db
        BY DEF DiskInv, SavesStay
      <4>4. CASE disk[s.second] = s.db
        BY <4>1, <4>4
      <4>5. CASE \E l \in s.made + 1 .. Len(backups) :
                   backups[l].second = s.second /\ disk[s.second] = backups[l].db
        <5>1. PICK l \in s.made + 1 .. Len(backups) :
                backups[l].second = s.second /\ disk[s.second] = backups[l].db
          BY <4>5
        <5>2. l \in s.made + 1 .. Len(backups') /\ backups'[l] = backups[l]
          BY <4>2
        <5>3. QED
          BY <4>1, <5>1, <5>2
      <4>6. QED
        BY <4>3, <4>4, <4>5
    <3>4. QED
      BY <3>2, <3>3
  <2>2. QED
    BY <2>1 DEF SavesStay
<1>10. QED
  BY <1>3, <1>7, <1>8, <1>9 DEF DiskInv

\* Success is reported of what the file then holds.
LEMMA ReportInv ==
  ASSUME MemInv, DiskInv, ClockTypes, Committed, Report
  PROVE  DiskInv'
<1>1. UNCHANGED <<disk, backups>> /\ at = 12
  BY Places DEF Report
<1>2. CASE ~copied
  BY <1>1, <1>2 DEF Report, DiskInv, DiskTypes, FilesConsistent, Consistent, Refers, SavesStay
<1>3. CASE copied
  <2> DEFINE new == [second |-> now, db |-> Snapshot, made |-> Len(backups)]
  <2>1. saves' = saves \cup {new}
    BY <1>3 DEF Report
  <2>2. Snapshot \in Dbs /\ now \in 1 .. Seconds /\ Len(backups) \in Nat
    BY SnapshotConsistent, LenProperties, DbAssumption DEF ClockTypes, DiskInv, DiskTypes
  <2>3. /\ new \in Reports /\ new.made <= Len(backups)
        /\ new.second = now /\ new.db = Snapshot
    BY <2>2 DEF Reports
  <2>4. disk[now] = Snapshot
    BY <1>1, <1>3 DEF Committed
  <2> HIDE DEF new
  <2>5. DiskTypes'
    BY <1>1, <2>1, <2>3 DEF DiskInv, DiskTypes
  <2>6. FilesConsistent'
    BY <1>1 DEF DiskInv, FilesConsistent, Consistent, Refers
  <2>7. SavesStay'
    BY <1>1, <2>1, <2>3, <2>4 DEF DiskInv, SavesStay
  <2>8. QED
    BY <2>5, <2>6, <2>7 DEF DiskInv
<1>4. QED
  BY <1>2, <1>3

\* Nothing else touches the files and the history.
LEMMA SameDisk ==
  ASSUME DiskInv, UNCHANGED storage
  PROVE  DiskInv'
  BY DEF storage, DiskInv, DiskTypes, FilesConsistent, Consistent, Refers, SavesStay

\* Nor does anything touch the memory that is not one of main's calls.
LEMMA SameMem ==
  ASSUME MemInv, UNCHANGED memory,
         \/ at' = at
         \/ at = 1 /\ at' = 2
         \/ at \in 10 .. 12 /\ at' \in 11 .. 13
         \/ at = 0 /\ at' = 1
  PROVE  MemInv'
<1>1. UNCHANGED <<tables, users, messages, uid>>
  BY DEF memory
<1>2. MemTypes'
  BY <1>1 DEF MemInv, MemTypes
<1>3. IdsMatch'
  BY <1>1 DEF MemInv, MemTypes, IdsMatch, Returned
<1>4. RowsMatch'
  BY <1>1 DEF MemInv, MemTypes, RowsMatch
<1>5. QED
  BY <1>2, <1>3, <1>4 DEF MemInv

\* A step outside commit_from_memory that ends outside it.
LEMMA Elsewhere ==
  ASSUME DbInv, MemInv', UNCHANGED <<clock, commit, storage, runs>>, at' \notin 11 .. 12
  PROVE  DbInv'
<1>1. DiskInv'
  BY SameDisk DEF DbInv
<1>2. ClockTypes' /\ Committed'
  BY DEF DbInv, commit, ClockTypes, Committed
<1>3. QED
  BY <1>1, <1>2 DEF DbInv

LEMMA CommitInv ==
  ASSUME DbInv, commit_from_memory
  PROVE  DbInv'
<1>0. MemInv /\ ClockTypes /\ DiskInv /\ Committed
  BY DEF DbInv
<1>1. CASE OpenFile
  <2>1. at = 10 /\ at' \in {11, 13} /\ now' = clock /\ ~copied'
        /\ UNCHANGED <<memory, clock, storage, runs>>
    BY <1>1, Places DEF OpenFile
  <2>2. MemInv' /\ DiskInv'
    BY <1>0, <2>1, SameMem, SameDisk
  <2>3. clock' \in 1 .. Seconds /\ now' \in 1 .. clock' /\ runs' \in 1 .. MaxRuns
    BY <1>0, <2>1, DbAssumption DEF ClockTypes
  <2>4. copied' \in BOOLEAN
    BY <1>1 DEF OpenFile
  <2>5. Committed'
    BY <2>1 DEF Committed
  <2>6. QED
    BY <2>2, <2>3, <2>4, <2>5 DEF DbInv, ClockTypes
<1>2. CASE Backup
  <2>1. at = 11 /\ at' = 12 /\ UNCHANGED <<memory, clock, now, saves, runs>> /\ ~copied
    BY <1>0, <1>2, Places DEF Backup, Returns, Committed
  <2>2. MemInv'
    BY <1>0, <2>1, SameMem
  <2>3. ClockTypes'
    BY <1>0, <1>2, <2>1 DEF Backup, ClockTypes
  <2>4. CASE UNCHANGED <<copied, disk, backups>>
    <3>1. DiskInv'
      BY <1>0, <2>1, <2>4, SameDisk DEF storage
    <3>2. Committed'
      BY <2>1, <2>4 DEF Committed
    <3>3. QED
      BY <2>2, <2>3, <3>1, <3>2 DEF DbInv
  <2>5. CASE /\ disk' = [disk EXCEPT ![filename] = Snapshot]
             /\ backups' = Append(backups, [second |-> now, db |-> Snapshot])
    <3>1. DiskInv' /\ disk'[now] = Snapshot
      BY <1>0, <2>1, <2>5, BackupInv
    <3>2. Snapshot' = Snapshot
      BY <2>1 DEF memory, Snapshot
    <3>3. Committed'
      BY <2>1, <3>1, <3>2 DEF Committed
    <3>4. QED
      BY <2>2, <2>3, <3>1, <3>3 DEF DbInv
  <2>6. QED
    BY <1>2, <2>4, <2>5 DEF Backup
<1>3. CASE Report
  <2>1. at = 12 /\ at' = 13 /\ UNCHANGED <<memory, clock, commit, runs>>
    BY <1>3, Places DEF Report, Returns
  <2>2. MemInv' /\ DiskInv'
    BY <1>0, <1>3, <2>1, SameMem, ReportInv
  <2>3. ClockTypes' /\ Committed'
    BY <1>0, <2>1 DEF commit, ClockTypes, Committed
  <2>4. QED
    BY <2>2, <2>3 DEF DbInv
<1>4. QED
  BY <1>1, <1>2, <1>3 DEF commit_from_memory

LEMMA DbStepInv == DbInv /\ [DbNext]_dbVars => DbInv'
<1> SUFFICES ASSUME DbInv, [DbNext]_dbVars PROVE DbInv'
  OBVIOUS
<1>0. MemInv /\ ClockTypes /\ DiskInv /\ Committed
  BY DEF DbInv
<1>1. CASE open_db_or_die
  <2>1. at = 1 /\ at' \in {0, 2} /\ UNCHANGED <<clock, commit, storage, runs>>
    BY <1>1, Places DEF open_db_or_die, Returns
  <2>2. MemInv'
    <3>1. CASE Returns /\ UNCHANGED memory
      BY <1>0, <2>1, <3>1, SameMem DEF Returns
    <3>2. CASE at' = 0 /\ BlankNext
      BY <3>2, BlankMem
    <3>3. QED
      BY <1>1, <3>1, <3>2 DEF open_db_or_die
  <2>3. QED
    BY <2>1, <2>2, Elsewhere
<1>2. CASE create_table
  <2>1. at \in 2 .. 3 /\ at' = at + 1 /\ UNCHANGED <<clock, commit, storage, runs>>
    BY <1>2, Places DEF create_table, Returns
  <2>2. QED
    BY <1>0, <1>2, <2>1, CreateInv, Elsewhere
<1>3. CASE insert_user
  <2>1. at \in 4 .. 5 /\ at' = at + 1 /\ UNCHANGED <<clock, commit, storage, runs>>
    BY <1>3, Places DEF insert_user, Returns
  <2>2. QED
    BY <1>0, <1>3, <2>1, UserInv, Elsewhere
<1>4. CASE insert_message
  <2>1. at \in 6 .. 9 /\ at' = at + 1 /\ UNCHANGED <<clock, commit, storage, runs>>
    BY <1>4, Places DEF insert_message, Returns
  <2>2. QED
    BY <1>0, <1>4, <2>1, MessageInv, Elsewhere
<1>5. CASE commit_from_memory
  BY <1>5, CommitInv
<1>6. CASE close_db \/ Killed
  <2>1. at' = 0 /\ BlankNext /\ UNCHANGED <<clock, commit, storage, runs>>
    BY <1>6 DEF close_db, Killed
  <2>2. QED
    BY <2>1, BlankMem, Elsewhere
<1>7. CASE RunAgain
  <2>1. at = 0 /\ at' = 1 /\ UNCHANGED <<memory, clock, commit, storage>>
    BY <1>7 DEF RunAgain
  <2>2. ClockTypes' /\ Committed'
    BY <1>0, <1>7, <2>1, DbAssumption DEF RunAgain, commit, ClockTypes, Committed
  <2>3. QED
    BY <1>0, <2>1, <2>2, SameMem, SameDisk DEF DbInv
<1>8. CASE Tick
  <2>1. UNCHANGED <<at, memory, commit, storage>>
    BY <1>8 DEF Tick
  <2>2. ClockTypes'
    BY <1>0, <1>8, <2>1, DbAssumption DEF Tick, commit, ClockTypes
  <2>3. Committed'
    BY <1>0, <2>1 DEF memory, commit, storage, Committed, Snapshot
  <2>4. QED
    BY <1>0, <2>1, <2>2, <2>3, SameMem, SameDisk DEF DbInv
<1>9. CASE UNCHANGED dbVars
  <2>1. UNCHANGED <<at, memory, clock, commit, storage, runs>>
    BY <1>9 DEF dbVars
  <2>2. ClockTypes' /\ Committed'
    BY <1>0, <2>1 DEF memory, commit, storage, ClockTypes, Committed, Snapshot
  <2>3. QED
    BY <1>0, <2>1, <2>2, SameMem, SameDisk DEF DbInv
<1>10. QED
  BY <1>1, <1>2, <1>3, <1>4, <1>5, <1>6, <1>7, <1>8, <1>9 DEF DbNext

LEMMA DbInitInv == DbInit => DbInv
<1> SUFFICES ASSUME DbInit PROVE DbInv
  OBVIOUS
<1>1. /\ <<>> \in Seq(Rows) /\ DOMAIN <<>> = {} /\ <<>> \in Seq(Backups)
  BY EmptySeq
<1>2. MemInv
  BY <1>1 DEF DbInit, Blank, MemInv, MemTypes, IdsMatch, RowsMatch, Ids
<1>3. NoFile \in Dbs /\ NoFile.messages = <<>>
  BY <1>1 DEF NoFile, Dbs, Ids
<1>4. DiskTypes /\ SavesStay
  BY <1>1, <1>3 DEF DbInit, DiskTypes, SavesStay
<1>5. FilesConsistent
  BY <1>1, <1>3 DEF DbInit, FilesConsistent, Consistent
<1>6. clock \in 1 .. Seconds /\ now \in 1 .. clock /\ runs \in 1 .. MaxRuns
  BY DbAssumption DEF DbInit
<1>7. copied \in BOOLEAN /\ Committed
  BY DEF DbInit, Committed
<1>8. QED
  BY <1>2, <1>4, <1>5, <1>6, <1>7 DEF DbInv, DiskInv, ClockTypes

LEMMA DbInvTyped == DbInv => DbTypeOK
<1>1. Len(Call) = 13
  BY Places
<1>2. QED
  BY <1>1 DEF DbInv, MemInv, MemTypes, ClockTypes, DiskInv, DiskTypes, DbTypeOK, Backups, Reports

-----------------------------------------------------------------------------
\* The types, and what holds of the keys in place of the schema's rule: in memory
\* and in every file a message names users of the same database, or -1 for one
\* whose insertion failed; it never names one user twice, unless both failed.
THEOREM MessagesHaveUsers ==
  DbSpec => [](DbTypeOK /\ Consistent(Snapshot) /\ FilesConsistent)
<1>1. DbInv => Consistent(Snapshot) /\ FilesConsistent
  BY SnapshotConsistent DEF DbInv, DiskInv
<1>2. QED
  BY <1>1, DbInvTyped, DbInitInv, DbStepInv, PTL DEF DbSpec

\* A reported save stays in its file until a later backup of the same second,
\* for any number of runs, failures and kills between any two calls.
THEOREM SavesAreKept == DbSpec => []SavesStay
<1>1. DbInv => SavesStay
  BY DEF DbInv, DiskInv
<1>2. QED
  BY <1>1, DbInitInv, DbStepInv, PTL DEF DbSpec
=============================================================================
