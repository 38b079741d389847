# A verification project for clytherin

clytherin is a small TCP chat: a host that relays what each client sends to
all the others, and a few clients. This directory holds TLA+ models of it,
TLC runs and TLAPS proofs. All paths below are relative to the repository's
`src/`.

## 1. Inventory

| component | source | state | operations |
|---|---|---|---|
| client pool | `host.c:21-110`, `host.h:21-38` | `pfds[]` (fd, events, revents), `clients[]` (is_connected), `n_clients` | `clients_init`, `client_add`, `client_remove`, `clients_destroy` |
| poll host | `main.c`, `host.c:170-229` | the pool, open descriptors, loop indices | `poll`, accept + `connect_client`, recv, `disconnect_client`, `broadcast_all`, `poll_disconnect_guard` |
| listener set-up | `host.c:112-168` | one descriptor | `get_listener_socket` over the addresses of `getaddrinfo` |
| logging | `log.h` | the stream of the last message | `_log_from_fn`, `_log_append` |
| headless client | `headless_client.c` | socket (non-blocking), stdio's line buffer | poll, `fgets`, send, recv, exit handler |
| ncurses client | `client.c`, `ui.c`, `exit_handlers.h` | socket, windows, input line, screen mode | poll, recv, `wgetch`, `handle_input`, `create_input_box`/`destroy_input_box`, `msg_post_to_feed`, exit handlers |
| threaded host (probe) | `probe/host-threaded.c` | shared `CLIENTS[]`, `CLIENT_COUNT`, `RUN`; one thread per client, one for signals | accept loop, `add_client`, `remove_client`, `handle_client`, cleanup handler, `join_all_threads` |
| naive client (probe) | `probe/naive-client.c` | socket | request/response loop |
| message database (probe) | `probe/db.c` | in-memory tables, returned ids, backup files named by the second | `create_table_*`, `insert_user`, `insert_message`, `commit_from_memory` |
| copies and drafts (probe) | `probe/host-poll.c`, `probe/client.c`, `probe/ui.c`, `probe/simple-db-ex.c` | as `host.c`+`main.c`, `client.c`, `ui.c`, `db.c` | the poll host is the same code in one file |

How they interact: clients and hosts exchange bytes over TCP only, with no
framing. The poll host is one thread; the pool is shared between its main loop
and the functions it calls, so what changes under the loop is changed by the
loop's own body. In the threaded host the table is shared by all threads
without a lock. The ncurses client mixes two blocking input sources (`wgetch`
and the socket) in one thread.

What makes each of them correct, and what is hard about it:

- **client pool**: the flag, the descriptor and the counter of three functions
  agree after any calls. Hard: `n_clients` is both a count and the length of
  the polled prefix, and `client_remove` leaves holes.
- **poll host**: no descriptor leaks or is used after close; recv and accept
  are called only when they will not block; a broadcast gives each other
  client the piece once and in order; no client waits for ever. Hard: the
  table and the loop bound change in mid-scan; `revents` outlives the poll that
  set it; peers close or reset at any point.
- **listener set-up**: returns a bound descriptor and closes the others.
- **headless and ncurses client**: every line typed is sent, everything
  received is shown, the process ends when its input or the host does. Hard:
  buffering between poll and the reads it announces; two readers of one
  keyboard; a host that hangs in its send while the client waits for a key, in the
  `wgetch` of which `NOTES.org` is about.
- **naive client**: it and its host never wait for each other. Hard: each takes
  what one recv returns for one message, messages are glued together, and the
  host's thread for one client sends to the others, which may not be reading.
- **threaded host**: the table holds exactly the live clients, a thread closes
  only its own descriptor, shutdown ends every thread. Hard: all interleavings.
- **message database**: a message belongs to a user; the backup holds what was
  inserted; a save that was reported is not lost. Hard: a run killed between
  the backup and its report; failures that main does not look at.

`PROJECT.json` lists every hazard at its line with the properties that guard
it, or why none does.

## 2. Modules

| module | what it is |
|---|---|
| `ClientPool` | the table of `host.c` with its three operations and poll's effect on it |
| `PollHost` | extends `ClientPool` with the main loop, the descriptors and the peers |
| `ChatRoom` | what the host promises: a bounded room in which members hear each other |
| `ThreadedHost` | the first host, `probe/host-threaded.c`: main, client threads, signals |
| `HeadlessClient` | `headless_client.c` with stdio's buffer and the kernel's |
| `NcursesClient` | `client.c` and the input box of `ui.c`, with the host's blocking send |
| `NaiveSession` | clients of `probe/naive-client.c` in a session with the threaded host |
| `MessageDb` | `probe/db.c`: failing calls, kills, reruns |
| `ListenerSocket` | `get_listener_socket` of `host.c`, call by call |
| `MCPollHost`, `MCThreadedHost` | symmetry sets for TLC |
| `MCPrograms` | `NaiveSession`, `MessageDb`, `ListenerSocket`, `ClientPool` and `NcursesClient` side by side |
| `...Proofs` | theorems about the module of that name, and their proofs; those of `NaiveSession`, `ListenerSocket` and `MCPrograms` are in `ProgramsProofs` |

**ClientPool.** `fd`, `is_connected`, `revents` are the fields of slot `s`;
`n_clients` keeps its width (`U8`). The operators carry the C names; each is a
whole function with its failing return as a disjunct. The first free slot, or
the first slot with a descriptor, is described as "a slot `s` that `IsFirst`"
instead of a loop. `revents` is 0, `Reported` (poll put it there) or `Leftover`
(`clients_init` does not set it, so it is what malloc returned); the code tests
for nonzero only, the two are kept apart to say which a step rests on. `poll`
rewrites `revents` of the prefix only, as poll(2) does with the array it is
given. Left out are fields nothing reads: `name`,
`pfd`, `events`.

**PollHost.** A step is one system call with the straight-line code around it;
between any two the peers may act.

| action | code |
|---|---|
| `Startup`, `StartupFails` | `main.c:8-14`; any `exit` before the loop |
| `PollReturns`, `PollTimesOut`, `PollFails` | `main.c:17-18` with `poll_disconnect_guard` |
| `SkipQuiet`, `ScanEnds` | the loop head, `main.c:20-21` |
| `Accept`, `AcceptFails` | `main.c:22-27` with `connect_client` and `client_add` |
| `Recv`, `RecvHangup`, `RecvError` | `main.c:29-44` with `disconnect_client` and `client_remove` |
| `SkipExcluded`, `Send`, `SendError`, `CastEnds` | `broadcast_all`, one destination a step |
| `CrashInLog`, `SendKilled` | undefined behaviour of `%s` with an int; SIGPIPE |
| `Peer...` | connect, send, read, close, abort; the RST of a closed peer |

`sock` maps each open descriptor to its connection; accept hands out the
lowest free number, so closed numbers are reused. `link` is a connection as
the host's kernel sees it; a peer may already send, close or reset while it
sits in `backlog`. A *piece* is what one recv returns; its bytes are not
modelled, only whose it is and its number. `relayed` is a history of what was
sent on each connection.

**ChatRoom** has no slots, descriptors or loops: join if there is room, be
turned away if not, leave, say, hear the latest piece of another member at
most once. `PollHost` implements it under the mapping at the end of that
module (`Members` = connections behind a slot, `said` = `taken`, `heard` =
`relayed`). Who hears a piece is left open on purpose: the host leaves out
stranded clients.

**ThreadedHost.** A step makes at most one access to memory or descriptors
that threads share. `Makefile.old` builds without optimisation, so every
statement loads `CLIENT_COUNT` again and `++`/`--` are a load and a store;
`pc` and `tpc` tell where main and each thread are, `reg` and `treg` what they
have loaded. A thread is named after the connection it serves.

| action | code (`probe/host-threaded.c`) |
|---|---|
| `Loop`, `Accept`, `AcceptFails` | the loop of main, `113-132` |
| `Refuse`, `Create` | `resolve_client_connection`, `177-199` |
| `AddThread`, `AddIndex`, `AddSocket`, `IncLoad`, `IncStore`, `Welcome` | `add_client`, `294-303`, and the welcome |
| `AddCrashes` | a negative index; otherwise the write is lost (see below) |
| `LeaveLoop`, `CancelNext`, `Joined`, `Exit` | shutdown and `join_all_threads`, `161-171` |
| `Recv`, `LeaveRecv`, `RecvData`, `RecvHangup` | the loop of `handle_client`, `225-234` |
| `Cast`, `SkipSender`, `Send`, `CastEnds` | `broadcast_message_from`, `153-159` |
| `Close`, `CloseAgain` | line 236, and the cleanup handler's close of the same number |
| `PassSlot`, `FindSlot`, `ClearSlot`, `DecLoad`, `DecStore`, `Report`, `ThreadEnds` | `remove_client`, `305-317` |
| `CancelActs`, `CancelSkips` | a pending cancellation at recv, send, close or printf |
| `Interrupt`, `SendKills` | the signal thread; SIGPIPE |

What needed care. The two closes of one number: accept may give it to another
client in between, whose descriptor the second close then closes, and a thread
may go on reading under a number that now belongs to a third. Cancellation: a
thread cancelled in its loop unwinds into the handler, but when
`pthread_cleanup_pop(1)` called the handler it is no longer installed, and a
cancellation in it ends the thread without removing its client
(`CancelSkips`). The counter can fall below zero (two threads that look for the
same reused number both count down); `add_client` then writes below the table,
which loses the write or ends the process. The clients are not actors of their
own: that a client sent, hung up or reset shows when recv or send returns, and
those outcomes are free. Left out: message bytes, `id`, `is_connected`, `name`,
and the set-up of the socket. The short greetings of main are taken to fit the
send buffer of a new connection. That `RUN` is loaded just before recv makes no
step of its own, for the thread ends up in the same places.

**HeadlessClient.** Bytes are positions in the input, so that order, loss and
duplication are visible without their values; `newlines` and `nuls` are the
positions that matter: `fgets` stops behind a newline, and the `strlen` that
`send` is given stops in front of a NUL (`IsStrlen`), so what follows it in the
same piece is never sent. Standard input has three stages (kernel, stdio,
returned by `fgets`), because `poll` looks at the first and `fgets` at the second. What
`read(2)` hands out depends on what standard input is: a tty gives one line, a
pipe all there is, a file is always readable.

| action | code (`headless_client.c`) |
|---|---|
| `Connects`, `SetupFails` | `49-87`; the exit codes of `15-23` |
| `Poll`, `PollFails` | `90-92` |
| `Refill`, `SendLine`, `SendRest`, `InputEnds` | `fgets` and `send`, `94-97`; the end of the input |
| `Receive`, `ReceiveError`, `HostClosed` | `97-103` |
| `Type`, `CloseInput`, `Host...`, `ResetArrives` | the writer of the input, the host, TCP |

**NcursesClient.** The places of `main` are where it can wait: `poll`, `wgetch`
on the master window ("master"), `wgetch` on the input box ("box"), `fgets`.
The host is part of the model with the one thing that matters here, its send
to this client, which returns when the kernel has room. A key is one of the
kinds the code tells apart; the buffer of `handle_input` is an array of "char"
and "NUL" with its index. `fgets` takes a line or `MAX_LINE` characters of what
stdio has read (`Stops`), so the rest of a long line is what the next box sends.

| action | code |
|---|---|
| `Connects`, `SetupFails`, `InitUi`, `InitUiFails` | `client.c:19-57`, `ui.c:8-23`, `94-104` |
| `Poll`, `PollFails`, `Receive`, `ReceiveCrashes`, `ReceiveError`, `HostClosed` | `client.c:66-74` |
| `Quit`, `OpenBox`, `OpenBoxFails`, `IgnoreKey` | `client.c:75-79`, `91-93`, `ui.c:106-151` |
| `Edit`, `Cancel`, `Post` | `handle_input`, `ui.c:57-84`, with `client.c:79-90` |
| `Refill`, `SendLine`, `SendRest`, `FgetsNull` | `client.c:82-90` |

**NaiveSession** composes `probe/naive-client.c` with what a client sees of
`probe/host-threaded.c`. `Fits` says how many of the host's messages one recv of
the client takes, and the host's recv takes all lines that wait: so an answer
may cover two lines, and a relayed message may be taken for an answer. A reset
while the client waits for its welcome is followed by an index of -1 ("overrun").

| action | code |
|---|---|
| `Connect`, `TakeWelcome` | `naive-client.c:15-51` |
| `Ask`, `AskNothing`, `Leave`, `TakeAnswer` | `naive-client.c:53-83` |
| `Accept`, `Welcome`, `Refuse`, `TurnAway` | `resolve_client_connection`, `host-threaded.c:173-206` |
| `HandleLine`, `Ack`, `Hangup` | `handle_client`, `host-threaded.c:225-239` |
| `BroadcastSlot`, `BroadcastSend`, `BroadcastEnds` | `broadcast_message_from`, `host-threaded.c:153-159` |
| `HostEnds` | the end of the host's process |

Every send of the host blocks while the client's socket holds `RcvRoom` messages
(`Full`), and a broadcast is one send after the other: a thread that is in one
(`dest`) does nothing else. The table is `ThreadedHost`'s subject; here a slot
names any other client that has a thread, or nobody, and once a thread has left
`CLIENT_COUNT` may be off (`drifted`, the run `threaded_total` shows how), so
that main may then accept or refuse whatever the number of threads.

**MessageDb** walks main's calls in order (`Call`), each succeeding or not,
as SQLite and the file system may decide; nothing in the code stops after a
failure. `commit_from_memory` is three calls: `OpenFile` (time, directory,
file), `Backup` (the file is replaced or left alone) and `Report` (success is
printed if it was). `clock` is what `time` returns, `now` the function's own
reading of it, which names the file. `Killed` and `RunAgain` are crash and
restart, between any two calls: the memory goes, the files stay. `backups` and
`saves` are histories of what was done and of what was reported.

**ListenerSocket** tries the addresses one after the other; `closes` is the
`close` of an attempt that could not be bound.

**MCPrograms** has one state space for five parts that share nothing: the
variable `program` says which of them an execution is about. That makes one
run of five small ones; no property relates two of them.

## 3. Runs

| run | what it asks | bounds |
|---|---|---|
| `host_safety` | table, descriptors, clients' slots, recv and send targets, where the thread stands still, broadcast, order, refinement | 3 slots (as `host.h`), 3 clients, 2 pieces each, backlog 2, one piece of send buffer, every content of `revents` |
| `host_live` | every client is served | as above with 1 piece each, zeroed `revents` |
| `host_recv` | finding: the host waits in recv for a client that has said nothing | as `host_live`, with malloc's `revents` |
| `host_timeout` | finding: the timeout fires on pending data | as `host_live` |
| `host_errors` | finding: one client's reset ends the host | as `host_live` |
| `threaded_safety` | counter, table and descriptors under every interleaving | 2 slots (as the code), 3 clients, 3 descriptors, no signal |
| `threaded_shutdown` | thread ids and descriptors under cancellation; main waits for no client; the process ends | 2 slots, 2 clients, a signal at any moment |
| `threaded_join` | finding: a thread is neither cancelled nor joined | as `threaded_shutdown` |
| `threaded_total` | finding: the printed total counts clients that are gone | as `threaded_shutdown` |
| `headless` | order and loss of what is sent; lines leave, the host's close and the end of the input are seen | lines of 2 bytes, stdio of 3, send buffer of 2, 4 bytes typed, one of them a NUL at most, 3 received, all three kinds of input |
| `programs` | session: nobody waits in vain, answers come; database: saves stay; listener: one descriptor; pool: consistency under any calls; ncurses client: the input box's buffer and window, the host gets on, its close is seen | 2 clients with 3 and 1 lines, 2 slots, 2 messages a recv and 2 in a socket; 2 seconds and 2 runs; 3 addresses and 2 descriptors; 4 slots, descriptors 0, 4, 5, malloc's `revents`; a buffer of 3, lines of 2, 2 keys in the terminal, one piece of receive buffer |
| `db_keys` | finding: a message names no user | one run, one second |

Why the bounds are enough: four slots give a hole with clients on both sides
of it. Three clients are the fewest for the host's interesting life: two fill
the room, one leaves and strands the other, the third fills the hole in
mid-scan and brings the stranded one back; the third also meets a full room.
Two pieces per client let order and duplication go wrong. A buffer of one
piece makes send block.

`host_safety` starts from every content malloc may have left in `revents`.
`BlocksInTwoPlaces` says what that can do: the one thread stands still in send to
a client whose buffer is full, and in recv on a slot new to poll whose `revents`
malloc left nonzero, and nowhere else. `host_recv` shows the second to happen.
`host_live` runs with zeroed memory, for with garbage a silent client keeps
everybody waiting.

`NoHoleInBroadcast` holds for `MAX_CLIENTS` up to 3 only. With 4, a client can
be in the prefix behind a hole, and `broadcast_all` calls send on -1.

In `ThreadedHost` the third client is there to be given a closed number while
another thread still uses it, and to be written into a live client's slot.
`MayInterrupt = FALSE` keeps that run short; signals are covered with two
clients, one for each slot (with three and signals the same invariants hold in
3 million states, and the theorems cover every number).

In `headless`, four bytes are two full pieces, or a piece and two lines: enough
for a piece that the send buffer takes half of, with another behind it, and for
a read-ahead that holds a whole line and part of the next; one NUL may be
anywhere in it. In `programs`, one client of the session may run ahead of its
answers and fill the other's socket while that one sits at its prompt, so the
host's thread does block within the bounds: without its condition `PromptsMoveOn`
TLC refutes `AnswersCome`. Two runs within two seconds save twice in one second
and once in each, and either may be killed between backup and report. A buffer
of 3 in the ncurses client has an index at zero, in the middle and at its limit,
two keys let `wgetch` leave one for stdio, and three make a line longer than
`fgets` takes.

All runs allow deadlock: the processes end (`pc = "exit"`), and a session may
rest with every user silent.

**Fairness** (`FairSpec`): weak fairness of the host's thread as a whole
(`HostNext`: the thread runs whenever it can take some step, and a poll with
nothing ready does time out), of each client's reading (`PeerRead`), and of
the refusal of data by the kernel of a client that is gone (`PeerRejects`).
The first is the operating system's scheduling of a single thread. The second
is an assumption about clients: the headless client meets it, the ncurses
client does not while it waits in `wgetch`; without it `broadcast_all` blocks
for ever. No client is assumed to send, close or connect.

In `HeadlessClient`, weak fairness of main's steps that succeed (`Step`): the
thread runs, and the writer, the host and the failing calls need not act.
`LinesLeave` therefore excepts what waits in stdio's buffer, which poll does
not see (on a pipe, lines read ahead; on a tty, the rest of a line longer than
`fgets` takes); `HostCloseSeen` excepts a client that sits in `fgets` with half
a line; `InputEndSeen` speaks of ttys and files only, see section 4. In
`NcursesClient` the same, and weak fairness of the kernel's completion of a
send for which there is room (`HostSent`). No key is ever promised, and the
two liveness properties say what follows: main may be stuck in `wgetch` for
good, and only each return to `poll` frees the host or sees its close. In
`NaiveSession`, the host's main welcomes and answers the accept queue, each
thread runs, a recv that has something and a send that has room return;
accepting is strongly fair for each client, for the backlog is a queue and main
greets one at a time. `AnswersCome` covers lines, not ENTER alone, and holds if
no client stays at its prompt for good with its socket full (`PromptsMoveOn`):
that is the user's doing, and nothing in the code brings it about.

In `ThreadedHost`, weak fairness of main and of each thread's own work (`Work`),
as the scheduler gives it; none of recv's and send's returns (`Served`), which
are up to the client. `ShutdownEnds` therefore says that a client that never
reads or writes cannot keep the process from ending.

## 4. Findings

- *The timeout fires on pending data* (`host_timeout`). Two clients join, the
  first hangs up: `n_clients` drops to 2 and slot 2 is no longer polled. The
  second client's data and hangup wait until another client joins, and after
  15 minutes the host exits "polling timed out" (`host.c:173`).
- *One client's reset ends the host* (`host_errors`). After a failed recv or
  send the code logs and means to go on, but gives the int `errno` to `%s`
  (`main.c:36`, `host.c:225`); a later send on the same socket raises SIGPIPE.
- *The host waits for a silent client* (`host_recv`). `clients_init` sets every
  field of a slot but `revents` (`host.c:51-57`). A client accepted into a slot
  that poll has not seen yet is within the bound of the scan that accepted it
  (`main.c:20-21`), and where malloc left a nonzero `revents` the host calls recv
  on it: it then serves nobody until that client speaks or goes, outside poll and
  its 15 minutes (`host.h:18-19`, `host.c:173`).
- *A thread is not joined* (`threaded_join`). `join_all_threads` runs to
  `CLIENT_COUNT`, which leaving threads count down meanwhile: with the counter
  at 0 it returns while a thread serves. (Each thread it does cancel lowers the
  counter too, so about half of them are never reached.)
- *The total is wrong* (`threaded_total`). A client that hangs up at once is
  removed by its thread before main has added it, and is then counted for good.
- *A message without a sender* (`db_keys`). The schema declares foreign keys
  (`probe/db.c:22-23`) and nothing switches them on; the -1 of a failed
  `insert_user` is stored as sender or recipient.

Seen while modelling, and not contradicted by any text of the repository, or
not by one run:

- At the end of a pipe, `poll` reports `POLLHUP` without `POLLIN`;
  `headless_client.c:90-97` tests for nothing else and spins until the host
  closes. `StdinHangup` models it, `InputEndSeen` leaves pipes out.
- What the user types in the input box is shown in the feed but never sent
  (`client.c:79-88`): the send that follows takes another line from stdio, if
  poll had announced the keyboard before. The toolbar says "[ ENTER >> SEND ]"
  (`ui.c:26`).
- At the end of the input, the `break` of `client.c:84` leaves the switch and
  not the loop, and skips `destroy_input_box`; `BoxesDeleted` excepts it.
- The host's text is a format of `mvwprintw` (`client.c:72`, `ReceiveCrashes`).
- `ui_exit_handler` with its `endwin` is never registered
  (`exit_handlers.h:62`).
- On a pipe, lines that stdio read ahead stay there until more input comes,
  though they were typed long ago: `poll` looks at the descriptor, `fgets` at the
  buffer (`headless_client.c:92-94`). On a tty it is the rest of a line longer
  than `fgets` takes. `LinesLeave` excepts exactly these (`ReadAhead`).
- What follows a NUL in a piece of input is not sent (`headless_client.c:95`);
  `NoLossWithinBuffer` excepts it (`BehindNul`).
- `wgetch` keeps the ncurses client from its socket, as `NOTES.org` says; when
  the host's send to it fills up, the poll host stands still for everybody
  (`host.c:223`), which `BlocksInTwoPlaces` and `HostGetsOn` bound.
- `broadcast_message_from` (`probe/host-threaded.c:156`) blocks in the same way
  on a naive client that sits at its prompt: the sender's own thread then answers
  no more, and with each sender another. `AnswersCome` states the condition.
- ENTER alone makes the naive client send nothing and wait for an answer
  (`probe/naive-client.c:61-72`, `AskNothing`); `NobodyWaitsInVain` speaks of
  lines with something in them.
- Two saves of the database within a second replace one another
  (`probe/db.c:136-148`), and a run killed between its backup and its report has
  replaced a save that was reported by one that was not (`160-168`); `SavesStay`
  says that nothing else loses a save.

## 5. Proofs

Each theorem holds for every value of the constants that meets the assumption
of its module; for the poll host these are `PoolAssumption` and
`HostAssumption`: a table size that fits in a byte, descriptors that are
natural numbers and more of them than slots, any set of clients, any backlog
and buffer size.

`ClientPoolProofs`. `PoolInv` is `SlotsAgree /\ CountMatches /\ UnusedAbove`,
inductive as a whole: `SlotsAgree` tells that `client_remove` empties a slot
that was occupied, so that the count goes down with the set of connected
slots; `CountMatches` bounds the counter by the table size, so that the byte
never wraps. `UnusedAbove` (a free slot with `revents` set lies above every
client) gives `HolesAreQuiet` by counting: were a hole inside the prefix
never written, fewer clients than `n_clients` would be below it. `InitPool`,
`AddPool`, `RemovePool`, `PollPool` state what each operation preserves and
are reused for the host. `AddIsTotal` says that a pool which is not full has a
free slot (`FreeSlotExists`), so that the last return of `client_add` is not
reached; it follows from `CountMatches` alone.

`PollHostProofs`. `Inv` joins type correctness, `HostInv` and
`DescriptorsAccounted`. The last is needed for the first two: that accept's
new descriptor is in no slot (`OneSlotEach`) follows from closed descriptors
being unlisted, and that a disconnected connection is no longer alive follows
from each being behind one descriptor. There is one lemma per action, or per
group of actions that change the same variables. `RecvIsSafe` then combines
`Inv` with the pool's `HolesAreQuiet`. `BroadcastIsDense` counts: with three
slots the listener and the sender are two of the at least three clients below
`n_clients`, so the third slot is no hole.

`HostBlocksInTwoPlaces` needs a second invariant, `ReadyInv`, about the flags that
poll set; what malloc left is not in it. `Fresh` says of a slot with `Reported`
that what it announces is still there, unless the slot had its turn in this scan
and lies in the prefix that the next poll rewrites. Two facts carry the
induction: only the slot's own turn takes anything from its connection
(`DistinctConns`), and a disconnect, which shrinks the prefix by one, empties a
slot that is not below the slots that had their turn, so none of those falls out
of the prefix with its flag still set. `ListenerPolled` adds that accept never
rests on malloc's content. So at every place of the loops the thread can go on
(`CanStep`), or it is in send to a client whose buffer is full (`SendBlocks`), or
in recv on a `Leftover` (`RecvBlocks`). Two of the cases are not about readiness.
accept finds a free descriptor because there are more of them than slots and the
open ones map onto the slots (`DescriptorLeft`, by a surjection); send fails, and
does not wait, on a connection that is gone, because one that is open to the
host is alive (`AliveAccounted`).

`ClientKeepsItsSlot` is an action property: from accept to the host's close, a
connection is behind one slot. The step that could break it is a disconnect,
which empties the first slot with the descriptor it is given; `SlotEmptied`
shows that it is the slot main is at.

`PassIsBounded` is what the liveness of the host rests on. `Effort` is a number
that each step of the thread between two polls lowers and no step of a peer
changes (`PassEnds`), though the loop's bound `n_clients` moves during the pass:
it charges each slot up to the end of the table, not of the prefix, with one
broadcast of at most a step per slot. Together with `HostBlocksInTwoPlaces`, a
pass ends within `MAX_CLIENTS * (MAX_CLIENTS + 2) + 1` steps unless a client does
not read, or malloc's `revents` sent the host to a silent one.

How the process ends is settled by its last step, so `OnlyAResetKills` is an
invariant over `exit`; it limits the finding `host_errors` of section 4: with the
three slots of `host.h`, the crash in the log and SIGPIPE need a client that
reset its connection; the table's own bookkeeping never leads there, for recv
gets open descriptors (`RecvIsSafe`) and send no hole (`BroadcastIsDense`).

`ThreadedHostProofs` (assumption `ThreadedAssumption`: at least one slot,
descriptors that are natural numbers). None of the properties is inductive, for
a thread may store tomorrow what it computed from a counter it loaded yesterday.
`CountInv` adds that no loaded value exceeds the table size; a thread's late
store is one below what it loaded, hence below the size, so main's test still
holds when it uses the counter. `RecordInv` says the same of the slots
"recorded" below a value: below the counter, below each thread's loaded value,
and below the counter plus one between `AddThread` and `IncLoad`. `DistinctInv`
(no thread in two slots) rests on accept giving a connection that is new.
`CancelInv` says that only the thread being joined is cancelled, and `FdInv`
that each open descriptor is in main's hand or will be closed by its own
connection's thread; a thread whose handler is cut short by a cancellation has
closed its descriptor at line 236 already. `JoinInv` adds that every thread in
the table was created, that a thread which acts on a cancellation is in its
cleanup handler, and that main joins a thread only after cancelling it: so
whatever the threads were doing when the signal came, the one main waits for
waits for no client (`JoinWaitsForNoClient`). `CancelledThreadEnds` goes on from
there: each step of a cancelled thread lowers `StepsLeft`, a natural number,
and no other step touches it. It counts a broadcast the thread may be in (two
steps a slot) and `remove_client` (five a slot) up to the table size, since the
counter that bounds the broadcast moves meanwhile.

The relay and the refinement in `PollHostProofs` have a third invariant,
`RelayInv`. `GivenTaken` says that nobody was given a piece before it was
taken, so that a piece just taken is new to all; `CastSoFar` keeps it new to
every slot the broadcast has not reached. With that, what `Send` appends comes
after all that was given of the same speaker (`RelayIsInOrder`), and the room's
"for the first time" holds (`HostImplementsRoom`). The rest of the refinement
is who is where: members are the connections behind a descriptor
(`MemberHeld`), one for each connected slot but the listener's
(`MembersCounted`, a bijection), which makes `client_add`'s failure the room's
"full". All other steps map to stutters.

`ChatRoomProofs` proves of the room alone that everybody hears the others'
pieces in order and once, and that it never holds more members than seats
(`RoomKeepsCapacity`, by counting). `HostKeepsCapacity` gets the second for the
host from the refinement: `ChatRoomProofs` is instantiated with the mapping, and
the host's step is the room's step.

`HeadlessClientProofs`: for `NothingLostEarly`, the bytes sent are at most those
used, so with no more used than the buffer holds there is room for whole pieces;
a byte of a piece that `strlen` leaves out is behind a NUL of that piece, and
stays so, for the pieces already read no longer change with what is typed.
`LossIsAtTheTail`: `fgets` always goes on at the head of a piece unless the input
is over (`AtPiece`), which is what makes a loss the end of a piece. The step that
needs it is the one where the previous piece lost its end.

`NcursesClientProofs`: `BoxAtHand` follows the box and the cursor through the
places of main, the set-up included; the buffer's part rests on the index
staying below its last element.

`ProgramsProofs` is about the listener and the session. For the listener, the
descriptor in hand is the only open one at each place. For the session,
`NobodyWaitsInVain` needs that a client past its welcome was accepted or turned
away (`Accepted`), since a line sent into the backlog would wait there, and that
an open connection has a thread (`Threaded`); and that a broadcast is in send
only to clients that were accepted (`Aimed`), so that nothing waits in the socket
of one that was not. `OverrunIsTheHostsEnd` says when the write to `buffer[-1]` of
`probe/naive-client.c:50` can come: only after the host ended, for no connection
that still waits for its welcome is reset while it runs. `ProgramsAreTyped`
carries the types of session and database over to `MCPrograms`.

`MessageDbProofs`: what the messages name follows from the two ids returned
(`RowsMatch`), and these from how far main has come (`IdsMatch`); a file is a
snapshot, so what holds in memory at the backup holds in the file
(`MessagesHaveUsers`, what is left of the schema's rule). `SavesAreKept` is
inductive with the types once it is known that between backup and report the file
still holds what is in memory (`Committed`): a later backup either leaves a file
alone or is itself the exception.

Only model-checked: liveness (`ClientServed`, `ShutdownEnds`, `LinesLeave`,
`HostCloseSeen`, `InputEndSeen`, `HostGetsOn`, `CloseSeen`, `AnswersCome`), for
fairness is out of the prover's reach. For `ClientServed` and `ShutdownEnds`
the safety half is proved: the poll host's thread is stuck in two places at most, and
is back at poll within a bounded number of its steps (`HostBlocksInTwoPlaces`,
`PassIsBounded`); the thread that main joins is over within a bounded number of
its own (`JoinWaitsForNoClient`, `CancelledThreadEnds`). That the scheduler
gives them these steps, and that a call which can return does, is the fairness.

## 6. Not modelled

- `probe/host-poll.c` is the poll host in one file, the same code as `host.c`
  and `main.c`; `probe/client.c` and `probe/ui.c` are drafts of the ncurses
  client, `probe/simple-db-ex.c` one of the database. A model of any of them
  would repeat one that is here.
- Drawing: borders, titles, the row and column of the feed. The row grows
  without bound past the window (`ui.c:90`), listed among the hazards.
- Log text, and `log.h` but for what its `%s` does to an int.
- The build files.
- Host and clients as one system of byte streams. What each side relies on is
  stated at the border instead: that clients read (`ClientServed`), and the one
  client that may not (`HostGetsOn`). No property of lines across the relay is
  stated, for neither side promises any.

Abstracted in what is modelled: message bytes and the cut of the stream at
`MAX_DATA_LEN`; IP addresses; partial sends of the host (a blocking send is
all or nothing unless the connection breaks); `accept` running out of
descriptors (`HostAssumption`); half-closed clients that still read; restarts
of the host; the terminal's modes; the set-up of the threaded host's socket.
