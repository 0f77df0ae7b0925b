# Verification of atomic-disc-drive

TLA+ models of the distributed register in `src/solution` and of the block device driver in
`src/driver`, the TLC runs that check them on small instances, and TLAPS proofs about the register, its
linearizability and abstract specification, the links, the executor, the files, the driver and the
byte formats for every number of processes, peers, commands, requests and sectors.
`PROJECT.json` maps every definition to the lines it models.

## The system

N processes keep the sectors of a block device. A client (or the kernel driver) sends
READ and WRITE to any process over TCP. The process runs a two-phase quorum protocol
with all processes and then answers. Processes crash and restart and keep a directory
each.

| component | state | operations | what is hard |
|---|---|---|---|
| atomic register (`atomic_register.rs`) | stored `read_ident`, `writing`, `writeval`; in memory `reading`, `readval`, `readlist`, `acks`, the callback | `client_command`, `system_command` (ReadProc, Value, WriteProc, Ack), `new` | late, duplicated and reordered answers; crashes in the middle of an operation; replay of an interrupted write |
| sectors manager (`sectors_manager.rs`) | a data file per sector, metadata files of many entries, the map and the total size in memory | `new`, `read_data`, `read_metadata`, `write` | two files per sector; several registers on one sector; file boundaries; failing writes |
| stable storage (`stable_storage.rs`) | files | `put`, `get`, `write`, `read` | errors before and after the rename |
| commands executor (`commands_executor.rs`) | tickets per sector, a notifier per sector, routes by message id, a channel of ready registers, a channel per register | `execute_client_command`, `execute_system_command`, `finish_client_command`, `single_register_thread` | waits and wake-ups, ticket order, registers shared by clients and peers |
| register client (`register_client.rs`) | a TCP stream per peer, the pending commands | `send`, `broadcast`, `monitor_connections` | loss between a socket and a crashed peer; one pending command per id |
| requests (`run_register_process.rs`) | connections | `handle_single_external_request`, `get_magic_number`, `respond`, `respond_err` | segments that end anywhere; a stream that is out of step; clients that leave; rejected commands |
| serialization (`serialize_deserialize.rs`, `domain.rs`, `transfer_public` of `lib.rs`) | - | serializers and deserializers | widths, offsets, padding |
| start-up (`lib.rs`) | the recovered commands | `run_register_process`, `get_commands_executor_and_pending_cmd` | replay before the first connection is accepted, at another register than the one that stored it |
| driver (`src/driver`) | a ring of requests per thread, a TCP client | submit, send ahead, complete by position, resend | index arithmetic, resends, late responses |

How they interact: a connection task reads a command, waits in the executor for its turn
on the sector, takes a ready register, adds a route for its request number and hands the
command over. The register broadcasts through the register client. ReadProc and
WriteProc from other processes go to any ready register, and Value and Ack to the register
their route names. When the register completes, its callback answers the client and
`finish_client_command` releases the sector. A process also sends to itself, through an
internal channel.

What correctness means, by component:

- register: each sector is one atomic value; a completed operation survives crashes of
  processes; an operation completes while a majority is up;
- sectors manager: data and tag of a sector belong together; tags do not decrease; a restart
  finds what was written;
- executor: one command at a time on a sector, in ticket order; answers reach the right
  register; nobody waits for ever; each client gets the reply to its own command;
- register client: what is sent arrives as long as it is needed, unless it was lost with the
  peer it had been sent to;
- requests: what was sent with a valid tag is executed, and nothing else;
- start-up: a process that was started comes into service;
- driver: the device answers like a disc, and every request completes.

## Modules

| module | models |
|---|---|
| `AtomicRegister` | N processes, one sector, one register each: the protocol, its storage, crashes and restarts |
| `RegisterView` | the part of that state that can still matter, for TLC's VIEW |
| `RegisterHistory` | the same, with the history its clients see, and linearizability |
| `TaggedRegister` | what the registers of a sector promise, without messages and discs (an abstract specification) |
| `RegisterRefinement` | the refinement mapping from `AtomicRegister` to `TaggedRegister` |
| `AtomicRegisterProofs` | theorems: types, order, durability, fresh read_idents |
| `RegisterTagProofs` | theorem: one content per tag |
| `RegisterRefinementProofs` | theorem: `AtomicRegister` implements `TaggedRegister` |
| `RegisterHistoryProofs` | theorem: a sector is linearizable |
| `CommandsExecutor` | one process: client tasks, the executor, the register threads |
| `CommandsExecutorProofs` | theorems: types, routing, ticket order, replies |
| `RegisterClient` | the links out of one process |
| `RegisterClientProofs` | theorems: types, what is sent is kept |
| `SectorsManager` | the files of one process and the workers that use them |
| `SectorsManagerProofs` | theorems: types, a restart finds the metadata, tags are lowered by one race only |
| `ProcessStartup` | one process with several registers: restart, replay, accept |
| `Transfer` | commands and responses as bytes, framing, tags |
| `ExternalRequests` | the connections of one process, from bytes to the executor and back; uses `Transfer` |
| `DriverRelay` | the driver's ring, relay thread and TCP client, composed with `ExternalRequests` |
| `DriverRelayProofs` | theorems: the BUG_ONs, the device is a disc, system commands read back as sent |
| `MC*` | workloads for the runs |

**AtomicRegister.** Variables keep the names of the fields. `stored` and `state` are
`AtomicRegisterStorageState` on disc and in memory, `data` and `meta` the sector.
A handler runs under the mutex of its register, so it is one action. A branch of a handler
that reaches a quorum is an action of its own (`ValueQuorum`, `AckQuorum`) beside the one
that does not (`RecordValue`, `RecordAck`). `msgs` only grows: any command may be
delivered late, repeatedly, out of order or never. Saving the state precedes the
broadcast in the code; a crash between the two is the crash after the action with the
broadcast never delivered. `TornCrash` is the crash between the two files of a sector.
"disk" faults: `store_state` only logs an error, and `SectorsManager::write` returns
nothing, so the Ack is sent all the same. `committed`, `floor` and `optag` are
auxiliary: no guard reads them.

**TaggedRegister** is an atomic value whose versions are named by tags. An operation begins,
takes effect in one step, and completes; a crash may abort it before or after it took effect.
A read takes a version no older than any operation that completed before it began; a write
makes a version newer than such a one, under a tag that names no other content. In
`RegisterRefinement` an operation takes effect when it broadcasts its WriteProc, and the versions
that exist are those that were broadcast. A replayed write is a new operation of
`TaggedRegister`: that it can take effect twice is the subject of `history_interrupted_write`.

**RegisterHistory** adds a history of invocations and answers. `Linearizable` searches
for an order of the answered commands, and of any of the unanswered writes, that respects
real time and in which each read returns the last write before it.

**CommandsExecutor.** A task is one client command on a connection of its own. Each
critical section is an action, and the point between the unlock of `sector_counters` and
`notified()` is a state ("unlocked"). A register keeps its callback, its two phases, its
`read_ident` and which of `reading` and `writing` is set, because that decides what it
answers. One answer stands for the quorum of a phase.

**RegisterClient.** A broadcast is a loop of sends. A stream whose peer died is "stale"
until a write to it fails, and a write to it may also succeed and be lost.
`monitor_connections` reconnects and replays all pending commands. `lost` is auxiliary: the
commands that went with a connection of a peer that crashed. The links are therefore weaker
than the stubborn links of the algorithm in the repository's README: `send` takes a successful
`write_all` for delivery. `SentOrKept` and `LinkDelivers` say exactly how much weaker, and
the end of Findings what it costs.

**SectorsManager.** Metadata files are sequences of entries; file number and offset are
computed from the total as in the code. The steps of a worker are the locks and file
replacements. A ReadProc or WriteProc goes to any idle worker, whoever else is at work on its
sector. A WriteProc compares its tag in one step and writes in later ones; `seen` is what it
compared with, and no guard reads it. A write may fail before or after its rename. The content
written under a tag is named by the tag.

**ProcessStartup.** `stored` and `writing` are the interrupted write of each register on disc
and in memory. A register hands its stored write out at the restart and forgets it in memory
only; the loop of `run_register_process` gives it to the first ready register, whichever that
is. Answers of other processes need `pc = "accepting"`, because they come over connections that
those processes open. The ready channel is in any order after a restart, since the threads of the
registers race to announce themselves.

**Transfer, ExternalRequests.** The serializers are operators over sequences of bytes with the
real widths and offsets; only the length of a sector is a constant. The HMAC is external: a
function of key and bytes that separates the messages of an instance. A connection is a
sequence of segments. `HandleRequest` reads at most one request: it starts at the first
magic number, and reads the header with `read`, which may return fewer than four bytes
(`ShortHeader`: the command is dropped, and the rest of it is skipped as noise), and the
rest with `read_exact`. The executor and the registers are abstracted to commands that complete in
any order on different sectors and one at a time on one; their own models are above.

**DriverRelay.** `requests_buf` and the three positions are the ring. Submitting a request
stores the slot and then moves the position, two steps between which the relay thread may
run. The relay thread is `Wake`, then `Fetch` until no command is pending, then `Send`. A
response completes the request at `buf_completed_pos`. Responses stay in the socket until
one is complete, which is what the loops in `progress_tcp_data` wait for.

## Runs

| run | expected | shows |
|---|---|---|
| `register_crash_recovery` | pass | order, durability, fresh read_idents, one content per tag, and the refinement of `TaggedRegister`, with a crash of one writer at any point and its replay |
| `register_progress` | pass | an operation completes while a minority crashes and restarts and discs fail |
| `history_linearizable` | pass | linearizability of a write and two reads when the reader crashes |
| `history_interrupted_write` | violation | an interrupted write is replayed and takes effect twice |
| `executor_sectors` | pass | ticket order, routing, and that every command gets a register |
| `executor_lost_wakeup` | violation | a wake-up between unlock and `notified()` is lost |
| `executor_busy_register` | violation | a register in the middle of a read is given a write and answers it as a read |
| `client_links` | pass | a command is kept while it is needed, and is delivered unless it was lost with its peer |
| `sectors_layout` | pass | placement of metadata over file boundaries, failures and restarts; a tag is lowered only by a write whose comparison is out of date |
| `sectors_workers` | violation | a ReadProc pairs old data with a new tag when another worker writes |
| `driver_device` | pass | the device answers as a disc; the BUG_ONs do not fire; system commands are executed as sent; requests complete |
| `startup_replays` | violation | a process that crashed during a replay never accepts connections again |

**Bounds.** Three processes are the smallest system with a majority that is not
everybody; two processes suffice for the violation of atomicity. Two contents tell written
from unwritten; in `register_crash_recovery` the writer that may crash writes one and the
other writer the other (`Written`), so that equal tags with different contents would show. The
writer that crashes writes one content because `UniqueTag` needs it (see `TagsAreUnique`). In
that run a ReadProc that is answered twice while its sender waits gets one answer
(`AnsweredOnce`), and steps that change nothing are skipped (`Changes`). `MaxOps` and `MaxCrashes` bound commands and crashes: one write, one read
and one crash give every overlap of two operations with a replay. Messages are not bounded
otherwise, they follow from the commands. In the executor two registers and two sectors
with three commands give waiting on a sector, waiting for a register and a busy register;
the ticket order needs two commands on one sector. In `client_links` a coordinator with
both phases and answers to two others give replaced pending commands. In `sectors_layout`
two entries per file and three sectors cross a file boundary. In `driver_device` a ring of four
slots wraps with five requests, of which two are outstanding (`QueueDepth`, below the size of
the ring: the check for a full ring fails after a wrap, and only the limits of the block layer
keep 256 requests from being outstanding). Commands of the driver may be cut in their
body (`Cuts`), and the messages of the other process in the magic number, in the header
and in the body, behind noise that begins like a magic number, with an unknown type and with a
wrong key. `Window` bounds what arrives before it is read, at more than any one message. In
`startup_replays` two crashes and three registers suffice for two copies of one write.
In both runs of `SectorsManager` the two workers take any sectors, the same one too, and the process
may stop once. `executor_sectors` has its read alone on a sector: when a
busy register (see the findings) completes a read of a sector others wait for, the wrong
sector is released and ticket order is lost as well.

**VIEW.** `LiveView` drops answers whose addressee no longer waits for their
`read_ident`, which it drops itself because its `read_ident` only grows, and fields that
the next `client_command` overwrites before anything reads them. `HistoryView` also
drops broadcasts nobody waits for and no sector would take; they only cause such
answers. Two states with one view have the same views ahead of them, and every property of
those runs depends on the view only. The CONSTRAINT of `history_interrupted_write` steers
the search of a violation; what it finds is a behaviour of the unconstrained
specification.

**Fairness.** Register: weak fairness of delivery per link and command type, between
processes that never crash, and nothing for the others. Their connections last, what was
sent before the first connect is replayed, and the worker loop never ends. Executor: tokio
runs every task that can move, the worker threads loop, and answers keep arriving; clients
need not send anything. Register client: `monitor_connections` retries every second, a peer
that runs accepts and reads, and a crashed peer comes back. Driver: the relay thread and the
connection tasks run, TCP delivers, the registers complete what they get; nobody has to
submit a request. Start-up: a crashed process is started again, its loop runs, and the other
processes are up and answer.

**Deadlock.** Checked in the register's runs. A system whose bounded clients are served may
stop, so the executor, client, sectors and driver runs turn it off.

## Findings

Each is a "violation" run, with the line it contradicts in `PROJECT.json`.

1. An interrupted write is executed again under a new timestamp after the restart, even if
   others have read and overwritten it. The clients' history has no linearization.
2. A waiter unlocks `sector_counters` before it polls `notified()`, and `notify_waiters`
   keeps no permit: it can sleep for ever with its turn come.
3. A register announces itself ready after every message. With as many operations under way
   as registers, it gets a second command in the middle of the first.
4. `read_data` and `read_metadata` are not one critical section, so a Value can pair data
   and tag of different writes.
5. A crash during the replay of a write leaves it in two registers. At the next start the
   second copy waits for the first, and the first for answers that come over connections
   accepted after the second: the process stays out of service at every later start. The
   same stale copy also brings back a write whose replay completed, over newer ones.

The models have other behaviours that a user would not expect. They have no run of their own; TLC
finds each on the module named, with the constants given, and where a theorem excludes one by a
hypothesis this is why.

- *Lowered tag* (`SectorsManager`, two workers, one sector). A WriteProc compares its tag with the
  metadata and writes later, without a lock over both. Two registers compare WriteProcs of one
  sector with the same tag; the newer is written first, the older last. The sector goes back to
  a tag below the one it acknowledged, with the newer data under it (7 states).
- *Torn sector* (`RegisterHistory`, two processes, "torn" among the faults). A crash between the data
  file and the metadata file of an overwrite leaves new data under the old tag; the code deals
  with the first write of a sector only. Process 2 stops there while it takes the second of
  two writes, and of two reads after its restart the first returns what the torn sector
  holds and the second the first write (35 states, no linearization). In `SectorsManager` one
  worker and one crash violate `ReadPairWritten` (9 states).
- *Acknowledged and not stored* (`AtomicRegister`, "disk" among the faults).
  `SectorsManager::write` logs its errors and returns, and the Ack is sent. An operation
  completes with its tag on fewer discs than a majority: `CommittedAtMajority` is false.
- *Lost with the peer* (`RegisterClient`, two peers, two crashes). `send` keeps nothing once
  `write_all` has succeeded. Two peers that crash and return one after the other take a
  ReadProc with them each, and the operation never completes with every process up.
- *Blocked sector* (`CommandsExecutor`, two commands on one sector, the client of the first leaves).
  `respond` returns the error of `write_all` before it calls `finish_client_command`: the
  second command waits for its turn for ever (15 states). Without the client that leaves its
  turn comes.
- *Cut header* (`DriverRelay`, `Cuts = {6}`). The header is read with `read`, not `read_exact`. A
  command that is cut there is dropped without an answer, and the driver, which sends
  one command at a time, waits for ever.

## What is proved

Each theorem holds for every value of the constants that satisfies the named assumptions. The
inductive invariants were also checked with TLC, on instances of the size of those of the runs
(`TagInv` of both modules that have one, `ClientInv`, `RouteInv`, `TicketInv`, `LayoutInv`, `DeviceInv` exhaustively; `HistoryInv`
up to a million states and `ReplayInv` up to 1.7 million, because the views do not keep what
they speak of).

### The register

`AtomicRegisterProofs`, for every N, workload, number of commands and crashes:

- `TypesHold`: `TypeOK`, under every fault. The type invariant is strengthened by
  `HasWriteval`: whoever is writing has a value, else a WriteProc could carry none.
- `OperationsInOrder`: `RealTimeOrder`. Once an operation has chosen its tag, a read's is
  no lower and a write's strictly higher than that of every operation completed before it
  began.
- `CompletedIsDurable`: `CommittedAtMajority`.
- `ReadIdentsAreFresh`: `ReadIdentFresh`, over any number of restarts.

The last three assume `NoDiskError`, that "disk" is not among the faults. They need it: a
failed `store_state` loses a `read_ident` and a failed sector write is acknowledged.

The argument is the inductive invariant `SafetyInv`. `BroadcastsPast` and `MemoryStored`
say that nothing was broadcast above the stored `read_ident`, hence freshness.
`AnswersFollow` ties an Ack to a WriteProc that its sector has caught up with. `ListHeard`
and `AcksHeard` say that only answers to the current `read_ident` are counted. `FloorHeld`
keeps, through the first phase, a majority that held what was complete at the start and
answered no less: it exists when the operation begins by `CommittedAtMajority` and stays
because tags grow. A quorum of Values meets it (`MajoritiesMeet`), so the chosen tag is no
lower (`ChosenTag`). A quorum of Acks is a majority that holds the tag, which is
`CommittedAtMajority` again. `TagChosen` links the tag of the operation to the broadcast.

`RegisterTagProofs`:

- `TagsAreUnique`: `UniqueTag`, under `TagsKept`: no fault separates the two files
  of a sector (`WholeWrites`), and either no write is interrupted by a crash or the clients of each process write one content. With no interrupted write the
  invariant is `TagInv`: a process whose write is complete left it at a majority, so its next
  write finds a higher timestamp and its own rank tells its tag from those of others. With one
  content per process (`ReplayInv`) the rank of a tag already names the content. Both rest on
  `VersionInv`: what a disc and a Value hold is a version that somebody broadcast, or the
  unwritten one.

`TagsKept` cannot be dropped, and the failed proof without it led TLC to a behaviour of 27
states. Process 2's write, tag (1, 2), reaches only disc 2. Process 1 hears disc 2, broadcasts
v1 under (2, 1) and crashes before anybody handles that. Its replay hears discs 1 and 3, takes
(1, 1) and completes. The next write of process 1, of other content, hears 1 and 3 again and
takes (2, 1) a second time. The stored state has the interrupted content and not the tag it was
broadcast under, so the code cannot know. A late WriteProc of the first (2, 1) then makes a disc
acknowledge the second without taking it.

`RegisterRefinementProofs`:

- `RegistersImplement`: `ImplementsTaggedRegister`, under `TagsKept`. `Init` maps to the initial
  state; a command and a replay map to `Begin`; a quorum of Values maps to `TakeEffect`, with
  `ChosenTag` for the version it takes and `UniqueTag` for a new name; a quorum of Acks maps to
  the completion, a crash to an abort, everything else to a stutter.

`RegisterHistoryProofs`:

- `SectorIsLinearizable`: `Linearizable`, under `WholeWrites` and `NoInterruptedWrite` (no process
  crashes in the middle of a write; readers, and writers between their writes, may crash). Both are
  needed: an interrupted write that is replayed takes effect twice (finding 1), and a torn sector
  answers a content under a tag that is not its own (see the end of Findings). The invariant `HistoryInv` carries the order
  itself: some sequence of the commands in effect is sorted by their tags, a write before the reads
  of its tag, and no command precedes one that was answered before it was sent (`SortedBy`). A write
  gets its place when it chooses its tag (`ValueQuorum`), a read when it is answered (`AckQuorum`),
  each behind all commands with a tag no higher (`PlaceFor`). Real time is kept because the tags of
  answered commands are at most `committed`, and those answered before a command began at most its
  `floor` (`TagsInTime`, with `RealTimeOrder` of the section above); a read returns the last write
  before it because its tag names one content (`Contents`, with `UniqueTag`). The order grows by one
  insertion per step, so the proof is an induction over steps and not over sequences.

### The links

`RegisterClientProofs`, for every number of peers, calls and crashes of peers:

- `ClientTypesHold`: `TypeOK`, with one pending command per `msg_ident`.
- `SentIsKept`: `SentOrKept`, under `CallsInOrder`: of two calls under one `msg_ident` that go to
  peers, one begins after the other has returned. It holds for the calls of one register, which
  awaits each of them, and for the commands a process sends to itself, which take the internal
  channel. It need not hold when two registers of a process answer two copies of one peer's command at the
  same time: then a Value that comes late replaces a pending Ack. `ClientInv` adds that a call
  starts after those before it, that what is pending was started, and that only open streams carry
  commands.

### The executor

`CommandsExecutorProofs`, for every finite number of registers (`RegisterAssumption`), and any
sectors and commands, rejected commands and clients that leave included:

- `ExecutorTypesHold`: `TypeOK`; the counters of a sector are numbers and the channels hold
  registers and messages that exist.
- `AnswersAreRouted`: `RoutedToExecutor`, if commands have different request numbers
  (`DistinctIds`). Busy registers do not break it. `RouteInv` says who has the register at each
  step of a command: it is in one channel or callback, under one route, from the hand-over to
  the release.
- `SectorsInTurn`: `SectorInTurn` in every behaviour with `OnlyLoneReadsLost` always true: a
  register in the middle of a read gets a write only if nobody else uses the sector of that read.
  So the busy register (finding 3) is the only way to lose ticket order. `TicketInv` says that
  tickets of one sector differ and `total_finished` is the ticket of the command that has it.
- `RepliesOfTheirKind`: `ReplyOfItsKind` in every behaviour in which no register in the middle of
  a read is given a write (`ReadsUndisturbed`). The property is the one
  `executor_busy_register` finds violated; the theorem says that the violation has no other cause.

### The files

`SectorsManagerProofs`, for every number of sectors, workers and entries per file, under every
fault:

- `SectorTypesHold`: `TypeOK`; no metadata file outgrows its number of entries.
- `MetadataIsFound`: `RestartFindsMetadata`, with any number of workers on one sector.
  `LayoutInv` says that the files hold `metadata_total_size` entries without a gap and at most
  one more, of a write that failed after its rename (`FilesFilled`), that the map and the entries
  lead to one another (`InfoPlaced`, `SlotsKnown`), and that the extra entry is of a sector the
  map does not have (`ExtraUnknown`), so that the next new sector may overwrite it. The lemmas on
  `NewLocation` (distinct numbers have distinct places, the places below n fill the files in
  order) are the arithmetic of the file boundary.
- `TagsLoweredByRaceOnly`: `TagLoweredByRaceOnly`, with any number of workers on one sector. A step
  that lowers the tag of a sector on disc is the metadata write of a WriteProc for that sector
  whose tag is above the one it was compared with and below the one it replaces: the lowered tag
  under Findings is the only way, and failed writes, the reuse of a place after one, crashes and restarts are none.
  `TagInv` adds `SeenOlder` to `LayoutInv`: a WriteProc under way is newer than what it was
  compared with. Where no other worker writes the sector in between, the tag grows.

### The driver and the bytes

`DriverRelayProofs`, for every sequence of requests, size of the ring and depth of the queue below
it, every segmentation outside the header, and every noise and message of the other process:

- `RelayHasNoBug`: `NoBugOn`.
- `BlockDeviceIsDisc`: `DeviceIsDisc`. It speaks of the whole way of a request: the ring, the bytes
  of the command, their segments, the process that parses, verifies and executes it, the bytes of
  the response, and the completion by position.
- `SystemCommandsAsSent`: the four system commands, signed and serialized, are read back field by
  field, have the length the process computes from their type, begin with the magic number, and
  verify. It is the part of `ExecutedAsSent` about one message.

The first two theorems have two hypotheses, which exclude behaviours that the code allows:

- `NoHeaderCut`: no segment of the driver ends within bytes 5 to 7 of a command. The process would
  take a short read for the header, drop the command, and search the rest of it, which may be
  any data, for the next one (`ShortHeader`).
- `[]OnlyDriverWrites`: a WRITE that is executed is the driver's. The disc of `DeviceIsDisc`
  has one writer; with another client writing, the driver reads what that client wrote.

The inductive invariant is `DeviceInv`. For some number d of finished requests, `Ring(d)` says
that the first d requests were completed with the disc's answer, that the slots behind
`buf_completed_pos` hold the later ones in the order of their submission, that the two other
positions are ahead of it by the accepted and by the pending requests modulo the size of the ring,
and that at most one command is pending. `Pipeline(d)` says where that command is: not sent, in
the connection (whole or in two segments), executed, or answered by exactly one response that
verifies. `Holds` says that the sectors hold the last writes of the first d or d + 1 requests.
Since at most one command is under way, completion by position completes the request that was
answered; since its response verifies, `FetchError` and the resending after it do not occur, and a
failed send leaves the ring as it was. The differences of positions are `CommandsToSend` and
`AtDifference`, and need the depth of the queue below the size of the ring.
`CommandFrame` and `ResponseFrame` are the byte formats, `PartIsLeft` and `WholeIsHandled` the
framing of a command in two segments.

### Assumptions on constants

N is a positive number, the unwritten content is a content and `NoData` is not, clients write
contents, workloads are sets of processes, registers are finitely many, bounds are numbers. For the
driver, `DriverAssumption`: the peer has a connection of its own, a command is cut within its bytes,
and fewer requests are outstanding than the ring has slots, which is the block layer's doing (see
Bounds). `BlockLayerAssumption`: a request is one whole sector, because the driver gives the
queue a logical block size and a largest request of one sector (`atomic_disc_driver.c:332`, `:334`), and
the number of a sector is below 256^3, the numbers for which `ToBeBytes` keeps the bytes (TLC's
integers have 32 bits; the fields of the code have 64). TLC evaluates the assumptions on each run.

### Only model-checked

- Liveness (`OperationCompletes`, `GetsRegister`, `LinkDelivers`, `RequestsComplete`), which is
  beyond the prover.
- `ExecutedAsSent`. It compares everything executed with everything the other process ever sent,
  noise and cut messages included, and holds only if no other stretch of the bytes starts
  with a magic number and verifies. That depends on the HMAC: the one of the model separates the messages
  of the run, and no theorem can assume that of any bytes. `SystemCommandsAsSent` is the part
  that does not depend on it.

## Not modelled

- The driver beyond one connection that lasts: `atdd_disconnect` and the socket it releases, the
  error flag (after an error the relay thread spins), the end of the stream when the process
  crashes, a partial send, module load and unload. A response with a wrong tag (`FetchError`)
  is in the model, but the process never sends one (`DriverRelayProofs`).
- The order of the stores of slot and position (`atomic_disc_driver.c:240`): the model has the
  order of the source, which nothing in the code enforces.
- HMAC and SHA-256 themselves; parsing of module arguments, sequential and without state.
- Several registers per process together with the protocol. `AtomicRegister` has one;
  `SectorsManager`, `CommandsExecutor` and `ProcessStartup` have several without the quorums.
- Equal request numbers of different clients, which share a route and a pending entry.
- Read errors, which the code takes for a missing file: an unreadable metadata file makes
  `write` index an empty vector (`sectors_manager.rs:141`).
- Loss of a rename by the operating system: a crash is that of a process.

## What is left

Worth modelling: equal request numbers (executor and links composed, `respond_err` included), and
the driver over a connection that breaks, with the resends and late responses that come with it.
`ExecutedAsSent` could be proved over an abstract HMAC, a constant operator assumed to verify only
what was signed, in place of the one that TLC evaluates.
