--------------------------- MODULE AtomicRegister ---------------------------
(***************************************************************************)
(* The (N,N)-AtomicRegister of solution/src/atomic_register.rs over the    *)
(* sectors of solution/src/sectors_manager.rs: one sector, one register    *)
(* worker per process, N processes, with crashes and restarts.             *)
(*                                                                         *)
(* The handlers of one register run under its mutex (single_register_      *)
(* thread), so each is one action.  The only await inside a handler at     *)
(* which a crash leaves a distinguishable disc is the one between the two  *)
(* files of a sector write: that crash is TornCrash.                       *)
(*                                                                         *)
(* `msgs' holds every system command ever sent and nothing leaves it: a    *)
(* command may be delivered late, twice, out of order or never.            *)
(***************************************************************************)
EXTENDS Integers, FiniteSets

CONSTANTS
    N,           \* processes_count
    Data,        \* sector contents
    Written,     \* the contents that clients of each process write
    Zero,        \* the content of a sector nobody wrote (SectorVec::new())
    NoData,      \* None / the empty vector of a read that has chosen no value yet
    ReadAt,      \* processes that clients send READ to
    WriteAt,     \* processes that clients send WRITE to
    CrashAt,     \* processes that may crash
    Faults,      \* the faults the environment may inject, see FaultKinds
    MaxOps,      \* bound: client commands sent to each process
    MaxCrashes   \* bound: crashes

\* "crash": a process stops while it has no client write in progress;
\* "crash_writing": it stops during one; "torn": it stops between the data file
\* and the metadata file of a sector; "disk": a file operation fails.
FaultKinds == {"crash", "crash_writing", "torn", "disk"}

Proc == 1..N

ASSUME NAssumption == N \in Nat \ {0}
ASSUME DataAssumption ==
    Zero \in Data /\ NoData \notin Data /\ Written \in [Proc -> SUBSET Data]
ASSUME WorkloadAssumption == ReadAt \cup WriteAt \cup CrashAt \subseteq Proc
ASSUME FaultsAssumption == Faults \subseteq FaultKinds
ASSUME BoundsAssumption == MaxOps \in [Proc -> Nat] /\ MaxCrashes \in Nat

VARIABLES
    data, meta,      \* the sector's data file and its metadata (timestamp, write rank)
    stored,          \* AtomicRegisterStorageState in stable storage
    up,              \* the process runs
    state,           \* AtomicRegisterStorageState in memory
    reading, readval, readlist, acks, callback,
    msgs,            \* system commands sent
    ops, crashes,    \* how much of MaxOps and MaxCrashes is used
    committed,       \* auxiliary: highest tag of a completed operation
    floor,           \* auxiliary: `committed' when p's operation began
    optag            \* auxiliary: the tag p's operation writes, NoTag before it is chosen

sectorVars == <<data, meta>>
registerVars == <<state, reading, readval, readlist, acks, callback>>
auxVars == <<committed, floor, optag>>
vars == <<data, meta, stored, up, state, reading, readval, readlist, acks,
          callback, msgs, ops, crashes, committed, floor, optag>>

-----------------------------------------------------------------------------
(* Tags: (timestamp, write rank), compared lexicographically. *)

Tag == Nat \X (0..N)
NoTag == <<0, 0>>
LT(a, b) == a[1] < b[1] \/ (a[1] = b[1] /\ a[2] < b[2])
LE(a, b) == a = b \/ LT(a, b)
Higher(a, b) == IF LT(a, b) THEN b ELSE a

IsMajority(S) == 2 * Cardinality(S) > N

(* System commands. A broadcast is one message that every process may handle. *)

ReadProc(p, rid) == [type |-> "ReadProc", src |-> p, rid |-> rid]
Value(q, p, rid, tag, d) ==
    [type |-> "Value", src |-> q, dst |-> p, rid |-> rid, tag |-> tag, data |-> d]
WriteProc(p, rid, tag, d) ==
    [type |-> "WriteProc", src |-> p, rid |-> rid, tag |-> tag, data |-> d]
Ack(q, p, rid) == [type |-> "Ack", src |-> q, dst |-> p, rid |-> rid]

Message ==
    [type : {"ReadProc"}, src : Proc, rid : Nat]
    \cup [type : {"Value"}, src : Proc, dst : Proc, rid : Nat, tag : Tag, data : Data]
    \cup [type : {"WriteProc"}, src : Proc, rid : Nat, tag : Tag, data : Data]
    \cup [type : {"Ack"}, src : Proc, dst : Proc, rid : Nat]

StorageState == [read_ident : Nat, writing : BOOLEAN, writeval : Data \cup {NoData}]
EmptyState == [read_ident |-> 0, writing |-> FALSE, writeval |-> NoData]

\* readlist is a HashMap from the sender of a Value to its content: a set of entries, one
\* per sender.
Entry == [src : Proc, tag : Tag, data : Data]
Insert(list, e) == {x \in list : x.src # e.src} \cup {e}
Senders(list) == {x.src : x \in list}

-----------------------------------------------------------------------------
(* The sectors manager and stable storage, as the register sees them. *)

\* Metadata is (0, 0) exactly when the sector has no metadata entry, and then the
\* data file is not looked at.
ReadData(p) == IF meta[p] = NoTag THEN Zero ELSE data[p]
ReadMetadata(p) == meta[p]

\* An error of the put is only logged.
StoreState(p, s) ==
    \/ stored' = [stored EXCEPT ![p] = s]
    \/ "disk" \in Faults /\ UNCHANGED stored

\* SectorsManager::write returns nothing: the caller cannot tell that it failed at
\* the data file or, after replacing the data file, at the metadata file.
SectorWrite(p, tag, d) ==
    \/ /\ data' = [data EXCEPT ![p] = d]
       /\ meta' = [meta EXCEPT ![p] = tag]
    \/ /\ "disk" \in Faults
       /\ data' \in {data, [data EXCEPT ![p] = d]}
       /\ UNCHANGED meta

-----------------------------------------------------------------------------
(* client_command *)

Busy(p) == reading[p] \/ state[p].writing

\* What client_command does for both commands once it has filled the new state s.
BeginOperation(p, s) ==
    /\ callback' = [callback EXCEPT ![p] = TRUE]
    /\ state' = [state EXCEPT ![p] = s]
    /\ acks' = [acks EXCEPT ![p] = {}]
    /\ readlist' = [readlist EXCEPT ![p] = {}]
    /\ StoreState(p, s)
    /\ msgs' = msgs \cup {ReadProc(p, s.read_ident)}
    /\ floor' = [floor EXCEPT ![p] = committed]
    /\ optag' = [optag EXCEPT ![p] = NoTag]

\* The executor hands over a client command only when the previous command on the
\* sector has finished (CommandsExecutor::execute_client_command).
CanBegin(p) == up[p] /\ ~Busy(p) /\ ops[p] < MaxOps[p]

ReadCommand(p) ==
    /\ CanBegin(p)
    /\ p \in ReadAt
    /\ BeginOperation(p, [state[p] EXCEPT !.read_ident = @ + 1])
    /\ reading' = [reading EXCEPT ![p] = TRUE]
    /\ readval' = [readval EXCEPT ![p] = NoData]
    /\ ops' = [ops EXCEPT ![p] = @ + 1]
    /\ UNCHANGED <<sectorVars, up, crashes, committed>>

WriteCommand(p, d) ==
    /\ CanBegin(p)
    /\ p \in WriteAt
    /\ BeginOperation(p, [read_ident |-> state[p].read_ident + 1,
                          writing |-> TRUE, writeval |-> d])
    /\ ops' = [ops EXCEPT ![p] = @ + 1]
    /\ UNCHANGED <<sectorVars, up, reading, readval, crashes, committed>>

-----------------------------------------------------------------------------
(* system_command *)

HandleReadProc(p, m) ==
    /\ up[p]
    /\ m.type = "ReadProc"
    /\ msgs' = msgs \cup {Value(p, m.src, m.rid, ReadMetadata(p), ReadData(p))}
    /\ UNCHANGED <<sectorVars, stored, up, registerVars, ops, crashes, auxVars>>

\* Mutant of IsCurrentValue: the read_ident of the Value is not compared.
IsCurrentValue_AnyPhase(p, m) == up[p] /\ m.type = "Value" /\ m.dst = p

\* A Value is looked at only when it answers the current read_ident.
IsCurrentValue(p, m) ==
    up[p] /\ m.type = "Value" /\ m.dst = p /\ m.rid = state[p].read_ident

ListWith(p, m) == Insert(readlist[p], [src |-> m.src, tag |-> m.tag, data |-> m.data])

RecordValue(p, m) ==
    /\ IsCurrentValue(p, m)
    /\ ~(Busy(p) /\ IsMajority(Senders(ListWith(p, m))))
    /\ readlist' = [readlist EXCEPT ![p] = ListWith(p, m)]
    /\ UNCHANGED <<sectorVars, stored, up, state, reading, readval, acks, callback,
                   msgs, ops, crashes, auxVars>>

\* Mutant of Highest: any entry of the list.
Highest_Any(list) == list

\* max_by_key over a HashMap: any of the entries with the highest tag.
Highest(list) == {e \in list : \A x \in list : LE(x.tag, e.tag)}

\* Mutants of WriteTag and WriteData: a write keeps the timestamp it found; a write leaves
\* out its rank; a read writes back readval before it is assigned.
WriteTag_SameTimestamp(p, e) == IF reading[p] THEN e.tag ELSE <<e.tag[1], p>>
WriteTag_NoRank(p, e) == IF reading[p] THEN e.tag ELSE <<e.tag[1] + 1, 0>>
WriteData_Unassigned(p, e) == IF reading[p] THEN readval[p] ELSE state[p].writeval

\* What is written after the quorum of values: a read writes back what it found, a
\* write puts its own value under a timestamp one higher.
WriteTag(p, e) == IF reading[p] THEN e.tag ELSE <<e.tag[1] + 1, p>>
WriteData(p, e) == IF reading[p] THEN e.data ELSE state[p].writeval

ValueQuorum(p, m) ==
    /\ IsCurrentValue(p, m)
    /\ Busy(p)
    /\ IsMajority(Senders(ListWith(p, m)))
    /\ \E e \in Highest(ListWith(p, m)) :
         LET s == [state[p] EXCEPT !.read_ident = @ + 1]
         IN  /\ readval' = [readval EXCEPT ![p] = IF reading[p] THEN e.data ELSE @]
             /\ state' = [state EXCEPT ![p] = s]
             /\ StoreState(p, s)
             /\ msgs' = msgs \cup
                  {WriteProc(p, s.read_ident, WriteTag(p, e), WriteData(p, e))}
             /\ optag' = [optag EXCEPT ![p] = WriteTag(p, e)]
    /\ readlist' = [readlist EXCEPT ![p] = {}]
    /\ acks' = [acks EXCEPT ![p] = {}]
    /\ UNCHANGED <<sectorVars, up, reading, callback, ops, crashes, committed, floor>>

\* Mutant of HandleWriteProc: a WriteProc that is not newer is dropped without an Ack.
HandleWriteProc_AckNewer(p, m) ==
    /\ up[p]
    /\ m.type = "WriteProc"
    /\ LT(ReadMetadata(p), m.tag)
    /\ SectorWrite(p, m.tag, m.data)
    /\ msgs' = msgs \cup {Ack(p, m.src, m.rid)}
    /\ UNCHANGED <<stored, up, registerVars, ops, crashes, auxVars>>

HandleWriteProc(p, m) ==
    /\ up[p]
    /\ m.type = "WriteProc"
    /\ IF LT(ReadMetadata(p), m.tag)
       THEN SectorWrite(p, m.tag, m.data)
       ELSE UNCHANGED sectorVars
    /\ msgs' = msgs \cup {Ack(p, m.src, m.rid)}
    /\ UNCHANGED <<stored, up, registerVars, ops, crashes, auxVars>>

\* Mutant of IsCurrentAck: the read_ident of the Ack is not compared.
IsCurrentAck_AnyPhase(p, m) == up[p] /\ m.type = "Ack" /\ m.dst = p

IsCurrentAck(p, m) ==
    up[p] /\ m.type = "Ack" /\ m.dst = p /\ m.rid = state[p].read_ident

RecordAck(p, m) ==
    /\ IsCurrentAck(p, m)
    /\ ~(Busy(p) /\ IsMajority(acks[p] \cup {m.src}))
    /\ acks' = [acks EXCEPT ![p] = @ \cup {m.src}]
    /\ UNCHANGED <<sectorVars, stored, up, state, reading, readval, readlist, callback,
                   msgs, ops, crashes, auxVars>>

\* The operation completes: a read returns readval, a write is no longer `writing'.
AckQuorum(p, m) ==
    /\ IsCurrentAck(p, m)
    /\ Busy(p)
    /\ IsMajority(acks[p] \cup {m.src})
    /\ acks' = [acks EXCEPT ![p] = {}]
    /\ IF reading[p]
       THEN /\ reading' = [reading EXCEPT ![p] = FALSE]
            /\ UNCHANGED <<state, stored>>
       ELSE LET s == [state[p] EXCEPT !.writing = FALSE]
            IN  state' = [state EXCEPT ![p] = s] /\ StoreState(p, s) /\ UNCHANGED reading
    /\ callback' = [callback EXCEPT ![p] = FALSE]
    /\ committed' = Higher(committed, optag[p])
    /\ UNCHANGED <<sectorVars, up, readval, readlist, msgs, ops, crashes, floor, optag>>

-----------------------------------------------------------------------------
(* Crash and restart *)

CanCrash(p) ==
    /\ up[p]
    /\ p \in CrashAt
    /\ crashes < MaxCrashes
    /\ (IF state[p].writing THEN "crash_writing" ELSE "crash") \in Faults

\* Everything that is not on disc is lost.
StopProcess(p) ==
    /\ up' = [up EXCEPT ![p] = FALSE]
    /\ crashes' = crashes + 1
    /\ state' = [state EXCEPT ![p] = EmptyState]
    /\ reading' = [reading EXCEPT ![p] = FALSE]
    /\ readval' = [readval EXCEPT ![p] = NoData]
    /\ readlist' = [readlist EXCEPT ![p] = {}]
    /\ acks' = [acks EXCEPT ![p] = {}]
    /\ callback' = [callback EXCEPT ![p] = FALSE]
    /\ optag' = [optag EXCEPT ![p] = NoTag]
    /\ UNCHANGED <<meta, stored, msgs, ops, committed, floor>>

Crash(p) == CanCrash(p) /\ StopProcess(p) /\ UNCHANGED data

\* The process stops while it handles the WriteProc m, after the data file was renamed
\* into place and before the metadata file was.
TornCrash(p, m) ==
    /\ CanCrash(p)
    /\ "torn" \in Faults
    /\ m.type = "WriteProc"
    /\ LT(ReadMetadata(p), m.tag)
    /\ data' = [data EXCEPT ![p] = m.data]
    /\ StopProcess(p)

\* AtomicRegisterImplementation::new on a state that is not `writing'.
Restart(p) ==
    /\ ~up[p]
    /\ ~stored[p].writing
    /\ up' = [up EXCEPT ![p] = TRUE]
    /\ state' = [state EXCEPT ![p] = stored[p]]
    /\ UNCHANGED <<sectorVars, stored, reading, readval, readlist, acks, callback, msgs,
                   ops, crashes, auxVars>>

\* Mutant of RestartReplay: the interrupted write goes on under its old read_ident.
RestartReplay_SameIdent(p) ==
    /\ ~up[p]
    /\ stored[p].writing
    /\ up' = [up EXCEPT ![p] = TRUE]
    /\ BeginOperation(p, stored[p])
    /\ UNCHANGED <<sectorVars, reading, readval, ops, crashes, committed>>

\* ... and on one that is: `new' returns the interrupted write as a client command, and
\* run_register_process executes it before it accepts a connection. Until client_command
\* stores its state nothing on disc changes, so the two are one action.
RestartReplay(p) ==
    /\ ~up[p]
    /\ stored[p].writing
    /\ up' = [up EXCEPT ![p] = TRUE]
    /\ BeginOperation(p, [stored[p] EXCEPT !.read_ident = @ + 1])
    /\ UNCHANGED <<sectorVars, reading, readval, ops, crashes, committed>>

-----------------------------------------------------------------------------
Init ==
    /\ data = [p \in Proc |-> Zero]
    /\ meta = [p \in Proc |-> NoTag]
    /\ stored = [p \in Proc |-> EmptyState]
    /\ up = [p \in Proc |-> TRUE]
    /\ state = [p \in Proc |-> EmptyState]
    /\ reading = [p \in Proc |-> FALSE]
    /\ readval = [p \in Proc |-> NoData]
    /\ readlist = [p \in Proc |-> {}]
    /\ acks = [p \in Proc |-> {}]
    /\ callback = [p \in Proc |-> FALSE]
    /\ msgs = {}
    /\ ops = [p \in Proc |-> 0]
    /\ crashes = 0
    /\ committed = NoTag
    /\ floor = [p \in Proc |-> NoTag]
    /\ optag = [p \in Proc |-> NoTag]

ClientCommand(p) == ReadCommand(p) \/ \E d \in Written[p] : WriteCommand(p, d)

SystemCommand(p, m) ==
    \/ HandleReadProc(p, m)
    \/ RecordValue(p, m)
    \/ ValueQuorum(p, m)
    \/ HandleWriteProc(p, m)
    \/ RecordAck(p, m)
    \/ AckQuorum(p, m)

Fault(p) ==
    \/ Crash(p)
    \/ \E m \in msgs : TornCrash(p, m)
    \/ Restart(p)
    \/ RestartReplay(p)

Next == \E p \in Proc :
            \/ ClientCommand(p)
            \/ \E m \in msgs : SystemCommand(p, m)
            \/ Fault(p)

Spec == Init /\ [][Next]_vars

\* Between processes that do not crash, a command of each type sent by q is eventually
\* handled by p: their connections last, what was sent before the first connect is replayed
\* (monitor_connections), and the worker loop never stops. The links are fair one by one,
\* so duplicates on one cannot hold up another. Nothing is said of the others: a command
\* written to the socket of a process that crashes is lost, and a crashed process need not
\* restart. Nor does a client have to send a command.
Deliver(p, q, type) == \E m \in msgs : m.src = q /\ m.type = type /\ SystemCommand(p, m)

Fairness ==
    \A p, q \in Proc \ CrashAt : \A type \in {"ReadProc", "Value", "WriteProc", "Ack"} :
        WF_vars(Deliver(p, q, type))

FairSpec == Spec /\ Fairness
-----------------------------------------------------------------------------
(* Properties *)

\* Every variable holds a value the code's types allow.
TypeOK ==
    /\ data \in [Proc -> Data] /\ meta \in [Proc -> Tag]
    /\ stored \in [Proc -> StorageState] /\ state \in [Proc -> StorageState]
    /\ up \in [Proc -> BOOLEAN]
    /\ reading \in [Proc -> BOOLEAN] /\ readval \in [Proc -> Data \cup {NoData}]
    /\ readlist \in [Proc -> SUBSET Entry]
    /\ acks \in [Proc -> SUBSET Proc] /\ callback \in [Proc -> BOOLEAN]
    /\ msgs \subseteq Message
    /\ ops \in [Proc -> Nat] /\ crashes \in 0..MaxCrashes
    /\ committed \in Tag /\ floor \in [Proc -> Tag] /\ optag \in [Proc -> Tag]

\* Real-time order, in tags: once an operation has chosen what it writes in its second
\* phase, a read has chosen a tag no lower, and a write one strictly higher, than the
\* tag of every operation that completed anywhere before it began. This is what makes a
\* read never older than a completed write and two reads never go backwards.
RealTimeOrder ==
    \A m \in msgs :
        (m.type = "WriteProc" /\ m.rid = state[m.src].read_ident /\ Busy(m.src))
            => IF reading[m.src] THEN LE(floor[m.src], m.tag) ELSE LT(floor[m.src], m.tag)

\* When the callback has told a client that its operation is complete, the discs of a
\* majority hold its tag or a higher one, and go on doing so.
CommittedAtMajority == IsMajority({p \in Proc : LE(committed, meta[p])})

\* A read_ident is broadcast at most once in a register's life, restarts included: a
\* late Value or Ack can never be counted in a phase it was not sent for.
ReadIdentFresh ==
    \A m1, m2 \in {m \in msgs : m.type \in {"ReadProc", "WriteProc"}} :
        (m1.src = m2.src /\ m1.rid = m2.rid) => m1 = m2

\* A tag stands for one content: two WriteProc with one (timestamp, rank) carry the same data.
UniqueTag ==
    \A m1, m2 \in {m \in msgs : m.type = "WriteProc"} :
        m1.tag = m2.tag => m1.data = m2.data

\* Every operation of a process that does not crash completes, whatever the others do, if
\* the processes that do not crash are a majority.
OperationCompletes ==
    IsMajority(Proc \ CrashAt) => \A p \in Proc \ CrashAt : Busy(p) ~> ~Busy(p)
=============================================================================
