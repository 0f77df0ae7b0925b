------------------------ MODULE AtomicRegisterProofs ------------------------
(***************************************************************************)
(* Proofs about AtomicRegister, for every number of processes, every       *)
(* workload and every number of crashes.                                   *)
(***************************************************************************)
EXTENDS AtomicRegister, FiniteSetTheorems, TLAPS

-----------------------------------------------------------------------------
(* Tags and majorities *)

\* (timestamp, rank) is a total order.
LEMMA TagOrder ==
    ASSUME NEW a \in Tag, NEW b \in Tag, NEW c \in Tag
    PROVE  /\ LE(a, a)
           /\ (LE(a, b) /\ LE(b, c)) => LE(a, c)
           /\ (LE(a, b) /\ LT(b, c)) => LT(a, c)
           /\ (LT(a, b) \/ LE(b, a))
           /\ LT(a, b) => LE(a, b)
  BY DEF Tag, LE, LT

\* The tag a write chooses is a tag, higher than the one it found.
LEMMA NextTag ==
    ASSUME NEW a \in Tag, NEW p \in Proc
    PROVE  <<a[1] + 1, p>> \in Tag /\ LT(a, <<a[1] + 1, p>>)
  BY NAssumption DEF Tag, LT, Proc

\* The higher of two tags is one of them and no lower than either.
LEMMA HigherTag ==
    ASSUME NEW a \in Tag, NEW b \in Tag
    PROVE  /\ Higher(a, b) \in {a, b}
           /\ LE(a, Higher(a, b)) /\ LE(b, Higher(a, b))
  BY DEF Higher, LE, LT, Tag

\* The tag of an unwritten sector, (0, 0) of read_metadata, is a tag and the lowest.
LEMMA NoTagType == NoTag \in Tag /\ \A t \in Tag : LE(NoTag, t)
  BY NAssumption DEF NoTag, Tag, LE, LT

\* There are N processes: what self_ident and processes_count say.
LEMMA ProcFinite == IsFiniteSet(Proc) /\ Cardinality(Proc) = N
  BY FS_Interval, NAssumption DEF Proc

\* A set of processes that contains a majority is one.
LEMMA MajorityMonotone ==
    ASSUME NEW P \in SUBSET Proc, NEW Q \in SUBSET Proc, P \subseteq Q, IsMajority(P)
    PROVE  IsMajority(Q)
  <1>1. IsFiniteSet(Q) /\ IsFiniteSet(P)
    BY ProcFinite, FS_Subset
  <1>2. Cardinality(P) <= Cardinality(Q)
    BY <1>1, FS_Subset
  <1>3. Cardinality(P) \in Nat /\ Cardinality(Q) \in Nat
    BY <1>1, FS_CardinalityType
  <1> QED
    BY <1>2, <1>3, NAssumption DEF IsMajority

\* Two majorities have a process in common: the counting argument the register rests on.
LEMMA MajoritiesMeet ==
    ASSUME NEW P \in SUBSET Proc, NEW Q \in SUBSET Proc, IsMajority(P), IsMajority(Q)
    PROVE  \E x \in P : x \in Q
  <1>1. IsFiniteSet(P) /\ IsFiniteSet(Q)
    BY ProcFinite, FS_Subset
  <1>2. IsFiniteSet(P \cup Q) /\ Cardinality(P \cup Q) <= N
    BY ProcFinite, FS_Subset, P \cup Q \subseteq Proc
  <1>3. Cardinality(P \cup Q) = Cardinality(P) + Cardinality(Q) - Cardinality(P \cap Q)
    BY <1>1, FS_Union
  <1>4. P \cap Q # {}
    <2> SUFFICES ASSUME P \cap Q = {} PROVE FALSE
      OBVIOUS
    <2>1. Cardinality(P \cap Q) = 0
      BY FS_EmptySet
    <2>2. Cardinality(P) \in Nat /\ Cardinality(Q) \in Nat /\ Cardinality(P \cup Q) \in Nat
      BY <1>1, <1>2, FS_CardinalityType
    <2> QED
      BY <1>2, <1>3, <2>1, <2>2, NAssumption DEF IsMajority
  <1> QED
    BY <1>4

-----------------------------------------------------------------------------
(* Type correctness *)

\* What the fields of a system command are, by its type.
LEMMA MessageFields ==
    ASSUME NEW m \in Message
    PROVE  /\ m.type \in {"ReadProc", "Value", "WriteProc", "Ack"}
           /\ m.src \in Proc /\ m.rid \in Nat
           /\ m.type \in {"Value", "Ack"} => m.dst \in Proc
           /\ m.type \in {"Value", "WriteProc"} => m.tag \in Tag /\ m.data \in Data
  BY DEF Message

\* The four constructors build system commands.
LEMMA MessageTypes ==
    ASSUME NEW p \in Proc, NEW q \in Proc, NEW rid \in Nat, NEW tag \in Tag, NEW d \in Data
    PROVE  /\ ReadProc(p, rid) \in Message /\ Value(q, p, rid, tag, d) \in Message
           /\ WriteProc(p, rid, tag, d) \in Message /\ Ack(q, p, rid) \in Message
  BY DEF ReadProc, Value, WriteProc, Ack, Message

\* A `writing' state, in memory or stored, has the value to write: the unwrap() of writeval
\* in `new' and in system_command never fails.
HasWriteval == \A p \in Proc : /\ state[p].writing => state[p].writeval \in Data
                               /\ stored[p].writing => stored[p].writeval \in Data

TypeInv == TypeOK /\ HasWriteval

\* Storing the next read_ident leaves the rest of the state as it was.
LEMMA NextIdent ==
    ASSUME NEW s \in StorageState
    PROVE  LET n == [s EXCEPT !.read_ident = @ + 1]
           IN  /\ n \in StorageState /\ n.read_ident \in Nat
               /\ n.writing = s.writing /\ n.writeval = s.writeval
  <1> DEFINE n == [s EXCEPT !.read_ident = @ + 1]
  <1>1. s.read_ident \in Nat /\ s.writing \in BOOLEAN /\ s.writeval \in Data \cup {NoData}
    BY DEF StorageState
  <1>2. n = [read_ident |-> s.read_ident + 1, writing |-> s.writing, writeval |-> s.writeval]
    BY DEF StorageState
  <1>3. s.read_ident + 1 \in Nat
    BY <1>1
  <1> HIDE DEF n
  <1>4. n \in StorageState
    BY <1>1, <1>2, <1>3 DEF StorageState
  <1> QED
    BY <1>2, <1>3, <1>4 DEF n

\* The entries of a list after a Value is recorded, and the one that is chosen.
LEMMA ListWithType ==
    ASSUME TypeInv, NEW p \in Proc, NEW m \in msgs, m.type = "Value"
    PROVE  /\ ListWith(p, m) \in SUBSET Entry
           /\ \A e \in Highest(ListWith(p, m)) :
                 e \in Entry /\ e.tag \in Tag /\ e.data \in Data
  <1>1. m.src \in Proc /\ m.tag \in Tag /\ m.data \in Data
    BY MessageFields DEF TypeInv, TypeOK
  <1>2. readlist[p] \in SUBSET Entry
    BY DEF TypeInv, TypeOK
  <1>3. ListWith(p, m) \in SUBSET Entry
    BY <1>1, <1>2 DEF ListWith, Insert, Entry
  <1> QED
    BY <1>3 DEF Highest, Entry

\* A process that starts on an empty disc is well typed.
LEMMA TypeInit == Init => TypeInv
  BY NAssumption, DataAssumption, BoundsAssumption
     DEF Init, TypeInv, TypeOK, HasWriteval, EmptyState, StorageState, NoTag, Tag, Message

\* What BeginOperation leaves well typed, for any new state s.
LEMMA BeginType ==
    ASSUME TypeInv, NEW p \in Proc, NEW s \in StorageState,
           s.writing => s.writeval \in Data, BeginOperation(p, s)
    PROVE  /\ callback' \in [Proc -> BOOLEAN] /\ state' \in [Proc -> StorageState]
           /\ acks' \in [Proc -> SUBSET Proc] /\ readlist' \in [Proc -> SUBSET Entry]
           /\ stored' \in [Proc -> StorageState] /\ msgs' \subseteq Message
           /\ floor' \in [Proc -> Tag] /\ optag' \in [Proc -> Tag]
           /\ HasWriteval'
  <1> USE DEF TypeInv, TypeOK
  <1>1. s.read_ident \in Nat
    BY DEF StorageState
  <1>2. msgs' \subseteq Message
    BY <1>1, MessageTypes, NoTagType, DataAssumption DEF BeginOperation
  <1>3. stored' \in [Proc -> StorageState]
    BY DEF BeginOperation, StoreState
  <1>4. HasWriteval'
    BY DEF BeginOperation, StoreState, HasWriteval
  <1> QED
    BY <1>2, <1>3, <1>4, NoTagType DEF BeginOperation

\* Every handler, crash and restart keeps the state well typed, and keeps the value of
\* a write in progress.
LEMMA TypeStep == TypeInv /\ [Next]_vars => TypeInv'
  <1> SUFFICES ASSUME TypeInv, [Next]_vars PROVE TypeInv'
    OBVIOUS
  <1> USE DEF TypeInv, TypeOK
  <1>1. ASSUME NEW p \in Proc, ReadCommand(p) PROVE TypeInv'
    <2> DEFINE s == [state[p] EXCEPT !.read_ident = @ + 1]
    <2>1. s \in StorageState /\ (s.writing => s.writeval \in Data)
      <3>1. state[p] \in StorageState /\ (state[p].writing => state[p].writeval \in Data)
        BY DEF HasWriteval
      <3> QED
        BY <3>1, NextIdent
    <2>2. BeginOperation(p, s)
      BY <1>1 DEF ReadCommand
    <2> HIDE DEF s
    <2> QED
      BY <1>1, <2>1, <2>2, BeginType, DataAssumption DEF ReadCommand, sectorVars
  <1>2. ASSUME NEW p \in Proc, NEW d \in Written[p], WriteCommand(p, d) PROVE TypeInv'
    <2>0. d \in Data
      BY DataAssumption
    <2> DEFINE s == [read_ident |-> state[p].read_ident + 1, writing |-> TRUE, writeval |-> d]
    <2>1. s \in StorageState /\ (s.writing => s.writeval \in Data)
      BY <2>0 DEF StorageState
    <2>2. BeginOperation(p, s)
      BY <1>2 DEF WriteCommand
    <2> HIDE DEF s
    <2> QED
      BY <1>2, <2>1, <2>2, BeginType DEF WriteCommand, sectorVars
  <1>3. ASSUME NEW p \in Proc, NEW m \in msgs, HandleReadProc(p, m) PROVE TypeInv'
    <2>1. ReadData(p) \in Data /\ ReadMetadata(p) \in Tag
      BY DataAssumption DEF ReadData, ReadMetadata
    <2>2. msgs' \subseteq Message
      <3>1. m.src \in Proc /\ m.rid \in Nat
        BY MessageFields
      <3>2. Value(p, m.src, m.rid, ReadMetadata(p), ReadData(p)) \in Message
        BY <2>1, <3>1, MessageTypes
      <3> QED
        BY <1>3, <3>2 DEF HandleReadProc
    <2> QED
      BY <1>3, <2>2 DEF HandleReadProc, HasWriteval, sectorVars, registerVars, auxVars
  <1>4. ASSUME NEW p \in Proc, NEW m \in msgs, RecordValue(p, m) PROVE TypeInv'
    BY <1>4, ListWithType DEF RecordValue, IsCurrentValue, HasWriteval, sectorVars, auxVars
  <1>5. ASSUME NEW p \in Proc, NEW m \in msgs, ValueQuorum(p, m) PROVE TypeInv'
    <2> DEFINE s == [state[p] EXCEPT !.read_ident = @ + 1]
    <2>1. PICK e \in Highest(ListWith(p, m)) :
            /\ readval' = [readval EXCEPT ![p] = IF reading[p] THEN e.data ELSE @]
            /\ state' = [state EXCEPT ![p] = s]
            /\ StoreState(p, s)
            /\ msgs' = msgs \cup
                 {WriteProc(p, s.read_ident, WriteTag(p, e), WriteData(p, e))}
            /\ optag' = [optag EXCEPT ![p] = WriteTag(p, e)]
      BY <1>5 DEF ValueQuorum
    <2>2. s \in StorageState /\ s.read_ident \in Nat /\ (s.writing => s.writeval \in Data)
      <3>1. state[p] \in StorageState /\ (state[p].writing => state[p].writeval \in Data)
        BY DEF HasWriteval
      <3> QED
        BY <3>1, NextIdent
    <2>3. e.tag \in Tag /\ e.data \in Data
      BY <1>5, ListWithType DEF ValueQuorum, IsCurrentValue
    <2>4. WriteTag(p, e) \in Tag /\ WriteData(p, e) \in Data
      BY <1>5, <2>3, NextTag DEF WriteTag, WriteData, ValueQuorum, Busy, HasWriteval
    <2>5. msgs' \subseteq Message
      BY <2>1, <2>2, <2>4, MessageTypes
    <2>6. stored' \in [Proc -> StorageState] /\ HasWriteval'
      BY <2>1, <2>2 DEF StoreState, HasWriteval
    <2> HIDE DEF s
    <2> QED
      BY <1>5, <2>1, <2>2, <2>3, <2>4, <2>5, <2>6 DEF ValueQuorum, sectorVars
  <1>6. ASSUME NEW p \in Proc, NEW m \in msgs, HandleWriteProc(p, m) PROVE TypeInv'
    <2>1. m.src \in Proc /\ m.rid \in Nat /\ m.tag \in Tag /\ m.data \in Data
      BY <1>6, MessageFields DEF HandleWriteProc
    <2>2. data' \in [Proc -> Data] /\ meta' \in [Proc -> Tag]
      BY <1>6, <2>1 DEF HandleWriteProc, SectorWrite, sectorVars
    <2>3. msgs' \subseteq Message
      BY <1>6, <2>1, MessageTypes DEF HandleWriteProc
    <2> QED
      BY <1>6, <2>2, <2>3 DEF HandleWriteProc, HasWriteval, registerVars, auxVars
  <1>7. ASSUME NEW p \in Proc, NEW m \in msgs, RecordAck(p, m) PROVE TypeInv'
    BY <1>7, MessageFields DEF RecordAck, HasWriteval, sectorVars, auxVars
  <1>8. ASSUME NEW p \in Proc, NEW m \in msgs, AckQuorum(p, m) PROVE TypeInv'
    <2>1. committed' \in Tag
      BY <1>8, HigherTag DEF AckQuorum
    <2>2. /\ state' \in [Proc -> StorageState] /\ stored' \in [Proc -> StorageState]
          /\ reading' \in [Proc -> BOOLEAN] /\ HasWriteval'
      <3>1. CASE reading[p]
        BY <1>8, <3>1 DEF AckQuorum, HasWriteval
      <3>2. CASE ~reading[p]
        <4> DEFINE s == [state[p] EXCEPT !.writing = FALSE]
        <4>1. s \in StorageState /\ ~s.writing
          BY DEF StorageState
        <4>2. state' = [state EXCEPT ![p] = s] /\ StoreState(p, s) /\ UNCHANGED reading
          BY <1>8, <3>2 DEF AckQuorum
        <4> HIDE DEF s
        <4> QED
          BY <4>1, <4>2 DEF StoreState, HasWriteval
      <3> QED
        BY <3>1, <3>2
    <2> QED
      BY <1>8, <2>1, <2>2 DEF AckQuorum, sectorVars
  <1>9. ASSUME NEW p \in Proc, NEW d \in [Proc -> Data], CanCrash(p), StopProcess(p), data' = d
        PROVE TypeInv'
    <2>1. crashes' \in 0..MaxCrashes
      BY <1>9, BoundsAssumption DEF CanCrash, StopProcess
    <2> QED
      BY <1>9, <2>1, NoTagType, DataAssumption
         DEF StopProcess, EmptyState, StorageState, HasWriteval
  <1>10. ASSUME NEW p \in Proc, Restart(p) PROVE TypeInv'
    BY <1>10 DEF Restart, HasWriteval, sectorVars, auxVars
  <1>11. ASSUME NEW p \in Proc, RestartReplay(p) PROVE TypeInv'
    <2> DEFINE s == [stored[p] EXCEPT !.read_ident = @ + 1]
    <2>1. s \in StorageState /\ (s.writing => s.writeval \in Data)
      <3>1. stored[p] \in StorageState /\ (stored[p].writing => stored[p].writeval \in Data)
        BY DEF HasWriteval
      <3> QED
        BY <3>1, NextIdent
    <2>2. BeginOperation(p, s)
      BY <1>11 DEF RestartReplay
    <2> HIDE DEF s
    <2> QED
      BY <1>11, <2>1, <2>2, BeginType DEF RestartReplay, sectorVars
  <1>12. CASE UNCHANGED vars
    BY <1>12 DEF vars, HasWriteval
  <1>13. ASSUME NEW p \in Proc, Crash(p) PROVE TypeInv'
    BY <1>9, <1>13 DEF Crash
  <1>14. ASSUME NEW p \in Proc, NEW m \in msgs, TornCrash(p, m) PROVE TypeInv'
    <2>1. [data EXCEPT ![p] = m.data] \in [Proc -> Data]
      BY <1>14, MessageFields DEF TornCrash
    <2> QED
      BY <1>9, <1>14, <2>1 DEF TornCrash
  <1> QED
    BY <1>1, <1>2, <1>3, <1>4, <1>5, <1>6, <1>7, <1>8, <1>10, <1>11, <1>12, <1>13, <1>14
       DEF Next, ClientCommand, SystemCommand, Fault

\* Every reachable state is well typed, whatever faults are injected, and a write in
\* progress always has its value.
THEOREM TypeCorrect == Spec => []TypeInv
  <1>1. Init => TypeInv
    BY TypeInit
  <1>2. TypeInv /\ [Next]_vars => TypeInv'
    BY TypeStep
  <1> QED
    BY <1>1, <1>2, PTL DEF Spec

\* The type invariant that TLC checks.
THEOREM TypesHold == Spec => []TypeOK
  BY TypeCorrect, PTL DEF TypeInv

-----------------------------------------------------------------------------
(* The order and the durability of operations *)

NoDiskError == "disk" \notin Faults

IsBroadcast(m) == m.type \in {"ReadProc", "WriteProc"}

\* m is a Value from q, or a WriteProc of p, for the current phase of p's operation.
CurrentValue(p, q, m) ==
    m.type = "Value" /\ m.src = q /\ m.dst = p /\ m.rid = state[p].read_ident
CurrentWrite(p, m) ==
    m.type = "WriteProc" /\ m.src = p /\ m.rid = state[p].read_ident /\ Busy(p)

\* Nothing was broadcast under a read_ident above the one on disc.
BroadcastsPast ==
    \A m \in msgs : IsBroadcast(m) => m.rid <= stored[m.src].read_ident

\* An answer was asked for; an Ack means that the sector took the tag or has a higher one.
AnswersFollow ==
    \A m \in msgs :
        /\ m.type = "Value" => ReadProc(m.dst, m.rid) \in msgs
        /\ m.type = "Ack" =>
             \E w \in msgs : /\ w.type = "WriteProc" /\ w.src = m.dst /\ w.rid = m.rid
                             /\ LE(w.tag, meta[m.src])

\* A running register has its read_ident on disc; a stopped one has nothing in memory.
MemoryStored ==
    \A p \in Proc :
        /\ up[p] => state[p].read_ident = stored[p].read_ident
        /\ ~up[p] => /\ ~reading[p] /\ ~state[p].writing
                     /\ readlist[p] = {} /\ acks[p] = {}

OneOperation == \A p \in Proc : ~(reading[p] /\ state[p].writing)

\* readlist and acks hold answers to the current read_ident only.
ListHeard ==
    \A p \in Proc : \A e \in readlist[p] :
        Value(e.src, p, state[p].read_ident, e.tag, e.data) \in msgs
AcksHeard ==
    \A p \in Proc : \A q \in acks[p] : Ack(q, p, state[p].read_ident) \in msgs

\* During the first phase a majority holds what was complete when the operation began, and
\* answered no less.
FloorHeld ==
    \A p \in Proc : (Busy(p) /\ ReadProc(p, state[p].read_ident) \in msgs) =>
        \E Q \in SUBSET Proc :
            /\ IsMajority(Q)
            /\ \A q \in Q :
                 /\ LE(floor[p], meta[q])
                 /\ \A m \in msgs : CurrentValue(p, q, m) => LE(floor[p], m.tag)

\* During the second phase optag is the tag that was broadcast.
TagChosen == \A p \in Proc : \A m \in msgs : CurrentWrite(p, m) => optag[p] = m.tag

SafetyInv ==
    /\ TypeInv
    /\ BroadcastsPast /\ AnswersFollow /\ ReadIdentFresh
    /\ MemoryStored /\ OneOperation /\ ListHeard /\ AcksHeard
    /\ FloorHeld /\ TagChosen
    /\ RealTimeOrder /\ CommittedAtMajority

\* The processes that hold the highest completed tag are a majority, and processes.
LEMMA HoldersType ==
    ASSUME CommittedAtMajority
    PROVE  \E Q \in SUBSET Proc : IsMajority(Q) /\ \A q \in Q : LE(committed, meta[q])
  BY DEF CommittedAtMajority

\* With nothing sent and nothing written, the inductive invariant holds.
LEMMA SafetyInit == Init => SafetyInv
  <1> SUFFICES ASSUME Init PROVE SafetyInv
    OBVIOUS
  <1>1. TypeInv
    BY TypeInit
  <1>2. CommittedAtMajority
    <2>1. {p \in Proc : LE(committed, meta[p])} = Proc
      BY DEF Init, LE
    <2> QED
      BY <2>1, ProcFinite, NAssumption DEF CommittedAtMajority, IsMajority
  <1> QED
    BY <1>1, <1>2
       DEF Init, SafetyInv, EmptyState, BroadcastsPast, AnswersFollow, ReadIdentFresh,
           MemoryStored, OneOperation, ListHeard, AcksHeard, FloorHeld, TagChosen,
           RealTimeOrder, Busy

\* A new operation starts with a read_ident nobody has seen, so no answer can be counted
\* that is not to its own ReadProc; the majority that holds `committed' now is the one
\* FloorHeld asks for.
LEMMA BeginSafety ==
    ASSUME NoDiskError, SafetyInv, TypeInv', NEW p \in Proc, NEW s \in StorageState,
           s.read_ident = stored[p].read_ident + 1, BeginOperation(p, s),
           UNCHANGED <<meta, committed>>, up' = [up EXCEPT ![p] = TRUE],
           \A q \in Proc \ {p} : reading'[q] = reading[q],
           ~(reading'[p] /\ s.writing)
    PROVE  SafetyInv'
  <1> DEFINE r == s.read_ident
  <1> USE DEF SafetyInv
  <1>1. /\ state' = [state EXCEPT ![p] = s] /\ stored' = [stored EXCEPT ![p] = s]
        /\ acks' = [acks EXCEPT ![p] = {}] /\ readlist' = [readlist EXCEPT ![p] = {}]
        /\ msgs' = msgs \cup {ReadProc(p, r)}
        /\ floor' = [floor EXCEPT ![p] = committed] /\ optag' = [optag EXCEPT ![p] = NoTag]
    BY DEF BeginOperation, StoreState, NoDiskError
  <1>2. /\ state \in [Proc -> StorageState] /\ stored \in [Proc -> StorageState]
        /\ up \in [Proc -> BOOLEAN] /\ msgs \subseteq Message
        /\ acks \in [Proc -> SUBSET Proc] /\ readlist \in [Proc -> SUBSET Entry]
        /\ floor \in [Proc -> Tag] /\ optag \in [Proc -> Tag]
    BY DEF TypeInv, TypeOK
  <1>3. r \in Nat /\ \A q \in Proc : stored[q].read_ident \in Nat
    BY <1>2 DEF StorageState
  <1>4. \A m \in msgs : IsBroadcast(m) /\ m.src = p => m.rid < r
    BY <1>2, <1>3, MessageFields DEF BroadcastsPast
  <1>5. \A m \in msgs : m.type = "Value" /\ m.dst = p => m.rid < r
    BY <1>4 DEF AnswersFollow, ReadProc, IsBroadcast
  <1>6. \A q \in Proc \ {p} : /\ state'[q] = state[q] /\ stored'[q] = stored[q]
                             /\ floor'[q] = floor[q] /\ optag'[q] = optag[q]
                             /\ acks'[q] = acks[q] /\ readlist'[q] = readlist[q]
                             /\ up'[q] = up[q] /\ reading'[q] = reading[q]
                             /\ Busy(q)' = Busy(q)
    BY <1>1, <1>2 DEF Busy
  <1>7. /\ state'[p] = s /\ stored'[p] = s /\ floor'[p] = committed /\ acks'[p] = {}
        /\ readlist'[p] = {} /\ up'[p]
    BY <1>1, <1>2
  <1> HIDE DEF SafetyInv
  <1>8. BroadcastsPast'
    BY <1>1, <1>2, <1>3, <1>4, <1>6, <1>7, MessageFields
       DEF SafetyInv, BroadcastsPast, ReadProc, IsBroadcast
  <1>9. AnswersFollow'
    <2> SUFFICES ASSUME NEW m \in msgs'
                 PROVE  /\ m.type = "Value" => ReadProc(m.dst, m.rid) \in msgs'
                        /\ m.type = "Ack" =>
                             \E w \in msgs' :
                                /\ w.type = "WriteProc" /\ w.src = m.dst /\ w.rid = m.rid
                                /\ LE(w.tag, meta'[m.src])
      BY DEF AnswersFollow
    <2>1. CASE m \in msgs
      BY <1>1, <2>1 DEF SafetyInv, AnswersFollow
    <2>2. CASE m = ReadProc(p, r)
      BY <2>2 DEF ReadProc
    <2> QED
      BY <1>1, <2>1, <2>2
  <1>10. ReadIdentFresh'
    <2>1. \A m \in msgs : IsBroadcast(m) /\ m.src = p => m.rid # r
      BY <1>2, <1>3, <1>4, MessageFields
    <2>2. ReadProc(p, r).src = p /\ ReadProc(p, r).rid = r
      BY DEF ReadProc
    <2> QED
      BY <1>1, <2>1, <2>2 DEF SafetyInv, ReadIdentFresh, IsBroadcast
  <1>11. MemoryStored' /\ OneOperation'
    BY <1>6, <1>7 DEF SafetyInv, MemoryStored, OneOperation
  <1>12. ListHeard' /\ AcksHeard'
    BY <1>1, <1>6, <1>7 DEF SafetyInv, ListHeard, AcksHeard
  <1>13. FloorHeld'
    <2> SUFFICES ASSUME NEW x \in Proc, Busy(x)', ReadProc(x, state'[x].read_ident) \in msgs'
                 PROVE  \E Q \in SUBSET Proc :
                          /\ IsMajority(Q)
                          /\ \A q \in Q :
                               /\ LE(floor'[x], meta'[q])
                               /\ \A m \in msgs' : CurrentValue(x, q, m)' => LE(floor'[x], m.tag)
      BY DEF FloorHeld
    <2>1. CASE x = p
      <3>1. PICK Q \in SUBSET Proc : IsMajority(Q) /\ \A q \in Q : LE(committed, meta[q])
        BY HoldersType DEF SafetyInv
      <3>2. \A q \in Q : \A m \in msgs' : ~CurrentValue(p, q, m)'
        BY <1>1, <1>2, <1>3, <1>5, <1>7, MessageFields DEF CurrentValue, ReadProc
      <3> QED
        BY <1>7, <2>1, <3>1, <3>2
    <2>2. CASE x # p
      <3>1. Busy(x) /\ ReadProc(x, state[x].read_ident) \in msgs
        BY <1>1, <1>6, <2>2 DEF ReadProc
      <3>2. PICK Q \in SUBSET Proc :
              /\ IsMajority(Q)
              /\ \A q \in Q :
                   /\ LE(floor[x], meta[q])
                   /\ \A m \in msgs : CurrentValue(x, q, m) => LE(floor[x], m.tag)
        BY <3>1 DEF SafetyInv, FloorHeld
      <3>3. \A q \in Q : \A m \in msgs' : CurrentValue(x, q, m)' => m \in msgs /\ CurrentValue(x, q, m)
        BY <1>1, <1>6, <2>2 DEF CurrentValue, ReadProc
      <3> QED
        BY <1>6, <2>2, <3>2, <3>3
    <2> QED
      BY <2>1, <2>2
  <1>14. \A x \in Proc : \A m \in msgs' :
            CurrentWrite(x, m)' => x # p /\ m \in msgs /\ CurrentWrite(x, m)
    BY <1>1, <1>2, <1>3, <1>4, <1>6, <1>7, MessageFields
       DEF CurrentWrite, ReadProc, IsBroadcast
  <1>15. TagChosen'
    BY <1>6, <1>14 DEF SafetyInv, TagChosen
  <1>16. RealTimeOrder'
    <2> SUFFICES ASSUME NEW m \in msgs', m.type = "WriteProc",
                        m.rid = state'[m.src].read_ident, Busy(m.src)'
                 PROVE  IF reading'[m.src] THEN LE(floor'[m.src], m.tag)
                                           ELSE LT(floor'[m.src], m.tag)
      BY DEF RealTimeOrder
    <2>1. m.src \in Proc
      BY MessageFields DEF TypeInv, TypeOK
    <2>2. CurrentWrite(m.src, m)'
      BY DEF CurrentWrite
    <2> QED
      BY <1>6, <1>14, <2>1, <2>2 DEF SafetyInv, RealTimeOrder, CurrentWrite
  <1>17. CommittedAtMajority'
    BY DEF SafetyInv, CommittedAtMajority
  <1> QED
    BY <1>8, <1>9, <1>10, <1>11, <1>12, <1>13, <1>15, <1>16, <1>17 DEF SafetyInv

\* A ReadProc is answered with what the disc holds, which is no less than what the
\* majority of FloorHeld held.
LEMMA ReadProcSafety ==
    ASSUME SafetyInv, TypeInv', NEW p \in Proc, NEW m \in msgs, HandleReadProc(p, m)
    PROVE  SafetyInv'
  <1> DEFINE v == Value(p, m.src, m.rid, ReadMetadata(p), ReadData(p))
  <1>1. /\ msgs' = msgs \cup {v} /\ m.type = "ReadProc"
        /\ UNCHANGED <<data, meta, stored, up, state, reading, readval, readlist, acks,
                       callback, ops, crashes, committed, floor, optag>>
    BY DEF HandleReadProc, sectorVars, registerVars, auxVars
  <1>2. v.type = "Value" /\ v.src = p /\ v.dst = m.src /\ v.rid = m.rid /\ v.tag = meta[p]
    BY DEF Value, ReadMetadata
  <1>3. ReadProc(m.src, m.rid) = m
    <2>1. m \in [type : {"ReadProc"}, src : Proc, rid : Nat]
      BY <1>1 DEF SafetyInv, TypeInv, TypeOK, Message
    <2> QED
      BY <2>1 DEF ReadProc
  <1>4. \A x \in Proc : Busy(x)' = Busy(x)
    BY <1>1 DEF Busy
  <1> HIDE DEF v
  <1>5. BroadcastsPast' /\ ReadIdentFresh'
    BY <1>1, <1>2 DEF SafetyInv, BroadcastsPast, ReadIdentFresh, IsBroadcast
  <1>6. AnswersFollow'
    <2>1. ReadProc(v.dst, v.rid) \in msgs
      BY <1>2, <1>3
    <2> QED
      BY <1>1, <1>2, <2>1 DEF SafetyInv, AnswersFollow
  <1>7. MemoryStored' /\ OneOperation' /\ ListHeard' /\ AcksHeard' /\ CommittedAtMajority'
    BY <1>1 DEF SafetyInv, MemoryStored, OneOperation, ListHeard, AcksHeard,
                CommittedAtMajority
  <1>8. FloorHeld'
    <2> SUFFICES ASSUME NEW x \in Proc, Busy(x), ReadProc(x, state[x].read_ident) \in msgs'
                 PROVE  \E Q \in SUBSET Proc :
                          /\ IsMajority(Q)
                          /\ \A q \in Q :
                               /\ LE(floor[x], meta[q])
                               /\ \A n \in msgs' : CurrentValue(x, q, n) => LE(floor[x], n.tag)
      BY <1>1, <1>4 DEF FloorHeld, CurrentValue
    <2>1. ReadProc(x, state[x].read_ident) \in msgs
      BY <1>1, <1>2 DEF ReadProc
    <2>2. PICK Q \in SUBSET Proc :
            /\ IsMajority(Q)
            /\ \A q \in Q :
                 /\ LE(floor[x], meta[q])
                 /\ \A n \in msgs : CurrentValue(x, q, n) => LE(floor[x], n.tag)
      BY <2>1 DEF SafetyInv, FloorHeld
    <2>3. \A q \in Q : CurrentValue(x, q, v) => LE(floor[x], v.tag)
      BY <1>2, <2>2 DEF CurrentValue
    <2> QED
      BY <1>1, <2>2, <2>3
  <1>9. TagChosen'
    BY <1>1, <1>2, <1>4 DEF SafetyInv, TagChosen, CurrentWrite
  <1>10. RealTimeOrder'
    <2>1. \A n \in msgs : n.src \in Proc
      BY MessageFields DEF SafetyInv, TypeInv, TypeOK
    <2> QED
      BY <1>1, <1>2, <1>4, <2>1 DEF SafetyInv, RealTimeOrder
  <1> QED
    BY <1>5, <1>6, <1>7, <1>8, <1>9, <1>10 DEF SafetyInv

\* Recording an answer changes only readlist or acks, and the answer is a sent message.
LEMMA RecordSafety ==
    ASSUME SafetyInv, TypeInv', NEW p \in Proc, NEW m \in msgs,
           RecordValue(p, m) \/ RecordAck(p, m)
    PROVE  SafetyInv'
  <1>1. UNCHANGED <<data, meta, stored, up, state, reading, readval, callback, msgs, ops,
                    crashes, committed, floor, optag>>
    BY DEF RecordValue, RecordAck, sectorVars, auxVars
  <1>2. \A x \in Proc : Busy(x)' = Busy(x)
    BY <1>1 DEF Busy
  <1>3. readlist \in [Proc -> SUBSET Entry] /\ acks \in [Proc -> SUBSET Proc]
    BY DEF SafetyInv, TypeInv, TypeOK
  <1>4. up[p]
    BY DEF RecordValue, RecordAck, IsCurrentValue, IsCurrentAck
  <1>5. MemoryStored'
    BY <1>1, <1>3, <1>4 DEF SafetyInv, MemoryStored, RecordValue, RecordAck
  <1>6. ListHeard' /\ AcksHeard'
    <2>1. CASE RecordValue(p, m)
      <3>1. m = Value(m.src, p, state[p].read_ident, m.tag, m.data)
        <4>1. m \in [type : {"Value"}, src : Proc, dst : Proc, rid : Nat, tag : Tag, data : Data]
          BY <2>1 DEF RecordValue, IsCurrentValue, SafetyInv, TypeInv, TypeOK, Message
        <4> QED
          BY <2>1, <4>1 DEF RecordValue, IsCurrentValue, Value
      <3>2. \A e \in ListWith(p, m) : Value(e.src, p, state[p].read_ident, e.tag, e.data) \in msgs
        BY <3>1 DEF ListWith, Insert, SafetyInv, ListHeard
      <3> QED
        BY <1>1, <1>3, <2>1, <3>2 DEF RecordValue, SafetyInv, ListHeard, AcksHeard
    <2>2. CASE RecordAck(p, m)
      <3>1. m = Ack(m.src, p, state[p].read_ident)
        <4>1. m \in [type : {"Ack"}, src : Proc, dst : Proc, rid : Nat]
          BY <2>2 DEF RecordAck, IsCurrentAck, SafetyInv, TypeInv, TypeOK, Message
        <4> QED
          BY <2>2, <4>1 DEF RecordAck, IsCurrentAck, Ack
      <3> QED
        BY <1>1, <1>3, <2>2, <3>1 DEF RecordAck, SafetyInv, ListHeard, AcksHeard
    <2> QED
      BY <2>1, <2>2
  <1>7. BroadcastsPast' /\ ReadIdentFresh' /\ AnswersFollow' /\ OneOperation'
        /\ CommittedAtMajority'
    BY <1>1 DEF SafetyInv, BroadcastsPast, ReadIdentFresh, AnswersFollow, OneOperation,
                CommittedAtMajority
  <1>8. FloorHeld'
    BY <1>1, <1>2 DEF SafetyInv, FloorHeld, CurrentValue
  <1>9. TagChosen'
    BY <1>1, <1>2 DEF SafetyInv, TagChosen, CurrentWrite
  <1>10. RealTimeOrder'
    <2>1. \A n \in msgs : n.src \in Proc
      BY MessageFields DEF SafetyInv, TypeInv, TypeOK
    <2> QED
      BY <1>1, <1>2, <2>1 DEF SafetyInv, RealTimeOrder
  <1> QED
    BY <1>5, <1>6, <1>7, <1>8, <1>9, <1>10 DEF SafetyInv

\* The quorum of values meets the majority that held `floor': the highest tag heard is no
\* lower, and what is broadcast in the second phase is ordered after every operation
\* completed before this one began.
LEMMA ChosenTag ==
    ASSUME SafetyInv, NEW p \in Proc, NEW m \in msgs, ValueQuorum(p, m),
           NEW e \in Highest(ListWith(p, m))
    PROVE  /\ WriteTag(p, e) \in Tag /\ LE(floor[p], e.tag)
           /\ IF reading[p] THEN LE(floor[p], WriteTag(p, e)) ELSE LT(floor[p], WriteTag(p, e))
  <1> DEFINE L == ListWith(p, m)
  <1>1. m \in [type : {"Value"}, src : Proc, dst : Proc, rid : Nat, tag : Tag, data : Data]
    BY DEF ValueQuorum, IsCurrentValue, SafetyInv, TypeInv, TypeOK, Message
  <1>2. m.dst = p /\ m.rid = state[p].read_ident /\ Busy(p) /\ IsMajority(Senders(L))
    BY DEF ValueQuorum, IsCurrentValue
  <1>3. m = Value(m.src, p, state[p].read_ident, m.tag, m.data)
    BY <1>1, <1>2 DEF Value
  <1>4. L \in SUBSET Entry /\ e \in L /\ e.tag \in Tag
    BY <1>1, ListWithType DEF SafetyInv, Highest
  <1>5. \A x \in L : Value(x.src, p, state[p].read_ident, x.tag, x.data) \in msgs
    BY <1>3 DEF ListWith, Insert, SafetyInv, ListHeard
  <1>6. Senders(L) \in SUBSET Proc
    BY <1>4 DEF Senders, Entry
  <1>7. ReadProc(p, state[p].read_ident) \in msgs
    BY <1>1, <1>2 DEF SafetyInv, AnswersFollow
  <1>8. PICK Q \in SUBSET Proc :
          /\ IsMajority(Q)
          /\ \A q \in Q : \A n \in msgs : CurrentValue(p, q, n) => LE(floor[p], n.tag)
    BY <1>2, <1>7 DEF SafetyInv, FloorHeld
  <1>9. PICK x \in L : x.src \in Q
    BY <1>2, <1>6, <1>8, MajoritiesMeet DEF Senders
  <1>10. LE(floor[p], x.tag)
    <2>1. CurrentValue(p, x.src, Value(x.src, p, state[p].read_ident, x.tag, x.data))
      BY DEF CurrentValue, Value
    <2>2. Value(x.src, p, state[p].read_ident, x.tag, x.data).tag = x.tag
      BY DEF Value
    <2> QED
      BY <1>5, <1>8, <1>9, <2>1, <2>2
  <1>11. LE(x.tag, e.tag) /\ x.tag \in Tag /\ floor[p] \in Tag
    BY <1>4 DEF Highest, Entry, SafetyInv, TypeInv, TypeOK
  <1>12. LE(floor[p], e.tag)
    BY <1>4, <1>10, <1>11, TagOrder
  <1> QED
    BY <1>4, <1>11, <1>12, NextTag, TagOrder DEF WriteTag

\* The Value that completes a quorum: the tag is chosen, the answers are dropped, and the
\* WriteProc of the second phase is broadcast.
LEMMA ValueQuorumSafety ==
    ASSUME NoDiskError, SafetyInv, TypeInv', NEW p \in Proc, NEW m \in msgs,
           ValueQuorum(p, m)
    PROVE  SafetyInv'
  <1> DEFINE s == [state[p] EXCEPT !.read_ident = @ + 1]
             r == s.read_ident
  <1>1. PICK e \in Highest(ListWith(p, m)) :
          /\ state' = [state EXCEPT ![p] = s]
          /\ StoreState(p, s)
          /\ msgs' = msgs \cup {WriteProc(p, r, WriteTag(p, e), WriteData(p, e))}
          /\ optag' = [optag EXCEPT ![p] = WriteTag(p, e)]
    BY DEF ValueQuorum
  <1> DEFINE w == WriteProc(p, r, WriteTag(p, e), WriteData(p, e))
  <1>2. w.type = "WriteProc" /\ w.src = p /\ w.rid = r /\ w.tag = WriteTag(p, e)
    BY DEF WriteProc
  <1>3. /\ stored' = [stored EXCEPT ![p] = s] /\ msgs' = msgs \cup {w}
        /\ readlist' = [readlist EXCEPT ![p] = {}] /\ acks' = [acks EXCEPT ![p] = {}]
        /\ UNCHANGED <<data, meta, up, reading, committed, floor>>
        /\ up[p] /\ Busy(p)
    BY <1>1 DEF ValueQuorum, IsCurrentValue, StoreState, NoDiskError, sectorVars
  <1>4. /\ state \in [Proc -> StorageState] /\ stored \in [Proc -> StorageState]
        /\ up \in [Proc -> BOOLEAN] /\ msgs \subseteq Message
        /\ acks \in [Proc -> SUBSET Proc] /\ readlist \in [Proc -> SUBSET Entry]
        /\ optag \in [Proc -> Tag]
    BY DEF SafetyInv, TypeInv, TypeOK
  <1>5. /\ r \in Nat /\ s.writing = state[p].writing /\ r = stored[p].read_ident + 1
        /\ \A q \in Proc : stored[q].read_ident \in Nat
    BY <1>3, <1>4 DEF StorageState, SafetyInv, MemoryStored
  <1>6. \A n \in msgs : IsBroadcast(n) /\ n.src = p => n.rid # r
    BY <1>4, <1>5, MessageFields DEF SafetyInv, BroadcastsPast
  <1> HIDE DEF s, w
  <1>7. \A q \in Proc \ {p} : /\ state'[q] = state[q] /\ stored'[q] = stored[q]
                             /\ optag'[q] = optag[q]
                             /\ acks'[q] = acks[q] /\ readlist'[q] = readlist[q]
    BY <1>1, <1>3, <1>4
  <1>8. /\ state'[p] = s /\ stored'[p] = s /\ acks'[p] = {} /\ readlist'[p] = {}
        /\ optag'[p] = WriteTag(p, e)
    BY <1>1, <1>3, <1>4
  <1>9. \A q \in Proc : Busy(q)' = Busy(q)
    BY <1>3, <1>5, <1>7, <1>8 DEF Busy
  <1>10. BroadcastsPast'
    <2> SUFFICES ASSUME NEW n \in msgs', IsBroadcast(n)
                 PROVE  n.rid <= stored'[n.src].read_ident
      BY DEF BroadcastsPast
    <2>1. CASE n = w
      BY <1>2, <1>5, <1>8, <2>1
    <2>2. CASE n \in msgs
      <3>1. n.rid \in Nat /\ n.src \in Proc /\ n.rid <= stored[n.src].read_ident
        BY <1>4, <2>2, MessageFields DEF SafetyInv, BroadcastsPast
      <3> QED
        BY <1>5, <1>7, <1>8, <3>1
    <2> QED
      BY <1>3, <2>1, <2>2
  <1>11. ReadIdentFresh'
    BY <1>2, <1>3, <1>6 DEF SafetyInv, ReadIdentFresh, IsBroadcast
  <1>12. AnswersFollow'
    <2> SUFFICES ASSUME NEW n \in msgs'
                 PROVE  /\ n.type = "Value" => ReadProc(n.dst, n.rid) \in msgs'
                        /\ n.type = "Ack" =>
                             \E x \in msgs' :
                                /\ x.type = "WriteProc" /\ x.src = n.dst /\ x.rid = n.rid
                                /\ LE(x.tag, meta'[n.src])
      BY DEF AnswersFollow
    <2>1. CASE n \in msgs
      BY <1>3, <2>1 DEF SafetyInv, AnswersFollow
    <2>2. CASE n = w
      BY <1>2, <2>2
    <2> QED
      BY <1>3, <2>1, <2>2
  <1>13. MemoryStored' /\ OneOperation'
    BY <1>3, <1>5, <1>7, <1>8 DEF SafetyInv, MemoryStored, OneOperation
  <1>14. ListHeard' /\ AcksHeard'
    BY <1>3, <1>7, <1>8 DEF SafetyInv, ListHeard, AcksHeard
  <1>15. FloorHeld'
    <2> SUFFICES ASSUME NEW x \in Proc, Busy(x), ReadProc(x, state'[x].read_ident) \in msgs'
                 PROVE  \E Q \in SUBSET Proc :
                          /\ IsMajority(Q)
                          /\ \A q \in Q :
                               /\ LE(floor[x], meta[q])
                               /\ \A n \in msgs' : CurrentValue(x, q, n)' => LE(floor[x], n.tag)
      BY <1>3, <1>9 DEF FloorHeld
    <2>1. ReadProc(x, state'[x].read_ident) \in msgs
      BY <1>2, <1>3 DEF ReadProc
    <2>2. x # p
      BY <1>6, <1>8, <2>1 DEF ReadProc, IsBroadcast
    <2>3. PICK Q \in SUBSET Proc :
            /\ IsMajority(Q)
            /\ \A q \in Q :
                 /\ LE(floor[x], meta[q])
                 /\ \A n \in msgs : CurrentValue(x, q, n) => LE(floor[x], n.tag)
      BY <1>7, <2>1, <2>2 DEF SafetyInv, FloorHeld
    <2>4. \A q \in Q : \A n \in msgs' : CurrentValue(x, q, n)' => n \in msgs /\ CurrentValue(x, q, n)
      BY <1>2, <1>3, <1>7, <2>2 DEF CurrentValue
    <2> QED
      BY <2>3, <2>4
  <1>16. \A x \in Proc : \A n \in msgs' : CurrentWrite(x, n)' =>
            \/ x = p /\ n = w
            \/ x # p /\ n \in msgs /\ CurrentWrite(x, n)
    BY <1>2, <1>3, <1>6, <1>7, <1>8, <1>9 DEF CurrentWrite, IsBroadcast
  <1>17. TagChosen'
    BY <1>2, <1>7, <1>8, <1>16 DEF SafetyInv, TagChosen
  <1>18. RealTimeOrder'
    <2> SUFFICES ASSUME NEW n \in msgs', n.type = "WriteProc",
                        n.rid = state'[n.src].read_ident, Busy(n.src)'
                 PROVE  IF reading[n.src] THEN LE(floor[n.src], n.tag)
                                          ELSE LT(floor[n.src], n.tag)
      BY <1>3 DEF RealTimeOrder
    <2>1. n.src \in Proc /\ CurrentWrite(n.src, n)'
      BY MessageFields DEF TypeInv, TypeOK, CurrentWrite
    <2>2. CASE n = w
      BY <1>2, <2>2, ChosenTag
    <2>3. CASE n \in msgs /\ CurrentWrite(n.src, n)
      BY <2>3 DEF SafetyInv, RealTimeOrder, CurrentWrite
    <2> QED
      BY <1>16, <2>1, <2>2, <2>3
  <1>19. CommittedAtMajority'
    BY <1>3 DEF SafetyInv, CommittedAtMajority
  <1> QED
    BY <1>10, <1>11, <1>12, <1>13, <1>14, <1>15, <1>17, <1>18, <1>19 DEF SafetyInv

\* A WriteProc never lowers a sector's tag, and leaves it at least at the tag it carries.
LEMMA SectorTagGrows ==
    ASSUME TypeInv, NEW p \in Proc, NEW m \in msgs, HandleWriteProc(p, m)
    PROVE  /\ \A q \in Proc : LE(meta[q], meta'[q])
           /\ NoDiskError => LE(m.tag, meta'[p])
  <1>1. m.tag \in Tag /\ meta \in [Proc -> Tag]
    BY MessageFields DEF HandleWriteProc, TypeInv, TypeOK
  <1>2. \A q \in Proc : LE(meta[q], meta[q])
    BY <1>1, TagOrder
  <1>3. CASE LT(meta[p], m.tag)
    <2>1. /\ meta' \in {meta, [meta EXCEPT ![p] = m.tag]}
          /\ NoDiskError => meta' = [meta EXCEPT ![p] = m.tag]
      BY <1>3 DEF HandleWriteProc, SectorWrite, ReadMetadata, NoDiskError
    <2> QED
      BY <1>1, <1>2, <1>3, <2>1, TagOrder
  <1>4. CASE ~LT(meta[p], m.tag)
    <2>1. meta' = meta
      BY <1>4 DEF HandleWriteProc, ReadMetadata, sectorVars
    <2> QED
      BY <1>1, <1>2, <1>4, <2>1, TagOrder
  <1> QED
    BY <1>3, <1>4

\* A WriteProc is acknowledged after the sector is at its tag or a higher one.
LEMMA WriteProcSafety ==
    ASSUME NoDiskError, SafetyInv, TypeInv', NEW p \in Proc, NEW m \in msgs,
           HandleWriteProc(p, m)
    PROVE  SafetyInv'
  <1> DEFINE a == Ack(p, m.src, m.rid)
  <1>1. /\ msgs' = msgs \cup {a} /\ m.type = "WriteProc"
        /\ UNCHANGED <<stored, up, state, reading, readlist, acks, committed, floor, optag>>
    BY DEF HandleWriteProc, registerVars, auxVars
  <1>2. a.type = "Ack" /\ a.src = p /\ a.dst = m.src /\ a.rid = m.rid
    BY DEF Ack
  <1>3. /\ \A q \in Proc : LE(meta[q], meta'[q])
        /\ LE(m.tag, meta'[p])
    BY SectorTagGrows DEF SafetyInv
  <1>4. /\ meta \in [Proc -> Tag] /\ meta' \in [Proc -> Tag] /\ msgs \subseteq Message
        /\ floor \in [Proc -> Tag] /\ committed \in Tag
    BY DEF SafetyInv, TypeInv, TypeOK
  <1>5. \A q \in Proc : \A t \in Tag : LE(t, meta[q]) => LE(t, meta'[q])
    BY <1>3, <1>4, TagOrder
  <1>6. \A x \in Proc : Busy(x)' = Busy(x)
    BY <1>1 DEF Busy
  <1> HIDE DEF a
  <1>7. BroadcastsPast' /\ ReadIdentFresh'
    BY <1>1, <1>2 DEF SafetyInv, BroadcastsPast, ReadIdentFresh, IsBroadcast
  <1>8. AnswersFollow'
    <2> SUFFICES ASSUME NEW n \in msgs'
                 PROVE  /\ n.type = "Value" => ReadProc(n.dst, n.rid) \in msgs'
                        /\ n.type = "Ack" =>
                             \E w \in msgs' :
                                /\ w.type = "WriteProc" /\ w.src = n.dst /\ w.rid = n.rid
                                /\ LE(w.tag, meta'[n.src])
      BY DEF AnswersFollow
    <2>1. CASE n = a
      BY <1>1, <1>2, <1>3, <2>1
    <2>2. CASE n \in msgs /\ n.type = "Value"
      BY <1>1, <2>2 DEF SafetyInv, AnswersFollow
    <2>3. CASE n \in msgs /\ n.type = "Ack"
      <3>1. PICK w \in msgs : /\ w.type = "WriteProc" /\ w.src = n.dst /\ w.rid = n.rid
                              /\ LE(w.tag, meta[n.src])
        BY <2>3 DEF SafetyInv, AnswersFollow
      <3>2. w.tag \in Tag /\ n.src \in Proc
        BY <1>4, <2>3, <3>1, MessageFields
      <3> QED
        BY <1>1, <1>5, <2>3, <3>1, <3>2
    <2> QED
      BY <1>1, <2>1, <2>2, <2>3
  <1>9. MemoryStored' /\ OneOperation' /\ ListHeard' /\ AcksHeard'
    BY <1>1 DEF SafetyInv, MemoryStored, OneOperation, ListHeard, AcksHeard
  <1>10. FloorHeld'
    <2> SUFFICES ASSUME NEW x \in Proc, Busy(x), ReadProc(x, state[x].read_ident) \in msgs'
                 PROVE  \E Q \in SUBSET Proc :
                          /\ IsMajority(Q)
                          /\ \A q \in Q :
                               /\ LE(floor[x], meta'[q])
                               /\ \A n \in msgs' : CurrentValue(x, q, n) => LE(floor[x], n.tag)
      BY <1>1, <1>6 DEF FloorHeld, CurrentValue
    <2>1. ReadProc(x, state[x].read_ident) \in msgs
      BY <1>1, <1>2 DEF ReadProc
    <2>2. PICK Q \in SUBSET Proc :
            /\ IsMajority(Q)
            /\ \A q \in Q :
                 /\ LE(floor[x], meta[q])
                 /\ \A n \in msgs : CurrentValue(x, q, n) => LE(floor[x], n.tag)
      BY <2>1 DEF SafetyInv, FloorHeld
    <2>3. \A q \in Q : ~CurrentValue(x, q, a)
      BY <1>2 DEF CurrentValue
    <2> QED
      BY <1>1, <1>4, <1>5, <2>2, <2>3
  <1>11. TagChosen'
    BY <1>1, <1>2, <1>6 DEF SafetyInv, TagChosen, CurrentWrite
  <1>12. RealTimeOrder'
    <2>1. \A n \in msgs : n.src \in Proc
      BY <1>4, MessageFields
    <2> QED
      BY <1>1, <1>2, <1>6, <2>1 DEF SafetyInv, RealTimeOrder
  <1>13. CommittedAtMajority'
    <2>1. PICK Q \in SUBSET Proc : IsMajority(Q) /\ \A q \in Q : LE(committed, meta[q])
      BY HoldersType DEF SafetyInv
    <2>2. \A q \in Q : LE(committed, meta'[q])
      BY <1>4, <1>5, <2>1
    <2>3. Q \subseteq {q \in Proc : LE(committed', meta'[q])}
      BY <1>1, <2>2
    <2> QED
      BY <2>1, <2>3, MajorityMonotone DEF CommittedAtMajority
  <1> QED
    BY <1>7, <1>8, <1>9, <1>10, <1>11, <1>12, <1>13 DEF SafetyInv

\* The operation completes: the Acks of its second phase come from a majority whose
\* sectors hold its tag.
LEMMA AckQuorumSafety ==
    ASSUME NoDiskError, SafetyInv, TypeInv', NEW p \in Proc, NEW m \in msgs, AckQuorum(p, m)
    PROVE  SafetyInv'
  <1>1. /\ m.type = "Ack" /\ m.dst = p /\ m.rid = state[p].read_ident /\ up[p] /\ Busy(p)
        /\ acks' = [acks EXCEPT ![p] = {}] /\ committed' = Higher(committed, optag[p])
        /\ IsMajority(acks[p] \cup {m.src})
        /\ UNCHANGED <<data, meta, up, readlist, msgs, floor, optag>>
    BY DEF AckQuorum, IsCurrentAck, sectorVars
  <1>2. /\ state \in [Proc -> StorageState] /\ stored \in [Proc -> StorageState]
        /\ reading \in [Proc -> BOOLEAN] /\ meta \in [Proc -> Tag] /\ committed \in Tag
        /\ acks \in [Proc -> SUBSET Proc] /\ optag \in [Proc -> Tag] /\ msgs \subseteq Message
    BY DEF SafetyInv, TypeInv, TypeOK
  <1>3. /\ \A q \in Proc : /\ state'[q].read_ident = state[q].read_ident
                           /\ stored'[q].read_ident = stored[q].read_ident
        /\ \A q \in Proc \ {p} : state'[q] = state[q] /\ reading'[q] = reading[q]
        /\ ~reading'[p] /\ ~state'[p].writing
    <2>1. CASE reading[p]
      BY <1>2, <2>1 DEF AckQuorum, SafetyInv, OneOperation
    <2>2. CASE ~reading[p]
      <3> DEFINE s == [state[p] EXCEPT !.writing = FALSE]
      <3>1. s.read_ident = state[p].read_ident /\ ~s.writing
        BY <1>2 DEF StorageState
      <3>2. state' = [state EXCEPT ![p] = s] /\ stored' = [stored EXCEPT ![p] = s] /\ reading' = reading
        BY <2>2 DEF AckQuorum, StoreState, NoDiskError
      <3>3. state[p].read_ident = stored[p].read_ident
        BY <1>1 DEF SafetyInv, MemoryStored
      <3> HIDE DEF s
      <3> QED
        BY <1>2, <2>2, <3>1, <3>2, <3>3
    <2> QED
      BY <2>1, <2>2
  <1>4. \A x \in Proc : Busy(x)' => x # p /\ Busy(x)
    BY <1>3 DEF Busy
  <1>5. BroadcastsPast' /\ ReadIdentFresh' /\ AnswersFollow'
    <2>1. \A n \in msgs : n.src \in Proc
      BY <1>2, MessageFields
    <2>2. BroadcastsPast'
      BY <1>1, <1>3, <2>1 DEF SafetyInv, BroadcastsPast
    <2> QED
      BY <1>1, <2>2 DEF SafetyInv, ReadIdentFresh, AnswersFollow
  <1>6. MemoryStored' /\ OneOperation'
    BY <1>1, <1>2, <1>3 DEF SafetyInv, MemoryStored, OneOperation
  <1>7. ListHeard' /\ AcksHeard'
    BY <1>1, <1>2, <1>3 DEF SafetyInv, ListHeard, AcksHeard
  <1>8. FloorHeld'
    <2>1. \A x \in Proc : \A q \in Proc : \A n \in msgs :
             CurrentValue(x, q, n)' <=> CurrentValue(x, q, n)
      BY <1>3 DEF CurrentValue
    <2> QED
      BY <1>1, <1>3, <1>4, <2>1 DEF SafetyInv, FloorHeld
  <1>9. \A x \in Proc : \A n \in msgs : CurrentWrite(x, n)' => x # p /\ CurrentWrite(x, n)
    BY <1>3, <1>4 DEF CurrentWrite
  <1>10. TagChosen'
    BY <1>1, <1>9 DEF SafetyInv, TagChosen
  <1>11. RealTimeOrder'
    <2>1. \A n \in msgs : n.src \in Proc
      BY <1>2, MessageFields
    <2> QED
      BY <1>1, <1>3, <1>4, <2>1 DEF SafetyInv, RealTimeOrder
  <1>12. \A q \in acks[p] \cup {m.src} : q \in Proc /\ LE(optag[p], meta[q])
    <2> SUFFICES ASSUME NEW q \in acks[p] \cup {m.src}
                 PROVE  q \in Proc /\ LE(optag[p], meta[q])
      OBVIOUS
    <2>1. PICK n \in msgs : n.type = "Ack" /\ n.src = q /\ n.dst = p /\ n.rid = state[p].read_ident
      <3>1. CASE q = m.src
        BY <1>1, <3>1
      <3>2. CASE q \in acks[p]
        BY <3>2 DEF SafetyInv, AcksHeard, Ack
      <3> QED
        BY <3>1, <3>2
    <2>2. PICK w \in msgs : /\ w.type = "WriteProc" /\ w.src = p /\ w.rid = state[p].read_ident
                            /\ LE(w.tag, meta[q])
      BY <2>1 DEF SafetyInv, AnswersFollow
    <2>3. optag[p] = w.tag
      BY <1>1, <2>2 DEF SafetyInv, TagChosen, CurrentWrite
    <2> QED
      BY <1>2, <2>1, <2>2, <2>3, MessageFields
  <1>13. CommittedAtMajority'
    <2>1. CASE committed' = committed
      BY <1>1, <2>1 DEF SafetyInv, CommittedAtMajority
    <2>2. CASE committed' = optag[p]
      <3>1. acks[p] \cup {m.src} \in SUBSET Proc
        BY <1>12
      <3>2. acks[p] \cup {m.src} \subseteq {q \in Proc : LE(committed', meta'[q])}
        BY <1>1, <1>12, <2>2
      <3> QED
        BY <1>1, <3>1, <3>2, MajorityMonotone DEF CommittedAtMajority
    <2> QED
      BY <1>1, <1>2, <2>1, <2>2, HigherTag
  <1> QED
    BY <1>5, <1>6, <1>7, <1>8, <1>10, <1>11, <1>13 DEF SafetyInv

\* A process that stops, in the middle of a sector write or not, or that restarts without
\* a write to replay, is not busy afterwards and has heard nothing.
LEMMA IdleSafety ==
    ASSUME SafetyInv, TypeInv', NEW p \in Proc,
           UNCHANGED <<meta, stored, msgs, committed, floor>>,
           ~Busy(p)', readlist'[p] = {}, acks'[p] = {},
           up'[p] => state'[p].read_ident = stored[p].read_ident,
           \A q \in Proc \ {p} :
              /\ state'[q] = state[q] /\ reading'[q] = reading[q] /\ up'[q] = up[q]
              /\ readlist'[q] = readlist[q] /\ acks'[q] = acks[q] /\ optag'[q] = optag[q]
    PROVE  SafetyInv'
  <1>1. \A n \in msgs : n.src \in Proc
    BY MessageFields DEF SafetyInv, TypeInv, TypeOK
  <1>2. \A x \in Proc : Busy(x)' => x # p /\ Busy(x)
    BY DEF Busy
  <1>3. BroadcastsPast' /\ ReadIdentFresh' /\ AnswersFollow' /\ CommittedAtMajority'
    BY DEF SafetyInv, BroadcastsPast, ReadIdentFresh, AnswersFollow, CommittedAtMajority
  <1>4. MemoryStored' /\ OneOperation'
    BY DEF SafetyInv, MemoryStored, OneOperation, Busy
  <1>5. ListHeard' /\ AcksHeard'
    BY DEF SafetyInv, ListHeard, AcksHeard
  <1>6. FloorHeld'
    <2>1. \A x \in Proc \ {p} : \A q \in Proc : \A n \in msgs :
             CurrentValue(x, q, n)' <=> CurrentValue(x, q, n)
      BY DEF CurrentValue
    <2> QED
      BY <1>2, <2>1 DEF SafetyInv, FloorHeld
  <1>7. TagChosen'
    BY <1>2 DEF SafetyInv, TagChosen, CurrentWrite
  <1>8. RealTimeOrder'
    BY <1>1, <1>2 DEF SafetyInv, RealTimeOrder
  <1> QED
    BY <1>3, <1>4, <1>5, <1>6, <1>7, <1>8 DEF SafetyInv

\* A crash, between the two files of a sector too, leaves the discs no lower than they were.
LEMMA StopSafety ==
    ASSUME SafetyInv, TypeInv', NEW p \in Proc, StopProcess(p)
    PROVE  SafetyInv'
  <1>1. /\ state \in [Proc -> StorageState] /\ reading \in [Proc -> BOOLEAN]
        /\ up \in [Proc -> BOOLEAN] /\ readlist \in [Proc -> SUBSET Entry]
        /\ acks \in [Proc -> SUBSET Proc] /\ optag \in [Proc -> Tag]
    BY DEF SafetyInv, TypeInv, TypeOK
  <1>2. ~Busy(p)' /\ ~up'[p] /\ readlist'[p] = {} /\ acks'[p] = {}
    BY <1>1 DEF StopProcess, Busy, EmptyState
  <1>3. \A q \in Proc \ {p} :
           /\ state'[q] = state[q] /\ reading'[q] = reading[q] /\ up'[q] = up[q]
           /\ readlist'[q] = readlist[q] /\ acks'[q] = acks[q] /\ optag'[q] = optag[q]
    BY <1>1 DEF StopProcess
  <1>4. UNCHANGED <<meta, stored, msgs, committed, floor>>
    BY DEF StopProcess
  <1> QED
    BY <1>2, <1>3, <1>4, IdleSafety

\* A process that restarts takes its state from the disc and has nothing to replay.
LEMMA RestartSafety ==
    ASSUME SafetyInv, TypeInv', NEW p \in Proc, Restart(p)
    PROVE  SafetyInv'
  <1>1. state \in [Proc -> StorageState] /\ up \in [Proc -> BOOLEAN]
    BY DEF SafetyInv, TypeInv, TypeOK
  <1>2. /\ ~Busy(p)' /\ readlist'[p] = {} /\ acks'[p] = {}
        /\ state'[p].read_ident = stored[p].read_ident
    BY <1>1 DEF Restart, Busy, SafetyInv, MemoryStored
  <1>3. \A q \in Proc \ {p} :
           /\ state'[q] = state[q] /\ reading'[q] = reading[q] /\ up'[q] = up[q]
           /\ readlist'[q] = readlist[q] /\ acks'[q] = acks[q] /\ optag'[q] = optag[q]
    BY <1>1 DEF Restart, auxVars
  <1>4. UNCHANGED <<meta, stored, msgs, committed, floor>>
    BY DEF Restart, sectorVars, auxVars
  <1> QED
    BY <1>2, <1>3, <1>4, IdleSafety

\* Every handler, crash and restart preserves the inductive invariant.
LEMMA SafetyStep ==
    ASSUME NoDiskError, SafetyInv, [Next]_vars
    PROVE  SafetyInv'
  <1>0. TypeInv'
    BY TypeStep DEF SafetyInv
  <1>1. ASSUME NEW p \in Proc, ReadCommand(p) PROVE SafetyInv'
    <2> DEFINE s == [state[p] EXCEPT !.read_ident = @ + 1]
    <2>1. /\ state \in [Proc -> StorageState] /\ reading \in [Proc -> BOOLEAN]
          /\ up \in [Proc -> BOOLEAN]
      BY DEF SafetyInv, TypeInv, TypeOK
    <2>2. /\ BeginOperation(p, s) /\ UNCHANGED <<meta, committed, up>> /\ up[p] /\ ~Busy(p)
          /\ reading' = [reading EXCEPT ![p] = TRUE]
      BY <1>1 DEF ReadCommand, CanBegin, sectorVars
    <2>3. s \in StorageState /\ ~s.writing /\ s.read_ident = stored[p].read_ident + 1
      BY <2>1, <2>2 DEF StorageState, Busy, SafetyInv, MemoryStored
    <2> HIDE DEF s
    <2>4. up' = [up EXCEPT ![p] = TRUE] /\ \A q \in Proc \ {p} : reading'[q] = reading[q]
      BY <2>1, <2>2
    <2> QED
      BY <1>0, <2>2, <2>3, <2>4, BeginSafety
  <1>2. ASSUME NEW p \in Proc, NEW d \in Written[p], WriteCommand(p, d) PROVE SafetyInv'
    <2>0. d \in Data
      BY DataAssumption
    <2> DEFINE s == [read_ident |-> state[p].read_ident + 1, writing |-> TRUE, writeval |-> d]
    <2>1. /\ state \in [Proc -> StorageState] /\ reading \in [Proc -> BOOLEAN]
          /\ up \in [Proc -> BOOLEAN]
      BY DEF SafetyInv, TypeInv, TypeOK
    <2>2. /\ BeginOperation(p, s) /\ UNCHANGED <<meta, committed, up, reading>> /\ up[p] /\ ~Busy(p)
      BY <1>2 DEF WriteCommand, CanBegin, sectorVars
    <2>3. s \in StorageState /\ s.read_ident = stored[p].read_ident + 1
      BY <2>0, <2>1, <2>2 DEF StorageState, SafetyInv, MemoryStored
    <2> HIDE DEF s
    <2>4. up' = [up EXCEPT ![p] = TRUE] /\ ~reading'[p]
      BY <2>1, <2>2 DEF Busy
    <2> QED
      BY <1>0, <2>2, <2>3, <2>4, BeginSafety
  <1>3. ASSUME NEW p \in Proc, RestartReplay(p) PROVE SafetyInv'
    <2> DEFINE s == [stored[p] EXCEPT !.read_ident = @ + 1]
    <2>1. stored \in [Proc -> StorageState] /\ reading \in [Proc -> BOOLEAN]
      BY DEF SafetyInv, TypeInv, TypeOK
    <2>2. /\ BeginOperation(p, s) /\ UNCHANGED <<meta, committed, reading>> /\ ~up[p]
          /\ up' = [up EXCEPT ![p] = TRUE]
      BY <1>3 DEF RestartReplay, sectorVars
    <2>3. s \in StorageState /\ s.read_ident = stored[p].read_ident + 1
      BY <2>1 DEF StorageState
    <2> HIDE DEF s
    <2>4. ~reading'[p]
      BY <2>2 DEF SafetyInv, MemoryStored
    <2> QED
      BY <1>0, <2>2, <2>3, <2>4, BeginSafety
  <1>4. ASSUME NEW p \in Proc, NEW m \in msgs, SystemCommand(p, m) PROVE SafetyInv'
    BY <1>0, <1>4, ReadProcSafety, RecordSafety, ValueQuorumSafety, WriteProcSafety,
       AckQuorumSafety DEF SystemCommand
  <1>5. ASSUME NEW p \in Proc, Crash(p) \/ \E m \in msgs : TornCrash(p, m) PROVE SafetyInv'
    BY <1>0, <1>5, StopSafety DEF Crash, TornCrash
  <1>6. ASSUME NEW p \in Proc, Restart(p) PROVE SafetyInv'
    BY <1>0, <1>6, RestartSafety
  <1>7. CASE UNCHANGED vars
    <2>1. UNCHANGED <<meta, stored, up, state, reading, readlist, acks, msgs, committed,
                      floor, optag>>
      BY <1>7 DEF vars
    <2>2. BroadcastsPast' /\ AnswersFollow' /\ ReadIdentFresh' /\ CommittedAtMajority'
      BY <2>1 DEF SafetyInv, BroadcastsPast, AnswersFollow, ReadIdentFresh,
                  CommittedAtMajority
    <2>3. MemoryStored' /\ OneOperation' /\ ListHeard' /\ AcksHeard'
      BY <2>1 DEF SafetyInv, MemoryStored, OneOperation, ListHeard, AcksHeard
    <2>4. FloorHeld'
      BY <2>1 DEF SafetyInv, FloorHeld, Busy, CurrentValue
    <2>5. TagChosen' /\ RealTimeOrder'
      BY <2>1 DEF SafetyInv, TagChosen, RealTimeOrder, Busy, CurrentWrite
    <2> QED
      BY <1>0, <2>2, <2>3, <2>4, <2>5 DEF SafetyInv
  <1> QED
    BY <1>1, <1>2, <1>3, <1>4, <1>5, <1>6, <1>7 DEF Next, ClientCommand, Fault

\* The inductive invariant holds in every reachable state, whenever and wherever processes
\* crash, as long as the discs do not fail.
THEOREM Safety == ASSUME NoDiskError PROVE Spec => []SafetyInv
  <1>1. Init => SafetyInv
    BY SafetyInit
  <1>2. SafetyInv /\ [Next]_vars => SafetyInv'
    BY SafetyStep
  <1> QED
    BY <1>1, <1>2, PTL DEF Spec

\* Operations are ordered by their tags as they are in real time: a read never chooses a
\* value older than an operation completed before it began, a write always a newer tag.
THEOREM OperationsInOrder == ASSUME NoDiskError PROVE Spec => []RealTimeOrder
  <1>1. SafetyInv => RealTimeOrder
    BY DEF SafetyInv
  <1> QED
    BY <1>1, Safety, PTL

\* A completed operation is on the discs of a majority and stays there.
THEOREM CompletedIsDurable == ASSUME NoDiskError PROVE Spec => []CommittedAtMajority
  <1>1. SafetyInv => CommittedAtMajority
    BY DEF SafetyInv
  <1> QED
    BY <1>1, Safety, PTL

\* No read_ident is broadcast twice, restarts included.
THEOREM ReadIdentsAreFresh == ASSUME NoDiskError PROVE Spec => []ReadIdentFresh
  <1>1. SafetyInv => ReadIdentFresh
    BY DEF SafetyInv
  <1> QED
    BY <1>1, Safety, PTL
=============================================================================
