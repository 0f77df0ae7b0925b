------------------------- MODULE RegisterTagProofs -------------------------
(***************************************************************************)
(* Proofs about the versions of a sector: the data and the tag that travel *)
(* together, and that a tag stands for one content.                        *)
(***************************************************************************)
EXTENDS AtomicRegisterProofs

\* No fault separates the two files of a sector.
WholeWrites == Faults \cap {"torn", "disk"} = {}

\* The content d exists under the tag: nobody wrote the sector, or somebody broadcast it.
IsVersion(tag, d) ==
    \/ tag = NoTag /\ d = Zero
    \/ \E m \in msgs : m.type = "WriteProc" /\ m.tag = tag /\ m.data = d

\* A disc reads as a version, and so does what a Value carries.
SectorsHoldVersions == \A p \in Proc : IsVersion(meta[p], ReadData(p))
ValuesCarryVersions == \A m \in msgs : m.type = "Value" => IsVersion(m.tag, m.data)

VersionInv == TypeInv /\ SectorsHoldVersions /\ ValuesCarryVersions

-----------------------------------------------------------------------------
(* What the steps do to the messages *)

\* Nothing leaves the set of sent commands.
LEMMA SentStaysSent == ASSUME [Next]_vars PROVE msgs \subseteq msgs'
  <1>1. ASSUME NEW p \in Proc, ClientCommand(p) \/ Fault(p) PROVE msgs \subseteq msgs'
    BY <1>1 DEF ClientCommand, ReadCommand, WriteCommand, Fault, Crash, TornCrash,
                StopProcess, Restart, RestartReplay, BeginOperation
  <1>2. ASSUME NEW p \in Proc, NEW m \in msgs, SystemCommand(p, m) PROVE msgs \subseteq msgs'
    BY <1>2 DEF SystemCommand, HandleReadProc, RecordValue, ValueQuorum, HandleWriteProc,
                RecordAck, AckQuorum
  <1> QED
    BY <1>1, <1>2 DEF Next, vars

\* A Value is sent only by the handler of a ReadProc, a WriteProc only at a quorum of Values.
LEMMA NewMessages ==
    ASSUME [Next]_vars, NEW n \in msgs', n \notin msgs
    PROVE  /\ n.type = "Value" =>
                \E p \in Proc : \E m \in msgs :
                    HandleReadProc(p, m) /\ n = Value(p, m.src, m.rid, meta[p], ReadData(p))
           /\ n.type = "WriteProc" => \E p \in Proc : \E m \in msgs : ValueQuorum(p, m)
  <1>1. ASSUME NEW p \in Proc, ClientCommand(p) \/ Fault(p)
        PROVE  n.type = "ReadProc"
    <2>1. msgs' = msgs \/ \E s : BeginOperation(p, s)
      BY <1>1 DEF ClientCommand, ReadCommand, WriteCommand, Fault, Crash, TornCrash,
                  StopProcess, Restart, RestartReplay
    <2>2. \E rid : n = ReadProc(p, rid)
      BY <2>1 DEF BeginOperation
    <2> QED
      BY <2>2 DEF ReadProc
  <1>2. ASSUME NEW p \in Proc, NEW m \in msgs, SystemCommand(p, m)
        PROVE  \/ ValueQuorum(p, m) /\ n.type = "WriteProc"
               \/ HandleReadProc(p, m) /\ n = Value(p, m.src, m.rid, meta[p], ReadData(p))
                  /\ n.type = "Value"
               \/ n.type = "Ack"
    <2>1. CASE ValueQuorum(p, m)
      <3>1. \E rid, tag, d : n = WriteProc(p, rid, tag, d)
        BY <2>1 DEF ValueQuorum
      <3> QED
        BY <2>1, <3>1 DEF WriteProc
    <2>2. CASE HandleReadProc(p, m)
      BY <2>2 DEF HandleReadProc, Value, ReadMetadata
    <2>3. CASE HandleWriteProc(p, m)
      BY <2>3 DEF HandleWriteProc, Ack
    <2> QED
      BY <1>2, <2>1, <2>2, <2>3 DEF SystemCommand, RecordValue, RecordAck, AckQuorum
  <1> QED
    BY <1>1, <1>2 DEF Next, vars

\* A version goes on existing.
LEMMA VersionsStay ==
    ASSUME [Next]_vars, NEW tag, NEW d, IsVersion(tag, d)
    PROVE  IsVersion(tag, d)'
  BY SentStaysSent DEF IsVersion

-----------------------------------------------------------------------------
(* Data and tag belong together *)

\* A sector takes data and tag of one WriteProc.
LEMMA SectorVersions ==
    ASSUME WholeWrites, VersionInv, [Next]_vars
    PROVE  SectorsHoldVersions'
  <1>1. data \in [Proc -> Data] /\ meta \in [Proc -> Tag]
    BY DEF VersionInv, TypeInv, TypeOK
  <1>2. CASE UNCHANGED sectorVars
    <2> SUFFICES ASSUME NEW p \in Proc PROVE IsVersion(meta[p], ReadData(p))'
      BY DEF SectorsHoldVersions
    <2>1. meta'[p] = meta[p] /\ ReadData(p)' = ReadData(p)
      BY <1>2 DEF sectorVars, ReadData
    <2>2. IsVersion(meta[p], ReadData(p))
      BY DEF VersionInv, SectorsHoldVersions
    <2> QED
      BY <2>1, <2>2, SentStaysSent DEF IsVersion
  <1>3. ASSUME NEW p \in Proc, NEW m \in msgs, HandleWriteProc(p, m)
        PROVE  SectorsHoldVersions'
    <2>1. CASE ~LT(meta[p], m.tag)
      BY <1>2, <1>3, <2>1 DEF HandleWriteProc, ReadMetadata
    <2>2. CASE LT(meta[p], m.tag)
      <3>1. /\ data' = [data EXCEPT ![p] = m.data] /\ meta' = [meta EXCEPT ![p] = m.tag]
            /\ m.type = "WriteProc"
        BY <1>3, <2>2 DEF HandleWriteProc, SectorWrite, ReadMetadata, WholeWrites
      <3>2. m.tag # NoTag
        <4>1. meta[p] \in Tag /\ m.tag \in Tag
          BY <1>1, <3>1, MessageFields DEF VersionInv, TypeInv, TypeOK
        <4> QED
          BY <2>2, <4>1 DEF LT, NoTag, Tag
      <3>3. ASSUME NEW q \in Proc PROVE IsVersion(meta[q], ReadData(q))'
        <4>1. CASE q = p
          <5>1. meta'[q] = m.tag /\ ReadData(q)' = m.data
            BY <1>1, <3>1, <3>2, <4>1 DEF ReadData
          <5> QED
            BY <3>1, <5>1, SentStaysSent DEF IsVersion
        <4>2. CASE q # p
          <5>1. meta'[q] = meta[q] /\ ReadData(q)' = ReadData(q)
            BY <1>1, <3>1, <4>2 DEF ReadData
          <5>2. IsVersion(meta[q], ReadData(q))
            BY DEF VersionInv, SectorsHoldVersions
          <5> QED
            BY <5>1, <5>2, SentStaysSent DEF IsVersion
        <4> QED
          BY <4>1, <4>2
      <3> QED
        BY <3>3 DEF SectorsHoldVersions
    <2> QED
      BY <2>1, <2>2
  <1>4. ASSUME NEW p \in Proc, NEW m \in msgs, SystemCommand(p, m), ~HandleWriteProc(p, m)
        PROVE  UNCHANGED sectorVars
    BY <1>4 DEF SystemCommand, HandleReadProc, RecordValue, ValueQuorum, RecordAck,
                AckQuorum, sectorVars
  <1>5. ASSUME NEW p \in Proc, ClientCommand(p) \/ Fault(p)
        PROVE  UNCHANGED sectorVars
    BY <1>5 DEF ClientCommand, ReadCommand, WriteCommand, Fault, Crash, TornCrash,
                StopProcess, Restart, RestartReplay, sectorVars, WholeWrites
  <1>6. CASE UNCHANGED vars
    BY <1>2, <1>6 DEF vars, sectorVars
  <1> QED
    BY <1>2, <1>3, <1>4, <1>5, <1>6 DEF Next

\* A ReadProc is answered with the version on disc.
LEMMA ValueVersions ==
    ASSUME VersionInv, [Next]_vars
    PROVE  ValuesCarryVersions'
  <1> SUFFICES ASSUME NEW n \in msgs', n.type = "Value" PROVE IsVersion(n.tag, n.data)'
    BY DEF ValuesCarryVersions
  <1>1. IsVersion(n.tag, n.data)
    <2>1. CASE n \in msgs
      BY <2>1 DEF VersionInv, ValuesCarryVersions
    <2>2. CASE n \notin msgs
      <3>1. PICK p \in Proc : n.tag = meta[p] /\ n.data = ReadData(p)
        BY <2>2, NewMessages DEF Value
      <3> QED
        BY <3>1 DEF VersionInv, SectorsHoldVersions
    <2> QED
      BY <2>1, <2>2
  <1> QED
    BY <1>1, VersionsStay

\* Discs and Values hold versions in every reachable state.
LEMMA VersionsHeld == ASSUME WholeWrites PROVE Spec => []VersionInv
  <1>1. Init => VersionInv
    <2> SUFFICES ASSUME Init PROVE VersionInv
      OBVIOUS
    <2>1. SectorsHoldVersions
      BY DEF Init, SectorsHoldVersions, IsVersion, ReadData
    <2>2. ValuesCarryVersions
      BY DEF Init, ValuesCarryVersions
    <2> QED
      BY <2>1, <2>2, TypeInit DEF VersionInv
  <1>2. VersionInv /\ [Next]_vars => VersionInv'
    BY TypeStep, SectorVersions, ValueVersions DEF VersionInv
  <1> QED
    BY <1>1, <1>2, PTL DEF Spec

-----------------------------------------------------------------------------
(* A tag stands for one content *)

\* No process stops while it has a client write in progress.
NoInterruptedWrite == "crash_writing" \notin Faults

\* The broadcasts of versions somebody wrote.
Writes == {m \in msgs : m.type = "WriteProc" /\ m.tag # NoTag}

\* Under the tag (0, 0) only the content of an unwritten sector is written back.
ZeroUnwritten == \A m \in msgs : (m.type = "WriteProc" /\ m.tag = NoTag) => m.data = Zero

\* The rank of a version is the process whose client wrote it.
Ranked == \A m \in Writes : m.tag[2] \in Proc

\* Every version a process wrote before its current write is at most `floor', which that
\* write's tag will exceed; between writes it is at most `committed', the next `floor'.
OwnTagsPast ==
    \A m \in Writes : LET q == m.tag[2] IN
        IF state[q].writing THEN m.tag = optag[q] \/ LE(m.tag, floor[q])
                            ELSE LE(m.tag, committed)

\* No tag is chosen in the first phase.
FirstPhaseUntagged ==
    \A p \in Proc :
        (Busy(p) /\ ReadProc(p, state[p].read_ident) \in msgs) => optag[p] = NoTag

FloorCommitted == \A p \in Proc : LE(floor[p], committed)

\* The disc says `writing' exactly while the memory does: there is nothing to replay.
NothingToReplay == \A p \in Proc : stored[p].writing = state[p].writing

TagInv ==
    /\ SafetyInv /\ VersionInv
    /\ UniqueTag /\ ZeroUnwritten /\ Ranked
    /\ OwnTagsPast /\ FirstPhaseUntagged /\ FloorCommitted /\ NothingToReplay

\* With nothing broadcast the inductive invariant holds.
LEMMA TagInit == Init => TagInv
  <1> SUFFICES ASSUME Init PROVE TagInv
    OBVIOUS
  <1>1. SafetyInv /\ TypeInv
    BY SafetyInit, TypeInit
  <1>2. VersionInv
    BY <1>1 DEF Init, VersionInv, SectorsHoldVersions, ValuesCarryVersions, IsVersion, ReadData
  <1>3. msgs = {} /\ \A p \in Proc : stored[p].writing = state[p].writing /\ floor[p] = committed
    BY DEF Init
  <1> QED
    BY <1>1, <1>2, <1>3
       DEF TagInv, UniqueTag, ZeroUnwritten, Ranked, OwnTagsPast, FirstPhaseUntagged,
           FloorCommitted, NothingToReplay, Writes, LE

\* Answers to a broadcast, and recording them, touch no tag.
LEMMA QuietTags ==
    ASSUME TagInv, SafetyInv', VersionInv', msgs \subseteq msgs',
           \A n \in msgs' \ msgs : n.type \in {"Value", "Ack"},
           UNCHANGED <<stored, state, reading, committed, floor, optag>>
    PROVE  TagInv'
  <1>1. \A n \in msgs' : n.type \in {"ReadProc", "WriteProc"} => n \in msgs
    OBVIOUS
  <1>2. Writes' = Writes
    BY <1>1 DEF Writes
  <1>3. UniqueTag' /\ ZeroUnwritten' /\ Ranked'
    BY <1>1, <1>2 DEF TagInv, UniqueTag, ZeroUnwritten, Ranked
  <1>4. OwnTagsPast' /\ FloorCommitted' /\ NothingToReplay'
    BY <1>2 DEF TagInv, OwnTagsPast, FloorCommitted, NothingToReplay
  <1>5. FirstPhaseUntagged'
    <2>1. \A p \in Proc : ReadProc(p, state[p].read_ident).type = "ReadProc"
      BY DEF ReadProc
    <2> QED
      BY <1>1, <2>1 DEF TagInv, FirstPhaseUntagged, Busy
  <1> QED
    BY <1>3, <1>4, <1>5 DEF TagInv

\* A new operation of p: what p wrote before is at most `committed', which becomes its floor.
LEMMA BeginTags ==
    ASSUME NoDiskError, TagInv, SafetyInv', VersionInv', NEW p \in Proc,
           NEW s \in StorageState, BeginOperation(p, s), ~state[p].writing,
           UNCHANGED committed, \A q \in Proc \ {p} : reading'[q] = reading[q]
    PROVE  TagInv'
  <1>1. /\ state' = [state EXCEPT ![p] = s] /\ stored' = [stored EXCEPT ![p] = s]
        /\ msgs' = msgs \cup {ReadProc(p, s.read_ident)}
        /\ floor' = [floor EXCEPT ![p] = committed] /\ optag' = [optag EXCEPT ![p] = NoTag]
    BY DEF BeginOperation, StoreState, NoDiskError
  <1>2. /\ state \in [Proc -> StorageState] /\ stored \in [Proc -> StorageState]
        /\ floor \in [Proc -> Tag] /\ optag \in [Proc -> Tag]
    BY DEF TagInv, SafetyInv, TypeInv, TypeOK
  <1>3. \A q \in Proc \ {p} : /\ state'[q] = state[q] /\ stored'[q] = stored[q]
                             /\ floor'[q] = floor[q] /\ optag'[q] = optag[q]
    BY <1>1, <1>2
  <1>4. state'[p] = s /\ stored'[p] = s /\ floor'[p] = committed /\ optag'[p] = NoTag
    BY <1>1, <1>2
  <1>5. \A n \in msgs' : n.type # "ReadProc" => n \in msgs
    BY <1>1 DEF ReadProc
  <1>6. Writes' = Writes
    BY <1>1, <1>5 DEF Writes
  <1>7. UniqueTag' /\ ZeroUnwritten' /\ Ranked'
    BY <1>5, <1>6 DEF TagInv, UniqueTag, ZeroUnwritten, Ranked
  <1>8. OwnTagsPast'
    <2> SUFFICES ASSUME NEW m \in Writes
                 PROVE  IF state'[m.tag[2]].writing
                        THEN m.tag = optag'[m.tag[2]] \/ LE(m.tag, floor'[m.tag[2]])
                        ELSE LE(m.tag, committed)
      BY <1>6 DEF OwnTagsPast
    <2>1. m.tag[2] \in Proc
      BY DEF TagInv, Ranked
    <2>2. CASE m.tag[2] = p
      BY <1>4, <2>2 DEF TagInv, OwnTagsPast
    <2>3. CASE m.tag[2] # p
      BY <1>3, <2>1, <2>3 DEF TagInv, OwnTagsPast
    <2> QED
      BY <2>2, <2>3
  <1>9. FloorCommitted' /\ NothingToReplay'
    BY <1>3, <1>4 DEF TagInv, FloorCommitted, NothingToReplay, LE
  <1>10. FirstPhaseUntagged'
    <2> SUFFICES ASSUME NEW x \in Proc, x # p, Busy(x)',
                        ReadProc(x, state'[x].read_ident) \in msgs'
                 PROVE  optag'[x] = NoTag
      BY <1>4 DEF FirstPhaseUntagged
    <2>1. Busy(x) /\ ReadProc(x, state[x].read_ident) \in msgs
      BY <1>1, <1>3 DEF Busy, ReadProc
    <2> QED
      BY <1>3, <2>1 DEF TagInv, FirstPhaseUntagged
  <1> QED
    BY <1>7, <1>8, <1>9, <1>10 DEF TagInv

\* The entry a quorum of Values is decided by is a version, and no older than the floor.
LEMMA ChosenVersion ==
    ASSUME SafetyInv, VersionInv, NEW p \in Proc, NEW m \in msgs, ValueQuorum(p, m),
           NEW e \in Highest(ListWith(p, m))
    PROVE  /\ e.tag \in Tag /\ e.data \in Data /\ IsVersion(e.tag, e.data)
           /\ LE(floor[p], e.tag)
           /\ ReadProc(p, state[p].read_ident) \in msgs
  <1>1. m \in [type : {"Value"}, src : Proc, dst : Proc, rid : Nat, tag : Tag, data : Data]
    BY DEF ValueQuorum, IsCurrentValue, SafetyInv, TypeInv, TypeOK, Message
  <1>2. m.dst = p /\ m.rid = state[p].read_ident
    BY DEF ValueQuorum, IsCurrentValue
  <1>3. m = Value(m.src, p, state[p].read_ident, m.tag, m.data)
    BY <1>1, <1>2 DEF Value
  <1>4. e \in ListWith(p, m) /\ e.tag \in Tag /\ e.data \in Data
    BY <1>1, ListWithType DEF SafetyInv, Highest
  <1>5. \E n \in msgs : n.type = "Value" /\ n.tag = e.tag /\ n.data = e.data
    <2>1. CASE e \in readlist[p]
      <3>1. Value(e.src, p, state[p].read_ident, e.tag, e.data) \in msgs
        BY <2>1 DEF SafetyInv, ListHeard
      <3> QED
        BY <3>1 DEF Value
    <2>2. CASE e = [src |-> m.src, tag |-> m.tag, data |-> m.data]
      BY <1>1, <2>2
    <2> QED
      BY <1>4, <2>1, <2>2 DEF ListWith, Insert
  <1>6. IsVersion(e.tag, e.data)
    BY <1>5 DEF VersionInv, ValuesCarryVersions
  <1>7. LE(floor[p], e.tag)
    BY ChosenTag
  <1>8. ReadProc(p, state[p].read_ident) \in msgs
    BY <1>1, <1>2 DEF SafetyInv, AnswersFollow
  <1> QED
    BY <1>4, <1>6, <1>7, <1>8

\* A read broadcasts a version that exists; a write chooses a tag above its floor, hence
\* one it never used, and nobody else uses its rank.
LEMMA QuorumTags ==
    ASSUME NoDiskError, TagInv, SafetyInv', VersionInv', NEW p \in Proc, NEW m \in msgs,
           ValueQuorum(p, m)
    PROVE  TagInv'
  <1> DEFINE s == [state[p] EXCEPT !.read_ident = @ + 1]
             r == s.read_ident
  <1>1. PICK e \in Highest(ListWith(p, m)) :
          /\ state' = [state EXCEPT ![p] = s]
          /\ StoreState(p, s)
          /\ msgs' = msgs \cup {WriteProc(p, r, WriteTag(p, e), WriteData(p, e))}
          /\ optag' = [optag EXCEPT ![p] = WriteTag(p, e)]
    BY DEF ValueQuorum
  <1> DEFINE w == WriteProc(p, r, WriteTag(p, e), WriteData(p, e))
  <1>2. /\ w.type = "WriteProc" /\ w.src = p /\ w.rid = r
        /\ w.tag = WriteTag(p, e) /\ w.data = WriteData(p, e)
    BY DEF WriteProc
  <1>3. /\ stored' = [stored EXCEPT ![p] = s] /\ msgs' = msgs \cup {w} /\ Busy(p)
        /\ UNCHANGED <<reading, committed, floor>>
    BY <1>1 DEF ValueQuorum, StoreState, NoDiskError
  <1>4. /\ state \in [Proc -> StorageState] /\ stored \in [Proc -> StorageState]
        /\ optag \in [Proc -> Tag] /\ floor \in [Proc -> Tag] /\ msgs \subseteq Message
    BY DEF TagInv, SafetyInv, TypeInv, TypeOK
  <1>5. s.writing = state[p].writing
    BY <1>4 DEF StorageState
  <1>6. /\ e.tag \in Tag /\ IsVersion(e.tag, e.data) /\ LE(floor[p], e.tag)
        /\ ReadProc(p, state[p].read_ident) \in msgs
    BY ChosenVersion DEF TagInv
  <1> HIDE DEF s, w
  <1>7. \A q \in Proc \ {p} : /\ state'[q] = state[q] /\ stored'[q] = stored[q]
                             /\ optag'[q] = optag[q]
    BY <1>1, <1>3, <1>4
  <1>8. state'[p] = s /\ stored'[p] = s /\ optag'[p] = w.tag
    BY <1>1, <1>2, <1>3, <1>4
  <1>9. \A q \in Proc : state'[q].writing = state[q].writing
    BY <1>5, <1>7, <1>8
  <1>10. FloorCommitted' /\ NothingToReplay'
    BY <1>3, <1>5, <1>7, <1>8 DEF TagInv, FloorCommitted, NothingToReplay
  <1>11. FirstPhaseUntagged'
    <2> SUFFICES ASSUME NEW x \in Proc, Busy(x)', ReadProc(x, state'[x].read_ident) \in msgs'
                 PROVE  optag'[x] = NoTag
      BY DEF FirstPhaseUntagged
    <2>0. /\ ReadProc(x, state'[x].read_ident).type = "ReadProc"
          /\ ReadProc(x, state'[x].read_ident).src = x
          /\ ReadProc(x, state'[x].read_ident).rid = state'[x].read_ident
      BY DEF ReadProc
    <2>1. x # p
      BY <1>2, <1>3, <1>8, <2>0 DEF SafetyInv, ReadIdentFresh
    <2>2. ReadProc(x, state[x].read_ident) \in msgs /\ Busy(x)
      BY <1>2, <1>3, <1>7, <2>0, <2>1 DEF Busy
    <2> QED
      BY <1>7, <2>1, <2>2 DEF TagInv, FirstPhaseUntagged
  <1>12. CASE reading[p]
    <2>1. ~state[p].writing /\ w.tag = e.tag /\ w.data = e.data
      BY <1>2, <1>12 DEF TagInv, SafetyInv, OneOperation, WriteTag, WriteData
    <2>2. \/ w.tag = NoTag /\ w.data = Zero
          \/ \E x \in msgs : x.type = "WriteProc" /\ x.tag = w.tag /\ x.data = w.data
      BY <1>6, <2>1 DEF IsVersion
    <2>3. UniqueTag' /\ ZeroUnwritten'
      BY <1>3, <2>2 DEF TagInv, UniqueTag, ZeroUnwritten
    <2>4. \A n \in Writes' : \E x \in Writes : x.tag = n.tag
      BY <1>3, <2>2 DEF Writes
    <2>5. Ranked'
      BY <2>4 DEF TagInv, Ranked
    <2>6. OwnTagsPast'
      <3> SUFFICES ASSUME NEW x \in Writes
                   PROVE  IF state'[x.tag[2]].writing
                          THEN x.tag = optag'[x.tag[2]] \/ LE(x.tag, floor[x.tag[2]])
                          ELSE LE(x.tag, committed)
        BY <1>3, <2>4 DEF OwnTagsPast
      <3>1. x.tag[2] \in Proc
        BY DEF TagInv, Ranked
      <3>2. CASE x.tag[2] = p
        BY <1>9, <2>1, <3>2 DEF TagInv, OwnTagsPast
      <3>3. CASE x.tag[2] # p
        BY <1>7, <3>1, <3>3 DEF TagInv, OwnTagsPast
      <3> QED
        BY <3>2, <3>3
    <2> QED
      BY <1>10, <1>11, <2>3, <2>5, <2>6 DEF TagInv
  <1>13. CASE ~reading[p]
    <2>1. /\ state[p].writing /\ w.tag = <<e.tag[1] + 1, p>>
          /\ w.tag \in Tag /\ LT(e.tag, w.tag)
      BY <1>2, <1>3, <1>6, <1>13, NextTag DEF Busy, WriteTag
    <2>2. w.tag[2] = p /\ w.tag # NoTag
      BY <2>1, NAssumption DEF Proc, NoTag
    <2>3. LT(floor[p], w.tag)
      BY <1>4, <1>6, <2>1, TagOrder
    <2>4. \A x \in Writes : x.tag[2] = p => LE(x.tag, floor[p]) /\ x.tag # w.tag
      <3> SUFFICES ASSUME NEW x \in Writes, x.tag[2] = p
                   PROVE  LE(x.tag, floor[p]) /\ x.tag # w.tag
        OBVIOUS
      <3>1. x.tag \in Tag /\ x.tag # NoTag
        BY <1>4, MessageFields DEF Writes
      <3>2. optag[p] = NoTag
        BY <1>3, <1>6 DEF TagInv, FirstPhaseUntagged
      <3>3. LE(x.tag, floor[p])
        BY <2>1, <3>1, <3>2 DEF TagInv, OwnTagsPast
      <3>4. floor[p] \in Tag
        BY <1>4
      <3> QED
        BY <2>1, <2>3, <3>1, <3>3, <3>4 DEF LE, LT, Tag
    <2>5. \A x \in msgs : x.type = "WriteProc" => x.tag # w.tag
      BY <2>2, <2>4 DEF Writes
    <2>6. UniqueTag' /\ ZeroUnwritten'
      BY <1>3, <2>2, <2>5 DEF TagInv, UniqueTag, ZeroUnwritten
    <2>7. Writes' = Writes \cup {w}
      BY <1>2, <1>3, <2>2 DEF Writes
    <2>8. Ranked'
      BY <2>2, <2>7 DEF TagInv, Ranked
    <2>9. OwnTagsPast'
      <3> SUFFICES ASSUME NEW x \in Writes'
                   PROVE  IF state'[x.tag[2]].writing
                          THEN x.tag = optag'[x.tag[2]] \/ LE(x.tag, floor[x.tag[2]])
                          ELSE LE(x.tag, committed)
        BY <1>3 DEF OwnTagsPast
      <3>1. CASE x = w
        BY <1>8, <1>9, <2>1, <2>2, <3>1
      <3>2. CASE x \in Writes /\ x.tag[2] = p
        BY <1>9, <2>1, <2>4, <3>2
      <3>3. CASE x \in Writes /\ x.tag[2] # p
        <4>1. x.tag[2] \in Proc
          BY <3>3 DEF TagInv, Ranked
        <4> QED
          BY <1>7, <3>3, <4>1 DEF TagInv, OwnTagsPast
      <3> QED
        BY <2>7, <3>1, <3>2, <3>3
    <2> QED
      BY <1>10, <1>11, <2>6, <2>8, <2>9 DEF TagInv
  <1> QED
    BY <1>12, <1>13

\* A write completes and its tag is at most `committed' from then on.
LEMMA AckTags ==
    ASSUME NoDiskError, TagInv, SafetyInv', VersionInv', NEW p \in Proc, NEW m \in msgs,
           AckQuorum(p, m)
    PROVE  TagInv'
  <1>1. committed' = Higher(committed, optag[p]) /\ UNCHANGED <<msgs, floor, optag>>
    BY DEF AckQuorum
  <1>2. /\ state \in [Proc -> StorageState] /\ stored \in [Proc -> StorageState]
        /\ reading \in [Proc -> BOOLEAN] /\ committed \in Tag /\ committed' \in Tag
        /\ optag \in [Proc -> Tag] /\ floor \in [Proc -> Tag] /\ msgs \subseteq Message
    BY DEF TagInv, SafetyInv, TypeInv, TypeOK
  <1>3. /\ \A q \in Proc : /\ state'[q].read_ident = state[q].read_ident
                           /\ Busy(q)' => Busy(q)
        /\ \A q \in Proc \ {p} : state'[q] = state[q]
        /\ ~state'[p].writing
        /\ NothingToReplay'
    <2>1. CASE reading[p]
      BY <1>2, <2>1 DEF AckQuorum, TagInv, SafetyInv, OneOperation, NothingToReplay, Busy
    <2>2. CASE ~reading[p]
      <3> DEFINE s == [state[p] EXCEPT !.writing = FALSE]
      <3>1. s.read_ident = state[p].read_ident /\ ~s.writing /\ s.writing = FALSE
        BY <1>2 DEF StorageState
      <3>2. state' = [state EXCEPT ![p] = s] /\ stored' = [stored EXCEPT ![p] = s] /\ reading' = reading
        BY <2>2 DEF AckQuorum, StoreState, NoDiskError
      <3> HIDE DEF s
      <3> QED
        BY <1>2, <2>2, <3>1, <3>2 DEF TagInv, NothingToReplay, Busy
    <2> QED
      BY <2>1, <2>2
  <1>4. LE(committed, committed') /\ LE(optag[p], committed')
    BY <1>1, <1>2, HigherTag
  <1>5. \A t \in Tag : LE(t, committed) => LE(t, committed')
    BY <1>2, <1>4, TagOrder
  <1>6. UniqueTag' /\ ZeroUnwritten' /\ Ranked' /\ Writes' = Writes
    BY <1>1 DEF TagInv, UniqueTag, ZeroUnwritten, Ranked, Writes
  <1>7. OwnTagsPast'
    <2> SUFFICES ASSUME NEW x \in Writes
                 PROVE  IF state'[x.tag[2]].writing
                        THEN x.tag = optag[x.tag[2]] \/ LE(x.tag, floor[x.tag[2]])
                        ELSE LE(x.tag, committed')
      BY <1>1, <1>6 DEF OwnTagsPast
    <2>1. x.tag[2] \in Proc /\ x.tag \in Tag
      BY <1>2, MessageFields DEF TagInv, Ranked, Writes
    <2>2. CASE x.tag[2] = p
      <3>1. x.tag = optag[p] \/ LE(x.tag, floor[p]) \/ LE(x.tag, committed)
        BY <2>2 DEF TagInv, OwnTagsPast
      <3>2. LE(x.tag, floor[p]) => LE(x.tag, committed)
        BY <1>2, <2>1, TagOrder DEF TagInv, FloorCommitted
      <3> QED
        BY <1>3, <1>4, <1>5, <2>1, <2>2, <3>1, <3>2
    <2>3. CASE x.tag[2] # p
      BY <1>3, <1>5, <2>1, <2>3 DEF TagInv, OwnTagsPast
    <2> QED
      BY <2>2, <2>3
  <1>8. FirstPhaseUntagged'
    BY <1>1, <1>3 DEF TagInv, FirstPhaseUntagged
  <1>9. FloorCommitted'
    BY <1>1, <1>2, <1>5 DEF TagInv, FloorCommitted
  <1> QED
    BY <1>3, <1>6, <1>7, <1>8, <1>9 DEF TagInv

\* A process that stops or restarts is not writing before and not busy afterwards.
LEMMA IdleTags ==
    ASSUME TagInv, SafetyInv', VersionInv', NEW p \in Proc,
           UNCHANGED <<stored, msgs, committed, floor>>,
           ~state[p].writing, state'[p].writing = FALSE, ~Busy(p)',
           \A q \in Proc \ {p} : /\ state'[q] = state[q] /\ reading'[q] = reading[q]
                                /\ optag'[q] = optag[q]
    PROVE  TagInv'
  <1>1. UniqueTag' /\ ZeroUnwritten' /\ Ranked' /\ FloorCommitted' /\ Writes' = Writes
    BY DEF TagInv, UniqueTag, ZeroUnwritten, Ranked, FloorCommitted, Writes
  <1>2. NothingToReplay'
    <2>1. stored[p].writing = FALSE
      BY DEF TagInv, NothingToReplay, SafetyInv, TypeInv, TypeOK, StorageState
    <2> QED
      BY <2>1 DEF TagInv, NothingToReplay
  <1>3. FirstPhaseUntagged'
    BY DEF TagInv, FirstPhaseUntagged, Busy
  <1>4. OwnTagsPast'
    <2> SUFFICES ASSUME NEW x \in Writes
                 PROVE  IF state'[x.tag[2]].writing
                        THEN x.tag = optag'[x.tag[2]] \/ LE(x.tag, floor[x.tag[2]])
                        ELSE LE(x.tag, committed)
      BY <1>1 DEF OwnTagsPast
    <2>1. x.tag[2] \in Proc
      BY DEF TagInv, Ranked
    <2> QED
      BY <2>1 DEF TagInv, OwnTagsPast
  <1> QED
    BY <1>1, <1>2, <1>3, <1>4 DEF TagInv

\* Every step keeps a tag to one content, as long as no write is interrupted.
LEMMA TagStep ==
    ASSUME WholeWrites, NoInterruptedWrite, TagInv, [Next]_vars
    PROVE  TagInv'
  <1>0. NoDiskError
    BY DEF WholeWrites, NoDiskError
  <1>1. SafetyInv'
    BY <1>0, SafetyStep DEF TagInv
  <1>2. VersionInv'
    BY TypeStep, SectorVersions, ValueVersions DEF TagInv, VersionInv
  <1>3. /\ state \in [Proc -> StorageState] /\ stored \in [Proc -> StorageState]
        /\ reading \in [Proc -> BOOLEAN] /\ optag \in [Proc -> Tag] /\ up \in [Proc -> BOOLEAN]
    BY DEF TagInv, SafetyInv, TypeInv, TypeOK
  <1>4. ASSUME NEW p \in Proc, ReadCommand(p) PROVE TagInv'
    <2> DEFINE s == [state[p] EXCEPT !.read_ident = @ + 1]
    <2>1. s \in StorageState
      BY <1>3, NextIdent
    <2>2. /\ BeginOperation(p, s) /\ UNCHANGED committed /\ ~state[p].writing
          /\ reading' = [reading EXCEPT ![p] = TRUE]
      BY <1>4 DEF ReadCommand, CanBegin, Busy
    <2> HIDE DEF s
    <2> QED
      BY <1>0, <1>1, <1>2, <1>3, <2>1, <2>2, BeginTags
  <1>5. ASSUME NEW p \in Proc, NEW d \in Written[p], WriteCommand(p, d) PROVE TagInv'
    <2> DEFINE s == [read_ident |-> state[p].read_ident + 1, writing |-> TRUE, writeval |-> d]
    <2>1. s \in StorageState
      BY <1>3, DataAssumption DEF StorageState
    <2>2. BeginOperation(p, s) /\ UNCHANGED <<committed, reading>> /\ ~state[p].writing
      BY <1>5 DEF WriteCommand, CanBegin, Busy
    <2> HIDE DEF s
    <2> QED
      BY <1>0, <1>1, <1>2, <2>1, <2>2, BeginTags
  <1>6. ASSUME NEW p \in Proc, NEW m \in msgs,
               HandleReadProc(p, m) \/ HandleWriteProc(p, m) \/ RecordValue(p, m) \/ RecordAck(p, m)
        PROVE  TagInv'
    <2>1. /\ msgs \subseteq msgs'
          /\ \A n \in msgs' \ msgs : n.type \in {"Value", "Ack"}
      BY <1>6 DEF HandleReadProc, HandleWriteProc, RecordValue, RecordAck, Value, Ack
    <2>2. UNCHANGED <<stored, state, reading, committed, floor, optag>>
      BY <1>6 DEF HandleReadProc, HandleWriteProc, RecordValue, RecordAck, registerVars, auxVars
    <2> QED
      BY <1>1, <1>2, <2>1, <2>2, QuietTags
  <1>7. ASSUME NEW p \in Proc, Crash(p) PROVE TagInv'
    <2>1. ~state[p].writing
      BY <1>7 DEF Crash, CanCrash, NoInterruptedWrite
    <2>2. state'[p].writing = FALSE /\ ~Busy(p)'
      BY <1>3, <1>7 DEF Crash, StopProcess, EmptyState, Busy
    <2>3. /\ UNCHANGED <<stored, msgs, committed, floor>>
          /\ \A q \in Proc \ {p} : /\ state'[q] = state[q] /\ reading'[q] = reading[q]
                                  /\ optag'[q] = optag[q]
      BY <1>3, <1>7 DEF Crash, StopProcess
    <2> QED
      BY <1>1, <1>2, <2>1, <2>2, <2>3, IdleTags
  <1>8. ASSUME NEW p \in Proc, Restart(p) PROVE TagInv'
    <2>1. ~state[p].writing /\ ~reading[p]
      BY <1>8 DEF Restart, TagInv, SafetyInv, MemoryStored
    <2>2. state'[p].writing = FALSE /\ ~Busy(p)'
      BY <1>3, <1>8, <2>1 DEF Restart, Busy, StorageState
    <2>3. /\ UNCHANGED <<stored, msgs, committed, floor>>
          /\ \A q \in Proc \ {p} : /\ state'[q] = state[q] /\ reading'[q] = reading[q]
                                  /\ optag'[q] = optag[q]
      BY <1>3, <1>8 DEF Restart, auxVars
    <2> QED
      BY <1>1, <1>2, <2>1, <2>2, <2>3, IdleTags
  <1>9. ASSUME NEW p \in Proc, NEW m \in msgs, TornCrash(p, m) PROVE FALSE
    BY <1>9 DEF TornCrash, WholeWrites
  <1>10. ASSUME NEW p \in Proc, RestartReplay(p) PROVE FALSE
    BY <1>10 DEF RestartReplay, TagInv, NothingToReplay, SafetyInv, MemoryStored
  <1>11. CASE UNCHANGED vars
    BY <1>1, <1>2, <1>11, QuietTags DEF vars
  <1>12. ASSUME NEW p \in Proc, NEW m \in msgs, SystemCommand(p, m) PROVE TagInv'
    BY <1>0, <1>1, <1>2, <1>6, <1>12, QuorumTags, AckTags DEF SystemCommand
  <1> QED
    BY <1>4, <1>5, <1>7, <1>8, <1>9, <1>10, <1>11, <1>12 DEF Next, ClientCommand, Fault

\* The inductive invariant of the registers whose writes are not interrupted.
LEMMA TagsHeld == ASSUME WholeWrites, NoInterruptedWrite PROVE Spec => []TagInv
  <1>1. Init => TagInv
    BY TagInit
  <1>2. TagInv /\ [Next]_vars => TagInv'
    BY TagStep
  <1> QED
    BY <1>1, <1>2, PTL DEF Spec

-----------------------------------------------------------------------------
(* Interrupted writes *)

\* The clients of one process write one content. A write that was interrupted may have left
\* its tag to a later write of the same process; if it did, that one has the same content.
OneContent == \A p \in Proc : \A d1, d2 \in Written[p] : d1 = d2

\* The content of a version is one that clients of its rank write.
RankContent == \A m \in Writes : m.tag[2] \in Proc /\ m.data \in Written[m.tag[2]]

\* ... and so is the content of a write in progress, in memory or on disc.
WritevalOwn == \A p \in Proc : /\ state[p].writing => state[p].writeval \in Written[p]
                               /\ stored[p].writing => stored[p].writeval \in Written[p]

ReplayInv == SafetyInv /\ VersionInv /\ ZeroUnwritten /\ RankContent /\ WritevalOwn

\* A client's content stays with the write it came with, over a crash and a replay too.
LEMMA WritevalStep ==
    ASSUME NoDiskError, ReplayInv, [Next]_vars
    PROVE  WritevalOwn'
  <1>1. state \in [Proc -> StorageState] /\ stored \in [Proc -> StorageState]
    BY DEF ReplayInv, SafetyInv, TypeInv, TypeOK
  <1>2. CASE UNCHANGED <<state, stored>>
    BY <1>2 DEF ReplayInv, WritevalOwn
  <1>3. ASSUME NEW p \in Proc, NEW s,
               s.writing => s.writeval \in Written[p],
               state' = [state EXCEPT ![p] = s],
               stored' \in {stored, [stored EXCEPT ![p] = s]}
        PROVE  WritevalOwn'
    BY <1>1, <1>3 DEF ReplayInv, WritevalOwn
  <1>4. ASSUME NEW p \in Proc, NEW s, s.writing => s.writeval \in Written[p],
               BeginOperation(p, s)
        PROVE  WritevalOwn'
    BY <1>3, <1>4 DEF BeginOperation, StoreState
  <1>5. \A p \in Proc : LET s == [state[p] EXCEPT !.read_ident = @ + 1]
                        IN  s.writing => s.writeval \in Written[p]
    BY <1>1 DEF ReplayInv, WritevalOwn, StorageState
  <1>6. ASSUME NEW p \in Proc, ReadCommand(p) PROVE WritevalOwn'
    BY <1>4, <1>5, <1>6 DEF ReadCommand
  <1>7. ASSUME NEW p \in Proc, NEW d \in Written[p], WriteCommand(p, d) PROVE WritevalOwn'
    BY <1>4, <1>7 DEF WriteCommand
  <1>8. ASSUME NEW p \in Proc, NEW m \in msgs, ValueQuorum(p, m) PROVE WritevalOwn'
    <2> DEFINE s == [state[p] EXCEPT !.read_ident = @ + 1]
    <2>1. state' = [state EXCEPT ![p] = s] /\ StoreState(p, s)
      BY <1>8 DEF ValueQuorum
    <2>2. s.writing => s.writeval \in Written[p]
      BY <1>5
    <2> HIDE DEF s
    <2> QED
      BY <1>3, <2>1, <2>2 DEF StoreState
  <1>9. ASSUME NEW p \in Proc, NEW m \in msgs, AckQuorum(p, m) PROVE WritevalOwn'
    <2>1. CASE reading[p]
      BY <1>2, <1>9, <2>1 DEF AckQuorum
    <2>2. CASE ~reading[p]
      <3> DEFINE s == [state[p] EXCEPT !.writing = FALSE]
      <3>1. state' = [state EXCEPT ![p] = s] /\ StoreState(p, s)
        BY <1>9, <2>2 DEF AckQuorum
      <3>2. ~s.writing
        BY <1>1 DEF StorageState
      <3> HIDE DEF s
      <3> QED
        BY <1>3, <3>1, <3>2 DEF StoreState
    <2> QED
      BY <2>1, <2>2
  <1>10. ASSUME NEW p \in Proc, StopProcess(p) PROVE WritevalOwn'
    BY <1>3, <1>10 DEF StopProcess, EmptyState
  <1>11. ASSUME NEW p \in Proc, Restart(p) PROVE WritevalOwn'
    BY <1>3, <1>11 DEF Restart
  <1>12. ASSUME NEW p \in Proc, RestartReplay(p) PROVE WritevalOwn'
    <2> DEFINE s == [stored[p] EXCEPT !.read_ident = @ + 1]
    <2>1. s.writing => s.writeval \in Written[p]
      BY <1>1 DEF ReplayInv, WritevalOwn, StorageState
    <2>2. BeginOperation(p, s)
      BY <1>12 DEF RestartReplay
    <2> HIDE DEF s
    <2> QED
      BY <1>4, <2>1, <2>2
  <1>13. ASSUME NEW p \in Proc, NEW m \in msgs, SystemCommand(p, m) PROVE WritevalOwn'
    BY <1>2, <1>8, <1>9, <1>13
       DEF SystemCommand, HandleReadProc, HandleWriteProc, RecordValue, RecordAck, registerVars
  <1> QED
    BY <1>2, <1>6, <1>7, <1>10, <1>11, <1>12, <1>13
       DEF Next, ClientCommand, Fault, Crash, TornCrash, vars

\* What is broadcast at a quorum of Values is a version that exists, or the content of a
\* client of the process under its rank.
LEMMA ReplayStep ==
    ASSUME WholeWrites, ReplayInv, [Next]_vars
    PROVE  ReplayInv'
  <1>0. NoDiskError
    BY DEF WholeWrites, NoDiskError
  <1>1. SafetyInv' /\ VersionInv' /\ WritevalOwn'
    BY <1>0, SafetyStep, WritevalStep, TypeStep, SectorVersions, ValueVersions
       DEF ReplayInv, VersionInv
  <1>2. ASSUME NEW n \in msgs', n.type = "WriteProc"
        PROVE  IF n.tag = NoTag THEN n.data = Zero
               ELSE n.tag[2] \in Proc /\ n.data \in Written[n.tag[2]]
    <2>1. CASE n \in msgs
      BY <1>2, <2>1 DEF ReplayInv, ZeroUnwritten, RankContent, Writes
    <2>2. CASE n \notin msgs
      <3>1. PICK p \in Proc, m \in msgs : ValueQuorum(p, m)
        BY <1>2, <2>2, NewMessages
      <3>2. PICK e \in Highest(ListWith(p, m)) :
              n = WriteProc(p, state[p].read_ident + 1, WriteTag(p, e), WriteData(p, e))
        BY <2>2, <3>1 DEF ValueQuorum
      <3>3. n.tag = WriteTag(p, e) /\ n.data = WriteData(p, e)
        BY <3>2 DEF WriteProc
      <3>4. IsVersion(e.tag, e.data) /\ e.tag \in Tag
        BY <3>1, ChosenVersion DEF ReplayInv
      <3>5. CASE reading[p]
        <4>1. IsVersion(n.tag, n.data)
          BY <3>3, <3>4, <3>5 DEF WriteTag, WriteData
        <4> QED
          BY <4>1 DEF IsVersion, ReplayInv, ZeroUnwritten, RankContent, Writes
      <3>6. CASE ~reading[p]
        <4>1. state[p].writing
          BY <3>1, <3>6 DEF ValueQuorum, Busy
        <4>2. n.tag = <<e.tag[1] + 1, p>> /\ n.data = state[p].writeval
          BY <3>3, <3>6 DEF WriteTag, WriteData
        <4>3. n.tag[2] = p /\ n.tag # NoTag
          BY <4>2, NAssumption DEF Proc, NoTag
        <4> QED
          BY <4>1, <4>2, <4>3 DEF ReplayInv, WritevalOwn
      <3> QED
        BY <3>5, <3>6
    <2> QED
      BY <2>1, <2>2
  <1>3. ZeroUnwritten' /\ RankContent'
    BY <1>2 DEF ZeroUnwritten, RankContent, Writes
  <1> QED
    BY <1>1, <1>3 DEF ReplayInv

\* The inductive invariant of the registers whose writes may be interrupted.
LEMMA ReplaysHeld == ASSUME WholeWrites PROVE Spec => []ReplayInv
  <1>1. Init => ReplayInv
    <2> SUFFICES ASSUME Init PROVE ReplayInv
      OBVIOUS
    <2>1. SafetyInv /\ VersionInv /\ ZeroUnwritten
      BY TagInit DEF TagInv
    <2>2. RankContent /\ WritevalOwn
      BY DEF Init, RankContent, WritevalOwn, Writes, EmptyState
    <2> QED
      BY <2>1, <2>2 DEF ReplayInv
  <1>2. ReplayInv /\ [Next]_vars => ReplayInv'
    BY ReplayStep
  <1> QED
    BY <1>1, <1>2, PTL DEF Spec

-----------------------------------------------------------------------------
\* What a tag needs to name one content: no write is interrupted, or the writes of one
\* process cannot be told apart.
TagsKept == WholeWrites /\ (NoInterruptedWrite \/ OneContent)

UniqueInv == SafetyInv /\ VersionInv /\ UniqueTag /\ ZeroUnwritten

\* Versions are unique, the unwritten one included.
THEOREM VersionsAreUnique == ASSUME TagsKept PROVE Spec => []UniqueInv
  <1>1. TagInv => UniqueInv
    BY DEF TagInv, UniqueInv
  <1>2. ASSUME OneContent PROVE ReplayInv => UniqueInv
    <2> SUFFICES ASSUME ReplayInv PROVE UniqueTag
      BY DEF ReplayInv, UniqueInv
    <2> QED
      BY <1>2 DEF ReplayInv, ZeroUnwritten, RankContent, Writes, UniqueTag, OneContent
  <1>3. CASE NoInterruptedWrite
    BY <1>1, <1>3, TagsHeld, PTL DEF TagsKept
  <1>4. CASE OneContent
    BY <1>2, <1>4, ReplaysHeld, PTL DEF TagsKept
  <1> QED
    BY <1>3, <1>4 DEF TagsKept

\* No (timestamp, rank) is ever broadcast with two contents: with any number of writes per
\* process if none of them is interrupted, and over any number of crashes and replays if
\* the clients of a process write one content.
THEOREM TagsAreUnique == ASSUME TagsKept PROVE Spec => []UniqueTag
  <1>1. UniqueInv => UniqueTag
    BY DEF UniqueInv
  <1> QED
    BY <1>1, VersionsAreUnique, PTL
=============================================================================
