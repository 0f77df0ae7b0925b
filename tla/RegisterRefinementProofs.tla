---------------------- MODULE RegisterRefinementProofs ----------------------
(***************************************************************************)
(* The proof that the registers of a sector implement TaggedRegister: the  *)
(* initial states map to initial states, and every step to a step of the   *)
(* atomic value or to none.                                                *)
(***************************************************************************)
EXTENDS RegisterRefinement, RegisterTagProofs

AllVersions == Versions \cup {Version(NoTag, Zero)}

\* An existing version is one of those that TaggedRegister calls written.
LEMMA VersionWritten ==
    ASSUME NEW tag, NEW d
    PROVE  IsVersion(tag, d) <=> Version(tag, d) \in AllVersions
  BY DEF IsVersion, AllVersions, Versions, Version

\* Discs that nobody wrote and registers that do nothing are the initial atomic value.
LEMMA RefinementInit == Init => Abstract!Init
  <1> SUFFICES ASSUME Init PROVE Abstract!Init
    OBVIOUS
  <1>1. \A p \in Proc : ~reading[p] /\ ~state[p].writing /\ ~Busy(p)
    BY DEF Init, Busy, EmptyState
  <1>2. Versions = {}
    BY DEF Init, Versions
  <1>3. kindOf = [p \in Proc |-> "idle"] /\ contentOf = [p \in Proc |-> Zero]
    BY <1>1 DEF kindOf, contentOf
  <1>4. floorOf = [p \in Proc |-> NoTag] /\ versionOf = [p \in Proc |-> Nothing]
    BY <1>1 DEF floorOf, versionOf
  <1>5. committed = NoTag
    BY DEF Init
  <1> QED
    BY <1>2, <1>3, <1>4, <1>5
       DEF Abstract!Init, Abstract!NoTag, NoTag, Abstract!Nothing, Nothing,
           Abstract!Version, Version

-----------------------------------------------------------------------------
(* What a step leaves alone *)

\* A step that sends no WriteProc of q and leaves q in its phase leaves what q has chosen.
LEMMA ChosenKept ==
    ASSUME NEW q \in Proc, state'[q] = state[q], msgs \subseteq msgs',
           \A n \in msgs' : (n.type = "WriteProc" /\ n.src = q) => n \in msgs
    PROVE  Chosen(q)' = Chosen(q)
  BY DEF Chosen

\* The versions are those of the WriteProc.
LEMMA VersionsKept ==
    ASSUME msgs \subseteq msgs', \A n \in msgs' : n.type = "WriteProc" => n \in msgs
    PROVE  Versions' = Versions
  BY DEF Versions

\* A step of p maps to a step of p.
LEMMA OthersKept ==
    ASSUME NEW p \in Proc,
           \A q \in Proc \ {p} : /\ state'[q] = state[q] /\ reading'[q] = reading[q]
                                /\ floor'[q] = floor[q] /\ Chosen(q)' = Chosen(q)
    PROVE  /\ kindOf' = [kindOf EXCEPT ![p] = kindOf'[p]]
           /\ contentOf' = [contentOf EXCEPT ![p] = contentOf'[p]]
           /\ floorOf' = [floorOf EXCEPT ![p] = floorOf'[p]]
           /\ versionOf' = [versionOf EXCEPT ![p] = versionOf'[p]]
  <1>1. \A q \in Proc \ {p} : Busy(q)' = Busy(q)
    BY DEF Busy
  <1>2. kindOf' = [kindOf EXCEPT ![p] = kindOf'[p]]
    BY DEF kindOf
  <1>3. contentOf' = [contentOf EXCEPT ![p] = contentOf'[p]]
    BY DEF contentOf
  <1>4. floorOf' = [floorOf EXCEPT ![p] = floorOf'[p]]
    BY <1>1 DEF floorOf
  <1>5. versionOf' = [versionOf EXCEPT ![p] = versionOf'[p]]
    BY <1>1 DEF versionOf
  <1> QED
    BY <1>2, <1>3, <1>4, <1>5

\* What a process that executes nothing looks like.
LEMMA IdleView ==
    ASSUME NEW p \in Proc, ~Busy(p)
    PROVE  /\ kindOf[p] = "idle" /\ contentOf[p] = Zero /\ floorOf[p] = NoTag
           /\ versionOf[p] = Nothing
  BY DEF kindOf, contentOf, floorOf, versionOf, Busy

\* ... and one that executes a command.
LEMMA BusyView ==
    ASSUME SafetyInv, NEW p \in Proc, Busy(p)
    PROVE  /\ kindOf[p] = IF reading[p] THEN "read" ELSE "write"
           /\ contentOf[p] = IF reading[p] THEN Zero ELSE state[p].writeval
           /\ ~reading[p] => state[p].writing /\ state[p].writeval \in Data
           /\ floorOf[p] = floor[p]
           /\ Chosen(p) = {} => versionOf[p] = Nothing
           /\ \A v : Chosen(p) = {v} => versionOf[p] = v
  BY DEF kindOf, contentOf, floorOf, versionOf, OneOf, Busy, SafetyInv, OneOperation,
         TypeInv, HasWriteval

\* In the first phase nothing is chosen, in the second one version.
LEMMA ChosenInPhase ==
    ASSUME SafetyInv, NEW p \in Proc
    PROVE  /\ ReadProc(p, state[p].read_ident) \in msgs => Chosen(p) = {}
           /\ \A w \in msgs :
                (w.type = "WriteProc" /\ w.src = p /\ w.rid = state[p].read_ident)
                    => Chosen(p) = {Version(w.tag, w.data)}
  <1>1. ASSUME ReadProc(p, state[p].read_ident) \in msgs PROVE Chosen(p) = {}
    <2>1. /\ ReadProc(p, state[p].read_ident).type = "ReadProc"
          /\ ReadProc(p, state[p].read_ident).src = p
          /\ ReadProc(p, state[p].read_ident).rid = state[p].read_ident
      BY DEF ReadProc
    <2> QED
      BY <1>1, <2>1 DEF SafetyInv, ReadIdentFresh, Chosen
  <1>2. ASSUME NEW w \in msgs, w.type = "WriteProc", w.src = p, w.rid = state[p].read_ident
        PROVE  Chosen(p) = {Version(w.tag, w.data)}
    <2>1. {n \in msgs : n.type = "WriteProc" /\ n.src = p /\ n.rid = state[p].read_ident} = {w}
      BY <1>2 DEF SafetyInv, ReadIdentFresh
    <2> QED
      BY <2>1 DEF Chosen
  <1> QED
    BY <1>1, <1>2

-----------------------------------------------------------------------------
(* The steps *)

\* A client command, or the replay of one, begins an operation.
LEMMA BeginRefines ==
    ASSUME NoDiskError, SafetyInv, SafetyInv', NEW p \in Proc, NEW s \in StorageState,
           BeginOperation(p, s), UNCHANGED committed, ~Busy(p), Busy(p)',
           \A q \in Proc \ {p} : reading'[q] = reading[q]
    PROVE  Abstract!Begin(p)
  <1>1. /\ state' = [state EXCEPT ![p] = s] /\ floor' = [floor EXCEPT ![p] = committed]
        /\ msgs' = msgs \cup {ReadProc(p, s.read_ident)}
    BY DEF BeginOperation
  <1>2. state \in [Proc -> StorageState] /\ floor \in [Proc -> Tag]
    BY DEF SafetyInv, TypeInv, TypeOK
  <1>3. state'[p] = s /\ floor'[p] = committed
    BY <1>1, <1>2
  <1>4. msgs \subseteq msgs' /\ \A n \in msgs' : n.type = "WriteProc" => n \in msgs
    BY <1>1 DEF ReadProc
  <1>5. \A q \in Proc \ {p} : state'[q] = state[q] /\ floor'[q] = floor[q]
    BY <1>1, <1>2
  <1>6. \A q \in Proc \ {p} : Chosen(q)' = Chosen(q)
    BY <1>4, <1>5, ChosenKept
  <1>7. /\ kindOf' = [kindOf EXCEPT ![p] = kindOf'[p]]
        /\ contentOf' = [contentOf EXCEPT ![p] = contentOf'[p]]
        /\ floorOf' = [floorOf EXCEPT ![p] = floorOf'[p]]
        /\ versionOf' = [versionOf EXCEPT ![p] = versionOf'[p]]
    BY <1>5, <1>6, OthersKept
  <1>8. Chosen(p)' = {}
    <2>1. /\ ReadProc(p, s.read_ident) \in msgs' /\ ReadProc(p, s.read_ident).type = "ReadProc"
          /\ ReadProc(p, s.read_ident).src = p /\ ReadProc(p, s.read_ident).rid = s.read_ident
      BY <1>1 DEF ReadProc
    <2> QED
      BY <1>3, <2>1 DEF SafetyInv, ReadIdentFresh, Chosen
  <1>9. /\ kindOf'[p] = IF reading'[p] THEN "read" ELSE "write"
        /\ contentOf'[p] = IF reading'[p] THEN Zero ELSE s.writeval
        /\ ~reading'[p] => s.writeval \in Data
        /\ floorOf'[p] = committed /\ versionOf'[p] = Nothing
    BY <1>3, <1>8 DEF kindOf, contentOf, floorOf, versionOf, Busy, SafetyInv, OneOperation,
                      TypeInv, HasWriteval
  <1>10. kindOf[p] = "idle" /\ Versions' = Versions
    BY <1>4, IdleView, VersionsKept
  <1> QED
    BY <1>7, <1>9, <1>10
       DEF Abstract!Begin, Abstract!SetOperation, Abstract!Nothing, Nothing,
           Abstract!Version, Version, NoTag

\* The quorum of Values is the moment the operation takes effect: a read finds a version
\* that exists, a write makes one under a tag that named nothing, and neither goes behind
\* its floor.
LEMMA QuorumRefines ==
    ASSUME NoDiskError, UniqueInv, UniqueInv', NEW p \in Proc, NEW m \in msgs,
           ValueQuorum(p, m)
    PROVE  Abstract!TakeEffect(p)
  <1> DEFINE s == [state[p] EXCEPT !.read_ident = @ + 1]
             r == s.read_ident
  <1>1. PICK e \in Highest(ListWith(p, m)) :
          /\ state' = [state EXCEPT ![p] = s]
          /\ msgs' = msgs \cup {WriteProc(p, r, WriteTag(p, e), WriteData(p, e))}
    BY DEF ValueQuorum
  <1> DEFINE w == WriteProc(p, r, WriteTag(p, e), WriteData(p, e))
             v == Version(w.tag, w.data)
  <1>2. /\ w.type = "WriteProc" /\ w.src = p /\ w.rid = r
        /\ w.tag = WriteTag(p, e) /\ w.data = WriteData(p, e)
    BY DEF WriteProc
  <1>3. msgs' = msgs \cup {w} /\ Busy(p) /\ UNCHANGED <<reading, committed, floor>>
    BY <1>1 DEF ValueQuorum
  <1>4. /\ state \in [Proc -> StorageState] /\ state' \in [Proc -> StorageState]
        /\ floor \in [Proc -> Tag]
    BY DEF UniqueInv, SafetyInv, TypeInv, TypeOK
  <1>5. s.writing = state[p].writing /\ s.writeval = state[p].writeval
    BY <1>4 DEF StorageState
  <1>6. /\ e.tag \in Tag /\ IsVersion(e.tag, e.data) /\ LE(floor[p], e.tag)
        /\ ReadProc(p, state[p].read_ident) \in msgs
    BY ChosenVersion DEF UniqueInv
  <1> HIDE DEF s, w, v
  <1>7. \A q \in Proc \ {p} : state'[q] = state[q]
    BY <1>1, <1>4
  <1>8. state'[p] = s
    BY <1>1, <1>4
  <1>9. \A q \in Proc : /\ state'[q].writing = state[q].writing
                       /\ state'[q].writeval = state[q].writeval
                       /\ Busy(q)' = Busy(q)
    BY <1>3, <1>5, <1>7, <1>8 DEF Busy
  <1>10. UNCHANGED <<kindOf, contentOf, floorOf, committed>>
    BY <1>3, <1>9 DEF kindOf, contentOf, floorOf
  <1>11. \A q \in Proc \ {p} : Chosen(q)' = Chosen(q)
    <2>1. \A n \in msgs' : n.src # p => n \in msgs
      BY <1>2, <1>3
    <2> QED
      BY <1>3, <1>7, <2>1, ChosenKept
  <1>12. versionOf' = [versionOf EXCEPT ![p] = versionOf'[p]]
    BY <1>3, <1>7, <1>11, OthersKept
  <1>13. versionOf'[p] = v
    <2>1. {n \in msgs' : n.type = "WriteProc" /\ n.src = p /\ n.rid = r} = {w}
      BY <1>2, <1>3 DEF UniqueInv, SafetyInv, ReadIdentFresh
    <2>2. Chosen(p)' = {v}
      BY <1>8, <2>1 DEF Chosen, v
    <2>3. versionOf'[p] = OneOf({v})
      BY <1>3, <1>9, <2>2 DEF versionOf
    <2> QED
      BY <2>3 DEF OneOf
  <1>14. kindOf[p] # "idle" /\ versionOf[p] = Nothing
    BY <1>3, <1>6, ChosenInPhase, BusyView DEF UniqueInv
  <1>15. Versions' = Versions \cup {v}
    BY <1>2, <1>3 DEF Versions, v
  <1>16. Version(e.tag, e.data) \in AllVersions
    BY <1>6, VersionWritten
  <1>17. v = IF kindOf[p] = "read" THEN Version(e.tag, e.data)
             ELSE Version(<<e.tag[1] + 1, p>>, contentOf[p])
    BY <1>2, <1>3, BusyView DEF v, WriteTag, WriteData, UniqueInv
  <1>18. ~LT(e.tag, floorOf[p])
    <2>1. floorOf[p] = floor[p] /\ floor[p] \in Tag
      BY <1>3, <1>4, BusyView DEF UniqueInv
    <2> QED
      BY <1>6, <2>1 DEF LT, LE, Tag
  <1>19. \A x \in AllVersions : x.tag = v.tag => x = v
    <2> SUFFICES ASSUME NEW x \in AllVersions, x.tag = v.tag PROVE x = v
      OBVIOUS
    <2>1. v.tag = w.tag /\ v.data = w.data /\ v = Version(w.tag, w.data)
      BY DEF v, Version
    <2>2. CASE x = Version(NoTag, Zero)
      <3>1. x.tag = NoTag /\ x.data = Zero
        BY <2>2 DEF Version
      <3>2. w.data = Zero
        BY <1>2, <1>3, <2>1, <3>1 DEF UniqueInv, ZeroUnwritten
      <3> QED
        BY <2>1, <2>2, <3>1, <3>2
    <2>3. CASE x \in Versions
      <3>1. PICK n \in msgs : n.type = "WriteProc" /\ x = Version(n.tag, n.data)
        BY <2>3 DEF Versions
      <3>2. n.tag = w.tag
        BY <2>1, <3>1 DEF Version
      <3>3. n.data = w.data
        BY <1>2, <1>3, <3>1, <3>2 DEF UniqueInv, UniqueTag
      <3> QED
        BY <2>1, <3>1, <3>2, <3>3
    <2> QED
      BY <2>2, <2>3 DEF AllVersions
  <1> QED
    <2> DEFINE u == Version(e.tag, e.data)
    <2>1. u.tag = e.tag
      BY DEF Version
    <2>2. u \in Versions \cup {Version(NoTag, Zero)}
      BY <1>16 DEF AllVersions
    <2>3. v = IF kindOf[p] = "read" THEN u ELSE Abstract!Version(<<u.tag[1] + 1, p>>, contentOf[p])
      BY <1>17, <2>1 DEF Version, Abstract!Version
    <2>4. ~Abstract!LT(u.tag, floorOf[p])
      BY <1>18, <2>1 DEF LT, Abstract!LT
    <2>5. versionOf[p] = Abstract!Nothing
      BY <1>14 DEF Nothing, Abstract!Nothing, Version, Abstract!Version
    <2>6. /\ (Versions \cup {Version(NoTag, Zero)})' = (Versions \cup {Version(NoTag, Zero)}) \cup {v}
          /\ versionOf' = [versionOf EXCEPT ![p] = v]
      BY <1>12, <1>13, <1>15 DEF Version, NoTag
    <2>7. \A x \in Versions \cup {Version(NoTag, Zero)} : x.tag = v.tag => x = v
      BY <1>19 DEF AllVersions
    <2> HIDE DEF u
    <2> QED
      BY <1>10, <1>14, <2>2, <2>3, <2>4, <2>5, <2>6, <2>7 DEF Abstract!TakeEffect

\* The quorum of Acks completes an operation that took effect.
LEMMA AckRefines ==
    ASSUME NoDiskError, UniqueInv, UniqueInv', NEW p \in Proc, NEW m \in msgs,
           AckQuorum(p, m)
    PROVE  Abstract!Complete(p)
  <1>1. /\ m.type = "Ack" /\ m.dst = p /\ m.rid = state[p].read_ident /\ Busy(p)
        /\ committed' = Higher(committed, optag[p]) /\ UNCHANGED <<msgs, floor>>
    BY DEF AckQuorum, IsCurrentAck
  <1>2. /\ state \in [Proc -> StorageState] /\ reading \in [Proc -> BOOLEAN]
        /\ msgs \subseteq Message
    BY DEF UniqueInv, SafetyInv, TypeInv, TypeOK
  <1>3. /\ \A q \in Proc \ {p} : state'[q] = state[q] /\ reading'[q] = reading[q]
        /\ ~Busy(p)'
    BY <1>2 DEF AckQuorum, UniqueInv, SafetyInv, OneOperation, Busy, StorageState
  <1>4. PICK w \in msgs : w.type = "WriteProc" /\ w.src = p /\ w.rid = state[p].read_ident
    BY <1>1 DEF UniqueInv, SafetyInv, AnswersFollow
  <1>5. optag[p] = w.tag /\ w.tag \in Tag
    BY <1>1, <1>2, <1>4, MessageFields DEF UniqueInv, SafetyInv, TagChosen, CurrentWrite
  <1>6. versionOf[p] = Version(w.tag, w.data) /\ kindOf[p] # "idle"
    BY <1>1, <1>4, ChosenInPhase, BusyView DEF UniqueInv
  <1>7. versionOf[p].tag = w.tag /\ versionOf[p] # Abstract!Nothing
    <2>1. versionOf[p].tag = w.tag /\ w.tag[1] \in Nat
      BY <1>5, <1>6 DEF Version, Tag
    <2>2. Abstract!Nothing.tag[1] = -1
      BY DEF Abstract!Nothing, Abstract!Version
    <2> QED
      BY <2>1, <2>2
  <1>8. \A q \in Proc \ {p} : Chosen(q)' = Chosen(q)
    BY <1>1, <1>3, ChosenKept
  <1>9. /\ kindOf' = [kindOf EXCEPT ![p] = kindOf'[p]]
        /\ contentOf' = [contentOf EXCEPT ![p] = contentOf'[p]]
        /\ floorOf' = [floorOf EXCEPT ![p] = floorOf'[p]]
        /\ versionOf' = [versionOf EXCEPT ![p] = versionOf'[p]]
    BY <1>1, <1>3, <1>8, OthersKept
  <1>10. /\ kindOf'[p] = "idle" /\ contentOf'[p] = Zero /\ floorOf'[p] = NoTag
         /\ versionOf'[p] = Nothing
    BY <1>3 DEF kindOf, contentOf, floorOf, versionOf, Busy
  <1>11. Versions' = Versions
    BY <1>1, VersionsKept
  <1>12. committed' = Abstract!Highest(committed, versionOf[p].tag)
    BY <1>1, <1>5, <1>7 DEF Higher, LT, Abstract!Highest, Abstract!LT
  <1> QED
    BY <1>6, <1>7, <1>9, <1>10, <1>11, <1>12
       DEF Abstract!Complete, Abstract!SetOperation, Abstract!Nothing, Nothing,
           Abstract!Version, Version, Abstract!NoTag, NoTag

\* A crash aborts the operation in progress, if there is one.
LEMMA StopRefines ==
    ASSUME SafetyInv, NEW p \in Proc, StopProcess(p)
    PROVE  [Abstract!Abort(p)]_Abstract!abstractVars
  <1>1. UNCHANGED <<msgs, committed, floor>>
    BY DEF StopProcess
  <1>2. state \in [Proc -> StorageState] /\ reading \in [Proc -> BOOLEAN]
    BY DEF SafetyInv, TypeInv, TypeOK
  <1>3. /\ \A q \in Proc \ {p} : state'[q] = state[q] /\ reading'[q] = reading[q]
        /\ ~Busy(p)'
    BY <1>2 DEF StopProcess, EmptyState, Busy
  <1>4. \A q \in Proc \ {p} : Chosen(q)' = Chosen(q)
    BY <1>1, <1>3, ChosenKept
  <1>5. /\ kindOf' = [kindOf EXCEPT ![p] = kindOf'[p]]
        /\ contentOf' = [contentOf EXCEPT ![p] = contentOf'[p]]
        /\ floorOf' = [floorOf EXCEPT ![p] = floorOf'[p]]
        /\ versionOf' = [versionOf EXCEPT ![p] = versionOf'[p]]
    BY <1>1, <1>3, <1>4, OthersKept
  <1>6. /\ kindOf'[p] = "idle" /\ contentOf'[p] = Zero /\ floorOf'[p] = NoTag
        /\ versionOf'[p] = Nothing
    BY <1>3 DEF kindOf, contentOf, floorOf, versionOf, Busy
  <1>7. Versions' = Versions
    BY <1>1, VersionsKept
  <1>8. CASE Busy(p)
    <2>1. kindOf[p] # "idle"
      BY <1>8, BusyView
    <2> QED
      BY <1>1, <1>5, <1>6, <1>7, <2>1
         DEF Abstract!Abort, Abstract!SetOperation, Abstract!Nothing, Nothing,
             Abstract!Version, Version, Abstract!NoTag, NoTag
  <1>9. CASE ~Busy(p)
    <2>1. /\ kindOf[p] = "idle" /\ contentOf[p] = Zero /\ floorOf[p] = NoTag
          /\ versionOf[p] = Nothing
      BY <1>9, IdleView
    <2>2. UNCHANGED <<kindOf, contentOf, floorOf, versionOf>>
      <3>1. /\ kindOf = [kindOf EXCEPT ![p] = kindOf[p]]
            /\ contentOf = [contentOf EXCEPT ![p] = contentOf[p]]
            /\ floorOf = [floorOf EXCEPT ![p] = floorOf[p]]
            /\ versionOf = [versionOf EXCEPT ![p] = versionOf[p]]
        BY DEF kindOf, contentOf, floorOf, versionOf
      <3> QED
        BY <1>5, <1>6, <2>1, <3>1
    <2> QED
      BY <1>1, <1>7, <2>2
         DEF Abstract!abstractVars, Abstract!operation, Version, NoTag
  <1> QED
    BY <1>8, <1>9

\* Answers, the recording of them and a restart without a replay leave the value alone.
LEMMA QuietRefines ==
    ASSUME msgs \subseteq msgs', \A n \in msgs' : n.type = "WriteProc" => n \in msgs,
           UNCHANGED <<reading, committed, floor>>,
           \A q \in Proc : \/ state'[q] = state[q]
                           \/ ~state[q].writing /\ ~state'[q].writing /\ ~reading[q]
    PROVE  UNCHANGED Abstract!abstractVars
  <1>1. Versions' = Versions
    BY VersionsKept
  <1>2. \A q \in Proc : Busy(q)' = Busy(q) /\ (Busy(q) => Chosen(q)' = Chosen(q))
    BY ChosenKept DEF Busy
  <1>3. kindOf' = kindOf /\ contentOf' = contentOf /\ floorOf' = floorOf
    BY <1>2 DEF kindOf, contentOf, floorOf
  <1>4. versionOf' = versionOf
    BY <1>2 DEF versionOf
  <1> QED
    BY <1>1, <1>3, <1>4 DEF Abstract!abstractVars, Abstract!operation, Version, NoTag

\* Every step of the registers is a step of the atomic value, or none.
LEMMA RefinementStep ==
    ASSUME NoDiskError, UniqueInv, UniqueInv', [Next]_vars
    PROVE  [Abstract!Next]_Abstract!abstractVars
  <1>1. /\ state \in [Proc -> StorageState] /\ stored \in [Proc -> StorageState]
        /\ reading \in [Proc -> BOOLEAN] /\ SafetyInv /\ SafetyInv'
    BY DEF UniqueInv, SafetyInv, TypeInv, TypeOK
  <1>2. ASSUME NEW p \in Proc, ReadCommand(p) PROVE Abstract!Begin(p)
    <2> DEFINE s == [state[p] EXCEPT !.read_ident = @ + 1]
    <2>1. s \in StorageState
      BY <1>1, NextIdent
    <2>2. /\ BeginOperation(p, s) /\ UNCHANGED committed /\ ~Busy(p)
          /\ reading' = [reading EXCEPT ![p] = TRUE]
      BY <1>2 DEF ReadCommand, CanBegin
    <2>3. Busy(p)' /\ \A q \in Proc \ {p} : reading'[q] = reading[q]
      BY <1>1, <2>2 DEF Busy
    <2> HIDE DEF s
    <2> QED
      BY <1>1, <2>1, <2>2, <2>3, BeginRefines
  <1>3. ASSUME NEW p \in Proc, NEW d \in Written[p], WriteCommand(p, d) PROVE Abstract!Begin(p)
    <2> DEFINE s == [read_ident |-> state[p].read_ident + 1, writing |-> TRUE, writeval |-> d]
    <2>1. s \in StorageState /\ s.writing
      BY <1>1, DataAssumption DEF StorageState
    <2>2. BeginOperation(p, s) /\ UNCHANGED <<committed, reading>> /\ ~Busy(p)
      BY <1>3 DEF WriteCommand, CanBegin
    <2> HIDE DEF s
    <2>3. Busy(p)'
      BY <1>1, <2>1, <2>2 DEF Busy, BeginOperation
    <2> QED
      BY <1>1, <2>1, <2>2, <2>3, BeginRefines
  <1>4. ASSUME NEW p \in Proc, RestartReplay(p) PROVE Abstract!Begin(p)
    <2> DEFINE s == [stored[p] EXCEPT !.read_ident = @ + 1]
    <2>1. s \in StorageState /\ s.writing = stored[p].writing /\ stored[p].writing
      BY <1>1, <1>4, NextIdent DEF RestartReplay
    <2>2. BeginOperation(p, s) /\ UNCHANGED <<committed, reading>> /\ ~up[p]
      BY <1>4 DEF RestartReplay
    <2> HIDE DEF s
    <2>3. ~Busy(p) /\ Busy(p)'
      BY <1>1, <2>1, <2>2 DEF Busy, BeginOperation, SafetyInv, MemoryStored
    <2> QED
      BY <1>1, <2>1, <2>2, <2>3, BeginRefines
  <1>5. ASSUME NEW p \in Proc, NEW m \in msgs,
               HandleReadProc(p, m) \/ HandleWriteProc(p, m) \/ RecordValue(p, m) \/ RecordAck(p, m)
        PROVE  UNCHANGED Abstract!abstractVars
    <2>1. msgs \subseteq msgs' /\ \A n \in msgs' : n.type = "WriteProc" => n \in msgs
      BY <1>5 DEF HandleReadProc, HandleWriteProc, RecordValue, RecordAck, Value, Ack
    <2>2. UNCHANGED <<state, reading, committed, floor>>
      BY <1>5 DEF HandleReadProc, HandleWriteProc, RecordValue, RecordAck, registerVars, auxVars
    <2> QED
      BY <2>1, <2>2, QuietRefines
  <1>6. ASSUME NEW p \in Proc, Restart(p) PROVE UNCHANGED Abstract!abstractVars
    <2>1. state' = [state EXCEPT ![p] = stored[p]] /\ ~stored[p].writing /\ ~up[p]
          /\ UNCHANGED <<msgs, reading, committed, floor>>
      BY <1>6 DEF Restart, auxVars
    <2>2. ~state[p].writing /\ ~reading[p]
      BY <1>1, <2>1 DEF SafetyInv, MemoryStored
    <2>3. \A q \in Proc : \/ state'[q] = state[q]
                          \/ ~state[q].writing /\ ~state'[q].writing /\ ~reading[q]
      BY <1>1, <2>1, <2>2
    <2> QED
      BY <2>1, <2>3, QuietRefines
  <1>7. CASE UNCHANGED vars
    BY <1>7, QuietRefines DEF vars
  <1>8. ASSUME NEW p \in Proc, ClientCommand(p) PROVE Abstract!Next
    BY <1>2, <1>3, <1>8 DEF ClientCommand, Abstract!Next
  <1>9. ASSUME NEW p \in Proc, NEW m \in msgs, SystemCommand(p, m)
        PROVE  [Abstract!Next]_Abstract!abstractVars
    BY <1>5, <1>9, QuorumRefines, AckRefines DEF SystemCommand, Abstract!Next
  <1>10. ASSUME NEW p \in Proc, Fault(p)
         PROVE  [Abstract!Next]_Abstract!abstractVars
    <2>1. ASSUME StopProcess(p) PROVE [Abstract!Next]_Abstract!abstractVars
      BY <1>1, <2>1, StopRefines DEF Abstract!Next
    <2> QED
      BY <1>4, <1>6, <1>10, <2>1 DEF Fault, Crash, TornCrash, Abstract!Next
  <1> QED
    BY <1>7, <1>8, <1>9, <1>10 DEF Next

\* The registers of a sector implement one atomic value with tagged versions, for every
\* number of processes, workload and number of crashes, as long as a tag names one content.
THEOREM RegistersImplement == ASSUME TagsKept PROVE Spec => ImplementsTaggedRegister
  <1>0. NoDiskError
    BY DEF TagsKept, WholeWrites, NoDiskError
  <1>1. Init => Abstract!Init
    BY RefinementInit
  <1>2. UniqueInv /\ UniqueInv' /\ [Next]_vars => [Abstract!Next]_Abstract!abstractVars
    BY <1>0, RefinementStep
  <1> QED
    BY <1>1, <1>2, VersionsAreUnique, PTL DEF Spec, ImplementsTaggedRegister, Abstract!Spec
=============================================================================
