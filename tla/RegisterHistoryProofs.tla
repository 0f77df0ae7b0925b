----------------------- MODULE RegisterHistoryProofs -----------------------
(***************************************************************************)
(* The proof that a sector is linearizable: the commands are put in order  *)
(* one by one, a write when it chooses its tag and a read when it is       *)
(* answered, each behind the commands whose tags are no higher.            *)
(***************************************************************************)
EXTENDS RegisterHistory, RegisterTagProofs, WellFoundedInduction

-----------------------------------------------------------------------------
(* The inductive invariant *)

\* The commands that have a place in the order: those that were answered, and the writes
\* that have broadcast their WriteProc.
InEffect == {i \in Command :
    history[i].done \/ \E p \in Proc : /\ active[p] = i
                                       /\ state[p].writing /\ optag[p] # NoTag}

CommandRecord == [kind : {"read", "write"}, val : Data \cup {NoData}, done : BOOLEAN,
                  before : SUBSET Nat]

HistoryTyped ==
    /\ active \in [Proc -> Nat]
    /\ \E k \in Nat : history \in [1..k -> CommandRecord]
    /\ \A i \in Command : history[i].before \subseteq Answered

\* A busy register executes one command of the history, which is not answered, for its
\* client alone.
ActiveOwn ==
    \A p \in Proc :
        /\ ~Busy(p) => active[p] = 0
        /\ Busy(p) => /\ active[p] \in Command \ Answered
                      /\ history[active[p]].kind = IF reading[p] THEN "read" ELSE "write"
                      /\ state[p].writing => history[active[p]].val = state[p].writeval
                      /\ \A q \in Proc : (Busy(q) /\ active[q] = active[p]) => q = p

\* A read returns what it writes back.
ReadvalBroadcast ==
    \A p \in Proc : \A m \in msgs : (CurrentWrite(p, m) /\ reading[p]) => readval[p] = m.data

\* f is an order of the set S by the tags T, writes first among equals, in which no command
\* precedes one that was answered before it was sent.
SortedBy(h, S, f, T) ==
    /\ f \in Orders(S) /\ T \in [S -> Tag]
    /\ \A i \in S : \E k \in DOMAIN f : f[k] = i
    /\ \A i, j \in DOMAIN f : i < j =>
         /\ f[j] \notin h[f[i]].before
         /\ IF h[f[j]].kind = "write" THEN LT(T[f[i]], T[f[j]]) ELSE LE(T[f[i]], T[f[j]])

\* The tags of commands are bounded by those of the register: what was answered is at most
\* `committed', and what was answered before a command in progress began at most its floor.
TagsInTime(T) ==
    /\ \A i \in Answered : LE(T[i], committed)
    /\ \A p \in Proc : Busy(p) => \A b \in history[active[p]].before : LE(T[b], floor[p])

\* The tag of a command is one that was broadcast for it.
TagsBroadcast(T) ==
    /\ \A p \in Proc : (state[p].writing /\ optag[p] # NoTag) => T[active[p]] = optag[p]
    /\ \A i \in InEffect :
         IF IsWrite(i) THEN T[i] # NoTag /\ \E m \in Writes : m.tag = T[i]
         ELSE T[i] = NoTag \/ \E m \in Writes : m.tag = T[i]

\* Content val is that of the tag: the unwritten one, or what the write with that tag wrote.
ContentOf(T, tag, val) ==
    \/ tag = NoTag /\ val = Zero
    \/ \E w \in InEffect : IsWrite(w) /\ T[w] = tag /\ history[w].val = val

Contents(T) ==
    /\ \A m \in Writes : ContentOf(T, m.tag, m.data)
    /\ \A i \in InEffect : IsWrite(i) \/ ContentOf(T, T[i], history[i].val)

Placed(f, T) ==
    SortedBy(history, InEffect, f, T) /\ TagsInTime(T) /\ TagsBroadcast(T) /\ Contents(T)

HistoryInv ==
    /\ TagInv /\ HistoryTyped /\ ActiveOwn /\ ReadvalBroadcast
    /\ \E f, T : Placed(f, T)

-----------------------------------------------------------------------------
(* Orders *)

\* There is a place behind all commands of a sorted order whose tag is no higher than t.
LEMMA PlaceFor ==
    ASSUME NEW n \in Nat, NEW S, NEW f \in [1..n -> S], NEW T \in [S -> Tag], NEW t \in Tag,
           \A i, j \in 1..n : i < j => LE(T[f[i]], T[f[j]])
    PROVE  \E k \in 1..(n + 1) : \A i \in 1..n :
             IF i < k THEN LE(T[f[i]], t) ELSE LT(t, T[f[i]])
  <1> DEFINE Above == {i \in 1..n : LT(t, T[f[i]])}
  <1>1. \A i \in 1..n : T[f[i]] \in Tag
    OBVIOUS
  <1>2. CASE Above = {}
    <2>1. \A i \in 1..n : LE(T[f[i]], t)
      BY <1>1, <1>2, TagOrder
    <2> QED
      BY <2>1
  <1>3. CASE Above # {}
    <2>1. PICK k \in Above : \A i \in Above : k <= i
      <3> DEFINE R == OpToRel(<, Nat)
      <3>1. IsWellFoundedOn(R, Nat)
        BY NatLessThanWellFounded
      <3>2. \A a, b \in Nat : <<a, b>> \in R <=> a < b
        BY DEF OpToRel
      <3>3. Above \in SUBSET Nat
        OBVIOUS
      <3> HIDE DEF R, Above
      <3>4. PICK k \in Above : \A i \in Above : ~(<<i, k>> \in R)
        BY <1>3, <3>1, <3>3, WFMin
      <3>5. ASSUME NEW i \in Above PROVE k <= i
        <4>1. k \in Nat /\ i \in Nat /\ ~(i < k)
          BY <3>2, <3>3, <3>4
        <4> QED
          BY <4>1
      <3> QED
        BY <3>5
    <2>2. k \in 1..n /\ k \in Nat /\ LT(t, T[f[k]])
      OBVIOUS
    <2>3. ASSUME NEW i \in 1..n PROVE IF i < k THEN LE(T[f[i]], t) ELSE LT(t, T[f[i]])
      <3>1. CASE i < k
        <4>1. i \notin Above
          BY <2>1, <2>2, <3>1
        <4> QED
          BY <1>1, <3>1, <4>1, TagOrder
      <3>2. CASE i = k
        BY <2>2, <3>2
      <3>3. CASE k < i
        <4>1. LE(T[f[k]], T[f[i]])
          BY <2>2, <3>3
        <4> QED
          BY <1>1, <2>2, <3>3, <4>1, TagOrder DEF LE, LT, Tag
      <3> QED
        BY <2>2, <3>1, <3>2, <3>3
    <2>4. k \in 1..(n + 1)
      BY <2>2
    <2> QED
      BY <2>3, <2>4
  <1> QED
    BY <1>2, <1>3

\* f puts the n elements of S in an order.
IsOrder(f, n, S) ==
    /\ f \in [1..n -> S]
    /\ \A i, j \in 1..n : f[i] = f[j] => i = j
    /\ \A e \in S : \E i \in 1..n : f[i] = e

\* An order with x inserted at place k.
InsertAt(f, n, k, x) ==
    [i \in 1..(n + 1) |-> IF i < k THEN f[i] ELSE IF i = k THEN x ELSE f[i - 1]]

LEMMA InsertKeepsOrder ==
    ASSUME NEW n \in Nat, NEW S, NEW f, IsOrder(f, n, S), NEW x, x \notin S,
           NEW k \in 1..(n + 1)
    PROVE  IsOrder(InsertAt(f, n, k, x), n + 1, S \cup {x})
  <1>0. /\ f \in [1..n -> S]
        /\ \A i, j \in 1..n : f[i] = f[j] => i = j
        /\ \A e \in S : \E i \in 1..n : f[i] = e
    BY DEF IsOrder
  <1> DEFINE g == InsertAt(f, n, k, x)
  <1>1. g \in [1..(n + 1) -> S \cup {x}]
    BY <1>0 DEF InsertAt
  <1>2. \A i \in 1..(n + 1) : g[i] = IF i < k THEN f[i] ELSE IF i = k THEN x ELSE f[i - 1]
    BY DEF InsertAt
  <1>3. \A i \in 1..(n + 1) : i # k => g[i] \in S
    BY <1>0, <1>2
  <1> HIDE DEF g
  <1>4. ASSUME NEW i \in 1..(n + 1), NEW j \in 1..(n + 1), g[i] = g[j] PROVE i = j
    <2>1. CASE i = k \/ j = k
      BY <1>0, <1>2, <1>3, <1>4, <2>1
    <2>2. CASE i # k /\ j # k
      BY <1>0, <1>2, <1>4, <2>2
    <2> QED
      BY <2>1, <2>2
  <1>5. ASSUME NEW e \in S \cup {x} PROVE \E i \in 1..(n + 1) : g[i] = e
    <2>1. CASE e = x
      <3>1. g[k] = x
        BY <1>2
      <3> QED
        BY <2>1, <3>1
    <2>2. CASE e \in S
      <3>1. PICK i \in 1..n : f[i] = e
        BY <1>0, <2>2
      <3>2. CASE i < k
        BY <1>2, <3>1, <3>2
      <3>3. CASE i >= k
        <4>1. i + 1 \in 1..(n + 1) /\ g[i + 1] = f[i]
          BY <1>2, <3>3
        <4> QED
          BY <3>1, <4>1
      <3> QED
        BY <3>2, <3>3
    <2> QED
      BY <2>1, <2>2
  <1> QED
    BY <1>1, <1>4, <1>5 DEF g, IsOrder

\* The command x can take a place under the tag t: it was not answered before one of the
\* others was sent, what was answered before it has no higher tag, and a write's tag is new.
Fits(h, S, f, T, x, t) ==
    /\ SortedBy(h, S, f, T) /\ IsFiniteSet(S) /\ x \notin S /\ t \in Tag
    /\ \A i \in S : x \notin h[i].before
    /\ \A b \in h[x].before \cap S : LE(T[b], t)
    /\ h[x].kind = "write" => \A i \in S : T[i] # t

WithTag(S, T, x, t) == [i \in S \cup {x} |-> IF i = x THEN t ELSE T[i]]

\* A command that fits takes its place among the others by its tag.
LEMMA AddCommand ==
    ASSUME NEW h, NEW S, NEW f, NEW T, NEW x, NEW t, Fits(h, S, f, T, x, t)
    PROVE  \E g : SortedBy(h, S \cup {x}, g, WithTag(S, T, x, t))
  <1>0. /\ SortedBy(h, S, f, T) /\ IsFiniteSet(S) /\ x \notin S /\ t \in Tag
        /\ \A i \in S : x \notin h[i].before
        /\ \A b \in h[x].before \cap S : LE(T[b], t)
        /\ h[x].kind = "write" => \A i \in S : T[i] # t
    BY DEF Fits
  <1> DEFINE n == Cardinality(S)
             U == WithTag(S, T, x, t)
  <1>1. n \in Nat /\ Cardinality(S \cup {x}) = n + 1
    BY <1>0, FS_CardinalityType, FS_AddElement
  <1>2. /\ f \in [1..n -> S] /\ T \in [S -> Tag]
        /\ \A i, j \in 1..n : f[i] = f[j] => i = j
        /\ \A e \in S : \E i \in 1..n : f[i] = e
    BY <1>0 DEF SortedBy, Orders
  <1>3. \A i, j \in 1..n : i < j =>
          /\ f[j] \notin h[f[i]].before
          /\ IF h[f[j]].kind = "write" THEN LT(T[f[i]], T[f[j]]) ELSE LE(T[f[i]], T[f[j]])
    BY <1>0, <1>2 DEF SortedBy
  <1> HIDE DEF n
  <1>4. \A i, j \in 1..n : i < j => LE(T[f[i]], T[f[j]])
    BY <1>2, <1>3 DEF LE
  <1>5. PICK k \in 1..(n + 1) : \A i \in 1..n :
          IF i < k THEN LE(T[f[i]], t) ELSE LT(t, T[f[i]])
    BY <1>0, <1>1, <1>2, <1>4, PlaceFor
  <1> DEFINE g == InsertAt(f, n, k, x)
  <1>6. /\ g \in [1..(n + 1) -> S \cup {x}]
        /\ \A i, j \in 1..(n + 1) : g[i] = g[j] => i = j
        /\ \A e \in S \cup {x} : \E i \in 1..(n + 1) : g[i] = e
    <2>1. IsOrder(f, n, S)
      BY <1>2 DEF IsOrder
    <2>2. IsOrder(g, n + 1, S \cup {x})
      BY <1>0, <1>1, <2>1, InsertKeepsOrder
    <2> QED
      BY <2>2 DEF IsOrder
  <1>7. \A i \in 1..(n + 1) : g[i] = IF i < k THEN f[i] ELSE IF i = k THEN x ELSE f[i - 1]
    BY DEF InsertAt
  <1>8. U \in [S \cup {x} -> Tag] /\ U[x] = t /\ \A i \in S : U[i] = T[i]
    BY <1>0, <1>2 DEF WithTag
  <1> HIDE DEF g, U
  <1>9. ASSUME NEW i \in 1..(n + 1), NEW j \in 1..(n + 1), i < j
        PROVE  /\ g[j] \notin h[g[i]].before
               /\ IF h[g[j]].kind = "write" THEN LT(U[g[i]], U[g[j]]) ELSE LE(U[g[i]], U[g[j]])
    <2> DEFINE a == IF i < k THEN i ELSE i - 1
               b == IF j < k THEN j ELSE j - 1
    <2>1. CASE i # k /\ j # k
      <3>1. a \in 1..n /\ b \in 1..n /\ a < b
        BY <1>1, <1>9, <2>1
      <3>2. g[i] = f[a] /\ g[j] = f[b] /\ f[a] \in S /\ f[b] \in S
        BY <1>2, <1>7, <2>1, <3>1
      <3> QED
        BY <1>3, <1>8, <3>1, <3>2
    <2>2. CASE i = k
      <3>1. j - 1 \in 1..n /\ ~(j - 1 < k) /\ g[j] = f[j - 1] /\ g[i] = x /\ f[j - 1] \in S
        BY <1>1, <1>2, <1>7, <1>9, <2>2
      <3>2. LT(t, T[f[j - 1]]) /\ T[f[j - 1]] \in Tag
        BY <1>2, <1>5, <3>1
      <3>3. ~LE(T[f[j - 1]], t)
        BY <1>0, <3>2 DEF LE, LT, Tag
      <3> QED
        BY <1>0, <1>8, <3>1, <3>2, <3>3 DEF LE
    <2>3. CASE j = k
      <3>1. i \in 1..n /\ i < k /\ g[i] = f[i] /\ g[j] = x /\ f[i] \in S
        BY <1>1, <1>2, <1>7, <1>9, <2>3
      <3>2. LE(T[f[i]], t)
        BY <1>5, <3>1
      <3> QED
        BY <1>0, <1>8, <3>1, <3>2 DEF LE
    <2> QED
      BY <2>1, <2>2, <2>3
  <1>10. SortedBy(h, S \cup {x}, g, U)
    <2>1. DOMAIN g = 1..(n + 1)
      BY <1>6
    <2>2. g \in Orders(S \cup {x})
      BY <1>1, <1>6, <2>1 DEF Orders
    <2> QED
      BY <1>6, <1>8, <1>9, <2>1, <2>2 DEF SortedBy
  <1> QED
    BY <1>10 DEF U

-----------------------------------------------------------------------------
(* The order is a linearization *)

\* Commands that were answered have a place; the others that have one are writes.
LEMMA PlacesAre ==
    ASSUME HistoryTyped, ActiveOwn, OneOperation
    PROVE  /\ Answered \subseteq InEffect
           /\ \A i \in InEffect \ Answered : i \in Command /\ IsWrite(i)
           /\ IsFiniteSet(InEffect)
  <1>1. PICK k \in Nat : history \in [1..k -> CommandRecord]
    BY DEF HistoryTyped
  <1>2. Command = 1..k
    BY <1>1 DEF Command
  <1>3. IsFiniteSet(InEffect)
    <2>1. IsFiniteSet(1..k)
      BY FS_Interval
    <2>2. InEffect \subseteq 1..k
      BY <1>2 DEF InEffect
    <2> QED
      BY <2>1, <2>2, FS_Subset
  <1>4. Answered \subseteq InEffect
    BY DEF Answered, InEffect
  <1>5. ASSUME NEW i \in InEffect \ Answered PROVE i \in Command /\ IsWrite(i)
    <2>1. PICK p \in Proc : active[p] = i /\ state[p].writing
      BY DEF InEffect, Answered
    <2>2. Busy(p) /\ ~reading[p]
      BY <2>1 DEF Busy, OneOperation
    <2> QED
      BY <2>1, <2>2 DEF ActiveOwn, IsWrite
  <1> QED
    BY <1>3, <1>4, <1>5

\* In an order by tags the last write before a read is the one whose version it returns.
LEMMA PlacedIsLegal ==
    ASSUME NEW f, NEW T, Placed(f, T), IsFiniteSet(InEffect)
    PROVE  Legal(f)
  <1>1. /\ f \in [1..Cardinality(InEffect) -> InEffect] /\ T \in [InEffect -> Tag]
        /\ \A w \in InEffect : \E k \in DOMAIN f : f[k] = w
    BY DEF Placed, SortedBy, Orders
  <1>2. \A i, j \in DOMAIN f : i < j =>
          IF IsWrite(f[j]) THEN LT(T[f[i]], T[f[j]]) ELSE LE(T[f[i]], T[f[j]])
    BY DEF Placed, SortedBy, IsWrite
  <1>3. DOMAIN f \in SUBSET Nat /\ \A i \in DOMAIN f : \A j \in 1..(i - 1) : j \in DOMAIN f /\ j < i
    <2>1. DOMAIN f = 1..Cardinality(InEffect) /\ Cardinality(InEffect) \in Nat
      BY <1>1, FS_CardinalityType
    <2>2. ASSUME NEW i \in DOMAIN f, NEW j \in 1..(i - 1) PROVE j \in DOMAIN f /\ j < i
      <3>1. i \in Int /\ 1 <= i /\ j \in Int /\ j < i /\ 1 <= j
        BY <2>1
      <3> QED
        BY <2>1, <3>1
    <2> QED
      BY <2>1, <2>2
  <1>4. \A i \in DOMAIN f : f[i] \in InEffect /\ T[f[i]] \in Tag
    BY <1>1
  <1> SUFFICES ASSUME NEW i \in DOMAIN f, ~IsWrite(f[i])
               PROVE  history[f[i]].val = Current(f, i)
    BY DEF Legal
  <1> DEFINE W == {j \in 1..(i - 1) : IsWrite(f[j])}
  <1>5. \A j \in W : j \in DOMAIN f /\ j \in Nat /\ j < i /\ LE(T[f[j]], T[f[i]])
    BY <1>2, <1>3
  <1>6. ContentOf(T, T[f[i]], history[f[i]].val)
    BY <1>4 DEF Placed, Contents
  <1>7. CASE T[f[i]] = NoTag /\ history[f[i]].val = Zero
    <2>1. W = {}
      <3> SUFFICES ASSUME NEW j \in W PROVE FALSE
        OBVIOUS
      <3>1. T[f[j]] \in Tag /\ LE(T[f[j]], NoTag) /\ T[f[j]] # NoTag
        BY <1>4, <1>5, <1>7 DEF Placed, TagsBroadcast
      <3> QED
        BY <3>1 DEF LE, LT, NoTag, Tag
    <2> QED
      BY <1>7, <2>1 DEF Current
  <1>8. ASSUME NEW w \in InEffect, IsWrite(w), T[w] = T[f[i]],
               history[w].val = history[f[i]].val
        PROVE  history[f[i]].val = Current(f, i)
    <2>1. PICK k \in DOMAIN f : f[k] = w
      BY <1>1
    <2>2. k \in Nat /\ i \in Nat
      BY <1>3
    <2>3. k < i
      <3>1. k # i
        BY <1>8, <2>1
      <3>2. ~(i < k)
        <4>1. ~LT(T[w], T[w])
          BY <1>1, <1>8 DEF LT, Tag
        <4> QED
          BY <1>2, <1>8, <2>1, <4>1
      <3> QED
        BY <2>2, <3>1, <3>2
    <2>4. k \in W
      <3>1. k >= 1
        BY <1>1
      <3> QED
        BY <1>8, <2>1, <2>2, <2>3, <3>1
    <2>5. ASSUME NEW j \in W PROVE j <= k
      <3> SUFFICES ASSUME k < j PROVE FALSE
        BY <1>5, <2>2
      <3>1. LT(T[w], T[f[j]]) /\ LE(T[f[j]], T[w])
        BY <1>2, <1>5, <1>8, <2>1
      <3>2. T[w] \in Tag /\ T[f[j]] \in Tag
        BY <1>1, <1>4, <1>5
      <3> QED
        BY <3>1, <3>2 DEF LE, LT, Tag
    <2>6. (CHOOSE j \in W : \A l \in W : l <= j) = k
      <3>1. \A j \in W : (\A l \in W : l <= j) => j = k
        BY <1>5, <2>2, <2>4, <2>5
      <3> HIDE DEF W
      <3> QED
        BY <2>4, <2>5, <3>1
    <2> QED
      BY <1>8, <2>1, <2>4, <2>6 DEF Current
  <1> QED
    BY <1>6, <1>7, <1>8 DEF ContentOf

\* A placement of the commands in effect is a linearization of the history.
LEMMA PlacedIsLinear == HistoryInv => Linearizable
  <1> SUFFICES ASSUME HistoryInv PROVE Linearizable
    OBVIOUS
  <1>1. PICK f, T : Placed(f, T)
    BY DEF HistoryInv
  <1>2. /\ Answered \subseteq InEffect /\ IsFiniteSet(InEffect)
        /\ \A i \in InEffect \ Answered : i \in Command /\ IsWrite(i)
    BY PlacesAre DEF HistoryInv, TagInv, SafetyInv
  <1> DEFINE P == InEffect \ Answered
  <1>3. P \in SUBSET {i \in Command \ Answered : IsWrite(i)} /\ Answered \cup P = InEffect
    BY <1>2
  <1>4. f \in Orders(Answered \cup P) /\ InRealTime(f)
    BY <1>1, <1>3 DEF Placed, SortedBy, InRealTime
  <1>5. Legal(f)
    BY <1>1, <1>2, PlacedIsLegal
  <1> QED
    BY <1>3, <1>4, <1>5 DEF Linearizable
-----------------------------------------------------------------------------
(* What a command in progress knows of the tags *)

\* The tag a write chooses is one nobody broadcast before, above its floor.
LEMMA NewWriteTag ==
    ASSUME TagInv, NEW p \in Proc, NEW m \in msgs, ValueQuorum(p, m), ~reading[p],
           NEW e \in Highest(ListWith(p, m))
    PROVE  /\ WriteTag(p, e) \in Tag /\ WriteTag(p, e) # NoTag
           /\ LT(floor[p], WriteTag(p, e))
           /\ \A x \in Writes : x.tag # WriteTag(p, e)
           /\ optag[p] = NoTag /\ state[p].writing
  <1> DEFINE t == WriteTag(p, e)
  <1>1. /\ e.tag \in Tag /\ LE(floor[p], e.tag) /\ ReadProc(p, state[p].read_ident) \in msgs
        /\ Busy(p)
    BY ChosenVersion DEF TagInv, ValueQuorum
  <1>2. optag[p] = NoTag /\ state[p].writing
    BY <1>1 DEF TagInv, FirstPhaseUntagged, Busy
  <1>3. floor[p] \in Tag
    BY DEF TagInv, SafetyInv, TypeInv, TypeOK
  <1>4. t = <<e.tag[1] + 1, p>> /\ t \in Tag /\ LT(e.tag, t)
    BY <1>1, NextTag DEF WriteTag
  <1>5. t # NoTag /\ t[2] = p
    BY <1>4, NAssumption DEF Proc, NoTag
  <1> HIDE DEF t
  <1>6. LT(floor[p], t)
    BY <1>1, <1>3, <1>4, TagOrder
  <1>7. ASSUME NEW x \in Writes PROVE x.tag # t
    <2>1. x.tag \in Tag /\ x.tag # NoTag
      BY MessageFields DEF Writes, TagInv, SafetyInv, TypeInv, TypeOK
    <2> SUFFICES ASSUME x.tag = t PROVE FALSE
      OBVIOUS
    <2>2. x.tag[2] = p
      BY <1>5
    <2>3. LE(x.tag, floor[p])
      BY <1>2, <2>1, <2>2 DEF TagInv, OwnTagsPast
    <2> QED
      BY <1>3, <1>4, <1>6, <2>3 DEF LE, LT, Tag
  <1> QED
    BY <1>2, <1>4, <1>5, <1>6, <1>7 DEF t

\* When the Acks are a majority the second phase is on: optag is the tag that was broadcast,
\* with the value that was, above the floor of a write and no lower than that of a read.
LEMMA AnswerTag ==
    ASSUME TagInv, NEW p \in Proc, NEW m \in msgs, AckQuorum(p, m)
    PROVE  /\ optag[p] \in Tag /\ LE(floor[p], optag[p])
           /\ ~reading[p] => optag[p] # NoTag
           /\ \E w \in msgs : CurrentWrite(p, w) /\ w.tag = optag[p]
  <1>1. m.type = "Ack" /\ m.dst = p /\ m.rid = state[p].read_ident /\ Busy(p)
    BY DEF AckQuorum, IsCurrentAck
  <1>2. PICK w \in msgs : w.type = "WriteProc" /\ w.src = p /\ w.rid = state[p].read_ident
    BY <1>1 DEF TagInv, SafetyInv, AnswersFollow
  <1>3. CurrentWrite(p, w)
    BY <1>1, <1>2 DEF CurrentWrite
  <1>4. optag[p] = w.tag
    BY <1>3 DEF TagInv, SafetyInv, TagChosen
  <1>5. IF reading[p] THEN LE(floor[p], w.tag) ELSE LT(floor[p], w.tag)
    BY <1>1, <1>2 DEF TagInv, SafetyInv, RealTimeOrder
  <1>6. optag[p] \in Tag /\ floor[p] \in Tag
    BY DEF TagInv, SafetyInv, TypeInv, TypeOK
  <1>7. ~reading[p] => optag[p] # NoTag
    BY <1>4, <1>5, <1>6 DEF LT, NoTag, Tag
  <1> QED
    BY <1>3, <1>4, <1>5, <1>6, <1>7 DEF LE
-----------------------------------------------------------------------------
(* What a step does to the order *)

\* The commands of S are what they were; only their answers may have come.
SameCommands(S) ==
    \A i \in S : /\ history'[i].kind = history[i].kind /\ history'[i].val = history[i].val
                 /\ history'[i].before = history[i].before

\* The tag of a write in progress that has chosen one.
WritersTagged(T) ==
    \A p \in Proc : (state[p].writing /\ optag[p] # NoTag) => T[active[p]] = optag[p]

\* A step after which the same commands are in effect keeps their order.
LEMMA SamePlaces ==
    ASSUME NEW f, NEW T, Placed(f, T), IsFiniteSet(InEffect),
           InEffect' = InEffect, SameCommands(InEffect),
           Writes \subseteq Writes',
           \A m \in Writes' : \E n \in Writes : n.tag = m.tag /\ n.data = m.data,
           TagsInTime(T)', WritersTagged(T)'
    PROVE  Placed(f, T)'
  <1>1. \A i \in InEffect : IsWrite(i)' <=> IsWrite(i)
    BY DEF SameCommands, IsWrite
  <1>2. SortedBy(history, InEffect, f, T)'
    <2>1. SortedBy(history, InEffect, f, T)
      BY DEF Placed
    <2>2. \A i \in DOMAIN f : f[i] \in InEffect
      BY <2>1 DEF SortedBy, Orders
    <2>3. \A i, j \in DOMAIN f : i < j =>
            /\ f[j] \notin history'[f[i]].before
            /\ IF history'[f[j]].kind = "write" THEN LT(T[f[i]], T[f[j]])
                                                ELSE LE(T[f[i]], T[f[j]])
      BY <2>1, <2>2 DEF SortedBy, SameCommands
    <2> QED
      BY <2>1, <2>3 DEF SortedBy, Orders
  <1>3. TagsBroadcast(T)'
    <2>1. \A i \in InEffect : IF IsWrite(i)' THEN T[i] # NoTag /\ \E m \in Writes' : m.tag = T[i]
                              ELSE T[i] = NoTag \/ \E m \in Writes' : m.tag = T[i]
      BY <1>1 DEF Placed, TagsBroadcast
    <2> QED
      BY <2>1 DEF TagsBroadcast, WritersTagged
  <1>4. ASSUME NEW tag, NEW val, ContentOf(T, tag, val) PROVE ContentOf(T, tag, val)'
    BY <1>1, <1>4 DEF ContentOf, SameCommands
  <1>5. Contents(T)'
    <2>1. ASSUME NEW m \in Writes' PROVE ContentOf(T, m.tag, m.data)'
      <3>1. PICK n \in Writes : n.tag = m.tag /\ n.data = m.data
        OBVIOUS
      <3>2. ContentOf(T, m.tag, m.data)
        BY <3>1 DEF Placed, Contents
      <3> QED
        BY <1>4, <3>2
    <2>2. ASSUME NEW i \in InEffect' PROVE IsWrite(i)' \/ ContentOf(T, T[i], history[i].val)'
      <3>1. CASE ~IsWrite(i)
        <4>1. PICK v : v = history[i].val
          OBVIOUS
        <4>2. ContentOf(T, T[i], v) /\ v = history'[i].val
          BY <3>1, <4>1 DEF Placed, Contents, SameCommands
        <4>3. ContentOf(T, T[i], v)'
          BY <1>4, <4>2
        <4> QED
          BY <4>2, <4>3 DEF ContentOf
      <3> QED
        BY <1>1, <3>1
    <2> QED
      BY <2>1, <2>2 DEF Contents
  <1> QED
    BY <1>2, <1>3, <1>5 DEF Placed

\* A step that puts the command x into effect under the tag t.
LEMMA NewPlace ==
    ASSUME NEW f, NEW T, Placed(f, T), IsFiniteSet(InEffect),
           NEW x, x \notin InEffect, InEffect' = InEffect \cup {x}, NEW t \in Tag,
           SameCommands(InEffect),
           \A i \in InEffect : x \notin history[i].before,
           \A b \in history'[x].before \cap InEffect : LE(T[b], t),
           Writes \subseteq Writes',
           IF IsWrite(x)'
           THEN /\ t # NoTag /\ \A m \in Writes : m.tag # t
                /\ \E m \in Writes' : m.tag = t
                /\ \A m \in Writes' \ Writes : m.tag = t /\ m.data = history'[x].val
           ELSE /\ Writes' = Writes
                /\ \/ t = NoTag /\ history'[x].val = Zero
                   \/ \E m \in Writes : m.tag = t /\ m.data = history'[x].val,
           NEW U, U = WithTag(InEffect, T, x, t),
           TagsInTime(U)', WritersTagged(U)'
    PROVE  \E g : Placed(g, U)'
  <1>0. T \in [InEffect -> Tag]
    BY DEF Placed, SortedBy
  <1>1. \A i \in InEffect : IsWrite(i)' <=> IsWrite(i)
    BY DEF SameCommands, IsWrite
  <1>2. U[x] = t /\ \A i \in InEffect : U[i] = T[i] /\ i # x
    BY DEF WithTag
  <1>3. \A i \in InEffect : T[i] = NoTag \/ \E m \in Writes : m.tag = T[i]
    BY DEF Placed, TagsBroadcast
  <1>4. PICK g : SortedBy(history', InEffect \cup {x}, g, U)
    <2>1. SortedBy(history, InEffect, f, T)
      BY DEF Placed
    <2>2. \A i \in DOMAIN f : f[i] \in InEffect
      BY <2>1 DEF SortedBy, Orders
    <2>3. \A i, j \in DOMAIN f : i < j =>
            /\ f[j] \notin history'[f[i]].before
            /\ IF history'[f[j]].kind = "write" THEN LT(T[f[i]], T[f[j]])
                                                ELSE LE(T[f[i]], T[f[j]])
      BY <2>1, <2>2 DEF SortedBy, SameCommands
    <2>4. SortedBy(history', InEffect, f, T)
      BY <2>1, <2>3 DEF SortedBy
    <2>5. \A i \in InEffect : x \notin history'[i].before
      BY DEF SameCommands
    <2>6. history'[x].kind = "write" => \A i \in InEffect : T[i] # t
      BY <1>3 DEF IsWrite
    <2>7. PICK h, S : h = history' /\ S = InEffect
      OBVIOUS
    <2>8. Fits(h, S, f, T, x, t)
      BY <2>4, <2>5, <2>6, <2>7 DEF Fits
    <2>9. \E g : SortedBy(h, S \cup {x}, g, WithTag(S, T, x, t))
      BY <2>8, AddCommand
    <2> QED
      BY <2>7, <2>9
  <1>5. SortedBy(history, InEffect, g, U)'
    BY <1>4 DEF SortedBy, Orders
  <1>6. TagsBroadcast(U)'
    <2>1. ASSUME NEW i \in InEffect
          PROVE  IF IsWrite(i)' THEN U[i] # NoTag /\ \E m \in Writes' : m.tag = U[i]
                 ELSE U[i] = NoTag \/ \E m \in Writes' : m.tag = U[i]
      BY <1>1, <1>2 DEF Placed, TagsBroadcast
    <2>2. IF IsWrite(x)' THEN U[x] # NoTag /\ \E m \in Writes' : m.tag = U[x]
          ELSE U[x] = NoTag \/ \E m \in Writes' : m.tag = U[x]
      BY <1>2
    <2> QED
      BY <2>1, <2>2 DEF TagsBroadcast, WritersTagged
  <1>7. ASSUME NEW tag, NEW val, ContentOf(T, tag, val) PROVE ContentOf(U, tag, val)'
    BY <1>1, <1>2, <1>7 DEF ContentOf, SameCommands
  <1>8. Contents(U)'
    <2>1. ASSUME NEW m \in Writes' PROVE ContentOf(U, m.tag, m.data)'
      <3>1. CASE m \in Writes
        <4>1. ContentOf(T, m.tag, m.data)
          BY <3>1 DEF Placed, Contents
        <4> QED
          BY <1>7, <4>1
      <3>2. CASE m \notin Writes
        BY <1>2, <3>2 DEF ContentOf
      <3> QED
        BY <3>1, <3>2
    <2>2. ASSUME NEW i \in InEffect PROVE IsWrite(i)' \/ ContentOf(U, U[i], history[i].val)'
      <3>1. CASE ~IsWrite(i)
        <4>1. PICK v : v = history[i].val
          OBVIOUS
        <4>2. ContentOf(T, T[i], v) /\ v = history'[i].val /\ U[i] = T[i]
          BY <1>2, <3>1, <4>1 DEF Placed, Contents, SameCommands
        <4>3. ContentOf(U, T[i], v)'
          BY <1>7, <4>2
        <4> QED
          BY <4>2, <4>3 DEF ContentOf
      <3> QED
        BY <1>1, <3>1
    <2>3. IsWrite(x)' \/ ContentOf(U, U[x], history[x].val)'
      <3>1. CASE ~IsWrite(x)'
        <4>1. CASE t = NoTag /\ history'[x].val = Zero
          BY <1>2, <4>1 DEF ContentOf
        <4>2. ASSUME NEW m \in Writes, m.tag = t, m.data = history'[x].val
              PROVE  ContentOf(U, U[x], history[x].val)'
          <5>1. ContentOf(U, m.tag, m.data)'
            BY <2>1, <4>2
          <5> QED
            BY <1>2, <4>2, <5>1 DEF ContentOf
        <4> QED
          BY <3>1, <4>1, <4>2
      <3> QED
        BY <3>1
    <2> QED
      BY <2>1, <2>2, <2>3 DEF Contents
  <1> QED
    BY <1>5, <1>6, <1>8 DEF Placed
-----------------------------------------------------------------------------
(* The steps *)

\* What the invariant says of types, and of the commands in effect.
LEMMA HistoryFacts ==
    ASSUME HistoryInv
    PROVE  /\ state \in [Proc -> StorageState] /\ reading \in [Proc -> BOOLEAN]
           /\ readval \in [Proc -> Data \cup {NoData}] /\ optag \in [Proc -> Tag]
           /\ floor \in [Proc -> Tag] /\ committed \in Tag /\ active \in [Proc -> Nat]
           /\ OneOperation /\ IsFiniteSet(InEffect) /\ Answered \subseteq InEffect
           /\ \A i \in Command : history[i].before \subseteq InEffect
           /\ \A p \in Proc : Busy(p) =>
                /\ active[p] \in Command \ Answered
                /\ active[p] \in InEffect <=> (state[p].writing /\ optag[p] # NoTag)
                /\ \A i \in Command : active[p] \notin history[i].before
  <1>1. /\ state \in [Proc -> StorageState] /\ reading \in [Proc -> BOOLEAN]
        /\ readval \in [Proc -> Data \cup {NoData}] /\ optag \in [Proc -> Tag]
        /\ floor \in [Proc -> Tag] /\ committed \in Tag /\ active \in [Proc -> Nat]
        /\ OneOperation
    BY DEF HistoryInv, TagInv, SafetyInv, TypeInv, TypeOK, HistoryTyped
  <1>2. IsFiniteSet(InEffect) /\ Answered \subseteq InEffect
    BY <1>1, PlacesAre DEF HistoryInv
  <1>3. \A i \in Command : history[i].before \subseteq Answered
    BY DEF HistoryInv, HistoryTyped
  <1>4. ASSUME NEW p \in Proc, Busy(p)
        PROVE  /\ active[p] \in Command \ Answered
               /\ active[p] \in InEffect <=> (state[p].writing /\ optag[p] # NoTag)
    <2>1. active[p] \in Command \ Answered
      BY <1>4 DEF HistoryInv, ActiveOwn
    <2>2. \A q \in Proc : (state[q].writing /\ active[q] = active[p]) => q = p
      BY <1>4 DEF HistoryInv, ActiveOwn, Busy
    <2> QED
      BY <2>1, <2>2 DEF InEffect, Answered
  <1> QED
    BY <1>1, <1>2, <1>3, <1>4

\* Answers to a broadcast, and recording them, are no events of the history.
LEMMA QuietHistory ==
    ASSUME HistoryInv, TagInv', msgs \subseteq msgs',
           \A n \in msgs' \ msgs : n.type \in {"Value", "Ack"},
           UNCHANGED <<history, active, state, reading, readval, committed, floor, optag>>
    PROVE  HistoryInv'
  <1>1. PICK f, T : Placed(f, T)
    BY DEF HistoryInv
  <1>2. Writes' = Writes
    BY DEF Writes
  <1>3. Command' = Command /\ Answered' = Answered /\ InEffect' = InEffect
    BY DEF Command, Answered, InEffect
  <1>4. \A p \in Proc : Busy(p)' <=> Busy(p)
    BY DEF Busy
  <1>5. HistoryTyped' /\ ActiveOwn'
    BY <1>3, <1>4 DEF HistoryInv, HistoryTyped, ActiveOwn
  <1>6. ReadvalBroadcast'
    <2>1. \A p \in Proc : \A m \in msgs' : CurrentWrite(p, m)' => m \in msgs /\ CurrentWrite(p, m)
      BY <1>4 DEF CurrentWrite
    <2> QED
      BY <2>1 DEF HistoryInv, ReadvalBroadcast
  <1>7. TagsInTime(T)' /\ WritersTagged(T)' /\ SameCommands(InEffect)
    BY <1>1, <1>3, <1>4 DEF Placed, TagsInTime, TagsBroadcast, WritersTagged, SameCommands
  <1>8. Placed(f, T)'
    BY <1>1, <1>2, <1>3, <1>7, HistoryFacts, SamePlaces
  <1> QED
    BY <1>5, <1>6, <1>8 DEF HistoryInv

\* A command is sent: it knows what was answered before, and has no place yet.
LEMMA BeginHistory ==
    ASSUME HistoryInv, TagInv', NEW p \in Proc, NEW s \in StorageState,
           NEW kind \in {"read", "write"}, NEW val \in Data \cup {NoData},
           BeginOperation(p, s), Invoke(p, kind, val), ~Busy(p), UNCHANGED committed,
           \A q \in Proc \ {p} : reading'[q] = reading[q] /\ readval'[q] = readval[q],
           kind = "read" <=> reading'[p], kind = "write" <=> s.writing,
           s.writing => s.writeval = val
    PROVE  HistoryInv'
  <1>0. /\ state \in [Proc -> StorageState] /\ optag \in [Proc -> Tag]
        /\ floor \in [Proc -> Tag] /\ active \in [Proc -> Nat]
        /\ IsFiniteSet(InEffect) /\ Answered \subseteq InEffect
        /\ \A q \in Proc : Busy(q) => active[q] \in Command \ Answered
    BY HistoryFacts
  <1>1. PICK f, T : Placed(f, T)
    BY DEF HistoryInv
  <1>2. PICK k \in Nat : history \in [1..k -> CommandRecord]
    BY DEF HistoryInv, HistoryTyped
  <1>3. Command = 1..k /\ Cardinality(Command) = k
    BY <1>2, FS_Interval DEF Command
  <1> DEFINE x == k + 1
             c == [kind |-> kind, val |-> val, done |-> FALSE, before |-> Answered]
  <1>4. c \in CommandRecord
    BY <1>3 DEF CommandRecord, Answered
  <1>5. /\ history' = [j \in Command \cup {x} |-> IF j = x THEN c ELSE history[j]]
        /\ active' = [active EXCEPT ![p] = x]
    BY <1>3 DEF Invoke
  <1>6. /\ state' = [state EXCEPT ![p] = s]
        /\ msgs' = msgs \cup {ReadProc(p, s.read_ident)}
        /\ floor' = [floor EXCEPT ![p] = committed] /\ optag' = [optag EXCEPT ![p] = NoTag]
    BY DEF BeginOperation
  <1>7. \A q \in Proc \ {p} : /\ state'[q] = state[q] /\ floor'[q] = floor[q]
                              /\ optag'[q] = optag[q] /\ active'[q] = active[q]
                              /\ Busy(q)' <=> Busy(q)
    BY <1>0, <1>5, <1>6 DEF Busy
  <1>8. /\ state'[p] = s /\ floor'[p] = committed /\ optag'[p] = NoTag /\ active'[p] = x
        /\ Busy(p)'
    BY <1>0, <1>5, <1>6 DEF Busy
  <1>9. /\ x \notin Command /\ Command' = Command \cup {x} /\ Command \cup {x} = 1..x
        /\ history'[x] = c /\ \A j \in Command : history'[j] = history[j]
    BY <1>3, <1>5 DEF Command
  <1>10. c.done = FALSE /\ c.kind = kind /\ c.val = val /\ c.before = Answered
    OBVIOUS
  <1> HIDE DEF x, c
  <1>11. Answered' = Answered
    BY <1>9, <1>10 DEF Answered
  <1>12. InEffect' = InEffect
    <2>1. \A j \in Command : j \in InEffect' <=> j \in InEffect
      <3>1. \A j \in Command :
              (\E q \in Proc : active'[q] = j /\ state'[q].writing /\ optag'[q] # NoTag)
              <=> (\E q \in Proc : active[q] = j /\ state[q].writing /\ optag[q] # NoTag)
        BY <1>0, <1>7, <1>8, <1>9 DEF Busy
      <3> QED
        BY <1>9, <3>1 DEF InEffect
    <2>2. x \notin InEffect'
      <3>1. \A q \in Proc : (active'[q] = x /\ state'[q].writing) => q = p
        BY <1>0, <1>7, <1>9 DEF Busy
      <3> QED
        BY <1>8, <1>9, <1>10, <3>1 DEF InEffect
    <2> QED
      BY <1>9, <2>1, <2>2 DEF InEffect
  <1>13. HistoryTyped'
    <2>1. x \in Nat /\ history' \in [1..x -> CommandRecord]
      BY <1>2, <1>4, <1>5, <1>9 DEF x, Command
    <2>2. active' \in [Proc -> Nat]
      BY <1>0, <1>5, <2>1
    <2>3. \A i \in Command' : history'[i].before \subseteq Answered'
      BY <1>9, <1>10, <1>11 DEF HistoryInv, HistoryTyped
    <2> QED
      BY <2>1, <2>2, <2>3 DEF HistoryTyped
  <1>14. ActiveOwn'
    <2>1. \A q \in Proc : (Busy(q)' /\ active'[q] = x) => q = p
      BY <1>0, <1>7, <1>9
    <2>2. active'[p] \in Command' \ Answered'
      BY <1>8, <1>9, <1>11 DEF Answered
    <2>3. /\ history'[active'[p]].kind = IF reading'[p] THEN "read" ELSE "write"
          /\ state'[p].writing => history'[active'[p]].val = state'[p].writeval
      BY <1>8, <1>9, <1>10
    <2>4. ASSUME NEW q \in Proc, q # p
          PROVE  /\ ~Busy(q)' => active'[q] = 0
                 /\ Busy(q)' => /\ active'[q] \in Command' \ Answered'
                                /\ history'[active'[q]].kind = IF reading'[q] THEN "read" ELSE "write"
                                /\ state'[q].writing => history'[active'[q]].val = state'[q].writeval
                                /\ \A r \in Proc : (Busy(r)' /\ active'[r] = active'[q]) => r = q
      BY <1>0, <1>7, <1>8, <1>9, <1>11, <2>4 DEF HistoryInv, ActiveOwn
    <2> QED
      BY <1>8, <2>1, <2>2, <2>3, <2>4 DEF ActiveOwn
  <1>15. ReadvalBroadcast'
    <2> SUFFICES ASSUME NEW q \in Proc, NEW m \in msgs', CurrentWrite(q, m)', reading'[q]
                 PROVE  readval'[q] = m.data
      BY DEF ReadvalBroadcast
    <2>1. /\ ReadProc(p, s.read_ident).type = "ReadProc" /\ ReadProc(p, s.read_ident).src = p
          /\ ReadProc(p, s.read_ident).rid = s.read_ident /\ ReadProc(p, s.read_ident) \in msgs'
      BY <1>6 DEF ReadProc
    <2>2. m.type = "WriteProc" /\ m.src = q /\ m.rid = state'[q].read_ident
      BY DEF CurrentWrite
    <2>3. q # p
      BY <1>8, <2>1, <2>2 DEF TagInv, SafetyInv, ReadIdentFresh
    <2>4. m \in msgs /\ CurrentWrite(q, m)
      BY <1>6, <1>7, <2>1, <2>2, <2>3 DEF CurrentWrite
    <2> QED
      BY <2>3, <2>4 DEF HistoryInv, ReadvalBroadcast
  <1>16. Writes' = Writes
    BY <1>6 DEF Writes, ReadProc
  <1>17. SameCommands(InEffect)
    BY <1>9 DEF SameCommands, InEffect
  <1>18. TagsInTime(T)'
    <2>1. ASSUME NEW q \in Proc, Busy(q)', NEW b \in history'[active'[q]].before
          PROVE  LE(T[b], floor'[q])
      <3>1. CASE q = p
        BY <1>1, <1>8, <1>9, <1>10, <3>1 DEF Placed, TagsInTime
      <3>2. CASE q # p
        BY <1>0, <1>1, <1>7, <1>9, <2>1, <3>2 DEF Placed, TagsInTime
      <3> QED
        BY <3>1, <3>2
    <2> QED
      BY <1>1, <1>11, <2>1 DEF Placed, TagsInTime
  <1>19. WritersTagged(T)'
    BY <1>1, <1>7, <1>8 DEF Placed, TagsBroadcast, WritersTagged
  <1>20. Placed(f, T)'
    BY <1>0, <1>1, <1>12, <1>16, <1>17, <1>18, <1>19, SamePlaces
  <1> QED
    BY <1>13, <1>14, <1>15, <1>20 DEF HistoryInv
\* At a quorum of Values a read finds a version that exists, and a write takes its place: its
\* tag is new, and above those of all that was answered before it was sent.
LEMMA QuorumHistory ==
    ASSUME HistoryInv, TagInv', NEW p \in Proc, NEW m \in msgs, ValueQuorum(p, m),
           UNCHANGED historyVars
    PROVE  HistoryInv'
  <1> DEFINE s == [state[p] EXCEPT !.read_ident = @ + 1]
  <1>0. /\ state \in [Proc -> StorageState] /\ reading \in [Proc -> BOOLEAN]
        /\ readval \in [Proc -> Data \cup {NoData}] /\ optag \in [Proc -> Tag]
        /\ floor \in [Proc -> Tag] /\ OneOperation
        /\ IsFiniteSet(InEffect) /\ Answered \subseteq InEffect
        /\ \A i \in Command : history[i].before \subseteq InEffect
        /\ \A q \in Proc : Busy(q) =>
             /\ active[q] \in Command \ Answered
             /\ active[q] \in InEffect <=> (state[q].writing /\ optag[q] # NoTag)
             /\ \A i \in Command : active[q] \notin history[i].before
    BY HistoryFacts
  <1>1. PICK e \in Highest(ListWith(p, m)) :
          /\ readval' = [readval EXCEPT ![p] = IF reading[p] THEN e.data ELSE @]
          /\ state' = [state EXCEPT ![p] = s]
          /\ msgs' = msgs \cup {WriteProc(p, s.read_ident, WriteTag(p, e), WriteData(p, e))}
          /\ optag' = [optag EXCEPT ![p] = WriteTag(p, e)]
    BY DEF ValueQuorum
  <1> DEFINE w == WriteProc(p, s.read_ident, WriteTag(p, e), WriteData(p, e))
  <1>2. /\ w.type = "WriteProc" /\ w.src = p /\ w.rid = s.read_ident
        /\ w.tag = WriteTag(p, e) /\ w.data = WriteData(p, e)
    BY DEF WriteProc
  <1>3. /\ msgs' = msgs \cup {w} /\ Busy(p)
        /\ UNCHANGED <<reading, committed, floor, history, active>>
    BY <1>1 DEF ValueQuorum, historyVars
  <1>4. s.writing = state[p].writing /\ s.writeval = state[p].writeval
    BY <1>0, NextIdent
  <1>5. PICK f, T : Placed(f, T)
    BY DEF HistoryInv
  <1> HIDE DEF s, w
  <1>6. /\ \A q \in Proc \ {p} : /\ state'[q] = state[q] /\ optag'[q] = optag[q]
                                 /\ readval'[q] = readval[q]
        /\ state'[p] = s /\ optag'[p] = w.tag
        /\ readval'[p] = IF reading[p] THEN e.data ELSE readval[p]
    BY <1>0, <1>1, <1>2
  <1>7. \A q \in Proc : /\ state'[q].writing = state[q].writing
                        /\ state'[q].writeval = state[q].writeval
                        /\ Busy(q)' <=> Busy(q)
    BY <1>3, <1>4, <1>6 DEF Busy
  <1>8. Command' = Command /\ Answered' = Answered
    BY <1>3 DEF Command, Answered
  <1>9. HistoryTyped' /\ ActiveOwn'
    BY <1>3, <1>7, <1>8 DEF HistoryInv, HistoryTyped, ActiveOwn
  <1>10. ReadvalBroadcast'
    <2> SUFFICES ASSUME NEW q \in Proc, NEW n \in msgs', CurrentWrite(q, n)', reading[q]
                 PROVE  readval'[q] = n.data
      BY <1>3 DEF ReadvalBroadcast
    <2>1. n.type = "WriteProc" /\ n.src = q /\ n.rid = state'[q].read_ident
      BY DEF CurrentWrite
    <2>2. CASE q = p
      <3>1. n = w
        BY <1>2, <1>3, <1>6, <2>1, <2>2 DEF TagInv, SafetyInv, ReadIdentFresh
      <3> QED
        BY <1>2, <1>6, <2>2, <3>1 DEF WriteData
    <2>3. CASE q # p
      <3>1. n \in msgs /\ CurrentWrite(q, n)
        BY <1>2, <1>3, <1>6, <1>7, <2>1, <2>3 DEF CurrentWrite
      <3> QED
        BY <1>6, <2>3, <3>1 DEF HistoryInv, ReadvalBroadcast
    <2> QED
      BY <2>2, <2>3
  <1>11. \A S : SameCommands(S)
    BY <1>3 DEF SameCommands
  <1>12. Writes \subseteq Writes'
    BY <1>3 DEF Writes
  <1>13. CASE reading[p]
    <2>1. ~state[p].writing /\ w.tag = e.tag /\ w.data = e.data
      BY <1>0, <1>2, <1>13 DEF OneOperation, WriteTag, WriteData
    <2>2. IsVersion(w.tag, w.data)
      BY <2>1, ChosenVersion DEF HistoryInv, TagInv
    <2>3. \A x \in Writes' : \E n \in Writes : n.tag = x.tag /\ n.data = x.data
      BY <1>3, <2>2 DEF Writes, IsVersion
    <2>4. \A q \in Proc : state[q].writing => optag'[q] = optag[q]
      BY <1>6, <2>1
    <2>5. InEffect' = InEffect
      BY <1>3, <1>7, <1>8, <2>4 DEF InEffect
    <2>6. TagsInTime(T)' /\ WritersTagged(T)'
      BY <1>3, <1>5, <1>7, <1>8, <2>4 DEF Placed, TagsInTime, TagsBroadcast, WritersTagged
    <2>7. Placed(f, T)'
      BY <1>0, <1>5, <1>11, <1>12, <2>3, <2>5, <2>6, SamePlaces
    <2> QED
      BY <1>9, <1>10, <2>7 DEF HistoryInv
  <1>14. CASE ~reading[p]
    <2>1. PICK x, t : x = active[p] /\ t = w.tag
      OBVIOUS
    <2>2. /\ t \in Tag /\ t # NoTag /\ LT(floor[p], t)
          /\ \A n \in Writes : n.tag # t
          /\ optag[p] = NoTag /\ state[p].writing
      BY <1>2, <1>14, <2>1, NewWriteTag DEF HistoryInv
    <2>3. /\ x \in Command /\ x \notin Answered /\ x \notin InEffect
          /\ \A i \in InEffect : x \notin history[i].before
      BY <1>0, <1>3, <2>1, <2>2 DEF InEffect
    <2>4. IsWrite(x)' /\ history'[x].val = w.data
      BY <1>2, <1>3, <1>14, <2>1, <2>2 DEF HistoryInv, ActiveOwn, IsWrite, WriteData
    <2>5. InEffect' = InEffect \cup {x}
      <3>1. \A q \in Proc \ {p} : /\ state'[q].writing <=> state[q].writing
                                  /\ active'[q] = active[q] /\ optag'[q] = optag[q]
        BY <1>3, <1>6
      <3>2. active'[p] = x /\ state'[p].writing /\ optag'[p] # NoTag /\ optag[p] = NoTag
        BY <1>3, <1>6, <1>7, <2>1, <2>2
      <3>3. \A i : (\E q \in Proc : active'[q] = i /\ state'[q].writing /\ optag'[q] # NoTag)
               <=> \/ i = x
                   \/ \E q \in Proc : active[q] = i /\ state[q].writing /\ optag[q] # NoTag
        BY <3>1, <3>2
      <3> QED
        BY <1>3, <1>8, <2>3, <3>3 DEF InEffect
    <2>6. PICK U : U = WithTag(InEffect, T, x, t)
      OBVIOUS
    <2>7. U[x] = t /\ \A i \in InEffect : U[i] = T[i]
      BY <2>3, <2>6 DEF WithTag
    <2>8. TagsInTime(U)'
      <3>1. \A i \in Answered : LE(U[i], committed)
        BY <1>0, <1>5, <2>7 DEF Placed, TagsInTime
      <3>2. \A q \in Proc : Busy(q) => \A b \in history[active[q]].before : LE(U[b], floor[q])
        BY <1>0, <1>5, <2>7 DEF Placed, TagsInTime
      <3> QED
        BY <1>3, <1>7, <1>8, <3>1, <3>2 DEF TagsInTime
    <2>9. WritersTagged(U)'
      <3> SUFFICES ASSUME NEW q \in Proc, state'[q].writing, optag'[q] # NoTag
                   PROVE  U[active[q]] = optag'[q]
        BY <1>3 DEF WritersTagged
      <3>1. CASE q = p
        BY <1>6, <2>1, <2>7, <3>1
      <3>2. CASE q # p
        <4>1. state[q].writing /\ optag[q] # NoTag /\ Busy(q)
          BY <1>6, <3>2 DEF Busy
        <4>2. active[q] \in InEffect /\ T[active[q]] = optag[q]
          BY <1>0, <1>5, <4>1 DEF Placed, TagsBroadcast
        <4> QED
          BY <1>6, <2>7, <3>2, <4>2
      <3> QED
        BY <3>1, <3>2
    <2>10. \A b \in history'[x].before \cap InEffect : LE(T[b], t)
      <3> SUFFICES ASSUME NEW b \in InEffect, b \in history[x].before PROVE LE(T[b], t)
        BY <1>3
      <3>1. LE(T[b], floor[p])
        BY <1>3, <1>5, <2>1 DEF Placed, TagsInTime
      <3>2. T[b] \in Tag /\ floor[p] \in Tag
        BY <1>0, <1>5 DEF Placed, SortedBy
      <3> QED
        BY <2>2, <3>1, <3>2, TagOrder
    <2>11. /\ \E n \in Writes' : n.tag = t
           /\ \A n \in Writes' \ Writes : n.tag = t /\ n.data = history'[x].val
      BY <1>2, <1>3, <2>1, <2>2, <2>4 DEF Writes
    <2>12. \E g : Placed(g, U)'
      BY <1>0, <1>5, <1>11, <1>12, <2>2, <2>3, <2>4, <2>5, <2>6, <2>8, <2>9, <2>10, <2>11,
         NewPlace
    <2> QED
      BY <1>9, <1>10, <2>12 DEF HistoryInv
  <1> QED
    BY <1>13, <1>14
\* A command is answered: a write has its place already, a read takes the one behind the
\* write whose version it returns.
LEMMA AnswerHistory ==
    ASSUME NoDiskError, HistoryInv, TagInv', NEW p \in Proc, NEW m \in msgs,
           AckQuorum(p, m), Respond(p)
    PROVE  HistoryInv'
  <1>0. /\ state \in [Proc -> StorageState] /\ reading \in [Proc -> BOOLEAN]
        /\ readval \in [Proc -> Data \cup {NoData}] /\ optag \in [Proc -> Tag]
        /\ floor \in [Proc -> Tag] /\ committed \in Tag /\ active \in [Proc -> Nat]
        /\ OneOperation /\ IsFiniteSet(InEffect) /\ Answered \subseteq InEffect
        /\ \A i \in Command : history[i].before \subseteq InEffect
        /\ \A q \in Proc : Busy(q) =>
             /\ active[q] \in Command \ Answered
             /\ active[q] \in InEffect <=> (state[q].writing /\ optag[q] # NoTag)
             /\ \A i \in Command : active[q] \notin history[i].before
    BY HistoryFacts
  <1>1. /\ Busy(p) /\ committed' = Higher(committed, optag[p])
        /\ UNCHANGED <<readval, msgs, floor, optag>>
    BY DEF AckQuorum
  <1>2. /\ \A q \in Proc \ {p} : state'[q] = state[q] /\ reading'[q] = reading[q]
        /\ state'[p].read_ident = state[p].read_ident
        /\ ~state'[p].writing /\ ~reading'[p]
    <2>1. CASE reading[p]
      BY <1>0, <2>1 DEF AckQuorum, OneOperation
    <2>2. CASE ~reading[p]
      <3> DEFINE s == [state[p] EXCEPT !.writing = FALSE]
      <3>1. s.read_ident = state[p].read_ident /\ ~s.writing
        BY <1>0 DEF StorageState
      <3>2. state' = [state EXCEPT ![p] = s] /\ reading' = reading
        BY <2>2 DEF AckQuorum
      <3> HIDE DEF s
      <3> QED
        BY <1>0, <2>2, <3>1, <3>2
    <2> QED
      BY <2>1, <2>2
  <1>3. /\ ~Busy(p)' /\ \A q \in Proc \ {p} : Busy(q)' <=> Busy(q)
    BY <1>2 DEF Busy
  <1>4. PICK x : x = active[p]
    OBVIOUS
  <1>5. PICK k \in Nat : history \in [1..k -> CommandRecord]
    BY DEF HistoryInv, HistoryTyped
  <1>6. /\ x \in Command /\ x \notin Answered /\ Command = 1..k
        /\ \A i \in Command : x \notin history[i].before
    BY <1>0, <1>1, <1>4, <1>5 DEF Command
  <1> DEFINE c == [history[x] EXCEPT !.done = TRUE, !.val = IF reading[p] THEN readval[p] ELSE @]
  <1>7. /\ history' = [j \in Command |-> IF j # x THEN history[j] ELSE c]
        /\ active' = [active EXCEPT ![p] = 0]
    BY <1>4 DEF Respond
  <1>8. /\ c \in CommandRecord /\ c.kind = history[x].kind /\ c.before = history[x].before
        /\ c.done = TRUE /\ c.val = IF reading[p] THEN readval[p] ELSE history[x].val
    BY <1>0, <1>5, <1>6 DEF CommandRecord
  <1> HIDE DEF c
  <1>9. /\ Command' = Command /\ history'[x] = c
        /\ \A j \in Command : j # x => history'[j] = history[j]
    BY <1>6, <1>7 DEF Command
  <1>10. /\ active'[p] = 0 /\ \A q \in Proc \ {p} : active'[q] = active[q]
         /\ active' \in [Proc -> Nat]
    BY <1>0, <1>7
  <1>11. Answered' = Answered \cup {x}
    BY <1>6, <1>8, <1>9 DEF Answered
  <1>12. HistoryTyped'
    <2>1. history' \in [1..k -> CommandRecord]
      BY <1>5, <1>6, <1>7, <1>8
    <2>2. \A i \in Command' : history'[i].before \subseteq Answered'
      BY <1>8, <1>9, <1>11 DEF HistoryInv, HistoryTyped
    <2> QED
      BY <1>10, <2>1, <2>2 DEF HistoryTyped
  <1>13. \A q \in Proc : (Busy(q) /\ active[q] = x) => q = p
    BY <1>1, <1>4 DEF HistoryInv, ActiveOwn
  <1>14. ActiveOwn'
    <2>1. ASSUME NEW q \in Proc, q # p
          PROVE  /\ ~Busy(q)' => active'[q] = 0
                 /\ Busy(q)' => /\ active'[q] \in Command' \ Answered'
                                /\ history'[active'[q]].kind = IF reading'[q] THEN "read" ELSE "write"
                                /\ state'[q].writing => history'[active'[q]].val = state'[q].writeval
                                /\ \A r \in Proc : (Busy(r)' /\ active'[r] = active'[q]) => r = q
      BY <1>2, <1>3, <1>9, <1>10, <1>11, <1>13, <2>1 DEF HistoryInv, ActiveOwn
    <2> QED
      BY <1>3, <1>10, <2>1 DEF ActiveOwn
  <1>15. ReadvalBroadcast'
    <2>1. \A q \in Proc : \A n \in msgs' :
            (CurrentWrite(q, n)' /\ reading'[q]) => n \in msgs /\ CurrentWrite(q, n) /\ reading[q]
      BY <1>1, <1>2, <1>3 DEF CurrentWrite
    <2> QED
      BY <1>1, <2>1 DEF HistoryInv, ReadvalBroadcast
  <1>16. /\ optag[p] \in Tag /\ LE(floor[p], optag[p])
         /\ ~reading[p] => optag[p] # NoTag
         /\ \E w \in msgs : CurrentWrite(p, w) /\ w.tag = optag[p]
    BY AnswerTag DEF HistoryInv
  <1>17. /\ LE(optag[p], committed') /\ committed' \in Tag
         /\ \A tag \in Tag : LE(tag, committed) => LE(tag, committed')
    <2>1. LE(committed, committed') /\ LE(optag[p], committed') /\ committed' \in Tag
      BY <1>0, <1>1, HigherTag
    <2> QED
      BY <1>0, <2>1, TagOrder
  <1>18. PICK f, T : Placed(f, T)
    BY DEF HistoryInv
  <1>19. /\ T \in [InEffect -> Tag]
         /\ \A i \in Answered : LE(T[i], committed')
         /\ \A q \in Proc : Busy(q) => \A b \in history[active[q]].before : LE(T[b], floor[q])
    <2>1. T \in [InEffect -> Tag] /\ TagsInTime(T)
      BY <1>18 DEF Placed, SortedBy
    <2> QED
      BY <1>0, <1>17, <2>1 DEF TagsInTime
  <1>20. Writes' = Writes
    BY <1>1 DEF Writes
  <1>21. \A i : (\E q \in Proc : active'[q] = i /\ state'[q].writing /\ optag'[q] # NoTag)
           <=> (\E q \in Proc \ {p} : active[q] = i /\ state[q].writing /\ optag[q] # NoTag)
    BY <1>1, <1>2, <1>10
  <1>22. CASE ~reading[p]
    <2>1. state[p].writing /\ x \in InEffect /\ T[x] = optag[p]
      BY <1>0, <1>1, <1>4, <1>16, <1>18, <1>22 DEF Busy, Placed, TagsBroadcast
    <2>2. InEffect' = InEffect
      <3>1. ASSUME NEW i \in Command PROVE i \in InEffect' <=> i \in InEffect
        <4>1. CASE i = x
          BY <1>6, <1>8, <1>9, <2>1, <4>1 DEF InEffect
        <4>2. CASE i # x
          <5>1. i \in InEffect <=> \/ history[i].done
                                   \/ \E q \in Proc \ {p} : /\ active[q] = i /\ state[q].writing
                                                            /\ optag[q] # NoTag
            BY <1>4, <4>2 DEF InEffect
          <5>2. i \in InEffect' <=> \/ history[i].done
                                    \/ \E q \in Proc \ {p} : /\ active[q] = i /\ state[q].writing
                                                             /\ optag[q] # NoTag
            BY <1>9, <1>21, <4>2 DEF InEffect
          <5> QED
            BY <5>1, <5>2
        <4> QED
          BY <4>1, <4>2
      <3> QED
        BY <1>9, <3>1 DEF InEffect
    <2>3. SameCommands(InEffect)
      BY <1>8, <1>9, <1>22 DEF SameCommands, InEffect
    <2>4. TagsInTime(T)'
      <3>1. \A i \in Answered' : LE(T[i], committed')
        BY <1>11, <1>17, <1>19, <2>1
      <3>2. \A q \in Proc : Busy(q)' =>
              \A b \in history'[active'[q]].before : LE(T[b], floor'[q])
        BY <1>0, <1>1, <1>3, <1>9, <1>10, <1>13, <1>19
      <3> QED
        BY <3>1, <3>2 DEF TagsInTime
    <2>5. WritersTagged(T)'
      BY <1>1, <1>2, <1>10, <1>18 DEF Placed, TagsBroadcast, WritersTagged
    <2>6. Placed(f, T)'
      BY <1>0, <1>18, <1>20, <2>2, <2>3, <2>4, <2>5, SamePlaces
    <2> QED
      BY <1>12, <1>14, <1>15, <2>6 DEF HistoryInv
  <1>23. CASE reading[p]
    <2>1. ~state[p].writing /\ x \notin InEffect
      BY <1>0, <1>1, <1>4, <1>23 DEF OneOperation
    <2>2. PICK t : t = optag[p]
      OBVIOUS
    <2>3. InEffect' = InEffect \cup {x}
      <3>1. ASSUME NEW i \in Command, i # x PROVE i \in InEffect' <=> i \in InEffect
        BY <1>9, <1>21, <2>1, <3>1 DEF InEffect
      <3>2. x \in InEffect'
        BY <1>6, <1>8, <1>9 DEF InEffect
      <3> QED
        BY <1>9, <3>1, <3>2 DEF InEffect
    <2>4. SameCommands(InEffect) /\ history'[x].before = history[x].before
      BY <1>8, <1>9, <2>1 DEF SameCommands, InEffect
    <2>5. PICK U : U = WithTag(InEffect, T, x, t)
      OBVIOUS
    <2>6. U[x] = t /\ \A i \in InEffect : U[i] = T[i]
      BY <2>1, <2>5 DEF WithTag
    <2>7. TagsInTime(U)'
      <3>1. \A i \in Answered' : LE(U[i], committed')
        BY <1>0, <1>11, <1>17, <1>19, <2>2, <2>6
      <3>2. ASSUME NEW q \in Proc, Busy(q)', NEW b \in history'[active'[q]].before
            PROVE  LE(U[b], floor'[q])
        <4>1. q # p /\ Busy(q) /\ active'[q] = active[q] /\ active[q] # x /\ active[q] \in Command
          BY <1>0, <1>3, <1>10, <1>13, <3>2
        <4>2. b \in history[active[q]].before /\ b \in InEffect
          BY <1>0, <1>9, <4>1
        <4> QED
          BY <1>1, <1>19, <2>6, <4>1, <4>2
      <3> QED
        BY <3>1, <3>2 DEF TagsInTime
    <2>8. WritersTagged(U)'
      <3> SUFFICES ASSUME NEW q \in Proc, state'[q].writing, optag'[q] # NoTag
                   PROVE  U[active'[q]] = optag'[q]
        BY DEF WritersTagged
      <3>1. q # p /\ state[q].writing /\ optag[q] # NoTag /\ active'[q] = active[q]
        BY <1>1, <1>2, <1>10
      <3>2. active[q] \in InEffect /\ T[active[q]] = optag[q]
        BY <1>0, <1>18, <3>1 DEF Placed, TagsBroadcast, Busy
      <3> QED
        BY <1>1, <2>6, <3>1, <3>2
    <2>9. \A b \in history'[x].before \cap InEffect : LE(T[b], t)
      <3> SUFFICES ASSUME NEW b \in InEffect, b \in history[x].before PROVE LE(T[b], t)
        BY <2>4
      <3>1. LE(T[b], floor[p]) /\ T[b] \in Tag /\ floor[p] \in Tag
        BY <1>0, <1>1, <1>4, <1>19
      <3> QED
        BY <1>16, <2>2, <3>1, TagOrder
    <2>10. ~IsWrite(x)'
      BY <1>1, <1>4, <1>8, <1>9, <1>23 DEF HistoryInv, ActiveOwn, IsWrite
    <2>11. \/ t = NoTag /\ history'[x].val = Zero
           \/ \E n \in Writes : n.tag = t /\ n.data = history'[x].val
      <3>1. PICK w \in msgs : CurrentWrite(p, w) /\ w.tag = optag[p]
        BY <1>16
      <3>2. history'[x].val = w.data /\ w.type = "WriteProc"
        BY <1>8, <1>9, <1>23, <3>1 DEF HistoryInv, ReadvalBroadcast, CurrentWrite
      <3> QED
        BY <2>2, <3>1, <3>2 DEF HistoryInv, TagInv, ZeroUnwritten, Writes
    <2>12. \A i \in InEffect : x \notin history[i].before
      BY <1>6 DEF InEffect
    <2>13. t \in Tag
      BY <1>16, <2>2
    <2>14. \E g : Placed(g, U)'
      BY <1>0, <1>18, <1>20, <2>1, <2>3, <2>4, <2>5, <2>7, <2>8, <2>9, <2>10, <2>11, <2>12,
         <2>13, NewPlace
    <2> QED
      BY <1>12, <1>14, <1>15, <2>14 DEF HistoryInv
  <1> QED
    BY <1>22, <1>23
\* A process stops that is not writing, or starts again: its client gets no answer, and the
\* command had no effect.
LEMMA IdleHistory ==
    ASSUME HistoryInv, TagInv', NEW p \in Proc, ~state[p].writing, ~Busy(p)',
           UNCHANGED <<history, msgs, committed, floor>>, active' = [active EXCEPT ![p] = 0],
           \A q \in Proc \ {p} : /\ state'[q] = state[q] /\ reading'[q] = reading[q]
                                 /\ readval'[q] = readval[q] /\ optag'[q] = optag[q]
    PROVE  HistoryInv'
  <1>0. active \in [Proc -> Nat] /\ IsFiniteSet(InEffect)
    BY HistoryFacts
  <1>1. /\ active'[p] = 0 /\ active' \in [Proc -> Nat]
        /\ \A q \in Proc \ {p} : active'[q] = active[q] /\ (Busy(q)' <=> Busy(q))
    BY <1>0 DEF Busy
  <1>2. Command' = Command /\ Answered' = Answered /\ Writes' = Writes
    BY DEF Command, Answered, Writes
  <1>3. InEffect' = InEffect
    <2>1. ~state'[p].writing
      BY DEF Busy
    <2>2. \A i : (\E q \in Proc : active'[q] = i /\ state'[q].writing /\ optag'[q] # NoTag)
            <=> (\E q \in Proc : active[q] = i /\ state[q].writing /\ optag[q] # NoTag)
      BY <1>1, <2>1
    <2> QED
      BY <1>2, <2>2 DEF InEffect
  <1>4. HistoryTyped'
    BY <1>1, <1>2 DEF HistoryInv, HistoryTyped
  <1>5. ActiveOwn'
    BY <1>1, <1>2 DEF HistoryInv, ActiveOwn
  <1>6. ReadvalBroadcast'
    <2>1. \A q \in Proc : \A n \in msgs :
            CurrentWrite(q, n)' => q # p /\ CurrentWrite(q, n)
      BY <1>1 DEF CurrentWrite
    <2> QED
      BY <2>1 DEF HistoryInv, ReadvalBroadcast
  <1>7. PICK f, T : Placed(f, T)
    BY DEF HistoryInv
  <1>8. TagsInTime(T)' /\ WritersTagged(T)' /\ SameCommands(InEffect)
    <2>1. TagsInTime(T)'
      BY <1>1, <1>2, <1>7 DEF Placed, TagsInTime
    <2>2. WritersTagged(T)'
      BY <1>1, <1>7 DEF Placed, TagsBroadcast, WritersTagged, Busy
    <2> QED
      BY <2>1, <2>2 DEF SameCommands
  <1>9. Placed(f, T)'
    BY <1>0, <1>2, <1>3, <1>7, <1>8, SamePlaces
  <1> QED
    BY <1>4, <1>5, <1>6, <1>9 DEF HistoryInv

\* A step of the history is a step of the registers.
LEMMA HistoryStepIsStep == ASSUME HistoryNext PROVE Next
  BY DEF HistoryNext, Next, ClientCommand, SystemCommand

\* Every step keeps the commands in an order by their tags.
LEMMA HistoryStep ==
    ASSUME WholeWrites, NoInterruptedWrite, HistoryInv, [HistoryNext]_allVars
    PROVE  HistoryInv'
  <1>0. NoDiskError
    BY DEF WholeWrites, NoDiskError
  <1>1. [Next]_vars
    BY HistoryStepIsStep DEF allVars
  <1>2. TagInv'
    BY <1>1, TagStep DEF HistoryInv
  <1>3. /\ state \in [Proc -> StorageState] /\ stored \in [Proc -> StorageState]
        /\ reading \in [Proc -> BOOLEAN] /\ readval \in [Proc -> Data \cup {NoData}]
        /\ optag \in [Proc -> Tag] /\ OneOperation
    BY DEF HistoryInv, TagInv, SafetyInv, TypeInv, TypeOK
  <1>4. ASSUME NEW p \in Proc, ReadCommand(p), Invoke(p, "read", NoData) PROVE HistoryInv'
    <2> DEFINE s == [state[p] EXCEPT !.read_ident = @ + 1]
    <2>1. s \in StorageState /\ s.writing = state[p].writing
      BY <1>3, NextIdent
    <2>2. /\ BeginOperation(p, s) /\ UNCHANGED committed /\ ~Busy(p)
          /\ reading' = [reading EXCEPT ![p] = TRUE] /\ readval' = [readval EXCEPT ![p] = NoData]
      BY <1>4 DEF ReadCommand, CanBegin
    <2> HIDE DEF s
    <2>3. ~s.writing /\ reading'[p]
      BY <1>3, <2>1, <2>2 DEF Busy
    <2>4. \A q \in Proc \ {p} : reading'[q] = reading[q] /\ readval'[q] = readval[q]
      BY <1>3, <2>2
    <2> QED
      BY <1>2, <1>4, <2>1, <2>2, <2>3, <2>4, BeginHistory
  <1>5. ASSUME NEW p \in Proc, NEW d \in Written[p], WriteCommand(p, d), Invoke(p, "write", d)
        PROVE  HistoryInv'
    <2> DEFINE s == [read_ident |-> state[p].read_ident + 1, writing |-> TRUE, writeval |-> d]
    <2>1. s \in StorageState /\ d \in Data \cup {NoData}
      BY <1>3, DataAssumption DEF StorageState
    <2>2. s.writing /\ s.writeval = d
      OBVIOUS
    <2>3. BeginOperation(p, s) /\ UNCHANGED <<committed, reading, readval>> /\ ~Busy(p)
      BY <1>5 DEF WriteCommand, CanBegin
    <2> HIDE DEF s
    <2>4. ~reading'[p]
      BY <2>3 DEF Busy
    <2> QED
      BY <1>2, <1>5, <2>1, <2>2, <2>3, <2>4, BeginHistory
  <1>6. ASSUME NEW p \in Proc, NEW m \in msgs, UNCHANGED historyVars,
               HandleReadProc(p, m) \/ HandleWriteProc(p, m) \/ RecordValue(p, m) \/ RecordAck(p, m)
        PROVE  HistoryInv'
    <2>1. /\ msgs \subseteq msgs'
          /\ \A n \in msgs' \ msgs : n.type \in {"Value", "Ack"}
      BY <1>6 DEF HandleReadProc, HandleWriteProc, RecordValue, RecordAck, Value, Ack
    <2>2. UNCHANGED <<history, active, state, reading, readval, committed, floor, optag>>
      BY <1>6 DEF HandleReadProc, HandleWriteProc, RecordValue, RecordAck, registerVars,
                  auxVars, historyVars
    <2> QED
      BY <1>2, <2>1, <2>2, QuietHistory
  <1>7. ASSUME NEW p \in Proc, active' = [active EXCEPT ![p] = 0], UNCHANGED history,
               Crash(p) \/ Restart(p)
        PROVE  HistoryInv'
    <2>1. ~state[p].writing /\ ~Busy(p)' /\ UNCHANGED <<msgs, committed, floor>>
      <3>1. CASE Crash(p)
        BY <1>3, <3>1 DEF Crash, CanCrash, NoInterruptedWrite, StopProcess, EmptyState, Busy
      <3>2. CASE Restart(p)
        BY <1>3, <3>2 DEF Restart, auxVars, Busy, HistoryInv, TagInv, SafetyInv, MemoryStored
      <3> QED
        BY <1>7, <3>1, <3>2
    <2>2. \A q \in Proc \ {p} : /\ state'[q] = state[q] /\ reading'[q] = reading[q]
                               /\ readval'[q] = readval[q] /\ optag'[q] = optag[q]
      BY <1>3, <1>7 DEF Crash, StopProcess, Restart, auxVars
    <2> QED
      BY <1>2, <1>7, <2>1, <2>2, IdleHistory
  <1>8. ASSUME NEW p \in Proc, NEW m \in msgs, TornCrash(p, m) PROVE FALSE
    BY <1>8 DEF TornCrash, WholeWrites
  <1>9. ASSUME NEW p \in Proc, RestartReplay(p) PROVE FALSE
    BY <1>9 DEF RestartReplay, HistoryInv, TagInv, NothingToReplay, SafetyInv, MemoryStored
  <1>10. CASE UNCHANGED allVars
    <2>1. UNCHANGED <<history, active, state, reading, readval, committed, floor, optag, msgs>>
      BY <1>10 DEF allVars, vars, historyVars
    <2> QED
      BY <1>2, <2>1, QuietHistory
  <1>11. ASSUME NEW p \in Proc, NEW m \in msgs, ValueQuorum(p, m), UNCHANGED historyVars
         PROVE  HistoryInv'
    BY <1>2, <1>11, QuorumHistory
  <1>12. ASSUME NEW p \in Proc, NEW m \in msgs, AckQuorum(p, m), Respond(p) PROVE HistoryInv'
    BY <1>0, <1>2, <1>12, AnswerHistory
  <1> QED
    BY <1>4, <1>5, <1>6, <1>7, <1>8, <1>9, <1>10, <1>11, <1>12 DEF HistoryNext, Fault

\* No commands, no order to keep.
LEMMA HistoryStart == HistoryInit => HistoryInv
  <1> SUFFICES ASSUME HistoryInit PROVE HistoryInv
    OBVIOUS
  <1>1. TagInv /\ Init
    BY TagInit DEF HistoryInit
  <1>2. Command = {} /\ Answered = {} /\ InEffect = {} /\ Writes = {} /\ msgs = {}
    BY <1>1 DEF HistoryInit, Init, Command, Answered, InEffect, Writes
  <1>3. HistoryTyped
    <2>1. history \in [1..0 -> CommandRecord]
      BY DEF HistoryInit
    <2>2. active \in [Proc -> Nat]
      BY DEF HistoryInit
    <2> QED
      BY <1>2, <2>1, <2>2 DEF HistoryTyped
  <1>4. \A p \in Proc : ~Busy(p) /\ ~state[p].writing /\ active[p] = 0
    BY <1>1 DEF Init, HistoryInit, Busy, EmptyState
  <1>5. ActiveOwn /\ ReadvalBroadcast
    BY <1>2, <1>4 DEF ActiveOwn, ReadvalBroadcast
  <1> DEFINE none == [i \in {} |-> NoTag]
  <1>6. SortedBy(history, InEffect, none, none)
    <2>1. Cardinality(InEffect) = 0 /\ 1..0 = {}
      BY <1>2, FS_EmptySet
    <2>2. none \in [1..0 -> {}] /\ none \in [{} -> Tag] /\ DOMAIN none = {}
      OBVIOUS
    <2> HIDE DEF none
    <2> QED
      BY <1>2, <2>1, <2>2 DEF SortedBy, Orders
  <1>7. TagsInTime(none) /\ TagsBroadcast(none) /\ Contents(none)
    BY <1>2, <1>4 DEF TagsInTime, TagsBroadcast, Contents
  <1>8. Placed(none, none)
    BY <1>6, <1>7 DEF Placed
  <1> QED
    BY <1>1, <1>3, <1>5, <1>8 DEF HistoryInv

-----------------------------------------------------------------------------
\* A sector is one atomic value: with any number of processes, clients, commands and
\* crashes of processes that are not writing, and with messages lost, duplicated, late and
\* out of order, the answers of the registers are those of some order of the commands that
\* respects real time. A crash during a write breaks this (HistoryInterruptedWrite.cfg).
THEOREM SectorIsLinearizable ==
    ASSUME WholeWrites, NoInterruptedWrite
    PROVE  HistorySpec => []Linearizable
  <1>1. HistoryInit => HistoryInv
    BY HistoryStart
  <1>2. HistoryInv /\ [HistoryNext]_allVars => HistoryInv'
    BY HistoryStep
  <1>3. HistoryInv => Linearizable
    BY PlacedIsLinear
  <1> QED
    BY <1>1, <1>2, <1>3, PTL DEF HistorySpec
=============================================================================
