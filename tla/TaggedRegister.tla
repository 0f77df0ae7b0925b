--------------------------- MODULE TaggedRegister ---------------------------
(***************************************************************************)
(* What the N registers of one sector promise together, without messages,  *)
(* quorums or discs: an atomic value whose versions are named by tags.  An *)
(* operation takes effect in one step between Begin and Complete; a crash  *)
(* may abort it, before or after that step.                                *)
(***************************************************************************)
EXTENDS Integers

CONSTANTS Proc, Content, Zero

VARIABLES
    kind,      \* the operation in progress at p: "read", "write" or "idle"
    content,   \* what it writes
    floor,     \* the highest tag of an operation that had completed when it began
    version,   \* the version it has read or written, Nothing before it takes effect
    written,   \* the versions that exist: a tag and the content written under it
    done       \* the highest tag of a completed operation

operation == <<kind, content, floor, version>>
abstractVars == <<operation, written, done>>

NoTag == <<0, 0>>
LT(a, b) == a[1] < b[1] \/ (a[1] = b[1] /\ a[2] < b[2])
Highest(a, b) == IF LT(a, b) THEN b ELSE a

Version(tag, d) == [tag |-> tag, data |-> d]
Nothing == Version(<<-1, 0>>, Zero)

Init ==
    /\ kind = [p \in Proc |-> "idle"] /\ content = [p \in Proc |-> Zero]
    /\ floor = [p \in Proc |-> NoTag] /\ version = [p \in Proc |-> Nothing]
    /\ written = {Version(NoTag, Zero)} /\ done = NoTag

SetOperation(p, k, d, f) ==
    /\ kind' = [kind EXCEPT ![p] = k]
    /\ content' = [content EXCEPT ![p] = d]
    /\ floor' = [floor EXCEPT ![p] = f]
    /\ version' = [version EXCEPT ![p] = Nothing]

\* The operation may not take effect before those that have completed.
Begin(p) ==
    /\ kind[p] = "idle"
    /\ \/ SetOperation(p, "read", Zero, done)
       \/ \E d \in Content : SetOperation(p, "write", d, done)
    /\ UNCHANGED <<written, done>>

\* A read takes a version no older than its floor; a write makes one that is newer than
\* such a version, under a tag that names no other content.
TakeEffect(p) ==
    /\ kind[p] # "idle" /\ version[p] = Nothing
    /\ UNCHANGED <<kind, content, floor, done>>
    /\ \E w \in written :
         LET v == IF kind[p] = "read" THEN w ELSE Version(<<w.tag[1] + 1, p>>, content[p])
         IN  /\ ~LT(w.tag, floor[p])
             /\ written' = written \cup {v}
             /\ version' = [version EXCEPT ![p] = v]
             /\ \A x \in written : x.tag = v.tag => x = v

Complete(p) ==
    /\ kind[p] # "idle"
    /\ SetOperation(p, "idle", Zero, NoTag)
    /\ version[p] # Nothing
    /\ done' = Highest(done, version[p].tag)
    /\ UNCHANGED written

Abort(p) ==
    /\ kind[p] # "idle"
    /\ SetOperation(p, "idle", Zero, NoTag)
    /\ UNCHANGED <<written, done>>

Next == \E p \in Proc : Begin(p) \/ TakeEffect(p) \/ Complete(p) \/ Abort(p)

Spec == Init /\ [][Next]_abstractVars
=============================================================================
