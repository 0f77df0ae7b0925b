------------------------- MODULE RegisterRefinement -------------------------
(***************************************************************************)
(* AtomicRegister implements TaggedRegister: the operation of a busy       *)
(* process takes effect when it broadcasts its WriteProc, and the versions *)
(* that exist are those that were broadcast.                               *)
(***************************************************************************)
EXTENDS AtomicRegister

Version(tag, d) == [tag |-> tag, data |-> d]
Nothing == Version(<<-1, 0>>, Zero)

Versions == {Version(m.tag, m.data) : m \in {n \in msgs : n.type = "WriteProc"}}

\* What p has broadcast in the current phase of its operation.
Chosen(p) ==
    {Version(m.tag, m.data) : m \in
        {n \in msgs : n.type = "WriteProc" /\ n.src = p /\ n.rid = state[p].read_ident}}

OneOf(S) == CHOOSE v \in S : TRUE

\* The operation in progress at each process, as TaggedRegister sees it.
kindOf == [p \in Proc |-> IF reading[p] THEN "read"
                          ELSE IF state[p].writing THEN "write" ELSE "idle"]
contentOf == [p \in Proc |-> IF state[p].writing THEN state[p].writeval ELSE Zero]
floorOf == [p \in Proc |-> IF Busy(p) THEN floor[p] ELSE NoTag]
versionOf == [p \in Proc |-> IF ~Busy(p) \/ Chosen(p) = {} THEN Nothing
                             ELSE OneOf(Chosen(p))]

Abstract == INSTANCE TaggedRegister WITH
    Content <- Data, kind <- kindOf, content <- contentOf, floor <- floorOf,
    version <- versionOf, written <- Versions \cup {Version(NoTag, Zero)}, done <- committed

\* Every step of the registers is a step of the atomic value or leaves it as it is: a write
\* takes effect between its command and its answer, under a tag that nobody else uses for
\* other content; a read returns the content of one existing version; and no operation
\* goes behind one that completed before it began.
ImplementsTaggedRegister == Abstract!Spec
=============================================================================
