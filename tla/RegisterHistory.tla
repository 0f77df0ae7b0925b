--------------------------- MODULE RegisterHistory ---------------------------
(***************************************************************************)
(* AtomicRegister observed by its clients: a history of the commands they  *)
(* sent and the answers they got, and what README.md promises of it        *)
(* ("every sector of the block device is a separate atomic value").        *)
(***************************************************************************)
EXTENDS AtomicRegister

VARIABLES
    history,   \* command i: its kind, its value, the commands answered before it was sent
    active     \* the command p is executing for a client, 0 when there is none

historyVars == <<history, active>>
allVars == <<vars, historyVars>>

Command == DOMAIN history

Answered == {i \in Command : history[i].done}

Invoke(p, kind, val) ==
    LET i == Cardinality(Command) + 1
        c == [kind |-> kind, val |-> val, done |-> FALSE, before |-> Answered]
    IN  /\ history' = [j \in Command \cup {i} |-> IF j = i THEN c ELSE history[j]]
        /\ active' = [active EXCEPT ![p] = i]

\* The callback of a replayed write answers nobody: the client's connection died with
\* the process that accepted it.
Respond(p) ==
    /\ history' = [j \in Command |->
                     IF j # active[p] THEN history[j]
                     ELSE [history[j] EXCEPT
                             !.done = TRUE,
                             !.val = IF reading[p] THEN readval[p] ELSE @]]
    /\ active' = [active EXCEPT ![p] = 0]

HistoryInit == Init /\ history = [i \in {} |-> 0] /\ active = [p \in Proc |-> 0]

HistoryNext == \E p \in Proc :
    \/ ReadCommand(p) /\ Invoke(p, "read", NoData)
    \/ \E d \in Written[p] : WriteCommand(p, d) /\ Invoke(p, "write", d)
    \/ \E m \in msgs :
         \/ (AckQuorum(p, m) /\ Respond(p))
         \/ /\ \/ HandleReadProc(p, m) \/ RecordValue(p, m) \/ ValueQuorum(p, m)
               \/ HandleWriteProc(p, m) \/ RecordAck(p, m)
            /\ UNCHANGED historyVars
    \/ Fault(p) /\ active' = [active EXCEPT ![p] = 0] /\ UNCHANGED history

HistorySpec == HistoryInit /\ [][HistoryNext]_allVars

-----------------------------------------------------------------------------
(* Linearizability *)

Orders(S) ==
    {f \in [1..Cardinality(S) -> S] : \A i, j \in DOMAIN f : f[i] = f[j] => i = j}

InRealTime(f) == \A i, j \in DOMAIN f : i < j => f[j] \notin history[f[i]].before

IsWrite(i) == history[i].kind = "write"

\* What a read at position i of the order f finds.
Current(f, i) ==
    LET W == {j \in 1..(i - 1) : IsWrite(f[j])}
    IN  IF W = {} THEN Zero
        ELSE history[f[CHOOSE j \in W : \A k \in W : k <= j]].val

Legal(f) == \A i \in DOMAIN f : IsWrite(f[i]) \/ history[f[i]].val = Current(f, i)

\* Every answered command, and some of the writes that got no answer, can be put into one
\* order in which no command precedes one that was answered before it was sent, and in
\* which each read returns the last write before it: the sector is one atomic value.
Linearizable ==
    \E P \in SUBSET {i \in Command \ Answered : IsWrite(i)} :
        \E f \in Orders(Answered \cup P) : InRealTime(f) /\ Legal(f)
=============================================================================
