---------------------------- MODULE RegisterView ----------------------------
(***************************************************************************)
(* The part of AtomicRegister's state that can still make a difference.    *)
(* TLC identifies states that agree on it (VIEW).  What is left out: the   *)
(* answers whose read_ident their addressee is not waiting for (it drops   *)
(* them, and its read_ident only grows), and the fields of a register that *)
(* the next client_command overwrites before anything reads them.          *)
(***************************************************************************)
EXTENDS AtomicRegister

Waiting(p, rid) == Busy(p) /\ rid = state[p].read_ident

IsAnswer(m) == m.type \in {"Value", "Ack"}

\* f[p] matters only while p executes a command.
WhileBusy(f, default) == [p \in Proc |-> IF Busy(p) THEN f[p] ELSE default]

\* writeval matters only while `writing'.
LiveState(s) ==
    [p \in Proc |-> IF s[p].writing THEN s[p] ELSE [s[p] EXCEPT !.writeval = NoData]]

LiveRegisters ==
    <<data, meta, LiveState(stored), up, LiveState(state), reading,
      WhileBusy(readval, NoData), WhileBusy(readlist, {}), WhileBusy(acks, {}),
      ops, crashes>>

\* For properties that speak of the broadcasts: all of them are kept.
LiveView ==
    <<LiveRegisters, {m \in msgs : IsAnswer(m) => Waiting(m.dst, m.rid)},
      committed, WhileBusy(floor, NoTag), WhileBusy(optag, NoTag)>>

\* For properties that do not: a broadcast matters as long as somebody waits for its
\* answers or a sector would take it.
LiveMessages ==
    {m \in msgs :
        \/ Waiting(IF IsAnswer(m) THEN m.dst ELSE m.src, m.rid)
        \/ m.type = "WriteProc" /\ \E p \in Proc : LT(meta[p], m.tag)}
=============================================================================
