--------------------------- MODULE RegisterClient ---------------------------
(***************************************************************************)
(* The links out of one process: solution/src/register_client.rs.          *)
(*                                                                         *)
(* A call is one send or broadcast that a register makes.  The futures of  *)
(* a broadcast are awaited one after the other, so it is a loop of sends   *)
(* between which other tasks run.  A send holds the lock of its target's   *)
(* stream, a reconnect holds that lock and the one of pending_cmds while   *)
(* it replays: each is one action.                                         *)
(***************************************************************************)
EXTENDS Integers, FiniteSets

CONSTANTS
    N,          \* number of processes
    Self,       \* self_ident
    Call,       \* the calls of send and broadcast
    Targets,    \* the processes each call is for
    Ident,      \* msg_ident of each command
    After,      \* the calls on the same msg_ident that precede each call
    Own,        \* the msg_ident of the clients of this process
    CrashAt,    \* processes that may crash
    MaxCrashes  \* bound: crashes

Proc == 1..N
Peer == Proc \ {Self}

ASSUME ClientAssumption ==
    /\ N \in Nat \ {0} /\ Self \in Proc /\ CrashAt \subseteq Peer /\ MaxCrashes \in Nat
    /\ Targets \in [Call -> SUBSET Proc] /\ After \in [Call -> SUBSET Call]
    /\ \A c \in Call : \A b \in After[c] : Ident[b] = Ident[c]

VARIABLES
    left,       \* the targets each call has yet to send to
    stream,     \* tcp_streams: "none", "open", or "stale" (its peer is gone, and nobody knows)
    pending,    \* pending_cmds: at most one call per msg_ident
    wire,       \* written to the connection and not read by the peer
    received,   \* the commands each process got
    up, crashes,   \* the peers
    completed,  \* msg_idents whose operation completed: remove_pending_cmd was called
    lost        \* auxiliary: what a crash of its receiver took from the connection

vars == <<left, stream, pending, wire, received, up, crashes, completed, lost>>

-----------------------------------------------------------------------------
(* PendingCommandsManager *)

\* Mutants of AddPending: a command already there for the msg_ident stays beside the new
\* one, or instead of it.
AddPending_KeepsBoth(c) == pending' = pending \cup {c}

AddPending_KeepsOld(c) ==
    pending' = IF \E d \in pending : Ident[d] = Ident[c] THEN pending ELSE pending \cup {c}

AddPending(c) == pending' = {d \in pending : Ident[d] # Ident[c]} \cup {c}

RemovePending(i) == pending' = {d \in pending : Ident[d] # i}

-----------------------------------------------------------------------------
(* send and broadcast *)

ReceivedBy(c) == {t \in Proc : c \in received[t]}

Majority(S) == 2 * Cardinality(S) > N

\* A register makes its next call on a msg_ident when the one before has returned and, if
\* it waits for a quorum itself, was received by a majority.
MayStart(c) == \A b \in After[c] :
    left[b] = {} /\ (Ident[b] \in Own => Majority(ReceivedBy(b)))

NextTarget(c) == CHOOSE t \in left[c] : \A u \in left[c] : t <= u

\* Through self_sender.
SendToSelf(c) ==
    /\ received' = [received EXCEPT ![Self] = @ \cup {c}]
    /\ UNCHANGED <<stream, pending, wire, lost>>

\* A write to a stale stream fails, or is taken by the socket and lost.
SendToPeer(c, t) ==
    /\ \/ /\ stream[t] = "open"
          /\ wire' = [wire EXCEPT ![t] = @ \cup {c}]
          /\ UNCHANGED <<stream, pending, lost>>
       \/ stream[t] = "none" /\ AddPending(c) /\ UNCHANGED <<stream, wire, lost>>
       \/ /\ stream[t] = "stale"
          /\ AddPending(c)
          /\ stream' = [stream EXCEPT ![t] = "none"]
          /\ UNCHANGED <<wire, lost>>
       \/ /\ stream[t] = "stale"
          /\ lost' = [lost EXCEPT ![t] = @ \cup {c}]
          /\ UNCHANGED <<stream, pending, wire>>
    /\ UNCHANGED received

Send(c) ==
    /\ left[c] # {}
    /\ MayStart(c)
    /\ IF NextTarget(c) = Self THEN SendToSelf(c) ELSE SendToPeer(c, NextTarget(c))
    /\ left' = [left EXCEPT ![c] = @ \ {NextTarget(c)}]
    /\ UNCHANGED <<up, crashes, completed>>

-----------------------------------------------------------------------------
(* monitor_connections *)

\* Mutant of Replayed: a new connection starts empty.
Replayed_Nothing(t) == {}

\* Every pending command, whoever it was for.
Replayed(t) == pending

\* connect succeeded and so did every write. When one fails the connection is dropped, and
\* what was written is lost with the peer: nothing changes.
Connect(t) ==
    /\ stream[t] = "none"
    /\ up[t]
    /\ wire' = [wire EXCEPT ![t] = Replayed(t)]
    /\ stream' = [stream EXCEPT ![t] = "open"]
    /\ UNCHANGED <<left, pending, received, up, crashes, completed, lost>>

-----------------------------------------------------------------------------
(* The peers, and the operations of this process *)

Receive(t, c) ==
    /\ c \in wire[t]
    /\ wire' = [wire EXCEPT ![t] = @ \ {c}]
    /\ received' = [received EXCEPT ![t] = @ \cup {c}]
    /\ UNCHANGED <<left, stream, pending, up, crashes, completed, lost>>

PeerCrash(t) ==
    /\ up[t] /\ t \in CrashAt /\ crashes < MaxCrashes
    /\ up' = [up EXCEPT ![t] = FALSE]
    /\ wire' = [wire EXCEPT ![t] = {}]
    /\ lost' = [lost EXCEPT ![t] = @ \cup wire[t]]
    /\ stream' = [stream EXCEPT ![t] = IF @ = "open" THEN "stale" ELSE @]
    /\ crashes' = crashes + 1
    /\ UNCHANGED <<left, pending, received, completed>>

PeerRestart(t) ==
    /\ ~up[t]
    /\ up' = [up EXCEPT ![t] = TRUE]
    /\ UNCHANGED <<left, stream, pending, wire, received, crashes, completed, lost>>

\* The callback of a client's operation, once a majority has acknowledged its last broadcast.
Complete(i) ==
    /\ i \in Own \ completed
    /\ \A c \in Call : Ident[c] = i => left[c] = {} /\ Majority(ReceivedBy(c))
    /\ RemovePending(i)
    /\ completed' = completed \cup {i}
    /\ UNCHANGED <<left, stream, wire, received, up, crashes, lost>>

-----------------------------------------------------------------------------
Init ==
    /\ left = Targets
    /\ stream = [t \in Peer |-> "none"]
    /\ pending = {}
    /\ wire = [t \in Peer |-> {}]
    /\ received = [t \in Proc |-> {}]
    /\ up = [t \in Peer |-> TRUE]
    /\ crashes = 0
    /\ completed = {}
    /\ lost = [t \in Peer |-> {}]

Next ==
    \/ \E c \in Call : Send(c)
    \/ \E t \in Peer : \/ Connect(t)
                       \/ \E c \in wire[t] : Receive(t, c)
                       \/ PeerCrash(t)
                       \/ PeerRestart(t)
    \/ \E i \in Own : Complete(i)

Spec == Init /\ [][Next]_vars

\* monitor_connections tries again every second and a peer that runs accepts; a peer reads
\* what reached it; a register goes on with its calls; a crashed peer comes back.
Fairness ==
    /\ \A c \in Call : WF_vars(Send(c))
    /\ \A t \in Peer : /\ WF_vars(Connect(t))
                       /\ WF_vars(PeerRestart(t))
                       /\ \A c \in Call : WF_vars(Receive(t, c))
    /\ \A i \in Own : WF_vars(Complete(i))

FairSpec == Spec /\ Fairness
-----------------------------------------------------------------------------
(* Properties *)

\* Every variable holds a value the code's types allow; pending_cmds is a map.
TypeOK ==
    /\ left \in [Call -> SUBSET Proc] /\ stream \in [Peer -> {"none", "open", "stale"}]
    /\ pending \subseteq Call /\ \A c, d \in pending : Ident[c] = Ident[d] => c = d
    /\ wire \in [Peer -> SUBSET Call] /\ received \in [Proc -> SUBSET Call]
    /\ up \in [Peer -> BOOLEAN] /\ crashes \in 0..MaxCrashes
    /\ completed \subseteq Own /\ lost \in [Peer -> SUBSET Call]

Sent(c, t) == t \in Targets[c] \ left[c]

\* Nobody needs c any more: its operation completed, or the register has gone on to the
\* next call on its msg_ident, and with it to the next read_ident.
Moot(c) == Ident[c] \in completed \/ \E d \in Call : c \in After[d] /\ left[d] # Targets[d]

\* A command sent to a peer is in its hands, on the wire, kept for the next connect, no
\* longer needed, or went down with the peer: neither the replacement of a pending command
\* by a newer one nor a failed stream, its own or that of another peer, loses it.
SentOrKept ==
    \A c \in Call : \A t \in Peer : Sent(c, t) =>
        \/ c \in received[t] \cup wire[t] \cup lost[t]
        \/ stream[t] = "none" /\ c \in pending
        \/ Moot(c)

\* ... and if it did not go down with the peer, the peer gets it in the end, even one that
\* was down when it was sent.
LinkDelivers ==
    \A c \in Call : \A t \in Peer :
        Sent(c, t) ~> (c \in received[t] \cup lost[t] \/ Moot(c))
=============================================================================
