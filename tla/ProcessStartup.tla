--------------------------- MODULE ProcessStartup ---------------------------
(***************************************************************************)
(* The start of a process with several registers: run_register_process of  *)
(* solution/src/lib.rs and get_commands_executor_and_pending_cmd.          *)
(*                                                                         *)
(* Every register that finds an interrupted write in its storage hands it  *)
(* out as a pending command, and clears it in memory but not on its disc.  *)
(* The process executes the pending commands one after the other, each at  *)
(* whichever register is ready, and only then accepts connections, over    *)
(* which the answers of the other processes come.                          *)
(*                                                                         *)
(* An operation is reduced to its begin, which stores the register's       *)
(* state, and its end, which stores it again; the store between its two    *)
(* phases changes nothing of what is kept here.  A register in the middle  *)
(* of a write is not given another command: there are 256 of them, and     *)
(* what happens when they are all busy is the subject of CommandsExecutor. *)
(***************************************************************************)
EXTENDS Naturals, Sequences, SequencesExt

CONSTANTS
    RegistersNumber,    \* REGISTERS_NUMBER
    Sector,
    Write,              \* write commands, each sent by a client at most once
    SectorOf,           \* header.sector_idx of each write
    NoWrite,
    processes_count,
    MaxCrashes          \* bound

Register == 1..RegistersNumber

VARIABLES
    stored,             \* on disc: writeval of each register with writing = TRUE
    writing,            \* in memory: the same
    pc,                 \* "down", "starting", "accepting"
    pending_cmds,       \* what the loop of run_register_process has left
    my_counter,         \* the ticket of the pending command the loop is at
    counter, total_finished,   \* sector_counters
    ready,              \* the channel of ready registers
    sent,               \* writes the clients have sent
    crashes

vars == <<stored, writing, pc, pending_cmds, my_counter, counter, total_finished, ready, sent,
          crashes>>

-----------------------------------------------------------------------------
\* get_commands_executor_and_pending_cmd: the registers read their storage in the order of
\* their indices; their threads announce themselves in any order.
BuildRegisters ==
    /\ pc = "down"
    /\ pc' = "starting"
    /\ pending_cmds' = SelectSeq([i \in Register |-> stored[i]], LAMBDA w : w # NoWrite)
    /\ writing' = [r \in Register |-> NoWrite]
    /\ ready' \in {q \in [Register -> Register] : IsInjective(q)}
    /\ counter' = [s \in Sector |-> 0] /\ total_finished' = [s \in Sector |-> 0]
    /\ UNCHANGED <<stored, my_counter, sent, crashes>>

\* The first ready register begins w and stores it over what its disc held.
GiveWrite(w) ==
    LET r == Head(ready) IN
    /\ ready # <<>> /\ writing[r] = NoWrite
    /\ ready' = Append(Tail(ready), r)
    /\ writing' = [writing EXCEPT ![r] = w]
    /\ stored' = [stored EXCEPT ![r] = w]

\* execute_client_command of a pending command, up to the wait for its turn ...
TakeTicket ==
    /\ pc = "starting" /\ pending_cmds # <<>> /\ my_counter = {}
    /\ LET s == SectorOf[Head(pending_cmds)]
       IN  /\ my_counter' = {counter[s]}
           /\ counter' = [counter EXCEPT ![s] = @ + 1]
    /\ UNCHANGED <<stored, writing, pc, pending_cmds, total_finished, ready, sent, crashes>>

\* ... and after it.  The lost wake-up of that wait is left out.
ExecutePending ==
    /\ pc = "starting" /\ pending_cmds # <<>>
    /\ total_finished[SectorOf[Head(pending_cmds)]] \in my_counter
    /\ GiveWrite(Head(pending_cmds))
    /\ pending_cmds' = Tail(pending_cmds)
    /\ my_counter' = {}
    /\ UNCHANGED <<pc, counter, total_finished, sent, crashes>>

\* The loop over pending_cmds is over.
StartAccepting ==
    /\ pc = "starting" /\ pending_cmds = <<>>
    /\ pc' = "accepting"
    /\ UNCHANGED <<stored, writing, pending_cmds, my_counter, counter, total_finished, ready,
                   sent, crashes>>

\* A client's write that finds its sector free; one that has to wait comes later.
ClientWrite(w) ==
    LET s == SectorOf[w] IN
    /\ pc = "accepting" /\ w \notin sent
    /\ counter[s] = total_finished[s]
    /\ GiveWrite(w)
    /\ counter' = [counter EXCEPT ![s] = @ + 1]
    /\ sent' = sent \cup {w}
    /\ UNCHANGED <<pc, pending_cmds, my_counter, total_finished, crashes>>

\* A client's read stores the register's state, without the write it was started with.
ClientRead ==
    LET r == Head(ready) IN
    /\ pc = "accepting" /\ ready # <<>> /\ writing[r] = NoWrite
    /\ ready' = Append(Tail(ready), r)
    /\ stored' = [stored EXCEPT ![r] = NoWrite]
    /\ UNCHANGED <<writing, pc, pending_cmds, my_counter, counter, total_finished, sent, crashes>>

\* The process answers itself; the others are heard over the connections they open.
HearsMajority == 2 > processes_count \/ pc = "accepting"

\* The last Ack of a write, its callback and finish_client_command.
CompleteWrite(r) ==
    LET s == SectorOf[writing[r]] IN
    /\ writing[r] # NoWrite
    /\ HearsMajority
    /\ writing' = [writing EXCEPT ![r] = NoWrite]
    /\ stored' = [stored EXCEPT ![r] = NoWrite]
    /\ total_finished' = [total_finished EXCEPT ![s] = @ + 1]
    /\ UNCHANGED <<pc, pending_cmds, my_counter, counter, ready, sent, crashes>>

Crash ==
    /\ crashes < MaxCrashes /\ pc # "down"
    /\ pc' = "down"
    /\ pending_cmds' = <<>> /\ my_counter' = {} /\ ready' = <<>>
    /\ writing' = [r \in Register |-> NoWrite]
    /\ crashes' = crashes + 1
    /\ UNCHANGED <<stored, counter, total_finished, sent>>

-----------------------------------------------------------------------------
Init ==
    /\ stored = [r \in Register |-> NoWrite] /\ writing = [r \in Register |-> NoWrite]
    /\ pc = "down"
    /\ pending_cmds = <<>> /\ my_counter = {} /\ ready = <<>>
    /\ counter = [s \in Sector |-> 0] /\ total_finished = [s \in Sector |-> 0]
    /\ sent = {} /\ crashes = 0

Next ==
    \/ BuildRegisters \/ TakeTicket \/ ExecutePending \/ StartAccepting
    \/ \E w \in Write : ClientWrite(w)
    \/ ClientRead
    \/ \E r \in Register : CompleteWrite(r)
    \/ Crash

Spec == Init /\ [][Next]_vars

\* The process is started again after a crash and its tasks run; the other processes are up
\* and answer.
FairSpec ==
    /\ Spec
    /\ WF_vars(BuildRegisters) /\ WF_vars(TakeTicket) /\ WF_vars(ExecutePending)
    /\ WF_vars(StartAccepting)
    /\ \A r \in Register : WF_vars(CompleteWrite(r))

-----------------------------------------------------------------------------
(* Properties *)

\* A process that was started is back in service: the loop over the pending commands ends,
\* and unless the process crashes again it accepts connections.
StartupEnds == pc = "starting" ~> pc # "starting"
=============================================================================
