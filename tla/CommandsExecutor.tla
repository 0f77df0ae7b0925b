-------------------------- MODULE CommandsExecutor --------------------------
(***************************************************************************)
(* One process of the system, from the arrival of a command to the answer: *)
(* solution/src/commands_executor.rs, with the parts of                    *)
(* run_register_process.rs that call it.                                   *)
(*                                                                         *)
(* A task is one client command, read from a connection of its own; it     *)
(* runs execute_client_command.  A lock is held over one action; what      *)
(* another task can do between two locks is a step of its own.             *)
(*                                                                         *)
(* A register is reduced to what the executor depends on: it keeps the     *)
(* callback of the last command it was given, broadcasts in two phases,    *)
(* ignores answers to another read_ident, and then calls back.  One answer *)
(* stands for the quorum of a phase.                                       *)
(***************************************************************************)
EXTENDS Naturals, FiniteSets, Sequences

CONSTANTS
    Register,    \* indices of the registers
    Sector,
    Task,        \* client commands
    Reads,       \* the tasks that are reads; the others are writes
    Rejected,    \* the tasks with a bad HMAC or sector index
    SectorOf,    \* header.sector_idx of each task
    IdOf,        \* header.request_identifier of each task, chosen by the client
    NoTask,
    Leaving,     \* the tasks whose client may close its connection before the answer
    MaxPeer      \* bound: ReadProc and WriteProc received from other processes

ASSUME TaskAssumption == /\ Reads \cup Rejected \cup Leaving \subseteq Task /\ NoTask \notin Task
                         /\ SectorOf \in [Task -> Sector]
ASSUME RegisterAssumption == IsFiniteSet(Register)
ASSUME ExecutorBounds == MaxPeer \in Nat

VARIABLES
    counter, total_finished,   \* sector_counters
    pc, my_counter,            \* execute_client_command of each task
    register_index,            \* the register it took from the ready channel
    handler,                   \* msg_id_handler_sector_idx: routes, as a set of records
    ready,                     \* the channel of ready registers
    inbox,                     \* the channel of commands of each register
    callback, phase, read_ident,   \* the register
    reading, writing,          \* ... the task in readval or writeval while the flag is set
    reported,                  \* the task whose request_identifier a callback was given
    answers,                   \* Value and Ack of the other processes, on their way
    peer                       \* ReadProc and WriteProc received so far

vars == <<counter, total_finished, pc, my_counter, register_index, handler, ready, inbox,
          callback, phase, read_ident, reading, writing, reported, answers, peer>>

executorVars == <<counter, total_finished, pc, my_counter, register_index, handler>>
registerVars == <<callback, phase, read_ident, reading, writing, reported>>

-----------------------------------------------------------------------------
(* execute_client_command *)

\* "new", then "check" (about to lock sector_counters), "unlocked" (it was not its turn and
\* the lock is dropped), "asleep" (in the Notify), "turn" (out of the loop), "route" (it
\* has a register), "send", "given", "respond" (the callback was called), "done", or "left"
\* (the client was gone).
Steps == {"new", "check", "unlocked", "asleep", "turn", "route", "send", "given",
          "respond", "done", "left"}

Goto(t, step) == pc' = [pc EXCEPT ![t] = step]

TakeTicket(t) ==
    LET s == SectorOf[t] IN
    /\ pc[t] = "new" /\ t \notin Rejected
    /\ my_counter' = [my_counter EXCEPT ![t] = counter[s]]
    /\ counter' = [counter EXCEPT ![s] = @ + 1]
    /\ Goto(t, "check")
    /\ UNCHANGED <<total_finished, register_index, handler, ready, inbox,
                   registerVars, answers, peer>>

\* Mutant of IsMyTurn: off by one, the next in line does not wait.
IsMyTurn_Early(t) == my_counter[t] <= total_finished[SectorOf[t]] + 1

IsMyTurn(t) == my_counter[t] = total_finished[SectorOf[t]]

CheckTurn(t) ==
    /\ pc[t] = "check"
    /\ Goto(t, IF IsMyTurn(t) THEN "turn" ELSE "unlocked")
    /\ UNCHANGED <<counter, total_finished, my_counter, register_index, handler, ready,
                   inbox, registerVars, answers, peer>>

\* notify.notified(): from here on a notify_waiters wakes the task.
Sleep(t) ==
    /\ pc[t] = "unlocked"
    /\ Goto(t, "asleep")
    /\ UNCHANGED <<counter, total_finished, my_counter, register_index, handler, ready,
                   inbox, registerVars, answers, peer>>

TakeRegister(t) ==
    /\ pc[t] = "turn"
    /\ ready # <<>>
    /\ register_index' = [register_index EXCEPT ![t] = {Head(ready)}]
    /\ ready' = Tail(ready)
    /\ Goto(t, "route")
    /\ UNCHANGED <<counter, total_finished, my_counter, handler, inbox,
                   registerVars, answers, peer>>

\* Mutant of AddRoute: no route is inserted.
AddRoute_Skipped(t) ==
    /\ pc[t] = "route"
    /\ Goto(t, "send")
    /\ UNCHANGED <<counter, total_finished, my_counter, register_index, handler, ready,
                   inbox, registerVars, answers, peer>>

\* insert into the HashMap: a route with the same id is replaced.
AddRoute(t) ==
    /\ pc[t] = "route"
    /\ \E r \in register_index[t] :
         handler' = {h \in handler : h.id # IdOf[t]}
                       \cup {[id |-> IdOf[t], register |-> r, sector |-> SectorOf[t]]}
    /\ Goto(t, "send")
    /\ UNCHANGED <<counter, total_finished, my_counter, register_index, ready, inbox,
                   registerVars, answers, peer>>

GiveCommand(t) ==
    /\ pc[t] = "send"
    /\ \E r \in register_index[t] :
         inbox' = [inbox EXCEPT ![r] = Append(@, [type |-> "Client", task |-> t])]
    /\ Goto(t, "given")
    /\ UNCHANGED <<counter, total_finished, my_counter, register_index, handler, ready,
                   registerVars, answers, peer>>

-----------------------------------------------------------------------------
(* execute_system_command *)

\* A ReadProc or WriteProc goes to any ready register.
ExecuteRequest ==
    /\ peer < MaxPeer
    /\ ready # <<>>
    /\ inbox' = [inbox EXCEPT ![Head(ready)] = Append(@, [type |-> "Request"])]
    /\ ready' = Tail(ready)
    /\ peer' = peer + 1
    /\ UNCHANGED <<executorVars, registerVars, answers>>

\* A Value or an Ack goes to the register of its msg_ident; without a route it is dropped.
\* The lookup and the send to the register are one step: if the route is removed in between,
\* the operation is over and the register ignores the answer.
ExecuteAnswer(a) ==
    /\ answers' = answers \ {a}
    /\ \/ \E h \in handler :
            /\ h.id = a.id
            /\ inbox' = [inbox EXCEPT ![h.register] =
                           Append(@, [type |-> "Answer", read_ident |-> a.read_ident])]
       \/ (\A h \in handler : h.id # a.id) /\ UNCHANGED inbox
    /\ UNCHANGED <<executorVars, ready, registerVars, peer>>

-----------------------------------------------------------------------------
(* single_register_thread *)

\* Mutant of Receive: after a command of another process the register is not announced.
Receive_ClientOnly(r, type) ==
    /\ inbox[r] # <<>>
    /\ Head(inbox[r]).type = type
    /\ inbox' = [inbox EXCEPT ![r] = Tail(@)]
    /\ ready' = IF type = "Client" THEN Append(ready, r) ELSE ready

\* One turn of the loop: the next command, which the register then handles under its lock,
\* and `ready' again.
Receive(r, type) ==
    /\ inbox[r] # <<>>
    /\ Head(inbox[r]).type = type
    /\ inbox' = [inbox EXCEPT ![r] = Tail(@)]
    /\ ready' = Append(ready, r)

\* Mutant of Broadcast: a new command does not go back to the first phase.
Broadcast_NextPhase(r, t, ph) ==
    /\ read_ident' = [read_ident EXCEPT ![r] = @ + 1]
    /\ phase' = [phase EXCEPT ![r] = @ + 1]
    /\ answers' = answers \cup {[id |-> IdOf[t], read_ident |-> read_ident[r] + 1]}

\* The register broadcasts under its next read_ident and will be answered under it.
Broadcast(r, t, ph) ==
    /\ read_ident' = [read_ident EXCEPT ![r] = @ + 1]
    /\ phase' = [phase EXCEPT ![r] = ph]
    /\ answers' = answers \cup {[id |-> IdOf[t], read_ident |-> read_ident[r] + 1]}

\* client_command: whatever command the register was executing loses its callback.
HandleClient(r) ==
    /\ Receive(r, "Client")
    /\ LET t == Head(inbox[r]).task
       IN  /\ callback' = [callback EXCEPT ![r] = t]
           /\ reading' = [reading EXCEPT ![r] = IF t \in Reads THEN t ELSE @]
           /\ writing' = [writing EXCEPT ![r] = IF t \in Reads THEN @ ELSE t]
           /\ Broadcast(r, t, 1)
    /\ UNCHANGED <<executorVars, reported, peer>>

HandleRequest(r) ==
    /\ Receive(r, "Request")
    /\ UNCHANGED <<executorVars, registerVars, answers, peer>>

IsCurrentAnswer(r) ==
    /\ Head(inbox[r]).read_ident = read_ident[r]
    /\ reading[r] # NoTask \/ writing[r] # NoTask

\* A read is completed before a write, whichever came first.
Completed(r) == IF reading[r] # NoTask THEN reading[r] ELSE writing[r]

\* The operation is over: its flag is cleared and the callback, if there is one, is called
\* with the request_identifier kept beside the flag.
CompleteOperation(r) ==
    /\ IF reading[r] # NoTask
       THEN reading' = [reading EXCEPT ![r] = NoTask] /\ UNCHANGED writing
       ELSE writing' = [writing EXCEPT ![r] = NoTask] /\ UNCHANGED reading
    /\ IF callback[r] # NoTask
       THEN /\ Goto(callback[r], "respond")
            /\ reported' = [reported EXCEPT ![callback[r]] = Completed(r)]
       ELSE UNCHANGED <<pc, reported>>
    /\ callback' = [callback EXCEPT ![r] = NoTask]
    /\ UNCHANGED <<phase, read_ident, answers>>

HandleAnswer(r) ==
    /\ Receive(r, "Answer")
    /\ \/ /\ ~IsCurrentAnswer(r)
          /\ UNCHANGED <<pc, registerVars, answers>>
       \/ /\ IsCurrentAnswer(r) /\ phase[r] = 1
          /\ Broadcast(r, callback[r], 2)
          /\ UNCHANGED <<pc, callback, reading, writing, reported>>
       \/ IsCurrentAnswer(r) /\ phase[r] = 2 /\ CompleteOperation(r)
    /\ UNCHANGED <<counter, total_finished, my_counter, register_index, handler, peer>>

-----------------------------------------------------------------------------
(* finish_client_command, called when the answer is on the wire *)

\* The tasks asleep on sector s go back to the loop, and t moves on.
WakeAndGoto(s, t, step) ==
    pc' = [u \in Task |-> IF u = t THEN step
                          ELSE IF SectorOf[u] = s /\ pc[u] = "asleep" THEN "check"
                          ELSE pc[u]]

FinishCommand(t, id) ==
    \/ \E h \in handler :
         /\ h.id = id
         /\ handler' = handler \ {h}
         /\ total_finished' = [total_finished EXCEPT ![h.sector] = @ + 1]
         /\ WakeAndGoto(h.sector, t, "done")
    \/ /\ \A h \in handler : h.id # id
       /\ Goto(t, "done")
       /\ UNCHANGED <<handler, total_finished>>

\* The callback: respond, then release the sector.
Respond(t) ==
    /\ pc[t] = "respond"
    /\ FinishCommand(t, IdOf[reported[t]])
    /\ UNCHANGED <<counter, my_counter, register_index, ready, inbox,
                   registerVars, answers, peer>>

\* write_all fails, the callback returns, and finish_client_command is never called.
RespondFails(t) ==
    /\ t \in Leaving
    /\ pc[t] = "respond"
    /\ Goto(t, "left")
    /\ UNCHANGED <<counter, total_finished, my_counter, register_index, handler, ready,
                   inbox, registerVars, answers, peer>>

\* respond_err: a command that is turned down is "finished" too, under the id in its header.
RespondError(t) ==
    /\ pc[t] = "new" /\ t \in Rejected
    /\ FinishCommand(t, IdOf[t])
    /\ UNCHANGED <<counter, my_counter, register_index, ready, inbox,
                   registerVars, answers, peer>>

-----------------------------------------------------------------------------
Init ==
    /\ counter = [s \in Sector |-> 0] /\ total_finished = [s \in Sector |-> 0]
    /\ pc = [t \in Task |-> "new"] /\ my_counter = [t \in Task |-> 0]
    /\ register_index = [t \in Task |-> {}]
    /\ handler = {}
    /\ ready \in {q \in [1..Cardinality(Register) -> Register] :
                   \A r \in Register : \E i \in DOMAIN q : q[i] = r}
    /\ inbox = [r \in Register |-> <<>>]
    /\ callback = [r \in Register |-> NoTask]
    /\ phase = [r \in Register |-> 1] /\ read_ident = [r \in Register |-> 0]
    /\ reading = [r \in Register |-> NoTask] /\ writing = [r \in Register |-> NoTask]
    /\ reported = [t \in Task |-> NoTask]
    /\ answers = {}
    /\ peer = 0

ClientStep(t) ==
    \/ TakeTicket(t) \/ CheckTurn(t) \/ Sleep(t) \/ TakeRegister(t) \/ AddRoute(t)
    \/ GiveCommand(t) \/ Respond(t) \/ RespondFails(t) \/ RespondError(t)

WorkerStep(r) == HandleClient(r) \/ HandleRequest(r) \/ HandleAnswer(r)

Next ==
    \/ \E t \in Task : ClientStep(t)
    \/ \E r \in Register : WorkerStep(r)
    \/ \E a \in answers : ExecuteAnswer(a)
    \/ ExecuteRequest

Spec == Init /\ [][Next]_vars

\* tokio runs every spawned task that can take a step (a client's own step is not one:
\* nobody has to send a command), and the answers of a majority keep coming.
Runs(t) ==
    \/ CheckTurn(t) \/ Sleep(t) \/ TakeRegister(t) \/ AddRoute(t) \/ GiveCommand(t)
    \/ Respond(t)

Fairness ==
    /\ \A t \in Task : WF_vars(Runs(t))
    /\ \A r \in Register : WF_vars(WorkerStep(r))
    /\ WF_vars(\E a \in answers : ExecuteAnswer(a))

FairSpec == Spec /\ Fairness
-----------------------------------------------------------------------------
(* Properties *)

HasTicket(t) == t \notin Rejected /\ pc[t] # "new"

\* Out of the loop and not answered.
OwnsSector(t) == pc[t] \in {"turn", "route", "send", "given", "respond"}

\* Every variable holds a value the code's types allow.
TypeOK ==
    /\ counter \in [Sector -> Nat] /\ total_finished \in [Sector -> Nat]
    /\ pc \in [Task -> Steps] /\ my_counter \in [Task -> Nat]
    /\ register_index \in [Task -> SUBSET Register]
    /\ handler \subseteq [id : {IdOf[t] : t \in Task}, register : Register, sector : Sector]
    /\ ready \in Seq(Register)
    /\ callback \in [Register -> Task \cup {NoTask}]
    /\ phase \in [Register -> 1..2] /\ read_ident \in [Register -> Nat]
    /\ reading \in [Register -> Task \cup {NoTask}]
    /\ writing \in [Register -> Task \cup {NoTask}]
    /\ reported \in [Task -> Task \cup {NoTask}]
    /\ peer \in 0..MaxPeer

\* A sector is used in the order of the tickets: when a command is past the loop of
\* execute_client_command, every command on its sector with an earlier ticket was answered
\* and released the sector, and none with a later ticket is past the loop. A sector whose
\* client left before the answer is given to nobody.
SectorInTurn ==
    \A t, u \in Task :
        (OwnsSector(t) /\ u # t /\ HasTicket(u) /\ SectorOf[u] = SectorOf[t])
            => IF my_counter[u] < my_counter[t] THEN pc[u] = "done" ELSE ~OwnsSector(u)

\* While a register has the callback of a command, answers to that command are routed to
\* that register and its release goes to the right sector: no answer is dropped, and no
\* other command's end takes the route away.
RoutedToExecutor ==
    \A r \in Register : callback[r] # NoTask =>
        [id |-> IdOf[callback[r]], register |-> r, sector |-> SectorOf[callback[r]]]
            \in handler

\* A command that has its sector always gets a register in the end: the workers cannot all
\* be kept by commands that wait for one another.
GetsRegister == \A t \in Task : pc[t] = "turn" ~> pc[t] # "turn"

\* A command whose turn it is leaves the loop.
OwnerLeavesLoop ==
    \A t \in Task :
        (pc[t] \in {"check", "unlocked", "asleep"} /\ IsMyTurn(t)) ~> OwnsSector(t)

\* The reply to a write is that of a write, and the reply to a read that of a read.
ReplyOfItsKind ==
    \A t \in Task : reported[t] # NoTask => (reported[t] \in Reads <=> t \in Reads)
=============================================================================
