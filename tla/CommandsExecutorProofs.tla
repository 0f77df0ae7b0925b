----------------------- MODULE CommandsExecutorProofs -----------------------
(***************************************************************************)
(* Proofs about CommandsExecutor, for every number of registers, sectors   *)
(* and commands.                                                           *)
(***************************************************************************)
EXTENDS CommandsExecutor, FiniteSetTheorems, SequenceTheorems, TLAPS

(* The channels of the registers *)

Message == [type : {"Client"}, task : Task] \cup {[type |-> "Request"]}
              \cup {[type |-> "Answer", read_ident |-> n] : n \in Nat}

ChannelsTyped ==
    /\ inbox \in [Register -> Seq(Message)]
    /\ \A a \in answers : a.read_ident \in Nat

\* The i-th command in the channel of register r is that of client task t.
Holds(r, i, t) ==
    i \in DOMAIN inbox[r] /\ inbox[r][i].type = "Client" /\ inbox[r][i].task = t

\* What sending a command to a register puts into its channel.
LEMMA SentCommand ==
    ASSUME ChannelsTyped, NEW r \in Register, NEW m \in Message,
           inbox' = [inbox EXCEPT ![r] = Append(@, m)]
    PROVE  /\ inbox' \in [Register -> Seq(Message)]
           /\ \A q \in Register, i \in Nat, t \in Task :
                Holds(q, i, t)' <=>
                   \/ Holds(q, i, t)
                   \/ /\ q = r /\ i = Len(inbox[r]) + 1
                      /\ m.type = "Client" /\ m.task = t
  <1>1. inbox[r] \in Seq(Message)
    BY DEF ChannelsTyped
  <1> DEFINE s == inbox[r]
             a == Append(s, m)
  <1>2. /\ a \in Seq(Message) /\ Len(s) \in Nat
        /\ DOMAIN s = 1..Len(s) /\ DOMAIN a = 1..(Len(s) + 1)
        /\ \A i \in 1..Len(s) : a[i] = s[i]
        /\ a[Len(s) + 1] = m
    BY <1>1
  <1>3. inbox' \in [Register -> Seq(Message)] /\ inbox'[r] = a
    BY <1>2 DEF ChannelsTyped
  <1>4. \A q \in Register : q # r => inbox'[q] = inbox[q]
    BY DEF ChannelsTyped
  <1> HIDE DEF a
  <1>5. ASSUME NEW q \in Register, NEW i \in Nat, NEW t \in Task
        PROVE  Holds(q, i, t)' <=>
                   \/ Holds(q, i, t)
                   \/ /\ q = r /\ i = Len(inbox[r]) + 1
                      /\ m.type = "Client" /\ m.task = t
    <2>1. CASE q = r
      <3>1. CASE i \in 1..Len(s)
        BY <1>2, <1>3, <2>1, <3>1 DEF Holds
      <3>2. CASE i = Len(s) + 1
        BY <1>2, <1>3, <2>1, <3>2 DEF Holds
      <3>3. CASE i \notin 1..(Len(s) + 1)
        BY <1>2, <1>3, <2>1, <3>3 DEF Holds
      <3> QED
        BY <1>2, <3>1, <3>2, <3>3
    <2>2. CASE q # r
      BY <1>4, <2>2 DEF Holds
    <2> QED
      BY <2>1, <2>2
  <1> QED
    BY <1>3, <1>5

\* What a register's taking the next command leaves in its channel.
LEMMA TakenCommand ==
    ASSUME ChannelsTyped, NEW r \in Register, inbox[r] # <<>>,
           inbox' = [inbox EXCEPT ![r] = Tail(@)]
    PROVE  /\ inbox' \in [Register -> Seq(Message)]
           /\ Head(inbox[r]) \in Message /\ Head(inbox[r]) = inbox[r][1]
           /\ 1 \in DOMAIN inbox[r]
           /\ \A q \in Register, i \in Nat, t \in Task :
                Holds(q, i, t)' <=>
                   IF q = r THEN i # 0 /\ Holds(r, i + 1, t) ELSE Holds(q, i, t)
  <1>1. inbox[r] \in Seq(Message)
    BY DEF ChannelsTyped
  <1> DEFINE s == inbox[r]
             a == Tail(s)
  <1>2. /\ a \in Seq(Message) /\ Len(s) \in Nat \ {0} /\ Head(s) = s[1]
        /\ DOMAIN s = 1..Len(s) /\ DOMAIN a = 1..(Len(s) - 1)
        /\ \A i \in 1..(Len(s) - 1) : a[i] = s[i + 1]
    BY <1>1
  <1>3. inbox' \in [Register -> Seq(Message)] /\ inbox'[r] = a
    BY <1>2 DEF ChannelsTyped
  <1>4. \A q \in Register : q # r => inbox'[q] = inbox[q]
    BY DEF ChannelsTyped
  <1>5. s[1] \in Message /\ 1 \in DOMAIN s
    BY <1>1, <1>2
  <1> HIDE DEF a
  <1>6. ASSUME NEW q \in Register, NEW i \in Nat, NEW t \in Task
        PROVE  Holds(q, i, t)' <=>
                   IF q = r THEN i # 0 /\ Holds(r, i + 1, t) ELSE Holds(q, i, t)
    <2>1. CASE q = r
      <3>1. CASE i \in 1..(Len(s) - 1)
        <4>1. i + 1 \in 1..Len(s) /\ i # 0
          BY <1>2, <3>1
        <4> QED
          BY <1>2, <1>3, <2>1, <3>1, <4>1 DEF Holds
      <3>2. CASE i \notin 1..(Len(s) - 1)
        <4>1. i = 0 \/ i + 1 \notin 1..Len(s)
          BY <1>2, <3>2
        <4> QED
          BY <1>2, <1>3, <2>1, <3>2, <4>1 DEF Holds
      <3> QED
        BY <3>1, <3>2
    <2>2. CASE q # r
      BY <1>4, <2>2 DEF Holds
    <2> QED
      BY <2>1, <2>2
  <1> QED
    BY <1>2, <1>3, <1>5, <1>6

-----------------------------------------------------------------------------
(* Type correctness *)

TypeInv == TypeOK /\ ChannelsTyped

\* The ready channel starts as some order of all registers.
LEMMA TypeInit == Init => TypeInv
  <1> SUFFICES ASSUME Init PROVE TypeInv
    OBVIOUS
  <1>1. Cardinality(Register) \in Nat
    BY RegisterAssumption, FS_CardinalityType
  <1>2. ready \in Seq(Register)
    <2>1. ready \in [1..Cardinality(Register) -> Register]
      BY DEF Init
    <2> QED
      BY <1>1, <2>1, SeqDef
  <1>3. TypeOK
    BY <1>2, ExecutorBounds DEF Init, TypeOK, Steps
  <1>4. ChannelsTyped
    BY DEF Init, ChannelsTyped
  <1> QED
    BY <1>3, <1>4 DEF TypeInv

\* A command that ends releases at most one sector and removes at most one route.
LEMMA FinishTypes ==
    ASSUME TypeInv, NEW t \in Task, NEW id, FinishCommand(t, id)
    PROVE  /\ pc' \in [Task -> Steps] /\ total_finished' \in [Sector -> Nat]
           /\ handler' \subseteq [id : {IdOf[u] : u \in Task}, register : Register,
                                  sector : Sector]
  <1>1. CASE \E h \in handler :
               /\ h.id = id
               /\ handler' = handler \ {h}
               /\ total_finished' = [total_finished EXCEPT ![h.sector] = @ + 1]
               /\ WakeAndGoto(h.sector, t, "done")
    <2>1. PICK h \in handler :
               /\ handler' = handler \ {h}
               /\ total_finished' = [total_finished EXCEPT ![h.sector] = @ + 1]
               /\ WakeAndGoto(h.sector, t, "done")
      BY <1>1
    <2>2. pc' \in [Task -> Steps]
      BY <2>1 DEF WakeAndGoto, TypeInv, TypeOK, Steps
    <2> QED
      BY <2>1, <2>2 DEF TypeInv, TypeOK
  <1>2. CASE Goto(t, "done") /\ UNCHANGED <<handler, total_finished>>
    BY <1>2 DEF Goto, TypeInv, TypeOK, Steps
  <1> QED
    BY <1>1, <1>2 DEF FinishCommand

\* The steps of a client's task keep the types.
LEMMA ClientTypes ==
    ASSUME TypeInv, NEW t \in Task, ClientStep(t)
    PROVE  TypeInv'
  <1> USE DEF TypeInv
  <1>1. CASE TakeTicket(t)
    <2>1. SectorOf[t] \in Sector
      BY TaskAssumption
    <2>2. counter' \in [Sector -> Nat] /\ my_counter' \in [Task -> Nat]
      BY <1>1, <2>1 DEF TakeTicket, TypeOK
    <2>3. pc' \in [Task -> Steps]
      BY <1>1 DEF TakeTicket, Goto, TypeOK, Steps
    <2> QED
      BY <1>1, <2>2, <2>3 DEF TakeTicket, registerVars, TypeOK, ChannelsTyped
  <1>2. CASE CheckTurn(t)
    BY <1>2 DEF CheckTurn, Goto, registerVars, TypeOK, Steps, ChannelsTyped
  <1>3. CASE Sleep(t)
    BY <1>3 DEF Sleep, Goto, registerVars, TypeOK, Steps, ChannelsTyped
  <1>4. CASE TakeRegister(t)
    <2>1. ready' \in Seq(Register) /\ Head(ready) \in Register
      BY <1>4 DEF TakeRegister, TypeOK
    <2> QED
      BY <1>4, <2>1 DEF TakeRegister, Goto, registerVars, TypeOK, Steps, ChannelsTyped
  <1>5. CASE AddRoute(t)
    <2>1. PICK r \in register_index[t] :
             handler' = {h \in handler : h.id # IdOf[t]}
                       \cup {[id |-> IdOf[t], register |-> r, sector |-> SectorOf[t]]}
      BY <1>5 DEF AddRoute
    <2>2. r \in Register /\ SectorOf[t] \in Sector
      BY TaskAssumption DEF TypeOK
    <2>3. handler' \subseteq [id : {IdOf[u] : u \in Task}, register : Register,
                              sector : Sector]
      BY <2>1, <2>2 DEF TypeOK
    <2> QED
      BY <1>5, <2>3 DEF AddRoute, Goto, registerVars, TypeOK, Steps, ChannelsTyped
  <1>6. CASE GiveCommand(t)
    <2>1. PICK r \in register_index[t] :
             inbox' = [inbox EXCEPT ![r] = Append(@, [type |-> "Client", task |-> t])]
      BY <1>6 DEF GiveCommand
    <2>2. r \in Register /\ [type |-> "Client", task |-> t] \in Message
      BY DEF TypeOK, Message
    <2>3. inbox' \in [Register -> Seq(Message)]
      BY <2>1, <2>2, SentCommand
    <2> QED
      BY <1>6, <2>3 DEF GiveCommand, Goto, registerVars, TypeOK, Steps, ChannelsTyped
  <1>7. CASE Respond(t)
    BY <1>7, FinishTypes DEF Respond, registerVars, TypeOK, ChannelsTyped
  <1>8. CASE RespondFails(t)
    BY <1>8 DEF RespondFails, Goto, registerVars, TypeOK, Steps, ChannelsTyped
  <1>9. CASE RespondError(t)
    BY <1>9, FinishTypes DEF RespondError, registerVars, TypeOK, ChannelsTyped
  <1> QED
    BY <1>1, <1>2, <1>3, <1>4, <1>5, <1>6, <1>7, <1>8, <1>9 DEF ClientStep

\* A broadcast is answered under the next read_ident.
LEMMA BroadcastTypes ==
    ASSUME TypeInv, NEW r \in Register, NEW t, NEW ph \in 1..2, Broadcast(r, t, ph)
    PROVE  /\ phase' \in [Register -> 1..2] /\ read_ident' \in [Register -> Nat]
           /\ \A a \in answers' : a.read_ident \in Nat
  BY DEF Broadcast, TypeInv, TypeOK, ChannelsTyped

\* The steps of a register's thread keep the types.
LEMMA WorkerTypes ==
    ASSUME TypeInv, NEW r \in Register, WorkerStep(r)
    PROVE  TypeInv'
  <1> USE DEF TypeInv
  <1>1. PICK type \in {"Client", "Request", "Answer"} : Receive(r, type)
    BY DEF WorkerStep, HandleClient, HandleRequest, HandleAnswer
  <1>2. /\ inbox' \in [Register -> Seq(Message)] /\ ready' \in Seq(Register)
        /\ Head(inbox[r]) \in Message
    <2>1. /\ inbox[r] # <<>> /\ inbox' = [inbox EXCEPT ![r] = Tail(@)]
          /\ ready' = Append(ready, r)
      BY <1>1 DEF Receive
    <2>2. ready' \in Seq(Register)
      BY <2>1 DEF TypeOK
    <2> QED
      BY <2>1, <2>2, TakenCommand
  <1>3. CASE HandleClient(r)
    <2> DEFINE t == Head(inbox[r]).task
    <2>1. t \in Task
      BY <1>2, <1>3 DEF HandleClient, Receive, Message
    <2>2. Broadcast(r, t, 1) /\ 1 \in 1..2
      BY <1>3 DEF HandleClient
    <2>3. /\ phase' \in [Register -> 1..2] /\ read_ident' \in [Register -> Nat]
          /\ \A a \in answers' : a.read_ident \in Nat
      BY <2>2, BroadcastTypes
    <2>4. /\ callback' \in [Register -> Task \cup {NoTask}]
          /\ reading' \in [Register -> Task \cup {NoTask}]
          /\ writing' \in [Register -> Task \cup {NoTask}]
      BY <1>3, <2>1 DEF HandleClient, TypeOK
    <2> QED
      BY <1>2, <1>3, <2>3, <2>4 DEF HandleClient, executorVars, TypeOK, ChannelsTyped
  <1>4. CASE HandleRequest(r)
    BY <1>2, <1>4 DEF HandleRequest, executorVars, registerVars, TypeOK, ChannelsTyped
  <1>5. CASE HandleAnswer(r)
    <2>1. CASE UNCHANGED <<pc, registerVars, answers>>
      BY <1>2, <1>5, <2>1 DEF HandleAnswer, registerVars, TypeOK, ChannelsTyped
    <2>2. CASE Broadcast(r, callback[r], 2)
                 /\ UNCHANGED <<pc, callback, reading, writing, reported>>
      <3>1. /\ phase' \in [Register -> 1..2] /\ read_ident' \in [Register -> Nat]
            /\ \A a \in answers' : a.read_ident \in Nat
        BY <2>2, BroadcastTypes
      <3> QED
        BY <1>2, <1>5, <2>2, <3>1 DEF HandleAnswer, TypeOK, ChannelsTyped
    <2>3. CASE CompleteOperation(r)
      <3>1. pc' \in [Task -> Steps] /\ reported' \in [Task -> Task \cup {NoTask}]
        BY <2>3 DEF CompleteOperation, Completed, Goto, TypeOK, Steps
      <3>2. /\ reading' \in [Register -> Task \cup {NoTask}]
            /\ writing' \in [Register -> Task \cup {NoTask}]
            /\ callback' \in [Register -> Task \cup {NoTask}]
        BY <2>3 DEF CompleteOperation, TypeOK
      <3> QED
        BY <1>2, <1>5, <2>3, <3>1, <3>2
           DEF HandleAnswer, CompleteOperation, TypeOK, ChannelsTyped
    <2> QED
      BY <1>5, <2>1, <2>2, <2>3 DEF HandleAnswer
  <1> QED
    BY <1>3, <1>4, <1>5 DEF WorkerStep

\* The commands of other processes keep the types.
LEMMA SystemTypes ==
    ASSUME TypeInv, ExecuteRequest \/ \E a \in answers : ExecuteAnswer(a)
    PROVE  TypeInv'
  <1> USE DEF TypeInv
  <1>1. CASE ExecuteRequest
    <2>1. Head(ready) \in Register /\ ready' \in Seq(Register) /\ peer' \in 0..MaxPeer
      BY <1>1, ExecutorBounds DEF ExecuteRequest, TypeOK
    <2>2. inbox' \in [Register -> Seq(Message)]
      BY <1>1, <2>1, SentCommand DEF ExecuteRequest, Message
    <2> QED
      BY <1>1, <2>1, <2>2
         DEF ExecuteRequest, executorVars, registerVars, TypeOK, ChannelsTyped
  <1>2. ASSUME NEW a \in answers, ExecuteAnswer(a) PROVE TypeInv'
    <2>1. CASE \E h \in handler :
                 inbox' = [inbox EXCEPT ![h.register] =
                              Append(@, [type |-> "Answer", read_ident |-> a.read_ident])]
      <3>1. PICK h \in handler :
                 inbox' = [inbox EXCEPT ![h.register] =
                              Append(@, [type |-> "Answer", read_ident |-> a.read_ident])]
        BY <2>1
      <3>2. /\ h.register \in Register
            /\ [type |-> "Answer", read_ident |-> a.read_ident] \in Message
        BY DEF TypeOK, ChannelsTyped, Message
      <3>3. inbox' \in [Register -> Seq(Message)]
        BY <3>1, <3>2, SentCommand
      <3> QED
        BY <1>2, <3>3 DEF ExecuteAnswer, executorVars, registerVars, TypeOK, ChannelsTyped
    <2>2. CASE UNCHANGED inbox
      BY <1>2, <2>2 DEF ExecuteAnswer, executorVars, registerVars, TypeOK, ChannelsTyped
    <2> QED
      BY <1>2, <2>1, <2>2 DEF ExecuteAnswer
  <1> QED
    BY <1>1, <1>2

LEMMA TypeStep == TypeInv /\ [Next]_vars => TypeInv'
  <1> SUFFICES ASSUME TypeInv, [Next]_vars PROVE TypeInv'
    OBVIOUS
  <1>1. CASE UNCHANGED vars
    BY <1>1 DEF TypeInv, TypeOK, ChannelsTyped, vars
  <1> QED
    BY <1>1, ClientTypes, WorkerTypes, SystemTypes DEF Next

LEMMA TypesInv == Spec => []TypeInv
  BY TypeInit, TypeStep, PTL DEF Spec

\* The executor and its registers stay well typed: counters never go below zero, a route
\* names a register and a sector, and a channel holds registers that exist.
THEOREM ExecutorTypesHold == Spec => []TypeOK
  <1>1. TypeInv => TypeOK
    BY DEF TypeInv
  <1> QED
    BY <1>1, TypesInv, PTL

-----------------------------------------------------------------------------
(* Routes *)

\* No two commands have the same request_identifier: the clients number their commands
\* apart.
DistinctIds == \A t, u \in Task : IdOf[t] = IdOf[u] => t = u

Route(t, r) == [id |-> IdOf[t], register |-> r, sector |-> SectorOf[t]]

Given(t, r) == pc[t] = "given" /\ register_index[t] = {r}

\* Out of the ready channel a command takes one register.
RegisterTaken ==
    \A t \in Task : pc[t] \in {"route", "send", "given"} =>
        \E r \in Register : register_index[t] = {r}

\* A command waits in one channel at one place, and was not begun.
QueuedOnce ==
    \A r \in Register, i \in Nat, t \in Task : Holds(r, i, t) =>
        /\ Given(t, r) /\ callback[r] # t /\ reading[r] # t
        /\ \A j \in Nat : Holds(r, j, t) => j = i

\* The command of the callback is the last read or the last write of the register.
CallbackOwn ==
    \A r \in Register : callback[r] # NoTask =>
        /\ Given(callback[r], r)
        /\ IF callback[r] \in Reads THEN reading[r] = callback[r]
           ELSE writing[r] = callback[r]

\* A read that is under way was not answered.
ReadingGiven ==
    \A r \in Register : reading[r] # NoTask =>
        reading[r] \in Reads /\ Given(reading[r], r)

\* A read that lost its callback to another command: nothing will answer its client.
Lost(u) ==
    /\ pc[u] = "given"
    /\ \A r \in Register : /\ callback[r] # u /\ reading[r] # u
                           /\ \A i \in Nat : ~Holds(r, i, u)

\* A callback is told of its own command, or of a read that was lost.
ReportsOwnOrLost ==
    \A t \in Task : pc[t] = "respond" =>
        reported[t] = t \/ (reported[t] \in Reads /\ Lost(reported[t]))

\* The route of a command is there from before it is given to a register until its
\* callback is called.
RoutesKept ==
    \A t \in Task, r \in Register :
        (\/ pc[t] = "send" /\ r \in register_index[t]
         \/ callback[r] = t
         \/ \E i \in Nat : Holds(r, i, t)) => Route(t, r) \in handler

RouteInv ==
    /\ TypeInv /\ RegisterTaken /\ QueuedOnce /\ CallbackOwn /\ ReadingGiven
    /\ ReportsOwnOrLost /\ RoutesKept

\* The commands whose route an answer or an end may still need.
Needs(t, r) ==
    \/ pc[t] = "send" /\ r \in register_index[t]
    \/ callback[r] = t
    \/ \E i \in Nat : Holds(r, i, t)

LEMMA RouteInit == Init => RouteInv
  <1> SUFFICES ASSUME Init PROVE RouteInv
    OBVIOUS
  <1>1. TypeInv
    BY TypeInit
  <1>2. \A r \in Register, i \in Nat, t \in Task : ~Holds(r, i, t)
    BY DEF Init, Holds
  <1>3. \A t \in Task : pc[t] = "new"
    BY DEF Init
  <1>4. \A r \in Register : callback[r] = NoTask /\ reading[r] = NoTask
    BY DEF Init
  <1>5. NoTask \notin Task
    BY TaskAssumption
  <1> QED
    BY <1>1, <1>2, <1>3, <1>4, <1>5
       DEF RouteInv, RegisterTaken, QueuedOnce, CallbackOwn, ReadingGiven,
           ReportsOwnOrLost, RoutesKept

\* A task that moves in the loop or ends its command changes nothing for the routes, if
\* what is still needed stays.
LEMMA PcRoutes ==
    ASSUME RouteInv, TypeInv',
           UNCHANGED <<register_index, inbox, callback, reading, writing, reported>>,
           \A u \in Task :
              \/ pc'[u] = pc[u]
              \/ /\ pc[u] \notin {"route", "send", "given"}
                 /\ pc'[u] \notin {"route", "send", "given", "respond"},
           \A u \in Task, r \in Register :
              Route(u, r) \in handler /\ Needs(u, r) => Route(u, r) \in handler'
    PROVE  RouteInv'
  <1> USE DEF RouteInv
  <1>1. \A r \in Register, i \in Nat, u \in Task : Holds(r, i, u)' <=> Holds(r, i, u)
    BY DEF Holds
  <1>2. \A r \in Register, u \in Task : Given(u, r) => Given(u, r)'
    BY DEF Given
  <1>3. RegisterTaken'
    BY DEF RegisterTaken
  <1>4. QueuedOnce'
    BY <1>1, <1>2 DEF QueuedOnce
  <1>5. CallbackOwn'
    BY <1>2 DEF CallbackOwn, TypeInv, TypeOK
  <1>6. ReadingGiven'
    BY <1>2 DEF ReadingGiven, TypeInv, TypeOK
  <1>7. \A u \in Task : Lost(u) => Lost(u)'
    BY <1>1 DEF Lost
  <1>8. ReportsOwnOrLost'
    BY <1>7, TaskAssumption DEF ReportsOwnOrLost
  <1>9. RoutesKept'
    <2>1. \A u \in Task, r \in Register : Needs(u, r)' => Needs(u, r)
      BY <1>1 DEF Needs
    <2>2. \A u \in Task, r \in Register : Needs(u, r) => Route(u, r) \in handler
      BY DEF RoutesKept, Needs
    <2>3. \A u \in Task, r \in Register : Needs(u, r)' => Route(u, r) \in handler'
      BY <2>1, <2>2
    <2> QED
      BY <2>3 DEF RoutesKept, Needs, Route
  <1> QED
    BY <1>3, <1>4, <1>5, <1>6, <1>8, <1>9

\* finish_client_command takes away the route of a command that is over or was lost.
LEMMA FinishRoutes ==
    ASSUME DistinctIds, RouteInv, TypeInv', NEW t \in Task, NEW v \in Task,
           pc[t] \in {"new", "respond"}, v = t \/ Lost(v), FinishCommand(t, IdOf[v]),
           UNCHANGED <<register_index, inbox, callback, reading, writing, reported>>
    PROVE  RouteInv'
  <1>1. \A r \in Register : ~Needs(v, r)
    <2> SUFFICES ASSUME NEW r \in Register PROVE ~Needs(v, r)
      OBVIOUS
    <2>1. CASE Lost(v)
      BY <2>1 DEF Lost, Needs
    <2>2. CASE v = t
      <3>1. ~Given(t, r)
        BY DEF Given
      <3>2. callback[r] # t
        BY <3>1, TaskAssumption DEF RouteInv, CallbackOwn
      <3>3. \A i \in Nat : ~Holds(r, i, t)
        BY <3>1 DEF RouteInv, QueuedOnce
      <3> QED
        BY <2>2, <3>2, <3>3 DEF Needs
    <2> QED
      BY <2>1, <2>2
  <1>2. \A u \in Task, r \in Register :
           Route(u, r) \in handler /\ Needs(u, r) => Route(u, r) \in handler'
    <2> SUFFICES ASSUME NEW u \in Task, NEW r \in Register, Route(u, r) \in handler,
                        Needs(u, r)
                 PROVE  Route(u, r) \in handler'
      OBVIOUS
    <2>1. Route(u, r).id # IdOf[v]
      BY <1>1 DEF Route, DistinctIds
    <2> QED
      BY <2>1 DEF FinishCommand
  <1>3. \A u \in Task :
              \/ pc'[u] = pc[u]
              \/ /\ pc[u] \notin {"route", "send", "given"}
                 /\ pc'[u] \notin {"route", "send", "given", "respond"}
    <2>1. pc \in [Task -> Steps]
      BY DEF RouteInv, TypeInv, TypeOK
    <2>2. CASE \E s : WakeAndGoto(s, t, "done")
      BY <2>2 DEF WakeAndGoto
    <2>3. CASE Goto(t, "done")
      BY <2>1, <2>3 DEF Goto
    <2> QED
      BY <2>2, <2>3 DEF FinishCommand
  <1> QED
    BY <1>2, <1>3, PcRoutes

\* The steps of a client's task keep the routes.
LEMMA ClientRoutes ==
    ASSUME DistinctIds, RouteInv, TypeInv', NEW t \in Task, ClientStep(t)
    PROVE  RouteInv'
  <1>0. pc \in [Task -> Steps] /\ register_index \in [Task -> SUBSET Register]
    BY DEF RouteInv, TypeInv, TypeOK
  <1>1. CASE TakeTicket(t) \/ CheckTurn(t) \/ Sleep(t) \/ RespondFails(t)
    <2>1. /\ UNCHANGED <<register_index, inbox, callback, reading, writing, reported, handler>>
          /\ \A u \in Task :
              \/ pc'[u] = pc[u]
              \/ /\ pc[u] \notin {"route", "send", "given"}
                 /\ pc'[u] \notin {"route", "send", "given", "respond"}
      BY <1>0, <1>1 DEF TakeTicket, CheckTurn, Sleep, RespondFails, Goto, registerVars
    <2> QED
      BY <2>1, PcRoutes
  <1>2. CASE TakeRegister(t)
    <2>1. /\ pc[t] = "turn" /\ pc'[t] = "route" /\ \A u \in Task \ {t} : pc'[u] = pc[u]
          /\ UNCHANGED <<handler, inbox, callback, reading, writing, reported>>
          /\ \A u \in Task \ {t} : register_index'[u] = register_index[u]
      BY <1>0, <1>2 DEF TakeRegister, Goto, registerVars
    <2>2. Head(ready) \in Register /\ register_index'[t] = {Head(ready)}
      BY <1>0, <1>2 DEF TakeRegister, RouteInv, TypeInv, TypeOK
    <2>3. \A r \in Register, i \in Nat, u \in Task : Holds(r, i, u)' <=> Holds(r, i, u)
      BY <2>1 DEF Holds
    <2>4. \A r \in Register, u \in Task : Given(u, r) => Given(u, r)'
      BY <2>1 DEF Given
    <2>5. \A u \in Task : Lost(u) => Lost(u)'
      BY <2>1, <2>3 DEF Lost
    <2>6. RegisterTaken'
      BY <2>1, <2>2 DEF RegisterTaken, RouteInv
    <2>7. QueuedOnce'
      BY <2>1, <2>3, <2>4 DEF QueuedOnce, RouteInv
    <2>8. CallbackOwn' /\ ReadingGiven'
      BY <2>1, <2>4 DEF CallbackOwn, ReadingGiven, RouteInv, TypeInv, TypeOK
    <2>9. ReportsOwnOrLost'
      BY <2>1, <2>5, TaskAssumption DEF ReportsOwnOrLost, RouteInv
    <2>10. RoutesKept'
      BY <2>1, <2>3 DEF RoutesKept, Route, RouteInv
    <2> QED
      BY <2>6, <2>7, <2>8, <2>9, <2>10 DEF RouteInv
  <1>3. CASE AddRoute(t)
    <2>1. /\ pc[t] = "route" /\ pc'[t] = "send" /\ \A u \in Task \ {t} : pc'[u] = pc[u]
          /\ UNCHANGED <<register_index, inbox, callback, reading, writing, reported>>
      BY <1>0, <1>3 DEF AddRoute, Goto, registerVars
    <2>2. PICK r \in Register : register_index[t] = {r}
      BY <2>1 DEF RegisterTaken, RouteInv
    <2>3. handler' = {h \in handler : h.id # IdOf[t]} \cup {Route(t, r)}
      BY <1>3, <2>2 DEF AddRoute, Route
    <2>4. \A q \in Register, i \in Nat, u \in Task : Holds(q, i, u)' <=> Holds(q, i, u)
      BY <2>1 DEF Holds
    <2>5. \A q \in Register, u \in Task : Given(u, q) => Given(u, q)'
      BY <2>1 DEF Given
    <2>6. \A u \in Task : Lost(u) => Lost(u)'
      BY <2>1, <2>4 DEF Lost
    <2>7. RegisterTaken' /\ QueuedOnce'
      BY <2>1, <2>4, <2>5 DEF RegisterTaken, QueuedOnce, RouteInv
    <2>8. CallbackOwn' /\ ReadingGiven'
      BY <2>1, <2>5 DEF CallbackOwn, ReadingGiven, RouteInv, TypeInv, TypeOK
    <2>9. ReportsOwnOrLost'
      BY <2>1, <2>6, TaskAssumption DEF ReportsOwnOrLost, RouteInv
    <2>10. ASSUME NEW u \in Task, NEW q \in Register, Needs(u, q)'
           PROVE  Route(u, q) \in handler'
      <3>1. CASE u = t
        <4>1. ~Given(t, q)
          BY <2>1 DEF Given
        <4>2. callback[q] # t /\ \A i \in Nat : ~Holds(q, i, t)
          BY <4>1, TaskAssumption DEF RouteInv, CallbackOwn, QueuedOnce
        <4>3. q = r
          BY <2>1, <2>2, <2>4, <2>10, <3>1, <4>2 DEF Needs
        <4> QED
          BY <2>3, <3>1, <4>3
      <3>2. CASE u # t
        <4>1. Route(u, q) \in handler
          BY <2>1, <2>4, <2>10, <3>2 DEF Needs, RoutesKept, RouteInv
        <4>2. Route(u, q).id # IdOf[t]
          BY <3>2 DEF Route, DistinctIds
        <4> QED
          BY <2>3, <4>1, <4>2
      <3> QED
        BY <3>1, <3>2
    <2>11. RoutesKept'
      BY <2>10 DEF RoutesKept, Needs, Route
    <2> QED
      BY <2>7, <2>8, <2>9, <2>11 DEF RouteInv
  <1>4. CASE GiveCommand(t)
    <2>1. /\ pc[t] = "send" /\ pc'[t] = "given" /\ \A u \in Task \ {t} : pc'[u] = pc[u]
          /\ UNCHANGED <<register_index, handler, callback, reading, writing, reported>>
      BY <1>0, <1>4 DEF GiveCommand, Goto, registerVars
    <2>2. PICK r \in Register : register_index[t] = {r}
      BY <2>1 DEF RegisterTaken, RouteInv
    <2>3. inbox' = [inbox EXCEPT ![r] = Append(@, [type |-> "Client", task |-> t])]
      BY <1>4, <2>2 DEF GiveCommand
    <2>4. \A q \in Register, i \in Nat, u \in Task :
             Holds(q, i, u)' <=>
                 Holds(q, i, u) \/ (q = r /\ i = Len(inbox[r]) + 1 /\ u = t)
      <3> DEFINE m == [type |-> "Client", task |-> t]
      <3>1. m \in Message /\ m.type = "Client" /\ m.task = t
        BY DEF Message
      <3> HIDE DEF m
      <3>2. inbox' = [inbox EXCEPT ![r] = Append(@, m)]
        BY <2>3 DEF m
      <3>3. \A q \in Register, i \in Nat, u \in Task :
                Holds(q, i, u)' <=>
                   \/ Holds(q, i, u)
                   \/ /\ q = r /\ i = Len(inbox[r]) + 1
                      /\ m.type = "Client" /\ m.task = u
        BY <3>1, <3>2, SentCommand DEF RouteInv, TypeInv
      <3> QED
        BY <3>1, <3>3
    <2>5. \A q \in Register : ~Given(t, q)
      BY <2>1 DEF Given
    <2>6. \A q \in Register : /\ callback[q] # t /\ reading[q] # t
                              /\ \A i \in Nat : ~Holds(q, i, t)
      BY <2>5, TaskAssumption DEF RouteInv, CallbackOwn, ReadingGiven, QueuedOnce
    <2>7. \A q \in Register, u \in Task : Given(u, q) => Given(u, q)'
      BY <2>1 DEF Given
    <2>8. \A u \in Task : Lost(u) => Lost(u)'
      BY <2>1, <2>4 DEF Lost
    <2>9. RegisterTaken'
      BY <2>1 DEF RegisterTaken, RouteInv
    <2>10. QueuedOnce'
      <3>1. Given(t, r)'
        BY <2>1, <2>2 DEF Given
      <3> QED
        BY <2>1, <2>4, <2>6, <2>7, <3>1 DEF QueuedOnce, RouteInv
    <2>11. CallbackOwn' /\ ReadingGiven'
      BY <2>1, <2>7 DEF CallbackOwn, ReadingGiven, RouteInv, TypeInv, TypeOK
    <2>12. ReportsOwnOrLost'
      BY <2>1, <2>8, TaskAssumption DEF ReportsOwnOrLost, RouteInv
    <2>13. Route(t, r) \in handler
      BY <2>1, <2>2 DEF RoutesKept, RouteInv
    <2>14. RoutesKept'
      BY <2>1, <2>4, <2>6, <2>13 DEF RoutesKept, Route, RouteInv
    <2> QED
      BY <2>9, <2>10, <2>11, <2>12, <2>14 DEF RouteInv
  <1>5. CASE Respond(t)
    <2>1. reported[t] \in Task /\ (reported[t] = t \/ Lost(reported[t]))
      BY <1>5, TaskAssumption DEF Respond, ReportsOwnOrLost, RouteInv
    <2> QED
      BY <1>5, <2>1, FinishRoutes DEF Respond, registerVars
  <1>6. CASE RespondError(t)
    BY <1>6, FinishRoutes DEF RespondError, registerVars
  <1> QED
    BY <1>1, <1>2, <1>3, <1>4, <1>5, <1>6 DEF ClientStep

\* Commands that are not a client's move through the channels without changing the routes.
LEMMA ChannelRoutes ==
    ASSUME RouteInv, TypeInv',
           UNCHANGED <<pc, register_index, handler, callback, reading, writing, reported>>,
           \A q \in Register, i \in Nat, u \in Task :
              Holds(q, i, u)' => \E k \in Nat : Holds(q, k, u),
           \A q \in Register, i, j \in Nat, u \in Task :
              Holds(q, i, u)' /\ Holds(q, j, u)' => i = j
    PROVE  RouteInv'
  <1> USE DEF RouteInv
  <1>1. \A r \in Register, u \in Task : Given(u, r) => Given(u, r)'
    BY DEF Given
  <1>2. RegisterTaken'
    BY DEF RegisterTaken
  <1>3. QueuedOnce'
    BY <1>1 DEF QueuedOnce
  <1>4. CallbackOwn' /\ ReadingGiven'
    BY <1>1 DEF CallbackOwn, ReadingGiven, TypeInv, TypeOK
  <1>5. \A u \in Task : Lost(u) => Lost(u)'
    BY DEF Lost
  <1>6. ReportsOwnOrLost'
    BY <1>5, TaskAssumption DEF ReportsOwnOrLost
  <1>7. RoutesKept'
    BY DEF RoutesKept, Route
  <1> QED
    BY <1>2, <1>3, <1>4, <1>6, <1>7

\* What a command leaves of the channels when it is received.
LEMMA ReceivedOnce ==
    ASSUME RouteInv, NEW r \in Register, NEW type, Receive(r, type)
    PROVE  /\ \A q \in Register, i \in Nat, u \in Task :
                Holds(q, i, u)' => \E k \in Nat : Holds(q, k, u)
           /\ \A q \in Register, i, j \in Nat, u \in Task :
                Holds(q, i, u)' /\ Holds(q, j, u)' => i = j
           /\ type = "Client" =>
                \E t \in Task : /\ t = Head(inbox[r]).task /\ Holds(r, 1, t)
                                 /\ \A i \in Nat : ~Holds(r, i, t)'
  <1>1. ChannelsTyped /\ QueuedOnce
    BY DEF RouteInv, TypeInv
  <1>2. inbox[r] # <<>> /\ inbox' = [inbox EXCEPT ![r] = Tail(@)]
          /\ Head(inbox[r]).type = type
    BY DEF Receive
  <1>3. /\ Head(inbox[r]) \in Message /\ Head(inbox[r]) = inbox[r][1]
        /\ 1 \in DOMAIN inbox[r]
        /\ \A q \in Register, i \in Nat, t \in Task :
                Holds(q, i, t)' <=>
                   IF q = r THEN i # 0 /\ Holds(r, i + 1, t) ELSE Holds(q, i, t)
    BY <1>1, <1>2, TakenCommand
  <1>4. ASSUME NEW q \in Register, NEW i \in Nat, NEW u \in Task, Holds(q, i, u)'
        PROVE  \E k \in Nat : Holds(q, k, u)
    BY <1>3, <1>4
  <1>5. ASSUME NEW q \in Register, NEW i \in Nat, NEW j \in Nat, NEW u \in Task,
               Holds(q, i, u)', Holds(q, j, u)'
        PROVE  i = j
    <2>1. CASE q = r
      <3>1. Holds(r, i + 1, u) /\ Holds(r, j + 1, u) /\ i + 1 \in Nat /\ j + 1 \in Nat
        BY <1>3, <1>5, <2>1
      <3>2. i + 1 = j + 1
        BY <1>1, <3>1 DEF QueuedOnce
      <3> QED
        BY <3>2
    <2>2. CASE q # r
      BY <1>1, <1>3, <1>5, <2>2 DEF QueuedOnce
    <2> QED
      BY <2>1, <2>2
  <1>6. ASSUME type = "Client"
        PROVE  \E t \in Task : /\ t = Head(inbox[r]).task /\ Holds(r, 1, t)
                                /\ \A i \in Nat : ~Holds(r, i, t)'
    <2>1. PICK t \in Task : t = Head(inbox[r]).task
      BY <1>2, <1>3, <1>6 DEF Message
    <2>2. Holds(r, 1, t)
      BY <1>2, <1>3, <1>6, <2>1 DEF Holds
    <2>3. ASSUME NEW i \in Nat, Holds(r, i, t)' PROVE FALSE
      <3>1. i # 0 /\ Holds(r, i + 1, t) /\ i + 1 \in Nat
        BY <1>3, <2>1, <2>3
      <3>2. i + 1 = 1
        BY <1>1, <2>1, <2>2, <3>1 DEF QueuedOnce
      <3> QED
        BY <3>1, <3>2
    <2> QED
      BY <2>1, <2>2, <2>3
  <1> QED
    BY <1>4, <1>5, <1>6

\* client_command of a register keeps the routes, even if it is in the middle of another.
LEMMA HandleClientRoutes ==
    ASSUME RouteInv, TypeInv', NEW r \in Register, HandleClient(r)
    PROVE  RouteInv'
  <1>0. PICK t \in Task : /\ t = Head(inbox[r]).task /\ Holds(r, 1, t)
                         /\ \A i \in Nat : ~Holds(r, i, t)'
    BY ReceivedOnce DEF HandleClient
  <1>1. /\ Holds(r, 1, t)
        /\ \A i \in Nat : ~Holds(r, i, t)'
        /\ \A q \in Register, i \in Nat, u \in Task :
             Holds(q, i, u)' => \E k \in Nat : Holds(q, k, u)
        /\ \A q \in Register, i, j \in Nat, u \in Task :
             Holds(q, i, u)' /\ Holds(q, j, u)' => i = j
    BY <1>0, ReceivedOnce DEF HandleClient
  <1>2. Given(t, r) /\ Route(t, r) \in handler
    BY <1>1 DEF RouteInv, QueuedOnce, RoutesKept
  <1>3. /\ UNCHANGED <<pc, register_index, handler, reported>>
        /\ callback' = [callback EXCEPT ![r] = t]
        /\ reading' = [reading EXCEPT ![r] = IF t \in Reads THEN t ELSE @]
        /\ writing' = [writing EXCEPT ![r] = IF t \in Reads THEN @ ELSE t]
    BY <1>0 DEF HandleClient, executorVars
  <1>4. /\ callback'[r] = t
        /\ reading'[r] = IF t \in Reads THEN t ELSE reading[r]
        /\ writing'[r] = IF t \in Reads THEN writing[r] ELSE t
        /\ \A q \in Register \ {r} : /\ callback'[q] = callback[q]
                                     /\ reading'[q] = reading[q] /\ writing'[q] = writing[q]
    BY <1>3 DEF RouteInv, TypeInv, TypeOK
  <1>5. \A q \in Register, u \in Task : Given(u, q)' <=> Given(u, q)
    BY <1>3 DEF Given
  <1>6. \A q \in Register : Given(t, q) => q = r
    BY <1>2 DEF Given
  <1>7. RegisterTaken'
    BY <1>3 DEF RouteInv, RegisterTaken
  <1>8. QueuedOnce'
    <2> SUFFICES ASSUME NEW q \in Register, NEW i \in Nat, NEW u \in Task, Holds(q, i, u)'
                 PROVE  /\ Given(u, q)' /\ callback'[q] # u /\ reading'[q] # u
                        /\ \A j \in Nat : Holds(q, j, u)' => j = i
      BY DEF QueuedOnce
    <2>1. PICK k \in Nat : Holds(q, k, u)
      BY <1>1
    <2>2. Given(u, q) /\ callback[q] # u /\ reading[q] # u
      BY <2>1 DEF RouteInv, QueuedOnce
    <2>3. q = r => u # t
      BY <1>1
    <2>4. callback'[q] # u /\ reading'[q] # u
      BY <1>4, <2>2, <2>3
    <2> QED
      BY <1>1, <1>5, <2>2, <2>4
  <1>9. CallbackOwn'
    <2> SUFFICES ASSUME NEW q \in Register, NEW u \in Task, callback'[q] = u
                 PROVE  /\ Given(u, q)'
                        /\ IF u \in Reads THEN reading'[q] = u ELSE writing'[q] = u
      BY DEF CallbackOwn, TypeInv, TypeOK
    <2>2. CASE q = r
      BY <1>2, <1>4, <1>5, <2>2
    <2>3. CASE q # r
      BY <1>4, <1>5, <2>3, TaskAssumption DEF RouteInv, CallbackOwn
    <2> QED
      BY <2>2, <2>3
  <1>10. ReadingGiven'
    <2> SUFFICES ASSUME NEW q \in Register, NEW u \in Task, reading'[q] = u
                 PROVE  u \in Reads /\ Given(u, q)'
      BY DEF ReadingGiven, TypeInv, TypeOK
    <2>2. CASE q = r /\ t \in Reads
      BY <1>2, <1>4, <1>5, <2>2
    <2>3. CASE ~(q = r /\ t \in Reads)
      BY <1>4, <1>5, <2>3, TaskAssumption DEF RouteInv, ReadingGiven
    <2> QED
      BY <2>2, <2>3
  <1>11. \A u \in Task : Lost(u) => Lost(u)'
    <2> SUFFICES ASSUME NEW u \in Task, Lost(u) PROVE Lost(u)'
      OBVIOUS
    <2>1. u # t
      BY <1>1 DEF Lost
    <2>2. pc'[u] = "given"
      BY <1>3 DEF Lost
    <2>3. \A q \in Register : callback'[q] # u /\ reading'[q] # u
      BY <1>4, <2>1 DEF Lost
    <2> QED
      BY <1>1, <2>2, <2>3 DEF Lost
  <1>12. ReportsOwnOrLost'
    BY <1>3, <1>11, TaskAssumption DEF RouteInv, ReportsOwnOrLost
  <1>13. RoutesKept'
    BY <1>1, <1>2, <1>3, <1>4 DEF RouteInv, RoutesKept, Route
  <1> QED
    BY <1>7, <1>8, <1>9, <1>10, <1>12, <1>13 DEF RouteInv

\* The end of an operation calls the callback for the command it was set for, or in the
\* name of a read that the command displaced.
LEMMA CompleteRoutes ==
    ASSUME RouteInv, TypeInv', NEW r \in Register, Receive(r, "Answer"),
           IsCurrentAnswer(r), CompleteOperation(r), UNCHANGED <<register_index, handler>>
    PROVE  RouteInv'
  <1>1. /\ \A q \in Register, i \in Nat, u \in Task :
             Holds(q, i, u)' => \E k \in Nat : Holds(q, k, u)
        /\ \A q \in Register, i, j \in Nat, u \in Task :
             Holds(q, i, u)' /\ Holds(q, j, u)' => i = j
    BY ReceivedOnce
  <1>0. PICK c \in Task \cup {NoTask} : c = callback[r]
    BY DEF RouteInv, TypeInv, TypeOK
  <1>2. /\ pc \in [Task -> Steps] /\ reported \in [Task -> Task \cup {NoTask}]
        /\ callback \in [Register -> Task \cup {NoTask}]
        /\ reading \in [Register -> Task \cup {NoTask}]
        /\ writing \in [Register -> Task \cup {NoTask}]
    BY DEF RouteInv, TypeInv, TypeOK
  <1>3. NoTask \notin Task /\ Reads \subseteq Task
    BY TaskAssumption
  <1>4. /\ callback'[r] = NoTask /\ reading'[r] = NoTask
        /\ \A q \in Register \ {r} : /\ callback'[q] = callback[q]
                                     /\ reading'[q] = reading[q] /\ writing'[q] = writing[q]
    BY <1>2 DEF CompleteOperation
  <1>5. /\ c # NoTask => /\ pc'[c] = "respond" /\ reported'[c] = Completed(r)
        /\ \A u \in Task : u # c => pc'[u] = pc[u] /\ reported'[u] = reported[u]
    BY <1>0, <1>2, <1>3 DEF CompleteOperation, Goto
  <1>6. c # NoTask => c \in Task /\ Given(c, r)
    BY <1>0, <1>2 DEF RouteInv, CallbackOwn
  <1>7. \A q \in Register, u \in Task : Given(u, q) /\ u = c => q = r
    BY <1>3, <1>6 DEF Given
  <1>8. \A q \in Register, u \in Task : Given(u, q) /\ u # c => Given(u, q)'
    BY <1>5 DEF Given
  <1>9. RegisterTaken'
    BY <1>3, <1>5 DEF RouteInv, RegisterTaken
  <1>10. QueuedOnce'
    <2> SUFFICES ASSUME NEW q \in Register, NEW i \in Nat, NEW u \in Task, Holds(q, i, u)'
                 PROVE  /\ Given(u, q)' /\ callback'[q] # u /\ reading'[q] # u
                        /\ \A j \in Nat : Holds(q, j, u)' => j = i
      BY DEF QueuedOnce
    <2>1. PICK k \in Nat : Holds(q, k, u)
      BY <1>1
    <2>2. Given(u, q) /\ callback[q] # u /\ reading[q] # u
      BY <2>1 DEF RouteInv, QueuedOnce
    <2>3. u # c
      BY <1>0, <1>7, <2>2
    <2>4. callback'[q] # u /\ reading'[q] # u
      BY <1>3, <1>4, <2>2
    <2> QED
      BY <1>1, <1>8, <2>2, <2>3, <2>4
  <1>11. CallbackOwn'
    <2> SUFFICES ASSUME NEW q \in Register, NEW u \in Task, callback'[q] = u
                 PROVE  /\ Given(u, q)'
                        /\ IF u \in Reads THEN reading'[q] = u ELSE writing'[q] = u
      BY DEF CallbackOwn, TypeInv, TypeOK
    <2>1. q # r /\ callback[q] = u
      BY <1>3, <1>4
    <2>2. Given(u, q)
      BY <1>3, <2>1 DEF RouteInv, CallbackOwn
    <2>3. u # c
      BY <1>7, <2>1, <2>2
    <2> QED
      BY <1>3, <1>4, <1>8, <2>1, <2>2, <2>3 DEF RouteInv, CallbackOwn
  <1>12. ReadingGiven'
    <2> SUFFICES ASSUME NEW q \in Register, NEW u \in Task, reading'[q] = u
                 PROVE  u \in Reads /\ Given(u, q)'
      BY DEF ReadingGiven, TypeInv, TypeOK
    <2>1. q # r /\ reading[q] = u
      BY <1>3, <1>4
    <2>2. u \in Reads /\ Given(u, q)
      BY <1>3, <2>1 DEF RouteInv, ReadingGiven
    <2>3. u # c
      BY <1>7, <2>1, <2>2
    <2> QED
      BY <1>8, <2>1, <2>2, <2>3
  <1>13. ReportsOwnOrLost'
    <2> SUFFICES ASSUME NEW t \in Task, pc'[t] = "respond", reported'[t] # t
                 PROVE  \E u \in Reads : reported'[t] = u /\ Lost(u)'
      BY DEF ReportsOwnOrLost
    <2>1. CASE t # c
      <3>1. pc[t] = "respond" /\ reported'[t] = reported[t]
        BY <1>5, <2>1
      <3>2. PICK u \in Reads : u = reported[t] /\ Lost(u)
        BY <3>1 DEF RouteInv, ReportsOwnOrLost
      <3>3. u # c /\ u \in Task
        BY <1>0, <1>3, <3>2 DEF Lost
      <3>4. \A q \in Register : callback'[q] # u /\ reading'[q] # u
        BY <1>3, <1>4, <3>2 DEF Lost
      <3>5. \A q \in Register, i \in Nat : ~Holds(q, i, u)'
        BY <1>1, <3>2, <3>3 DEF Lost
      <3>6. Lost(u)'
        BY <1>5, <3>2, <3>3, <3>4, <3>5 DEF Lost
      <3> QED
        BY <3>1, <3>2, <3>6
    <2>2. CASE t = c
      <3>1. c # NoTask /\ reported'[t] = Completed(r)
        BY <1>3, <1>5, <2>2
      <3>2. IF c \in Reads THEN reading[r] = c ELSE writing[r] = c
        BY <1>0, <3>1 DEF RouteInv, CallbackOwn
      <3>3. reading[r] # NoTask /\ reading[r] # c
        BY <2>2, <3>1, <3>2 DEF Completed
      <3>4. PICK u \in Reads : u = reading[r] /\ Given(u, r) /\ reported'[t] = u
        BY <3>1, <3>3 DEF RouteInv, ReadingGiven, Completed
      <3>5. u \in Task /\ \A q \in Register : Given(u, q) => q = r
        BY <1>3, <3>4 DEF Given
      <3>6. \A q \in Register, i \in Nat : ~Holds(q, i, u)
        BY <3>4, <3>5 DEF RouteInv, QueuedOnce
      <3>7. \A q \in Register \ {r} : callback[q] # u /\ reading[q] # u
        BY <1>3, <3>4, <3>5 DEF RouteInv, CallbackOwn, ReadingGiven
      <3>8. \A q \in Register : callback'[q] # u /\ reading'[q] # u
        BY <1>3, <1>4, <3>5, <3>7
      <3>9. \A q \in Register, i \in Nat : ~Holds(q, i, u)'
        BY <1>1, <3>5, <3>6
      <3>10. Lost(u)'
        BY <1>5, <3>3, <3>4, <3>5, <3>8, <3>9 DEF Lost, Given
      <3> QED
        BY <3>4, <3>10
    <2> QED
      BY <2>1, <2>2
  <1>14. RoutesKept'
    <2> SUFFICES ASSUME NEW u \in Task, NEW q \in Register, Needs(u, q)'
                 PROVE  Route(u, q) \in handler'
      BY DEF RoutesKept, Needs, Route
    <2>1. pc'[u] = "send" => pc[u] = "send"
      BY <1>3, <1>5
    <2>2. callback'[q] = u => callback[q] = u
      BY <1>3, <1>4
    <2>3. Needs(u, q)
      BY <1>1, <2>1, <2>2 DEF Needs
    <2> QED
      BY <2>3 DEF RouteInv, RoutesKept, Needs
  <1> QED
    BY <1>9, <1>10, <1>11, <1>12, <1>13, <1>14 DEF RouteInv

\* What happens in the registers and to the commands of other processes keeps the routes.
LEMMA WorkerRoutes ==
    ASSUME RouteInv, TypeInv', NEW r \in Register, WorkerStep(r)
    PROVE  RouteInv'
  <1>1. CASE HandleClient(r)
    BY <1>1, HandleClientRoutes
  <1>2. CASE HandleRequest(r)
    BY <1>2, ReceivedOnce, ChannelRoutes DEF HandleRequest, executorVars, registerVars
  <1>3. CASE HandleAnswer(r)
    <2>1. Receive(r, "Answer") /\ UNCHANGED <<register_index, handler>>
      BY <1>3 DEF HandleAnswer
    <2>2. CASE UNCHANGED <<pc, callback, reading, writing, reported>>
      BY <2>1, <2>2, ReceivedOnce, ChannelRoutes
    <2>3. CASE IsCurrentAnswer(r) /\ CompleteOperation(r)
      BY <2>1, <2>3, CompleteRoutes
    <2> QED
      BY <1>3, <2>2, <2>3 DEF HandleAnswer, registerVars
  <1> QED
    BY <1>1, <1>2, <1>3 DEF WorkerStep

LEMMA SystemRoutes ==
    ASSUME RouteInv, TypeInv', ExecuteRequest \/ \E a \in answers : ExecuteAnswer(a)
    PROVE  RouteInv'
  <1>1. /\ ChannelsTyped /\ TypeOK
        /\ \A q \in Register, i, j \in Nat, u \in Task :
             Holds(q, i, u) /\ Holds(q, j, u) => i = j
    BY DEF RouteInv, TypeInv, QueuedOnce
  <1>2. ASSUME NEW r \in Register, NEW m \in Message, m.type # "Client",
               inbox' = [inbox EXCEPT ![r] = Append(@, m)]
        PROVE  \A q \in Register, i \in Nat, u \in Task : Holds(q, i, u)' <=> Holds(q, i, u)
    BY <1>1, <1>2, SentCommand
  <1>3. \A q \in Register, i \in Nat, u \in Task : Holds(q, i, u)' <=> Holds(q, i, u)
    <2>1. CASE ExecuteRequest
      <3> DEFINE m == [type |-> "Request"]
      <3>1. Head(ready) \in Register /\ m \in Message /\ m.type # "Client"
        BY <1>1, <2>1 DEF ExecuteRequest, TypeOK, Message
      <3>2. inbox' = [inbox EXCEPT ![Head(ready)] = Append(@, m)]
        BY <2>1 DEF ExecuteRequest
      <3> HIDE DEF m
      <3> QED
        BY <1>2, <3>1, <3>2
    <2>2. ASSUME NEW a \in answers, ExecuteAnswer(a)
          PROVE  \A q \in Register, i \in Nat, u \in Task : Holds(q, i, u)' <=> Holds(q, i, u)
      <3> DEFINE m == [type |-> "Answer", read_ident |-> a.read_ident]
      <3>1. m \in Message /\ m.type # "Client"
        BY <1>1 DEF ChannelsTyped, Message
      <3>2. CASE \E h \in handler :
                   inbox' = [inbox EXCEPT ![h.register] = Append(@, m)]
        <4>1. PICK h \in handler : inbox' = [inbox EXCEPT ![h.register] = Append(@, m)]
          BY <3>2
        <4>2. h.register \in Register
          BY <1>1 DEF TypeOK
        <4> HIDE DEF m
        <4> QED
          BY <1>2, <3>1, <4>1, <4>2
      <3>3. CASE UNCHANGED inbox
        BY <3>3 DEF Holds
      <3> QED
        BY <2>2, <3>2, <3>3 DEF ExecuteAnswer
    <2> QED
      BY <2>1, <2>2
  <1>4. UNCHANGED <<pc, register_index, handler, callback, reading, writing, reported>>
    BY DEF ExecuteRequest, ExecuteAnswer, executorVars, registerVars
  <1> QED
    BY <1>1, <1>3, <1>4, ChannelRoutes

LEMMA RouteStep ==
    ASSUME DistinctIds
    PROVE  RouteInv /\ [Next]_vars => RouteInv'
  <1> SUFFICES ASSUME RouteInv, [Next]_vars PROVE RouteInv'
    OBVIOUS
  <1>1. TypeInv'
    BY TypeStep DEF RouteInv
  <1>2. CASE UNCHANGED vars
    BY <1>1, <1>2, PcRoutes DEF vars
  <1> QED
    BY <1>1, <1>2, ClientRoutes, WorkerRoutes, SystemRoutes DEF Next

LEMMA RoutesHeld ==
    ASSUME DistinctIds
    PROVE  Spec => []RouteInv
  BY RouteInit, RouteStep, PTL DEF Spec

\* While a register has the callback of a command, the route of the command leads to it:
\* no answer to a command under way is dropped or given to another register, whatever else
\* the executor does, busy registers and rejected commands included, if the clients number
\* their commands apart.
THEOREM AnswersAreRouted ==
    ASSUME DistinctIds
    PROVE  Spec => []RoutedToExecutor
  <1>1. RouteInv => RoutedToExecutor
    <2> SUFFICES ASSUME RouteInv, NEW r \in Register, callback[r] # NoTask
                 PROVE  Route(callback[r], r) \in handler
      BY DEF RoutedToExecutor, Route
    <2>1. callback[r] \in Task
      BY DEF RouteInv, TypeInv, TypeOK
    <2> QED
      BY <2>1 DEF RouteInv, RoutesKept
  <1> QED
    BY <1>1, RoutesHeld, PTL

-----------------------------------------------------------------------------
(* Tickets *)

\* No other command that is not rejected uses the sector of t.
Lone(t) == \A u \in Task \ Rejected : SectorOf[u] = SectorOf[t] => u = t

\* A register in the middle of a read is given a write only if the read has its sector
\* to itself.
OnlyLoneReadsLost ==
    \A r \in Register :
        (/\ inbox[r] # <<>> /\ Head(inbox[r]).type = "Client"
         /\ Head(inbox[r]).task \notin Reads
         /\ reading[r] # NoTask) => Lone(reading[r])

\* What OnlyLoneReadsLost leaves of a read under way when the callback is that of a write.
BusyWithLone ==
    \A r \in Register :
        (callback[r] # NoTask /\ callback[r] \notin Reads /\ reading[r] # NoTask)
            => Lone(reading[r])

ReportsOwnOrLone ==
    \A t \in Task : pc[t] = "respond" => reported[t] = t \/ Lone(reported[t])

\* A route has the sector of a command that was not rejected.
RoutesOfCommands ==
    \A h \in handler :
        \E t \in Task \ Rejected : h.id = IdOf[t] /\ h.sector = SectorOf[t]

RejectedAtOnce == \A t \in Rejected : pc[t] \in {"new", "done"}

\* Two tickets of a sector differ, and all are below the next one.
TicketsDiffer ==
    \A t \in Task : HasTicket(t) =>
        /\ my_counter[t] < counter[SectorOf[t]]
        /\ \A u \in Task :
             (HasTicket(u) /\ u # t /\ SectorOf[u] = SectorOf[t])
                => my_counter[u] # my_counter[t]

\* On a shared sector total_finished is the ticket of whoever has it; those below are done.
TurnsKept ==
    \A t \in Task \ Rejected : ~Lone(t) =>
        LET finished == total_finished[SectorOf[t]] IN
        /\ finished <= counter[SectorOf[t]]
        /\ pc[t] \notin {"new", "done"} => finished <= my_counter[t]
        /\ OwnsSector(t) => finished = my_counter[t]

TicketInv ==
    /\ RouteInv /\ BusyWithLone /\ ReportsOwnOrLone /\ RoutesOfCommands
    /\ RejectedAtOnce /\ TicketsDiffer /\ TurnsKept

LEMMA TicketInit == Init => TicketInv
  <1> SUFFICES ASSUME Init PROVE TicketInv
    OBVIOUS
  <1>1. RouteInv
    BY RouteInit
  <1>2. \A t \in Task : pc[t] = "new"
    BY DEF Init
  <1>3. RejectedAtOnce /\ TicketsDiffer /\ ReportsOwnOrLone
    BY <1>2, TaskAssumption DEF RejectedAtOnce, TicketsDiffer, HasTicket, ReportsOwnOrLone
  <1>4. BusyWithLone /\ RoutesOfCommands
    BY DEF Init, BusyWithLone, RoutesOfCommands
  <1>5. TurnsKept
    <2>1. \A t \in Task : counter[SectorOf[t]] = 0 /\ total_finished[SectorOf[t]] = 0
      BY TaskAssumption DEF Init
    <2> QED
      BY <1>2, <2>1 DEF TurnsKept, OwnsSector
  <1> QED
    BY <1>1, <1>3, <1>4, <1>5 DEF TicketInv

\* A step of a task that neither takes a ticket nor releases a sector keeps the turns, if
\* it enters the sector only at its turn.
LEMMA QuietTurns ==
    ASSUME TicketInv, RouteInv', BusyWithLone', ReportsOwnOrLone', RoutesOfCommands',
           UNCHANGED <<counter, my_counter, total_finished>>,
           \A u \in Task :
              \/ pc'[u] = pc[u]
              \/ u \in Rejected /\ pc'[u] = "done"
              \/ /\ pc[u] \notin {"new", "done"} /\ pc'[u] # "new"
                 /\ OwnsSector(u)' => OwnsSector(u) \/ IsMyTurn(u)
    PROVE  TicketInv'
  <1>1. RejectedAtOnce'
    BY TaskAssumption DEF TicketInv, RejectedAtOnce
  <1>2. \A u \in Task : HasTicket(u)' => HasTicket(u)
    BY DEF HasTicket
  <1>3. TicketsDiffer'
    BY <1>2 DEF TicketInv, TicketsDiffer
  <1>4. TurnsKept'
    <2> SUFFICES ASSUME NEW u \in Task \ Rejected, ~Lone(u)
                 PROVE  /\ total_finished'[SectorOf[u]] <= counter'[SectorOf[u]]
                        /\ pc'[u] \notin {"new", "done"} =>
                              total_finished'[SectorOf[u]] <= my_counter'[u]
                        /\ OwnsSector(u)' =>
                              total_finished'[SectorOf[u]] = my_counter'[u]
      BY DEF TurnsKept, Lone
    <2>1. pc'[u] \notin {"new", "done"} => pc[u] \notin {"new", "done"}
      BY DEF TicketInv
    <2>2. OwnsSector(u)' => OwnsSector(u) \/ IsMyTurn(u)
      BY DEF OwnsSector
    <2> QED
      BY <2>1, <2>2 DEF TicketInv, TurnsKept, IsMyTurn
  <1> QED
    BY <1>1, <1>3, <1>4 DEF TicketInv

\* A new ticket is above those of all commands before it.
LEMMA NewTicket ==
    ASSUME TicketInv, RouteInv', NEW t \in Task, TakeTicket(t)
    PROVE  TicketInv'
  <1> DEFINE s == SectorOf[t]
  <1>1. /\ pc \in [Task -> Steps] /\ counter \in [Sector -> Nat]
        /\ my_counter \in [Task -> Nat] /\ total_finished \in [Sector -> Nat]
        /\ SectorOf \in [Task -> Sector]
    BY TaskAssumption DEF TicketInv, RouteInv, TypeInv, TypeOK
  <1>2. /\ pc[t] = "new" /\ t \notin Rejected /\ pc'[t] = "check"
        /\ \A u \in Task \ {t} : pc'[u] = pc[u] /\ my_counter'[u] = my_counter[u]
        /\ my_counter'[t] = counter[s] /\ counter'[s] = counter[s] + 1
        /\ \A q \in Sector \ {s} : counter'[q] = counter[q]
        /\ UNCHANGED <<total_finished, handler, callback, reading, reported>>
    BY <1>1 DEF TakeTicket, Goto, registerVars
  <1>3. BusyWithLone' /\ ReportsOwnOrLone' /\ RoutesOfCommands'
    <2>1. ReportsOwnOrLone'
      BY <1>2 DEF TicketInv, ReportsOwnOrLone, Lone
    <2> QED
      BY <1>2, <2>1 DEF TicketInv, BusyWithLone, RoutesOfCommands, Lone
  <1>4. RejectedAtOnce'
    BY <1>2, TaskAssumption DEF TicketInv, RejectedAtOnce
  <1>5. \A u \in Task : HasTicket(u)' <=> HasTicket(u) \/ u = t
    BY <1>2 DEF HasTicket
  <1>6. \A u \in Task : HasTicket(u) => u # t /\ my_counter[u] < counter[SectorOf[u]]
    BY <1>2 DEF TicketInv, TicketsDiffer, HasTicket
  <1>7. TicketsDiffer'
    <2> SUFFICES ASSUME NEW u \in Task, HasTicket(u)'
                 PROVE  /\ my_counter'[u] < counter'[SectorOf[u]]
                        /\ \A v \in Task :
                             (HasTicket(v)' /\ v # u /\ SectorOf[v] = SectorOf[u])
                                => my_counter'[v] # my_counter'[u]
      BY DEF TicketsDiffer
    <2>1. my_counter'[u] < counter'[SectorOf[u]]
      <3>1. CASE u = t
        BY <1>1, <1>2, <3>1
      <3>2. CASE u # t /\ SectorOf[u] = s
        <4>1. my_counter[u] < counter[s]
          BY <1>5, <1>6, <3>2
        <4> QED
          BY <1>1, <1>2, <3>2, <4>1
      <3>3. CASE u # t /\ SectorOf[u] # s
        BY <1>1, <1>2, <1>5, <1>6, <3>3
      <3> QED
        BY <3>1, <3>2, <3>3
    <2>2. ASSUME NEW v \in Task, HasTicket(v)', v # u, SectorOf[v] = SectorOf[u]
          PROVE  my_counter'[v] # my_counter'[u]
      <3>1. CASE u = t
        <4>1. my_counter[v] < counter[s] /\ my_counter'[v] = my_counter[v]
          BY <1>2, <1>5, <1>6, <2>2, <3>1
        <4> QED
          BY <1>1, <1>2, <3>1, <4>1
      <3>2. CASE v = t
        <4>1. my_counter[u] < counter[s] /\ my_counter'[u] = my_counter[u]
          BY <1>2, <1>5, <1>6, <2>2, <3>2
        <4> QED
          BY <1>1, <1>2, <3>2, <4>1
      <3>3. CASE u # t /\ v # t
        BY <1>2, <1>5, <2>2, <3>3 DEF TicketInv, TicketsDiffer
      <3> QED
        BY <3>1, <3>2, <3>3
    <2> QED
      BY <2>1, <2>2
  <1>8. TurnsKept'
    <2> SUFFICES ASSUME NEW u \in Task \ Rejected, ~Lone(u)
                 PROVE  /\ total_finished'[SectorOf[u]] <= counter'[SectorOf[u]]
                        /\ pc'[u] \notin {"new", "done"} =>
                              total_finished'[SectorOf[u]] <= my_counter'[u]
                        /\ OwnsSector(u)' =>
                              total_finished'[SectorOf[u]] = my_counter'[u]
      BY DEF TurnsKept, Lone
    <2>1. total_finished[SectorOf[u]] <= counter[SectorOf[u]]
      BY DEF TicketInv, TurnsKept
    <2>2. /\ counter[SectorOf[u]] <= counter'[SectorOf[u]]
          /\ counter[SectorOf[u]] \in Nat /\ counter'[SectorOf[u]] \in Nat
          /\ total_finished[SectorOf[u]] \in Nat
      <3>1. SectorOf[u] \in Sector
        BY <1>1
      <3>2. CASE SectorOf[u] = s
        BY <1>1, <1>2, <3>1, <3>2
      <3>3. CASE SectorOf[u] # s
        BY <1>1, <1>2, <3>1, <3>3
      <3> QED
        BY <3>2, <3>3
    <2>3. total_finished'[SectorOf[u]] <= counter'[SectorOf[u]]
      BY <1>2, <2>1, <2>2
    <2>4. CASE u = t
      BY <1>2, <2>1, <2>3, <2>4 DEF OwnsSector
    <2>5. CASE u # t
      BY <1>2, <2>3, <2>5 DEF OwnsSector, TicketInv, TurnsKept
    <2> QED
      BY <2>4, <2>5
  <1> QED
    BY <1>3, <1>4, <1>7, <1>8 DEF TicketInv

\* A command that releases a sector releases its own, or one that nobody else uses.
LEMMA ReleaseTurn ==
    ASSUME DistinctIds, TicketInv, RouteInv', NEW t \in Task, Respond(t)
    PROVE  TicketInv'
  <1>1. /\ pc \in [Task -> Steps] /\ total_finished \in [Sector -> Nat]
        /\ counter \in [Sector -> Nat] /\ my_counter \in [Task -> Nat]
        /\ SectorOf \in [Task -> Sector]
    BY TaskAssumption DEF TicketInv, RouteInv, TypeInv, TypeOK
  <1>2. PICK v \in Task : v = reported[t] /\ (v = t \/ Lone(v))
    BY TaskAssumption
       DEF Respond, TicketInv, RouteInv, ReportsOwnOrLost, ReportsOwnOrLone
  <1>3. /\ pc[t] = "respond" /\ FinishCommand(t, IdOf[v])
        /\ UNCHANGED <<counter, my_counter, callback, reading, reported>>
    BY <1>2 DEF Respond, registerVars
  <1>4. t \notin Rejected
    BY <1>3 DEF TicketInv, RejectedAtOnce
  <1>5. handler' \subseteq handler
    BY <1>3 DEF FinishCommand
  <1>6. RoutesOfCommands' /\ BusyWithLone'
    BY <1>3, <1>5 DEF TicketInv, RoutesOfCommands, BusyWithLone, Lone
  <1>7. CASE Goto(t, "done") /\ UNCHANGED <<handler, total_finished>>
    <2>1. pc'[t] = "done" /\ \A u \in Task \ {t} : pc'[u] = pc[u]
      BY <1>1, <1>7 DEF Goto
    <2>2. ReportsOwnOrLone'
      BY <1>3, <2>1 DEF TicketInv, ReportsOwnOrLone, Lone
    <2>3. \A u \in Task :
              \/ pc'[u] = pc[u]
              \/ /\ pc[u] \notin {"new", "done"} /\ pc'[u] # "new"
                 /\ OwnsSector(u)' => OwnsSector(u) \/ IsMyTurn(u)
      BY <1>3, <2>1 DEF OwnsSector
    <2> QED
      BY <1>3, <1>6, <1>7, <2>2, <2>3, QuietTurns
  <1>8. CASE \E h \in handler :
               /\ h.id = IdOf[v]
               /\ total_finished' = [total_finished EXCEPT ![h.sector] = @ + 1]
               /\ WakeAndGoto(h.sector, t, "done")
    <2> DEFINE s == SectorOf[v]
    <2>1. /\ v \notin Rejected
          /\ total_finished' = [total_finished EXCEPT ![s] = @ + 1]
          /\ WakeAndGoto(s, t, "done")
      BY <1>8 DEF DistinctIds, TicketInv, RoutesOfCommands
    <2>2. /\ pc'[t] = "done"
          /\ \A u \in Task \ {t} :
               pc'[u] = pc[u] \/ (pc[u] = "asleep" /\ pc'[u] = "check")
      BY <2>1 DEF WakeAndGoto
    <2>3. /\ s \in Sector /\ total_finished'[s] = total_finished[s] + 1
          /\ \A q \in Sector \ {s} : total_finished'[q] = total_finished[q]
      BY <1>1, <2>1
    <2> HIDE DEF s
    <2>4. ReportsOwnOrLone'
      BY <1>3, <2>2 DEF TicketInv, ReportsOwnOrLone, Lone
    <2>5. RejectedAtOnce'
      BY <2>2, TaskAssumption DEF TicketInv, RejectedAtOnce
    <2>6. \A u \in Task : HasTicket(u)' => HasTicket(u)
      BY <1>3, <2>2 DEF HasTicket
    <2>7. TicketsDiffer'
      BY <1>3, <2>6 DEF TicketInv, TicketsDiffer
    <2>8. TurnsKept'
      <3> SUFFICES ASSUME NEW u \in Task \ Rejected, ~Lone(u)
                 PROVE  /\ total_finished'[SectorOf[u]] <= counter'[SectorOf[u]]
                        /\ pc'[u] \notin {"new", "done"} =>
                              total_finished'[SectorOf[u]] <= my_counter'[u]
                        /\ OwnsSector(u)' =>
                              total_finished'[SectorOf[u]] = my_counter'[u]
        BY DEF TurnsKept, Lone
      <3>1. /\ pc'[u] \notin {"new", "done"} => pc[u] \notin {"new", "done"} /\ u # t
            /\ OwnsSector(u)' => OwnsSector(u) /\ u # t
        BY <2>2 DEF OwnsSector
      <3>2. /\ total_finished[SectorOf[u]] <= counter[SectorOf[u]]
            /\ pc[u] \notin {"new", "done"} => total_finished[SectorOf[u]] <= my_counter[u]
            /\ OwnsSector(u) => total_finished[SectorOf[u]] = my_counter[u]
        BY DEF TicketInv, TurnsKept
      <3>3. CASE SectorOf[u] # s
        <4>1. total_finished'[SectorOf[u]] = total_finished[SectorOf[u]]
          BY <1>1, <2>3, <3>3
        <4> QED
          BY <1>3, <3>1, <3>2, <4>1
      <3>4. CASE SectorOf[u] = s
        <4>1. ~Lone(v) /\ v = t
          BY <1>2, <3>4 DEF Lone, s
        <4>2. HasTicket(t) /\ OwnsSector(t)
          BY <1>3, <1>4 DEF HasTicket, OwnsSector
        <4>3. /\ my_counter[t] = total_finished[s] /\ my_counter[t] < counter[s]
              /\ SectorOf[t] = s
          BY <1>4, <4>1, <4>2 DEF TicketInv, TurnsKept, TicketsDiffer, s
        <4>4. pc[u] \notin {"new", "done"} /\ u # t => my_counter[u] # my_counter[t]
          BY <3>4, <4>2, <4>3 DEF TicketInv, TicketsDiffer, HasTicket
        <4>5. /\ my_counter[u] \in Nat /\ total_finished[s] \in Nat /\ counter[s] \in Nat
              /\ my_counter'[u] = my_counter[u] /\ counter'[s] = counter[s]
          BY <1>1, <1>3, <2>3
        <4>6. total_finished'[s] <= counter'[s]
          BY <2>3, <4>3, <4>5
        <4>7. pc'[u] \notin {"new", "done"} => total_finished'[s] <= my_counter'[u]
          BY <2>3, <3>1, <3>2, <3>4, <4>3, <4>4, <4>5
        <4>8. ~OwnsSector(u)'
          <5>1. OwnsSector(u)' => pc[u] \notin {"new", "done"}
            BY <3>1 DEF OwnsSector
          <5> QED
            BY <3>1, <3>2, <3>4, <4>3, <4>4, <5>1
        <4> QED
          BY <3>4, <4>6, <4>7, <4>8
      <3> QED
        BY <3>3, <3>4
    <2> QED
      BY <1>6, <2>4, <2>5, <2>7, <2>8 DEF TicketInv
  <1> QED
    BY <1>3, <1>7, <1>8 DEF FinishCommand

\* The steps of a client's task keep tickets and turns.
LEMMA ClientTurns ==
    ASSUME DistinctIds, TicketInv, RouteInv', NEW t \in Task, ClientStep(t)
    PROVE  TicketInv'
  <1>0. pc \in [Task -> Steps] /\ register_index \in [Task -> SUBSET Register]
    BY DEF TicketInv, RouteInv, TypeInv, TypeOK
  <1>1. CASE CheckTurn(t) \/ Sleep(t) \/ RespondFails(t) \/ TakeRegister(t)
               \/ GiveCommand(t) \/ AddRoute(t)
    <2>1. /\ UNCHANGED <<counter, my_counter, total_finished, callback, reading, reported>>
          /\ \A u \in Task \ {t} : pc'[u] = pc[u]
          /\ pc[t] \notin {"new", "done"} /\ pc'[t] \notin {"new", "respond"}
      BY <1>0, <1>1 DEF CheckTurn, Sleep, RespondFails, TakeRegister, GiveCommand, AddRoute,
                        Goto, registerVars
    <2>2. OwnsSector(t)' => OwnsSector(t) \/ IsMyTurn(t)
      BY <1>0, <1>1 DEF CheckTurn, Sleep, RespondFails, TakeRegister, GiveCommand, AddRoute,
                        Goto, OwnsSector
    <2>3. BusyWithLone' /\ ReportsOwnOrLone'
      BY <2>1 DEF TicketInv, BusyWithLone, ReportsOwnOrLone, Lone
    <2>4. RoutesOfCommands'
      <3>1. CASE AddRoute(t)
        <4>1. t \notin Rejected
          BY <2>1 DEF TicketInv, RejectedAtOnce
        <4> QED
          BY <3>1, <4>1 DEF AddRoute, TicketInv, RoutesOfCommands
      <3>2. CASE UNCHANGED handler
        BY <3>2 DEF TicketInv, RoutesOfCommands
      <3> QED
        BY <1>1, <3>1, <3>2 DEF CheckTurn, Sleep, RespondFails, TakeRegister, GiveCommand
    <2> QED
      BY <2>1, <2>2, <2>3, <2>4, QuietTurns
  <1>2. CASE TakeTicket(t)
    BY <1>2, NewTicket
  <1>3. CASE Respond(t)
    BY <1>3, ReleaseTurn
  <1>4. CASE RespondError(t)
    <2>1. t \in Rejected /\ \A h \in handler : h.id # IdOf[t]
      BY <1>4 DEF RespondError, DistinctIds, TicketInv, RoutesOfCommands
    <2>2. /\ Goto(t, "done") /\ UNCHANGED <<handler, total_finished>>
          /\ UNCHANGED <<counter, my_counter, callback, reading, reported>>
      BY <1>4, <2>1 DEF RespondError, FinishCommand, registerVars
    <2>3. pc'[t] = "done" /\ \A u \in Task \ {t} : pc'[u] = pc[u]
      BY <1>0, <2>2 DEF Goto
    <2>4. BusyWithLone' /\ ReportsOwnOrLone' /\ RoutesOfCommands'
      BY <2>2, <2>3
         DEF TicketInv, BusyWithLone, ReportsOwnOrLone, RoutesOfCommands, Lone
    <2> QED
      BY <2>1, <2>2, <2>3, <2>4, QuietTurns
  <1> QED
    BY <1>1, <1>2, <1>3, <1>4 DEF ClientStep

\* A register calls back in the name of another read only if that read is alone on its
\* sector.
LEMMA WorkerTurns ==
    ASSUME TicketInv, OnlyLoneReadsLost, RouteInv', NEW r \in Register, WorkerStep(r)
    PROVE  TicketInv'
  <1>0. /\ pc \in [Task -> Steps] /\ reported \in [Task -> Task \cup {NoTask}]
        /\ callback \in [Register -> Task \cup {NoTask}]
        /\ reading \in [Register -> Task \cup {NoTask}]
        /\ writing \in [Register -> Task \cup {NoTask}]
    BY DEF TicketInv, RouteInv, TypeInv, TypeOK
  <1>1. UNCHANGED <<counter, my_counter, total_finished, handler>>
    BY DEF WorkerStep, HandleClient, HandleRequest, HandleAnswer, executorVars
  <1>2. RoutesOfCommands'
    BY <1>1 DEF TicketInv, RoutesOfCommands
  <1>3. CASE UNCHANGED <<pc, callback, reading, reported>>
    <2>1. BusyWithLone' /\ ReportsOwnOrLone'
      BY <1>3 DEF TicketInv, BusyWithLone, ReportsOwnOrLone, Lone
    <2> QED
      BY <1>1, <1>2, <1>3, <2>1, QuietTurns
  <1>4. CASE HandleClient(r)
    <2> DEFINE t == Head(inbox[r]).task
    <2>1. /\ inbox[r] # <<>> /\ Head(inbox[r]).type = "Client"
          /\ callback'[r] = t /\ reading'[r] = IF t \in Reads THEN t ELSE reading[r]
          /\ \A q \in Register \ {r} : /\ callback'[q] = callback[q]
                                       /\ reading'[q] = reading[q]
          /\ UNCHANGED <<pc, reported>>
      BY <1>0, <1>4 DEF HandleClient, Receive, executorVars
    <2>2. t \notin Reads /\ reading[r] # NoTask => Lone(reading[r])
      BY <2>1 DEF OnlyLoneReadsLost
    <2> HIDE DEF t
    <2>3. ASSUME NEW q \in Register, callback'[q] # NoTask, callback'[q] \notin Reads,
                 reading'[q] # NoTask
          PROVE  reading'[q] = reading[q] /\ Lone(reading[q])
      <3>1. CASE q = r
        BY <2>1, <2>2, <2>3, <3>1
      <3>2. CASE q # r
        BY <2>1, <2>3, <3>2 DEF TicketInv, BusyWithLone
      <3> QED
        BY <3>1, <3>2
    <2>4. BusyWithLone'
      BY <2>3 DEF BusyWithLone, Lone
    <2>5. ReportsOwnOrLone'
      BY <2>1 DEF TicketInv, ReportsOwnOrLone, Lone
    <2> QED
      BY <1>1, <1>2, <2>1, <2>4, <2>5, QuietTurns
  <1>5. CASE IsCurrentAnswer(r) /\ CompleteOperation(r)
    <2>1. PICK c \in Task \cup {NoTask} : c = callback[r]
      BY <1>0
    <2>2. /\ callback'[r] = NoTask
          /\ \A q \in Register \ {r} : /\ callback'[q] = callback[q]
                                       /\ reading'[q] = reading[q]
      BY <1>0, <1>5 DEF CompleteOperation
    <2>3. /\ c # NoTask => pc'[c] = "respond" /\ reported'[c] = Completed(r)
          /\ \A u \in Task : u # c => pc'[u] = pc[u] /\ reported'[u] = reported[u]
      BY <1>0, <1>5, <2>1, TaskAssumption DEF CompleteOperation, Goto
    <2>4. c # NoTask => /\ pc[c] = "given"
                        /\ IF c \in Reads THEN reading[r] = c ELSE writing[r] = c
                        /\ c \notin Reads /\ reading[r] # NoTask => Lone(reading[r])
      BY <2>1 DEF TicketInv, RouteInv, CallbackOwn, Given, BusyWithLone
    <2>5. c # NoTask => Completed(r) = c \/ Lone(Completed(r))
      BY <2>4 DEF Completed
    <2>6. BusyWithLone'
      BY <2>2 DEF TicketInv, BusyWithLone, Lone
    <2>7. ReportsOwnOrLone'
      <3> SUFFICES ASSUME NEW t \in Task, pc'[t] = "respond"
                   PROVE  \E v : reported'[t] = v /\ (v = t \/ Lone(v))
        BY DEF ReportsOwnOrLone, Lone
      <3>1. CASE t = c
        BY <2>3, <2>5, <3>1, TaskAssumption
      <3>2. CASE t # c
        BY <2>3, <3>2 DEF TicketInv, ReportsOwnOrLone
      <3> QED
        BY <3>1, <3>2
    <2>8. \A u \in Task :
              \/ pc'[u] = pc[u]
              \/ /\ pc[u] \notin {"new", "done"} /\ pc'[u] # "new"
                 /\ OwnsSector(u)' => OwnsSector(u)
      BY <2>3, <2>4, TaskAssumption DEF OwnsSector
    <2> QED
      BY <1>1, <1>2, <2>6, <2>7, <2>8, QuietTurns
  <1> QED
    BY <1>3, <1>4, <1>5
       DEF WorkerStep, HandleRequest, HandleAnswer, registerVars, executorVars

LEMMA TicketStep ==
    ASSUME DistinctIds
    PROVE  TicketInv /\ OnlyLoneReadsLost /\ [Next]_vars => TicketInv'
  <1> SUFFICES ASSUME TicketInv, OnlyLoneReadsLost, [Next]_vars PROVE TicketInv'
    OBVIOUS
  <1>1. RouteInv'
    BY RouteStep DEF TicketInv
  <1>2. CASE \/ UNCHANGED vars \/ ExecuteRequest
             \/ \E a \in answers : ExecuteAnswer(a)
    <2>1. UNCHANGED <<counter, my_counter, total_finished, handler, pc, callback, reading,
                      reported>>
      BY <1>2 DEF vars, ExecuteRequest, ExecuteAnswer, executorVars, registerVars
    <2>2. BusyWithLone' /\ ReportsOwnOrLone' /\ RoutesOfCommands'
      BY <2>1 DEF TicketInv, BusyWithLone, ReportsOwnOrLone, RoutesOfCommands, Lone
    <2> QED
      BY <1>1, <2>1, <2>2, QuietTurns
  <1> QED
    BY <1>1, <1>2, ClientTurns, WorkerTurns DEF Next

\* On a shared sector there is one ticket per turn, and tickets differ.
LEMMA TurnsInOrder == TicketInv => SectorInTurn
  <1> SUFFICES ASSUME TicketInv, NEW t \in Task, NEW u \in Task, OwnsSector(t), u # t,
                      HasTicket(u), SectorOf[u] = SectorOf[t]
               PROVE  IF my_counter[u] < my_counter[t] THEN pc[u] = "done"
                      ELSE ~OwnsSector(u)
    BY DEF SectorInTurn
  <1>1. t \in Task \ Rejected /\ u \in Task \ Rejected /\ HasTicket(t)
    BY DEF TicketInv, RejectedAtOnce, OwnsSector, HasTicket
  <1>2. ~Lone(t) /\ ~Lone(u)
    BY <1>1 DEF Lone
  <1>3. my_counter[u] # my_counter[t]
    BY <1>1 DEF TicketInv, TicketsDiffer
  <1>4. total_finished[SectorOf[t]] = my_counter[t]
    BY <1>1, <1>2 DEF TicketInv, TurnsKept
  <1>5. /\ pc[u] # "done" => my_counter[t] <= my_counter[u]
        /\ OwnsSector(u) => my_counter[t] = my_counter[u]
    BY <1>1, <1>2, <1>4 DEF TicketInv, TurnsKept, HasTicket
  <1>6. my_counter[u] \in Nat /\ my_counter[t] \in Nat
    BY DEF TicketInv, RouteInv, TypeInv, TypeOK
  <1> QED
    BY <1>3, <1>5, <1>6

\* The sectors are used in the order of the tickets, as long as no register that is busy
\* with a read of a shared sector is handed a write. That is the one way to lose the order:
\* the register then ends the write in the name of the read, and the sector of the read is
\* released while its client still waits.
THEOREM SectorsInTurn ==
    ASSUME DistinctIds
    PROVE  Spec /\ []OnlyLoneReadsLost => []SectorInTurn
  BY TicketInit, TicketStep, TurnsInOrder, PTL DEF Spec

-----------------------------------------------------------------------------
(* Replies *)

\* No register in the middle of a read is given a write.
ReadsUndisturbed ==
    \A r \in Register :
        (/\ inbox[r] # <<>> /\ Head(inbox[r]).type = "Client"
         /\ Head(inbox[r]).task \notin Reads) => reading[r] = NoTask

\* A register with the callback of a write is not reading, and a callback is told of its
\* own command.
ReplyInv ==
    /\ RouteInv
    /\ \A r \in Register :
         (callback[r] # NoTask /\ callback[r] \notin Reads) => reading[r] = NoTask
    /\ \A t \in Task : reported[t] # NoTask => reported[t] = t

LEMMA ReplyStep ==
    ASSUME DistinctIds
    PROVE  ReplyInv /\ ReadsUndisturbed /\ [Next]_vars => ReplyInv'
  <1> SUFFICES ASSUME ReplyInv, ReadsUndisturbed, [Next]_vars PROVE ReplyInv'
    OBVIOUS
  <1>0. /\ RouteInv' /\ reported \in [Task -> Task \cup {NoTask}]
        /\ callback \in [Register -> Task \cup {NoTask}]
        /\ reading \in [Register -> Task \cup {NoTask}]
        /\ writing \in [Register -> Task \cup {NoTask}]
    BY RouteStep DEF ReplyInv, RouteInv, TypeInv, TypeOK
  <1>1. CASE UNCHANGED <<callback, reading, reported>>
    BY <1>0, <1>1 DEF ReplyInv
  <1>2. ASSUME NEW r \in Register, HandleClient(r) PROVE ReplyInv'
    <2> DEFINE t == Head(inbox[r]).task
    <2>1. /\ inbox[r] # <<>> /\ Head(inbox[r]).type = "Client" /\ UNCHANGED reported
          /\ callback'[r] = t /\ reading'[r] = IF t \in Reads THEN t ELSE reading[r]
          /\ \A q \in Register \ {r} : /\ callback'[q] = callback[q]
                                       /\ reading'[q] = reading[q]
      BY <1>0, <1>2 DEF HandleClient, Receive
    <2>2. t \notin Reads => reading[r] = NoTask
      BY <2>1 DEF ReadsUndisturbed
    <2> HIDE DEF t
    <2>3. \A q \in Register :
             (callback'[q] # NoTask /\ callback'[q] \notin Reads) => reading'[q] = NoTask
      BY <2>1, <2>2 DEF ReplyInv
    <2> QED
      BY <1>0, <2>1, <2>3 DEF ReplyInv
  <1>3. ASSUME NEW r \in Register, CompleteOperation(r) PROVE ReplyInv'
    <2>1. /\ callback'[r] = NoTask
          /\ \A q \in Register \ {r} : /\ callback'[q] = callback[q]
                                       /\ reading'[q] = reading[q]
      BY <1>0, <1>3 DEF CompleteOperation
    <2>2. callback[r] # NoTask => Completed(r) = callback[r]
      BY DEF ReplyInv, RouteInv, CallbackOwn, Completed
    <2>3. \A t \in Task : reported'[t] # NoTask => reported'[t] = t
      BY <1>0, <1>3, <2>2 DEF CompleteOperation, ReplyInv
    <2> QED
      BY <1>0, <2>1, <2>3 DEF ReplyInv
  <1>4. CASE \E t \in Task : ClientStep(t)
    BY <1>1, <1>4 DEF ClientStep, TakeTicket, CheckTurn, Sleep, TakeRegister, AddRoute,
                      GiveCommand, Respond, RespondFails, RespondError, registerVars
  <1>5. CASE \E r \in Register : WorkerStep(r)
    BY <1>1, <1>2, <1>3, <1>5 DEF WorkerStep, HandleRequest, HandleAnswer, registerVars
  <1>6. CASE UNCHANGED vars \/ ExecuteRequest \/ \E a \in answers : ExecuteAnswer(a)
    BY <1>1, <1>6 DEF vars, ExecuteRequest, ExecuteAnswer, registerVars
  <1> QED
    BY <1>4, <1>5, <1>6 DEF Next

\* A client is answered by its own kind of operation unless a register in the middle of a
\* read is given a write: the busy register is the only way to the wrong reply.
THEOREM RepliesOfTheirKind ==
    ASSUME DistinctIds
    PROVE  Spec /\ []ReadsUndisturbed => []ReplyOfItsKind
  <1>1. Init => ReplyInv
    <2> SUFFICES ASSUME Init PROVE ReplyInv
      OBVIOUS
    <2>1. /\ \A r \in Register : callback[r] = NoTask
          /\ \A t \in Task : reported[t] = NoTask
      BY DEF Init
    <2> QED
      BY <2>1, RouteInit DEF ReplyInv
  <1>2. ReplyInv => ReplyOfItsKind
    BY DEF ReplyInv, ReplyOfItsKind
  <1> QED
    BY <1>1, <1>2, ReplyStep, PTL DEF Spec
=============================================================================
