----------------------------- MODULE DriverRelay -----------------------------
(***************************************************************************)
(* The block device driver and the process it is connected to: the ring of *)
(* requests and the relay thread of driver/atomic_disc_driver.c, the       *)
(* client of driver/atdd_tcp_client.c, and ExternalRequests.               *)
(*                                                                         *)
(* The block layer submits requests from its own context while the relay   *)
(* thread runs: the two share the ring and its positions without a lock.   *)
(***************************************************************************)
EXTENDS ExternalRequests, FiniteSets

CONSTANTS
    Requests,        \* what the block layer asks for: direction, position, data
    QueueDepth,      \* bound: requests the block layer has outstanding (nr_requests)
    RingSize,        \* ATDD_REQUESTS_BUF_SIZE, 256 in the code: positions are uint8_t
    Driver,          \* the driver's connection
    Cuts,            \* where a command of the driver may be cut into two segments
    Peer,            \* the connection of another process
    PeerMessages     \* what it sends: bytes before the message, command, key, cut

ASSUME DriverAssumption ==
    /\ RingSize \in Nat \ {0, 1} /\ QueueDepth \in 1..(RingSize - 1)
    /\ Driver \in Conn /\ Peer \in Conn \ {Driver}
    /\ Cuts \subseteq 1..55   \* a command has 56 bytes or more

\* The logical block size of the queue is a sector, and so is its largest request. The
\* numbers of the sectors are those that ToBeBytes represents.
ASSUME BlockLayerAssumption ==
    /\ Requests \in Seq([dir : {READ, WRITE}, pos : Nat, data : Seq(0..255)])
    /\ \A i \in DOMAIN Requests :
         /\ Requests[i].pos % 8 = 0 /\ (Requests[i].pos \div 8) \div 65536 < 256
         /\ Len(Requests[i].data) = IF Requests[i].dir = WRITE THEN SECTOR_VEC_SIZE ELSE 0

VARIABLES
    requests_buf,                 \* the ring, slot -> number of a request, 0 at first
    submitting,                   \* a request whose slot is stored and whose position is not
    buf_accepted_pos, buf_tcp_forwarded_pos, buf_completed_pos,
    request_ident_counter,
    pending,                      \* commands sent and not completed (pending_buf)
    pc,                           \* the relay thread: "wait", "fetch" or "send"
    submitted,                    \* requests the block layer submitted
    finished                      \* what each request was completed with

driverVars == <<requests_buf, submitting, buf_accepted_pos, buf_tcp_forwarded_pos,
                buf_completed_pos, request_ident_counter, pending, pc, submitted, finished>>
vars == <<requestVars, driverVars>>

\* Mutant of ATDD_CLIENT_SEND_AHEAD: two commands are sent before the first response.
ATDD_CLIENT_SEND_AHEAD_Two == 2

ATDD_CLIENT_SEND_AHEAD == 1
SECTOR_SIZE == SECTOR_VEC_SIZE
MIN_RESPONSE_SIZE == 16 + HMAC_TAG_SIZE

Uint8(n) == n % RingSize
Unfinished == [status |-> "none", data |-> <<>>]
Outstanding == {i \in 1..submitted : finished[i] = Unfinished}

-----------------------------------------------------------------------------
(* atdd_block_request *)

\* The difference is an int: after accepted_pos has wrapped, the ring never looks full.
RingFull == buf_accepted_pos - buf_completed_pos = RingSize - 1

SubmitSlot ==
    /\ submitting = 0
    /\ submitted < Len(Requests)
    /\ Cardinality(Outstanding) < QueueDepth
    /\ ~RingFull
    /\ submitted' = submitted + 1
    /\ submitting' = submitted'
    /\ requests_buf' = [requests_buf EXCEPT ![buf_accepted_pos] = submitted']
    /\ UNCHANGED <<requestVars, buf_accepted_pos, buf_tcp_forwarded_pos, buf_completed_pos,
                   request_ident_counter, pending, pc, finished>>

SubmitPosition ==
    /\ submitting # 0
    /\ buf_accepted_pos' = Uint8(buf_accepted_pos + 1)
    /\ submitting' = 0
    /\ UNCHANGED <<requestVars, requests_buf, buf_tcp_forwarded_pos, buf_completed_pos,
                   request_ident_counter, pending, pc, submitted, finished>>

-----------------------------------------------------------------------------
(* atdd_main *)

atdd_client_has_data == outbuf[Driver] # <<>>

atdd_cmds_to_send ==
    LET accepted == Uint8(buf_accepted_pos - buf_tcp_forwarded_pos)
        ahead == Uint8(ATDD_CLIENT_SEND_AHEAD - Uint8(buf_tcp_forwarded_pos - buf_completed_pos))
    IN  IF accepted < ahead THEN accepted ELSE ahead

Wake ==
    /\ pc = "wait"
    /\ atdd_client_has_data \/ atdd_cmds_to_send # 0
    /\ pc' = IF atdd_client_has_data THEN "fetch" ELSE "send"
    /\ UNCHANGED <<requestVars, requests_buf, submitting, buf_accepted_pos,
                   buf_tcp_forwarded_pos, buf_completed_pos, request_ident_counter, pending,
                   submitted, finished>>

\* Mutants of ResponseSize: the sector of a READ is left in the stream; a READ that failed
\* is taken to have one.
ResponseSize_NoSector(bytes) == MIN_RESPONSE_SIZE

ResponseSize_AnyStatus(bytes) ==
    MIN_RESPONSE_SIZE + (IF bytes[8] = 64 + READ THEN SECTOR_SIZE ELSE 0)

\* progress_tcp_data: a response that succeeded has a sector behind it if it is a READ's.
ResponseSize(bytes) ==
    MIN_RESPONSE_SIZE
        + (IF bytes[7] = StatusCode.Ok /\ bytes[8] = 64 + READ THEN SECTOR_SIZE ELSE 0)

\* The request at buf_completed_pos is completed, whatever the ident of the response.
Finish(bytes, size) ==
    LET i == requests_buf[buf_completed_pos]
        ok == bytes[7] = StatusCode.Ok
    IN  /\ buf_completed_pos' = Uint8(buf_completed_pos + 1)
        /\ pending' = pending - 1
        /\ finished' = [finished EXCEPT ![i] =
             [status |-> IF ok THEN "ok" ELSE "error",
              data |-> IF ok /\ Requests[i].dir = READ THEN Slice(bytes, 16, SECTOR_SIZE)
                       ELSE <<>>]]
        /\ request_ident_counter' = request_ident_counter + (IF ok THEN 1 ELSE 0)
        /\ UNCHANGED <<buf_tcp_forwarded_pos, pc>>

\* "fetch error": what was read is dropped, and the request is sent again.
FetchError ==
    /\ buf_tcp_forwarded_pos' = buf_completed_pos
    /\ pc' = "send"
    /\ UNCHANGED <<buf_completed_pos, pending, finished, request_ident_counter>>

\* atdd_fetch_command, while it returns a command. It spins until the response is there.
Fetch ==
    /\ pc = "fetch"
    /\ pending > 0
    /\ Len(outbuf[Driver]) >= 8 /\ Len(outbuf[Driver]) >= ResponseSize(outbuf[Driver])
    /\ LET bytes == outbuf[Driver]
           size == ResponseSize(bytes)
       IN  /\ outbuf' = [outbuf EXCEPT ![Driver] = SubSeq(bytes, size + 1, Len(bytes))]
           /\ IF Verified(hmac_client_key, bytes, size - HMAC_TAG_SIZE)
              THEN Finish(bytes, size)
              ELSE FetchError
    /\ UNCHANGED <<listening, conn, wire, inbuf, running, executed, sectors,
                   requests_buf, submitting, buf_accepted_pos, submitted>>

FetchNone ==
    /\ pc = "fetch"
    /\ pending = 0
    /\ pc' = "send"
    /\ UNCHANGED <<requestVars, requests_buf, submitting, buf_accepted_pos,
                   buf_tcp_forwarded_pos, buf_completed_pos, request_ident_counter, pending,
                   submitted, finished>>

\* prepare_cmd_content: blk_rq_pos counts in units of 512 bytes.
CommandBytes ==
    LET rq == Requests[requests_buf[buf_tcp_forwarded_pos]]
        ident == request_ident_counter + (buf_tcp_forwarded_pos - buf_completed_pos)
    IN  Signed(hmac_client_key,
               MAGIC_NUMBER \o Zeros(3) \o <<rq.dir>> \o ToBeBytes(ident, 8)
                   \o ToBeBytes(rq.pos \div 8, 8) \o rq.data)

\* TCP may cut the command into two segments.
Segments(bytes) ==
    {<<bytes>>} \cup {<<SubSeq(bytes, 1, k), SubSeq(bytes, k + 1, Len(bytes))>> : k \in Cuts}

SendNone ==
    /\ pc = "send"
    /\ atdd_cmds_to_send = 0
    /\ pc' = "wait"
    /\ UNCHANGED <<requestVars, requests_buf, submitting, buf_accepted_pos,
                   buf_tcp_forwarded_pos, buf_completed_pos, request_ident_counter, pending,
                   submitted, finished>>

\* No process accepts the connection: "send error".
SendError ==
    /\ pc = "send"
    /\ atdd_cmds_to_send > 0
    /\ conn[Driver] = "closed" /\ ~listening
    /\ buf_tcp_forwarded_pos' = buf_completed_pos
    /\ pc' = "wait"
    /\ UNCHANGED <<requestVars, requests_buf, submitting, buf_accepted_pos, buf_completed_pos,
                   request_ident_counter, pending, submitted, finished>>

Send ==
    /\ pc = "send"
    /\ atdd_cmds_to_send > 0
    /\ IF conn[Driver] = "closed" THEN Connect(Driver) ELSE UNCHANGED conn
    /\ \E segments \in Segments(CommandBytes) :
         wire' = [wire EXCEPT ![Driver] = @ \o segments]
    /\ pending' = pending + 1
    /\ buf_tcp_forwarded_pos' = Uint8(buf_tcp_forwarded_pos + 1)
    /\ pc' = "wait"
    /\ UNCHANGED <<listening, inbuf, running, executed, outbuf, sectors, requests_buf,
                   submitting, buf_accepted_pos, buf_completed_pos, request_ident_counter,
                   submitted, finished>>

-----------------------------------------------------------------------------
(* The composition *)

MessageSegments(m) ==
    LET bytes == Signed(m.key, serialize_register_command(m.cmd))
    IN  IF m.cut = 0 THEN <<m.before \o bytes>>
        ELSE <<m.before \o SubSeq(bytes, 1, m.cut), SubSeq(bytes, m.cut + 1, Len(bytes))>>

Init ==
    /\ RequestsInit([c \in Conn |->
         IF c = Peer
         THEN FlattenSeq([i \in DOMAIN PeerMessages |-> MessageSegments(PeerMessages[i])])
         ELSE <<>>])
    /\ requests_buf = [pos \in 0..(RingSize - 1) |-> 0]
    /\ submitting = 0
    /\ buf_accepted_pos = 0 /\ buf_tcp_forwarded_pos = 0 /\ buf_completed_pos = 0
    /\ request_ident_counter = 0 /\ pending = 0
    /\ pc = "wait"
    /\ submitted = 0
    /\ finished = [i \in DOMAIN Requests |-> Unfinished]

PeerConnect ==
    /\ Connect(Peer)
    /\ UNCHANGED <<listening, wire, inbuf, running, executed, outbuf, sectors, driverVars>>

Relay == Wake \/ Fetch \/ FetchNone \/ SendNone \/ SendError \/ Send

Next ==
    \/ SubmitSlot \/ SubmitPosition
    \/ Relay
    \/ PeerConnect
    \/ RequestsNext /\ UNCHANGED driverVars

Spec == Init /\ [][Next]_vars

\* The relay thread and the task of each connection run, the process starts and its
\* registers complete what they are given, TCP delivers, and a submission that began ends.
\* Nobody has to submit a request.
Fairness ==
    /\ WF_vars(Relay) /\ WF_vars(SubmitPosition) /\ WF_vars(PeerConnect)
    /\ WF_vars(Bind /\ UNCHANGED driverVars)
    /\ \A c \in Conn : /\ WF_vars(Accept(c) /\ UNCHANGED driverVars)
                       /\ WF_vars(Arrive(c) /\ UNCHANGED driverVars)
                       /\ WF_vars(HandleRequest(c) /\ UNCHANGED driverVars)
    /\ WF_vars(\E r \in running : CompleteClient(r) /\ UNCHANGED driverVars)

FairSpec == Spec /\ Fairness

-----------------------------------------------------------------------------
(* Properties *)

\* What a disc answers to request i when requests take effect in the order of submission.
LastWrite(i) ==
    LET W == {j \in 1..(i - 1) : Requests[j].dir = WRITE /\ Requests[j].pos = Requests[i].pos}
    IN  IF W = {} THEN Zeros(SECTOR_SIZE)
        ELSE Requests[CHOOSE j \in W : \A k \in W : k <= j].data

DiscAnswer(i) ==
    IF Requests[i].pos \div 8 >= max_sector THEN [status |-> "error", data |-> <<>>]
    ELSE [status |-> "ok", data |-> IF Requests[i].dir = READ THEN LastWrite(i) ELSE <<>>]

\* The block device is a disc: through the ring and its wrapping positions, the bytes in
\* both directions, the command idents and the completion by position, every request is
\* completed with what a disc would answer to it.
DeviceIsDisc == \A i \in DOMAIN Requests : finished[i] \in {Unfinished, DiscAnswer(i)}

\* The two BUG_ON of the relay thread never fire: no more than one command is to be sent,
\* and what is parsed as a response starts with the magic number.
NoBugOn ==
    /\ pc = "send" => atdd_cmds_to_send <= 1
    /\ (pc = "fetch" /\ pending > 0 /\ Len(outbuf[Driver]) >= MIN_RESPONSE_SIZE)
           => SubSeq(outbuf[Driver], 1, 4) = MAGIC_NUMBER

\* The commands of the other process that carry a valid tag. One that is cut inside its
\* header may be dropped.
Genuine ==
    SelectSeq(PeerMessages, LAMBDA m : m.key = hmac_system_key /\ MsgLen(m.cmd.type) > 0)

IsWhole(m) == m.cut \notin 5..7

\* The system commands that are executed are those that the other process sent with a valid
\* tag, field by field and in order, and of those that reached the process in one piece
\* none is left out: neither bytes between messages, nor messages of an unknown type or
\* with a wrong tag, nor a short read of a header loses or changes the next message.
ExecutedAsSent ==
    \E n \in 0..Len(Genuine) : \E K \in SUBSET (1..n) :
        /\ {i \in 1..n : IsWhole(Genuine[i])} \subseteq K
        /\ executed = [i \in 1..Cardinality(K) |->
             Genuine[CHOOSE k \in K : Cardinality({j \in K : j <= k}) = i].cmd]

\* Every request that was submitted is completed, and every whole command of the other
\* process is executed.
RequestsComplete ==
    /\ \A i \in DOMAIN Requests : (submitted >= i) ~> (finished[i] # Unfinished)
    /\ \A i \in DOMAIN Genuine : IsWhole(Genuine[i])
           => <>(\E k \in DOMAIN executed : executed[k] = Genuine[i].cmd)
=============================================================================
