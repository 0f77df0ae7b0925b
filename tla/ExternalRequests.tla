-------------------------- MODULE ExternalRequests --------------------------
(***************************************************************************)
(* The connections that a process accepts: run_register_process of lib.rs  *)
(* from its accept loop on, and handle_external_command with everything    *)
(* below it in solution/src/run_register_process.rs.                       *)
(*                                                                         *)
(* A connection is a stream of bytes that arrives in segments.  One task   *)
(* per connection reads one request after the other: it stops at a magic   *)
(* number, takes the four bytes of the header with read (which may return  *)
(* fewer) and the rest with read_exact (which waits).  A client command is *)
(* handed to the executor, and its callback answers later, in any order.   *)
(***************************************************************************)
EXTENDS Transfer

CONSTANTS
    Conn,            \* connections to the process
    max_sector,      \* first sector that is not supported
    hmac_client_key, hmac_system_key,
    Window           \* bound: unread bytes with which another segment may arrive

ASSUME RequestsAssumption ==
    max_sector \in Nat /\ Window \in Nat /\ {hmac_client_key, hmac_system_key} \subseteq 0..255

VARIABLES
    listening,   \* TcpListener::bind was called
    conn,        \* of each connection: "closed", "backlog" or "accepted"
    wire,        \* segments under way on each connection
    inbuf,       \* bytes that arrived and were not read
    running,     \* client commands handed to the executor and not answered
    executed,    \* system commands handed to the executor, in order
    outbuf,      \* bytes of the responses that the other end has not read
    sectors      \* the value of each sector, which the registers keep

requestVars == <<listening, conn, wire, inbuf, running, executed, outbuf, sectors>>

RequestsInit(segments) ==
    /\ listening = FALSE /\ conn = [c \in Conn |-> "closed"]
    /\ wire = segments
    /\ inbuf = [c \in Conn |-> <<>>]
    /\ running = {} /\ executed = <<>>
    /\ outbuf = [c \in Conn |-> <<>>]
    /\ sectors = [s \in 0..(max_sector - 1) |-> Zeros(SECTOR_VEC_SIZE)]

-----------------------------------------------------------------------------
Bind ==
    /\ ~listening
    /\ listening' = TRUE
    /\ UNCHANGED <<conn, wire, inbuf, running, executed, outbuf, sectors>>

\* The other end connects, which it can as soon as the process listens.
Connect(c) ==
    /\ listening
    /\ conn[c] = "closed"
    /\ conn' = [conn EXCEPT ![c] = "backlog"]

Accept(c) ==
    /\ conn[c] = "backlog"
    /\ conn' = [conn EXCEPT ![c] = "accepted"]
    /\ UNCHANGED <<listening, wire, inbuf, running, executed, outbuf, sectors>>

Arrive(c) ==
    /\ conn[c] # "closed"
    /\ wire[c] # <<>>
    /\ Len(inbuf[c]) < Window
    /\ inbuf' = [inbuf EXCEPT ![c] = @ \o Head(wire[c])]
    /\ wire' = [wire EXCEPT ![c] = Tail(@)]
    /\ UNCHANGED <<listening, conn, running, executed, outbuf, sectors>>

-----------------------------------------------------------------------------
(* handle_single_external_request *)

\* What is left of the stream from the next magic number on.
Request(c) == SubSeq(inbuf[c], get_magic_number(inbuf[c]), Len(inbuf[c]))

\* n bytes of rq have been read.
Consume(c, rq, n) == inbuf' = [inbuf EXCEPT ![c] = SubSeq(rq, n + 1, Len(rq))]

\* read returned fewer than four bytes: the last byte of `buffer', the type, is still 0.
ShortHeader(c, rq) ==
    /\ Len(rq) \in 5..7
    /\ Consume(c, rq, Len(rq))
    /\ UNCHANGED <<listening, conn, wire, running, executed, outbuf, sectors>>

UnknownType(c, rq) ==
    /\ Len(rq) >= 8
    /\ MsgLen(rq[8]) = 0
    /\ Consume(c, rq, 8)
    /\ UNCHANGED <<listening, conn, wire, running, executed, outbuf, sectors>>

\* read_exact has all of the message and its tag.
HasRequest(rq) ==
    /\ Len(rq) >= 8
    /\ MsgLen(rq[8]) > 0
    /\ Len(rq) >= MsgLen(rq[8]) + HMAC_TAG_SIZE

IsVerified(rq) ==
    Verified(IF rq[8] < READ_PROC THEN hmac_client_key ELSE hmac_system_key, rq, MsgLen(rq[8]))

ExecuteSystem(c, cmd, verified) ==
    /\ ~IsClient(cmd.type)
    /\ executed' = IF verified THEN Append(executed, cmd) ELSE executed
    /\ UNCHANGED <<running, outbuf>>

\* respond: the response and its tag are written to the connection in one piece.
Respond(c, status, type, id, data) ==
    outbuf' = [outbuf EXCEPT ![c] =
                 @ \o Signed(hmac_client_key, serialize_response(status, type, id, data))]

RejectClient(c, cmd, verified) ==
    /\ IsClient(cmd.type)
    /\ ~verified \/ cmd.sector_idx >= max_sector
    /\ Respond(c, IF verified THEN StatusCode.InvalidSectorIndex ELSE StatusCode.AuthFailure,
               cmd.type, cmd.request_identifier, <<>>)
    /\ UNCHANGED <<running, executed>>

\* The task waits for the sector before it reads its connection again.
ExecuteClient(c, cmd, verified) ==
    /\ IsClient(cmd.type)
    /\ verified /\ cmd.sector_idx < max_sector
    /\ \A r \in running : r.cmd.sector_idx # cmd.sector_idx
    /\ running' = running \cup {[conn |-> c, cmd |-> cmd]}
    /\ UNCHANGED <<executed, outbuf>>

HandleMessage(c, rq) ==
    /\ HasRequest(rq)
    /\ \E cmd \in {deserialize_register_command(rq)}, verified \in {IsVerified(rq)} :
         \/ ExecuteSystem(c, cmd, verified)
         \/ RejectClient(c, cmd, verified)
         \/ ExecuteClient(c, cmd, verified)
    /\ Consume(c, rq, MsgLen(rq[8]) + HMAC_TAG_SIZE)
    /\ UNCHANGED <<listening, conn, wire, sectors>>

HandleRequest(c) ==
    /\ conn[c] = "accepted"
    /\ HasMagic(inbuf[c])
    /\ \E rq \in {Request(c)} : ShortHeader(c, rq) \/ UnknownType(c, rq) \/ HandleMessage(c, rq)

\* The executor and the registers, which run commands on different sectors in any order,
\* complete r: it takes effect and its callback responds.
CompleteClient(r) ==
    /\ r \in running
    /\ running' = running \ {r}
    /\ IF r.cmd.type = WRITE
       THEN /\ sectors' = [sectors EXCEPT ![r.cmd.sector_idx] = r.cmd.data]
            /\ Respond(r.conn, StatusCode.Ok, WRITE, r.cmd.request_identifier, <<>>)
       ELSE /\ Respond(r.conn, StatusCode.Ok, READ, r.cmd.request_identifier,
                       sectors[r.cmd.sector_idx])
            /\ UNCHANGED sectors
    /\ UNCHANGED <<listening, conn, wire, inbuf, executed>>

RequestsNext ==
    \/ Bind
    \/ \E c \in Conn : Accept(c) \/ Arrive(c) \/ HandleRequest(c)
    \/ \E r \in running : CompleteClient(r)
=============================================================================
