--------------------------- MODULE MCDriverRelay ---------------------------
(* The requests and messages of the runs of DriverRelay. *)
EXTENDS DriverRelay

Rq(dir, pos, data) == [dir |-> dir, pos |-> pos, data |-> data]

\* Two writes of one sector around a write of another, read back after the positions have
\* wrapped; the fourth is outside.
SomeRequests == <<
    Rq(WRITE, 8, <<1, 2>>), Rq(WRITE, 0, <<3, 4>>), Rq(WRITE, 8, <<5, 6>>),
    Rq(READ, 16, <<>>), Rq(READ, 8, <<>>)>>

Msg(before, cmd, key, cut) == [before |-> before, cmd |-> cmd, key |-> key, cut |-> cut]

\* Bytes that look like the start of a magic number, an unknown type, a wrong key, and cuts
\* in the magic number, in the header and in the body.
SomeMessages == <<
    Msg(<<>>, SystemCommand(READ_PROC, 2, 300, 1, 0, NoTag, <<>>), hmac_system_key, 2),
    Msg(<<97, 116, 97>>, SystemCommand(WRITE_PROC, 2, 300, 2, 1, <<7, 2>>, <<8, 9>>),
        hmac_system_key, 30),
    Msg(<<>>, SystemCommand(9, 2, 301, 3, 0, NoTag, <<>>), hmac_system_key, 0),
    Msg(<<>>, SystemCommand(VALUE, 2, 302, 4, 0, <<1, 1>>, <<1, 1>>), hmac_client_key, 0),
    Msg(<<>>, SystemCommand(ACK, 2, 303, 5, 0, NoTag, <<>>), hmac_system_key, 6),
    Msg(<<>>, SystemCommand(VALUE, 2, 304, 6, 1, <<256, 3>>, <<2, 1>>), hmac_system_key, 8)>>
=============================================================================
