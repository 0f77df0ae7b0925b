------------------------------ MODULE Transfer ------------------------------
(***************************************************************************)
(* Commands and responses as bytes: solution/src/serialize_deserialize.rs, *)
(* transfer_public of lib.rs, and the framing at the top of                *)
(* handle_single_external_request.  Numbers are big-endian and have their  *)
(* real widths; a sector has SECTOR_VEC_SIZE bytes.                        *)
(***************************************************************************)
EXTENDS Integers, Sequences, SequencesExt

CONSTANT SECTOR_VEC_SIZE
ASSUME SectorSizeAssumption == SECTOR_VEC_SIZE \in Nat \ {0}

MAGIC_NUMBER == <<97, 116, 100, 100>>   \* "atdd"
READ == 1
WRITE == 2
READ_PROC == 3
VALUE == 4
WRITE_PROC == 5
ACK == 6

StatusCode == [Ok |-> 0, AuthFailure |-> 1, InvalidSectorIndex |-> 2]

-----------------------------------------------------------------------------
(* Numbers and slices *)

\* The numbers of an instance are below 256^3, so that the higher bytes are zero.
ToBeBytes(n, width) ==
    [i \in 1..width |-> CASE i = width -> n % 256
                          [] i = width - 1 -> (n \div 256) % 256
                          [] i = width - 2 -> (n \div 65536) % 256
                          [] OTHER -> 0]

FromBeBytes(bytes) ==
    LET w == Len(bytes) IN bytes[w] + 256 * bytes[w - 1] + 65536 * bytes[w - 2]

\* The n bytes that follow the first `from'.
Slice(bytes, from, n) == SubSeq(bytes, from + 1, from + n)

Zeros(n) == [i \in 1..n |-> 0]

-----------------------------------------------------------------------------
(* Commands *)

ClientCommand(type, id, sector, data) ==
    [type |-> type, request_identifier |-> id, sector_idx |-> sector, data |-> data]

SystemCommand(type, p, ident, rid, sector, tag, data) ==
    [type |-> type, process_identifier |-> p, msg_ident |-> ident, read_ident |-> rid,
     sector_idx |-> sector, tag |-> tag, data |-> data]

IsClient(type) == type \in {READ, WRITE}
HasTag(type) == type \in {VALUE, WRITE_PROC}
NoTag == <<0, 0>>

serialize_client_command(c) ==
    Zeros(3) \o <<c.type>> \o ToBeBytes(c.request_identifier, 8) \o ToBeBytes(c.sector_idx, 8)
        \o (IF c.type = WRITE THEN c.data ELSE <<>>)

serialize_system_command(c) ==
    Zeros(2) \o <<c.process_identifier, c.type>>
        \o ToBeBytes(c.msg_ident, 16) \o ToBeBytes(c.read_ident, 8) \o ToBeBytes(c.sector_idx, 8)
        \o (IF HasTag(c.type)
            THEN ToBeBytes(c.tag[1], 8) \o Zeros(7) \o <<c.tag[2]>> \o c.data
            ELSE <<>>)

serialize_register_command(c) ==
    MAGIC_NUMBER \o (IF IsClient(c.type) THEN serialize_client_command(c)
                     ELSE serialize_system_command(c))

\* The deserializers get what follows the magic number and the type.
deserialize_client_command(bytes, type) ==
    ClientCommand(type, FromBeBytes(Slice(bytes, 0, 8)), FromBeBytes(Slice(bytes, 8, 8)),
                  IF type = WRITE THEN Slice(bytes, 16, SECTOR_VEC_SIZE) ELSE <<>>)

\* Mutant of deserialize_system_command: the rank is taken from the first byte of padding.
deserialize_system_command_Padding(bytes, p, type) ==
    SystemCommand(type, p, FromBeBytes(Slice(bytes, 0, 16)), FromBeBytes(Slice(bytes, 16, 8)),
                  FromBeBytes(Slice(bytes, 24, 8)),
                  IF HasTag(type) THEN <<FromBeBytes(Slice(bytes, 32, 8)), bytes[41]>> ELSE NoTag,
                  IF HasTag(type) THEN Slice(bytes, 48, SECTOR_VEC_SIZE) ELSE <<>>)

deserialize_system_command(bytes, p, type) ==
    SystemCommand(type, p, FromBeBytes(Slice(bytes, 0, 16)), FromBeBytes(Slice(bytes, 16, 8)),
                  FromBeBytes(Slice(bytes, 24, 8)),
                  IF HasTag(type) THEN <<FromBeBytes(Slice(bytes, 32, 8)), bytes[48]>> ELSE NoTag,
                  IF HasTag(type) THEN Slice(bytes, 48, SECTOR_VEC_SIZE) ELSE <<>>)

deserialize_register_command(bytes) ==
    LET rest == SubSeq(bytes, 9, Len(bytes))
    IN  IF IsClient(bytes[8]) THEN deserialize_client_command(rest, bytes[8])
        ELSE deserialize_system_command(rest, bytes[7], bytes[8])

\* data is <<>> unless the operation is a read that succeeded.
serialize_response(status, type, id, data) ==
    MAGIC_NUMBER \o <<0, 0, status, 64 + type>> \o ToBeBytes(id, 8) \o data

-----------------------------------------------------------------------------
(* Frames *)

HMAC_TAG_SIZE == 32

\* hmac(sha256): all that matters is that a tag made with another key or for other bytes
\* differs, for the messages of an instance.
Hmac(key, bytes) ==
    [i \in 1..HMAC_TAG_SIZE |-> (key + bytes[1 + ((11 * i) % Len(bytes))]) % 256]

Signed(key, bytes) == bytes \o Hmac(key, bytes)

Verified(key, bytes, n) == Slice(bytes, n, HMAC_TAG_SIZE) = Hmac(key, SubSeq(bytes, 1, n))

\* The length of a message without its tag; 0 for a type that does not exist.
MsgLen(type) ==
    CASE type = READ -> 24
      [] type = WRITE -> 24 + SECTOR_VEC_SIZE
      [] type \in {READ_PROC, ACK} -> 40
      [] HasTag(type) -> 40 + 16 + SECTOR_VEC_SIZE
      [] OTHER -> 0

IsMagicAt(bytes, i) == SubSeq(bytes, i, i + 3) = MAGIC_NUMBER

HasMagic(bytes) == \E i \in 1..(Len(bytes) - 3) : IsMagicAt(bytes, i)

\* Where get_magic_number stops: the first position that the magic number starts at.
get_magic_number(bytes) ==
    CHOOSE i \in 1..(Len(bytes) - 3) :
        IsMagicAt(bytes, i) /\ \A j \in 1..(i - 1) : ~IsMagicAt(bytes, j)
=============================================================================
