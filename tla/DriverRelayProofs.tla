------------------------- MODULE DriverRelayProofs -------------------------
(***************************************************************************)
(* Proofs about the block device: what the driver sends is what the        *)
(* process executes, byte by byte, and through the ring of requests every  *)
(* request is completed with its own answer.                               *)
(***************************************************************************)
EXTENDS DriverRelay, FiniteSetTheorems, SequenceTheorems, TLAPS

-----------------------------------------------------------------------------
(* Sequences of bytes *)

Byte == 0..255

\* u consists of s and t.
Join(u, s, t) ==
    /\ u \in Seq(Byte) /\ Len(u) = Len(s) + Len(t)
    /\ \A i \in 1..Len(s) : u[i] = s[i]
    /\ \A i \in 1..Len(t) : u[Len(s) + i] = t[i]

\* v consists of the k bytes of u behind the first m.
Part(v, u, m, k) ==
    /\ v \in Seq(Byte) /\ Len(v) = k
    /\ \A i \in 1..k : v[i] = u[m + i]

\* A concatenation consists of its parts.
LEMMA Joined ==
    ASSUME NEW s \in Seq(Byte), NEW t \in Seq(Byte)
    PROVE  Join(s \o t, s, t)
  <1>1. PICK u : u = s \o t
    OBVIOUS
  <1>2. /\ u \in Seq(Byte) /\ Len(u) = Len(s) + Len(t)
        /\ \A i \in 1..(Len(s) + Len(t)) : u[i] = IF i <= Len(s) THEN s[i] ELSE t[i - Len(s)]
    BY <1>1, ConcatProperties
  <1>3. ASSUME NEW i \in 1..Len(t) PROVE u[Len(s) + i] = t[i]
    <2>1. /\ Len(s) + i \in 1..(Len(s) + Len(t))
          /\ ~(Len(s) + i <= Len(s)) /\ (Len(s) + i) - Len(s) = i
      OBVIOUS
    <2> QED
      BY <1>2, <2>1
  <1>4. \A i \in 1..Len(s) : u[i] = s[i]
    BY <1>2
  <1> QED
    BY <1>1, <1>2, <1>3, <1>4 DEF Join

\* A subsequence is a part.
LEMMA Parts ==
    ASSUME NEW u \in Seq(Byte), NEW m \in Nat, NEW k \in Nat, m + k <= Len(u)
    PROVE  Part(SubSeq(u, m + 1, m + k), u, m, k)
  <1>1. \A i \in (m + 1)..(m + k) : u[i] \in Byte
    BY ElementOfSeq
  <1>2. PICK v : v = SubSeq(u, m + 1, m + k)
    OBVIOUS
  <1>3. /\ v \in Seq(Byte)
        /\ Len(v) = IF m + 1 <= m + k THEN m + k - (m + 1) + 1 ELSE 0
        /\ \A i \in 1..(m + k - (m + 1) + 1) : v[i] = u[m + 1 + i - 1]
    BY <1>1, <1>2, SubSeqProperties
  <1>4. Len(v) = k /\ \A i \in 1..k : v[i] = u[m + i]
    BY <1>3
  <1> QED
    BY <1>2, <1>3, <1>4 DEF Part

\* Sequences of bytes are equal when their bytes are.
LEMMA SameBytes ==
    ASSUME NEW s \in Seq(Byte), NEW t \in Seq(Byte), Len(s) = Len(t),
           \A i \in 1..Len(s) : s[i] = t[i]
    PROVE  s = t
  BY SeqEqual

\* A function from 1..n to bytes is a sequence of n of them.
LEMMA FunctionBytes ==
    ASSUME NEW n \in Nat, NEW f \in [1..n -> Byte]
    PROVE  f \in Seq(Byte) /\ Len(f) = n
  OBVIOUS

\* A concatenation taken apart again.
LEMMA SplitJoin ==
    ASSUME NEW s \in Seq(Byte), NEW t \in Seq(Byte)
    PROVE  /\ SubSeq(s \o t, 1, Len(s)) = s
           /\ SubSeq(s \o t, Len(s) + 1, Len(s) + Len(t)) = t
  <1>1. PICK u : u = s \o t
    OBVIOUS
  <1>2. Join(u, s, t)
    BY <1>1, Joined
  <1>3. u \in Seq(Byte) /\ Len(u) = Len(s) + Len(t) /\ Len(s) \in Nat /\ Len(t) \in Nat
    BY <1>2 DEF Join
  <1>4. SubSeq(u, 1, Len(s)) = s
    <2>1. PICK v : v = SubSeq(u, 0 + 1, 0 + Len(s))
      OBVIOUS
    <2>2. Part(v, u, 0, Len(s))
      BY <1>3, <2>1, Parts
    <2>3. v = s
      BY <1>2, <1>3, <2>2, SameBytes DEF Join, Part
    <2> QED
      BY <1>3, <2>1, <2>3
  <1>5. SubSeq(u, Len(s) + 1, Len(s) + Len(t)) = t
    <2>1. PICK v : v = SubSeq(u, Len(s) + 1, Len(s) + Len(t))
      OBVIOUS
    <2>2. Part(v, u, Len(s), Len(t))
      BY <1>3, <2>1, Parts
    <2>3. v = t
      BY <1>2, <1>3, <2>2, SameBytes DEF Join, Part
    <2> QED
      BY <2>1, <2>3
  <1> QED
    BY <1>1, <1>4, <1>5

\* A sequence cut in two is put together again.
LEMMA JoinSplit ==
    ASSUME NEW u \in Seq(Byte), NEW k \in 1..Len(u)
    PROVE  SubSeq(u, 1, k) \o SubSeq(u, k + 1, Len(u)) = u
  <1>1. SubSeq(u, 1, k) \o SubSeq(u, k + 1, Len(u)) = SubSeq(u, 1, Len(u))
    BY ConcatAdjacentSubSeq
  <1> QED
    BY <1>1, SubSeqFull

-----------------------------------------------------------------------------
(* Numbers and tags *)

\* A number and its last byte.
LEMMA LastByte ==
    ASSUME NEW n \in Nat
    PROVE  \E q, r \in Nat : q = n \div 256 /\ r = n % 256 /\ n = 256 * q + r /\ r < 256
  <1>1. n \div 256 \in Nat /\ n % 256 \in 0..255 /\ n = 256 * (n \div 256) + (n % 256)
    BY SMT
  <1> QED
    BY <1>1, SMT

\* The lowest two bytes.
LEMMA LowBytes ==
    ASSUME NEW n \in Int, NEW q \in Int, NEW r \in Int, NEW u \in Int, NEW v \in Int,
           n = 256 * q + r, q = 256 * u + v, 0 <= r, r < 256, 0 <= v, v < 256
    PROVE  n = 65536 * u + (256 * v + r) /\ 256 * v + r < 65536 /\ 0 <= 256 * v + r
  BY SMT

\* The third byte.
LEMMA HighByte ==
    ASSUME NEW n \in Int, NEW u \in Int, NEW s \in Int, n = 65536 * u + s, 0 <= s, s < 65536
    PROVE  n \div 65536 = u
  BY SMT

\* A number below 256^3 is made of its three lowest bytes.
LEMMA ThreeBytes ==
    ASSUME NEW n \in Nat, n \div 65536 < 256
    PROVE  (n % 256) + 256 * ((n \div 256) % 256) + 65536 * ((n \div 65536) % 256) = n
  <1>1. PICK q, r \in Nat : q = n \div 256 /\ r = n % 256 /\ n = 256 * q + r /\ r < 256
    BY LastByte
  <1>2. PICK u, v \in Nat : u = q \div 256 /\ v = q % 256 /\ q = 256 * u + v /\ v < 256
    BY LastByte
  <1>3. n = 65536 * u + (256 * v + r) /\ 256 * v + r < 65536 /\ 0 <= 256 * v + r
    BY <1>1, <1>2, LowBytes
  <1>4. n \div 65536 = u
    BY <1>3, HighByte
  <1>5. u % 256 = u
    BY <1>4, SMT
  <1>6. r + 256 * v + 65536 * u = n
    BY <1>3, SMT
  <1> QED
    BY <1>1, <1>2, <1>4, <1>5, <1>6

\* A big-endian number has as many bytes as its type.
LEMMA NumberBytes ==
    ASSUME NEW n \in Int, NEW w \in Nat
    PROVE  ToBeBytes(n, w) \in Seq(Byte) /\ Len(ToBeBytes(n, w)) = w
  <1>1. n % 256 \in Byte /\ (n \div 256) % 256 \in Byte /\ (n \div 65536) % 256 \in Byte
    BY SMT DEF Byte
  <1>2. ToBeBytes(n, w) \in [1..w -> Byte]
    BY <1>1, SMT DEF ToBeBytes, Byte
  <1> QED
    BY <1>2, FunctionBytes

\* An unsigned number of 64 bits has eight.
LEMMA EightBytes ==
    ASSUME NEW n \in Nat
    PROVE  ToBeBytes(n, 8) \in Seq(Byte) /\ Len(ToBeBytes(n, 8)) = 8
  <1>1. n \in Int /\ 8 \in Nat
    OBVIOUS
  <1> QED
    BY <1>1, NumberBytes, Zenon

\* The key of the clients is a number.
LEMMA KeyIsNumber == hmac_client_key \in Int
  <1>1. hmac_client_key \in 0..255
    BY RequestsAssumption
  <1> QED
    BY <1>1

\* A tag has HMAC_TAG_SIZE bytes.
LEMMA HmacBytes ==
    ASSUME NEW key \in Int, NEW s \in Seq(Byte), Len(s) # 0
    PROVE  Hmac(key, s) \in Seq(Byte) /\ Len(Hmac(key, s)) = HMAC_TAG_SIZE
  <1>1. PICK n \in Nat \ {0} : n = Len(s)
    OBVIOUS
  <1>2. \A i \in 1..n : s[i] \in Int
    <2>1. \A i \in 1..n : s[i] \in Byte
      BY <1>1, ElementOfSeq
    <2>2. \A x \in Byte : x \in Int
      BY DEF Byte
    <2> QED
      BY <2>1, <2>2
  <1>3. ASSUME NEW i \in 1..HMAC_TAG_SIZE
        PROVE  (key + s[1 + ((11 * i) % Len(s))]) % 256 \in Byte
    <2>1. PICK k \in Int : k = 11 * i
      BY SMT DEF HMAC_TAG_SIZE
    <2>2. k % n \in 0..(n - 1)
      BY SMT
    <2>3. PICK j \in 1..n : j = 1 + ((11 * i) % Len(s))
      BY <1>1, <2>1, <2>2
    <2>4. PICK x \in Int : x = s[j]
      BY <1>2
    <2>5. (key + x) % 256 \in 0..255
      BY SMT
    <2> QED
      BY <2>3, <2>4, <2>5 DEF Byte
  <1>4. Hmac(key, s) \in [1..HMAC_TAG_SIZE -> Byte]
    BY <1>3 DEF Hmac
  <1> QED
    BY <1>4, FunctionBytes DEF HMAC_TAG_SIZE

\* A signed message verifies under the key that signed it.
LEMMA SignedVerifies ==
    ASSUME NEW key \in Int, NEW body \in Seq(Byte), Len(body) # 0
    PROVE  /\ Signed(key, body) \in Seq(Byte)
           /\ Len(Signed(key, body)) = Len(body) + HMAC_TAG_SIZE
           /\ \A i \in 1..Len(body) : Signed(key, body)[i] = body[i]
           /\ Verified(key, Signed(key, body), Len(body))
  <1>1. PICK h : h = Hmac(key, body)
    OBVIOUS
  <1>2. h \in Seq(Byte) /\ Len(h) = HMAC_TAG_SIZE
    BY <1>1, HmacBytes
  <1>3. PICK b : b = Signed(key, body)
    OBVIOUS
  <1>4. b = body \o h
    BY <1>1, <1>3 DEF Signed
  <1>5. Join(b, body, h)
    BY <1>2, <1>4, Joined
  <1>6. SubSeq(b, 1, Len(body)) = body /\ SubSeq(b, Len(body) + 1, Len(body) + Len(h)) = h
    BY <1>2, <1>4, SplitJoin
  <1>7. Verified(key, b, Len(body))
    BY <1>1, <1>2, <1>6 DEF Verified, Slice
  <1> QED
    BY <1>2, <1>3, <1>5, <1>7 DEF Join

-----------------------------------------------------------------------------
(* The commands of the driver *)

CommandBody(type, ident, sector, data) ==
    MAGIC_NUMBER \o Zeros(3) \o <<type>> \o ToBeBytes(ident, 8) \o ToBeBytes(sector, 8) \o data

\* The magic number, the padding and the type as sequences of bytes.
LEMMA HeaderBytes ==
    ASSUME NEW type \in Byte
    PROVE  /\ MAGIC_NUMBER \in Seq(Byte) /\ Len(MAGIC_NUMBER) = 4
           /\ Zeros(3) \in Seq(Byte) /\ Len(Zeros(3)) = 3
           /\ <<type>> \in Seq(Byte) /\ Len(<<type>>) = 1
  <1>1. /\ 97 \in Byte /\ 116 \in Byte /\ 100 \in Byte /\ 0 \in Byte
    BY DEF Byte
  <1>2. MAGIC_NUMBER \in Seq(Byte) /\ Len(MAGIC_NUMBER) = 4
    BY <1>1 DEF MAGIC_NUMBER
  <1>3. Zeros(3) \in [1..3 -> Byte]
    BY <1>1 DEF Zeros
  <1>4. Zeros(3) \in Seq(Byte) /\ Len(Zeros(3)) = 3
    BY <1>3, FunctionBytes
  <1>5. <<type>> \in Seq(Byte) /\ Len(<<type>>) = 1
    OBVIOUS
  <1> QED
    BY <1>2, <1>4, <1>5

\* What is where in a command.
IsCommandBody(body, type, sector, data) ==
    /\ body \in Seq(Byte) /\ Len(body) = 24 + Len(data)
    /\ \A i \in 1..4 : body[i] = MAGIC_NUMBER[i]
    /\ body[8] = type
    /\ \A i \in 1..8 : body[16 + i] = ToBeBytes(sector, 8)[i]
    /\ \A i \in 1..Len(data) : body[24 + i] = data[i]

\* The body of a command is laid out like that.
LEMMA CommandLayout ==
    ASSUME NEW type \in Byte, NEW ident \in Int, NEW sector \in Int, NEW data \in Seq(Byte),
           NEW body, body = CommandBody(type, ident, sector, data)
    PROVE  IsCommandBody(body, type, sector, data)
  <1>1. PICK m, z, t, id, se : /\ m = MAGIC_NUMBER /\ z = Zeros(3) /\ t = <<type>>
                               /\ id = ToBeBytes(ident, 8) /\ se = ToBeBytes(sector, 8)
    OBVIOUS
  <1>2. /\ m \in Seq(Byte) /\ Len(m) = 4
        /\ z \in Seq(Byte) /\ Len(z) = 3
        /\ t \in Seq(Byte) /\ Len(t) = 1 /\ t[1] = type
    BY <1>1, HeaderBytes
  <1>3. /\ id \in Seq(Byte) /\ Len(id) = 8
        /\ se \in Seq(Byte) /\ Len(se) = 8
    BY <1>1, NumberBytes
  <1>4. PICK u1 : u1 = m \o z
    OBVIOUS
  <1>5. PICK u2 : u2 = u1 \o t
    OBVIOUS
  <1>6. PICK u3 : u3 = u2 \o id
    OBVIOUS
  <1>7. PICK u4 : u4 = u3 \o se
    OBVIOUS
  <1>8. body = u4 \o data
    BY <1>1, <1>4, <1>5, <1>6, <1>7 DEF CommandBody
  <1>9. /\ u1 \in Seq(Byte) /\ Len(u1) = 7
        /\ \A i \in 1..4 : u1[i] = m[i]
    <2>1. Join(u1, m, z)
      BY <1>2, <1>4, Joined
    <2> QED
      BY <1>2, <2>1 DEF Join
  <1>10. /\ u2 \in Seq(Byte) /\ Len(u2) = 8
         /\ \A i \in 1..7 : u2[i] = u1[i]
         /\ u2[8] = type
    <2>1. Join(u2, u1, t)
      BY <1>2, <1>5, <1>9, Joined
    <2> QED
      BY <1>2, <1>9, <2>1 DEF Join
  <1>11. /\ u3 \in Seq(Byte) /\ Len(u3) = 16
         /\ \A i \in 1..8 : u3[i] = u2[i]
    <2>1. Join(u3, u2, id)
      BY <1>3, <1>6, <1>10, Joined
    <2> QED
      BY <1>3, <1>10, <2>1 DEF Join
  <1>12. /\ u4 \in Seq(Byte) /\ Len(u4) = 24
         /\ \A i \in 1..16 : u4[i] = u3[i]
         /\ \A i \in 1..8 : u4[16 + i] = se[i]
    <2>1. Join(u4, u3, se)
      BY <1>3, <1>7, <1>11, Joined
    <2> QED
      BY <1>3, <1>11, <2>1 DEF Join
  <1>13. /\ body \in Seq(Byte) /\ Len(body) = 24 + Len(data)
         /\ \A i \in 1..24 : body[i] = u4[i]
         /\ \A i \in 1..Len(data) : body[24 + i] = data[i]
    <2>1. Join(body, u4, data)
      BY <1>8, <1>12, Joined
    <2> QED
      BY <1>12, <2>1 DEF Join
  <1>14. ASSUME NEW i \in 1..4 PROVE body[i] = m[i]
    <2>1. i \in 1..7 /\ i \in 1..8 /\ i \in 1..16 /\ i \in 1..24
      OBVIOUS
    <2>2. body[i] = u4[i]
      BY <1>13, <2>1
    <2>3. u4[i] = u3[i]
      BY <1>12, <2>1
    <2>4. u3[i] = u2[i]
      BY <1>11, <2>1
    <2>5. u2[i] = u1[i]
      BY <1>10, <2>1
    <2>6. u1[i] = m[i]
      BY <1>9
    <2> QED
      BY <2>2, <2>3, <2>4, <2>5, <2>6
  <1>15. body[8] = type
    BY <1>10, <1>11, <1>12, <1>13
  <1>16. ASSUME NEW i \in 1..8 PROVE body[16 + i] = se[i]
    <2>1. 16 + i \in 1..24
      OBVIOUS
    <2> QED
      BY <1>12, <1>13, <2>1
  <1> QED
    BY <1>1, <1>13, <1>14, <1>15, <1>16 DEF IsCommandBody

\* What the block layer may ask for.
IsRequest(rq) ==
    /\ rq.dir \in {READ, WRITE} /\ rq.data \in Seq(Byte)
    /\ rq.pos \in Nat /\ rq.pos = 8 * (rq.pos \div 8)
    /\ rq.pos \div 8 \in Nat /\ (rq.pos \div 8) \div 65536 < 256
    /\ rq.dir = WRITE => Len(rq.data) = SECTOR_VEC_SIZE
    /\ rq.dir = READ => rq.data = <<>>

\* b is a command for rq that the process can execute.
IsCommand(b, rq) ==
    /\ b \in Seq(Byte) /\ Len(b) = MsgLen(rq.dir) + HMAC_TAG_SIZE
    /\ \A i \in 1..4 : b[i] = MAGIC_NUMBER[i]
    /\ b[8] = rq.dir
    /\ IsVerified(b)
    /\ \E id \in Int :
         deserialize_register_command(b) = ClientCommand(rq.dir, id, rq.pos \div 8, rq.data)

\* Every request of the block layer is one.
LEMMA RequestsAre ==
    ASSUME NEW i \in DOMAIN Requests
    PROVE  IsRequest(Requests[i])
  <1>1. Requests \in Seq([dir : {READ, WRITE}, pos : Nat, data : Seq(Byte)])
    BY BlockLayerAssumption DEF Byte
  <1>2. PICK rq : rq = Requests[i]
    OBVIOUS
  <1>3. i \in 1..Len(Requests)
    BY <1>1
  <1>4. rq \in [dir : {READ, WRITE}, pos : Nat, data : Seq(Byte)]
    BY <1>1, <1>2, <1>3, ElementOfSeq
  <1>5. /\ rq.pos % 8 = 0 /\ (rq.pos \div 8) \div 65536 < 256
        /\ Len(rq.data) = IF rq.dir = WRITE THEN SECTOR_VEC_SIZE ELSE 0
    BY <1>2, BlockLayerAssumption, SMT
  <1>6. rq.dir \in {READ, WRITE} /\ rq.pos \in Nat /\ rq.data \in Seq(Byte)
    BY <1>4
  <1>7. PICK p \in Nat : p = rq.pos
    BY <1>6
  <1>8. p = 8 * (p \div 8) /\ p \div 8 \in Nat
    BY <1>5, <1>7, SMT
  <1>9. rq.dir = READ => rq.data = <<>>
    <2>1. rq.dir = READ => Len(rq.data) = 0
      BY <1>5 DEF READ, WRITE
    <2> QED
      BY <1>6, <2>1, EmptySeq
  <1>10. rq.dir = WRITE => Len(rq.data) = SECTOR_VEC_SIZE
    BY <1>5
  <1> QED
    BY <1>2, <1>5, <1>6, <1>7, <1>8, <1>9, <1>10 DEF IsRequest

\* A big-endian field is read back as it was written.
LEMMA FieldValue ==
    ASSUME NEW n \in Nat, n \div 65536 < 256
    PROVE  FromBeBytes(ToBeBytes(n, 8)) = n
  <1>1. PICK v : v = ToBeBytes(n, 8)
    OBVIOUS
  <1>2. v[8] = n % 256 /\ v[7] = (n \div 256) % 256 /\ v[6] = (n \div 65536) % 256
    BY <1>1, SMT DEF ToBeBytes
  <1>3. v \in Seq(Byte) /\ Len(v) = 8
    BY <1>1, EightBytes, SMT
  <1>4. FromBeBytes(v) = v[8] + 256 * v[7] + 65536 * v[6]
    BY <1>3, SMT DEF FromBeBytes
  <1>5. FromBeBytes(v) = (n % 256) + 256 * ((n \div 256) % 256) + 65536 * ((n \div 65536) % 256)
    BY <1>2, <1>4
  <1> QED
    BY <1>1, <1>5, ThreeBytes

\* A field is a number.
LEMMA FieldIsNumber ==
    ASSUME NEW v \in Seq(Byte), Len(v) = 8
    PROVE  FromBeBytes(v) \in Int
  <1>1. v[8] \in Byte /\ v[7] \in Byte /\ v[6] \in Byte
    <2>1. \A i \in 1..8 : v[i] \in Byte
      BY ElementOfSeq
    <2> QED
      BY <2>1
  <1>2. PICK x, y, z \in Int : x = v[8] /\ y = v[7] /\ z = v[6]
    <2>1. \A x \in Byte : x \in Int
      BY DEF Byte
    <2> QED
      BY <1>1, <2>1
  <1>3. FromBeBytes(v) = x + 256 * y + 65536 * z
    BY <1>2, SMT DEF FromBeBytes
  <1> QED
    BY <1>3, SMT

\* A message that starts with the four bytes has the magic number in front.
LEMMA MagicInFront ==
    ASSUME NEW b \in Seq(Byte), Len(b) >= 4, \A i \in 1..4 : b[i] = MAGIC_NUMBER[i]
    PROVE  SubSeq(b, 1, 4) = MAGIC_NUMBER
  <1>1. PICK v : v = SubSeq(b, 0 + 1, 0 + 4)
    OBVIOUS
  <1>2. Part(v, b, 0, 4)
    <2>1. 0 \in Nat /\ 4 \in Nat /\ 0 + 4 <= Len(b)
      OBVIOUS
    <2> QED
      BY <1>1, <2>1, Parts, Zenon
  <1>3. v \in Seq(Byte) /\ Len(v) = 4 /\ \A i \in 1..4 : v[i] = MAGIC_NUMBER[i]
    BY <1>2 DEF Part
  <1>4. MAGIC_NUMBER \in Seq(Byte) /\ Len(MAGIC_NUMBER) = 4
    <2>1. 0 \in Byte
      BY DEF Byte
    <2> QED
      BY <2>1, HeaderBytes
  <1>5. v = MAGIC_NUMBER
    BY <1>3, <1>4, SameBytes
  <1> QED
    BY <1>1, <1>5

\* What prepare_cmd_content sends for a request is that request to the process: the tag
\* verifies and the fields are read back as they were written.
LEMMA CommandFrame ==
    ASSUME NEW rq, IsRequest(rq), NEW ident \in Int, NEW b,
           b = Signed(hmac_client_key, CommandBody(rq.dir, ident, rq.pos \div 8, rq.data))
    PROVE  IsCommand(b, rq)
  <1>1. PICK n, data : n = rq.pos \div 8 /\ data = rq.data
    OBVIOUS
  <1>2. /\ rq.dir \in {READ, WRITE} /\ data \in Seq(Byte) /\ n \in Nat /\ n \div 65536 < 256
        /\ rq.dir = WRITE => Len(data) = SECTOR_VEC_SIZE
        /\ rq.dir = READ => data = <<>>
    BY <1>1 DEF IsRequest
  <1>3. PICK type \in Byte : type = rq.dir
    BY <1>2 DEF Byte, READ, WRITE
  <1>4. PICK body : body = CommandBody(type, ident, n, data)
    OBVIOUS
  <1>5. /\ body \in Seq(Byte) /\ Len(body) = 24 + Len(data)
        /\ \A i \in 1..4 : body[i] = MAGIC_NUMBER[i]
        /\ body[8] = type
        /\ \A i \in 1..8 : body[16 + i] = ToBeBytes(n, 8)[i]
        /\ \A i \in 1..Len(data) : body[24 + i] = data[i]
    <2>1. IsCommandBody(body, type, n, data)
      BY <1>2, <1>4, CommandLayout
    <2> QED
      BY <2>1 DEF IsCommandBody
  <1>6. hmac_client_key \in Int
    BY KeyIsNumber
  <1>7. /\ b \in Seq(Byte) /\ Len(b) = Len(body) + HMAC_TAG_SIZE
        /\ \A i \in 1..Len(body) : b[i] = body[i]
        /\ Verified(hmac_client_key, b, Len(body))
    <2>1. b = Signed(hmac_client_key, body)
      BY <1>1, <1>3, <1>4
    <2>2. Len(body) # 0
      BY <1>2, <1>5
    <2> QED
      BY <1>5, <1>6, <2>1, <2>2, SignedVerifies
  <1>8. Len(data) \in Nat /\ Len(body) \in Nat /\ HMAC_TAG_SIZE = 32
    BY <1>2, <1>5 DEF HMAC_TAG_SIZE
  <1>9. MsgLen(type) = Len(body)
    <2>1. CASE type = READ
      BY <1>2, <1>3, <1>5, <2>1 DEF MsgLen, READ, WRITE, READ_PROC, ACK, HasTag, VALUE, WRITE_PROC
    <2>2. CASE type = WRITE
      <3>1. Len(body) = 24 + SECTOR_VEC_SIZE
        BY <1>2, <1>3, <1>5, <2>2
      <3>2. MsgLen(2) = 24 + SECTOR_VEC_SIZE
        BY SMT DEF MsgLen, READ, WRITE, READ_PROC, ACK, HasTag, VALUE, WRITE_PROC
      <3> QED
        BY <2>2, <3>1, <3>2 DEF WRITE
    <2> QED
      BY <1>2, <1>3, <2>1, <2>2
  <1>10. b[8] = type
    BY <1>5, <1>7, <1>8
  <1>11. ASSUME NEW i \in 1..4 PROVE b[i] = MAGIC_NUMBER[i]
    <2>1. i \in 1..Len(body)
      BY <1>5, <1>8
    <2>2. b[i] = body[i]
      BY <1>7, <2>1
    <2> QED
      BY <1>5, <2>2
  <1>12. IsVerified(b)
    <2>1. b[8] < READ_PROC
      BY <1>2, <1>3, <1>10 DEF READ, WRITE, READ_PROC
    <2> QED
      BY <1>7, <1>9, <1>10, <2>1 DEF IsVerified
  <1>13. PICK rest : rest = SubSeq(b, 9, Len(b))
    OBVIOUS
  <1>14. Part(rest, b, 8, 16 + Len(data) + 32)
    <2>1. SubSeq(b, 8 + 1, 8 + (16 + Len(data) + 32)) = rest
      BY <1>5, <1>7, <1>8, <1>13
    <2>2. 16 + Len(data) + 32 \in Nat /\ 8 + (16 + Len(data) + 32) <= Len(b)
      BY <1>5, <1>7, <1>8
    <2> QED
      BY <1>7, <2>1, <2>2, Parts
  <1>15. /\ rest \in Seq(Byte) /\ Len(rest) = 48 + Len(data)
         /\ \A i \in 1..(16 + Len(data)) : rest[i] = body[8 + i]
    <2>1. /\ rest \in Seq(Byte) /\ Len(rest) = 48 + Len(data)
          /\ \A i \in 1..(16 + Len(data) + 32) : rest[i] = b[8 + i]
      BY <1>8, <1>14 DEF Part
    <2>2. ASSUME NEW i \in 1..(16 + Len(data)) PROVE rest[i] = body[8 + i]
      <3>1. i \in 1..(16 + Len(data) + 32) /\ 8 + i \in 1..Len(body)
        BY <1>5, <1>8
      <3> QED
        BY <1>7, <2>1, <3>1
    <2> QED
      BY <2>1, <2>2
  <1>16. FromBeBytes(Slice(rest, 0, 8)) \in Int
    <2>1. PICK v : v = SubSeq(rest, 0 + 1, 0 + 8)
      OBVIOUS
    <2>2. 0 + 8 <= Len(rest)
      BY <1>8, <1>15
    <2>3. Part(v, rest, 0, 8)
      BY <1>15, <2>1, <2>2, Parts
    <2>4. FromBeBytes(v) \in Int
      BY <2>3, FieldIsNumber DEF Part
    <2> QED
      BY <2>1, <2>4 DEF Slice
  <1>17. FromBeBytes(Slice(rest, 8, 8)) = n
    <2>1. PICK v : v = SubSeq(rest, 8 + 1, 8 + 8)
      OBVIOUS
    <2>2. Part(v, rest, 8, 8)
      BY <1>8, <1>15, <2>1, Parts
    <2>3. ASSUME NEW i \in 1..8 PROVE v[i] = ToBeBytes(n, 8)[i]
      <3>1. v[i] = rest[8 + i]
        BY <2>2 DEF Part
      <3>2. 8 + i \in 1..(16 + Len(data)) /\ 8 + (8 + i) = 16 + i
        BY <1>8
      <3>3. rest[8 + i] = body[16 + i]
        BY <1>15, <3>2
      <3> QED
        BY <1>5, <3>1, <3>3
    <2>4. v = ToBeBytes(n, 8)
      <3>1. v \in Seq(Byte) /\ Len(v) = 8
        BY <2>2 DEF Part
      <3>2. ToBeBytes(n, 8) \in Seq(Byte) /\ Len(ToBeBytes(n, 8)) = 8
        BY <1>2, EightBytes
      <3> QED
        BY <2>3, <3>1, <3>2, SameBytes
    <2>5. FromBeBytes(v) = n
      BY <1>2, <2>4, FieldValue
    <2> QED
      BY <2>1, <2>5 DEF Slice
  <1>18. (IF type = WRITE THEN Slice(rest, 16, SECTOR_VEC_SIZE) ELSE <<>>) = data
    <2>1. CASE type = READ
      BY <1>2, <1>3, <2>1 DEF READ, WRITE
    <2>2. CASE type = WRITE
      <3>1. Len(data) = SECTOR_VEC_SIZE
        BY <1>2, <1>3, <2>2
      <3>2. PICK v : v = SubSeq(rest, 16 + 1, 16 + Len(data))
        OBVIOUS
      <3>3. Part(v, rest, 16, Len(data))
        BY <1>8, <1>15, <3>2, Parts
      <3>4. ASSUME NEW i \in 1..Len(data) PROVE v[i] = data[i]
        <4>1. v[i] = rest[16 + i]
          BY <3>3 DEF Part
        <4>2. 16 + i \in 1..(16 + Len(data)) /\ 8 + (16 + i) = 24 + i
          BY <1>8
        <4>3. rest[16 + i] = body[24 + i]
          BY <1>15, <4>2
        <4> QED
          BY <1>5, <4>1, <4>3
      <3>5. v \in Seq(Byte) /\ Len(v) = Len(data)
        BY <3>3 DEF Part
      <3>6. v = data
        BY <1>2, <3>4, <3>5, SameBytes
      <3> QED
        BY <2>2, <3>1, <3>2, <3>6 DEF Slice
    <2> QED
      BY <1>2, <1>3, <2>1, <2>2
  <1>19. deserialize_register_command(b)
           = ClientCommand(type, FromBeBytes(Slice(rest, 0, 8)), n, data)
    <2>1. IsClient(b[8])
      BY <1>2, <1>3, <1>10 DEF IsClient
    <2>2. deserialize_register_command(b) = deserialize_client_command(rest, type)
      BY <1>10, <1>13, <2>1 DEF deserialize_register_command
    <2> QED
      BY <1>17, <1>18, <2>2 DEF deserialize_client_command
  <1> QED
    BY <1>1, <1>3, <1>7, <1>9, <1>10, <1>11, <1>12, <1>16, <1>19 DEF IsCommand

-----------------------------------------------------------------------------
(* The responses of the process *)

\* Where the fields of a response are.
IsResponseBody(body, status, type, data) ==
    /\ body \in Seq(Byte) /\ Len(body) = 16 + Len(data)
    /\ \A i \in 1..4 : body[i] = MAGIC_NUMBER[i]
    /\ body[7] = status /\ body[8] = 64 + type
    /\ \A i \in 1..Len(data) : body[16 + i] = data[i]

\* b is a whole response that the driver accepts.
IsResponse(b, status, type, data) ==
    /\ b \in Seq(Byte) /\ Len(b) >= MIN_RESPONSE_SIZE /\ Len(b) = ResponseSize(b)
    /\ SubSeq(b, 1, 4) = MAGIC_NUMBER
    /\ b[7] = status
    /\ Verified(hmac_client_key, b, Len(b) - HMAC_TAG_SIZE)
    /\ (status = StatusCode.Ok /\ type = READ) => Slice(b, 16, SECTOR_SIZE) = data

\* A response is laid out like that.
LEMMA ResponseLayout ==
    ASSUME NEW status \in {0, 1, 2}, NEW type \in {READ, WRITE}, NEW id \in Int,
           NEW data \in Seq(Byte),
           NEW body, body = serialize_response(status, type, id, data)
    PROVE  IsResponseBody(body, status, type, data)
  <1>1. PICK m, t, n : /\ m = MAGIC_NUMBER /\ t = <<0, 0, status, 64 + type>>
                       /\ n = ToBeBytes(id, 8)
    OBVIOUS
  <1>2. m \in Seq(Byte) /\ Len(m) = 4
    <2>1. 0 \in Byte
      BY DEF Byte
    <2> QED
      BY <1>1, <2>1, HeaderBytes
  <1>3. t \in Seq(Byte) /\ Len(t) = 4 /\ t[3] = status /\ t[4] = 64 + type
    <2>1. 0 \in Byte /\ status \in Byte /\ 64 + type \in Byte
      BY DEF Byte, READ, WRITE
    <2> QED
      BY <1>1, <2>1
  <1>4. n \in Seq(Byte) /\ Len(n) = 8
    BY <1>1, NumberBytes
  <1>5. PICK u1 : u1 = m \o t
    OBVIOUS
  <1>6. PICK u2 : u2 = u1 \o n
    OBVIOUS
  <1>7. body = u2 \o data
    BY <1>1, <1>5, <1>6 DEF serialize_response
  <1>8. /\ u1 \in Seq(Byte) /\ Len(u1) = 8
        /\ \A i \in 1..4 : u1[i] = m[i]
        /\ u1[7] = status /\ u1[8] = 64 + type
    <2>1. Join(u1, m, t)
      BY <1>2, <1>3, <1>5, Joined
    <2>2. /\ u1 \in Seq(Byte) /\ Len(u1) = 8
          /\ \A i \in 1..4 : u1[i] = m[i]
          /\ \A i \in 1..4 : u1[4 + i] = t[i]
      BY <1>2, <1>3, <2>1 DEF Join
    <2>3. u1[4 + 3] = t[3] /\ u1[4 + 4] = t[4]
      BY <2>2
    <2>4. 4 + 3 = 7 /\ 4 + 4 = 8
      OBVIOUS
    <2> QED
      BY <1>3, <2>2, <2>3, <2>4
  <1>9. /\ u2 \in Seq(Byte) /\ Len(u2) = 16
        /\ \A i \in 1..8 : u2[i] = u1[i]
    <2>1. Join(u2, u1, n)
      BY <1>4, <1>6, <1>8, Joined
    <2> QED
      BY <1>4, <1>8, <2>1 DEF Join
  <1>10. /\ body \in Seq(Byte) /\ Len(body) = 16 + Len(data)
         /\ \A i \in 1..16 : body[i] = u2[i]
         /\ \A i \in 1..Len(data) : body[16 + i] = data[i]
    <2>1. Join(body, u2, data)
      BY <1>7, <1>9, Joined
    <2> QED
      BY <1>9, <2>1 DEF Join
  <1>11. ASSUME NEW i \in 1..4 PROVE body[i] = m[i]
    <2>1. i \in 1..8 /\ i \in 1..16
      OBVIOUS
    <2>2. body[i] = u2[i]
      BY <1>10, <2>1
    <2>3. u2[i] = u1[i]
      BY <1>9, <2>1
    <2>4. u1[i] = m[i]
      BY <1>8
    <2> QED
      BY <2>2, <2>3, <2>4
  <1>12. body[7] = status /\ body[8] = 64 + type
    <2>1. body[7] = u2[7] /\ body[8] = u2[8]
      BY <1>10
    <2>2. u2[7] = u1[7] /\ u2[8] = u1[8]
      BY <1>9
    <2> QED
      BY <1>8, <2>1, <2>2
  <1> QED
    BY <1>1, <1>10, <1>11, <1>12 DEF IsResponseBody

\* What respond writes is one response to the driver: it has the size that progress_tcp_data
\* computes from its header, its tag verifies, and the sector is where atdd_fetch_command
\* copies it from.
LEMMA ResponseFrame ==
    ASSUME NEW status \in {0, 1, 2}, NEW type \in {READ, WRITE}, NEW id \in Int,
           NEW data \in Seq(Byte),
           Len(data) = IF status = 0 /\ type = READ THEN SECTOR_VEC_SIZE ELSE 0,
           NEW b, b = Signed(hmac_client_key, serialize_response(status, type, id, data))
    PROVE  IsResponse(b, status, type, data)
  <1>1. PICK body : body = serialize_response(status, type, id, data)
    OBVIOUS
  <1>2. IsResponseBody(body, status, type, data)
    BY <1>1, ResponseLayout
  <1>3. /\ body \in Seq(Byte) /\ Len(body) = 16 + Len(data) /\ Len(data) \in Nat
        /\ body[7] = status /\ body[8] = 64 + type
    BY <1>2 DEF IsResponseBody
  <1>4. hmac_client_key \in Int /\ Len(body) # 0
    <2>1. hmac_client_key \in Int
      BY KeyIsNumber
    <2>2. Len(body) # 0
      BY <1>3
    <2> QED
      BY <2>1, <2>2
  <1>5. /\ b \in Seq(Byte) /\ Len(b) = Len(body) + HMAC_TAG_SIZE
        /\ \A i \in 1..Len(body) : b[i] = body[i]
        /\ Verified(hmac_client_key, b, Len(body))
    BY <1>1, <1>3, <1>4, SignedVerifies
  <1>6. Len(b) - HMAC_TAG_SIZE = Len(body) /\ Len(b) = 48 + Len(data)
    BY <1>3, <1>5 DEF HMAC_TAG_SIZE
  <1>7. b[7] = status /\ b[8] = 64 + type
    <2>1. 7 \in 1..Len(body) /\ 8 \in 1..Len(body)
      BY <1>3
    <2> QED
      BY <1>3, <1>5, <2>1
  <1>8. SubSeq(b, 1, 4) = MAGIC_NUMBER
    <2>1. ASSUME NEW i \in 1..4 PROVE b[i] = MAGIC_NUMBER[i]
      <3>1. i \in 1..Len(body)
        BY <1>3
      <3>2. b[i] = body[i]
        BY <1>5, <3>1
      <3>3. body[i] = MAGIC_NUMBER[i]
        BY <1>2 DEF IsResponseBody
      <3> QED
        BY <3>2, <3>3
    <2>2. Len(b) >= 4
      BY <1>3, <1>6
    <2> QED
      BY <1>5, <2>1, <2>2, MagicInFront
  <1>9. Len(b) = ResponseSize(b)
    <2>1. ResponseSize(b) = 48 + (IF status = 0 /\ type = READ THEN SECTOR_VEC_SIZE ELSE 0)
      BY <1>7, SMT DEF ResponseSize, MIN_RESPONSE_SIZE, HMAC_TAG_SIZE, SECTOR_SIZE, StatusCode,
                       READ, WRITE
    <2> QED
      BY <1>6, <2>1
  <1>10. Len(b) >= MIN_RESPONSE_SIZE
    BY <1>3, <1>6 DEF MIN_RESPONSE_SIZE, HMAC_TAG_SIZE
  <1>11. (status = StatusCode.Ok /\ type = READ) => Slice(b, 16, SECTOR_SIZE) = data
    <2>1. SUFFICES ASSUME status = StatusCode.Ok, type = READ
                   PROVE  Slice(b, 16, SECTOR_SIZE) = data
      OBVIOUS
    <2>2. SECTOR_SIZE = Len(data)
      BY <2>1 DEF SECTOR_SIZE, StatusCode
    <2>3. PICK v : v = SubSeq(b, 16 + 1, 16 + Len(data))
      OBVIOUS
    <2>4. 16 + Len(data) <= Len(b)
      BY <1>3, <1>6
    <2>5. Part(v, b, 16, Len(data))
      BY <1>3, <1>5, <2>3, <2>4, Parts
    <2>6. v \in Seq(Byte) /\ Len(v) = Len(data)
      BY <2>5 DEF Part
    <2>7. ASSUME NEW i \in 1..Len(data) PROVE v[i] = data[i]
      <3>1. v[i] = b[16 + i]
        BY <2>5 DEF Part
      <3>2. 16 + i \in 1..Len(body)
        BY <1>3
      <3>3. b[16 + i] = body[16 + i]
        BY <1>5, <3>2
      <3>4. body[16 + i] = data[i]
        BY <1>2 DEF IsResponseBody
      <3> QED
        BY <3>1, <3>3, <3>4
    <2>8. v = data
      BY <2>6, <2>7, SameBytes
    <2> QED
      BY <2>2, <2>3, <2>8 DEF Slice
  <1> QED
    BY <1>5, <1>6, <1>7, <1>8, <1>9, <1>10, <1>11 DEF IsResponse

-----------------------------------------------------------------------------
(* Reading a request *)

\* get_magic_number stops at once at a message that starts with the magic number.
LEMMA MagicFirst ==
    ASSUME NEW x \in Seq(Byte), Len(x) >= 4, \A i \in 1..4 : x[i] = MAGIC_NUMBER[i]
    PROVE  HasMagic(x) /\ SubSeq(x, get_magic_number(x), Len(x)) = x
  <1>1. SubSeq(x, 1, 4) = MAGIC_NUMBER
    BY MagicInFront
  <1>2. IsMagicAt(x, 1)
    <2>1. 1 + 3 = 4
      OBVIOUS
    <2> QED
      BY <1>1, <2>1 DEF IsMagicAt
  <1>3. 1 \in 1..(Len(x) - 3) /\ 1..(1 - 1) = {}
    OBVIOUS
  <1> DEFINE P(i) == IsMagicAt(x, i) /\ \A j \in 1..(i - 1) : ~IsMagicAt(x, j)
  <1>4. P(1)
    BY <1>2, <1>3
  <1>5. ASSUME NEW i \in 1..(Len(x) - 3), P(i) PROVE i = 1
    <2>1. i # 1 => 1 \in 1..(i - 1)
      OBVIOUS
    <2> QED
      BY <1>2, <1>5, <2>1
  <1>6. get_magic_number(x) = CHOOSE i \in 1..(Len(x) - 3) : P(i)
    BY DEF get_magic_number
  <1> HIDE DEF P
  <1>7. get_magic_number(x) = 1
    BY <1>3, <1>4, <1>5, <1>6
  <1>8. HasMagic(x)
    BY <1>2, <1>3 DEF HasMagic
  <1> QED
    BY <1>7, <1>8, SubSeqFull

\* The length of a client command.
LEMMA CommandLength ==
    ASSUME NEW b, NEW rq, IsRequest(rq), IsCommand(b, rq)
    PROVE  /\ b \in Seq(Byte) /\ Len(b) \in Nat /\ Len(b) >= 56
           /\ MsgLen(b[8]) \in Nat /\ MsgLen(b[8]) >= 24 /\ HMAC_TAG_SIZE = 32
           /\ Len(b) = MsgLen(b[8]) + HMAC_TAG_SIZE
           /\ \A i \in 1..4 : b[i] = MAGIC_NUMBER[i]
  <1>1. b[8] \in {1, 2}
    BY DEF IsRequest, IsCommand, READ, WRITE
  <1>2. MsgLen(1) = 24 /\ MsgLen(2) = 24 + SECTOR_VEC_SIZE
    BY SMT DEF MsgLen, READ, WRITE, READ_PROC, ACK, HasTag, VALUE, WRITE_PROC
  <1>3. MsgLen(b[8]) \in Nat /\ MsgLen(b[8]) >= 24
    BY <1>1, <1>2, SectorSizeAssumption
  <1>4. /\ b \in Seq(Byte) /\ Len(b) = MsgLen(b[8]) + HMAC_TAG_SIZE
        /\ \A i \in 1..4 : b[i] = MAGIC_NUMBER[i]
    BY DEF IsCommand
  <1>5. HMAC_TAG_SIZE = 32
    BY DEF HMAC_TAG_SIZE
  <1> QED
    BY <1>3, <1>4, <1>5

\* A connection without bytes is not read.
LEMMA NothingToRead ==
    ASSUME NEW c, inbuf[c] = <<>>
    PROVE  ~HandleRequest(c)
  BY DEF HandleRequest, HasMagic

\* The first bytes of a command are left in the connection: read_exact waits for the others.
LEMMA PartIsLeft ==
    ASSUME NEW b, NEW rq, IsRequest(rq), IsCommand(b, rq), NEW c,
           NEW k \in (1..55) \ (5..7), inbuf[c] = SubSeq(b, 1, k)
    PROVE  ~HandleRequest(c)
  <1>1. PICK x : x = inbuf[c]
    OBVIOUS
  <1>2. /\ b \in Seq(Byte) /\ Len(b) \in Nat /\ Len(b) >= 56
        /\ MsgLen(b[8]) \in Nat /\ MsgLen(b[8]) >= 24 /\ HMAC_TAG_SIZE = 32
        /\ \A i \in 1..4 : b[i] = MAGIC_NUMBER[i]
    BY CommandLength
  <1>3. Part(x, b, 0, k)
    <2>1. k \in Nat /\ 0 + k <= Len(b) /\ x = SubSeq(b, 0 + 1, 0 + k)
      BY <1>1, <1>2
    <2> QED
      BY <1>2, <2>1, Parts
  <1>4. x \in Seq(Byte) /\ Len(x) = k /\ \A i \in 1..k : x[i] = b[i]
    BY <1>3 DEF Part
  <1>5. CASE k < 4
    <2>1. 1..(k - 3) = {}
      BY <1>5
    <2> QED
      BY <1>1, <1>4, <2>1 DEF HandleRequest, HasMagic
  <1>6. CASE k >= 4
    <2>1. \A i \in 1..4 : x[i] = MAGIC_NUMBER[i]
      BY <1>2, <1>4, <1>6
    <2>2. SubSeq(x, get_magic_number(x), Len(x)) = x
      BY <1>4, <1>6, <2>1, MagicFirst
    <2>3. Request(c) = x
      BY <1>1, <2>2 DEF Request
    <2>4. ~ShortHeader(c, x)
      BY <1>4 DEF ShortHeader
    <2>5. k >= 8 => x[8] = b[8]
      BY <1>4
    <2>6. ~UnknownType(c, x)
      <3>1. MsgLen(b[8]) # 0
        BY <1>2
      <3> QED
        BY <1>4, <2>5, <3>1 DEF UnknownType
    <2>7. ~HandleMessage(c, x)
      <3>1. ~(k >= MsgLen(b[8]) + HMAC_TAG_SIZE)
        BY <1>2
      <3> QED
        BY <1>4, <2>5, <3>1 DEF HandleMessage, HasRequest
    <2> QED
      BY <2>3, <2>4, <2>6, <2>7 DEF HandleRequest
  <1> QED
    BY <1>5, <1>6

\* The command of rq is taken from the connection, and executed or rejected.
Handled(c, rq) ==
    /\ \E id \in Int :
         \E cmd \in {ClientCommand(rq.dir, id, rq.pos \div 8, rq.data)} :
            RejectClient(c, cmd, TRUE) \/ ExecuteClient(c, cmd, TRUE)
    /\ inbuf' = [inbuf EXCEPT ![c] = <<>>]
    /\ UNCHANGED <<listening, conn, wire, sectors>>

\* A command that is there is executed as it was sent, or rejected for its sector.
LEMMA WholeIsHandled ==
    ASSUME NEW b, NEW rq, IsRequest(rq), IsCommand(b, rq), NEW c, inbuf[c] = b,
           HandleRequest(c)
    PROVE  Handled(c, rq)
  <1>1. /\ b \in Seq(Byte) /\ Len(b) \in Nat /\ Len(b) >= 56
        /\ MsgLen(b[8]) \in Nat /\ MsgLen(b[8]) >= 24 /\ HMAC_TAG_SIZE = 32
        /\ Len(b) = MsgLen(b[8]) + HMAC_TAG_SIZE
        /\ \A i \in 1..4 : b[i] = MAGIC_NUMBER[i]
    BY CommandLength
  <1>2. Request(c) = b
    <2>1. Len(b) >= 4
      BY <1>1
    <2>2. SubSeq(b, get_magic_number(b), Len(b)) = b
      BY <1>1, <2>1, MagicFirst
    <2> QED
      BY <2>2 DEF Request
  <1>3. ~ShortHeader(c, b)
    BY <1>1 DEF ShortHeader
  <1>4. ~UnknownType(c, b)
    BY <1>1 DEF UnknownType
  <1>5. HandleMessage(c, b)
    BY <1>2, <1>3, <1>4 DEF HandleRequest
  <1>6. PICK id \in Int :
          deserialize_register_command(b) = ClientCommand(rq.dir, id, rq.pos \div 8, rq.data)
    BY DEF IsCommand
  <1>7. PICK cmd : cmd = ClientCommand(rq.dir, id, rq.pos \div 8, rq.data)
    OBVIOUS
  <1>8. IsVerified(b) = TRUE
    BY DEF IsCommand, IsVerified, Verified
  <1>9. \/ ExecuteSystem(c, cmd, TRUE)
        \/ RejectClient(c, cmd, TRUE)
        \/ ExecuteClient(c, cmd, TRUE)
    BY <1>5, <1>6, <1>7, <1>8 DEF HandleMessage
  <1>10. ~ExecuteSystem(c, cmd, TRUE)
    <2>1. cmd.type = rq.dir
      BY <1>7 DEF ClientCommand
    <2> QED
      BY <2>1 DEF IsRequest, ExecuteSystem, IsClient
  <1>11. inbuf' = [inbuf EXCEPT ![c] = SubSeq(b, Len(b) + 1, Len(b))]
    BY <1>1, <1>5 DEF HandleMessage, Consume
  <1>12. SubSeq(b, Len(b) + 1, Len(b)) = <<>>
    BY <1>1, SubSeqEmpty
  <1>13. UNCHANGED <<listening, conn, wire, sectors>>
    BY <1>5 DEF HandleMessage
  <1> QED
    BY <1>6, <1>7, <1>9, <1>10, <1>11, <1>12, <1>13 DEF Handled

-----------------------------------------------------------------------------
(* The invariant *)

\* No command of the driver is cut inside the four bytes behind the magic number, where a
\* short read would lose it.
NoHeaderCut == Cuts \cap (5..7) = {}

\* No other connection has a command that writes a sector.
OnlyDriverWrites == \A r \in running : r.cmd.type = WRITE => r.conn = Driver

\* The requests whose position in the ring is published.
Accepted == IF submitting = 0 THEN submitted ELSE submitted - 1

\* The slot j places behind slot p.
At(p, j) == IF p + j < RingSize THEN p + j ELSE p + j - RingSize

\* The ring when d requests are completed: the first d, each with its answer; the slots
\* from buf_completed_pos on hold the others in the order of submission; buf_accepted_pos
\* is behind the last published one, and buf_tcp_forwarded_pos one slot ahead of
\* buf_completed_pos when a command is pending.
Ring(d) ==
    /\ submitted \in Nat /\ submitted <= Len(Requests)
    /\ d \in Nat /\ submitting \in {0, submitted}
    /\ pending \in {0, 1} /\ d + pending <= Accepted
    /\ submitted - d <= QueueDepth
    /\ buf_completed_pos \in 0..(RingSize - 1)
    /\ buf_accepted_pos = At(buf_completed_pos, Accepted - d)
    /\ buf_tcp_forwarded_pos = At(buf_completed_pos, pending)
    /\ requests_buf \in [0..(RingSize - 1) -> Nat]
    /\ \A j \in 0..(submitted - d - 1) : requests_buf[At(buf_completed_pos, j)] = d + 1 + j
    /\ finished = [i \in DOMAIN Requests |-> IF i <= d THEN DiscAnswer(i) ELSE Unfinished]
    /\ request_ident_counter \in Int

WritesTo(j, s) == Requests[j].dir = WRITE /\ Requests[j].pos = 8 * s

\* The sectors hold what the first k requests wrote.
Holds(k) ==
    /\ DOMAIN sectors = 0..(max_sector - 1)
    /\ \A s \in 0..(max_sector - 1) :
         \/ /\ \A j \in 1..k : ~WritesTo(j, s)
            /\ sectors[s] = Zeros(SECTOR_SIZE)
         \/ \E m \in 1..k : /\ WritesTo(m, s)
                            /\ \A j \in 1..k : WritesTo(j, s) => j <= m
                            /\ sectors[s] = Requests[m].data

\* The commands of the driver that the process executes.
Mine == {r \in running : r.conn = Driver}

\* b is on its way to the process, whole or in two segments.
InTransit(b) ==
    \/ wire[Driver] = <<b>> /\ inbuf[Driver] = <<>>
    \/ \E k \in Cuts :
         \/ /\ wire[Driver] = <<SubSeq(b, 1, k), SubSeq(b, k + 1, Len(b))>>
            /\ inbuf[Driver] = <<>>
         \/ wire[Driver] = <<SubSeq(b, k + 1, Len(b))>> /\ inbuf[Driver] = SubSeq(b, 1, k)
    \/ wire[Driver] = <<>> /\ inbuf[Driver] = b

NotInTransit == wire[Driver] = <<>> /\ inbuf[Driver] = <<>>

\* Where the command of the next request is: not sent, under way to the process, executed
\* there, or answered.
Unsent(d) ==
    pending = 0 /\ NotInTransit /\ Mine = {} /\ outbuf[Driver] = <<>> /\ Holds(d)

Sent(d) ==
    /\ pending = 1 /\ Mine = {} /\ outbuf[Driver] = <<>> /\ Holds(d)
    /\ \E b : IsCommand(b, Requests[d + 1]) /\ InTransit(b)

CommandOf(i, id) == ClientCommand(Requests[i].dir, id, Requests[i].pos \div 8, Requests[i].data)

Executing(d) ==
    /\ pending = 1 /\ NotInTransit /\ outbuf[Driver] = <<>> /\ Holds(d)
    /\ Requests[d + 1].pos \div 8 < max_sector
    /\ \E id \in Int : Mine = {[conn |-> Driver, cmd |-> CommandOf(d + 1, id)]}

\* bytes is a whole response that completes request i with what a disc would answer.
AnswersRequest(bytes, i) ==
    /\ Len(bytes) \in Nat /\ Len(bytes) >= MIN_RESPONSE_SIZE /\ Len(bytes) = ResponseSize(bytes)
    /\ SubSeq(bytes, 1, 4) = MAGIC_NUMBER
    /\ Verified(hmac_client_key, bytes, Len(bytes) - HMAC_TAG_SIZE)
    /\ LET ok == bytes[7] = StatusCode.Ok
       IN  DiscAnswer(i) =
             [status |-> IF ok THEN "ok" ELSE "error",
              data |-> IF ok /\ Requests[i].dir = READ THEN Slice(bytes, 16, SECTOR_SIZE)
                       ELSE <<>>]

Answered(d) ==
    pending = 1 /\ NotInTransit /\ Mine = {} /\ Holds(d + 1) /\ AnswersRequest(outbuf[Driver], d + 1)

Pipeline(d) == Unsent(d) \/ Sent(d) \/ Executing(d) \/ Answered(d)

Streams == DOMAIN wire = Conn /\ DOMAIN inbuf = Conn /\ DOMAIN outbuf = Conn

\* The inductive invariant.
DeviceInv == Streams /\ \E d \in Nat : Ring(d) /\ Pipeline(d)

-----------------------------------------------------------------------------
(* Positions in the ring *)

\* The size of the ring.
LEMMA RingIs ==
    /\ RingSize \in Nat /\ RingSize >= 2
    /\ QueueDepth \in Nat /\ QueueDepth >= 1 /\ QueueDepth <= RingSize - 1
  BY DriverAssumption

\* A place in the ring is a slot.
LEMMA AtSlot ==
    ASSUME NEW p \in 0..(RingSize - 1), NEW j \in 0..(RingSize - 1)
    PROVE  At(p, j) \in 0..(RingSize - 1)
  BY RingIs DEF At

\* Slot p itself.
LEMMA AtZero ==
    ASSUME NEW p \in 0..(RingSize - 1)
    PROVE  At(p, 0) = p
  BY RingIs DEF At

\* Incrementing a position, which wraps, goes to the next place.
LEMMA AtNext ==
    ASSUME NEW p \in 0..(RingSize - 1), NEW j \in 0..(RingSize - 2)
    PROVE  Uint8(At(p, j) + 1) = At(p, j + 1)
  <1>1. PICK R \in Nat : R = RingSize /\ R >= 2
    BY RingIs
  <1>2. CASE p + j < R
    <2>1. At(p, j) = p + j
      BY <1>1, <1>2 DEF At
    <2>2. (p + j + 1) % R = IF p + j + 1 < R THEN p + j + 1 ELSE p + j + 1 - R
      BY <1>1, <1>2, SMT
    <2> QED
      BY <1>1, <2>1, <2>2 DEF At, Uint8
  <1>3. CASE p + j >= R
    <2>1. At(p, j) = p + j - R
      BY <1>1, <1>3 DEF At
    <2>2. (p + j - R + 1) % R = p + j - R + 1
      BY <1>1, <1>3, SMT
    <2>3. At(p, j + 1) = p + j - R + 1
      BY <1>1, <1>3 DEF At
    <2> QED
      BY <1>1, <2>1, <2>2, <2>3 DEF Uint8
  <1> QED
    BY <1>1, <1>2, <1>3

\* Different places are different slots.
LEMMA AtDistinct ==
    ASSUME NEW p \in 0..(RingSize - 1), NEW i \in 0..(RingSize - 1), NEW j \in 0..(RingSize - 1),
           At(p, i) = At(p, j)
    PROVE  i = j
  BY RingIs DEF At

\* The difference of two positions, taken modulo the size, is the number of places between.
LEMMA AtDifference ==
    ASSUME NEW p \in 0..(RingSize - 1), NEW i \in 0..(RingSize - 1), NEW j \in 0..i
    PROVE  Uint8(At(p, i) - At(p, j)) = i - j
  <1>1. PICK R \in Nat : R = RingSize /\ R >= 2
    BY RingIs
  <1>2. PICK x \in Int : x = At(p, i) - At(p, j) /\ (x = i - j \/ x = i - j - R)
    <2> p \in Int /\ i \in Int /\ j \in Int /\ j \in 0..(RingSize - 1)
      BY <1>1
    <2>0. At(p, i) \in 0..(RingSize - 1) /\ At(p, j) \in 0..(RingSize - 1)
      BY AtSlot
    <2>1. PICK y, z \in Int : y = At(p, i) /\ z = At(p, j)
      BY <1>1, <2>0
    <2>2. /\ y = IF p + i < R THEN p + i ELSE p + i - R
          /\ z = IF p + j < R THEN p + j ELSE p + j - R
      BY <1>1, <2>1 DEF At
    <2>3. y - z \in Int /\ (y - z = i - j \/ y - z = i - j - R)
      BY <1>1, <2>2
    <2> QED
      BY <2>1, <2>3
  <1>3. 0 <= i - j /\ i - j < R
    BY <1>1
  <1>4. x % R = i - j
    <2>1. PICK y \in Nat : y = i - j /\ y < R
      BY <1>3
    <2>2. x = y \/ x = y - R
      BY <1>2, <2>1
    <2>3. x % R = y
      BY <1>1, <2>1, <2>2, SMT
    <2> QED
      BY <2>1, <2>3
  <1> QED
    BY <1>1, <1>2, <1>4 DEF Uint8

\* The places behind the next slot.
LEMMA AtShift ==
    ASSUME NEW p \in 0..(RingSize - 1), NEW j \in 0..(RingSize - 2)
    PROVE  At(At(p, 1), j) = At(p, j + 1)
  BY RingIs DEF At

\* At most one command is to be sent: the first accepted one, when none is pending.
LEMMA CommandsToSend ==
    ASSUME NEW d, Ring(d)
    PROVE  atdd_cmds_to_send = IF pending = 0 /\ d < Accepted THEN 1 ELSE 0
  <1>1. PICK a, p, c, R, s : a = Accepted /\ p = pending /\ c = buf_completed_pos
                          /\ R = RingSize /\ s = submitted
    OBVIOUS
  <1>2. /\ R \in Nat /\ R >= 2 /\ c \in 0..(R - 1) /\ p \in {0, 1} /\ d \in Nat /\ s \in Nat
        /\ d + p <= a /\ s - d <= R - 1 /\ a \in {s, s - 1}
    BY <1>1, RingIs DEF Ring, Accepted
  <1>3. a - d \in 0..(R - 1) /\ p \in 0..(a - d) /\ p \in 0..(R - 1) /\ 0 \in 0..p
    BY <1>2
  <1>4. Uint8(buf_accepted_pos - buf_tcp_forwarded_pos) = (a - d) - p
    <2>1. PICK x \in 0..(RingSize - 1) : x = a - d
      BY <1>1, <1>3
    <2>2. buf_accepted_pos = At(c, x) /\ buf_tcp_forwarded_pos = At(c, p)
      BY <1>1, <2>1 DEF Ring
    <2>3. c \in 0..(RingSize - 1) /\ p \in 0..x
      BY <1>1, <1>2, <1>3, <2>1
    <2>4. Uint8(At(c, x) - At(c, p)) = x - p
      BY <2>3, AtDifference
    <2> QED
      BY <2>1, <2>2, <2>4
  <1>5. Uint8(buf_tcp_forwarded_pos - buf_completed_pos) = p - 0
    <2>1. buf_completed_pos = At(c, 0)
      BY <1>1, <1>2, AtZero
    <2>2. buf_tcp_forwarded_pos = At(c, p)
      BY <1>1 DEF Ring
    <2> QED
      BY <1>1, <1>2, <1>3, <2>1, <2>2, AtDifference
  <1>6. Uint8(1 - p) = 1 - p
    <2>1. (1 - p) % R = 1 - p
      BY <1>2, SMT
    <2> QED
      BY <1>1, <2>1 DEF Uint8
  <1>7. atdd_cmds_to_send = IF (a - d) - p < 1 - p THEN (a - d) - p ELSE 1 - p
    <2>1. p - 0 = p
      BY <1>2
    <2> QED
      BY <1>4, <1>5, <1>6, <2>1 DEF atdd_cmds_to_send, ATDD_CLIENT_SEND_AHEAD
  <1> QED
    BY <1>1, <1>2, <1>7

-----------------------------------------------------------------------------
(* The steps of the driver *)

\* Nothing that was completed looks as if it were not.
LEMMA AnswerIsFinal ==
    ASSUME NEW i
    PROVE  DiscAnswer(i) # Unfinished
  <1>1. DiscAnswer(i).status \in {"ok", "error"}
    BY DEF DiscAnswer
  <1>2. Unfinished.status = "none"
    BY DEF Unfinished
  <1> QED
    BY <1>1, <1>2

\* The requests are numbered from 1.
LEMMA RequestNumbers == Len(Requests) \in Nat /\ DOMAIN Requests = 1..Len(Requests)
  BY BlockLayerAssumption

\* The requests that the block layer has outstanding are those behind the first d.
LEMMA OutstandingIs ==
    ASSUME NEW d, Ring(d)
    PROVE  Cardinality(Outstanding) = submitted - d
  <1>1. /\ submitted \in Nat /\ submitted <= Len(Requests) /\ d \in Nat /\ d <= submitted
        /\ finished = [i \in DOMAIN Requests |-> IF i <= d THEN DiscAnswer(i) ELSE Unfinished]
    BY DEF Ring, Accepted
  <1>2. ASSUME NEW i \in 1..submitted PROVE (finished[i] = Unfinished) <=> (i \in (d + 1)..submitted)
    <2>1. finished[i] = IF i <= d THEN DiscAnswer(i) ELSE Unfinished
      BY <1>1, RequestNumbers
    <2> QED
      BY <1>1, <2>1, AnswerIsFinal
  <1>3. (d + 1)..submitted \subseteq 1..submitted
    BY <1>1
  <1>4. Outstanding = (d + 1)..submitted
    BY <1>2, <1>3 DEF Outstanding
  <1>5. Cardinality((d + 1)..submitted) = IF d + 1 > submitted THEN 0 ELSE submitted - (d + 1) + 1
    BY <1>1, FS_Interval
  <1> QED
    BY <1>1, <1>4, <1>5

\* A request that is stored does not overwrite one that is not completed.
LEMMA SubmitSlotStep ==
    ASSUME NEW d, Ring(d), SubmitSlot
    PROVE  Ring(d)'
  <1>1. PICK c, s, f : c = buf_completed_pos /\ s = submitted /\ f = requests_buf
    OBVIOUS
  <1>2. /\ s \in Nat /\ s < Len(Requests) /\ d \in Nat /\ d <= s /\ submitting = 0 /\ Accepted = s
        /\ pending \in {0, 1} /\ d + pending <= s
        /\ c \in 0..(RingSize - 1) /\ buf_accepted_pos = At(c, s - d)
        /\ f \in [0..(RingSize - 1) -> Nat]
        /\ \A j \in 0..(s - d - 1) : f[At(c, j)] = d + 1 + j
    BY <1>1 DEF Ring, SubmitSlot, Accepted
  <1>3. s - d < QueueDepth
    BY <1>1, OutstandingIs DEF SubmitSlot
  <1>4. /\ submitted' = s + 1 /\ submitting' = s + 1 /\ Accepted' = s
        /\ requests_buf' = [f EXCEPT ![At(c, s - d)] = s + 1]
        /\ buf_completed_pos' = c
    <2>1. /\ submitted' = s + 1 /\ submitting' = s + 1 /\ buf_completed_pos' = c
          /\ requests_buf' = [f EXCEPT ![At(c, s - d)] = s + 1]
      BY <1>1, <1>2 DEF SubmitSlot
    <2>2. s + 1 # 0 /\ (s + 1) - 1 = s
      BY <1>2
    <2> QED
      BY <2>1, <2>2 DEF Accepted
  <1>5. PICK x \in 0..(RingSize - 1) : x = s - d /\ x < QueueDepth
    BY <1>2, <1>3, RingIs
  <1>6. At(c, x) \in 0..(RingSize - 1)
    BY <1>2, AtSlot
  <1>7. requests_buf' \in [0..(RingSize - 1) -> Nat]
    <2>1. PICK y \in Nat : y = s + 1
      BY <1>2
    <2> QED
      BY <1>2, <1>4, <2>1
  <1>8. ASSUME NEW j \in 0..(submitted' - d - 1)
        PROVE  requests_buf'[At(c, j)] = d + 1 + j
    <2>1. j \in 0..x /\ j \in 0..(RingSize - 1)
      BY <1>2, <1>4, <1>5, RingIs
    <2>2. At(c, j) \in 0..(RingSize - 1)
      BY <1>2, <2>1, AtSlot
    <2>3. CASE j = x
      BY <1>2, <1>4, <1>5, <1>6, <2>3
    <2>4. CASE j # x
      <3>1. At(c, j) # At(c, x)
        BY <1>2, <2>1, <2>4, AtDistinct
      <3>2. j \in 0..(s - d - 1)
        BY <1>2, <1>5, <2>1, <2>4
      <3>3. f[At(c, j)] = d + 1 + j
        BY <1>2, <3>2
      <3>4. requests_buf'[At(c, j)] = f[At(c, j)]
        BY <1>2, <1>4, <1>5, <2>2, <3>1
      <3> QED
        BY <3>3, <3>4
    <2> QED
      BY <2>3, <2>4
  <1>9. s + 1 - d <= QueueDepth /\ s + 1 <= Len(Requests) /\ s + 1 \in Nat
    BY <1>2, <1>3, RingIs, RequestNumbers
  <1> QED
    BY <1>1, <1>2, <1>4, <1>7, <1>8, <1>9 DEF Ring, SubmitSlot

\* Its position is published.
LEMMA SubmitPositionStep ==
    ASSUME NEW d, Ring(d), SubmitPosition
    PROVE  Ring(d)'
  <1>1. PICK c, s : c = buf_completed_pos /\ s = submitted
    OBVIOUS
  <1>2. /\ s \in Nat /\ d \in Nat /\ Accepted = s - 1 /\ s - d <= QueueDepth
        /\ pending \in {0, 1} /\ d + pending <= s - 1
        /\ c \in 0..(RingSize - 1) /\ buf_accepted_pos = At(c, (s - 1) - d)
    BY <1>1 DEF Ring, SubmitPosition, Accepted
  <1>3. PICK x \in 0..(RingSize - 2) : x = (s - 1) - d
    BY <1>2, RingIs
  <1>4. buf_accepted_pos' = At(c, x + 1)
    BY <1>2, <1>3, AtNext DEF SubmitPosition
  <1>5. Accepted' = s /\ submitting' = 0 /\ submitted' = s /\ buf_completed_pos' = c
    BY <1>1 DEF SubmitPosition, Accepted
  <1>6. x + 1 = s - d /\ d + pending <= s
    BY <1>2, <1>3
  <1> QED
    BY <1>1, <1>4, <1>5, <1>6 DEF Ring, SubmitPosition

\* The driver alone does not move a command that it does not touch.
LEMMA SamePipeline ==
    ASSUME NEW d, Pipeline(d), UNCHANGED <<requestVars, pending>>
    PROVE  Pipeline(d)'
  <1>1. UNCHANGED <<wire, inbuf, running, outbuf, sectors, pending>>
    BY DEF requestVars
  <1>2. Mine' = Mine /\ (Holds(d)' <=> Holds(d)) /\ (Holds(d + 1)' <=> Holds(d + 1))
    BY <1>1 DEF Mine, Holds
  <1>3. (NotInTransit' <=> NotInTransit) /\ \A b : InTransit(b)' <=> InTransit(b)
    BY <1>1 DEF NotInTransit, InTransit
  <1>4. Unsent(d) => Unsent(d)'
    BY <1>1, <1>2, <1>3 DEF Unsent
  <1>5. Sent(d) => Sent(d)'
    BY <1>1, <1>2, <1>3 DEF Sent
  <1>6. Executing(d) => Executing(d)'
    BY <1>1, <1>2, <1>3 DEF Executing
  <1>7. Answered(d) => Answered(d)'
    BY <1>1, <1>2, <1>3 DEF Answered
  <1> QED
    BY <1>4, <1>5, <1>6, <1>7 DEF Pipeline

\* The request at buf_completed_pos is the first that is not completed.
LEMMA FirstInRing ==
    ASSUME NEW d, Ring(d), d < submitted
    PROVE  requests_buf[buf_completed_pos] = d + 1 /\ d + 1 \in DOMAIN Requests
  <1>1. /\ d \in Nat /\ submitted \in Nat /\ submitted <= Len(Requests)
        /\ buf_completed_pos \in 0..(RingSize - 1)
        /\ \A j \in 0..(submitted - d - 1) : requests_buf[At(buf_completed_pos, j)] = d + 1 + j
    BY DEF Ring
  <1>2. 0 \in 0..(submitted - d - 1)
    BY <1>1
  <1>3. requests_buf[At(buf_completed_pos, 0)] = d + 1 + 0
    BY <1>1, <1>2
  <1>4. At(buf_completed_pos, 0) = buf_completed_pos
    BY <1>1, AtZero
  <1>5. d + 1 + 0 = d + 1 /\ d + 1 \in 1..Len(Requests)
    BY <1>1, RequestNumbers
  <1> QED
    BY <1>3, <1>4, <1>5, RequestNumbers

\* A pending command is one of an accepted request.
LEMMA PendingIsAccepted ==
    ASSUME NEW d, Ring(d)
    PROVE  /\ d \in Nat /\ submitted \in Nat /\ Accepted \in Nat
           /\ d <= Accepted /\ Accepted <= submitted
           /\ pending = 1 => d < Accepted
           /\ Accepted - d <= RingSize - 1
  <1>1. /\ d \in Nat /\ submitted \in Nat /\ submitting \in {0, submitted}
        /\ pending \in {0, 1} /\ d + pending <= Accepted /\ submitted - d <= QueueDepth
    BY DEF Ring
  <1>2. Accepted \in Int /\ (Accepted = submitted \/ Accepted = submitted - 1)
    BY <1>1 DEF Accepted
  <1> QED
    BY <1>1, <1>2, RingIs

\* Only the response of the pending command is fetched, and it completes its request.
LEMMA FetchStep ==
    ASSUME NEW d, Streams, Ring(d), Pipeline(d), Fetch
    PROVE  Streams' /\ Ring(d + 1)' /\ Pipeline(d + 1)'
  <1>1. PICK bytes : bytes = outbuf[Driver]
    OBVIOUS
  <1>2. pending > 0 /\ Len(bytes) >= 8
    BY <1>1 DEF Fetch
  <1>3. pending = 1 /\ bytes # <<>>
    BY <1>2 DEF Ring
  <1>4. Answered(d)
    <2>1. ~Unsent(d)
      BY <1>3 DEF Unsent
    <2>2. ~Sent(d) /\ ~Executing(d)
      BY <1>1, <1>3 DEF Sent, Executing
    <2> QED
      BY <2>1, <2>2 DEF Pipeline
  <1>5. /\ AnswersRequest(bytes, d + 1) /\ Mine = {} /\ NotInTransit /\ Holds(d + 1)
    BY <1>1, <1>4 DEF Answered
  <1>6. /\ Len(bytes) \in Nat /\ Len(bytes) = ResponseSize(bytes)
        /\ Verified(hmac_client_key, bytes, Len(bytes) - HMAC_TAG_SIZE)
    BY <1>5 DEF AnswersRequest
  <1>7. outbuf' = [outbuf EXCEPT ![Driver] = <<>>]
    <2>1. SubSeq(bytes, Len(bytes) + 1, Len(bytes)) = <<>>
      BY <1>6, SubSeqEmpty
    <2> QED
      BY <1>1, <1>6, <2>1 DEF Fetch
  <1>8. Finish(bytes, Len(bytes))
    BY <1>1, <1>6 DEF Fetch
  <1>9. UNCHANGED <<wire, inbuf, running, sectors, requests_buf, submitting, buf_accepted_pos,
                    submitted>>
    BY DEF Fetch
  <1>10. /\ d \in Nat /\ submitted \in Nat /\ Accepted \in Nat /\ d < Accepted
         /\ Accepted <= submitted /\ Accepted - d <= RingSize - 1
    BY <1>3, PendingIsAccepted
  <1>11. requests_buf[buf_completed_pos] = d + 1 /\ d + 1 \in DOMAIN Requests
    <2>1. d < submitted
      BY <1>10
    <2> QED
      BY <2>1, FirstInRing
  <1>12. finished' = [finished EXCEPT ![d + 1] = DiscAnswer(d + 1)]
    BY <1>5, <1>8, <1>11 DEF Finish, AnswersRequest
  <1>13. finished' = [i \in DOMAIN Requests |-> IF i <= d + 1 THEN DiscAnswer(i) ELSE Unfinished]
    <2>1. finished = [i \in DOMAIN Requests |-> IF i <= d THEN DiscAnswer(i) ELSE Unfinished]
      BY DEF Ring
    <2>2. \A i \in DOMAIN Requests : i <= d + 1 <=> (i = d + 1 \/ i <= d)
      BY <1>10, RequestNumbers
    <2> QED
      BY <1>11, <1>12, <2>1, <2>2
  <1>14. PICK c, e : c = buf_completed_pos /\ e = buf_completed_pos'
    OBVIOUS
  <1>15. c \in 0..(RingSize - 1) /\ e = At(c, 1) /\ e \in 0..(RingSize - 1)
    <2>1. c \in 0..(RingSize - 1)
      BY <1>14 DEF Ring
    <2>2. e = Uint8(c + 1)
      BY <1>8, <1>14 DEF Finish
    <2>3. At(c, 0) = c /\ 0 \in 0..(RingSize - 2) /\ 1 \in 0..(RingSize - 1) /\ 0 + 1 = 1
      BY <2>1, AtZero, RingIs
    <2>4. Uint8(At(c, 0) + 1) = At(c, 0 + 1)
      BY <2>1, <2>3, AtNext
    <2>5. At(c, 1) \in 0..(RingSize - 1)
      BY <2>1, <2>3, AtSlot
    <2> QED
      BY <2>1, <2>2, <2>3, <2>4, <2>5
  <1>16. Accepted' = Accepted
    BY <1>9 DEF Accepted
  <1>17. buf_accepted_pos' = At(e, Accepted - (d + 1))
    <2>1. PICK x \in 0..(RingSize - 2) : x = Accepted - (d + 1)
      BY <1>10, RingIs
    <2>2. At(At(c, 1), x) = At(c, x + 1)
      BY <1>15, AtShift
    <2>3. x + 1 = Accepted - d
      BY <1>10, <2>1
    <2> QED
      BY <1>9, <1>14, <1>15, <2>1, <2>2, <2>3 DEF Ring
  <1>18. pending' = 0 /\ buf_tcp_forwarded_pos' = At(e, 0)
    <2>1. buf_tcp_forwarded_pos = At(c, 1)
      BY <1>3, <1>14 DEF Ring
    <2>2. At(e, 0) = e
      BY <1>15, AtZero
    <2> QED
      BY <1>3, <1>8, <1>15, <2>1, <2>2 DEF Finish
  <1>19. ASSUME NEW j \in 0..(submitted' - (d + 1) - 1)
         PROVE  requests_buf'[At(e, j)] = (d + 1) + 1 + j
    <2>1. submitted - d <= RingSize - 1
      <3>1. submitted - d <= QueueDepth
        BY DEF Ring
      <3> QED
        BY <1>10, <3>1, RingIs
    <2>2. j \in 0..(RingSize - 2) /\ j + 1 \in 0..(submitted - d - 1)
      BY <1>9, <1>10, <2>1, RingIs
    <2>3. At(e, j) = At(c, j + 1)
      BY <1>15, <2>2, AtShift
    <2>4. requests_buf[At(c, j + 1)] = d + 1 + (j + 1)
      BY <1>14, <2>2 DEF Ring
    <2>5. d + 1 + (j + 1) = (d + 1) + 1 + j
      BY <1>10, <2>2
    <2> QED
      BY <1>9, <2>3, <2>4, <2>5
  <1>20. request_ident_counter' \in Int
    BY <1>8 DEF Finish, Ring
  <1>21. Ring(d + 1)'
    <2>1. /\ submitted' \in Nat /\ submitted' <= Len(Requests) /\ submitting' \in {0, submitted'}
          /\ requests_buf' \in [0..(RingSize - 1) -> Nat]
      BY <1>9 DEF Ring
    <2>2. d + 1 \in Nat /\ (d + 1) + 0 <= Accepted'
      BY <1>10, <1>16
    <2>3. submitted' - (d + 1) <= QueueDepth
      <3>1. submitted - d <= QueueDepth
        BY DEF Ring
      <3> QED
        BY <1>9, <1>10, <3>1, RingIs
    <2> QED
      BY <1>13, <1>14, <1>15, <1>16, <1>17, <1>18, <1>19, <1>20, <2>1, <2>2, <2>3 DEF Ring
  <1>22. Unsent(d + 1)'
    <2>1. NotInTransit' /\ Mine' = {} /\ Holds(d + 1)'
      BY <1>5, <1>9 DEF NotInTransit, Mine, Holds
    <2>2. outbuf'[Driver] = <<>>
      BY <1>7, DriverAssumption DEF Streams
    <2> QED
      BY <1>18, <2>1, <2>2 DEF Unsent
  <1>23. Streams'
    BY <1>7, <1>9 DEF Streams
  <1> QED
    BY <1>21, <1>22, <1>23 DEF Pipeline

\* Without a change of the ring the ring is the same.
LEMMA SameRing ==
    ASSUME NEW d, Ring(d),
           UNCHANGED <<requests_buf, submitting, buf_accepted_pos, buf_tcp_forwarded_pos,
                       buf_completed_pos, request_ident_counter, pending, submitted, finished>>
    PROVE  Ring(d)'
  BY DEF Ring, Accepted

\* A send that failed is a send that did not happen.
LEMMA SendErrorStep ==
    ASSUME NEW d, Ring(d), SendError
    PROVE  Ring(d)'
  <1>1. pending = 0
    BY CommandsToSend DEF SendError
  <1>2. buf_tcp_forwarded_pos = buf_completed_pos
    <2>1. buf_completed_pos \in 0..(RingSize - 1) /\ buf_tcp_forwarded_pos = At(buf_completed_pos, 0)
      BY <1>1 DEF Ring
    <2> QED
      BY <2>1, AtZero
  <1>3. UNCHANGED <<requests_buf, submitting, buf_accepted_pos, buf_tcp_forwarded_pos,
                    buf_completed_pos, request_ident_counter, pending, submitted, finished>>
    BY <1>2 DEF SendError
  <1> QED
    BY <1>3, SameRing

\* The command that is sent is the one of the first request that is not completed.
LEMMA SendStep ==
    ASSUME NEW d, Streams, Ring(d), Pipeline(d), Send
    PROVE  Streams' /\ Ring(d)' /\ Pipeline(d)'
  <1>1. pending = 0 /\ d < Accepted
    BY CommandsToSend DEF Send
  <1>2. Unsent(d)
    BY <1>1 DEF Pipeline, Sent, Executing, Answered
  <1>3. d \in Nat /\ d < submitted
    BY <1>1, PendingIsAccepted
  <1>4. requests_buf[buf_completed_pos] = d + 1 /\ d + 1 \in DOMAIN Requests
    BY <1>3, FirstInRing
  <1>5. buf_completed_pos \in 0..(RingSize - 1) /\ buf_tcp_forwarded_pos = buf_completed_pos
    <2>1. buf_completed_pos \in 0..(RingSize - 1) /\ buf_tcp_forwarded_pos = At(buf_completed_pos, 0)
      BY <1>1 DEF Ring
    <2> QED
      BY <2>1, AtZero
  <1>6. PICK rq : rq = Requests[d + 1] /\ IsRequest(rq)
    BY <1>4, RequestsAre
  <1>7. PICK ident \in Int :
          ident = request_ident_counter + (buf_tcp_forwarded_pos - buf_completed_pos)
    <2>1. request_ident_counter \in Int
      BY DEF Ring
    <2> QED
      BY <1>5, <2>1, RingIs
  <1>8. PICK b : b = CommandBytes
    OBVIOUS
  <1>9. b = Signed(hmac_client_key, CommandBody(rq.dir, ident, rq.pos \div 8, rq.data))
    BY <1>4, <1>5, <1>6, <1>7, <1>8 DEF CommandBytes, CommandBody
  <1>10. IsCommand(b, rq)
    BY <1>6, <1>9, CommandFrame
  <1>11. PICK segments \in Segments(b) : wire' = [wire EXCEPT ![Driver] = @ \o segments]
    BY <1>8 DEF Send
  <1>12. UNCHANGED <<inbuf, running, outbuf, sectors, requests_buf, submitting,
                     buf_accepted_pos, buf_completed_pos, request_ident_counter, submitted,
                     finished>>
    BY DEF Send
  <1>13. wire'[Driver] = segments
    <2>1. wire[Driver] = <<>>
      BY <1>2 DEF Unsent, NotInTransit
    <2>2. Driver \in DOMAIN wire
      BY DriverAssumption DEF Streams
    <2>3. <<>> \o segments = segments
      <3>1. segments \in Seq(Seq(Byte))
        <4>1. b \in Seq(Byte)
          BY <1>10 DEF IsCommand
        <4>2. CASE segments = <<b>>
          BY <4>1, <4>2
        <4>3. ASSUME NEW k \in Cuts,
                     segments = <<SubSeq(b, 1, k), SubSeq(b, k + 1, Len(b))>>
              PROVE  segments \in Seq(Seq(Byte))
          <5>1. k \in 1..55 /\ Len(b) >= 56 /\ Len(b) \in Nat
            BY <1>6, <1>10, CommandLength, DriverAssumption
          <5>2. SubSeq(b, 1, k) \in Seq(Byte) /\ SubSeq(b, k + 1, Len(b)) \in Seq(Byte)
            <6>1. \A i \in 1..k : b[i] \in Byte
              BY <4>1, <5>1, ElementOfSeq
            <6>2. \A i \in (k + 1)..Len(b) : b[i] \in Byte
              BY <4>1, <5>1, ElementOfSeq
            <6>3. PICK m, n \in Int : m = k + 1 /\ n = Len(b)
              BY <5>1
            <6>4. SubSeq(b, 1, k) \in Seq(Byte)
              BY <5>1, <6>1, SubSeqProperties
            <6>5. SubSeq(b, m, n) \in Seq(Byte)
              BY <6>2, <6>3, SubSeqProperties
            <6> QED
              BY <6>3, <6>4, <6>5
          <5> QED
            BY <4>3, <5>2
        <4> QED
          BY <4>2, <4>3 DEF Segments
      <3> QED
        BY <3>1, ConcatEmptySeq
    <2> QED
      BY <1>11, <2>1, <2>2, <2>3
  <1>14. InTransit(b)'
    <2>1. inbuf'[Driver] = <<>>
      BY <1>2, <1>12 DEF Unsent, NotInTransit
    <2> QED
      BY <1>13, <2>1 DEF Segments, InTransit
  <1>15. pending' = 1
    BY <1>1 DEF Send
  <1>16. Sent(d)'
    <2>1. Mine' = {} /\ outbuf'[Driver] = <<>> /\ Holds(d)'
      BY <1>2, <1>12 DEF Unsent, Mine, Holds
    <2> QED
      BY <1>6, <1>10, <1>14, <1>15, <2>1 DEF Sent
  <1>17. buf_tcp_forwarded_pos' = At(buf_completed_pos, 1)
    <2>1. At(buf_completed_pos, 0) = buf_completed_pos /\ 0 \in 0..(RingSize - 2) /\ 0 + 1 = 1
      BY <1>5, AtZero, RingIs
    <2>2. Uint8(At(buf_completed_pos, 0) + 1) = At(buf_completed_pos, 0 + 1)
      BY <1>5, <2>1, AtNext
    <2> QED
      BY <1>5, <2>1, <2>2 DEF Send
  <1>18. Ring(d)'
    <2>1. Accepted' = Accepted
      BY <1>12 DEF Accepted
    <2>2. d + 1 <= Accepted
      BY <1>1, PendingIsAccepted
    <2> QED
      BY <1>12, <1>15, <1>17, <2>1, <2>2 DEF Ring
  <1>19. Streams'
    BY <1>11, <1>12 DEF Streams
  <1> QED
    BY <1>16, <1>18, <1>19 DEF Pipeline

-----------------------------------------------------------------------------
(* What the sectors hold *)

\* A sector has SECTOR_VEC_SIZE bytes.
LEMMA SectorBytes ==
    ASSUME NEW k \in Nat, k <= Len(Requests), Holds(k), NEW s \in 0..(max_sector - 1)
    PROVE  sectors[s] \in Seq(Byte) /\ Len(sectors[s]) = SECTOR_VEC_SIZE
  <1>1. CASE sectors[s] = Zeros(SECTOR_SIZE)
    <2>1. Zeros(SECTOR_VEC_SIZE) \in [1..SECTOR_VEC_SIZE -> Byte]
      BY DEF Zeros, Byte
    <2>2. SECTOR_VEC_SIZE \in Nat
      BY SectorSizeAssumption
    <2> QED
      BY <1>1, <2>1, <2>2, FunctionBytes DEF SECTOR_SIZE
  <1>2. ASSUME NEW m \in 1..k, WritesTo(m, s), sectors[s] = Requests[m].data
        PROVE  sectors[s] \in Seq(Byte) /\ Len(sectors[s]) = SECTOR_VEC_SIZE
    <2>1. m \in DOMAIN Requests
      BY RequestNumbers
    <2>2. IsRequest(Requests[m])
      BY <2>1, RequestsAre
    <2> QED
      BY <1>2, <2>2 DEF IsRequest, WritesTo
  <1> QED
    BY <1>1, <1>2 DEF Holds

\* A READ gets the last write before it.
LEMMA SectorIsLastWrite ==
    ASSUME NEW d \in Nat, d + 1 \in DOMAIN Requests, Holds(d),
           NEW s \in 0..(max_sector - 1), s = Requests[d + 1].pos \div 8
    PROVE  LastWrite(d + 1) = sectors[s]
  <1>1. Requests[d + 1].pos = 8 * s
    BY RequestsAre DEF IsRequest
  <1> DEFINE W == {j \in 1..((d + 1) - 1) :
                     Requests[j].dir = WRITE /\ Requests[j].pos = Requests[d + 1].pos}
  <1>2. (d + 1) - 1 = d
    OBVIOUS
  <1>3. W = {j \in 1..d : WritesTo(j, s)}
    BY <1>1, <1>2 DEF WritesTo
  <1>4. LastWrite(d + 1) = IF W = {} THEN Zeros(SECTOR_SIZE)
                           ELSE Requests[CHOOSE j \in W : \A k \in W : k <= j].data
    BY DEF LastWrite
  <1> HIDE DEF W
  <1>5. CASE /\ \A j \in 1..d : ~WritesTo(j, s)
             /\ sectors[s] = Zeros(SECTOR_SIZE)
    BY <1>3, <1>4, <1>5
  <1>6. ASSUME NEW m \in 1..d, WritesTo(m, s), \A j \in 1..d : WritesTo(j, s) => j <= m,
               sectors[s] = Requests[m].data
        PROVE  LastWrite(d + 1) = sectors[s]
    <2>1. m \in W /\ \A k \in W : k <= m
      BY <1>3, <1>6
    <2>2. \A j \in W : j \in Int
      BY <1>3
    <2>3. ASSUME NEW j \in W, \A k \in W : k <= j PROVE j = m
      BY <2>1, <2>2, <2>3
    <2>4. (CHOOSE j \in W : \A k \in W : k <= j) = m
      BY <2>1, <2>3
    <2> QED
      BY <1>4, <1>6, <2>1, <2>4
  <1> QED
    BY <1>5, <1>6 DEF Holds

\* A request that does not write a sector of the disc leaves what the sectors hold.
LEMMA HoldsWithout ==
    ASSUME NEW d \in Nat, Holds(d), \A s \in 0..(max_sector - 1) : ~WritesTo(d + 1, s)
    PROVE  Holds(d + 1)
  <1>1. 1..(d + 1) = (1..d) \cup {d + 1}
    OBVIOUS
  <1>2. ASSUME NEW s \in 0..(max_sector - 1)
        PROVE  \/ /\ \A j \in 1..(d + 1) : ~WritesTo(j, s)
                  /\ sectors[s] = Zeros(SECTOR_SIZE)
               \/ \E m \in 1..(d + 1) : /\ WritesTo(m, s)
                                        /\ \A j \in 1..(d + 1) : WritesTo(j, s) => j <= m
                                        /\ sectors[s] = Requests[m].data
    BY <1>1 DEF Holds
  <1> QED
    BY <1>2 DEF Holds

\* A write of sector t is what sector t holds.
LEMMA HoldsWritten ==
    ASSUME NEW d \in Nat, Holds(d), NEW t \in 0..(max_sector - 1), WritesTo(d + 1, t),
           sectors' = [sectors EXCEPT ![t] = Requests[d + 1].data]
    PROVE  Holds(d + 1)'
  <1>1. 1..(d + 1) = (1..d) \cup {d + 1}
    OBVIOUS
  <1>2. ASSUME NEW s \in 0..(max_sector - 1)
        PROVE  \/ /\ \A j \in 1..(d + 1) : ~WritesTo(j, s)
                  /\ sectors'[s] = Zeros(SECTOR_SIZE)
               \/ \E m \in 1..(d + 1) : /\ WritesTo(m, s)
                                        /\ \A j \in 1..(d + 1) : WritesTo(j, s) => j <= m
                                        /\ sectors'[s] = Requests[m].data
    <2>1. CASE s = t
      <3>1. \A j \in 1..(d + 1) : j <= d + 1
        OBVIOUS
      <3>2. sectors'[s] = Requests[d + 1].data
        BY <2>1 DEF Holds
      <3>3. d + 1 \in 1..(d + 1)
        OBVIOUS
      <3> QED
        BY <2>1, <3>1, <3>2, <3>3
    <2>2. CASE s # t
      <3>1. ~WritesTo(d + 1, s)
        <4>1. max_sector \in Nat
          BY RequestsAssumption
        <4> QED
          BY <2>2, <4>1 DEF WritesTo
      <3>2. sectors'[s] = sectors[s]
        BY <2>2 DEF Holds
      <3> QED
        BY <1>1, <3>1, <3>2 DEF Holds
    <2> QED
      BY <2>1, <2>2
  <1>3. DOMAIN sectors' = 0..(max_sector - 1)
    BY DEF Holds
  <1> QED
    BY <1>2, <1>3 DEF Holds, WritesTo

-----------------------------------------------------------------------------
(* The steps of the process *)

\* A response with the status and the data of a disc's answer completes request i with it.
LEMMA ResponseAnswers ==
    ASSUME NEW i, NEW b, NEW status \in {0, 1, 2}, NEW data,
           IsResponse(b, status, Requests[i].dir, data),
           DiscAnswer(i) = [status |-> IF status = 0 THEN "ok" ELSE "error",
                            data |-> IF status = 0 /\ Requests[i].dir = READ THEN data ELSE <<>>]
    PROVE  AnswersRequest(b, i)
  <1>1. StatusCode.Ok = 0
    BY DEF StatusCode
  <1>2. b[7] = status
    BY DEF IsResponse
  <1>3. (status = 0 /\ Requests[i].dir = READ) => Slice(b, 16, SECTOR_SIZE) = data
    BY <1>1 DEF IsResponse
  <1>4. /\ Len(b) \in Nat /\ Len(b) >= MIN_RESPONSE_SIZE /\ Len(b) = ResponseSize(b)
        /\ SubSeq(b, 1, 4) = MAGIC_NUMBER
        /\ Verified(hmac_client_key, b, Len(b) - HMAC_TAG_SIZE)
    BY DEF IsResponse
  <1>5. DiscAnswer(i) =
          [status |-> IF b[7] = StatusCode.Ok THEN "ok" ELSE "error",
           data |-> IF b[7] = StatusCode.Ok /\ Requests[i].dir = READ
                    THEN Slice(b, 16, SECTOR_SIZE) ELSE <<>>]
    BY <1>1, <1>2, <1>3
  <1> QED
    BY <1>4, <1>5 DEF AnswersRequest

\* A response is the only thing in the stream to the driver.
LEMMA RespondToDriver ==
    ASSUME Streams, outbuf[Driver] = <<>>, NEW status \in {0, 1, 2}, NEW type \in {READ, WRITE},
           NEW id \in Int, NEW data \in Seq(Byte),
           Len(data) = IF status = 0 /\ type = READ THEN SECTOR_VEC_SIZE ELSE 0,
           Respond(Driver, status, type, id, data)
    PROVE  IsResponse(outbuf'[Driver], status, type, data) /\ DOMAIN outbuf' = Conn
  <1>1. PICK b : b = Signed(hmac_client_key, serialize_response(status, type, id, data))
    OBVIOUS
  <1>2. IsResponse(b, status, type, data)
    BY <1>1, ResponseFrame
  <1>3. <<>> \o b = b
    BY <1>2, ConcatEmptySeq DEF IsResponse
  <1>4. outbuf' = [outbuf EXCEPT ![Driver] = <<>> \o b]
    BY <1>1 DEF Respond
  <1>5. Driver \in DOMAIN outbuf /\ DOMAIN outbuf = Conn
    BY DriverAssumption DEF Streams
  <1> QED
    BY <1>2, <1>3, <1>4, <1>5

\* The same for a response without a sector.
LEMMA RespondEmpty ==
    ASSUME Streams, outbuf[Driver] = <<>>, NEW status \in {0, 1, 2}, NEW type \in {READ, WRITE},
           ~(status = 0 /\ type = READ), NEW id \in Int, Respond(Driver, status, type, id, <<>>)
    PROVE  IsResponse(outbuf'[Driver], status, type, <<>>) /\ DOMAIN outbuf' = Conn
  <1>1. PICK e : e = <<>>
    OBVIOUS
  <1>2. e \in Seq(Byte) /\ Len(e) = 0
    BY <1>1
  <1>3. Respond(Driver, status, type, id, e)
    BY <1>1
  <1>4. Len(e) = IF status = 0 /\ type = READ THEN SECTOR_VEC_SIZE ELSE 0
    BY <1>2
  <1>5. IsResponse(outbuf'[Driver], status, type, e) /\ DOMAIN outbuf' = Conn
    BY <1>2, <1>3, <1>4, RespondToDriver
  <1> QED
    BY <1>1, <1>5

\* Steps that leave the driver's connection, its commands and the sectors alone.
LEMMA OtherStep ==
    ASSUME NEW d, Pipeline(d), pending' = pending, Mine' = Mine, sectors' = sectors,
           wire'[Driver] = wire[Driver], inbuf'[Driver] = inbuf[Driver],
           outbuf'[Driver] = outbuf[Driver]
    PROVE  Pipeline(d)'
  <1>1. (Holds(d)' <=> Holds(d)) /\ (Holds(d + 1)' <=> Holds(d + 1))
    BY DEF Holds
  <1>2. (NotInTransit' <=> NotInTransit) /\ \A b : InTransit(b)' <=> InTransit(b)
    BY DEF NotInTransit, InTransit
  <1>3. Unsent(d) => Unsent(d)'
    BY <1>1, <1>2 DEF Unsent
  <1>4. Sent(d) => Sent(d)'
    BY <1>1, <1>2 DEF Sent
  <1>5. Executing(d) => Executing(d)'
    BY <1>1, <1>2 DEF Executing
  <1>6. Answered(d) => Answered(d)'
    BY <1>1, <1>2 DEF Answered
  <1> QED
    BY <1>3, <1>4, <1>5, <1>6 DEF Pipeline

\* A segment arrives: the pieces of a command are put together again.
LEMMA ArriveStep ==
    ASSUME NEW d, Streams, d + 1 \in DOMAIN Requests \/ pending = 0, Pipeline(d), NEW c \in Conn,
           Arrive(c), pending' = pending
    PROVE  Streams' /\ Pipeline(d)'
  <1>1. /\ inbuf' = [inbuf EXCEPT ![c] = @ \o Head(wire[c])]
        /\ wire' = [wire EXCEPT ![c] = Tail(@)]
        /\ wire[c] # <<>>
        /\ UNCHANGED <<running, outbuf, sectors>>
    BY DEF Arrive
  <1>2. Streams' /\ Mine' = Mine
    BY <1>1 DEF Streams, Mine
  <1>3. CASE c # Driver
    <2>1. wire'[Driver] = wire[Driver] /\ inbuf'[Driver] = inbuf[Driver]
      BY <1>1, <1>3, DriverAssumption DEF Streams
    <2> QED
      BY <1>1, <1>2, <2>1, OtherStep
  <1>4. CASE c = Driver
    <2>1. Sent(d)
      BY <1>1, <1>4 DEF Pipeline, Unsent, Executing, Answered, NotInTransit
    <2>2. PICK b : IsCommand(b, Requests[d + 1]) /\ InTransit(b)
      BY <2>1 DEF Sent
    <2>3. d + 1 \in DOMAIN Requests
      BY <2>1 DEF Sent
    <2>4. b \in Seq(Byte) /\ Len(b) \in Nat /\ Len(b) >= 56
      BY <2>2, <2>3, RequestsAre, CommandLength
    <2>5. /\ wire'[Driver] = Tail(wire[Driver])
          /\ inbuf'[Driver] = inbuf[Driver] \o Head(wire[Driver])
      BY <1>1, <1>4, DriverAssumption DEF Streams
    <2>6. InTransit(b)'
      <3>1. CASE wire[Driver] = <<b>> /\ inbuf[Driver] = <<>>
        <4>1. <<>> \o b = b
          BY <2>4, ConcatEmptySeq
        <4>2. Tail(<<b>>) = <<>> /\ Head(<<b>>) = b
          OBVIOUS
        <4> QED
          BY <2>5, <3>1, <4>1, <4>2 DEF InTransit
      <3>2. ASSUME NEW k \in Cuts,
                   wire[Driver] = <<SubSeq(b, 1, k), SubSeq(b, k + 1, Len(b))>>,
                   inbuf[Driver] = <<>>
            PROVE  InTransit(b)'
        <4>1. PICK s1, s2 : s1 = SubSeq(b, 1, k) /\ s2 = SubSeq(b, k + 1, Len(b))
          OBVIOUS
        <4>2. Tail(<<s1, s2>>) = <<s2>> /\ Head(<<s1, s2>>) = s1
          OBVIOUS
        <4>3. <<>> \o s1 = s1
          <5>1. k \in 1..55
            BY DriverAssumption
          <5>2. \A i \in 1..k : b[i] \in Byte
            BY <2>4, <5>1, ElementOfSeq
          <5>3. s1 \in Seq(Byte)
            BY <4>1, <5>1, <5>2, SubSeqProperties
          <5> QED
            BY <5>3, ConcatEmptySeq
        <4>4. wire'[Driver] = <<s2>> /\ inbuf'[Driver] = s1
          BY <2>5, <3>2, <4>1, <4>2, <4>3
        <4> QED
          BY <4>1, <4>4 DEF InTransit
      <3>3. ASSUME NEW k \in Cuts,
                   wire[Driver] = <<SubSeq(b, k + 1, Len(b))>>, inbuf[Driver] = SubSeq(b, 1, k)
            PROVE  InTransit(b)'
        <4>1. PICK s1, s2 : s1 = SubSeq(b, 1, k) /\ s2 = SubSeq(b, k + 1, Len(b))
          OBVIOUS
        <4>2. k \in 1..Len(b)
          BY <2>4, DriverAssumption
        <4>3. s1 \o s2 = b
          BY <2>4, <4>1, <4>2, JoinSplit
        <4>4. Tail(<<s2>>) = <<>> /\ Head(<<s2>>) = s2
          OBVIOUS
        <4>5. wire'[Driver] = <<>> /\ inbuf'[Driver] = b
          BY <2>5, <3>3, <4>1, <4>3, <4>4
        <4> QED
          BY <4>5 DEF InTransit
      <3> QED
        BY <1>1, <1>4, <2>2, <3>1, <3>2, <3>3 DEF InTransit
    <2>7. Sent(d)'
      <3>1. Holds(d)'
        BY <1>1, <2>1 DEF Sent, Holds
      <3> QED
        BY <1>1, <1>2, <2>1, <2>2, <2>6, <3>1 DEF Sent
    <2> QED
      BY <1>2, <2>7 DEF Pipeline
  <1> QED
    BY <1>3, <1>4

\* A request of another connection leaves the driver's alone.
LEMMA OtherRequest ==
    ASSUME Streams, NEW c \in Conn \ {Driver}, HandleRequest(c)
    PROVE  /\ Streams' /\ Mine' = Mine
           /\ inbuf'[Driver] = inbuf[Driver] /\ outbuf'[Driver] = outbuf[Driver]
           /\ UNCHANGED <<wire, sectors>>
  <1>1. PICK rq : ShortHeader(c, rq) \/ UnknownType(c, rq) \/ HandleMessage(c, rq)
    BY DEF HandleRequest
  <1>2. PICK n : Consume(c, rq, n)
    BY <1>1 DEF ShortHeader, UnknownType, HandleMessage
  <1>3. UNCHANGED <<wire, sectors>>
    BY <1>1 DEF ShortHeader, UnknownType, HandleMessage
  <1>4. \/ UNCHANGED <<running, outbuf>>
        \/ \E cmd, v : RejectClient(c, cmd, v)
        \/ \E cmd, v : ExecuteClient(c, cmd, v)
    BY <1>1 DEF ShortHeader, UnknownType, HandleMessage, ExecuteSystem
  <1>5. Mine' = Mine /\ outbuf'[Driver] = outbuf[Driver] /\ DOMAIN outbuf' = Conn
    <2>1. CASE UNCHANGED <<running, outbuf>>
      BY <2>1 DEF Mine, Streams
    <2>2. ASSUME NEW cmd, NEW v, RejectClient(c, cmd, v)
          PROVE  Mine' = Mine /\ outbuf'[Driver] = outbuf[Driver] /\ DOMAIN outbuf' = Conn
      BY <2>2, DriverAssumption DEF RejectClient, Respond, Mine, Streams
    <2>3. ASSUME NEW cmd, NEW v, ExecuteClient(c, cmd, v)
          PROVE  Mine' = Mine /\ outbuf'[Driver] = outbuf[Driver] /\ DOMAIN outbuf' = Conn
      <3>1. running' = running \cup {[conn |-> c, cmd |-> cmd]} /\ outbuf' = outbuf
        BY <2>3 DEF ExecuteClient
      <3>2. [conn |-> c, cmd |-> cmd].conn # Driver
        OBVIOUS
      <3> QED
        BY <3>1, <3>2 DEF Mine, Streams
    <2> QED
      BY <1>4, <2>1, <2>2, <2>3
  <1>6. inbuf'[Driver] = inbuf[Driver] /\ DOMAIN inbuf' = Conn
    BY <1>2, DriverAssumption DEF Consume, Streams
  <1> QED
    BY <1>3, <1>5, <1>6 DEF Streams

\* The process takes the driver's command when it is all there, and executes it or rejects
\* it for its sector.
LEMMA DriverRequest ==
    ASSUME NoHeaderCut, NEW d \in Nat, Streams, d + 1 \in DOMAIN Requests \/ pending = 0,
           Pipeline(d), HandleRequest(Driver), pending' = pending
    PROVE  Streams' /\ Pipeline(d)'
  <1>1. inbuf[Driver] # <<>>
    BY NothingToRead
  <1>2. Sent(d)
    BY <1>1 DEF Pipeline, Unsent, Executing, Answered, NotInTransit
  <1>3. PICK b : IsCommand(b, Requests[d + 1]) /\ InTransit(b)
    BY <1>2 DEF Sent
  <1>4. d + 1 \in DOMAIN Requests
    BY <1>2 DEF Sent
  <1>5. PICK rq : rq = Requests[d + 1] /\ IsRequest(rq)
    BY <1>4, RequestsAre
  <1>6. wire[Driver] = <<>> /\ inbuf[Driver] = b
    <2>1. ASSUME NEW k \in Cuts, inbuf[Driver] = SubSeq(b, 1, k) PROVE FALSE
      <3>1. k \in (1..55) \ (5..7)
        BY DriverAssumption DEF NoHeaderCut
      <3> QED
        BY <1>3, <1>5, <2>1, <3>1, PartIsLeft
    <2> QED
      BY <1>1, <1>3, <2>1 DEF InTransit
  <1>7. /\ \E id \in Int :
             \E cmd \in {ClientCommand(rq.dir, id, rq.pos \div 8, rq.data)} :
                RejectClient(Driver, cmd, TRUE) \/ ExecuteClient(Driver, cmd, TRUE)
        /\ inbuf' = [inbuf EXCEPT ![Driver] = <<>>]
        /\ UNCHANGED <<listening, conn, wire, sectors>>
    <2>1. Handled(Driver, rq)
      BY <1>3, <1>5, <1>6, WholeIsHandled
    <2> QED
      BY <2>1 DEF Handled
  <1>8. PICK id \in Int : \E cmd \in {ClientCommand(rq.dir, id, rq.pos \div 8, rq.data)} :
          RejectClient(Driver, cmd, TRUE) \/ ExecuteClient(Driver, cmd, TRUE)
    BY <1>7
  <1>9. PICK cmd : /\ cmd = CommandOf(d + 1, id)
                   /\ RejectClient(Driver, cmd, TRUE) \/ ExecuteClient(Driver, cmd, TRUE)
    BY <1>5, <1>8 DEF CommandOf
  <1>10. /\ cmd.type = rq.dir /\ cmd.request_identifier = id /\ cmd.sector_idx = rq.pos \div 8
         /\ rq.dir \in {READ, WRITE} /\ rq.pos \div 8 \in Nat /\ rq.pos = 8 * (rq.pos \div 8)
    BY <1>5, <1>9 DEF CommandOf, ClientCommand, IsRequest
  <1>11. NotInTransit' /\ DOMAIN wire' = Conn /\ DOMAIN inbuf' = Conn
    BY <1>6, <1>7, DriverAssumption DEF NotInTransit, Streams
  <1>12. pending' = 1 /\ Mine = {} /\ outbuf[Driver] = <<>> /\ Holds(d)
    BY <1>2 DEF Sent
  <1>13. Holds(d)' /\ (Holds(d + 1) => Holds(d + 1)')
    BY <1>7, <1>12 DEF Holds
  <1>14. max_sector \in Nat
    BY RequestsAssumption
  <1>15. CASE RejectClient(Driver, cmd, TRUE)
    <2>1. rq.pos \div 8 >= max_sector
      BY <1>10, <1>15 DEF RejectClient
    <2>2. Respond(Driver, 2, rq.dir, id, <<>>)
      BY <1>10, <1>15 DEF RejectClient, StatusCode
    <2>3. PICK st \in {0, 1, 2} : st = 2
      OBVIOUS
    <2>4. IsResponse(outbuf'[Driver], st, rq.dir, <<>>) /\ DOMAIN outbuf' = Conn
      BY <1>10, <1>12, <2>2, <2>3, RespondEmpty
    <2>5. DiscAnswer(d + 1) = [status |-> "error", data |-> <<>>]
      BY <1>5, <2>1 DEF DiscAnswer
    <2>6. AnswersRequest(outbuf'[Driver], d + 1)
      BY <1>5, <2>3, <2>4, <2>5, ResponseAnswers
    <2>7. \A s \in 0..(max_sector - 1) : ~WritesTo(d + 1, s)
      BY <1>5, <1>10, <1>14, <2>1 DEF WritesTo
    <2>8. Holds(d + 1)'
      BY <1>12, <1>13, <2>7, HoldsWithout
    <2>9. Mine' = {}
      BY <1>12, <1>15 DEF RejectClient, Mine
    <2>10. Answered(d)'
      BY <1>11, <1>12, <2>6, <2>8, <2>9 DEF Answered, AnswersRequest
    <2> QED
      BY <1>11, <2>4, <2>10 DEF Streams, Pipeline
  <1>16. CASE ExecuteClient(Driver, cmd, TRUE)
    <2>1. rq.pos \div 8 < max_sector
      BY <1>10, <1>16 DEF ExecuteClient
    <2>2. running' = running \cup {[conn |-> Driver, cmd |-> cmd]} /\ outbuf' = outbuf
      BY <1>16 DEF ExecuteClient
    <2>3. Mine' = {[conn |-> Driver, cmd |-> cmd]}
      <3>1. [conn |-> Driver, cmd |-> cmd].conn = Driver
        OBVIOUS
      <3> QED
        BY <1>12, <2>2, <3>1 DEF Mine
    <2>4. Executing(d)'
      BY <1>5, <1>9, <1>11, <1>12, <1>13, <2>1, <2>2, <2>3 DEF Executing
    <2> QED
      BY <1>11, <2>2, <2>4 DEF Streams, Pipeline
  <1> QED
    BY <1>9, <1>15, <1>16

\* The registers complete the driver's command: it takes effect, and the response says what
\* a disc would answer.
LEMMA DriverComplete ==
    ASSUME NEW d \in Nat, Streams, d + 1 \in DOMAIN Requests \/ pending = 0,
           Pipeline(d), NEW r \in running, r.conn = Driver, CompleteClient(r), pending' = pending
    PROVE  Streams' /\ Pipeline(d)'
  <1>1. r \in Mine
    BY DEF Mine
  <1>2. Executing(d)
    BY <1>1 DEF Pipeline, Unsent, Sent, Answered
  <1>3. PICK id \in Int : Mine = {[conn |-> Driver, cmd |-> CommandOf(d + 1, id)]}
    BY <1>2 DEF Executing
  <1>4. r = [conn |-> Driver, cmd |-> CommandOf(d + 1, id)]
    BY <1>1, <1>3
  <1>5. d + 1 \in DOMAIN Requests
    BY <1>2 DEF Executing
  <1>6. PICK rq, s : rq = Requests[d + 1] /\ IsRequest(rq) /\ s = rq.pos \div 8
    BY <1>5, RequestsAre
  <1>7. /\ r.conn = Driver /\ r.cmd.type = rq.dir /\ r.cmd.request_identifier = id
        /\ r.cmd.sector_idx = s /\ r.cmd.data = rq.data
    BY <1>4, <1>6 DEF CommandOf, ClientCommand
  <1>8. /\ rq.dir \in {READ, WRITE} /\ s \in Nat /\ rq.pos = 8 * s
        /\ pending = 1 /\ NotInTransit /\ outbuf[Driver] = <<>> /\ Holds(d) /\ s < max_sector
    BY <1>2, <1>6 DEF IsRequest, Executing
  <1>9. s \in 0..(max_sector - 1) /\ max_sector \in Nat /\ ~(s >= max_sector)
    BY <1>8, RequestsAssumption
  <1>10. UNCHANGED <<wire, inbuf>> /\ running' = running \ {r}
    BY DEF CompleteClient
  <1>11. NotInTransit' /\ Mine' = {}
    BY <1>3, <1>4, <1>8, <1>10 DEF NotInTransit, Mine
  <1>12. CASE rq.dir = WRITE
    <2>1. /\ sectors' = [sectors EXCEPT ![s] = rq.data]
          /\ Respond(Driver, 0, WRITE, id, <<>>)
      BY <1>7, <1>12 DEF CompleteClient, StatusCode
    <2>2. WRITE # READ
      BY DEF WRITE, READ
    <2>3. IsResponse(outbuf'[Driver], 0, WRITE, <<>>) /\ DOMAIN outbuf' = Conn
      BY <1>8, <2>1, <2>2, RespondEmpty
    <2>4. DiscAnswer(d + 1) = [status |-> "ok", data |-> <<>>]
      BY <1>6, <1>9, <1>12, <2>2 DEF DiscAnswer
    <2>5. AnswersRequest(outbuf'[Driver], d + 1)
      BY <1>6, <1>12, <2>2, <2>3, <2>4, ResponseAnswers
    <2>6. WritesTo(d + 1, s)
      BY <1>6, <1>8, <1>12 DEF WritesTo
    <2>7. Holds(d + 1)'
      BY <1>6, <1>8, <1>9, <2>1, <2>6, HoldsWritten
    <2>8. Answered(d)'
      BY <1>8, <1>11, <2>5, <2>7 DEF Answered, AnswersRequest
    <2> QED
      BY <1>10, <2>3, <2>8 DEF Streams, Pipeline
  <1>13. CASE rq.dir = READ
    <2>1. PICK v : v = sectors[s]
      OBVIOUS
    <2>2. sectors' = sectors /\ Respond(Driver, 0, READ, id, v)
      <3>1. READ # WRITE
        BY DEF READ, WRITE
      <3> QED
        BY <1>7, <1>13, <2>1, <3>1 DEF CompleteClient, StatusCode
    <2>3. v \in Seq(Byte) /\ Len(v) = SECTOR_VEC_SIZE
      <3>1. d <= Len(Requests)
        BY <1>5, RequestNumbers
      <3> QED
        BY <1>8, <1>9, <2>1, <3>1, SectorBytes
    <2>4. IsResponse(outbuf'[Driver], 0, READ, v) /\ DOMAIN outbuf' = Conn
      BY <1>8, <2>2, <2>3, RespondToDriver
    <2>5. LastWrite(d + 1) = v
      BY <1>5, <1>6, <1>8, <1>9, <2>1, SectorIsLastWrite
    <2>6. DiscAnswer(d + 1) = [status |-> "ok", data |-> v]
      BY <1>6, <1>9, <1>13, <2>5 DEF DiscAnswer
    <2>7. AnswersRequest(outbuf'[Driver], d + 1)
      BY <1>6, <1>13, <2>4, <2>6, ResponseAnswers
    <2>8. \A t \in 0..(max_sector - 1) : ~WritesTo(d + 1, t)
      BY <1>6, <1>13 DEF WritesTo, READ, WRITE
    <2>9. Holds(d + 1)'
      <3>1. Holds(d + 1)
        BY <1>8, <2>8, HoldsWithout
      <3> QED
        BY <2>2, <3>1 DEF Holds
    <2>10. Answered(d)'
      BY <1>8, <1>11, <2>7, <2>9 DEF Answered, AnswersRequest
    <2> QED
      BY <1>10, <2>4, <2>10 DEF Streams, Pipeline
  <1> QED
    BY <1>8, <1>12, <1>13

\* The registers complete a command of another client, which is not a write.
LEMMA OtherComplete ==
    ASSUME NEW d, Streams, Pipeline(d), OnlyDriverWrites, NEW r \in running, r.conn # Driver,
           CompleteClient(r), pending' = pending
    PROVE  Streams' /\ Pipeline(d)'
  <1>1. r.cmd.type # WRITE
    BY DEF OnlyDriverWrites
  <1>2. UNCHANGED <<wire, inbuf, sectors>> /\ running' = running \ {r}
    BY <1>1 DEF CompleteClient
  <1>3. Mine' = Mine
    BY <1>2 DEF Mine
  <1>4. outbuf'[Driver] = outbuf[Driver] /\ DOMAIN outbuf' = Conn
    BY <1>1, DriverAssumption DEF CompleteClient, Respond, Streams
  <1>5. Pipeline(d)'
    BY <1>2, <1>3, <1>4, OtherStep
  <1> QED
    BY <1>2, <1>4, <1>5 DEF Streams

-----------------------------------------------------------------------------
(* The theorems *)

\* At first nothing is submitted.
LEMMA DeviceStart ==
    ASSUME Init
    PROVE  DeviceInv
  <1>1. /\ DOMAIN wire = Conn /\ wire[Driver] = <<>>
        /\ DOMAIN inbuf = Conn /\ inbuf[Driver] = <<>>
        /\ DOMAIN outbuf = Conn /\ outbuf[Driver] = <<>>
        /\ running = {}
        /\ sectors = [s \in 0..(max_sector - 1) |-> Zeros(SECTOR_VEC_SIZE)]
    BY DriverAssumption DEF Init, RequestsInit
  <1>2. /\ requests_buf = [pos \in 0..(RingSize - 1) |-> 0]
        /\ submitting = 0 /\ submitted = 0 /\ pending = 0 /\ request_ident_counter = 0
        /\ buf_accepted_pos = 0 /\ buf_tcp_forwarded_pos = 0 /\ buf_completed_pos = 0
        /\ finished = [i \in DOMAIN Requests |-> Unfinished]
    BY DEF Init
  <1>3. Accepted = 0 /\ 0 - 0 = 0 /\ 0 + 0 <= 0
    BY <1>2 DEF Accepted
  <1>4. 0 \in 0..(RingSize - 1) /\ 0 <= QueueDepth /\ 0 <= Len(Requests)
    BY RingIs, RequestNumbers
  <1>5. At(0, 0) = 0
    BY <1>4, AtZero
  <1>6. 0..(0 - 0 - 1) = {} /\ \A i \in DOMAIN Requests : ~(i <= 0)
    BY RequestNumbers
  <1>7. requests_buf \in [0..(RingSize - 1) -> Nat]
    BY <1>2
  <1>8. finished = [i \in DOMAIN Requests |-> IF i <= 0 THEN DiscAnswer(i) ELSE Unfinished]
    BY <1>2, <1>6
  <1>9. Ring(0)
    BY <1>2, <1>3, <1>4, <1>5, <1>6, <1>7, <1>8 DEF Ring
  <1>10. Holds(0)
    <2>1. 1..0 = {}
      OBVIOUS
    <2> QED
      BY <1>1, <2>1 DEF Holds, SECTOR_SIZE
  <1>11. Unsent(0)
    BY <1>1, <1>2, <1>10 DEF Unsent, NotInTransit, Mine
  <1> QED
    BY <1>1, <1>9, <1>11 DEF DeviceInv, Streams, Pipeline

\* The invariant is kept by the process.
LEMMA ProcessStep ==
    ASSUME NoHeaderCut, OnlyDriverWrites, NEW d, Streams, Ring(d), Pipeline(d),
           RequestsNext, UNCHANGED driverVars
    PROVE  Streams' /\ Ring(d)' /\ Pipeline(d)'
  <1>1. Ring(d)' /\ pending' = pending
    <2>1. UNCHANGED <<requests_buf, submitting, buf_accepted_pos, buf_tcp_forwarded_pos,
                      buf_completed_pos, request_ident_counter, pending, submitted, finished>>
      BY DEF driverVars
    <2> QED
      BY <2>1, SameRing
  <1>2. d \in Nat /\ (d + 1 \in DOMAIN Requests \/ pending = 0)
    <2>1. /\ d \in Nat /\ pending \in {0, 1} /\ submitted \in Nat
          /\ pending = 1 => d < submitted
      BY PendingIsAccepted DEF Ring
    <2> QED
      BY <2>1, FirstInRing
  <1>3. CASE Bind \/ \E c \in Conn : Accept(c)
    <2>1. UNCHANGED <<wire, inbuf, running, outbuf, sectors>>
      BY <1>3 DEF Bind, Accept
    <2>2. Mine' = Mine /\ Streams'
      BY <2>1 DEF Mine, Streams
    <2> QED
      BY <1>1, <2>1, <2>2, OtherStep
  <1>4. ASSUME NEW c \in Conn, Arrive(c) PROVE Streams' /\ Pipeline(d)'
    BY <1>1, <1>2, <1>4, ArriveStep
  <1>5. ASSUME NEW c \in Conn, HandleRequest(c) PROVE Streams' /\ Pipeline(d)'
    <2>1. CASE c = Driver
      BY <1>1, <1>2, <1>5, <2>1, DriverRequest
    <2>2. CASE c # Driver
      <3>1. /\ Streams' /\ Mine' = Mine
            /\ inbuf'[Driver] = inbuf[Driver] /\ outbuf'[Driver] = outbuf[Driver]
            /\ wire' = wire /\ sectors' = sectors
        BY <1>5, <2>2, OtherRequest
      <3> QED
        BY <1>1, <3>1, OtherStep
    <2> QED
      BY <2>1, <2>2
  <1>6. ASSUME NEW r \in running, CompleteClient(r) PROVE Streams' /\ Pipeline(d)'
    <2>1. CASE r.conn = Driver
      BY <1>1, <1>2, <1>6, <2>1, DriverComplete
    <2>2. CASE r.conn # Driver
      BY <1>1, <1>6, <2>2, OtherComplete
    <2> QED
      BY <2>1, <2>2
  <1> QED
    BY <1>1, <1>3, <1>4, <1>5, <1>6 DEF RequestsNext

\* The invariant is kept by every step.
LEMMA DeviceStep ==
    ASSUME NoHeaderCut, OnlyDriverWrites, DeviceInv, [Next]_vars
    PROVE  DeviceInv'
  <1>1. PICK d \in Nat : Ring(d) /\ Pipeline(d)
    BY DEF DeviceInv
  <1>2. Streams
    BY DEF DeviceInv
  <1>3. SUFFICES \E e \in Nat : Streams' /\ Ring(e)' /\ Pipeline(e)'
    BY DEF DeviceInv
  <1>4. ASSUME UNCHANGED <<requestVars, pending>>, Ring(d)'
        PROVE  Streams' /\ Ring(d)' /\ Pipeline(d)'
    BY <1>1, <1>2, <1>4, SamePipeline DEF Streams, requestVars
  <1>5. CASE SubmitSlot
    BY <1>1, <1>4, <1>5, SubmitSlotStep DEF SubmitSlot
  <1>6. CASE SubmitPosition
    BY <1>1, <1>4, <1>6, SubmitPositionStep DEF SubmitPosition
  <1>7. CASE Wake \/ FetchNone \/ SendNone
    <2>1. UNCHANGED <<requests_buf, submitting, buf_accepted_pos, buf_tcp_forwarded_pos,
                      buf_completed_pos, request_ident_counter, pending, submitted, finished>>
      BY <1>7 DEF Wake, FetchNone, SendNone
    <2>2. UNCHANGED <<requestVars, pending>>
      BY <1>7 DEF Wake, FetchNone, SendNone
    <2> QED
      BY <1>1, <1>4, <2>1, <2>2, SameRing
  <1>8. CASE Fetch
    <2>1. Streams' /\ Ring(d + 1)' /\ Pipeline(d + 1)'
      BY <1>1, <1>2, <1>8, FetchStep
    <2>2. d + 1 \in Nat
      OBVIOUS
    <2> QED
      BY <2>1, <2>2
  <1>9. CASE SendError
    BY <1>1, <1>4, <1>9, SendErrorStep DEF SendError
  <1>10. CASE Send
    BY <1>1, <1>2, <1>10, SendStep
  <1>11. CASE PeerConnect
    <2>1. UNCHANGED <<wire, inbuf, running, outbuf, sectors, driverVars>>
      BY <1>11 DEF PeerConnect
    <2>2. UNCHANGED <<requests_buf, submitting, buf_accepted_pos, buf_tcp_forwarded_pos,
                      buf_completed_pos, request_ident_counter, pending, submitted, finished>>
      BY <2>1 DEF driverVars
    <2>3. Ring(d)'
      BY <1>1, <2>2, SameRing
    <2>4. Mine' = Mine /\ Streams'
      BY <1>2, <2>1 DEF Mine, Streams
    <2>5. Pipeline(d)'
      BY <1>1, <2>1, <2>2, <2>4, OtherStep
    <2> QED
      BY <2>3, <2>4, <2>5
  <1>12. CASE RequestsNext /\ UNCHANGED driverVars
    BY <1>1, <1>2, <1>12, ProcessStep
  <1>13. CASE UNCHANGED vars
    <2>1. UNCHANGED <<requests_buf, submitting, buf_accepted_pos, buf_tcp_forwarded_pos,
                      buf_completed_pos, request_ident_counter, pending, submitted, finished>>
      BY <1>13 DEF vars, driverVars
    <2>2. UNCHANGED <<requestVars, pending>>
      BY <1>13, <2>1 DEF vars
    <2> QED
      BY <1>1, <1>4, <2>1, <2>2, SameRing
  <1> QED
    BY <1>5, <1>6, <1>7, <1>8, <1>9, <1>10, <1>11, <1>12, <1>13 DEF Next, Relay

\* What the invariant says of the two BUG_ON.
LEMMA InvNoBugOn ==
    ASSUME DeviceInv
    PROVE  NoBugOn
  <1>1. PICK d \in Nat : Ring(d) /\ Pipeline(d)
    BY DEF DeviceInv
  <1>2. atdd_cmds_to_send <= 1
    <2>1. atdd_cmds_to_send = IF pending = 0 /\ d < Accepted THEN 1 ELSE 0
      BY <1>1, CommandsToSend
    <2> QED
      BY <2>1
  <1>3. ASSUME pending > 0, Len(outbuf[Driver]) >= MIN_RESPONSE_SIZE
        PROVE  SubSeq(outbuf[Driver], 1, 4) = MAGIC_NUMBER
    <2>1. outbuf[Driver] # <<>>
      BY <1>3 DEF MIN_RESPONSE_SIZE, HMAC_TAG_SIZE
    <2>2. Answered(d)
      BY <1>1, <2>1 DEF Pipeline, Unsent, Sent, Executing
    <2> QED
      BY <2>2 DEF Answered, AnswersRequest
  <1> QED
    BY <1>2, <1>3 DEF NoBugOn

\* What it says of the completed requests.
LEMMA InvDeviceIsDisc ==
    ASSUME DeviceInv
    PROVE  DeviceIsDisc
  <1>1. PICK d \in Nat : Ring(d)
    BY DEF DeviceInv
  <1>2. finished = [i \in DOMAIN Requests |-> IF i <= d THEN DiscAnswer(i) ELSE Unfinished]
    BY <1>1 DEF Ring
  <1> QED
    BY <1>2 DEF DeviceIsDisc

\* Neither BUG_ON of atdd_main and atdd_fetch_command fires: at no time is more than one
\* command to be sent, whatever the positions of the ring have wrapped to, and what the
\* relay thread parses starts with the magic number.
THEOREM RelayHasNoBug ==
    ASSUME NoHeaderCut
    PROVE  Spec /\ []OnlyDriverWrites => []NoBugOn
  <1>1. Init => DeviceInv
    BY DeviceStart
  <1>2. DeviceInv /\ OnlyDriverWrites /\ [Next]_vars => DeviceInv'
    BY DeviceStep
  <1>3. DeviceInv => NoBugOn
    BY InvNoBugOn
  <1> QED
    BY <1>1, <1>2, <1>3, PTL DEF Spec

\* The block device is a disc, for every sequence of requests, size of the ring, depth of
\* the queue and way of cutting commands outside their header: every request that
\* atdd_fetch_command completes is completed with what a disc would answer to it.
THEOREM BlockDeviceIsDisc ==
    ASSUME NoHeaderCut
    PROVE  Spec /\ []OnlyDriverWrites => []DeviceIsDisc
  <1>1. Init => DeviceInv
    BY DeviceStart
  <1>2. DeviceInv /\ OnlyDriverWrites /\ [Next]_vars => DeviceInv'
    BY DeviceStep
  <1>3. DeviceInv => DeviceIsDisc
    BY InvDeviceIsDisc
  <1> QED
    BY <1>1, <1>2, <1>3, PTL DEF Spec

-----------------------------------------------------------------------------
(* Commands of the other processes *)

\* The bytes x are in u, behind the first m.
Field(u, m, x) ==
    /\ u \in Seq(Byte) /\ x \in Seq(Byte) /\ m \in Nat /\ m + Len(x) <= Len(u)
    /\ \A i \in 1..Len(x) : u[m + i] = x[i]

\* The parts of a concatenation.
LEMMA FieldJoin ==
    ASSUME NEW s \in Seq(Byte), NEW t \in Seq(Byte)
    PROVE  /\ s \o t \in Seq(Byte) /\ Len(s \o t) = Len(s) + Len(t)
           /\ Field(s \o t, 0, s) /\ Field(s \o t, Len(s), t)
  <1>1. PICK u : u = s \o t
    OBVIOUS
  <1>2. Join(u, s, t)
    BY <1>1, Joined
  <1>3. /\ u \in Seq(Byte) /\ Len(u) = Len(s) + Len(t) /\ Len(s) \in Nat /\ Len(t) \in Nat
        /\ \A i \in 1..Len(s) : u[0 + i] = s[i]
        /\ \A i \in 1..Len(t) : u[Len(s) + i] = t[i]
    BY <1>2 DEF Join
  <1>4. Field(u, 0, s)
    BY <1>3 DEF Field
  <1>5. Field(u, Len(s), t)
    BY <1>3 DEF Field
  <1> QED
    BY <1>1, <1>3, <1>4, <1>5

\* u is a concatenation of x, which has n bytes, and y.
Joins(u, x, n, y) ==
    /\ u \in Seq(Byte) /\ Len(u) = n + Len(y)
    /\ Field(u, 0, x) /\ Field(u, n, y)

\* The same with a name for the length.
LEMMA FieldJoins ==
    ASSUME NEW s \in Seq(Byte), NEW t \in Seq(Byte), NEW n, n = Len(s), NEW u, u = s \o t
    PROVE  Joins(u, s, n, t)
  BY FieldJoin DEF Joins

\* A part of a part.
LEMMA FieldOfField ==
    ASSUME NEW u, NEW v, NEW x, NEW m, NEW k, Field(u, m, v), Field(v, k, x)
    PROVE  Field(u, m + k, x)
  <1>1. /\ u \in Seq(Byte) /\ v \in Seq(Byte) /\ x \in Seq(Byte) /\ m \in Nat /\ k \in Nat
        /\ m + Len(v) <= Len(u) /\ k + Len(x) <= Len(v)
        /\ \A i \in 1..Len(v) : u[m + i] = v[i]
        /\ \A i \in 1..Len(x) : v[k + i] = x[i]
    BY DEF Field
  <1>2. ASSUME NEW i \in 1..Len(x) PROVE u[(m + k) + i] = x[i]
    <2>1. k + i \in 1..Len(v) /\ m + (k + i) = (m + k) + i
      BY <1>1
    <2>2. u[m + (k + i)] = v[k + i]
      BY <1>1, <2>1
    <2> QED
      BY <1>1, <2>1, <2>2
  <1>3. m + k \in Nat /\ (m + k) + Len(x) <= Len(u)
    BY <1>1
  <1> QED
    BY <1>1, <1>2, <1>3 DEF Field

\* A part is the slice at its place.
LEMMA FieldIsSlice ==
    ASSUME NEW u, NEW x, NEW m, NEW n, Field(u, m, x), n = Len(x)
    PROVE  Slice(u, m, n) = x
  <1>1. /\ u \in Seq(Byte) /\ x \in Seq(Byte) /\ m \in Nat /\ n \in Nat /\ m + n <= Len(u)
        /\ \A i \in 1..Len(x) : u[m + i] = x[i]
    BY DEF Field
  <1>2. PICK v : v = SubSeq(u, m + 1, m + n)
    OBVIOUS
  <1>3. Part(v, u, m, n)
    BY <1>1, <1>2, Parts
  <1>4. v \in Seq(Byte) /\ Len(v) = n /\ \A i \in 1..n : v[i] = u[m + i]
    BY <1>3 DEF Part
  <1>5. ASSUME NEW i \in 1..Len(v) PROVE v[i] = x[i]
    BY <1>1, <1>4
  <1>6. v = x
    BY <1>1, <1>4, <1>5, SameBytes
  <1> QED
    BY <1>2, <1>6 DEF Slice

\* The parts of what is left behind the first eight bytes.
LEMMA FieldOfRest ==
    ASSUME NEW u, NEW x, NEW k \in Nat, Field(u, 8 + k, x)
    PROVE  Field(SubSeq(u, 9, Len(u)), k, x)
  <1>1. /\ u \in Seq(Byte) /\ x \in Seq(Byte) /\ (8 + k) + Len(x) <= Len(u)
        /\ \A i \in 1..Len(x) : u[(8 + k) + i] = x[i]
    BY DEF Field
  <1>2. PICK n \in Nat : n = Len(u) - 8 /\ 8 + n = Len(u)
    BY <1>1
  <1>3. PICK v : v = SubSeq(u, 9, Len(u))
    OBVIOUS
  <1>4. v = SubSeq(u, 8 + 1, 8 + n)
    BY <1>2, <1>3
  <1>5. Part(v, u, 8, n)
    BY <1>1, <1>2, <1>4, Parts
  <1>6. v \in Seq(Byte) /\ Len(v) = n /\ \A i \in 1..n : v[i] = u[8 + i]
    BY <1>5 DEF Part
  <1>7. ASSUME NEW i \in 1..Len(x) PROVE v[k + i] = x[i]
    <2>1. k + i \in 1..n /\ 8 + (k + i) = (8 + k) + i
      BY <1>1, <1>2
    <2>2. v[k + i] = u[8 + (k + i)]
      BY <1>6, <2>1
    <2> QED
      BY <1>1, <2>1, <2>2
  <1>8. k + Len(x) <= Len(v)
    BY <1>1, <1>2, <1>6
  <1>9. Field(v, k, x)
    BY <1>1, <1>6, <1>7, <1>8 DEF Field
  <1> QED
    BY <1>3, <1>9

\* A number that ToBeBytes represents.
IsNumber(n) == n \in Nat /\ n \div 65536 < 256

\* The value of a field of eight or sixteen bytes.
LEMMA NumberField ==
    ASSUME NEW n, IsNumber(n), NEW w \in {8, 16}, NEW u, NEW m, Field(u, m, ToBeBytes(n, w))
    PROVE  FromBeBytes(Slice(u, m, w)) = n
  <1>1. n \in Nat /\ n \in Int /\ n \div 65536 < 256
    BY SMT DEF IsNumber
  <1>2. PICK v : v = ToBeBytes(n, w)
    OBVIOUS
  <1>3. v \in Seq(Byte) /\ Len(v) = w
    BY <1>1, <1>2, NumberBytes, SMT
  <1>4. Slice(u, m, w) = v
    BY <1>2, <1>3, FieldIsSlice, SMT
  <1>5. v[w] = n % 256 /\ v[w - 1] = (n \div 256) % 256 /\ v[w - 2] = (n \div 65536) % 256
    BY <1>2, SMT DEF ToBeBytes
  <1>6. FromBeBytes(v) = v[w] + 256 * v[w - 1] + 65536 * v[w - 2]
    BY <1>3, SMT DEF FromBeBytes
  <1>7. FromBeBytes(v) = n
    BY <1>1, <1>5, <1>6, ThreeBytes, SMT
  <1> QED
    BY <1>4, <1>7

\* A system command whose numbers have their representation.
IsSystemCommand(c) ==
    \E type \in {READ_PROC, VALUE, WRITE_PROC, ACK}, p \in Byte, ident \in Nat, rid \in Nat,
       sector \in Nat, ts \in Nat, rank \in Byte, data \in Seq(Byte) :
        /\ IsNumber(ident) /\ IsNumber(rid) /\ IsNumber(sector) /\ IsNumber(ts)
        /\ Len(data) = SECTOR_VEC_SIZE
        /\ c = SystemCommand(type, p, ident, rid, sector,
                             IF HasTag(type) THEN <<ts, rank>> ELSE NoTag,
                             IF HasTag(type) THEN data ELSE <<>>)

\* The process reads a system command in b as c.
ReadsAs(b, key, c) ==
    /\ Len(b) = MsgLen(c.type) + HMAC_TAG_SIZE
    /\ SubSeq(b, 1, 4) = MAGIC_NUMBER
    /\ b[8] = c.type
    /\ Verified(key, b, MsgLen(c.type))
    /\ deserialize_register_command(b) = c

\* What follows the fixed fields of a system command: the tag of the value and the value.
ValueBytes(ts, rank, data) == ToBeBytes(ts, 8) \o Zeros(7) \o <<rank>> \o data

\* Where the tag and the value are.
LEMMA ValueLayout ==
    ASSUME NEW ts \in Nat, NEW rank \in Byte, NEW data \in Seq(Byte),
           NEW x, x = ValueBytes(ts, rank, data)
    PROVE  /\ x \in Seq(Byte) /\ Len(x) = 16 + Len(data)
           /\ Field(x, 0, ToBeBytes(ts, 8)) /\ Field(x, 15, <<rank>>) /\ Field(x, 16, data)
  <1>1. PICK t, z, r : t = ToBeBytes(ts, 8) /\ z = Zeros(7) /\ r = <<rank>>
    OBVIOUS
  <1>2. t \in Seq(Byte) /\ Len(t) = 8
    BY <1>1, EightBytes
  <1>3. z \in Seq(Byte) /\ Len(z) = 7
    <2>1. Zeros(7) \in [1..7 -> Byte]
      BY DEF Zeros, Byte
    <2> QED
      BY <1>1, <2>1, FunctionBytes
  <1>4. r \in Seq(Byte) /\ Len(r) = 1
    BY <1>1
  <1>5. PICK u : u = t \o z
    OBVIOUS
  <1>6. PICK v : v = u \o r
    OBVIOUS
  <1>7. x = v \o data
    BY <1>1, <1>5, <1>6 DEF ValueBytes
  <1>8. u \in Seq(Byte) /\ Len(u) = 15 /\ Field(u, 0, t)
    <2>1. Joins(u, t, 8, z)
      BY <1>2, <1>3, <1>5, FieldJoins
    <2> QED
      BY <1>3, <2>1 DEF Joins
  <1>9. v \in Seq(Byte) /\ Len(v) = 16 /\ Field(v, 0, u) /\ Field(v, 15, r)
    <2>1. Joins(v, u, 15, r)
      BY <1>4, <1>6, <1>8, FieldJoins
    <2> QED
      BY <1>4, <2>1 DEF Joins
  <1>10. x \in Seq(Byte) /\ Len(x) = 16 + Len(data) /\ Field(x, 0, v) /\ Field(x, 16, data)
    <2>1. Joins(x, v, 16, data)
      BY <1>7, <1>9, FieldJoins
    <2> QED
      BY <2>1 DEF Joins
  <1>11. Field(x, 0 + 15, r) /\ Field(x, 0 + 0, u)
    BY <1>9, <1>10, FieldOfField
  <1>12. Field(x, (0 + 0) + 0, t)
    BY <1>8, <1>11, FieldOfField
  <1> QED
    BY <1>1, <1>10, <1>11, <1>12

\* The bytes of a system command in front of its tag of authentication.
SystemBody(p, type, ident, rid, sector, x) ==
    MAGIC_NUMBER \o (Zeros(2) \o <<p, type>> \o ToBeBytes(ident, 16) \o ToBeBytes(rid, 8)
                       \o ToBeBytes(sector, 8) \o x)

\* Where its fields are.
IsSystemBody(body, p, type, ident, rid, sector, x) ==
    /\ body \in Seq(Byte) /\ Len(body) = 40 + Len(x)
    /\ Field(body, 0, MAGIC_NUMBER) /\ Field(body, 6, <<p, type>>)
    /\ Field(body, 8, ToBeBytes(ident, 16)) /\ Field(body, 24, ToBeBytes(rid, 8))
    /\ Field(body, 32, ToBeBytes(sector, 8)) /\ Field(body, 40, x)

\* The fields are where the process looks for them.
LEMMA SystemLayout ==
    ASSUME NEW p \in Byte, NEW type \in Byte, NEW ident \in Nat, NEW rid \in Nat,
           NEW sector \in Nat, NEW x \in Seq(Byte),
           NEW body, body = SystemBody(p, type, ident, rid, sector, x)
    PROVE  IsSystemBody(body, p, type, ident, rid, sector, x)
  <1>1. PICK m, z, t, f1, f2, f3 :
          /\ m = MAGIC_NUMBER /\ z = Zeros(2) /\ t = <<p, type>> /\ f1 = ToBeBytes(ident, 16)
          /\ f2 = ToBeBytes(rid, 8) /\ f3 = ToBeBytes(sector, 8)
    OBVIOUS
  <1>2. m \in Seq(Byte) /\ Len(m) = 4
    BY <1>1, HeaderBytes
  <1>3. z \in Seq(Byte) /\ Len(z) = 2
    <2>1. Zeros(2) \in [1..2 -> Byte]
      BY DEF Zeros, Byte
    <2> QED
      BY <1>1, <2>1, FunctionBytes
  <1>4. t \in Seq(Byte) /\ Len(t) = 2
    BY <1>1
  <1>5. f1 \in Seq(Byte) /\ Len(f1) = 16
    <2>1. ident \in Int /\ 16 \in Nat
      OBVIOUS
    <2> QED
      BY <1>1, <2>1, NumberBytes, Zenon
  <1>6. f2 \in Seq(Byte) /\ Len(f2) = 8 /\ f3 \in Seq(Byte) /\ Len(f3) = 8
    BY <1>1, EightBytes
  <1>7. PICK u2 : u2 = z \o t
    OBVIOUS
  <1>8. PICK u3 : u3 = u2 \o f1
    OBVIOUS
  <1>9. PICK u4 : u4 = u3 \o f2
    OBVIOUS
  <1>10. PICK u5 : u5 = u4 \o f3
    OBVIOUS
  <1>11. PICK u : u = u5 \o x
    OBVIOUS
  <1>12. body = m \o u
    BY <1>1, <1>7, <1>8, <1>9, <1>10, <1>11 DEF SystemBody
  <1>13. u2 \in Seq(Byte) /\ Len(u2) = 4 /\ Field(u2, 2, t)
    <2>1. Joins(u2, z, 2, t)
      BY <1>3, <1>4, <1>7, FieldJoins
    <2> QED
      BY <1>4, <2>1 DEF Joins
  <1>14. u3 \in Seq(Byte) /\ Len(u3) = 20 /\ Field(u3, 0, u2) /\ Field(u3, 4, f1)
    <2>1. Joins(u3, u2, 4, f1)
      BY <1>5, <1>8, <1>13, FieldJoins
    <2> QED
      BY <1>5, <2>1 DEF Joins
  <1>15. u4 \in Seq(Byte) /\ Len(u4) = 28 /\ Field(u4, 0, u3) /\ Field(u4, 20, f2)
    <2>1. Joins(u4, u3, 20, f2)
      BY <1>6, <1>9, <1>14, FieldJoins
    <2> QED
      BY <1>6, <2>1 DEF Joins
  <1>16. u5 \in Seq(Byte) /\ Len(u5) = 36 /\ Field(u5, 0, u4) /\ Field(u5, 28, f3)
    <2>1. Joins(u5, u4, 28, f3)
      BY <1>6, <1>10, <1>15, FieldJoins
    <2> QED
      BY <1>6, <2>1 DEF Joins
  <1>17. u \in Seq(Byte) /\ Len(u) = 36 + Len(x) /\ Field(u, 0, u5) /\ Field(u, 36, x)
    <2>1. Joins(u, u5, 36, x)
      BY <1>11, <1>16, FieldJoins
    <2> QED
      BY <2>1 DEF Joins
  <1>18. /\ body \in Seq(Byte) /\ Len(body) = 4 + Len(u)
         /\ Field(body, 0, m) /\ Field(body, 4, u)
    <2>1. Joins(body, m, 4, u)
      BY <1>2, <1>12, <1>17, FieldJoins
    <2> QED
      BY <2>1 DEF Joins
  <1>19. Field(body, 4 + 0, u5) /\ Field(body, 4 + 36, x)
    BY <1>17, <1>18, FieldOfField
  <1>20. Field(body, 4, u5) /\ Field(body, 40, x)
    BY <1>19
  <1>21. Field(body, 4 + 0, u4) /\ Field(body, 4 + 28, f3)
    BY <1>16, <1>20, FieldOfField
  <1>22. Field(body, 4, u4) /\ Field(body, 32, f3)
    BY <1>21
  <1>23. Field(body, 4 + 0, u3) /\ Field(body, 4 + 20, f2)
    BY <1>15, <1>22, FieldOfField
  <1>24. Field(body, 4, u3) /\ Field(body, 24, f2)
    BY <1>23
  <1>25. Field(body, 4 + 0, u2) /\ Field(body, 4 + 4, f1)
    BY <1>14, <1>24, FieldOfField
  <1>26. Field(body, 4, u2) /\ Field(body, 8, f1)
    BY <1>25
  <1>27. Field(body, 4 + 2, t)
    BY <1>13, <1>26, FieldOfField
  <1>28. Field(body, 6, t)
    BY <1>27
  <1>29. Len(body) = 40 + Len(x)
    BY <1>17, <1>18
  <1> QED
    BY <1>1, <1>18, <1>20, <1>22, <1>24, <1>26, <1>28, <1>29 DEF IsSystemBody

\* A system command survives its way through serialize_register_command, the signature and
\* deserialize_register_command: all of its fields are read back as they were, with a tag
\* (VALUE, WRITE_PROC) and without (READ_PROC, ACK), the length that the process computes
\* from the type is the length that was sent, and the tag of authentication verifies.
THEOREM SystemCommandsAsSent ==
    ASSUME NEW c, IsSystemCommand(c), NEW key \in Int,
           NEW b, b = Signed(key, serialize_register_command(c))
    PROVE  ReadsAs(b, key, c)
  <1>1. PICK type \in {READ_PROC, VALUE, WRITE_PROC, ACK}, p \in Byte, ident \in Nat,
             rid \in Nat, sector \in Nat, ts \in Nat, rank \in Byte, data \in Seq(Byte) :
          /\ IsNumber(ident) /\ IsNumber(rid) /\ IsNumber(sector) /\ IsNumber(ts)
          /\ Len(data) = SECTOR_VEC_SIZE
          /\ c = SystemCommand(type, p, ident, rid, sector,
                               IF HasTag(type) THEN <<ts, rank>> ELSE NoTag,
                               IF HasTag(type) THEN data ELSE <<>>)
    BY DEF IsSystemCommand
  <1>2. type \in Byte /\ ~IsClient(type)
    BY DEF READ_PROC, VALUE, WRITE_PROC, ACK, Byte, IsClient, READ, WRITE
  <1>3. /\ c.type = type /\ c.process_identifier = p /\ c.msg_ident = ident
        /\ c.read_ident = rid /\ c.sector_idx = sector
        /\ c.tag = (IF HasTag(type) THEN <<ts, rank>> ELSE NoTag)
        /\ c.data = (IF HasTag(type) THEN data ELSE <<>>)
    BY <1>1 DEF SystemCommand
  <1>4. PICK v : v = ValueBytes(ts, rank, data)
    OBVIOUS
  <1>5. /\ v \in Seq(Byte) /\ Len(v) = 16 + Len(data)
        /\ Field(v, 0, ToBeBytes(ts, 8)) /\ Field(v, 15, <<rank>>) /\ Field(v, 16, data)
    BY <1>4, ValueLayout
  <1>6. PICK x : x = IF HasTag(type) THEN v ELSE <<>>
    OBVIOUS
  <1>7. x \in Seq(Byte) /\ Len(x) = IF HasTag(type) THEN 16 + SECTOR_VEC_SIZE ELSE 0
    <2>1. CASE HasTag(type)
      BY <1>1, <1>5, <1>6, <2>1
    <2>2. CASE ~HasTag(type)
      BY <1>6, <2>2
    <2> QED
      BY <2>1, <2>2
  <1>8. PICK body : body = serialize_register_command(c)
    OBVIOUS
  <1>9. body = SystemBody(p, type, ident, rid, sector, x)
    <2>1. HasTag(type) => c.tag[1] = ts /\ c.tag[2] = rank
      BY <1>3
    <2>2. (IF HasTag(c.type)
           THEN ToBeBytes(c.tag[1], 8) \o Zeros(7) \o <<c.tag[2]>> \o c.data
           ELSE <<>>) = x
      BY <1>3, <1>4, <1>6, <2>1 DEF ValueBytes
    <2> QED
      BY <1>2, <1>3, <1>8, <2>2 DEF serialize_register_command, serialize_system_command, SystemBody
  <1>10. /\ body \in Seq(Byte) /\ Len(body) = 40 + Len(x)
         /\ Field(body, 0, MAGIC_NUMBER) /\ Field(body, 6, <<p, type>>)
         /\ Field(body, 8, ToBeBytes(ident, 16)) /\ Field(body, 24, ToBeBytes(rid, 8))
         /\ Field(body, 32, ToBeBytes(sector, 8)) /\ Field(body, 40, x)
    <2>1. IsSystemBody(body, p, type, ident, rid, sector, x)
      BY <1>2, <1>7, <1>9, SystemLayout
    <2> QED
      BY <2>1 DEF IsSystemBody
  <1>11. MsgLen(type) = Len(body) /\ Len(body) # 0
    <2>1. SECTOR_VEC_SIZE \in Nat
      BY SectorSizeAssumption
    <2>2. CASE HasTag(type)
      <3>1. type \in {4, 5}
        BY <2>2 DEF HasTag, VALUE, WRITE_PROC
      <3>2. MsgLen(4) = 40 + 16 + SECTOR_VEC_SIZE /\ MsgLen(5) = 40 + 16 + SECTOR_VEC_SIZE
        BY <2>1, SMT DEF MsgLen, READ, WRITE, READ_PROC, ACK, HasTag, VALUE, WRITE_PROC
      <3> QED
        BY <1>7, <1>10, <2>1, <2>2, <3>1, <3>2
    <2>3. CASE ~HasTag(type)
      <3>1. type \in {3, 6}
        BY <2>3 DEF HasTag, VALUE, WRITE_PROC, READ_PROC, ACK
      <3>2. MsgLen(3) = 40 /\ MsgLen(6) = 40
        BY SMT DEF MsgLen, READ, WRITE, READ_PROC, ACK, HasTag, VALUE, WRITE_PROC
      <3> QED
        BY <1>7, <1>10, <2>3, <3>1, <3>2
    <2> QED
      BY <2>2, <2>3
  <1>12. /\ b \in Seq(Byte) /\ Len(b) = Len(body) + HMAC_TAG_SIZE
         /\ \A i \in 1..Len(body) : b[i] = body[i]
         /\ Verified(key, b, Len(body))
    BY <1>8, <1>10, <1>11, SignedVerifies
  <1>13. Field(b, 0, body)
    <2>1. Len(body) \in Nat /\ HMAC_TAG_SIZE \in Nat
      BY <1>10 DEF HMAC_TAG_SIZE
    <2>2. 0 + Len(body) <= Len(b) /\ \A i \in 1..Len(body) : b[0 + i] = body[i]
      BY <1>12, <2>1
    <2> QED
      BY <1>10, <1>12, <2>2 DEF Field
  <1>14. ASSUME NEW m \in Nat, NEW y, Field(body, m, y) PROVE Field(b, m, y)
    <2>1. Field(b, 0 + m, y)
      BY <1>13, <1>14, FieldOfField
    <2> QED
      BY <2>1
  <1>15. SubSeq(b, 1, 4) = MAGIC_NUMBER
    <2>1. Field(b, 0, MAGIC_NUMBER) /\ Len(MAGIC_NUMBER) = 4
      BY <1>10, <1>14, HeaderBytes
    <2>2. Slice(b, 0, 4) = MAGIC_NUMBER
      BY <2>1, FieldIsSlice
    <2>3. 0 + 1 = 1 /\ 0 + 4 = 4
      OBVIOUS
    <2> QED
      BY <2>2, <2>3 DEF Slice
  <1>16. b[7] = p /\ b[8] = type
    <2>1. PICK t : t = <<p, type>>
      OBVIOUS
    <2>2. Len(t) = 2 /\ t[1] = p /\ t[2] = type
      BY <2>1
    <2>3. \A i \in 1..2 : b[6 + i] = t[i]
      <3>1. Field(b, 6, t)
        BY <1>10, <1>14, <2>1
      <3> QED
        BY <2>2, <3>1 DEF Field
    <2>4. b[6 + 1] = t[1] /\ b[6 + 2] = t[2]
      BY <2>3
    <2>5. 6 + 1 = 7 /\ 6 + 2 = 8
      OBVIOUS
    <2> QED
      BY <2>2, <2>4, <2>5
  <1>17. PICK rest : rest = SubSeq(b, 9, Len(b))
    OBVIOUS
  <1>18. ASSUME NEW k \in Nat, NEW m \in Nat, m = 8 + k, NEW y, Field(body, m, y)
         PROVE  Field(rest, k, y)
    <2>1. Field(b, 8 + k, y)
      BY <1>14, <1>18
    <2> QED
      BY <1>17, <2>1, FieldOfRest
  <1>19. /\ Field(rest, 0, ToBeBytes(ident, 16)) /\ Field(rest, 16, ToBeBytes(rid, 8))
         /\ Field(rest, 24, ToBeBytes(sector, 8)) /\ Field(rest, 32, x)
    <2>1. 8 = 8 + 0 /\ 24 = 8 + 16 /\ 32 = 8 + 24 /\ 40 = 8 + 32
      OBVIOUS
    <2> QED
      BY <1>10, <1>18, <2>1
  <1>20. /\ FromBeBytes(Slice(rest, 0, 16)) = ident
         /\ FromBeBytes(Slice(rest, 16, 8)) = rid
         /\ FromBeBytes(Slice(rest, 24, 8)) = sector
    <2>1. 8 \in {8, 16} /\ 16 \in {8, 16}
      OBVIOUS
    <2>2. FromBeBytes(Slice(rest, 0, 16)) = ident
      BY <1>1, <1>19, <2>1, NumberField
    <2>3. FromBeBytes(Slice(rest, 16, 8)) = rid
      BY <1>1, <1>19, <2>1, NumberField
    <2>4. FromBeBytes(Slice(rest, 24, 8)) = sector
      BY <1>1, <1>19, <2>1, NumberField
    <2> QED
      BY <2>2, <2>3, <2>4
  <1>21. ASSUME HasTag(type)
         PROVE  /\ FromBeBytes(Slice(rest, 32, 8)) = ts /\ rest[48] = rank
                /\ Slice(rest, 48, SECTOR_VEC_SIZE) = data
    <2>1. Field(rest, 32, v)
      BY <1>6, <1>19, <1>21
    <2>2. Field(rest, 32 + 0, ToBeBytes(ts, 8)) /\ Field(rest, 32 + 15, <<rank>>)
            /\ Field(rest, 32 + 16, data)
      BY <1>5, <2>1, FieldOfField
    <2>3. 32 + 0 = 32 /\ 32 + 15 = 47 /\ 32 + 16 = 48
      OBVIOUS
    <2>4. FromBeBytes(Slice(rest, 32, 8)) = ts
      BY <1>1, <2>2, <2>3, NumberField
    <2>5. Slice(rest, 48, SECTOR_VEC_SIZE) = data
      BY <1>1, <2>2, <2>3, FieldIsSlice
    <2>6. rest[48] = rank
      <3>1. PICK t : t = <<rank>>
        OBVIOUS
      <3>2. Len(t) = 1 /\ t[1] = rank
        BY <3>1
      <3>3. \A i \in 1..1 : rest[47 + i] = t[i]
        BY <2>2, <2>3, <3>1, <3>2 DEF Field
      <3>4. rest[47 + 1] = t[1] /\ 47 + 1 = 48
        BY <3>3
      <3> QED
        BY <3>2, <3>4
    <2> QED
      BY <2>4, <2>5, <2>6
  <1>22. deserialize_register_command(b) = c
    <2>1. deserialize_register_command(b) = deserialize_system_command(rest, p, type)
      BY <1>2, <1>16, <1>17 DEF deserialize_register_command
    <2>2. (IF HasTag(type) THEN <<FromBeBytes(Slice(rest, 32, 8)), rest[48]>> ELSE NoTag)
            = (IF HasTag(type) THEN <<ts, rank>> ELSE NoTag)
      BY <1>21
    <2>3. (IF HasTag(type) THEN Slice(rest, 48, SECTOR_VEC_SIZE) ELSE <<>>)
            = (IF HasTag(type) THEN data ELSE <<>>)
      BY <1>21
    <2> QED
      BY <1>1, <1>20, <2>1, <2>2, <2>3 DEF deserialize_system_command
  <1> QED
    BY <1>3, <1>11, <1>12, <1>15, <1>16, <1>22 DEF ReadsAs
=============================================================================
