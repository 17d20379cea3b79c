---------------------------- MODULE FormatProofs ----------------------------
(***************************************************************************)
(* What is written down arrives as it was meant, for every value of the    *)
(* constants: the messages and the handshake on a connection (Wire), the   *)
(* keys of a metainfo dictionary in every order (Metainfo), and the peers  *)
(* of a tracker's response in both forms (TrackerResponse).                *)
(***************************************************************************)
EXTENDS Wire, Metainfo, TrackerResponse, SequenceTheorems, TLAPS

-----------------------------------------------------------------------------
(***************************************************************************)
(* Wire.  Serialize and Identify are inverse to each other: a message at   *)
(* the front of a stream, whatever follows it, is taken whole and read as  *)
(* what was sent (Decoded), and so is the handshake (HandshakeDecoded).    *)
(*                                                                         *)
(* The invariant says where in the stream the messages lie that were sent  *)
(* and are not taken yet: in a row, from the front on, with nothing behind *)
(* them as long as no write was cut.  Positions instead of a parse of the  *)
(* stream make it inductive without recursion: a write adds a position, a  *)
(* read drops the first one and moves the others.                          *)
(***************************************************************************)

(***************************************************************************)
(* A number of a message is read back from its four bytes.                 *)
(***************************************************************************)
LEMMA Uint32Facts ==
    ASSUME NEW n \in Word
    PROVE  /\ PutUint32(n) \in Seq(Byte) /\ Len(PutUint32(n)) = 4
           /\ \A b : (\A j \in 1 .. 4 : b[j] = PutUint32(n)[j]) => Uint32(b) = n
<1>0. n \in Nat /\ n <= 2147483647
  BY SMT DEF Word
<1>1. PICK a \in Byte, b \in Byte, c \in Byte, d \in Byte :
         /\ a = n \div 16777216 /\ b = (n \div 65536) % 256
         /\ c = (n \div 256) % 256 /\ d = n % 256
  <2>1. n \div 16777216 \in Byte
    BY <1>0, SMT DEF Byte
  <2>2. (n \div 65536) % 256 \in Byte /\ (n \div 256) % 256 \in Byte /\ n % 256 \in Byte
    BY <1>0, SMT DEF Byte
  <2> QED BY <2>1, <2>2, SMT
<1>2. a < 128 /\ n = a * 16777216 + b * 65536 + c * 256 + d
  <2>1. n \div 16777216 < 128
    BY <1>0, SMT
  <2>2. n = (n \div 16777216) * 16777216 + ((n \div 65536) % 256) * 65536
              + ((n \div 256) % 256) * 256 + (n % 256)
    BY <1>0, SMT
  <2> QED BY <1>1, <2>1, <2>2, SMT
<1>3. PutUint32(n) = <<a, b, c, d>>
  BY <1>1, SMT DEF PutUint32
<1>4. <<a, b, c, d>> \in Seq(Byte) /\ Len(<<a, b, c, d>>) = 4
  OBVIOUS
<1>5. ASSUME NEW s, \A j \in 1 .. 4 : s[j] = <<a, b, c, d>>[j]
      PROVE  Uint32(s) = n
  <2>1. s[1] = a /\ s[2] = b /\ s[3] = c /\ s[4] = d
    BY <1>5
  <2> QED BY <1>2, <2>1, SMT DEF Uint32, Byte
<1> QED BY <1>3, <1>4, <1>5

\* The bytes t lie at p + 1 and after in s.
LiesAt(t, s, p) == p + Len(t) <= Len(s) /\ \A j \in 1 .. Len(t) : s[p + j] = t[j]

\* Bytes stay where they are when others are written behind them.
LEMMA LiesBefore ==
    ASSUME NEW t \in Seq(Byte), NEW s \in Seq(Byte), NEW u \in Seq(Byte), NEW p \in Nat,
           LiesAt(t, s, p)
    PROVE  LiesAt(t, s \o u, p)
BY DEF LiesAt

\* What is written lies behind what was there.
LEMMA LiesBehind ==
    ASSUME NEW t \in Seq(Byte), NEW s \in Seq(Byte)
    PROVE  LiesAt(t, s \o t, Len(s))
BY DEF LiesAt

\* What is left of a stream after its first q bytes were read.
LEMMA Shifted ==
    ASSUME NEW s \in Seq(Byte), NEW q \in 0 .. Len(s)
    PROVE  /\ SubSeq(s, q + 1, Len(s)) \in Seq(Byte)
           /\ Len(SubSeq(s, q + 1, Len(s))) = Len(s) - q
           /\ \A i \in 1 .. Len(s) - q : SubSeq(s, q + 1, Len(s))[i] = s[q + i]
OBVIOUS

\* Bytes move to the front by as much as is read before them.
LEMMA LiesShifted ==
    ASSUME NEW t \in Seq(Byte), NEW s \in Seq(Byte), NEW p \in Nat, NEW q \in 0 .. p,
           LiesAt(t, s, p)
    PROVE  LiesAt(t, SubSeq(s, q + 1, Len(s)), p - q)
<1>1. q \in 0 .. Len(s)
  BY DEF LiesAt
<1>2. PICK r : r = SubSeq(s, q + 1, Len(s))
  OBVIOUS
<1>3. Len(r) = Len(s) - q /\ \A i \in 1 .. Len(s) - q : r[i] = s[q + i]
  BY <1>1, <1>2, Shifted
<1>4. ASSUME NEW j \in 1 .. Len(t)
      PROVE  r[p - q + j] = t[j]
  <2>1. p - q + j \in 1 .. Len(s) - q /\ q + (p - q + j) = p + j
    BY DEF LiesAt
  <2> QED BY <1>3, <2>1 DEF LiesAt
<1> QED BY <1>2, <1>3, <1>4 DEF LiesAt

-----------------------------------------------------------------------------
(* Messages *)

BitFields == [DOMAIN NewBitfield -> Byte]
Pieces    == 0 .. NumPieces - 1

\* What the Send methods are given.
Sendable(m) ==
    \/ \E t \in {"keepalive", "choke", "unchoke", "interest", "notinterest"} : m = [type |-> t]
    \/ \E i \in Pieces : m = [type |-> "have", index |-> i]
    \/ \E b \in BitFields : m = [type |-> "bitfield", bits |-> b]
    \/ \E t \in {"request", "cancel"}, i \in Word, b \in Word, l \in Word :
          l <= RequestSize /\ m = [type |-> t, index |-> i, begin |-> b, length |-> l]
    \/ \E i \in Word, b \in Word, x \in Seq(Byte) :
          /\ Len(x) >= 1 /\ Len(x) <= RequestSize
          /\ m = [type |-> "piece", index |-> i, begin |-> b, block |-> x]

(***************************************************************************)
(* A bitfield is a sequence of bytes, short enough for its message.        *)
(***************************************************************************)
LEMMA BitFieldBytes ==
    ASSUME NEW b \in BitFields
    PROVE  b \in Seq(Byte) /\ Len(b) = (NumPieces + 7) \div 8 /\ 1 + Len(b) \in Word
<1>1. NumPieces \in Nat /\ NumPieces <= 2147483647 /\ NumPieces > 0
  BY WireAssumption, SMT DEF Word
<1>2. (NumPieces + 7) \div 8 \in Nat /\ 1 + ((NumPieces + 7) \div 8) <= 2147483647
  BY <1>1, SMT
<1>3. DOMAIN NewBitfield = 1 .. (NumPieces + 7) \div 8
  BY DEF NewBitfield
<1>4. PICK n \in Nat : n = (NumPieces + 7) \div 8
  BY <1>2, SMT
<1>5. b \in [1 .. n -> Byte]
  BY <1>3, <1>4 DEF BitFields
<1>6. b \in Seq(Byte) /\ Len(b) = n
  BY <1>5
<1> QED BY <1>2, <1>4, <1>6, SMT DEF Word

(***************************************************************************)
(* The numbers of a message, and the lengths of all but a bitfield.        *)
(***************************************************************************)
LEMMA WordFacts ==
    /\ Word \subseteq Nat
    /\ \A n \in Nat : n <= 9 + RequestSize => n \in Word
    /\ RequestSize \in Nat /\ RequestSize >= 4
BY SMT DEF Word, RequestSize

(***************************************************************************)
(* Each Deserialize method undoes its Serialize method.                    *)
(***************************************************************************)
LEMMA HaveRoundTrip ==
    ASSUME NEW m, NEW i \in Pieces, m = [type |-> "have", index |-> i]
    PROVE  /\ Payload(m) \in Seq(Byte) /\ 1 + Len(Payload(m)) \in Word
           /\ Deserialize(m.type, Payload(m)) = m
<1>0. i \in Word
  BY WireAssumption, SMT DEF Word, Pieces
<1>1. m.type = "have" /\ m.index = i
  OBVIOUS
<1>2. PICK p : p = PutUint32(i)
  OBVIOUS
<1>3. Payload(m) = p
  BY <1>1, <1>2 DEF Payload
<1>4. p \in Seq(Byte) /\ Len(p) = 4 /\ Uint32(p) = i
  BY <1>0, <1>2, Uint32Facts
<1>5. Deserialize("have", p) = [type |-> "have", index |-> i]
  BY <1>4 DEF Deserialize
<1>6. 1 + Len(p) \in Word
  BY <1>4, WordFacts
<1> QED BY <1>1, <1>3, <1>4, <1>5, <1>6

\* The same for a bitfield message,
LEMMA BitfieldRoundTrip ==
    ASSUME NEW m, NEW b \in BitFields, m = [type |-> "bitfield", bits |-> b]
    PROVE  /\ Payload(m) \in Seq(Byte) /\ 1 + Len(Payload(m)) \in Word
           /\ Deserialize(m.type, Payload(m)) = m
<1>1. m.type = "bitfield" /\ m.bits = b
  OBVIOUS
<1>2. Payload(m) = b
  BY <1>1 DEF Payload
<1>3. Deserialize("bitfield", b) = [type |-> "bitfield", bits |-> b]
  BY DEF Deserialize
<1> QED BY <1>1, <1>2, <1>3, BitFieldBytes

\* for the messages without a payload,
LEMMA PlainRoundTrip ==
    ASSUME NEW m, NEW t \in {"choke", "unchoke", "interest", "notinterest"}, m = [type |-> t]
    PROVE  /\ Payload(m) \in Seq(Byte) /\ 1 + Len(Payload(m)) \in Word
           /\ Deserialize(m.type, Payload(m)) = m
<1>1. m.type = t
  OBVIOUS
<1>2. Payload(m) = <<>>
  BY <1>1 DEF Payload
<1>3. Deserialize(t, <<>>) = [type |-> t]
  BY DEF Deserialize
<1> QED BY <1>1, <1>2, <1>3, WordFacts

(***************************************************************************)
(* Two sequences put together.                                             *)
(***************************************************************************)
Cat(y, p, q) ==
    /\ y \in Seq(Byte) /\ Len(y) = Len(p) + Len(q)
    /\ \A j \in 1 .. Len(p) : y[j] = p[j]
    /\ \A j \in 1 .. Len(q) : y[Len(p) + j] = q[j]

\* What the concatenation of byte sequences consists of.
LEMMA Concat ==
    ASSUME NEW p \in Seq(Byte), NEW q \in Seq(Byte)
    PROVE  Cat(p \o q, p, q)
BY DEF Cat

(***************************************************************************)
(* Three sequences put together, and the parts cut out of the result.      *)
(***************************************************************************)
Joined(z, p, q, r) ==
    /\ z \in Seq(Byte) /\ Len(z) = 8 + Len(r)
    /\ \A j \in 1 .. 4 : z[j] = p[j]
    /\ SubSeq(z, 5, 8) = q
    /\ SubSeq(z, 9, Len(z)) = r

\* The payload of a request or a piece, taken apart.
LEMMA Parts ==
    ASSUME NEW p \in Seq(Byte), NEW q \in Seq(Byte), NEW r \in Seq(Byte),
           Len(p) = 4, Len(q) = 4
    PROVE  Joined(p \o q \o r, p, q, r)
<1>0. PICK y : y = p \o q
  OBVIOUS
<1>1. Cat(y, p, q)
  BY <1>0, Concat, Zenon
<1>2. y \in Seq(Byte) /\ Len(y) = 8 /\ \A j \in 1 .. 4 : y[j] = p[j] /\ y[4 + j] = q[j]
  BY <1>1 DEF Cat
<1>3. PICK z : z = y \o r
  OBVIOUS
<1>4. Cat(z, y, r)
  BY <1>2, <1>3, Concat, Zenon
<1>5. /\ z \in Seq(Byte) /\ Len(z) = 8 + Len(r)
      /\ \A j \in 1 .. 8 : z[j] = y[j]
      /\ \A j \in 1 .. Len(r) : z[8 + j] = r[j]
  BY <1>2, <1>4 DEF Cat
<1>8. \A j \in 1 .. 4 : z[j] = p[j] /\ z[4 + j] = q[j]
  BY <1>2, <1>5
<1>9. SubSeq(z, 5, 8) = q
  <2>1. PICK u : u = SubSeq(z, 5, 8)
    OBVIOUS
  <2>2. u \in Seq(Byte) /\ Len(u) = 4 /\ \A j \in 1 .. 4 : u[j] = z[4 + j]
    BY <1>5, <2>1
  <2>3. \A j \in 1 .. Len(u) : u[j] = q[j]
    BY <1>8, <2>2
  <2>4. u = q
    BY <2>2, <2>3, SeqEqual
  <2> QED BY <2>1, <2>4
<1>10. SubSeq(z, 9, Len(z)) = r
  <2>1. PICK u : u = SubSeq(z, 9, Len(z))
    OBVIOUS
  <2>2. u \in Seq(Byte) /\ Len(u) = Len(z) - 8 /\ \A j \in 1 .. Len(z) - 8 : u[j] = z[8 + j]
    BY <1>5, <2>1, Shifted
  <2>3. Len(u) = Len(r) /\ \A j \in 1 .. Len(u) : u[j] = r[j]
    BY <1>5, <2>2
  <2>4. u = r
    BY <2>2, <2>3, SeqEqual
  <2> QED BY <2>1, <2>4
<1>11. Joined(z, p, q, r)
  BY <1>5, <1>8, <1>9, <1>10 DEF Joined
<1> QED BY <1>0, <1>3, <1>11

\* for request and cancel,
LEMMA RequestRoundTrip ==
    ASSUME NEW m, NEW t \in {"request", "cancel"}, NEW i \in Word, NEW b \in Word,
           NEW l \in Word, l <= RequestSize,
           m = [type |-> t, index |-> i, begin |-> b, length |-> l]
    PROVE  /\ Payload(m) \in Seq(Byte) /\ 1 + Len(Payload(m)) \in Word
           /\ Deserialize(m.type, Payload(m)) = m
<1>1. m.type = t /\ m.index = i /\ m.begin = b /\ m.length = l
  OBVIOUS
<1>2. PICK p, q, r : p = PutUint32(i) /\ q = PutUint32(b) /\ r = PutUint32(l)
  OBVIOUS
<1>3. /\ p \in Seq(Byte) /\ Len(p) = 4 /\ q \in Seq(Byte) /\ Len(q) = 4
      /\ r \in Seq(Byte) /\ Len(r) = 4
  BY <1>2, Uint32Facts
<1>0. /\ \A s : (\A j \in 1 .. 4 : s[j] = p[j]) => Uint32(s) = i
      /\ Uint32(q) = b /\ Uint32(r) = l
  BY <1>2, Uint32Facts
<1>4. PICK z : z = p \o q \o r
  OBVIOUS
<1>5. Payload(m) = z
  BY <1>1, <1>2, <1>4 DEF Payload
<1>6a. Joined(z, p, q, r)
  BY <1>3, <1>4, Parts
<1>6. /\ z \in Seq(Byte) /\ Len(z) = 8 + Len(r) /\ \A j \in 1 .. 4 : z[j] = p[j]
      /\ SubSeq(z, 5, 8) = q /\ SubSeq(z, 9, Len(z)) = r
  BY <1>6a DEF Joined
<1>7. Len(z) = 12 /\ Uint32(z) = i
  BY <1>0, <1>3, <1>6
<1>8. Deserialize(t, z) = [type |-> t, index |-> i, begin |-> b, length |-> l]
  BY <1>0, <1>6, <1>7 DEF Deserialize
<1>9. 1 + Len(z) \in Word
  BY <1>7, WordFacts
<1> QED BY <1>1, <1>5, <1>6, <1>8, <1>9

\* and for a piece.
LEMMA PieceRoundTrip ==
    ASSUME NEW m, NEW i \in Word, NEW b \in Word, NEW x \in Seq(Byte),
           Len(x) >= 1, Len(x) <= RequestSize,
           m = [type |-> "piece", index |-> i, begin |-> b, block |-> x]
    PROVE  /\ Payload(m) \in Seq(Byte) /\ 1 + Len(Payload(m)) \in Word
           /\ Deserialize(m.type, Payload(m)) = m
<1>1. m.type = "piece" /\ m.index = i /\ m.begin = b /\ m.block = x
  OBVIOUS
<1>2. PICK p, q : p = PutUint32(i) /\ q = PutUint32(b)
  OBVIOUS
<1>3. p \in Seq(Byte) /\ Len(p) = 4 /\ q \in Seq(Byte) /\ Len(q) = 4
  BY <1>2, Uint32Facts
<1>0. /\ \A s : (\A j \in 1 .. 4 : s[j] = p[j]) => Uint32(s) = i
      /\ Uint32(q) = b
  BY <1>2, Uint32Facts
<1>4. PICK z : z = p \o q \o x
  OBVIOUS
<1>5. Payload(m) = z
  BY <1>1, <1>2, <1>4 DEF Payload
<1>6a. Joined(z, p, q, x)
  BY <1>3, <1>4, Parts
<1>6. /\ z \in Seq(Byte) /\ Len(z) = 8 + Len(x) /\ \A j \in 1 .. 4 : z[j] = p[j]
      /\ SubSeq(z, 5, 8) = q /\ SubSeq(z, 9, Len(z)) = x
  BY <1>6a DEF Joined
<1>7. Len(z) >= 9
  BY <1>6
<1>7a. Uint32(z) = i
  BY <1>0, <1>6
<1>8. Deserialize("piece", z) = [type |-> "piece", index |-> i, begin |-> b, block |-> x]
  BY <1>0, <1>6, <1>7, <1>7a DEF Deserialize
<1>9. 1 + Len(z) \in Word
  BY <1>6, WordFacts
<1> QED BY <1>1, <1>5, <1>6, <1>8, <1>9

(***************************************************************************)
(* The payload of every message but a keep-alive is decoded to it.         *)
(***************************************************************************)
LEMMA RoundTrip ==
    ASSUME NEW m, Sendable(m), m.type # "keepalive"
    PROVE  /\ Payload(m) \in Seq(Byte) /\ 1 + Len(Payload(m)) \in Word
           /\ Deserialize(m.type, Payload(m)) = m
           /\ m.type \in DOMAIN Id
<1>1. ASSUME NEW t \in {"keepalive", "choke", "unchoke", "interest", "notinterest"},
             m = [type |-> t]
      PROVE  t \in {"choke", "unchoke", "interest", "notinterest"}
  BY <1>1
<1>2. m.type \in {"choke", "unchoke", "interest", "notinterest", "have", "bitfield", "request",
                  "cancel", "piece"}
  BY <1>1 DEF Sendable
<1>3. m.type \in DOMAIN Id
  BY <1>2 DEF Id
<1> QED
  BY <1>1, <1>3, HaveRoundTrip, BitfieldRoundTrip, PlainRoundTrip, RequestRoundTrip,
     PieceRoundTrip DEF Sendable

(***************************************************************************)
(* What lies in a sequence is cut out of it by SubSeq.                     *)
(***************************************************************************)
CutFrom(s, a, n) == SubSeq(s, a + 1, a + n)

\* SubSeq returns what lies at a place.
LEMMA CutOut ==
    ASSUME NEW t \in Seq(Byte), NEW s \in Seq(Byte), NEW a \in Nat, LiesAt(t, s, a)
    PROVE  CutFrom(s, a, Len(t)) = t
<1>1. PICK n \in Nat : n = Len(t)
  OBVIOUS
<1>2. a + n <= Len(s) /\ \A k \in 1 .. n : s[a + k] = t[k]
  BY <1>1 DEF LiesAt
<1>3. PICK u : u = SubSeq(s, a + 1, a + n)
  OBVIOUS
<1>4. u \in Seq(Byte) /\ Len(u) = n /\ \A k \in 1 .. n : u[k] = s[a + k]
  <2>1. a + 1 \in 1 .. Len(s) + 1 /\ a + n \in (a + 1) - 1 .. Len(s)
    BY <1>2
  <2>2. u \in Seq(Byte)
    BY <2>1, <1>3
  <2>3. Len(u) = n
    BY <2>1, <1>3
  <2>4. \A k \in 1 .. n : u[k] = s[a + k]
    BY <2>1, <1>3
  <2> QED BY <2>2, <2>3, <2>4
<1>5. \A k \in 1 .. Len(u) : u[k] = t[k]
  BY <1>2, <1>4
<1>6. u = t
  BY <1>1, <1>4, <1>5, SeqEqual
<1> QED BY <1>1, <1>3, <1>6 DEF CutFrom

(***************************************************************************)
(* The id of a message tells its type.                                     *)
(***************************************************************************)
LEMMA IdFacts ==
    ASSUME NEW t \in DOMAIN Id
    PROVE  Id[t] \in Byte /\ Known(Id[t]) /\ TypeOf(Id[t]) = t
<1>1. Id[t] \in Byte
  BY DEF Id, Byte
<1>2. Known(Id[t])
  BY DEF Known
<1>3. \A u \in DOMAIN Id : Id[u] = Id[t] => u = t
  BY DEF Id
<1>4. TypeOf(Id[t]) = t
  BY <1>3 DEF TypeOf
<1> QED BY <1>1, <1>2, <1>4

(***************************************************************************)
(* Serialize puts four bytes, the id and the payload in a row.             *)
(***************************************************************************)
Frame(z, p, d, r) ==
    /\ z \in Seq(Byte) /\ Len(z) = 5 + Len(r)
    /\ \A j \in 1 .. 4 : z[j] = p[j]
    /\ z[5] = d
    /\ \A j \in 1 .. Len(r) : z[5 + j] = r[j]

\* Where the parts of a serialized message are.
LEMMA FrameParts ==
    ASSUME NEW p \in Seq(Byte), NEW d \in Byte, NEW r \in Seq(Byte), Len(p) = 4
    PROVE  Frame(p \o <<d>> \o r, p, d, r)
<1>0. PICK w : w = <<d>>
  OBVIOUS
<1>1. w \in Seq(Byte) /\ Len(w) = 1 /\ w[1] = d
  BY <1>0
<1>2. PICK y : y = p \o w
  OBVIOUS
<1>3. Cat(y, p, w)
  BY <1>1, <1>2, Concat, Zenon
<1>4. y \in Seq(Byte) /\ Len(y) = 5 /\ (\A j \in 1 .. 4 : y[j] = p[j]) /\ y[5] = d
  BY <1>1, <1>3 DEF Cat
<1>5. PICK z : z = y \o r
  OBVIOUS
<1>6. Cat(z, y, r)
  BY <1>4, <1>5, Concat, Zenon
<1>7. /\ z \in Seq(Byte) /\ Len(z) = 5 + Len(r)
      /\ \A j \in 1 .. 5 : z[j] = y[j]
      /\ \A j \in 1 .. Len(r) : z[5 + j] = r[j]
  BY <1>4, <1>6 DEF Cat
<1>8. Frame(z, p, d, r)
  BY <1>4, <1>7 DEF Frame
<1> QED BY <1>0, <1>2, <1>5, <1>8

(***************************************************************************)
(* A message at the front of the stream is taken whole, and identified as  *)
(* what was sent.                                                          *)
(***************************************************************************)
LEMMA KeepAliveDecoded ==
    ASSUME NEW m, m.type = "keepalive", m = [type |-> "keepalive"],
           NEW s \in Seq(Byte)
    PROVE  /\ Serialize(m) \in Seq(Byte) /\ Len(Serialize(m)) = 4
           /\ LiesAt(Serialize(m), s, 0) =>
                 Taken(s) = Len(Serialize(m)) /\ Identify(s) = m
<1>1. 0 \in Word
  BY WordFacts
<1>2. PICK z : z = PutUint32(0)
  OBVIOUS
<1>3. z \in Seq(Byte) /\ Len(z) = 4 /\ \A b : (\A j \in 1 .. 4 : b[j] = z[j]) => Uint32(b) = 0
  BY <1>1, <1>2, Uint32Facts
<1>4. Serialize(m) = z
  BY <1>2 DEF Serialize
<1>5. ASSUME LiesAt(z, s, 0)
      PROVE  Taken(s) = 4 /\ Identify(s) = m
  <2>1. Len(s) >= 4 /\ \A j \in 1 .. 4 : s[j] = z[j]
    BY <1>3, <1>5 DEF LiesAt
  <2>2. Uint32(s) = 0
    BY <1>3, <2>1
  <2>3. Taken(s) = 4
    BY <2>1, <2>2 DEF Taken
  <2>4. Identify(s) = [type |-> "keepalive"]
    BY <2>2 DEF Identify
  <2> QED BY <2>3, <2>4
<1> QED BY <1>3, <1>4, <1>5

\* The same for a message with an id.
LEMMA OthersDecoded ==
    ASSUME NEW m, Sendable(m), m.type # "keepalive", NEW s \in Seq(Byte)
    PROVE  /\ Serialize(m) \in Seq(Byte) /\ Len(Serialize(m)) >= 5
           /\ LiesAt(Serialize(m), s, 0) =>
                 Taken(s) = Len(Serialize(m)) /\ Identify(s) = m
<1>1. PICK t, r : t = m.type /\ r = Payload(m)
  OBVIOUS
<1>2. /\ r \in Seq(Byte) /\ 1 + Len(r) \in Word /\ Deserialize(t, r) = m
      /\ t \in DOMAIN Id
  BY <1>1, RoundTrip
<1>3. PICK d : d = Id[t]
  OBVIOUS
<1>4. d \in Byte /\ Known(d) /\ TypeOf(d) = t
  BY <1>2, <1>3, IdFacts
<1>5. PICK n \in Nat : n = Len(r)
  BY <1>2
<1>6. PICK p : p = PutUint32(1 + n)
  OBVIOUS
<1>7. p \in Seq(Byte) /\ Len(p) = 4 /\ \A b : (\A j \in 1 .. 4 : b[j] = p[j]) => Uint32(b) = 1 + n
  BY <1>2, <1>5, <1>6, Uint32Facts
<1>8. PICK z : z = p \o <<d>> \o r
  OBVIOUS
<1>9. Serialize(m) = z
  BY <1>1, <1>3, <1>5, <1>6, <1>8 DEF Serialize
<1>10. Frame(z, p, d, r)
  BY <1>2, <1>4, <1>7, <1>8, FrameParts
<1>11. /\ z \in Seq(Byte) /\ Len(z) = 5 + n /\ (\A j \in 1 .. 4 : z[j] = p[j])
       /\ z[5] = d /\ \A j \in 1 .. n : z[5 + j] = r[j]
  BY <1>5, <1>10 DEF Frame
<1>12. ASSUME LiesAt(z, s, 0)
       PROVE  Taken(s) = 5 + n /\ Identify(s) = m
  <2>1. Len(s) >= 5 + n /\ \A j \in 1 .. 5 + n : s[j] = z[j]
    BY <1>11, <1>12 DEF LiesAt
  <2>2. \A j \in 1 .. 4 : s[j] = p[j]
    BY <1>11, <2>1
  <2>3. Uint32(s) = 1 + n
    BY <1>7, <2>2
  <2>4. Taken(s) = 5 + n
    BY <2>1, <2>3 DEF Taken
  <2>5. s[5] = d
    BY <1>11, <2>1
  <2>6. LiesAt(r, s, 5)
    BY <1>5, <1>11, <2>1 DEF LiesAt
  <2>7. SubSeq(s, 6, 5 + n) = r
    <3>1. CutFrom(s, 5, n) = r
      BY <1>2, <1>5, <2>6, CutOut
    <3> QED BY <3>1 DEF CutFrom
  <2>8. Identify(s) = Deserialize(TypeOf(d), SubSeq(s, 6, 5 + n))
    BY <1>4, <2>3, <2>4, <2>5 DEF Identify
  <2> QED BY <1>2, <1>4, <2>4, <2>7, <2>8
<1> QED BY <1>9, <1>11, <1>12

\* The same for every message that can be sent.
LEMMA Decoded ==
    ASSUME NEW m, Sendable(m), NEW s \in Seq(Byte)
    PROVE  /\ Serialize(m) \in Seq(Byte) /\ Len(Serialize(m)) >= 4
           /\ LiesAt(Serialize(m), s, 0) =>
                 Taken(s) = Len(Serialize(m)) /\ Identify(s) = m
<1>1. CASE m.type = "keepalive"
  <2>1. m = [type |-> "keepalive"]
    BY <1>1 DEF Sendable
  <2>2. /\ Serialize(m) \in Seq(Byte) /\ Len(Serialize(m)) = 4
        /\ LiesAt(Serialize(m), s, 0) =>
              Taken(s) = Len(Serialize(m)) /\ Identify(s) = m
    BY <1>1, <2>1, KeepAliveDecoded, Zenon
  <2>3. PICK n : n = Len(Serialize(m))
    OBVIOUS
  <2>4. n >= 4
    BY <2>2, <2>3
  <2> QED BY <2>2, <2>3, <2>4, Zenon
<1>2. CASE m.type # "keepalive"
  BY <1>2, OthersDecoded
<1> QED BY <1>1, <1>2

(***************************************************************************)
(* What lies in a sequence lies where that sequence lies.                  *)
(***************************************************************************)
LEMMA LiesWithin ==
    ASSUME NEW t \in Seq(Byte), NEW y \in Seq(Byte), NEW s \in Seq(Byte),
           NEW a \in Nat, LiesAt(t, y, a), LiesAt(y, s, 0)
    PROVE  LiesAt(t, s, a)
<1>1. PICK n \in Nat, k \in Nat, l \in Nat : n = Len(t) /\ k = Len(y) /\ l = Len(s)
  OBVIOUS
<1>2. a + n <= k /\ \A j \in 1 .. n : y[a + j] = t[j]
  BY <1>1 DEF LiesAt
<1>3. k <= l /\ \A j \in 1 .. k : s[j] = y[j]
  BY <1>1 DEF LiesAt
<1>4. ASSUME NEW j \in 1 .. n
      PROVE  s[a + j] = t[j]
  <2>1. a + j \in 1 .. k
    BY <1>2
  <2> QED BY <1>2, <1>3, <2>1
<1>5. a + n <= l
  BY <1>2, <1>3
<1> QED BY <1>1, <1>4, <1>5 DEF LiesAt

\* The parts of a concatenation lie where it lies.
LEMMA LiesInCat ==
    ASSUME NEW p \in Seq(Byte), NEW q \in Seq(Byte), NEW s \in Seq(Byte),
           LiesAt(p \o q, s, 0)
    PROVE  LiesAt(p, s, 0) /\ LiesAt(q, s, Len(p))
<1>1. PICK y : y = p \o q
  OBVIOUS
<1>2. Cat(y, p, q)
  BY <1>1, Concat, Zenon
<1>3. y \in Seq(Byte) /\ LiesAt(p, y, 0) /\ LiesAt(q, y, Len(p))
  BY <1>2 DEF Cat, LiesAt
<1>4. LiesAt(y, s, 0)
  BY <1>1
<1>5. Len(p) \in Nat /\ 0 \in Nat
  OBVIOUS
<1> QED BY <1>3, <1>4, <1>5, LiesWithin

(***************************************************************************)
(* The handshake at the front of the stream is read as it was sent.        *)
(***************************************************************************)
LEMMA HandshakeDecoded ==
    ASSUME NEW h \in Hellos, NEW s \in Seq(Byte)
    PROVE  /\ SerializeHandshake(h) \in Seq(Byte)
           /\ Len(SerializeHandshake(h)) = HandshakeLength /\ HandshakeLength \in Nat
           /\ LiesAt(SerializeHandshake(h), s, 0) => DeserializeHandshake(s) = h
<1>1. PICK p, q, r : p = h.pstr /\ q = h.hash /\ r = h.id
  OBVIOUS
<1>2. h = [pstr |-> p, hash |-> q, id |-> r]
  BY <1>1, WireAssumption
<1>3. PICK L \in Nat, H \in Nat : L = Len(Protocol) /\ H = HashLength
  BY WireAssumption
<1>4. /\ p \in Seq(Byte) /\ Len(p) = L /\ q \in Seq(Byte) /\ Len(q) = H
      /\ r \in Seq(Byte) /\ Len(r) = H
  BY <1>1, <1>3, WireAssumption
<1>5. L \in Byte
  BY <1>3, WireAssumption
<1>6. PICK w, z : w = <<L>> /\ z = [n \in 1 .. 8 |-> 0]
  OBVIOUS
<1>7. w \in Seq(Byte) /\ Len(w) = 1 /\ w[1] = L
  BY <1>5, <1>6
<1>8. z \in Seq(Byte) /\ Len(z) = 8
  <2>1. 0 \in Byte
    BY DEF Byte
  <2>2. PICK k \in Nat : k = 8
    OBVIOUS
  <2>3. z \in [1 .. k -> Byte]
    BY <1>6, <2>1, <2>2
  <2>4. z \in Seq(Byte) /\ Len(z) = k
    BY <2>3
  <2> QED BY <2>2, <2>4
<1>9. PICK y1 : y1 = w \o p
  OBVIOUS
<1>10. PICK y2 : y2 = y1 \o z
  OBVIOUS
<1>11. PICK y3 : y3 = y2 \o q
  OBVIOUS
<1>12. PICK y4 : y4 = y3 \o r
  OBVIOUS
<1>13. Cat(y1, w, p)
  BY <1>4, <1>7, <1>9, Concat, Zenon
<1>14. y1 \in Seq(Byte) /\ Len(y1) = 1 + L
  BY <1>4, <1>7, <1>13 DEF Cat
<1>15. Cat(y2, y1, z)
  BY <1>8, <1>10, <1>14, Concat, Zenon
<1>16. y2 \in Seq(Byte) /\ Len(y2) = 9 + L
  BY <1>8, <1>14, <1>15 DEF Cat
<1>17. Cat(y3, y2, q)
  BY <1>4, <1>11, <1>16, Concat, Zenon
<1>18. y3 \in Seq(Byte) /\ Len(y3) = 9 + L + H
  BY <1>4, <1>16, <1>17 DEF Cat
<1>19. Cat(y4, y3, r)
  BY <1>4, <1>12, <1>18, Concat, Zenon
<1>20. y4 \in Seq(Byte) /\ Len(y4) = 9 + L + 2 * H
  BY <1>4, <1>18, <1>19 DEF Cat
<1>21. SerializeHandshake(h) = y4
  <2>1. <<Len(p)>> = w
    BY <1>4, <1>6
  <2> QED BY <1>1, <1>6, <1>9, <1>10, <1>11, <1>12, <2>1, Zenon DEF SerializeHandshake
<1>22. HandshakeLength = 9 + L + 2 * H
  BY <1>3 DEF HandshakeLength
<1>23. ASSUME LiesAt(y4, s, 0)
       PROVE  DeserializeHandshake(s) = h
  <2>1. LiesAt(y3, s, 0) /\ LiesAt(r, s, 9 + L + H)
    BY <1>4, <1>12, <1>18, <1>23, LiesInCat
  <2>2. LiesAt(y2, s, 0) /\ LiesAt(q, s, 9 + L)
    BY <1>4, <1>11, <1>16, <2>1, LiesInCat
  <2>3. LiesAt(y1, s, 0)
    BY <1>8, <1>10, <1>14, <2>2, LiesInCat
  <2>4. LiesAt(w, s, 0) /\ LiesAt(p, s, 1)
    BY <1>4, <1>7, <1>9, <2>3, LiesInCat
  <2>5. s[1] = L
    BY <1>7, <2>4 DEF LiesAt
  <2>6. CutFrom(s, 1, L) = p
    BY <1>4, <2>4, CutOut
  <2>7. CutFrom(s, 9 + L, H) = q
    <3>1. 9 + L \in Nat
      OBVIOUS
    <3> QED BY <1>4, <2>2, <3>1, CutOut
  <2>8. CutFrom(s, 9 + L + H, H) = r
    <3>1. 9 + L + H \in Nat
      OBVIOUS
    <3> QED BY <1>4, <2>1, <3>1, CutOut
  <2>9. /\ SubSeq(s, 2, 1 + L) = p
        /\ SubSeq(s, (1 + L + 8) + 1, (1 + L + 8) + H) = q
        /\ SubSeq(s, (1 + L + 8) + H + 1, (1 + L + 8) + 2 * H) = r
    BY <2>6, <2>7, <2>8 DEF CutFrom
  <2> QED BY <1>2, <1>3, <2>5, <2>9 DEF DeserializeHandshake
<1> QED BY <1>20, <1>21, <1>22, <1>23

-----------------------------------------------------------------------------
(* Bitfields *)

Masks == {128, 64, 32, 16, 8, 4, 2, 1}

(***************************************************************************)
(* A byte is the sum of its bits, and Check reads them out of the sum.     *)
(***************************************************************************)
LEMMA BitsOfByte ==
    ASSUME NEW v \in Byte
    PROVE  \E x0, x1, x2, x3, x4, x5, x6, x7 \in {0, 1} :
              v = 128 * x0 + 64 * x1 + 32 * x2 + 16 * x3 + 8 * x4 + 4 * x5 + 2 * x6 + x7
<1>0. PICK x0 \in {0, 1} : x0 = (v \div 128) % 2
  BY SMT DEF Byte
<1>1. PICK x1 \in {0, 1} : x1 = (v \div 64) % 2
  BY SMT DEF Byte
<1>2. PICK x2 \in {0, 1} : x2 = (v \div 32) % 2
  BY SMT DEF Byte
<1>3. PICK x3 \in {0, 1} : x3 = (v \div 16) % 2
  BY SMT DEF Byte
<1>4. PICK x4 \in {0, 1} : x4 = (v \div 8) % 2
  BY SMT DEF Byte
<1>5. PICK x5 \in {0, 1} : x5 = (v \div 4) % 2
  BY SMT DEF Byte
<1>6. PICK x6 \in {0, 1} : x6 = (v \div 2) % 2
  BY SMT DEF Byte
<1>7. PICK x7 \in {0, 1} : x7 = v % 2
  BY SMT DEF Byte
<1> QED BY <1>0, <1>1, <1>2, <1>3, <1>4, <1>5, <1>6, <1>7, SMT DEF Byte

\* The other way round: the bits of a sum are its summands.
LEMMA BitsOfSum ==
    ASSUME NEW x0 \in {0, 1}, NEW x1 \in {0, 1}, NEW x2 \in {0, 1}, NEW x3 \in {0, 1},
           NEW x4 \in {0, 1}, NEW x5 \in {0, 1}, NEW x6 \in {0, 1}, NEW x7 \in {0, 1},
           NEW v,
           v = 128 * x0 + 64 * x1 + 32 * x2 + 16 * x3 + 8 * x4 + 4 * x5 + 2 * x6 + x7
    PROVE  /\ v \in Byte
           /\ (v \div 128) % 2 = x0 /\ (v \div 64) % 2 = x1 /\ (v \div 32) % 2 = x2
           /\ (v \div 16) % 2 = x3 /\ (v \div 8) % 2 = x4 /\ (v \div 4) % 2 = x5
           /\ (v \div 2) % 2 = x6 /\ (v \div 1) % 2 = x7
BY SMT DEF Byte

(***************************************************************************)
(* Adding the mask of a bit that is not set sets that bit and no other.    *)
(***************************************************************************)
Bit(v, a) == (v \div a) % 2 = 1

\* The other seven bits keep their values, and no bit is carried.
LEMMA AddBit ==
    ASSUME NEW v \in Byte, NEW a \in Masks, ~Bit(v, a)
    PROVE  v + a \in Byte /\ \A c \in Masks : Bit(v + a, c) <=> Bit(v, c) \/ a = c
<1>1. PICK x0, x1, x2, x3, x4, x5, x6, x7 \in {0, 1} :
         v = 128 * x0 + 64 * x1 + 32 * x2 + 16 * x3 + 8 * x4 + 4 * x5 + 2 * x6 + x7
  BY BitsOfByte
<1>2. /\ Bit(v, 128) <=> x0 = 1
      /\ Bit(v, 64) <=> x1 = 1
      /\ Bit(v, 32) <=> x2 = 1
      /\ Bit(v, 16) <=> x3 = 1
      /\ Bit(v, 8) <=> x4 = 1
      /\ Bit(v, 4) <=> x5 = 1
      /\ Bit(v, 2) <=> x6 = 1
      /\ Bit(v, 1) <=> x7 = 1
  BY <1>1, BitsOfSum, SMT DEF Bit
<1>3. PICK u : u = v + a
  OBVIOUS
<1>4. /\ u \in Byte
      /\ Bit(u, 128) <=> x0 = 1 \/ a = 128
      /\ Bit(u, 64) <=> x1 = 1 \/ a = 64
      /\ Bit(u, 32) <=> x2 = 1 \/ a = 32
      /\ Bit(u, 16) <=> x3 = 1 \/ a = 16
      /\ Bit(u, 8) <=> x4 = 1 \/ a = 8
      /\ Bit(u, 4) <=> x5 = 1 \/ a = 4
      /\ Bit(u, 2) <=> x6 = 1 \/ a = 2
      /\ Bit(u, 1) <=> x7 = 1 \/ a = 1
  <2>0. CASE a = 128
    <3>1. x0 = 0
      BY <1>2, <2>0
    <3>2. u = 128 * 1 + 64 * x1 + 32 * x2 + 16 * x3 + 8 * x4 + 4 * x5 + 2 * x6 + x7
      BY <1>1, <1>3, <2>0, <3>1
    <3> QED BY <2>0, <3>2, BitsOfSum, SMT DEF Bit
  <2>1. CASE a = 64
    <3>1. x1 = 0
      BY <1>2, <2>1
    <3>2. u = 128 * x0 + 64 * 1 + 32 * x2 + 16 * x3 + 8 * x4 + 4 * x5 + 2 * x6 + x7
      BY <1>1, <1>3, <2>1, <3>1
    <3> QED BY <2>1, <3>2, BitsOfSum, SMT DEF Bit
  <2>2. CASE a = 32
    <3>1. x2 = 0
      BY <1>2, <2>2
    <3>2. u = 128 * x0 + 64 * x1 + 32 * 1 + 16 * x3 + 8 * x4 + 4 * x5 + 2 * x6 + x7
      BY <1>1, <1>3, <2>2, <3>1
    <3> QED BY <2>2, <3>2, BitsOfSum, SMT DEF Bit
  <2>3. CASE a = 16
    <3>1. x3 = 0
      BY <1>2, <2>3
    <3>2. u = 128 * x0 + 64 * x1 + 32 * x2 + 16 * 1 + 8 * x4 + 4 * x5 + 2 * x6 + x7
      BY <1>1, <1>3, <2>3, <3>1
    <3> QED BY <2>3, <3>2, BitsOfSum, SMT DEF Bit
  <2>4. CASE a = 8
    <3>1. x4 = 0
      BY <1>2, <2>4
    <3>2. u = 128 * x0 + 64 * x1 + 32 * x2 + 16 * x3 + 8 * 1 + 4 * x5 + 2 * x6 + x7
      BY <1>1, <1>3, <2>4, <3>1
    <3> QED BY <2>4, <3>2, BitsOfSum, SMT DEF Bit
  <2>5. CASE a = 4
    <3>1. x5 = 0
      BY <1>2, <2>5
    <3>2. u = 128 * x0 + 64 * x1 + 32 * x2 + 16 * x3 + 8 * x4 + 4 * 1 + 2 * x6 + x7
      BY <1>1, <1>3, <2>5, <3>1
    <3> QED BY <2>5, <3>2, BitsOfSum, SMT DEF Bit
  <2>6. CASE a = 2
    <3>1. x6 = 0
      BY <1>2, <2>6
    <3>2. u = 128 * x0 + 64 * x1 + 32 * x2 + 16 * x3 + 8 * x4 + 4 * x5 + 2 * 1 + x7
      BY <1>1, <1>3, <2>6, <3>1
    <3> QED BY <2>6, <3>2, BitsOfSum, SMT DEF Bit
  <2>7. CASE a = 1
    <3>1. x7 = 0
      BY <1>2, <2>7
    <3>2. u = 128 * x0 + 64 * x1 + 32 * x2 + 16 * x3 + 8 * x4 + 4 * x5 + 2 * x6 + 1
      BY <1>1, <1>3, <2>7, <3>1
    <3> QED BY <2>7, <3>2, BitsOfSum, SMT DEF Bit
  <2> QED BY <2>0, <2>1, <2>2, <2>3, <2>4, <2>5, <2>6, <2>7 DEF Masks
<1>5. \A c \in Masks : Bit(u, c) <=> Bit(v, c) \/ a = c
  BY <1>2, <1>4 DEF Masks
<1> QED BY <1>3, <1>4, <1>5

(***************************************************************************)
(* Two pieces of one byte have different masks.                            *)
(***************************************************************************)
LEMMA MaskFacts ==
    ASSUME NEW i \in Nat, NEW j \in Nat
    PROVE  /\ Mask(i) \in Masks
           /\ ByteOffset(i) = ByteOffset(j) /\ Mask(i) = Mask(j) => i = j
<1>1. \A n \in Nat : /\ (n % 8) + 1 = 1 => Mask(n) = 128
                     /\ (n % 8) + 1 = 2 => Mask(n) = 64
                     /\ (n % 8) + 1 = 3 => Mask(n) = 32
                     /\ (n % 8) + 1 = 4 => Mask(n) = 16
                     /\ (n % 8) + 1 = 5 => Mask(n) = 8
                     /\ (n % 8) + 1 = 6 => Mask(n) = 4
                     /\ (n % 8) + 1 = 7 => Mask(n) = 2
                     /\ (n % 8) + 1 = 8 => Mask(n) = 1
  BY DEF Mask
<1>2. \A n \in Nat : (n % 8) + 1 \in 1 .. 8
  OBVIOUS
<1>3. Mask(i) \in Masks
  BY <1>1, <1>2 DEF Masks
<1>4. Mask(i) = Mask(j) => i % 8 = j % 8
  BY <1>1, <1>2
<1>5. i \div 8 = j \div 8 /\ i % 8 = j % 8 => i = j
  OBVIOUS
<1>6. ByteOffset(i) = ByteOffset(j) => i \div 8 = j \div 8
  BY DEF ByteOffset
<1> QED BY <1>3, <1>4, <1>5, <1>6

(***************************************************************************)
(* Set sets one bit; a new bitfield has none.                              *)
(***************************************************************************)
LEMMA Offsets ==
    ASSUME NEW i \in Pieces
    PROVE  i \in Nat /\ ByteOffset(i) \in DOMAIN NewBitfield
<1>1. NumPieces \in Nat
  BY WireAssumption, WordFacts
<1>2. DOMAIN NewBitfield = 1 .. (NumPieces + 7) \div 8
  BY DEF NewBitfield
<1>3. i \in Nat /\ i < NumPieces
  BY <1>1 DEF Pieces
<1>4. i \div 8 + 1 \in 1 .. (NumPieces + 7) \div 8
  BY <1>1, <1>3
<1> QED BY <1>2, <1>3, <1>4 DEF ByteOffset

\* NewBitfield has the right length and lists no piece.
LEMMA NewBitfieldFacts ==
    NewBitfield \in BitFields /\ \A i \in Pieces : ~Check(NewBitfield, i)
<1>1. NewBitfield \in BitFields
  BY DEF BitFields, NewBitfield, Byte
<1>2. ASSUME NEW i \in Pieces
      PROVE  ~Check(NewBitfield, i)
  <2>1. NewBitfield[ByteOffset(i)] = 0
    BY Offsets DEF NewBitfield
  <2>2. \A c \in Masks : (0 \div c) % 2 = 0
    BY SMT DEF Masks
  <2>3. Mask(i) \in Masks
    BY Offsets, MaskFacts
  <2> QED BY <2>1, <2>2, <2>3 DEF Check
<1> QED BY <1>1, <1>2

\* Set adds its piece to those that Check finds, and no other.
LEMMA SetFacts ==
    ASSUME NEW b \in BitFields, NEW i \in Pieces
    PROVE  /\ Set(b, i) \in BitFields
           /\ \A j \in Pieces : Check(Set(b, i), j) <=> Check(b, j) \/ i = j
<1>1. CASE Check(b, i)
  BY <1>1 DEF Set
<1>2. CASE ~Check(b, i)
  <2>1. PICK o, a : o = ByteOffset(i) /\ a = Mask(i)
    OBVIOUS
  <2>2. i \in Nat /\ o \in DOMAIN NewBitfield /\ a \in Masks
    BY <2>1, Offsets, MaskFacts
  <2>3. PICK v \in Byte : v = b[o]
    BY <2>2 DEF BitFields
  <2>4. ~Bit(v, a)
    BY <1>2, <2>1, <2>3 DEF Check, Bit
  <2>5. v + a \in Byte /\ \A c \in Masks : Bit(v + a, c) <=> Bit(v, c) \/ a = c
    BY <2>2, <2>4, AddBit
  <2>6. PICK z : z = [b EXCEPT ![o] = v + a]
    OBVIOUS
  <2>7. Set(b, i) = z
    BY <1>2, <2>1, <2>3, <2>6 DEF Set
  <2>8. z \in BitFields /\ z[o] = v + a /\ \A n \in DOMAIN NewBitfield : n # o => z[n] = b[n]
    BY <2>2, <2>5, <2>6 DEF BitFields
  <2>9. ASSUME NEW j \in Pieces
        PROVE  Check(z, j) <=> Check(b, j) \/ i = j
    <3>1. PICK q, c : q = ByteOffset(j) /\ c = Mask(j)
      OBVIOUS
    <3>2. j \in Nat /\ q \in DOMAIN NewBitfield /\ c \in Masks /\ (q = o /\ c = a => i = j)
      BY <2>1, <2>2, <3>1, Offsets, MaskFacts
    <3>3. i = j => q = o /\ c = a
      BY <2>1, <3>1
    <3>4. (Check(z, j) <=> Bit(z[q], c)) /\ (Check(b, j) <=> Bit(b[q], c))
      BY <3>1 DEF Check, Bit
    <3>5. CASE q = o
      <4>1. Bit(z[q], c) <=> Bit(b[q], c) \/ a = c
        BY <2>3, <2>5, <2>8, <3>2, <3>5
      <4> QED BY <3>2, <3>3, <3>4, <3>5, <4>1
    <3>6. CASE q # o
      <4>1. z[q] = b[q]
        BY <2>8, <3>2, <3>6
      <4> QED BY <3>3, <3>4, <3>6, <4>1
    <3> QED BY <3>5, <3>6
  <2> QED BY <2>7, <2>8, <2>9
<1> QED BY <1>1, <1>2


-----------------------------------------------------------------------------
(* Messages under way *)

IsSequence(q) == q \in Seq({q[k] : k \in DOMAIN q})

(***************************************************************************)
(* One message more at the end of a log.                                   *)
(***************************************************************************)
Longer(a, q, m) ==
    /\ IsSequence(a) /\ Len(a) = Len(q) + 1 /\ Len(q) \in Nat
    /\ \A k \in 1 .. Len(q) : a[k] = q[k]
    /\ a[Len(q) + 1] = m

\* Append makes a log longer by its message.
LEMMA Appended ==
    ASSUME NEW q, IsSequence(q), NEW m
    PROVE  Longer(Append(q, m), q, m)
<1>1. PICK S : q \in Seq(S) /\ S = {q[k] : k \in DOMAIN q}
  BY DEF IsSequence
<1>2. PICK U : U = S \cup {m}
  OBVIOUS
<1>3. q \in Seq(U) /\ m \in U
  <2>1. \A k \in DOMAIN q : q[k] \in U
    BY <1>1, <1>2
  <2>2. q \in [1 .. Len(q) -> U] /\ Len(q) \in Nat
    BY <1>1, <2>1
  <2> QED BY <1>2, <2>2
<1>4. PICK a : a = Append(q, m)
  OBVIOUS
<1>5. /\ a \in Seq(U) /\ Len(a) = Len(q) + 1 /\ Len(q) \in Nat
      /\ (\A k \in 1 .. Len(q) : a[k] = q[k]) /\ a[Len(q) + 1] = m
  BY <1>3, <1>4
<1>6. IsSequence(a)
  <2>1. PICK V : V = {a[k] : k \in DOMAIN a}
    OBVIOUS
  <2>2. Len(a) \in Nat /\ DOMAIN a = 1 .. Len(a) /\ a = [k \in 1 .. Len(a) |-> a[k]]
    BY <1>5
  <2>3. a \in [1 .. Len(a) -> V]
    BY <2>1, <2>2
  <2>4. a \in Seq(V)
    BY <2>2, <2>3
  <2> QED BY <2>1, <2>4 DEF IsSequence
<1> QED BY <1>4, <1>5, <1>6 DEF Longer

(***************************************************************************)
(* What Identify takes is there, and is bytes.                             *)
(***************************************************************************)
LEMMA Uint32Type ==
    ASSUME NEW b, \A j \in 1 .. 4 : b[j] \in Byte
    PROVE  Uint32(b) \in Nat
<1>1. PICK a \in Byte, c \in Byte, d \in Byte, e \in Byte :
         b[1] = a /\ b[2] = c /\ b[3] = d /\ b[4] = e
  OBVIOUS
<1>2. a * 16777216 + c * 65536 + d * 256 + e \in Nat
  BY SMT DEF Byte
<1> QED BY <1>1, <1>2, SMT DEF Uint32

\* Identify takes no more than is there, and a whole length prefix.
LEMMA TakenFacts ==
    ASSUME NEW s \in Seq(Byte)
    PROVE  /\ Taken(s) \in 0 .. Len(s)
           /\ Taken(s) > 0 => Taken(s) >= 4 /\ (Uint32(s) # 0 => Taken(s) >= 5)
<1>1. CASE Len(s) < 4
  BY <1>1 DEF Taken
<1>2. CASE Len(s) >= 4
  <2>1. \A j \in 1 .. 4 : s[j] \in Byte
    BY <1>2
  <2>2. PICK n \in Nat : n = Uint32(s)
    BY <2>1, Uint32Type
  <2>3. PICK l \in Nat : l = Len(s)
    OBVIOUS
  <2>4. Taken(s) = IF n = 0 THEN 4 ELSE IF l - 4 >= n THEN 4 + n ELSE 0
    BY <1>2, <2>2, <2>3 DEF Taken
  <2>5. l >= 4
    BY <1>2, <2>3
  <2> QED BY <2>2, <2>3, <2>4, <2>5
<1> QED BY <1>1, <1>2

\* The index and the bits of a message are numbers, even if it was cut.
LEMMA IdentifyTypes ==
    ASSUME NEW s \in Seq(Byte), Taken(s) > 0, NEW m, m = Identify(s)
    PROVE  /\ m.type = "have" => m.index \in Nat
           /\ m.type = "bitfield" => m.bits \in Seq(Byte)
<1>1. CASE Uint32(s) = 0
  BY <1>1 DEF Identify
<1>2. CASE Uint32(s) # 0 /\ ~Known(s[5])
  BY <1>2 DEF Identify
<1>3. CASE Uint32(s) # 0 /\ Known(s[5])
  <2>1. PICK t, p : t = TypeOf(s[5]) /\ p = SubSeq(s, 6, Taken(s))
    OBVIOUS
  <2>2. m = Deserialize(t, p)
    BY <1>3, <2>1 DEF Identify
  <2>3. PICK n \in Nat : n = Taken(s) /\ n >= 5 /\ n <= Len(s)
    BY <1>3, TakenFacts
  <2>4. p \in Seq(Byte)
    BY <2>1, <2>3
  <2>5. Len(p) = 4 => Uint32(p) \in Nat
    <3>0. \A j \in 1 .. Len(p) : p[j] \in Byte
      BY <2>4, ElementOfSeq
    <3>1. Len(p) = 4 => \A j \in 1 .. 4 : p[j] \in Byte
      BY <3>0
    <3> QED BY <3>1, Uint32Type
  <2>6. m.type = "have" => Len(p) = 4 /\ m.index = Uint32(p)
    BY <2>2 DEF Deserialize
  <2>7. m.type = "bitfield" => m.bits = p
    BY <2>2 DEF Deserialize
  <2> QED BY <2>4, <2>5, <2>6, <2>7
<1> QED BY <1>1, <1>2, <1>3

(***************************************************************************)
(* What a log of messages says of a piece: a later message is taken into   *)
(* account after the earlier ones.                                         *)
(***************************************************************************)
Said(q, i) == \E k \in 1 .. Len(q) : /\ Tells(q[k], i)
                                     /\ \A l \in 1 .. Len(q) : l > k => Keeps(q[l], i)

\* What is said of a piece after one more message.
LEMMA SaidNext ==
    ASSUME NEW q, NEW a, NEW m, Longer(a, q, m), NEW i
    PROVE  Said(a, i) <=> Tells(m, i) \/ (Said(q, i) /\ Keeps(m, i))
<1>1. PICK n \in Nat : n = Len(q)
  BY DEF Longer
<1>2. Len(a) = n + 1 /\ (\A k \in 1 .. n : a[k] = q[k]) /\ a[n + 1] = m
  BY <1>1 DEF Longer
<1>3. ASSUME Said(a, i)
      PROVE  Tells(m, i) \/ (Said(q, i) /\ Keeps(m, i))
  <2>1. PICK k \in 1 .. n + 1 : Tells(a[k], i) /\ \A l \in 1 .. n + 1 : l > k => Keeps(a[l], i)
    BY <1>2, <1>3 DEF Said
  <2>2. CASE k = n + 1
    BY <1>2, <2>1, <2>2
  <2>3. CASE k # n + 1
    <3>1. k \in 1 .. n /\ n + 1 \in 1 .. n + 1 /\ n + 1 > k
      BY <2>3
    <3>2. Keeps(m, i) /\ Tells(q[k], i)
      BY <1>2, <2>1, <3>1
    <3>3. \A l \in 1 .. n : l > k => Keeps(q[l], i)
      BY <1>2, <2>1
    <3> QED BY <1>1, <3>1, <3>2, <3>3 DEF Said
  <2> QED BY <2>2, <2>3
<1>4. ASSUME Tells(m, i)
      PROVE  Said(a, i)
  <2>1. n + 1 \in 1 .. n + 1 /\ \A l \in 1 .. n + 1 : ~(l > n + 1)
    OBVIOUS
  <2> QED BY <1>2, <1>4, <2>1 DEF Said
<1>5. ASSUME Said(q, i), Keeps(m, i)
      PROVE  Said(a, i)
  <2>1. PICK k \in 1 .. n : Tells(q[k], i) /\ \A l \in 1 .. n : l > k => Keeps(q[l], i)
    BY <1>1, <1>5 DEF Said
  <2>2. k \in 1 .. n + 1 /\ Tells(a[k], i)
    BY <1>2, <2>1
  <2>3. ASSUME NEW l \in 1 .. n + 1, l > k
        PROVE  Keeps(a[l], i)
    <3>1. CASE l = n + 1
      BY <1>2, <1>5, <3>1
    <3>2. CASE l # n + 1
      <4>1. l \in 1 .. n
        BY <3>2
      <4> QED BY <1>2, <2>1, <2>3, <4>1
    <3> QED BY <3>1, <3>2
  <2> QED BY <1>2, <2>2, <2>3 DEF Said
<1> QED BY <1>3, <1>4, <1>5

(***************************************************************************)
(* The messages g + 1 .. w of q lie in s in a row, the k-th between        *)
(* pos[k - 1] and pos[k].                                                  *)
(***************************************************************************)
Row(pos, q, s, g, w) ==
    /\ pos \in [g .. w -> Nat]
    /\ \A j, k \in g .. w : j <= k => pos[j] <= pos[k]
    /\ \A k \in g + 1 .. w : /\ pos[k] = pos[k - 1] + Len(Serialize(q[k]))
                            /\ LiesAt(Serialize(q[k]), s, pos[k - 1])

UnderWay(q, s, g, w, off, end) ==
    \E pos : Row(pos, q, s, g, w) /\ pos[g] = off /\ pos[w] = end

Codes(q, g, w) == \A k \in g + 1 .. w : Serialize(q[k]) \in Seq(Byte)

(***************************************************************************)
(* More bytes behind them leave the messages where they are.               *)
(***************************************************************************)
LEMMA MoreBytes ==
    ASSUME NEW q, NEW p, NEW s \in Seq(Byte), NEW t \in Seq(Byte),
           NEW g \in Nat, NEW w \in Nat, NEW off, NEW end,
           UnderWay(q, s, g, w, off, end), Codes(q, g, w),
           \A k \in g + 1 .. w : p[k] = q[k]
    PROVE  UnderWay(p, s \o t, g, w, off, end)
<1>1. PICK pos : Row(pos, q, s, g, w) /\ pos[g] = off /\ pos[w] = end
  BY DEF UnderWay
<1>2. ASSUME NEW k \in g + 1 .. w
      PROVE  /\ pos[k] = pos[k - 1] + Len(Serialize(p[k]))
             /\ LiesAt(Serialize(p[k]), s \o t, pos[k - 1])
  <2>1. PICK z : z = Serialize(q[k])
    OBVIOUS
  <2>2. z \in Seq(Byte) /\ Serialize(p[k]) = z
    BY <2>1 DEF Codes
  <2>3. pos[k] = pos[k - 1] + Len(z) /\ LiesAt(z, s, pos[k - 1])
    BY <1>1, <2>1 DEF Row
  <2>4. pos[k - 1] \in Nat
    BY <1>1 DEF Row
  <2>5. LiesAt(z, s \o t, pos[k - 1])
    BY <2>2, <2>3, <2>4, LiesBefore
  <2> QED BY <2>2, <2>3, <2>5
<1>3. Row(pos, p, s \o t, g, w)
  BY <1>1, <1>2 DEF Row
<1> QED BY <1>1, <1>3 DEF UnderWay

(***************************************************************************)
(* A message written behind the last one is the next in the row.           *)
(***************************************************************************)
LEMMA MoreMessages ==
    ASSUME NEW q, NEW p, NEW m, NEW s \in Seq(Byte), NEW g \in Nat, NEW w \in Nat, g <= w,
           NEW off, UnderWay(q, s, g, w, off, Len(s)), Codes(q, g, w),
           Serialize(m) \in Seq(Byte),
           \A k \in g + 1 .. w : p[k] = q[k], p[w + 1] = m
    PROVE  UnderWay(p, s \o Serialize(m), g, w + 1, off, Len(s \o Serialize(m)))
<1>1. PICK pos : Row(pos, q, s, g, w) /\ pos[g] = off /\ pos[w] = Len(s)
  BY DEF UnderWay
<1>0. PICK z : z = Serialize(m)
  OBVIOUS
<1>2. PICK n \in Nat, l \in Nat : z = Serialize(m) /\ n = Len(z) /\ l = Len(s)
  BY <1>0
<1>3. PICK y : y = s \o z
  OBVIOUS
<1>4. y \in Seq(Byte) /\ Len(y) = l + n
  BY <1>2, <1>3
<1>5. PICK po : po = [k \in g .. w + 1 |-> IF k = w + 1 THEN l + n ELSE pos[k]]
  OBVIOUS
<1>6. pos \in [g .. w -> Nat] /\ \A j, k \in g .. w : j <= k => pos[j] <= pos[k]
  BY <1>1 DEF Row
<1>7. (\A k \in g .. w : po[k] = pos[k]) /\ po[w + 1] = l + n
  BY <1>5
<1>8. po \in [g .. w + 1 -> Nat]
  BY <1>5, <1>6
<1>9. ASSUME NEW j \in g .. w + 1, NEW k \in g .. w + 1, j <= k
      PROVE  po[j] <= po[k]
  <2>1. CASE k = w + 1 /\ j # w + 1
    <3>1. j \in g .. w /\ w \in g .. w
      BY <2>1
    <3>2. pos[j] <= l /\ pos[j] \in Nat
      BY <1>1, <1>2, <1>6, <3>1
    <3>3. po[j] = pos[j] /\ po[k] = l + n
      BY <1>7, <2>1, <3>1
    <3> QED BY <3>2, <3>3
  <2>2. CASE k = w + 1 /\ j = w + 1
    BY <1>7, <2>2
  <2>3. CASE k # w + 1
    <3>1. j \in g .. w /\ k \in g .. w
      BY <1>9, <2>3
    <3> QED BY <1>6, <1>7, <1>9, <3>1
  <2> QED BY <2>1, <2>2, <2>3
<1>10. ASSUME NEW k \in g + 1 .. w + 1
       PROVE  /\ po[k] = po[k - 1] + Len(Serialize(p[k]))
              /\ LiesAt(Serialize(p[k]), y, po[k - 1])
  <2>1. CASE k = w + 1
    <3>1. Serialize(p[k]) = z /\ po[k] = l + n
      BY <1>2, <1>7, <2>1
    <3>2. w \in g .. w /\ k - 1 = w
      BY <2>1
    <3>3. po[k - 1] = l
      BY <1>1, <1>2, <1>7, <3>2
    <3>4. LiesAt(z, y, l)
      BY <1>2, <1>3, LiesBehind
    <3> QED BY <1>2, <3>1, <3>3, <3>4
  <2>2. CASE k # w + 1
    <3>1. k \in g + 1 .. w /\ k \in g .. w /\ k - 1 \in g .. w
      BY <2>2
    <3>2. PICK x : x = Serialize(q[k])
      OBVIOUS
    <3>3. x \in Seq(Byte) /\ Serialize(p[k]) = x
      BY <3>1, <3>2 DEF Codes
    <3>4. pos[k] = pos[k - 1] + Len(x) /\ LiesAt(x, s, pos[k - 1])
      BY <1>1, <3>1, <3>2 DEF Row
    <3>5. pos[k - 1] \in Nat
      BY <1>6, <3>1
    <3>6. LiesAt(x, y, pos[k - 1])
      BY <1>2, <1>3, <3>3, <3>4, <3>5, LiesBefore
    <3> QED BY <1>7, <3>1, <3>3, <3>4, <3>6
  <2> QED BY <2>1, <2>2
<1>11. Row(po, p, y, g, w + 1)
  BY <1>8, <1>9, <1>10 DEF Row
<1>12. po[g] = off
  BY <1>1, <1>7
<1> QED BY <1>2, <1>3, <1>4, <1>7, <1>11, <1>12 DEF UnderWay

(***************************************************************************)
(* Bytes taken from the front move the messages there.                     *)
(***************************************************************************)
LEMMA FewerBytes ==
    ASSUME NEW q, NEW s \in Seq(Byte), NEW g \in Nat, NEW w \in Nat, g <= w,
           NEW off \in 0 .. Len(s), NEW end,
           UnderWay(q, s, g, w, off, end), Codes(q, g, w)
    PROVE  /\ UnderWay(q, SubSeq(s, off + 1, Len(s)), g, w, 0, end - off)
           /\ end \in Nat
<1>1. PICK pos : Row(pos, q, s, g, w) /\ pos[g] = off /\ pos[w] = end
  BY DEF UnderWay
<1>2. PICK y : y = SubSeq(s, off + 1, Len(s))
  OBVIOUS
<1>3. off \in Nat /\ g \in g .. w /\ w \in g .. w
  OBVIOUS
<1>4. \A k \in g .. w : pos[k] \in Nat /\ pos[k] - off \in Nat
  BY <1>1, <1>3 DEF Row
<1>5. PICK po : po = [k \in g .. w |-> pos[k] - off]
  OBVIOUS
<1>6. po \in [g .. w -> Nat] /\ \A k \in g .. w : po[k] = pos[k] - off
  BY <1>4, <1>5
<1>7. \A j, k \in g .. w : j <= k => po[j] <= po[k]
  BY <1>1, <1>3, <1>4, <1>6 DEF Row
<1>8. ASSUME NEW k \in g + 1 .. w
      PROVE  /\ po[k] = po[k - 1] + Len(Serialize(q[k]))
             /\ LiesAt(Serialize(q[k]), y, po[k - 1])
  <2>0. PICK z : z = Serialize(q[k])
    OBVIOUS
  <2>1. PICK n \in Nat : z = Serialize(q[k]) /\ z \in Seq(Byte) /\ n = Len(z)
    BY <2>0 DEF Codes
  <2>2. k \in g .. w /\ k - 1 \in g .. w
    OBVIOUS
  <2>3. pos[k] = pos[k - 1] + n /\ LiesAt(z, s, pos[k - 1])
    BY <1>1, <2>1 DEF Row
  <2>4. PICK a \in Nat : a = pos[k - 1] /\ off \in 0 .. a
    BY <1>3, <1>4, <2>2
  <2>5. LiesAt(z, y, a - off)
    BY <1>2, <2>1, <2>3, <2>4, LiesShifted
  <2>6. po[k - 1] = a - off /\ po[k] = (a + n) - off
    BY <1>6, <2>2, <2>3, <2>4
  <2> QED BY <1>3, <2>1, <2>4, <2>5, <2>6
<1>9. Row(po, q, y, g, w)
  BY <1>6, <1>7, <1>8 DEF Row
<1>10. po[g] = 0 /\ po[w] = end - off /\ end \in Nat
  BY <1>1, <1>3, <1>4, <1>6
<1> QED BY <1>2, <1>9, <1>10 DEF UnderWay

(***************************************************************************)
(* The first message lies at the front; without it the others are left.    *)
(***************************************************************************)
LEMMA FirstMessage ==
    ASSUME NEW q, NEW s \in Seq(Byte), NEW g \in Nat, NEW w \in Nat, g < w,
           NEW end, UnderWay(q, s, g, w, 0, end), Codes(q, g, w)
    PROVE  /\ LiesAt(Serialize(q[g + 1]), s, 0)
           /\ UnderWay(q, s, g + 1, w, Len(Serialize(q[g + 1])), end)
<1>1. PICK pos : Row(pos, q, s, g, w) /\ pos[g] = 0 /\ pos[w] = end
  BY DEF UnderWay
<1>2. g + 1 \in g + 1 .. w /\ g + 1 \in g .. w /\ (g + 1) - 1 = g
  OBVIOUS
<1>0. PICK z : z = Serialize(q[g + 1])
  OBVIOUS
<1>3. PICK n \in Nat : z = Serialize(q[g + 1]) /\ z \in Seq(Byte) /\ n = Len(z)
  BY <1>0, <1>2 DEF Codes
<1>4. pos[g + 1] = n /\ LiesAt(z, s, 0)
  <2>1. pos[g + 1] = pos[(g + 1) - 1] + n /\ LiesAt(z, s, pos[(g + 1) - 1])
    BY <1>1, <1>2, <1>3 DEF Row
  <2> QED BY <1>1, <1>2, <2>1
<1>5. PICK po : po = [k \in g + 1 .. w |-> pos[k]]
  OBVIOUS
<1>6. \A k \in g + 1 .. w : k \in g .. w /\ po[k] = pos[k] /\ pos[k] \in Nat
  BY <1>1, <1>5 DEF Row
<1>7. po \in [g + 1 .. w -> Nat]
  BY <1>5, <1>6
<1>8. \A j, k \in g + 1 .. w : j <= k => po[j] <= po[k]
  BY <1>1, <1>6 DEF Row
<1>9. ASSUME NEW k \in (g + 1) + 1 .. w
      PROVE  /\ po[k] = po[k - 1] + Len(Serialize(q[k]))
             /\ LiesAt(Serialize(q[k]), s, po[k - 1])
  <2>1. k \in g + 1 .. w /\ k - 1 \in g + 1 .. w
    OBVIOUS
  <2>2. po[k] = pos[k] /\ po[k - 1] = pos[k - 1]
    BY <1>6, <2>1
  <2> QED BY <1>1, <2>1, <2>2 DEF Row
<1>10. Row(po, q, s, g + 1, w)
  BY <1>7, <1>8, <1>9 DEF Row
<1>11. w \in g + 1 .. w
  OBVIOUS
<1>12. po[g + 1] = n /\ po[w] = end
  BY <1>1, <1>2, <1>4, <1>6, <1>11
<1> QED BY <1>3, <1>4, <1>10, <1>12 DEF UnderWay

-----------------------------------------------------------------------------
(* The inductive invariant *)

\* What the ends hold, and what has been written before the handshake: nothing.
Ends ==
    /\ stream \in Seq(Byte) /\ bits \in BitFields /\ record \in BitFields
    /\ IsSequence(sent) /\ IsSequence(got)
    /\ \A k \in 1 .. Len(sent) : Sendable(sent[k])
    /\ hello = Nil \/ hello \in Hellos
    /\ Intact \/ cut \in 0 .. Len(sent)
    /\ hello = Nil => peer = Nil /\ stream = <<>> /\ sent = <<>> /\ got = <<>> /\ Intact

\* The handshake is at the front of the stream until it is read.
Greeting ==
    /\ peer # Nil => peer = hello
    /\ hello # Nil /\ peer = Nil => LiesAt(SerializeHandshake(hello), stream, 0)

InOrder ==
    /\ \A k \in 1 .. Len(got) : k <= Whole => got[k] = sent[k]
    /\ Intact => Len(got) <= Len(sent)

\* The messages that were sent whole and are not taken yet follow one another
\* in the stream, and if no write was cut there is nothing behind them.
Front == IF peer = Nil THEN HandshakeLength ELSE 0

Transit ==
    hello # Nil /\ Len(got) <= Whole =>
        /\ \E end : UnderWay(sent, stream, Len(got), Whole, Front, end)
        /\ Intact => UnderWay(sent, stream, Len(got), Whole, Front, Len(stream))

Announced == \A k \in 1 .. Len(sent), i \in Pieces : Tells(sent[k], i) => Check(bits, i)
Recorded  == Intact => \A i \in Pieces : Check(record, i) <=> Said(got, i)

WireInv == Ends /\ Greeting /\ InOrder /\ Transit /\ Announced /\ Recorded

(***************************************************************************)
(* The logs have lengths, and the messages under way have codes.           *)
(***************************************************************************)
LEMMA LogFacts ==
    ASSUME Ends
    PROVE  /\ Len(sent) \in Nat /\ Len(got) \in Nat /\ Whole \in 0 .. Len(sent)
           /\ Codes(sent, Len(got), Whole)
           /\ DOMAIN got = 1 .. Len(got)
<1>1. Len(sent) \in Nat /\ Len(got) \in Nat /\ DOMAIN got = 1 .. Len(got)
  BY DEF Ends, IsSequence
<1>2. Whole \in 0 .. Len(sent)
  BY <1>1 DEF Ends, Whole
<1>3a. PICK g \in Nat, n \in Nat : g = Len(got) /\ n = Len(sent)
  BY <1>1
<1>3. PICK w \in Nat : w = Whole /\ w <= n
  BY <1>2, <1>3a
<1>4. ASSUME NEW k \in g + 1 .. w
      PROVE  Serialize(sent[k]) \in Seq(Byte)
  <2>1. Sendable(sent[k])
    BY <1>3, <1>3a DEF Ends
  <2>2. <<>> \in Seq(Byte)
    OBVIOUS
  <2> QED BY <2>1, <2>2, Decoded
<1> QED BY <1>1, <1>2, <1>3, <1>3a, <1>4 DEF Codes

\* The invariant holds before anything is written.
LEMMA WireInitially == WireInit => WireInv
<1> SUFFICES ASSUME WireInit PROVE WireInv
  OBVIOUS
<1>1. sent = <<>> /\ got = <<>> /\ stream = <<>> /\ Len(sent) = 0 /\ Len(got) = 0
  BY DEF WireInit
<1>2. IsSequence(<<>>)
  BY DEF IsSequence
<1>3. Ends
  BY <1>1, <1>2, NewBitfieldFacts DEF WireInit, Ends, Intact
<1>4. Greeting /\ InOrder /\ Transit
  BY <1>1 DEF WireInit, Greeting, InOrder, Transit
<1>5. Announced
  BY <1>1 DEF Announced
<1>6. Recorded
  <2>1. \A i : ~Said(got, i)
    BY <1>1 DEF Said
  <2> QED BY <2>1, NewBitfieldFacts DEF WireInit, Recorded
<1> QED BY <1>3, <1>4, <1>5, <1>6 DEF WireInv

\* The first bytes on the connection are the handshake.
LEMMA SendHandshakeStep ==
    ASSUME WireInv, NEW h \in Hellos, SendHandshake(h)
    PROVE  WireInv'
<1>1. /\ hello = Nil /\ hello' = h /\ stream' = SerializeHandshake(h) /\ peer' = peer
      /\ bits' = bits /\ sent' = sent /\ cut' = cut /\ got' = got /\ record' = record
  BY DEF SendHandshake
<1>2. peer = Nil /\ sent = <<>> /\ got = <<>> /\ Intact /\ h # Nil
  BY <1>1, WireAssumption DEF WireInv, Ends
<1>3. PICK z : z = SerializeHandshake(h)
  OBVIOUS
<1>4a. z \in Seq(Byte) /\ Len(z) = HandshakeLength /\ HandshakeLength \in Nat
  <2>1. <<>> \in Seq(Byte)
    OBVIOUS
  <2> QED BY <1>3, <2>1, HandshakeDecoded
<1>4. PICK l \in Nat : z \in Seq(Byte) /\ Len(z) = l /\ HandshakeLength = l
  BY <1>4a
<1>5. Intact' /\ Whole' = 0 /\ Len(got') = 0 /\ Len(sent') = 0
  BY <1>1, <1>2 DEF Intact, Whole
<1>6. Ends'
  BY <1>1, <1>3, <1>4, <1>5, <1>2 DEF WireInv, Ends
<1>7. Greeting'
  <2>1. LiesAt(z, z, 0)
    BY <1>4 DEF LiesAt
  <2> QED BY <1>1, <1>2, <1>3, <2>1 DEF Greeting
<1>8. InOrder'
  BY <1>5 DEF InOrder
<1>9. Transit'
  <2>1. PICK po : po = [k \in 0 .. 0 |-> l]
    OBVIOUS
  <2>2. Row(po, sent', z, 0, 0) /\ po[0] = l
    BY <2>1 DEF Row
  <2>3. UnderWay(sent', z, 0, 0, l, l)
    BY <2>2 DEF UnderWay
  <2>4. Front' = l
    BY <1>1, <1>2, <1>4 DEF Front
  <2> QED BY <1>1, <1>3, <1>4, <1>5, <2>3, <2>4 DEF Transit
<1>10. Announced' /\ Recorded'
  BY <1>1, <1>2 DEF WireInv, Announced, Recorded, Intact
<1> QED BY <1>6, <1>7, <1>8, <1>9, <1>10 DEF WireInv

\* ReadHandshake takes the handshake, and the messages move to the front.
LEMMA ReadHandshakeStep ==
    ASSUME WireInv, ReadHandshake
    PROVE  WireInv'
<1>1. /\ hello # Nil /\ peer = Nil /\ peer' = DeserializeHandshake(stream)
      /\ stream' = SubSeq(stream, HandshakeLength + 1, Len(stream)) /\ hello' = hello
      /\ bits' = bits /\ sent' = sent /\ cut' = cut /\ got' = got /\ record' = record
  BY DEF ReadHandshake, HandshakeRead
<1>2. hello \in Hellos /\ stream \in Seq(Byte) /\ LiesAt(SerializeHandshake(hello), stream, 0)
  BY <1>1 DEF WireInv, Ends, Greeting
<1>3. peer' = hello
  BY <1>1, <1>2, HandshakeDecoded
<1>4. PICK z : z = SerializeHandshake(hello)
  OBVIOUS
<1>5. Len(z) = HandshakeLength /\ HandshakeLength \in Nat
  BY <1>2, <1>4, HandshakeDecoded
<1>6. HandshakeLength \in 0 .. Len(stream)
  BY <1>2, <1>4, <1>5 DEF LiesAt
<1>7. stream' \in Seq(Byte) /\ Len(stream') = Len(stream) - HandshakeLength
  BY <1>1, <1>2, <1>6, Shifted
<1>8. (Intact' <=> Intact) /\ Whole' = Whole
  BY <1>1 DEF Intact, Whole
<1>9. Ends'
  BY <1>1, <1>7, <1>8 DEF WireInv, Ends
<1>10. Greeting'
  BY <1>1, <1>3 DEF Greeting
<1>11. InOrder'
  BY <1>1, <1>8 DEF WireInv, InOrder
<1>12. Transit'
  <2> SUFFICES ASSUME Len(got) <= Whole
               PROVE  /\ \E end : UnderWay(sent', stream', Len(got'), Whole', Front', end)
                      /\ Intact' => UnderWay(sent', stream', Len(got'), Whole', Front', Len(stream'))
    BY <1>1, <1>8 DEF Transit
  <2>1. Front = HandshakeLength /\ Front' = 0
    BY <1>1, <1>3 DEF Front
  <2>2. Len(got) \in Nat /\ Whole \in Nat /\ Codes(sent, Len(got), Whole)
    BY LogFacts DEF WireInv
  <2>3. /\ \E end : UnderWay(sent, stream, Len(got), Whole, HandshakeLength, end)
        /\ Intact => UnderWay(sent, stream, Len(got), Whole, HandshakeLength, Len(stream))
    BY <1>1, <2>1 DEF WireInv, Transit
  <2>4. \A end : UnderWay(sent, stream, Len(got), Whole, HandshakeLength, end) =>
           UnderWay(sent, stream', Len(got), Whole, 0, end - HandshakeLength)
    BY <1>1, <1>2, <1>6, <2>2, FewerBytes
  <2> QED BY <1>1, <1>7, <1>8, <2>1, <2>3, <2>4
<1>13. Announced' /\ Recorded'
  BY <1>1, <1>8 DEF WireInv, Announced, Recorded
<1> QED BY <1>9, <1>10, <1>11, <1>12, <1>13 DEF WireInv

\* A message sent whole is the last in the row, or follows a cut one.
LEMMA SendStep ==
    ASSUME WireInv, NEW m, Sendable(m), \A i \in Pieces : Tells(m, i) => Check(bits, i),
           Send(m)
    PROVE  WireInv'
<1>1. /\ hello # Nil /\ stream' = stream \o Serialize(m) /\ sent' = Append(sent, m)
      /\ hello' = hello /\ peer' = peer /\ bits' = bits /\ cut' = cut /\ got' = got
      /\ record' = record
  BY DEF Send
<1>2. stream \in Seq(Byte) /\ IsSequence(sent)
  BY DEF WireInv, Ends
<1>3. PICK z : z = Serialize(m)
  OBVIOUS
<1>4. z \in Seq(Byte)
  BY <1>2, <1>3, Decoded
<1>5. stream' \in Seq(Byte)
  BY <1>1, <1>2, <1>3, <1>4
<1>6. Longer(sent', sent, m)
  BY <1>1, <1>2, Appended
<1>7. PICK n \in Nat, g \in Nat : n = Len(sent) /\ g = Len(got)
  BY LogFacts DEF WireInv
<1>8. PICK w \in Nat : w = Whole /\ w <= n /\ Codes(sent, g, w)
  BY <1>7, LogFacts DEF WireInv
<1>9. /\ IsSequence(sent') /\ Len(sent') = n + 1 /\ (\A k \in 1 .. n : sent'[k] = sent[k])
      /\ sent'[n + 1] = m
  BY <1>6, <1>7 DEF Longer
<1>10. Intact' <=> Intact
  BY <1>1 DEF Intact
<1>11. Whole' = IF Intact THEN w + 1 ELSE w
  BY <1>1, <1>7, <1>8, <1>9, <1>10 DEF Whole
<1>12. Intact => w = n
  BY <1>7, <1>8 DEF Whole
<1>13. \A k \in 1 .. n + 1 : k \in 1 .. n \/ k = n + 1
  OBVIOUS
<1>14. Ends'
  <2>1. \A k \in 1 .. n + 1 : Sendable(sent'[k])
    BY <1>7, <1>9, <1>13 DEF WireInv, Ends
  <2>2. Intact \/ cut \in 0 .. n + 1
    BY <1>7 DEF WireInv, Ends
  <2> QED BY <1>1, <1>5, <1>9, <1>10, <2>1, <2>2 DEF WireInv, Ends
<1>15. Greeting'
  <2>1. hello # Nil /\ peer = Nil => LiesAt(SerializeHandshake(hello), stream', 0)
    <3> SUFFICES ASSUME peer = Nil PROVE LiesAt(SerializeHandshake(hello), stream', 0)
      OBVIOUS
    <3>1. LiesAt(SerializeHandshake(hello), stream, 0) /\ hello \in Hellos
      BY <1>1 DEF WireInv, Greeting, Ends
    <3>2. SerializeHandshake(hello) \in Seq(Byte) /\ 0 \in Nat
      BY <1>2, <3>1, HandshakeDecoded
    <3> QED BY <1>1, <1>2, <1>3, <1>4, <3>1, <3>2, LiesBefore
  <2> QED BY <1>1, <2>1 DEF WireInv, Greeting
<1>16. InOrder'
  <2>1. ASSUME NEW k \in 1 .. g, k <= Whole'
        PROVE  got[k] = sent'[k]
    <3>1. k <= w
      <4>1. Intact => g <= w
        BY <1>7, <1>12 DEF WireInv, InOrder
      <4> QED BY <1>11, <2>1, <4>1
    <3>2. k \in 1 .. n
      BY <1>8, <3>1
    <3> QED BY <1>7, <1>8, <1>9, <3>1, <3>2 DEF WireInv, InOrder
  <2>2. Intact => g <= n + 1
    BY <1>7 DEF WireInv, InOrder
  <2> QED BY <1>1, <1>7, <1>9, <1>10, <2>1, <2>2 DEF InOrder
<1>17. Transit'
  <2>1. Front' = Front
    BY <1>1 DEF Front
  <2>2. g <= w => /\ \E end : UnderWay(sent, stream, g, w, Front, end)
                  /\ Intact => UnderWay(sent, stream, g, w, Front, Len(stream))
    BY <1>1, <1>7, <1>8 DEF WireInv, Transit
  <2>3. \A k \in g + 1 .. w : sent'[k] = sent[k]
    BY <1>8, <1>9
  <2>4. CASE Intact
    <3>1. g <= w
      BY <1>7, <1>12, <2>4 DEF WireInv, InOrder
    <3>2. UnderWay(sent, stream, g, w, Front, Len(stream))
      BY <2>2, <2>4, <3>1
    <3>3. sent'[w + 1] = m
      BY <1>9, <1>12, <2>4
    <3>4. UnderWay(sent', stream \o Serialize(m), g, w + 1, Front, Len(stream \o Serialize(m)))
      BY <1>2, <1>3, <1>4, <1>8, <2>3, <3>1, <3>2, <3>3, MoreMessages
    <3>5. Whole' = w + 1
      BY <1>11, <2>4
    <3> QED BY <1>1, <1>7, <2>1, <3>4, <3>5 DEF Transit
  <2>5. CASE ~Intact
    <3>1. ASSUME g <= w
          PROVE  \E end : UnderWay(sent', stream', g, w, Front, end)
      <4>1. PICK end : UnderWay(sent, stream, g, w, Front, end)
        BY <2>2, <3>1
      <4>2. UnderWay(sent', stream \o z, g, w, Front, end)
        BY <1>2, <1>4, <1>8, <2>3, <4>1, MoreBytes
      <4> QED BY <1>1, <1>3, <4>2
    <3>2. Whole' = w
      BY <1>11, <2>5
    <3> QED BY <1>1, <1>7, <1>10, <2>1, <2>5, <3>1, <3>2 DEF Transit
  <2> QED BY <2>4, <2>5
<1>18. Announced'
  BY <1>1, <1>7, <1>9, <1>13 DEF WireInv, Announced
<1>19. Recorded'
  BY <1>1, <1>10 DEF WireInv, Recorded
<1> QED BY <1>14, <1>15, <1>16, <1>17, <1>18, <1>19 DEF WireInv

\* A cut write leaves the messages before it where they are.
LEMMA SendCutStep ==
    ASSUME WireInv, NEW m, Sendable(m), NEW n \in Nat, SendCut(m, n)
    PROVE  WireInv'
<1>1. /\ hello # Nil /\ Intact /\ n < Len(Serialize(m)) /\ Sends < MaxSends
      /\ stream' = stream \o SubSeq(Serialize(m), 1, n) /\ cut' = Len(sent)
      /\ hello' = hello /\ peer' = peer /\ bits' = bits /\ sent' = sent /\ got' = got
      /\ record' = record
  BY Zenon DEF SendCut
<1>2. PICK l \in Nat, g \in Nat : l = Len(sent) /\ g = Len(got) /\ Codes(sent, g, l)
  BY <1>1, LogFacts DEF WireInv, Whole
<1>3. ~Intact' /\ Whole' = l /\ Whole = l
  <2>1. l < MaxSends
    BY <1>1, <1>2 DEF Sends
  <2> QED BY <1>1, <1>2, <2>1, WireAssumption DEF Intact, Whole
<1>4. stream \in Seq(Byte)
  BY DEF WireInv, Ends
<1>5. PICK z : z = Serialize(m)
  OBVIOUS
<1>6. z \in Seq(Byte) /\ n < Len(z)
  BY <1>1, <1>4, <1>5, Decoded
<1>7. PICK y : y = SubSeq(z, 1, n)
  OBVIOUS
<1>8. y \in Seq(Byte)
  BY <1>6, <1>7
<1>9. stream' = stream \o y /\ stream' \in Seq(Byte)
  <2>1. stream' = stream \o y
    BY <1>1, <1>5, <1>7
  <2> QED BY <1>4, <1>8, <2>1
<1>10. Ends'
  BY <1>1, <1>2, <1>3, <1>9 DEF WireInv, Ends
<1>11. Greeting'
  <2>1. ASSUME peer = Nil
        PROVE  LiesAt(SerializeHandshake(hello), stream', 0)
    <3>1. LiesAt(SerializeHandshake(hello), stream, 0) /\ hello \in Hellos
      BY <1>1, <2>1 DEF WireInv, Greeting, Ends
    <3>2. SerializeHandshake(hello) \in Seq(Byte) /\ 0 \in Nat
      BY <1>4, <3>1, HandshakeDecoded
    <3> QED BY <1>4, <1>8, <1>9, <3>1, <3>2, LiesBefore
  <2> QED BY <1>1, <2>1 DEF WireInv, Greeting
<1>12. InOrder'
  BY <1>1, <1>2, <1>3 DEF WireInv, InOrder
<1>13. Transit'
  <2>1. Front' = Front
    BY <1>1 DEF Front
  <2>2. ASSUME g <= l
        PROVE  \E end : UnderWay(sent', stream', g, l, Front, end)
    <3>1. PICK end : UnderWay(sent, stream, g, l, Front, end)
      BY <1>1, <1>2, <1>3, <2>2 DEF WireInv, Transit
    <3>2. UnderWay(sent, stream \o y, g, l, Front, end)
      BY <1>2, <1>4, <1>8, <3>1, MoreBytes
    <3> QED BY <1>1, <1>9, <3>2
  <2> QED BY <1>1, <1>2, <1>3, <2>1, <2>2 DEF Transit
<1>14. Announced' /\ Recorded'
  BY <1>1, <1>3 DEF WireInv, Announced, Recorded
<1> QED BY <1>10, <1>11, <1>12, <1>13, <1>14 DEF WireInv

\* A piece acquired later denies nothing that was said.
LEMMA AcquireStep ==
    ASSUME WireInv, NEW i \in Indices, Acquire(i)
    PROVE  WireInv'
<1>1. /\ bits' = Set(bits, i) /\ hello' = hello /\ peer' = peer /\ stream' = stream
      /\ sent' = sent /\ cut' = cut /\ got' = got /\ record' = record
  BY DEF Acquire
<1>2. bits \in BitFields /\ i \in Pieces
  BY WireAssumption DEF WireInv, Ends, Pieces
<1>3. bits' \in BitFields /\ \A j \in Pieces : Check(bits, j) => Check(bits', j)
  BY <1>1, <1>2, SetFacts
<1>4. (Intact' <=> Intact) /\ Whole' = Whole /\ Front' = Front
  BY <1>1 DEF Intact, Whole, Front
<1>5. Ends'
  BY <1>1, <1>3, <1>4 DEF WireInv, Ends
<1>6. Greeting' /\ InOrder' /\ Transit'
  BY <1>1, <1>4 DEF WireInv, Greeting, InOrder, Transit
<1>7. Announced'
  BY <1>1, <1>3 DEF WireInv, Announced
<1>8. Recorded'
  BY <1>1, <1>4 DEF WireInv, Recorded
<1> QED BY <1>5, <1>6, <1>7, <1>8 DEF WireInv

(***************************************************************************)
(* What a message does to the record.                                      *)
(***************************************************************************)
NextRecord(m, r) == CASE m.type = "have" -> SetWithCheck(r, m.index)
                      [] m.type = "bitfield" /\ Len(m.bits) = Len(r) -> m.bits
                      [] OTHER -> r

\* The record keeps its length and stays bytes.
LEMMA RecordTyped ==
    ASSUME NEW m, NEW r \in BitFields,
           m.type = "have" => m.index \in Nat, m.type = "bitfield" => m.bits \in Seq(Byte)
    PROVE  NextRecord(m, r) \in BitFields
<1>1. CASE m.type = "have"
  <2>1. PICK i \in Nat : i = m.index
    BY <1>1
  <2>2. i < NumPieces => i \in Pieces
    BY WireAssumption, WordFacts DEF Pieces
  <2>3. SetWithCheck(r, i) \in BitFields
    <3>1. CASE i >= NumPieces \/ ByteOffset(i) > Len(r)
      BY <3>1 DEF SetWithCheck
    <3>2. CASE ~(i >= NumPieces \/ ByteOffset(i) > Len(r))
      <4>1. i \in Pieces
        BY <2>2, <3>2, WireAssumption, WordFacts
      <4> QED BY <3>2, <4>1, SetFacts DEF SetWithCheck
    <3> QED BY <3>1, <3>2
  <2> QED BY <1>1, <2>1, <2>3 DEF NextRecord
<1>2. CASE m.type = "bitfield"
  <2>0. PICK b : b = m.bits
    OBVIOUS
  <2>1. PICK l \in Nat : b = m.bits /\ l = Len(r)
    BY <2>0, BitFieldBytes
  <2>2. ASSUME Len(b) = l
        PROVE  b \in BitFields
    <3>1. DOMAIN NewBitfield = 1 .. l
      BY <2>1, BitFieldBytes DEF NewBitfield
    <3>2. b \in Seq(Byte)
      BY <1>2, <2>1
    <3>3. b \in [1 .. l -> Byte]
      BY <2>2, <3>2
    <3> QED BY <3>1, <3>3 DEF BitFields
  <2> QED BY <1>2, <2>1, <2>2 DEF NextRecord
<1>3. CASE m.type # "have" /\ m.type # "bitfield"
  BY <1>3 DEF NextRecord
<1> QED BY <1>1, <1>2, <1>3

\* The record lists what the message tells, and what it keeps.
LEMMA RecordTold ==
    ASSUME NEW m, Sendable(m), NEW r \in BitFields, NEW i \in Pieces
    PROVE  Check(NextRecord(m, r), i) <=> Tells(m, i) \/ (Check(r, i) /\ Keeps(m, i))
<1>1. CASE \E x \in Pieces : m = [type |-> "have", index |-> x]
  <2>1. PICK x \in Pieces : m = [type |-> "have", index |-> x]
    BY <1>1
  <2>2. m.type = "have" /\ m.index = x
    BY <2>1
  <2>3. SetWithCheck(r, x) = Set(r, x)
    <3>1. PICK l : l = Len(r)
      OBVIOUS
    <3>2. l = (NumPieces + 7) \div 8 /\ ByteOffset(x) \in 1 .. (NumPieces + 7) \div 8
      BY <3>1, BitFieldBytes, Offsets DEF NewBitfield
    <3>3. x < NumPieces /\ x \in Nat /\ NumPieces \in Nat
      BY WireAssumption, WordFacts DEF Pieces
    <3>4. ~(x >= NumPieces) /\ ~(ByteOffset(x) > l)
      BY <3>2, <3>3
    <3> QED BY <3>1, <3>4 DEF SetWithCheck
  <2>4. NextRecord(m, r) = Set(r, x)
    BY <2>2, <2>3 DEF NextRecord
  <2>5. Tells(m, i) <=> x = i
    BY <2>2 DEF Tells
  <2>6. Keeps(m, i)
    BY <2>2 DEF Keeps
  <2> QED BY <2>4, <2>5, <2>6, SetFacts
<1>2. CASE \E b \in BitFields : m = [type |-> "bitfield", bits |-> b]
  <2>1. PICK b \in BitFields : m = [type |-> "bitfield", bits |-> b]
    BY <1>2
  <2>2. m.type = "bitfield" /\ m.bits = b
    BY <2>1
  <2>3. Len(b) = Len(r)
    BY BitFieldBytes
  <2>4. NextRecord(m, r) = b
    BY <2>2, <2>3 DEF NextRecord
  <2>5. (Tells(m, i) <=> Check(b, i)) /\ (Keeps(m, i) <=> Check(b, i))
    BY <2>2 DEF Tells, Keeps
  <2> QED BY <2>4, <2>5
<1>3. CASE m.type # "have" /\ m.type # "bitfield"
  BY <1>3 DEF NextRecord, Tells, Keeps
<1>4. \/ \E x \in Pieces : m = [type |-> "have", index |-> x]
      \/ \E b \in BitFields : m = [type |-> "bitfield", bits |-> b]
      \/ m.type # "have" /\ m.type # "bitfield"
  BY DEF Sendable
<1> QED BY <1>1, <1>2, <1>3, <1>4

\* Listen takes the first message of the row.
LEMMA ListenStep ==
    ASSUME WireInv, Listen
    PROVE  WireInv'
<1>1. PICK m : m = Identify(stream)
  OBVIOUS
<1>2. /\ peer # Nil /\ Taken(stream) > 0 /\ got' = Append(got, m)
      /\ record' = NextRecord(m, record)
      /\ stream' = SubSeq(stream, Taken(stream) + 1, Len(stream))
      /\ hello' = hello /\ peer' = peer /\ bits' = bits /\ sent' = sent /\ cut' = cut
  BY <1>1 DEF Listen, NextRecord
<1>3. stream \in Seq(Byte) /\ record \in BitFields /\ IsSequence(got) /\ hello # Nil
  BY <1>2 DEF WireInv, Ends
<1>4. PICK t \in Nat : t = Taken(stream) /\ t \in 0 .. Len(stream) /\ t > 0
  BY <1>2, <1>3, TakenFacts
<1>5. stream' \in Seq(Byte) /\ Len(stream') = Len(stream) - t
  BY <1>2, <1>3, <1>4, Shifted
<1>6. record' \in BitFields
  BY <1>1, <1>2, <1>3, IdentifyTypes, RecordTyped
<1>7. Longer(got', got, m)
  BY <1>2, <1>3, Appended
<1>8. PICK n \in Nat, g \in Nat : n = Len(sent) /\ g = Len(got)
  BY LogFacts DEF WireInv
<1>9. PICK w \in Nat : w = Whole /\ w <= n /\ Codes(sent, g, w)
  BY <1>8, LogFacts DEF WireInv
<1>10. /\ IsSequence(got') /\ Len(got') = g + 1 /\ (\A k \in 1 .. g : got'[k] = got[k])
       /\ got'[g + 1] = m
  BY <1>7, <1>8 DEF Longer
<1>11. (Intact' <=> Intact) /\ Whole' = w /\ Front = 0 /\ Front' = 0
  BY <1>2, <1>9 DEF Intact, Whole, Front
<1>12. Intact => w = n
  BY <1>8, <1>9 DEF Whole
<1>13. ASSUME g < w
       PROVE  /\ Sendable(sent[g + 1]) /\ m = sent[g + 1]
              /\ \E end : UnderWay(sent, stream', g + 1, w, 0, end)
              /\ Intact => UnderWay(sent, stream', g + 1, w, 0, Len(stream'))
  <2>1. PICK x : x = sent[g + 1]
    OBVIOUS
  <2>2. Sendable(x)
    <3>1. g + 1 \in 1 .. n
      BY <1>9, <1>13
    <3> QED BY <1>8, <2>1, <3>1 DEF WireInv, Ends
  <2>3. /\ \E end : UnderWay(sent, stream, g, w, 0, end)
        /\ Intact => UnderWay(sent, stream, g, w, 0, Len(stream))
    <3>1. g <= w
      BY <1>13
    <3> QED BY <1>3, <1>8, <1>9, <1>11, <3>1 DEF WireInv, Transit
  <2>4. \A end : UnderWay(sent, stream, g, w, 0, end) =>
           /\ LiesAt(Serialize(x), stream, 0)
           /\ UnderWay(sent, stream, g + 1, w, Len(Serialize(x)), end)
    BY <1>3, <1>9, <1>13, <2>1, FirstMessage
  <2>5. Taken(stream) = Len(Serialize(x)) /\ Identify(stream) = x
    BY <1>3, <2>2, <2>3, <2>4, Decoded
  <2>6. \A end : UnderWay(sent, stream, g, w, 0, end) =>
           UnderWay(sent, stream, g + 1, w, t, end)
    BY <1>4, <2>4, <2>5
  <2>7. Codes(sent, g + 1, w)
    BY <1>9 DEF Codes
  <2>8. g + 1 \in Nat /\ g + 1 <= w
    BY <1>13
  <2>9. \A end : UnderWay(sent, stream, g + 1, w, t, end) =>
           UnderWay(sent, stream', g + 1, w, 0, end - t)
    BY <1>2, <1>3, <1>4, <2>7, <2>8, FewerBytes
  <2> QED BY <1>1, <1>5, <2>1, <2>2, <2>3, <2>5, <2>6, <2>9
<1>14. Intact => g < w
  <2> SUFFICES ASSUME Intact, ~(g < w) PROVE FALSE
    OBVIOUS
  <2>1. g = w
    BY <1>8, <1>12 DEF WireInv, InOrder
  <2>2. UnderWay(sent, stream, g, w, 0, Len(stream))
    BY <1>3, <1>8, <1>9, <1>11, <2>1 DEF WireInv, Transit
  <2>3. Len(stream) = 0
    BY <2>1, <2>2 DEF UnderWay
  <2> QED BY <1>4, <2>3
<1>15. Ends'
  BY <1>2, <1>3, <1>5, <1>6, <1>10, <1>11 DEF WireInv, Ends
<1>16. Greeting'
  BY <1>2 DEF WireInv, Greeting
<1>17. InOrder'
  <2>1. ASSUME NEW k \in 1 .. g + 1, k <= w
        PROVE  got'[k] = sent[k]
    <3>1. CASE k = g + 1
      BY <1>10, <1>13, <2>1, <3>1
    <3>2. CASE k # g + 1
      <4>1. k \in 1 .. g
        BY <3>2
      <4> QED BY <1>8, <1>9, <1>10, <2>1, <4>1 DEF WireInv, InOrder
    <3> QED BY <3>1, <3>2
  <2>2. Intact => g + 1 <= n
    BY <1>9, <1>14
  <2> QED BY <1>2, <1>8, <1>10, <1>11, <2>1, <2>2 DEF InOrder
<1>18. Transit'
  <2>1. ASSUME g + 1 <= w
        PROVE  /\ \E end : UnderWay(sent, stream', g + 1, w, 0, end)
               /\ Intact => UnderWay(sent, stream', g + 1, w, 0, Len(stream'))
    BY <1>13, <2>1
  <2> QED BY <1>2, <1>10, <1>11, <2>1 DEF Transit
<1>19. Announced'
  BY <1>2 DEF WireInv, Announced
<1>20. Recorded'
  <2> SUFFICES ASSUME Intact, NEW i \in Pieces
               PROVE  Check(record', i) <=> Said(got', i)
    BY <1>11 DEF Recorded
  <2>1. Sendable(m)
    BY <1>13, <1>14
  <2>2. Check(record', i) <=> Tells(m, i) \/ (Check(record, i) /\ Keeps(m, i))
    BY <1>2, <1>3, <2>1, RecordTold
  <2>3. Said(got', i) <=> Tells(m, i) \/ (Said(got, i) /\ Keeps(m, i))
    BY <1>7, SaidNext
  <2>4. Check(record, i) <=> Said(got, i)
    BY DEF WireInv, Recorded
  <2> QED BY <2>2, <2>3, <2>4
<1> QED BY <1>15, <1>16, <1>17, <1>18, <1>19, <1>20 DEF WireInv

\* A block of the sender fits a piece message.
LEMMA PieceSendable ==
    ASSUME NEW r \in Requests, NEW b \in Blocks
    PROVE  Sendable([type |-> "piece", index |-> r.index, begin |-> r.begin, block |-> b])
<1>1. PICK x, y : x = r.index /\ y = r.begin
  OBVIOUS
<1>2. x \in Word /\ y \in Word /\ b \in Seq(Byte)
  BY <1>1, WireAssumption
<1>3. Len(b) >= 1 /\ Len(b) <= RequestSize
  BY WireAssumption, WordFacts
<1> QED BY <1>1, <1>2, <1>3 DEF Sendable

(***************************************************************************)
(* What the Send methods are called with can be sent, and a message about  *)
(* pieces speaks of pieces that are there.                                 *)
(***************************************************************************)
LEMMA SendersStep ==
    ASSUME WireInv,
           \/ SendKeepAlive \/ SendUnchoke \/ SendChoke \/ SendInterested \/ SendNotInterested
           \/ SendBitfield
           \/ \E i \in Indices : SendHave(i)
           \/ \E r \in Requests : SendRequest(r) \/ SendCancel(r)
           \/ \E r \in Requests, b \in Blocks : SendPiece(r, b)
    PROVE  WireInv'
<1>1. ASSUME NEW t \in {"keepalive", "choke", "unchoke", "interest", "notinterest"},
             Send([type |-> t])
      PROVE  WireInv'
  <2>1. PICK m : m = [type |-> t]
    OBVIOUS
  <2>2. Sendable(m)
    BY <2>1 DEF Sendable
  <2>3. \A i \in Pieces : ~Tells(m, i)
    BY <2>1 DEF Tells
  <2> QED BY <1>1, <2>1, <2>2, <2>3, SendStep
<1>2. CASE SendKeepAlive \/ SendUnchoke \/ SendChoke \/ SendInterested \/ SendNotInterested
  BY <1>1, <1>2 DEF SendKeepAlive, SendUnchoke, SendChoke, SendInterested, SendNotInterested
<1>3. CASE SendBitfield
  <2>1. PICK m, b : m = [type |-> "bitfield", bits |-> b] /\ b = bits
    OBVIOUS
  <2>2. b \in BitFields
    BY <2>1 DEF WireInv, Ends
  <2>3. Sendable(m)
    BY <2>1, <2>2 DEF Sendable
  <2>4. \A i \in Pieces : Tells(m, i) => Check(bits, i)
    BY <2>1 DEF Tells
  <2>5. Send(m)
    BY <1>3, <2>1 DEF SendBitfield
  <2> QED BY <2>3, <2>4, <2>5, SendStep
<1>4. ASSUME NEW i \in Indices, SendHave(i)
      PROVE  WireInv'
  <2>1. PICK m : m = [type |-> "have", index |-> i]
    OBVIOUS
  <2>2. i \in Pieces
    BY WireAssumption DEF Pieces
  <2>3. Sendable(m)
    BY <2>1, <2>2 DEF Sendable
  <2>4. Send(m) /\ Check(bits, i)
    BY <1>4, <2>1 DEF SendHave
  <2>5. \A j \in Pieces : Tells(m, j) => Check(bits, j)
    BY <2>1, <2>4 DEF Tells
  <2> QED BY <2>3, <2>4, <2>5, SendStep
<1>5. ASSUME NEW r \in Requests, SendRequest(r) \/ SendCancel(r)
      PROVE  WireInv'
  <2>1. PICK x, y, l : x = r.index /\ y = r.begin /\ l = r.length
    OBVIOUS
  <2>2. x \in Word /\ y \in Word /\ l \in Nat
    BY <2>1, WireAssumption
  <2>3. l <= RequestSize
    BY <1>5, <2>1 DEF SendRequest, SendCancel
  <2>4. l \in Word
    BY <2>2, <2>3, WordFacts
  <2>5. PICK t \in {"request", "cancel"} :
           Send([type |-> t, index |-> x, begin |-> y, length |-> l])
    BY <1>5, <2>1 DEF SendRequest, SendCancel
  <2>6. PICK m : m = [type |-> t, index |-> x, begin |-> y, length |-> l]
    OBVIOUS
  <2>7. Sendable(m)
    BY <2>2, <2>3, <2>4, <2>6 DEF Sendable
  <2>8. \A i \in Pieces : ~Tells(m, i)
    BY <2>6 DEF Tells
  <2> QED BY <2>5, <2>6, <2>7, <2>8, SendStep
<1>6. ASSUME NEW r \in Requests, NEW b \in Blocks, SendPiece(r, b)
      PROVE  WireInv'
  <2>1. PICK m : m = [type |-> "piece", index |-> r.index, begin |-> r.begin, block |-> b]
    OBVIOUS
  <2>2. Sendable(m)
    BY <2>1, PieceSendable
  <2>3. \A i \in Pieces : ~Tells(m, i)
    BY <2>1 DEF Tells
  <2>4. Send(m)
    BY <1>6, <2>1 DEF SendPiece
  <2> QED BY <2>2, <2>3, <2>4, SendStep
<1> QED BY <1>2, <1>3, <1>4, <1>5, <1>6

\* Every step keeps the invariant.
LEMMA WireStep == WireInv /\ [WireNext]_wireVars => WireInv'
<1> SUFFICES ASSUME WireInv, [WireNext]_wireVars PROVE WireInv'
  OBVIOUS
<1>1. CASE \E h \in Hellos : SendHandshake(h)
  BY <1>1, SendHandshakeStep
<1>2. CASE ReadHandshake
  BY <1>2, ReadHandshakeStep
<1>3. CASE \/ SendKeepAlive \/ SendUnchoke \/ SendChoke \/ SendInterested \/ SendNotInterested
           \/ SendBitfield
           \/ \E i \in Indices : SendHave(i)
           \/ \E r \in Requests : SendRequest(r) \/ SendCancel(r)
           \/ \E r \in Requests, b \in Blocks : SendPiece(r, b)
  BY <1>3, SendersStep
<1>4. CASE \E i \in Indices : Acquire(i)
  BY <1>4, AcquireStep
<1>5. CASE \E n \in 0 .. 4 : SendCut([type |-> "unchoke"], n)
  <2>1. PICK m : m = [type |-> "unchoke"]
    OBVIOUS
  <2>2. Sendable(m)
    BY <2>1 DEF Sendable
  <2>3. PICK n \in Nat : SendCut(m, n)
    BY <1>5, <2>1
  <2> QED BY <2>2, <2>3, SendCutStep
<1>6. ASSUME NEW r \in Requests, NEW b \in Blocks, NEW m,
             m = [type |-> "piece", index |-> r.index, begin |-> r.begin, block |-> b],
             \E n \in 0 .. Len(Serialize(m)) - 1 : SendCut(m, n)
      PROVE  WireInv'
  <2>1. Sendable(m)
    BY <1>6, PieceSendable
  <2>2. PICK l \in Nat : l = Len(Serialize(m))
    <3>1. <<>> \in Seq(Byte)
      OBVIOUS
    <3>2. Serialize(m) \in Seq(Byte)
      BY <2>1, <3>1, Decoded
    <3> QED BY <3>2
  <2>3. PICK n \in 0 .. l - 1 : SendCut(m, n)
    BY <1>6, <2>2
  <2>4. n \in Nat
    OBVIOUS
  <2> QED BY <2>1, <2>3, <2>4, SendCutStep
<1>7. CASE Listen
  BY <1>7, ListenStep
<1>8. CASE UNCHANGED wireVars
  BY <1>8 DEF wireVars, WireInv, Ends, Greeting, InOrder, Transit, Announced, Recorded, Intact,
              Whole, Front
<1> QED BY <1>1, <1>2, <1>3, <1>4, <1>5, <1>6, <1>7, <1>8 DEF WireNext

(***************************************************************************)
(* The invariant: until they are taken, the messages lie in a row in the   *)
(* stream; what was taken is what was sent; and the record is what was     *)
(* said.                                                                   *)
(***************************************************************************)
THEOREM WireInvariance == WireSpec => []WireInv
<1> QED BY WireInitially, WireStep, PTL DEF WireSpec

(***************************************************************************)
(* Whatever is sent, and however it is split between writes, reads and     *)
(* cut writes: the listener takes the messages that were sent, in order    *)
(* and unchanged, up to the first one that was cut, and it never waits     *)
(* while a whole one is there.                                             *)
(***************************************************************************)
THEOREM FramingHolds == WireSpec => []Framing
<1>1. ASSUME WireInv
      PROVE  Framing
  <2>1. PICK g \in Nat, n \in Nat : g = Len(got) /\ n = Len(sent) /\ DOMAIN got = 1 .. g
    BY <1>1, LogFacts DEF WireInv
  <2>2. PICK w \in Nat : w = Whole /\ w <= n /\ Codes(sent, g, w)
    BY <1>1, <2>1, LogFacts DEF WireInv
  <2>3. ASSUME peer # Nil, Taken(stream) = 0
        PROVE  g >= w
    <3> SUFFICES ASSUME g < w PROVE FALSE
      OBVIOUS
    <3>1. hello # Nil /\ Front = 0 /\ stream \in Seq(Byte)
      BY <1>1, <2>3 DEF WireInv, Ends, Front
    <3>2. g <= w /\ g + 1 \in 1 .. n
      BY <2>2
    <3>3. PICK end : UnderWay(sent, stream, g, w, 0, end)
      BY <1>1, <2>1, <2>2, <3>1, <3>2 DEF WireInv, Transit
    <3>4. LiesAt(Serialize(sent[g + 1]), stream, 0)
      BY <2>2, <3>1, <3>3, FirstMessage
    <3>5. Sendable(sent[g + 1])
      BY <1>1, <2>1, <3>2 DEF WireInv, Ends
    <3>6. Taken(stream) >= 4
      BY <3>1, <3>4, <3>5, Decoded
    <3> QED BY <2>3, <3>6
  <2>4. peer # Nil => peer = hello
    BY <1>1 DEF WireInv, Greeting
  <2>5. /\ \A k \in DOMAIN got : k <= Whole => got[k] = sent[k]
        /\ Intact => Len(got) <= Len(sent)
    BY <1>1, <2>1 DEF WireInv, InOrder
  <2>6. peer # Nil /\ Taken(stream) = 0 => Len(got) >= Whole
    BY <2>1, <2>2, <2>3
  <2> QED BY <2>4, <2>5, <2>6 DEF Framing
<1> QED BY <1>1, WireInvariance, PTL

(***************************************************************************)
(* The receiver's record is, bit by bit, what the last bitfield and the    *)
(* haves after it said, never lists a piece that the sender lacks, and     *)
(* keeps its length even when rubbish arrives after a cut write.           *)
(***************************************************************************)
THEOREM RecordHolds == WireSpec => []RecordAsAnnounced
<1>1. ASSUME WireInv
      PROVE  RecordAsAnnounced
  <2>1. PICK g \in Nat, n \in Nat : g = Len(got) /\ n = Len(sent) /\ DOMAIN got = 1 .. g
    BY <1>1, LogFacts DEF WireInv
  <2>2. record \in BitFields
    BY <1>1 DEF WireInv, Ends
  <2>3. ASSUME Intact, NEW i \in Pieces
        PROVE  Check(record, i) <=> \E k \in DOMAIN got : /\ Tells(got[k], i)
                              /\ \A l \in DOMAIN got : l > k => Keeps(got[l], i)
    BY <1>1, <2>1, <2>3 DEF WireInv, Recorded, Said
  <2>4. ASSUME Intact, NEW i \in Pieces, Check(record, i)
        PROVE  Check(bits, i)
    <3>1. PICK k \in 1 .. g : Tells(got[k], i)
      BY <2>1, <2>3, <2>4
    <3>2. g <= n /\ Whole = n
      BY <1>1, <2>1, <2>4 DEF WireInv, InOrder, Whole
    <3>3. got[k] = sent[k] /\ k \in 1 .. n
      BY <1>1, <2>1, <3>2 DEF WireInv, InOrder
    <3> QED BY <1>1, <2>1, <3>1, <3>3 DEF WireInv, Announced
  <2>5. Intact => ExistingPieces(record) \cap MissingPieces(bits) = {}
    BY <2>4 DEF ExistingPieces, MissingPieces, Pieces
  <2> QED BY <2>2, <2>3, <2>5 DEF RecordAsAnnounced, BitFields, Pieces
<1> QED BY <1>1, WireInvariance, PTL

-----------------------------------------------------------------------------
(***************************************************************************)
(* torrent.From makes the same of a document in every order of its keys,   *)
(* for every set of documents.                                             *)
(*                                                                         *)
(* While a document is read, the MetaInfoFile is a function of the set of  *)
(* keys applied so far, whatever their order: that is the invariant.  An   *)
(* info dictionary is applied as a whole, so its keys count from the       *)
(* moment "info" is taken.                                                 *)
(***************************************************************************)

\* The keys applied so far.
Top(k)   == k \in TopKeys /\ doc[k] # Absent /\ k \notin todo
Inner(k) == k \in InfoKeys /\ doc[k] # Absent /\ Top("info") /\ k \notin infoTodo

OfTop(k, zero)   == IF Top(k) THEN doc[k] ELSE zero
OfInner(k, zero) == IF Inner(k) THEN doc[k] ELSE zero

\* The MetaInfoFile that those keys make.
Partial ==
    [announce    |-> OfTop("announce", ""),
     single      |-> IF (Top("info") /\ ~IsMultiFile) \/ Inner("length") \/ Inner("md5sum")
                     THEN [name   |-> IF IsMultiFile THEN "" ELSE OfInner("name", ""),
                           length |-> OfInner("length", 0)]
                     ELSE Absent,
     multi       |-> IF Top("info") /\ IsMultiFile
                     THEN [name |-> OfInner("name", ""), files |-> OfInner("files", <<>>)]
                     ELSE Absent,
     pieceLength |-> OfInner("pieceLength", 0),
     pieces      |-> OfInner("pieces", 0)]

\* What is left to do are keys of the document, and none so far was refused.
KeyInv ==
    /\ doc \in Documents
    /\ todo \subseteq {k \in TopKeys : doc[k] # Absent}
    /\ infoTodo \subseteq {k \in InfoKeys : doc[k] # Absent}
    /\ infoTodo # {} => Top("info")
    /\ \A k \in TopKeys : Top(k) => doc[k] # Wrong /\ k # "unknown"
    /\ \A k \in InfoKeys : Inner(k) => doc[k] # Wrong /\ k # "other"

ReadInv ==
    /\ verdict \in {"none", "reading", "accepted", "rejected"}
    /\ verdict = "none" => MetainfoInit
    /\ verdict = "reading" => KeyInv /\ meta = Partial
    /\ FromIsOrderFree

-----------------------------------------------------------------------------
(***************************************************************************)
(* A refused key is one of the document that no acceptable document has.   *)
(***************************************************************************)
LEMMA Refused ==
    ASSUME KeyInv, NEW k \in todo \cup infoTodo,
           doc[k] = Wrong \/ k = "unknown" \/ k = "other"
    PROVE  ~Acceptable(doc)
<1>1. k \in DOMAIN doc /\ doc[k] # Absent
  BY DocumentAssumption DEF KeyInv
<1> QED BY <1>1 DEF Acceptable

(***************************************************************************)
(* A document is opened: no key is applied yet.                            *)
(***************************************************************************)
LEMMA OpenStep ==
    ASSUME ReadInv, Open
    PROVE  ReadInv'
<1>1. /\ verdict = "none" /\ verdict' = "reading" /\ doc' \in Documents
      /\ todo' = {k \in TopKeys : doc'[k] # Absent} /\ infoTodo' = {} /\ meta' = Empty
  BY DEF ReadInv, Open, MetainfoInit
<1>2. (\A k : ~Top(k)') /\ (\A k : ~Inner(k)')
  BY <1>1 DEF Top, Inner
<1>3. KeyInv'
  BY <1>1, <1>2 DEF KeyInv
<1>4. Partial' = Empty
  BY <1>2 DEF Partial, OfTop, OfInner, Empty
<1> QED BY <1>1, <1>3, <1>4 DEF ReadInv, FromIsOrderFree

(***************************************************************************)
(* A key at the top.                                                       *)
(***************************************************************************)
LEMMA ApplyStep ==
    ASSUME ReadInv, NEW k \in TopKeys, Apply(k)
    PROVE  ReadInv'
<1>0. /\ verdict = "reading" /\ KeyInv /\ meta = Partial /\ k \in todo /\ infoTodo = {}
      /\ todo' = todo \ {k} /\ doc' = doc
      /\ infoTodo' = IF k = "info" THEN {j \in InfoKeys : doc[j] # Absent} ELSE {}
  BY DEF ReadInv, Apply
<1>1. CASE doc[k] = Wrong \/ k = "unknown"
  <2>1. verdict' = "rejected"
    BY <1>1 DEF Apply, Reject
  <2>2. ~Acceptable(doc')
    BY <1>0, <1>1, Refused
  <2> QED BY <2>1, <2>2 DEF ReadInv, FromIsOrderFree
<1>2. CASE ~(doc[k] = Wrong \/ k = "unknown")
  <2>0. /\ verdict' = "reading"
        /\ meta' = CASE k = "announce" -> [meta EXCEPT !.announce = doc[k]]
                     [] k = "info" /\ IsMultiFile ->
                            [meta EXCEPT !.multi = [name |-> "", files |-> <<>>]]
                     [] k = "info" /\ ~IsMultiFile -> [meta EXCEPT !.single = Single]
                     [] OTHER -> meta
    BY <1>0, <1>2 DEF Apply
  <2>1. doc[k] # Absent /\ ~Top(k)
    BY <1>0 DEF KeyInv, Top
  <2>2. \A j : Top(j)' <=> Top(j) \/ j = k
    BY <1>0, <2>1 DEF Top
  <2>3. \A j : Inner(j)' <=> Inner(j)
    <3>1. CASE k = "info"
      BY <1>0, <2>1, <3>1 DEF Inner
    <3>2. CASE k # "info"
      BY <1>0, <2>2, <3>2 DEF Inner
    <3> QED BY <3>1, <3>2
  <2>4. KeyInv'
    BY <1>0, <1>2, <2>1, <2>2, <2>3 DEF KeyInv
  <2>5. /\ OfTop("announce", "")' = IF k = "announce" THEN doc[k] ELSE OfTop("announce", "")
        /\ OfInner("name", "")' = OfInner("name", "")
        /\ OfInner("length", 0)' = OfInner("length", 0)
        /\ OfInner("files", <<>>)' = OfInner("files", <<>>)
        /\ OfInner("pieceLength", 0)' = OfInner("pieceLength", 0)
        /\ OfInner("pieces", 0)' = OfInner("pieces", 0)
        /\ IsMultiFile' = IsMultiFile
    BY <1>0, <2>2, <2>3 DEF OfTop, OfInner, IsMultiFile
  <2>6. k = "info" => /\ OfInner("name", "") = "" /\ OfInner("length", 0) = 0
                      /\ OfInner("files", <<>>) = <<>>
                      /\ ~Inner("length") /\ ~Inner("md5sum")
    BY <2>1 DEF OfInner, Inner
  <2>7. meta' = Partial'
    <3>1. CASE k = "info"
      BY <1>0, <2>0, <2>1, <2>2, <2>3, <2>5, <2>6, <3>1 DEF Partial, Single
    <3>2. CASE k = "announce"
      BY <1>0, <2>0, <2>2, <2>3, <2>5, <3>2 DEF Partial
    <3>3. CASE k \notin {"info", "announce"}
      BY <1>0, <2>0, <2>2, <2>3, <2>5, <3>3 DEF Partial
    <3> QED BY <3>1, <3>2, <3>3
  <2> QED BY <2>0, <2>4, <2>7 DEF ReadInv, FromIsOrderFree
<1> QED BY <1>1, <1>2

(***************************************************************************)
(* Updates of the records within a MetaInfoFile.                           *)
(***************************************************************************)
LEMMA Updates ==
    ASSUME NEW a, NEW s, NEW m, NEW l, NEW p, NEW v, NEW M,
           M = [announce |-> a, single |-> s, multi |-> m, pieceLength |-> l, pieces |-> p]
    PROVE  /\ [M EXCEPT !.single = v] =
                 [announce |-> a, single |-> v, multi |-> m, pieceLength |-> l, pieces |-> p]
           /\ [M EXCEPT !.single.name = v] =
                 [announce |-> a, single |-> [s EXCEPT !.name = v], multi |-> m,
                  pieceLength |-> l, pieces |-> p]
           /\ [M EXCEPT !.multi.name = v] =
                 [announce |-> a, single |-> s, multi |-> [m EXCEPT !.name = v],
                  pieceLength |-> l, pieces |-> p]
           /\ [M EXCEPT !.multi.files = v] =
                 [announce |-> a, single |-> s, multi |-> [m EXCEPT !.files = v],
                  pieceLength |-> l, pieces |-> p]
OBVIOUS

\* The same for the fields of single and of multi.
LEMMA InnerUpdates ==
    ASSUME NEW n, NEW x, NEW v, NEW M
    PROVE  /\ M = [name |-> n, files |-> x] =>
                 /\ [M EXCEPT !.name = v] = [name |-> v, files |-> x]
                 /\ [M EXCEPT !.files = v] = [name |-> n, files |-> v]
           /\ M = [name |-> n, length |-> x] =>
                 /\ [M EXCEPT !.name = v] = [name |-> v, length |-> x]
                 /\ [M EXCEPT !.length = v] = [name |-> n, length |-> v]
OBVIOUS

(***************************************************************************)
(* A key of the info dictionary.                                           *)
(***************************************************************************)
LEMMA InfoStep ==
    ASSUME ReadInv, NEW k \in InfoKeys, InfoCommon(k)
    PROVE  ReadInv'
<1>0. /\ verdict = "reading" /\ KeyInv /\ meta = Partial /\ k \in infoTodo
      /\ infoTodo' = infoTodo \ {k} /\ doc' = doc /\ todo' = todo
  BY DEF ReadInv, InfoCommon
<1>1. CASE doc[k] = Wrong \/ k = "other"
  <2>1. verdict' = "rejected"
    BY <1>1 DEF InfoCommon, Reject
  <2>2. ~Acceptable(doc')
    BY <1>0, <1>1, Refused
  <2> QED BY <2>1, <2>2 DEF ReadInv, FromIsOrderFree
<1>2. CASE ~(doc[k] = Wrong \/ k = "other")
  <2>0. /\ verdict' = "reading"
        /\ meta' = CASE k = "name"   -> WithName(meta, doc[k])
                     [] k = "length" -> [meta EXCEPT !.single =
                                            [SingleOf(meta) EXCEPT !.length = doc[k]]]
                     [] k = "md5sum" -> [meta EXCEPT !.single = SingleOf(meta)]
                     [] k = "files"  -> [meta EXCEPT !.multi.files = doc[k]]
                     [] k = "pieceLength" -> [meta EXCEPT !.pieceLength = doc[k]]
                     [] k = "pieces" -> [meta EXCEPT !.pieces = doc[k]]
                     [] k = "private" -> meta
    BY <1>0, <1>2 DEF InfoCommon
  <2>1. doc[k] # Absent /\ ~Inner(k) /\ Top("info")
    BY <1>0 DEF KeyInv, Inner
  <2>2. \A j : Top(j)' <=> Top(j)
    BY <1>0 DEF Top
  <2>3. \A j : Inner(j)' <=> Inner(j) \/ j = k
    BY <1>0, <2>1, <2>2 DEF Inner
  <2>4. KeyInv'
    BY <1>0, <1>2, <2>1, <2>2, <2>3 DEF KeyInv
  <2>5. /\ OfTop("announce", "")' = OfTop("announce", "")
        /\ OfInner("name", "")' = IF k = "name" THEN doc[k] ELSE OfInner("name", "")
        /\ OfInner("length", 0)' = IF k = "length" THEN doc[k] ELSE OfInner("length", 0)
        /\ OfInner("files", <<>>)' = IF k = "files" THEN doc[k] ELSE OfInner("files", <<>>)
        /\ OfInner("pieceLength", 0)' =
               IF k = "pieceLength" THEN doc[k] ELSE OfInner("pieceLength", 0)
        /\ OfInner("pieces", 0)' = IF k = "pieces" THEN doc[k] ELSE OfInner("pieces", 0)
        /\ IsMultiFile' = IsMultiFile
    BY <1>0, <2>2, <2>3 DEF OfTop, OfInner, IsMultiFile
  <2>6. k = "files" => IsMultiFile
    BY <2>1 DEF IsMultiFile
  <2>7. /\ [name |-> IF IsMultiFile THEN "" ELSE OfInner("name", ""),
            length |-> OfInner("length", 0)] # Absent
        /\ ~(Inner("length") \/ Inner("md5sum")) => OfInner("length", 0) = 0
    <3>1. OfInner("name", "") \in Names /\ OfInner("length", 0) \in Lengths /\ "" \in Names
      BY <1>0 DEF OfInner, KeyInv, Names, Lengths
    <3>2. ~Inner("length") => OfInner("length", 0) = 0
      BY DEF OfInner
    <3>3. PICK n \in Names, l \in Lengths :
             n = (IF IsMultiFile THEN "" ELSE OfInner("name", "")) /\ l = OfInner("length", 0)
      BY <3>1
    <3>4. [name |-> n, length |-> l] # Absent
      BY DocumentAssumption
    <3> QED BY <3>2, <3>3, <3>4
  <2>8. meta' = Partial'
    <3>0. PICK a, s, m, l, p :
             /\ meta = [announce |-> a, single |-> s, multi |-> m, pieceLength |-> l, pieces |-> p]
             /\ a = OfTop("announce", "")
             /\ s = IF ~IsMultiFile \/ Inner("length") \/ Inner("md5sum")
                    THEN [name   |-> IF IsMultiFile THEN "" ELSE OfInner("name", ""),
                          length |-> OfInner("length", 0)]
                    ELSE Absent
             /\ m = IF IsMultiFile
                    THEN [name |-> OfInner("name", ""), files |-> OfInner("files", <<>>)]
                    ELSE Absent
             /\ l = OfInner("pieceLength", 0) /\ p = OfInner("pieces", 0)
      BY <1>0, <2>1 DEF Partial
    <3>1. CASE k = "name"
      <4>1. CASE IsMultiFile
        <5>1. meta' = [meta EXCEPT !.multi.name = doc[k]]
          BY <2>0, <3>1, <4>1 DEF WithName
        <5>2. meta' = [announce |-> a, single |-> s, multi |-> [m EXCEPT !.name = doc[k]],
                       pieceLength |-> l, pieces |-> p]
          BY <3>0, <5>1, Updates
        <5>3. [m EXCEPT !.name = doc[k]] = [name |-> doc[k], files |-> OfInner("files", <<>>)]
          <6>1. PICK n, x, v : n = OfInner("name", "") /\ x = OfInner("files", <<>>) /\ v = doc[k]
            OBVIOUS
          <6>2. m = [name |-> n, files |-> x]
            BY <3>0, <4>1, <6>1
          <6>3. [m EXCEPT !.name = v] = [name |-> v, files |-> x]
            BY <6>2, InnerUpdates
          <6> QED BY <6>1, <6>3
        <5> QED BY <2>1, <2>2, <2>3, <2>5, <3>0, <3>1, <4>1, <5>2, <5>3 DEF Partial
      <4>2. CASE ~IsMultiFile
        <5>1. meta' = [meta EXCEPT !.single.name = doc[k]]
          BY <2>0, <3>1, <4>2 DEF WithName
        <5>2. meta' = [announce |-> a, single |-> [s EXCEPT !.name = doc[k]], multi |-> m,
                       pieceLength |-> l, pieces |-> p]
          BY <3>0, <5>1, Updates
        <5>3. [s EXCEPT !.name = doc[k]] = [name |-> doc[k], length |-> OfInner("length", 0)]
          <6>1. PICK n, x, v : n = OfInner("name", "") /\ x = OfInner("length", 0) /\ v = doc[k]
            OBVIOUS
          <6>2. s = [name |-> n, length |-> x]
            BY <3>0, <4>2, <6>1
          <6>3. [s EXCEPT !.name = v] = [name |-> v, length |-> x]
            BY <6>2, InnerUpdates
          <6> QED BY <6>1, <6>3
        <5> QED BY <2>1, <2>2, <2>3, <2>5, <3>0, <3>1, <4>2, <5>2, <5>3 DEF Partial
      <4> QED BY <4>1, <4>2
    <3>2. CASE k \in {"length", "md5sum"}
      <4>1. SingleOf(meta) = [name |-> IF IsMultiFile THEN "" ELSE OfInner("name", ""),
                              length |-> OfInner("length", 0)]
        <5>1. SingleOf(meta) = IF s = Absent THEN Single ELSE s
          BY <3>0 DEF SingleOf
        <5> QED BY <2>7, <3>0, <5>1 DEF Single
      <4>2. CASE k = "length"
        <5>1. meta' = [meta EXCEPT !.single = [SingleOf(meta) EXCEPT !.length = doc[k]]]
          BY <2>0, <4>2
        <5>2. [SingleOf(meta) EXCEPT !.length = doc[k]] =
                 [name |-> IF IsMultiFile THEN "" ELSE OfInner("name", ""), length |-> doc[k]]
          <6>1. PICK n, x, v, S : /\ n = (IF IsMultiFile THEN "" ELSE OfInner("name", ""))
                                  /\ x = OfInner("length", 0) /\ v = doc[k] /\ S = SingleOf(meta)
            OBVIOUS
          <6>2. S = [name |-> n, length |-> x]
            BY <4>1, <6>1
          <6>3. [S EXCEPT !.length = v] = [name |-> n, length |-> v]
            BY <6>2, InnerUpdates
          <6> QED BY <6>1, <6>3
        <5>3. meta' = [announce |-> a, multi |-> m, pieceLength |-> l, pieces |-> p, single |->
                 [name |-> IF IsMultiFile THEN "" ELSE OfInner("name", ""), length |-> doc[k]]]
          BY <3>0, <5>1, <5>2, Updates
        <5> QED BY <2>1, <2>2, <2>3, <2>5, <3>0, <4>2, <5>3 DEF Partial
      <4>3. CASE k = "md5sum"
        <5>1. meta' = [meta EXCEPT !.single = SingleOf(meta)]
          BY <2>0, <4>3
        <5>2. meta' = [announce |-> a, multi |-> m, pieceLength |-> l, pieces |-> p, single |->
                 [name |-> IF IsMultiFile THEN "" ELSE OfInner("name", ""),
                  length |-> OfInner("length", 0)]]
          BY <3>0, <4>1, <5>1, Updates
        <5> QED BY <2>1, <2>2, <2>3, <2>5, <3>0, <4>3, <5>2 DEF Partial
      <4> QED BY <3>2, <4>2, <4>3
    <3>4. CASE k = "files"
      <4>1. meta' = [meta EXCEPT !.multi.files = doc[k]]
        BY <2>0, <3>4
      <4>2. meta' = [announce |-> a, single |-> s, multi |-> [m EXCEPT !.files = doc[k]],
                     pieceLength |-> l, pieces |-> p]
        BY <3>0, <4>1, Updates
      <4>3. [m EXCEPT !.files = doc[k]] = [name |-> OfInner("name", ""), files |-> doc[k]]
        <5>1. PICK n, x, v : n = OfInner("name", "") /\ x = OfInner("files", <<>>) /\ v = doc[k]
          OBVIOUS
        <5>2. m = [name |-> n, files |-> x]
          BY <2>6, <3>0, <3>4, <5>1
        <5>3. [m EXCEPT !.files = v] = [name |-> n, files |-> v]
          BY <5>2, InnerUpdates
        <5> QED BY <5>1, <5>3
      <4> QED BY <2>1, <2>2, <2>3, <2>5, <2>6, <3>0, <3>4, <4>2, <4>3 DEF Partial
    <3>5. CASE k \in {"pieceLength", "pieces", "private"}
      BY <1>0, <2>0, <2>1, <2>2, <2>3, <2>5, <3>5 DEF Partial
    <3> QED BY <1>2, <3>1, <3>2, <3>4, <3>5 DEF InfoKeys
  <2> QED BY <2>0, <2>4, <2>8 DEF ReadInv, FromIsOrderFree
<1> QED BY <1>1, <1>2

(***************************************************************************)
(* The records a document can be given are not the nil pointer.            *)
(***************************************************************************)
LEMMA RecordsPresent ==
    ASSUME NEW n \in Names
    PROVE  /\ \A x \in Lengths : [name |-> n, length |-> x] # Absent
           /\ \A f \in FileLists : [name |-> n, files |-> f] # Absent
BY DocumentAssumption

(***************************************************************************)
(* Every key is applied: validate accepts exactly the acceptable ones.     *)
(***************************************************************************)
LEMMA ValidateStep ==
    ASSUME ReadInv, Validate
    PROVE  ReadInv'
<1>0. /\ verdict = "reading" /\ KeyInv /\ meta = Partial /\ todo = {} /\ infoTodo = {}
      /\ verdict' = (IF Valid(meta) THEN "accepted" ELSE "rejected")
      /\ doc' = doc /\ meta' = meta
  BY DEF ReadInv, Validate
<1>1. /\ \A k \in TopKeys : Top(k) <=> doc[k] # Absent
      /\ \A k \in InfoKeys : Inner(k) <=> doc[k] # Absent /\ doc["info"] # Absent
  BY <1>0 DEF Top, Inner, TopKeys
<1>2. DOMAIN doc = TopKeys \cup InfoKeys /\ Absent # Wrong
  BY <1>0, DocumentAssumption DEF KeyInv
<1>3. CASE doc["info"] = Absent
  <2>1. ~Acceptable(doc)
    BY <1>3 DEF Acceptable
  <2>2. meta.single = Absent /\ meta.multi = Absent
    BY <1>0, <1>1, <1>3 DEF Partial, TopKeys, InfoKeys
  <2>3. ~Valid(meta)
    BY <2>2 DEF Valid
  <2> QED BY <1>0, <2>1, <2>3 DEF ReadInv, FromIsOrderFree
<1>4. CASE doc["info"] # Absent
  <2>1. /\ \A k \in DOMAIN doc : doc[k] # Wrong
        /\ doc["unknown"] = Absent /\ doc["other"] = Absent
    BY <1>0, <1>1, <1>2, <1>4 DEF KeyInv, TopKeys, InfoKeys
  <2>2. PICK a, n, x, f, l, p :
           /\ a = OfTop("announce", "") /\ n = OfInner("name", "")
           /\ x = OfInner("length", 0)  /\ f = OfInner("files", <<>>)
           /\ l = OfInner("pieceLength", 0) /\ p = OfInner("pieces", 0)
    OBVIOUS
  <2>3. /\ a = IF doc["announce"] = Absent THEN "" ELSE doc["announce"]
        /\ n = IF doc["name"] = Absent THEN "" ELSE doc["name"]
        /\ x = IF doc["length"] = Absent THEN 0 ELSE doc["length"]
        /\ f = IF doc["files"] = Absent THEN <<>> ELSE doc["files"]
        /\ l = IF doc["pieceLength"] = Absent THEN 0 ELSE doc["pieceLength"]
        /\ p = IF doc["pieces"] = Absent THEN 0 ELSE doc["pieces"]
    BY <1>1, <1>4, <2>2 DEF OfTop, OfInner, TopKeys, InfoKeys
  <2>4. n \in Names /\ x \in Lengths /\ f \in FileLists /\ "" \in Names
    BY <1>0, <2>3 DEF KeyInv, Names, Lengths, FileLists
  <2>5. [name |-> n, length |-> x] # Absent /\ [name |-> "", length |-> x] # Absent
    BY <2>4, RecordsPresent
  <2>6. [name |-> n, files |-> f] # Absent
    BY <2>4, RecordsPresent
  <2>7. CASE doc["files"] = Absent
    <3>1. meta = [announce |-> a, single |-> [name |-> n, length |-> x], multi |-> Absent,
                  pieceLength |-> l, pieces |-> p]
      BY <1>0, <1>1, <1>4, <2>2, <2>7 DEF Partial, IsMultiFile, TopKeys, InfoKeys
    <3>2. Valid(meta) <=> a # "" /\ p # 0 /\ p % 20 = 0 /\ n # "" /\ x # 0
      BY <2>5, <3>1 DEF Valid
    <3>3. Acceptable(doc) <=> a # "" /\ p # 0 /\ p % 20 = 0 /\ n # "" /\ x # 0
      BY <1>4, <2>1, <2>3, <2>7 DEF Acceptable
    <3>4. Acceptable(doc) => meta = Meaning(doc)
      BY <2>3, <2>7, <3>1 DEF Acceptable, Meaning
    <3> QED BY <1>0, <3>2, <3>3, <3>4 DEF ReadInv, FromIsOrderFree
  <2>8. CASE doc["files"] # Absent
    <3>1. CASE doc["length"] = Absent /\ doc["md5sum"] = Absent
      <4>1. meta = [announce |-> a, single |-> Absent, multi |-> [name |-> n, files |-> f],
                    pieceLength |-> l, pieces |-> p]
        BY <1>0, <1>1, <1>4, <2>2, <2>8, <3>1 DEF Partial, IsMultiFile, TopKeys, InfoKeys
      <4>2. Valid(meta) <=> /\ a # "" /\ p # 0 /\ p % 20 = 0 /\ n # ""
                            /\ \A i \in DOMAIN f : f[i].length # 0 /\ f[i].path # ""
        BY <2>6, <4>1 DEF Valid
      <4>3. Acceptable(doc) <=> /\ a # "" /\ p # 0 /\ p % 20 = 0 /\ n # ""
                                /\ \A i \in DOMAIN f : f[i].length # 0 /\ f[i].path # ""
        BY <1>4, <2>1, <2>3, <2>8, <3>1 DEF Acceptable, FilesOk
      <4>4. Acceptable(doc) => meta = Meaning(doc)
        BY <2>3, <2>8, <4>1 DEF Acceptable, Meaning
      <4> QED BY <1>0, <4>2, <4>3, <4>4 DEF ReadInv, FromIsOrderFree
    <3>2. CASE ~(doc["length"] = Absent /\ doc["md5sum"] = Absent)
      <4>1. ~Acceptable(doc)
        BY <2>8, <3>2 DEF Acceptable
      <4>2. meta.single = [name |-> "", length |-> x]
        BY <1>0, <1>1, <1>4, <2>2, <2>8, <3>2 DEF Partial, IsMultiFile, TopKeys, InfoKeys
      <4>3. meta.single # Absent /\ meta.single.name = ""
        <5>1. PICK s, e : s = meta.single /\ e = ""
          OBVIOUS
        <5>2. s = [name |-> e, length |-> x]
          BY <4>2, <5>1
        <5>3. s.name = e
          BY <5>2
        <5>4. s # Absent
          BY <2>5, <5>1, <5>2
        <5> QED BY <5>1, <5>3, <5>4
      <4>4. ~Valid(meta)
        BY <4>3 DEF Valid
      <4> QED BY <1>0, <4>1, <4>4 DEF ReadInv, FromIsOrderFree
    <3> QED BY <3>1, <3>2
  <2> QED BY <2>7, <2>8
<1> QED BY <1>3, <1>4

-----------------------------------------------------------------------------
(***************************************************************************)
(* In every reachable state the MetaInfoFile is that of the keys applied.  *)
(***************************************************************************)
THEOREM ReadInvariance == MetainfoSpec => []ReadInv
<1>1. MetainfoInit => ReadInv
  BY DEF MetainfoInit, ReadInv, FromIsOrderFree
<1>2. ASSUME ReadInv, [MetainfoNext]_metaVars
      PROVE  ReadInv'
  <2>1. CASE Open
    BY <1>2, <2>1, OpenStep
  <2>2. CASE \E k \in TopKeys : Apply(k)
    BY <1>2, <2>2, ApplyStep
  <2>3. CASE \E k \in InfoKeys : InfoCommon(k)
    BY <1>2, <2>3, InfoStep
  <2>4. CASE Validate
    BY <1>2, <2>4, ValidateStep
  <2>5. CASE UNCHANGED metaVars
    <3>1. /\ doc' = doc /\ todo' = todo /\ infoTodo' = infoTodo
          /\ meta' = meta /\ verdict' = verdict
      BY <2>5 DEF metaVars
    <3>2. KeyInv' <=> KeyInv
      BY <3>1 DEF KeyInv, Top, Inner
    <3>3. Partial' = Partial
      BY <3>1 DEF Partial, OfTop, OfInner, Top, Inner, IsMultiFile
    <3>4. MetainfoInit' <=> MetainfoInit
      BY <3>1 DEF MetainfoInit
    <3>5. FromIsOrderFree' <=> FromIsOrderFree
      BY <3>1 DEF FromIsOrderFree
    <3> QED BY <1>2, <3>1, <3>2, <3>3, <3>4, <3>5 DEF ReadInv
  <2> QED BY <1>2, <2>1, <2>2, <2>3, <2>4, <2>5 DEF MetainfoNext
<1> QED BY <1>1, <1>2, PTL DEF MetainfoSpec

(***************************************************************************)
(* From accepts the same documents and makes the same MetaInfoFile of      *)
(* them in whatever order Go hands it the keys (FromIsOrderFree).          *)
(***************************************************************************)
THEOREM OrderFree == MetainfoSpec => []FromIsOrderFree
<1>1. ReadInv => FromIsOrderFree
  BY DEF ReadInv
<1> QED BY <1>1, ReadInvariance, PTL

-----------------------------------------------------------------------------
(***************************************************************************)
(* TrackerResponse.  The invariant is that a tracker lists addresses; all  *)
(* else is what the decoder makes of any list of them.                     *)
(***************************************************************************)

(***************************************************************************)
(* What the six bytes of a peer say, and that the markers are no values.   *)
(***************************************************************************)
LEMMA AddressFacts ==
    ASSUME NEW a \in Addresses
    PROVE  /\ a = [ip |-> a.ip, port |-> a.port] /\ a # Wrong
           /\ a.ip \in Seq(Byte) /\ Len(a.ip) = 4 /\ a.ip \notin {Absent, Wrong}
           /\ a.port \in Port /\ a.port \notin {Absent, Wrong}
BY ResponseAssumption, Zenon DEF Byte

\* Absent and Wrong differ from each other and from the types of peers.
LEMMA Markers ==
    /\ Wrong # Absent /\ Wrong # Interval
    /\ "list" # Absent /\ "list" # Wrong /\ "string" # Absent /\ "string" # Wrong
BY ResponseAssumption, Zenon

\* The two bytes of a port are put together again.
LEMMA PortFacts ==
    ASSUME NEW n \in Port
    PROVE  (n \div 256) * 256 + (n % 256) = n
BY SMT DEF Port

(***************************************************************************)
(* The response is refused or accepted with its peers.                     *)
(***************************************************************************)
LEMMA ResponseAccepted ==
    ASSUME NEW p, NEW ps, DecodePeers(p) = <<"ok", ps>>
    PROVE  DecodeResponse(Response(p)) = <<"ok", Interval, Absent, ps>>
<1>1. PICK r : r = Response(p)
  OBVIOUS
<1>2. /\ r.failure = Absent /\ r.interval = Interval /\ r.trackerId = Absent
      /\ r.optional = Absent /\ r.peers = p
  BY <1>1 DEF Response
<1>3. Wrong \notin {r.interval, r.trackerId, r.optional}
  BY <1>2, Markers
<1>4. <<"ok", ps>> # Failed
  BY DEF Failed
<1>5. <<"ok", ps>>[2] = ps
  OBVIOUS
<1>6. DecodeResponse(r) = <<"ok", r.interval, r.trackerId, <<"ok", ps>>[2]>>
  BY <1>2, <1>3, <1>4 DEF DecodeResponse
<1> QED BY <1>1, <1>2, <1>5, <1>6

\* Without good peers the response is refused.
LEMMA ResponseRefused ==
    ASSUME NEW p, DecodePeers(p) = Failed
    PROVE  DecodeResponse(Response(p)) = Failed
BY DEF DecodeResponse, Response

\* Peers that are a list are taken as they are.
LEMMA WidePeers ==
    ASSUME NEW l
    PROVE  DecodePeers(<<"list", l>>) = IF WideOk(l) THEN <<"ok", l>> ELSE Failed
<1>1. PICK p : p = <<"list", l>>
  OBVIOUS
<1>2. p[1] = "list" /\ p[2] = l
  BY <1>1
<1>3. p[1] # Absent /\ p[1] # Wrong
  BY <1>2, Markers
<1>4. DecodePeers(p) = IF WideOk(p[2]) THEN <<"ok", p[2]>> ELSE Failed
  BY <1>2, <1>3 DEF DecodePeers
<1> QED BY <1>1, <1>2, <1>4

\* Peers that are a string are read in groups of six bytes.
LEMMA StringPeers ==
    ASSUME NEW x
    PROVE  DecodePeers(<<"string", x>>) =
              IF Len(x) % 6 = 0 THEN <<"ok", CompactPeers(x)>> ELSE Failed
<1>1. PICK p : p = <<"string", x>>
  OBVIOUS
<1>2. p[1] = "string" /\ p[2] = x
  BY <1>1
<1>3. p[1] # Absent /\ p[1] # Wrong
  BY <1>2, Markers
<1>4. DecodePeers(p) = IF Len(p[2]) % 6 = 0 THEN <<"ok", CompactPeers(p[2])>> ELSE Failed
  BY <1>2, <1>3 DEF DecodePeers
<1> QED BY <1>1, <1>2, <1>4

(***************************************************************************)
(* Six bytes of the compact form are the peer they were written for.       *)
(***************************************************************************)
LEMMA SixBytes ==
    ASSUME NEW a \in Addresses, NEW b \in Seq(Byte), Len(b) = 6,
           \A j \in 1 .. 6 : b[j] = ByteOf(a, j)
    PROVE  [ip |-> SubSeq(b, 1, 4), port |-> PortOf(b)] = a
<1>1. PICK x, n : x = a.ip /\ n = a.port
  OBVIOUS
<1>2. x \in Seq(Byte) /\ Len(x) = 4 /\ n \in Port /\ a = [ip |-> x, port |-> n]
  BY <1>1, AddressFacts
<1>3. b[5] = n \div 256 /\ b[6] = n % 256
  BY <1>1 DEF ByteOf
<1>4. \A j \in 1 .. 4 : b[j] = x[j]
  BY <1>1 DEF ByteOf
<1>5. PortOf(b) = n
  BY <1>2, <1>3, PortFacts DEF PortOf
<1>6. LiesAt(x, b, 0)
  BY <1>2, <1>4 DEF LiesAt
<1>7. CutFrom(b, 0, 4) = x
  BY <1>2, <1>6, CutOut
<1>8. SubSeq(b, 1, 4) = x
  BY <1>7 DEF CutFrom
<1> QED BY <1>2, <1>5, <1>8

\* A peer is written in bytes.
LEMMA ByteOfType ==
    ASSUME NEW a \in Addresses, NEW j \in 1 .. 6
    PROVE  ByteOf(a, j) \in Byte
<1>1. PICK x, n : x = a.ip /\ n = a.port
  OBVIOUS
<1>2. x \in Seq(Byte) /\ Len(x) = 4 /\ n \in Port
  BY <1>1, AddressFacts
<1>3. n \div 256 \in Byte /\ n % 256 \in Byte
  BY <1>2, SMT DEF Port, Byte
<1>4. j <= 4 => x[j] \in Byte
  <2>1. j <= 4 => j \in 1 .. Len(x)
    BY <1>2
  <2> QED BY <1>2, <2>1, ElementOfSeq
<1>5. ByteOf(a, j) = IF j <= 4 THEN x[j] ELSE IF j = 5 THEN n \div 256 ELSE n % 256
  BY <1>1 DEF ByteOf
<1> QED BY <1>3, <1>4, <1>5

(***************************************************************************)
(* The k-th peer of the compact form has the bytes 6 k - 5 .. 6 k.         *)
(***************************************************************************)
LEMMA CompactBytes ==
    ASSUME NEW q \in Seq(Addresses), NEW c, c = Compact(q)[2]
    PROVE  /\ c \in Seq(Byte) /\ Len(c) = 6 * Len(q)
           /\ \A k \in 1 .. Len(q), j \in 1 .. 6 : c[6 * (k - 1) + j] = ByteOf(q[k], j)
<1>1. PICK n \in Nat, l \in Nat : n = Len(q) /\ l = 6 * n
  OBVIOUS
<1>2. c = [k \in 1 .. l |-> ByteOf(q[((k - 1) \div 6) + 1], ((k - 1) % 6) + 1)]
  BY <1>1 DEF Compact
<1>3. ASSUME NEW k \in 1 .. l
      PROVE  c[k] \in Byte
  <2>1. PICK i, j : i = ((k - 1) \div 6) + 1 /\ j = ((k - 1) % 6) + 1
    OBVIOUS
  <2>2. i \in 1 .. n /\ j \in 1 .. 6
    BY <1>1, <2>1
  <2>3. c[k] = ByteOf(q[i], j)
    BY <1>2, <2>1
  <2>4. q[i] \in Addresses
    BY <1>1, <2>2
  <2> QED BY <2>2, <2>3, <2>4, ByteOfType
<1>4. c \in [1 .. l -> Byte]
  BY <1>2, <1>3
<1>5. c \in Seq(Byte) /\ Len(c) = l
  BY <1>4
<1>6. ASSUME NEW k \in 1 .. n, NEW j \in 1 .. 6
      PROVE  c[6 * (k - 1) + j] = ByteOf(q[k], j)
  <2>1. PICK i : i = 6 * (k - 1) + j
    OBVIOUS
  <2>2. i \in 1 .. l
    BY <1>1, <2>1
  <2>3. ((i - 1) \div 6) + 1 = k /\ ((i - 1) % 6) + 1 = j
    BY <2>1
  <2>4. c[i] = ByteOf(q[((i - 1) \div 6) + 1], ((i - 1) % 6) + 1)
    BY <1>2, <2>2
  <2> QED BY <2>1, <2>3, <2>4
<1> QED BY <1>1, <1>5, <1>6

\* The first m peers are read from the first 6 m bytes.
LEMMA CompactRoundTrip ==
    ASSUME NEW q \in Seq(Addresses), NEW c, c = Compact(q)[2],
           NEW m \in 0 .. Len(q), NEW x, x = SubSeq(c, 1, 6 * m)
    PROVE  CompactPeers(x) = SubSeq(q, 1, m)
<1>1. PICK n \in Nat : n = Len(q) /\ m \in Nat /\ m <= n
  OBVIOUS
<1>2. /\ c \in Seq(Byte) /\ Len(c) = 6 * n
      /\ \A k \in 1 .. n, j \in 1 .. 6 : c[6 * (k - 1) + j] = ByteOf(q[k], j)
  BY <1>1, CompactBytes
<1>3. PICK l \in Nat : l = 6 * m /\ l <= 6 * n
  BY <1>1
<1>4. x \in Seq(Byte) /\ Len(x) = l /\ \A i \in 1 .. l : x[i] = c[i]
  BY <1>2, <1>3
<1>5. l \div 6 = m
  BY <1>1, <1>3
<1>6. ASSUME NEW k \in 1 .. m
      PROVE  [ip |-> SubSeq(SubSeq(x, 6 * k - 5, 6 * k), 1, 4),
              port |-> PortOf(SubSeq(x, 6 * k - 5, 6 * k))] = q[k]
  <2>1. PICK i \in Nat : i = 6 * (k - 1)
    OBVIOUS
  <2>2. i + 6 <= l /\ 6 * k - 5 = i + 1 /\ 6 * k = i + 6 /\ i + 1 \in 1 .. Len(x)
    BY <1>3, <1>4, <2>1
  <2>3. PICK b : b = SubSeq(x, i + 1, i + 6)
    OBVIOUS
  <2>4. b \in Seq(Byte) /\ Len(b) = 6 /\ \A j \in 1 .. 6 : b[j] = x[i + j]
    BY <1>4, <2>2, <2>3
  <2>5. ASSUME NEW j \in 1 .. 6
        PROVE  b[j] = ByteOf(q[k], j)
    <3>1. i + j \in 1 .. l /\ k \in 1 .. n
      BY <1>1, <2>2
    <3>2. x[i + j] = c[6 * (k - 1) + j]
      BY <1>4, <2>1, <3>1
    <3> QED BY <1>2, <2>4, <3>1, <3>2
  <2>6. q[k] \in Addresses
    BY <1>1
  <2>7. [ip |-> SubSeq(b, 1, 4), port |-> PortOf(b)] = q[k]
    BY <2>4, <2>5, <2>6, SixBytes
  <2>8. SubSeq(x, 6 * k - 5, 6 * k) = b
    BY <2>2, <2>3
  <2> QED BY <2>7, <2>8
<1>7. CompactPeers(x) = [k \in 1 .. m |-> q[k]]
  BY <1>4, <1>5, <1>6 DEF CompactPeers
<1>8. SubSeq(q, 1, m) = [k \in 1 .. m |-> q[k]]
  BY <1>1
<1> QED BY <1>7, <1>8

(***************************************************************************)
(* The peers that the decoder passes on.                                   *)
(***************************************************************************)
KnownPeers == listed \in Seq(Addresses)

(***************************************************************************)
(* A tracker lists addresses.                                              *)
(***************************************************************************)
THEOREM KnownInvariance == ResponseSpec => []KnownPeers
<1>1. ResponseInit => KnownPeers
  BY DEF ResponseInit, KnownPeers
<1>2. KnownPeers /\ [ResponseNext]_listed => KnownPeers'
  BY DEF KnownPeers, ResponseNext, Know
<1> QED BY <1>1, <1>2, PTL DEF ResponseSpec

\* The wide form is the list of the peers itself.
LEMMA WideRoundTrip ==
    ASSUME NEW q \in Seq(Addresses)
    PROVE  Wide(q) = <<"list", q>> /\ WideOk(q)
<1>1. \A n \in DOMAIN q : q[n] \in Addresses
  OBVIOUS
<1>2. \A n \in DOMAIN q : [ip |-> q[n].ip, port |-> q[n].port] = q[n]
  BY <1>1, AddressFacts
<1>3. [n \in DOMAIN q |-> [ip |-> q[n].ip, port |-> q[n].port]] = q
  <2>1. q = [n \in DOMAIN q |-> q[n]]
    OBVIOUS
  <2> QED BY <1>2, <2>1
<1>4. WideOk(q)
  BY <1>1, AddressFacts DEF WideOk
<1> QED BY <1>3, <1>4 DEF Wide

(***************************************************************************)
(* For every list of addresses, DecodeResponse returns its peers from the  *)
(* wide and from the compact form, and refuses a compact form that ends    *)
(* within a peer and a wide form with an odd port.                         *)
(***************************************************************************)
THEOREM PeersHold == ResponseSpec => []PeersAsListed
<1>1. ASSUME KnownPeers
      PROVE  PeersAsListed
  <2>1. PICK q \in Seq(Addresses) : q = listed
    BY <1>1 DEF KnownPeers
  <2>2. PICK c : c = Compact(q)[2]
    OBVIOUS
  <2>3. DecodeResponse(Response(Wide(q))) = <<"ok", Interval, Absent, q>>
    BY WideRoundTrip, WidePeers, ResponseAccepted
  <2>4. ASSUME NEW n \in DOMAIN q, NEW odd \in {Absent, Wrong}
        PROVE  DecodeResponse(Response([Wide(q) EXCEPT ![2][n].port = odd])) = Failed
    <3>1. PICK l : l = [q EXCEPT ![n].port = odd]
      OBVIOUS
    <3>2. [Wide(q) EXCEPT ![2][n].port = odd] = <<"list", l>>
      <4>1. [<<"list", q>> EXCEPT ![2][n].port = odd] = <<"list", [q EXCEPT ![n].port = odd]>>
        BY SMTT(30)
      <4>2. Wide(q) = <<"list", q>>
        BY WideRoundTrip
      <4> QED BY <3>1, <4>1, <4>2
    <3>3. n \in DOMAIN l /\ l[n].port = odd
      <4>1. q[n] \in Addresses
        OBVIOUS
      <4>2. "port" \in DOMAIN q[n]
        BY <4>1, AddressFacts
      <4> QED BY <3>1, <4>2
    <3>4. ~WideOk(l)
      BY <3>3 DEF WideOk
    <3> QED BY <3>2, <3>4, WidePeers, ResponseRefused
  <2>5. ASSUME NEW n \in 0 .. Len(c)
        PROVE  DecodeResponse(Response(<<"string", SubSeq(c, 1, n)>>)) =
                  IF n % 6 = 0 THEN <<"ok", Interval, Absent, SubSeq(q, 1, n \div 6)>> ELSE Failed
    <3>1. PICK x : x = SubSeq(c, 1, n)
      OBVIOUS
    <3>0. PICK L \in Nat : L = Len(q)
      OBVIOUS
    <3>2. L = Len(q) /\ c \in Seq(Byte) /\ Len(c) = 6 * L
      BY <2>2, <3>0, CompactBytes
    <3>3. n \in Nat /\ n <= 6 * L
      BY <3>2
    <3>4. Len(x) = n
      BY <3>1, <3>2, <3>3
    <3>5. CASE n % 6 = 0
      <4>1. PICK m : m = n \div 6
        OBVIOUS
      <4>2. m \in 0 .. L /\ n = 6 * m
        BY <3>3, <3>5, <4>1
      <4>3. CompactPeers(x) = SubSeq(q, 1, m)
        BY <2>2, <3>1, <3>2, <4>2, CompactRoundTrip
      <4>4. DecodePeers(<<"string", x>>) = <<"ok", SubSeq(q, 1, m)>>
        BY <3>4, <3>5, <4>3, StringPeers
      <4> QED BY <3>1, <3>5, <4>1, <4>4, ResponseAccepted
    <3>6. CASE n % 6 # 0
      <4>1. DecodePeers(<<"string", x>>) = Failed
        BY <3>4, <3>6, StringPeers
      <4> QED BY <3>1, <3>6, <4>1, ResponseRefused
    <3> QED BY <3>5, <3>6
  <2> QED BY <2>1, <2>2, <2>3, <2>4, <2>5 DEF PeersAsListed
<1> QED BY <1>1, KnownInvariance, PTL
=============================================================================
