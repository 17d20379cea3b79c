-------------------------------- MODULE Wire --------------------------------
(***************************************************************************)
(* One direction of a connection, byte by byte: the Send methods of        *)
(* peer.Peer and the codecs of messagesv1 on one end, Identify and process *)
(* of the listener on the other.  A write may fail half-way when its       *)
(* deadline passes; the connection stays in use.  Each end keeps a         *)
(* bitfield as bytes: the sender its own, the receiver its record of it.   *)
(***************************************************************************)
EXTENDS Integers, Sequences

CONSTANTS
    NumPieces,
    Indices,      \* piece indices that are acquired and announced
    Requests,     \* requests and cancels: index, begin, length
    Blocks,       \* contents of blocks
    Protocol,     \* the bytes of ProtocolV1
    Hellos,       \* what senders introduce themselves with: pstr, hash, id
    HashLength,   \* length of an info hash and of a peer id, 20 in the code
    Nil,          \* no handshake
    MaxSends      \* bound: messages sent

RequestSize == 16384

Byte == 0 .. 255

\* Numbers of a message: those of 32 bits that the model tells apart.
Word == {n \in Nat : n <= 2147483647}

\* Piece indices are of the torrent.  Handshakes have the length of this
\* protocol's: Serialize panics on another one, and so may Deserialize on one
\* of a foreign client, which is left out.  A block is not empty.
ASSUME WireAssumption ==
    /\ NumPieces \in Word /\ NumPieces > 0 /\ Indices \subseteq 0 .. NumPieces - 1
    /\ \A r \in Requests : r.index \in Word /\ r.begin \in Word /\ r.length \in Nat
    /\ \A b \in Blocks : b \in Seq(Byte) /\ Len(b) \in 1 .. RequestSize
    /\ Protocol \in Seq(Byte) /\ Len(Protocol) \in Byte /\ HashLength \in Nat
    /\ \A h \in Hellos :
          /\ h = [pstr |-> h.pstr, hash |-> h.hash, id |-> h.id]
          /\ h.pstr \in Seq(Byte) /\ Len(h.pstr) = Len(Protocol)
          /\ h.hash \in Seq(Byte) /\ Len(h.hash) = HashLength
          /\ h.id \in Seq(Byte) /\ Len(h.id) = HashLength
          /\ h # Nil
    /\ MaxSends \in Nat

-----------------------------------------------------------------------------
(* bitfield.BitField: a sequence of bytes, the first piece in the high bit *)

\* As many bytes as the pieces need, the last one with spare bits.
NewBitfield == [n \in 1 .. (NumPieces + 7) \div 8 |-> 0]

ByteOffset(i) == i \div 8 + 1
Mask(i)       == <<128, 64, 32, 16, 8, 4, 2, 1>>[(i % 8) + 1]

Check(b, i) == (b[ByteOffset(i)] \div Mask(i)) % 2 = 1

\* Seeded fault: the bit is flipped.
SetFlips(b, i) == [b EXCEPT ![ByteOffset(i)] = IF Check(b, i) THEN @ - Mask(i) ELSE @ + Mask(i)]

\* b.b[o] |= 1 << shift
Set(b, i) == IF Check(b, i) THEN b ELSE [b EXCEPT ![ByteOffset(i)] = @ + Mask(i)]

\* SetWithCheck refuses what is no piece of the torrent.
SetWithCheck(b, i) == IF i >= NumPieces \/ ByteOffset(i) > Len(b) THEN b ELSE Set(b, i)

ExistingPieces(b) == {i \in 0 .. NumPieces - 1 : Check(b, i)}
MissingPieces(b)  == {i \in 0 .. NumPieces - 1 : ~Check(b, i)}

-----------------------------------------------------------------------------
(* messagesv1 *)

Id == [choke |-> 0, unchoke |-> 1, interest |-> 2, notinterest |-> 3, have |-> 4,
       bitfield |-> 5, request |-> 6, piece |-> 7, cancel |-> 8]

TypeOf(id) == CHOOSE t \in DOMAIN Id : Id[t] = id
Known(id)  == \E t \in DOMAIN Id : Id[t] = id

\* binary.BigEndian; values from 2^31 on, which only a cut message produces,
\* are all the largest one that is told apart.
PutUint32(n) == <<n \div 16777216, (n \div 65536) % 256, (n \div 256) % 256, n % 256>>
Uint32(b)    == IF b[1] >= 128 THEN 2147483647
                ELSE b[1] * 16777216 + b[2] * 65536 + b[3] * 256 + b[4]

Payload(m) ==
    CASE m.type = "have"     -> PutUint32(m.index)
      [] m.type = "bitfield" -> m.bits
      [] m.type \in {"request", "cancel"} ->
             PutUint32(m.index) \o PutUint32(m.begin) \o PutUint32(m.length)
      [] m.type = "piece"    -> PutUint32(m.index) \o PutUint32(m.begin) \o m.block
      [] OTHER               -> <<>>

\* Seeded fault: the length does not count the id.
SerializeShort(m) ==
    IF m.type = "keepalive" THEN PutUint32(0)
    ELSE PutUint32(Len(Payload(m))) \o <<Id[m.type]>> \o Payload(m)

\* The Serialize methods: length, id, payload.
Serialize(m) ==
    IF m.type = "keepalive" THEN PutUint32(0)
    ELSE PutUint32(1 + Len(Payload(m))) \o <<Id[m.type]>> \o Payload(m)

\* The Deserialize methods, with the lengths they insist on.
Deserialize(t, p) ==
    CASE t = "have" /\ Len(p) = 4 -> [type |-> t, index |-> Uint32(p)]
      [] t = "bitfield"           -> [type |-> t, bits |-> p]
      [] t \in {"request", "cancel"} /\ Len(p) = 12 /\ Uint32(SubSeq(p, 9, 12)) <= RequestSize ->
             [type |-> t, index |-> Uint32(p), begin |-> Uint32(SubSeq(p, 5, 8)),
              length |-> Uint32(SubSeq(p, 9, 12))]
      [] t = "piece" /\ Len(p) >= 9 ->
             [type |-> t, index |-> Uint32(p), begin |-> Uint32(SubSeq(p, 5, 8)),
              block |-> SubSeq(p, 9, Len(p))]
      [] t \in {"choke", "unchoke", "interest", "notinterest"} -> [type |-> t]
      [] OTHER -> [type |-> "invalid"]

\* Bytes that Identify takes from the front of a stream, 0 while it waits.
Taken(s) ==
    IF Len(s) < 4 THEN 0
    ELSE IF Uint32(s) = 0 THEN 4
    ELSE IF Len(s) - 4 >= Uint32(s) THEN 4 + Uint32(s) ELSE 0

\* Identify and Deserialize; an unknown id and a wrong payload are only logged.
Identify(s) ==
    CASE Uint32(s) = 0 -> [type |-> "keepalive"]
      [] Uint32(s) # 0 /\ Known(s[5]) -> Deserialize(TypeOf(s[5]), SubSeq(s, 6, Taken(s)))
      [] OTHER -> [type |-> "invalid"]

(* The handshake: length of pstr, pstr, eight reserved bytes, hash, id *)

HandshakeLength == 1 + Len(Protocol) + 8 + 2 * HashLength

SerializeHandshake(h) ==
    <<Len(h.pstr)>> \o h.pstr \o [n \in 1 .. 8 |-> 0] \o h.hash \o h.id

DeserializeHandshake(s) ==
    LET hs == 1 + s[1] + 8 IN
    [pstr |-> SubSeq(s, 2, 1 + s[1]), hash |-> SubSeq(s, hs + 1, hs + HashLength),
     id |-> SubSeq(s, hs + HashLength + 1, hs + 2 * HashLength)]

-----------------------------------------------------------------------------
VARIABLES
    hello,     \* the handshake the sender has written
    peer,      \* the handshake the receiver has read
    bits,      \* the sender's bitfield
    stream,    \* bytes written and not yet read
    sent,      \* observer: messages written in full
    cut,       \* observer: messages sent before a write was cut, MaxSends if none was
    got,       \* observer: messages the listener took
    record,    \* the receiver's Bitfield
    status     \* the receiver's Status.Remote and Interest.Remote

wireVars == <<hello, peer, bits, stream, sent, cut, got, record, status>>

WireInit ==
    /\ hello = Nil /\ peer = Nil
    /\ bits = NewBitfield /\ record = NewBitfield
    /\ stream = <<>> /\ sent = <<>> /\ got = <<>> /\ cut = MaxSends
    /\ status = [unchoked |-> FALSE, interested |-> FALSE]

Intact == cut = MaxSends

Sends == Len(sent) + (IF Intact THEN 0 ELSE 1)

\* initiateHandshakeV1 of the end that dialed, sendHandshakeV1 of the other.
SendHandshake(h) ==
    /\ hello = Nil
    /\ hello' = h
    /\ stream' = SerializeHandshake(h)
    /\ UNCHANGED <<peer, bits, sent, cut, got, record, status>>

\* io.ReadFull of HandshakeLength bytes, no more, whatever has arrived.
HandshakeRead == HandshakeLength

\* handlePeer, and the answer in initiateHandshakeV1: another protocol is
\* refused, and the listener does not start.
ReadHandshake ==
    /\ hello # Nil /\ peer = Nil
    /\ peer' = DeserializeHandshake(stream)
    /\ stream' = SubSeq(stream, HandshakeRead + 1, Len(stream))
    /\ UNCHANGED <<hello, bits, sent, cut, got, record, status>>

\* io.Copy of the serialized message writes all of it, ...
Send(m) ==
    /\ hello # Nil /\ Sends < MaxSends
    /\ stream' = stream \o Serialize(m)
    /\ sent' = Append(sent, m)
    /\ UNCHANGED <<hello, peer, bits, cut, got, record, status>>

\* ... or its first n bytes before the deadline passes.
SendCut(m, n) ==
    /\ hello # Nil /\ Intact /\ Sends < MaxSends
    /\ n < Len(Serialize(m))
    /\ stream' = stream \o SubSeq(Serialize(m), 1, n)
    /\ cut' = Len(sent)
    /\ UNCHANGED <<hello, peer, bits, sent, got, record, status>>

SendKeepAlive      == Send([type |-> "keepalive"])
SendUnchoke        == Send([type |-> "unchoke"])
SendChoke          == Send([type |-> "choke"])
SendInterested     == Send([type |-> "interest"])
SendNotInterested  == Send([type |-> "notinterest"])
SendBitfield       == Send([type |-> "bitfield", bits |-> bits])
SendHave(i)        == Check(bits, i) /\ Send([type |-> "have", index |-> i])
SendRequest(r)     == r.length <= RequestSize
                      /\ Send([type |-> "request", index |-> r.index, begin |-> r.begin,
                               length |-> r.length])
SendCancel(r)      == r.length <= RequestSize
                      /\ Send([type |-> "cancel", index |-> r.index, begin |-> r.begin,
                               length |-> r.length])
SendPiece(r, b)    == Send([type |-> "piece", index |-> r.index, begin |-> r.begin, block |-> b])

\* The sender verifies a piece.
Acquire(i) == /\ ~Check(bits, i)
              /\ bits' = Set(bits, i)
              /\ UNCHANGED <<hello, peer, stream, sent, cut, got, record, status>>

-----------------------------------------------------------------------------
\* The listener: Identify, then process.
Listen ==
    /\ peer # Nil /\ peer.pstr = Protocol
    /\ Taken(stream) > 0
    /\ LET m == Identify(stream) IN
       /\ got' = Append(got, m)
       /\ record' = CASE m.type = "have" -> SetWithCheck(record, m.index)
                      [] m.type = "bitfield" /\ Len(m.bits) = Len(record) -> m.bits
                      [] OTHER -> record
       /\ status' = CASE m.type = "choke"       -> [status EXCEPT !.unchoked = FALSE]
                      [] m.type = "unchoke"     -> [status EXCEPT !.unchoked = TRUE]
                      [] m.type = "interest"    -> [status EXCEPT !.interested = TRUE]
                      [] m.type = "notinterest" -> [status EXCEPT !.interested = FALSE]
                      [] OTHER -> status
    /\ stream' = SubSeq(stream, Taken(stream) + 1, Len(stream))
    /\ UNCHANGED <<hello, peer, bits, sent, cut>>

WireNext ==
    \/ \E h \in Hellos : SendHandshake(h)
    \/ ReadHandshake
    \/ SendKeepAlive \/ SendUnchoke \/ SendChoke \/ SendInterested \/ SendNotInterested
    \/ SendBitfield
    \/ \E i \in Indices : SendHave(i) \/ Acquire(i)
    \/ \E r \in Requests : SendRequest(r) \/ SendCancel(r) \/ \E b \in Blocks : SendPiece(r, b)
    \/ \E n \in 0 .. 4 : SendCut([type |-> "unchoke"], n)
    \/ \E r \in Requests, b \in Blocks :
          LET m == [type |-> "piece", index |-> r.index, begin |-> r.begin, block |-> b]
          IN \E n \in 0 .. Len(Serialize(m)) - 1 : SendCut(m, n)
    \/ Listen

WireSpec == WireInit /\ [][WireNext]_wireVars

-----------------------------------------------------------------------------
\* How many messages were sent before a write was cut.
Whole == IF Intact THEN Len(sent) ELSE cut

(***************************************************************************)
(* The receiver reads the handshake that was sent and nothing past it.  As *)
(* long as no write was cut short, what the listener takes are the         *)
(* messages sent, in order and with their fields, and when it waits for    *)
(* more bytes it has taken them all.  What was sent before a cut arrives   *)
(* all the same.                                                           *)
(***************************************************************************)
Framing ==
    /\ peer # Nil => peer = hello
    /\ \A k \in DOMAIN got : k <= Whole => got[k] = sent[k]
    /\ Intact => Len(got) <= Len(sent)
    /\ peer # Nil /\ Taken(stream) = 0 => Len(got) >= Whole

\* A message that says that piece i is there, and one that does not deny it.
Tells(m, i) == \/ m.type = "have" /\ m.index = i
               \/ m.type = "bitfield" /\ Check(m.bits, i)
Keeps(m, i) == m.type = "bitfield" => Check(m.bits, i)

(***************************************************************************)
(* The receiver's record keeps its length whatever arrives, the rest of a  *)
(* cut message too.  As long as no write was cut, it is what the last      *)
(* bitfield it took and the haves after it say, bit by bit, and lists no   *)
(* piece that the sender is missing.                                       *)
(***************************************************************************)
RecordAsAnnounced ==
    /\ record \in [DOMAIN NewBitfield -> Byte]
    /\ Intact =>
          /\ \A i \in 0 .. NumPieces - 1 :
                Check(record, i) <=>
                    \E k \in DOMAIN got : /\ Tells(got[k], i)
                                          /\ \A l \in DOMAIN got : l > k => Keeps(got[l], i)
          /\ ExistingPieces(record) \cap MissingPieces(bits) = {}
=============================================================================
