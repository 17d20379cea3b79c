--------------------------- MODULE SessionProofs ---------------------------
(***************************************************************************)
(* The safety of a session for every torrent, number of upload slots and   *)
(* number of requests given up early.                                      *)
(*                                                                         *)
(* Both directions are queues, so the invariants speak of what is under    *)
(* way: what the messages tell is true, what D asks for it may ask for,    *)
(* and between two requests for a block there is its cancel.               *)
(***************************************************************************)
EXTENDS Session, TLAPS

\* What the messages under way tell, and will tell, of the pieces.
TruthInv ==
    /\ RecordsTrue
    /\ clone \subseteq BitField
    /\ \A i \in Pieces : announce[i] # "missing" => i \in BitField
    /\ \A k \in DOMAIN toD, i \in Pieces : Tells(toD[k], i) => i \in BitField
    /\ \A k \in DOMAIN toU, i \in Pieces : Tells(toU[k], i) => i \in Verified

\* What is announced is in the clone that is still to be sent, or on record.
HaveInv ==
    /\ addpc = "cloned" =>
          \A i \in Pieces : announce[i] = "done" => i \in clone \cup raced
    /\ KnownUnlessRaced

\* Who unchokes, or is about to, knows that D is interested.
UnchokeInv ==
    /\ mayAsk \/ (\E k \in DOMAIN toD : toD[k].type = "unchoke") =>
          unchoked \/ unchoker = "written"
    /\ link = "up" => \A k \in DOMAIN toU : toU[k].type # "notinterest"
    /\ (unchoked \/ unchoker = "written") /\ link = "up" => interest

\* The k-th message on its way to U asks for i, or cancels it.
Asks(k, i)    == k \in DOMAIN toU /\ toU[k].type = "request" /\ toU[k].index = i
Cancels(k, i) == k \in DOMAIN toU /\ toU[k].type = "cancel" /\ toU[k].index = i
Holds(i)      == \E s \in Slots : requests[s] = i
Unasked(i)    == piece[i] \in {"missing", "pending"}

\* D asks for what it knows and may ask for, and is done when it leaves.
AskInv ==
    /\ \A k \in DOMAIN toU, i \in Pieces : Asks(k, i) => mayAsk /\ i \in BitField
    /\ \A i \in Pieces : piece[i] = "inflight" => mayAsk
    /\ link = "closed" => \A i \in Pieces : piece[i] = "verified"

\* NotInterested is D's last word; a block is held only for an interested D.
HeldInv ==
    /\ \A k \in DOMAIN toU : toU[k].type = "notinterest" => k = Len(toU)
    /\ \A i \in Pieces : Holds(i) =>
          unchoked /\ (interest \/ (toU = <<>> /\ link = "closed"))

\* Block i is cancelled before it is asked for again: between two requests under
\* way, before one for a block U holds, and when D is about to ask.
CancelledFirst(i) ==
    /\ \A k, l \in DOMAIN toU : Asks(k, i) /\ Asks(l, i) /\ k < l =>
          \E m \in DOMAIN toU : Cancels(m, i) /\ k < m /\ m < l
    /\ \A l \in DOMAIN toU : Holds(i) /\ Asks(l, i) =>
          \E m \in DOMAIN toU : Cancels(m, i) /\ m < l
    /\ \A l \in DOMAIN toU : Unasked(i) /\ Asks(l, i) =>
          \E m \in DOMAIN toU : Cancels(m, i) /\ l < m
    /\ Unasked(i) /\ Holds(i) => \E m \in DOMAIN toU : Cancels(m, i)

CancelInv == \A i \in Pieces : CancelledFirst(i)

IInv == /\ TypeOK /\ TruthInv /\ HaveInv /\ UnchokeInv /\ AskInv /\ HeldInv /\ CancelInv
        /\ OneSlotPerBlock

-----------------------------------------------------------------------------
(* Messages and queues *)

(***************************************************************************)
(* The messages the two ends write are messages.                           *)
(***************************************************************************)
LEMMA Messages ==
    /\ \A i \in Pieces, t \in {"have", "request", "cancel", "piece"} :
          /\ Indexed(t, i) \in Message
          /\ Indexed(t, i).type = t /\ Indexed(t, i).index = i
    /\ \A b \in SUBSET Pieces :
          Bits(b) \in Message /\ Bits(b).type = "bitfield" /\ Bits(b).bits = b
    /\ \A t \in {"unchoke", "interest", "notinterest"} :
          Plain(t) \in Message /\ Plain(t).type = t
BY DEF Indexed, Bits, Plain, Message

(***************************************************************************)
(* What a message read from a queue has: its type, and by type the index   *)
(* or the bits.                                                            *)
(***************************************************************************)
LEMMA MessageFields ==
    ASSUME NEW m \in Message
    PROVE  /\ m.type \in {"have", "request", "cancel", "piece", "bitfield", "unchoke",
                          "interest", "notinterest"}
           /\ m.type \in {"have", "request", "cancel", "piece"} => m.index \in Pieces
           /\ m.type = "bitfield" => m.bits \in SUBSET Pieces
BY DEF Message

\* r is q with m written behind it; r is q without its first message.
Grown(q, r, m) ==
    /\ DOMAIN q = 1 .. Len(q) /\ Len(q) \in Nat
    /\ Len(r) = Len(q) + 1 /\ DOMAIN r = 1 .. Len(q) + 1
    /\ r[Len(q) + 1] = m /\ \A k \in 1 .. Len(q) : r[k] = q[k]

Shrunk(q, r) ==
    /\ DOMAIN q = 1 .. Len(q) /\ Len(q) \in Nat \ {0}
    /\ Len(r) = Len(q) - 1 /\ DOMAIN r = 1 .. Len(q) - 1
    /\ \A k \in 1 .. Len(q) - 1 : r[k] = q[k + 1]

(***************************************************************************)
(* Writing to a queue.                                                     *)
(***************************************************************************)
LEMMA Writing ==
    ASSUME NEW q \in Seq(Message), NEW m \in Message
    PROVE  /\ Write(q, m) \in Seq(Message)
           /\ IF link = "up" THEN Grown(q, Write(q, m), m) ELSE Write(q, m) = q
BY DEF Write, Grown

(***************************************************************************)
(* Reading from a queue.                                                   *)
(***************************************************************************)
LEMMA Reading ==
    ASSUME NEW q \in Seq(Message), q # <<>>
    PROVE  /\ Tail(q) \in Seq(Message) /\ Head(q) \in Message
           /\ Head(q) = q[1] /\ 1 \in DOMAIN q
           /\ Shrunk(q, Tail(q))
BY DEF Shrunk

(***************************************************************************)
(* The types of what is recorded and stored.                               *)
(***************************************************************************)
LEMMA RecordedType ==
    ASSUME NEW r \in SUBSET Pieces, NEW m \in Message
    PROVE  Recorded(r, m) \in SUBSET Pieces
BY MessageFields DEF Recorded

LEMMA StoredType ==
    ASSUME TypeOK, NEW i \in Pieces
    PROVE  /\ Stored(i) \in [Slots -> Pieces \cup {Nil}]
           /\ Cancelled(i) \in [Slots -> Pieces \cup {Nil}]
BY DEF TypeOK, Stored, Cancelled

LEMMA TypeStep ==
    ASSUME TypeOK, Next
    PROVE  TypeOK'
<1>0. MaxEarly \in Nat
  BY SessionAssumption
<1>1. Verified \in SUBSET Pieces
  BY DEF Verified
<1>2. toD \in Seq(Message) /\ toU \in Seq(Message)
  BY DEF TypeOK
<1>3. CASE StoreLeecher \/ CloneBits \/ StoreUnchoke \/ StoreSeeder
  <2>1. CASE StoreLeecher
    BY <2>1 DEF TypeOK, StoreLeecher, dVars
  <2>2. CASE CloneBits
    BY <2>2 DEF TypeOK, CloneBits, dVars
  <2>3. CASE StoreUnchoke
    BY <2>3 DEF TypeOK, StoreUnchoke, dVars
  <2>4. CASE StoreSeeder
    BY <2>4 DEF TypeOK, StoreSeeder, uVars
  <2> QED BY <1>3, <2>1, <2>2, <2>3, <2>4
<1>4. CASE SendBitfield
  <2>1. toD' \in Seq(Message)
    BY <1>2, <1>4, Writing, Messages DEF SendBitfield, TypeOK
  <2> QED BY <1>4, <2>1 DEF TypeOK, SendBitfield, dVars
<1>5. CASE WriteUnchoke
  <2>1. toD' \in Seq(Message)
    BY <1>2, <1>5, Writing, Messages DEF WriteUnchoke
  <2> QED BY <1>5, <2>1 DEF TypeOK, WriteUnchoke, dVars
<1>6. CASE ListenU
  <2> DEFINE m == Head(toU)
  <2>1. m \in Message /\ toU' \in Seq(Message)
    BY <1>2, <1>6, Reading DEF ListenU
  <2>2. interest' \in BOOLEAN
    BY <1>6 DEF ListenU, TypeOK
  <2>3. theirs' \in SUBSET Pieces
    BY <1>6, <2>1, RecordedType DEF ListenU, TypeOK
  <2>4. requests' \in [Slots -> Pieces \cup {Nil}]
    <3>1. requests' = CASE m.type = "request" -> Stored(m.index)
                        [] m.type = "cancel" -> Cancelled(m.index)
                        [] OTHER -> requests
      BY <1>6 DEF ListenU
    <3>2. requests \in [Slots -> Pieces \cup {Nil}]
      BY DEF TypeOK
    <3> HIDE DEF m
    <3> QED BY <2>1, <3>1, <3>2, MessageFields, StoredType
  <2>5. up' = Nil \/ up' \in [slot : Slots, index : Pieces, held : BOOLEAN]
    BY <1>6 DEF ListenU, TypeOK
  <2> QED BY <1>6, <2>1, <2>2, <2>3, <2>4, <2>5 DEF TypeOK, ListenU, dVars
<1>7. CASE EndU
  BY <1>7 DEF TypeOK, EndU, dVars
<1>8. CASE SendPiece
  <2>1. up \in [slot : Slots, index : Pieces, held : BOOLEAN]
    BY <1>8 DEF SendPiece, TypeOK
  <2>2. toD' \in Seq(Message)
    BY <1>2, <1>8, <2>1, Writing, Messages DEF SendPiece
  <2> QED BY <1>8, <2>1, <2>2 DEF TypeOK, SendPiece, dVars
<1>9. CASE Introduce
  <2>1. toU' \in Seq(Message)
    BY <1>1, <1>2, <1>9, Writing, Messages DEF Introduce
  <2> QED BY <1>9, <2>1 DEF TypeOK, Introduce, uVars
<1>10. CASE SendInterested
  <2>1. toU' \in Seq(Message)
    BY <1>2, <1>10, Writing, Messages DEF SendInterested
  <2> QED BY <1>10, <2>1 DEF TypeOK, SendInterested, uVars
<1>11. CASE ListenD
  <2> DEFINE m == Head(toD)
  <2>1. m \in Message /\ toD' \in Seq(Message)
    BY <1>2, <1>11, Reading DEF ListenD
  <2>2. known' \in SUBSET Pieces /\ mayAsk' \in BOOLEAN
    BY <1>11, <2>1, RecordedType DEF ListenD, TypeOK
  <2>3. piece' \in [Pieces -> {"missing", "pending", "inflight", "verified"}]
    BY <1>11 DEF ListenD, TypeOK
  <2>4. toU' = toU \/ (m.type = "piece" /\ toU' = Write(toU, Indexed("have", m.index)))
    BY <1>11 DEF ListenD
  <2>5. toU' \in Seq(Message)
    <3> HIDE DEF m
    <3>1. m.type = "piece" => Indexed("have", m.index) \in Message
      BY <2>1, MessageFields, Messages
    <3> QED BY <1>2, <2>4, <3>1, Writing
  <2> QED BY <1>11, <2>1, <2>2, <2>3, <2>5 DEF TypeOK, ListenD, uVars
<1>12. CASE Leave
  <2>1. toU' \in Seq(Message)
    BY <1>2, <1>12, Writing, Messages DEF Leave
  <2> QED BY <1>12, <2>1 DEF TypeOK, Leave, uVars
<1>13. ASSUME NEW i \in Pieces, Acquire(i) \/ Schedule(i)
       PROVE  TypeOK'
  BY <1>13 DEF TypeOK, Acquire, Schedule, uVars, dVars
<1>14. ASSUME NEW i \in Pieces, Announce(i)
       PROVE  TypeOK'
  <2>1. toD' \in Seq(Message)
    BY <1>2, <1>14, Writing, Messages DEF Announce
  <2> QED BY <1>14, <2>1 DEF TypeOK, Announce, dVars
<1>15. ASSUME NEW i \in Pieces, Ask(i)
       PROVE  TypeOK'
  <2>1. toU' \in Seq(Message)
    BY <1>2, <1>15, Writing, Messages DEF Ask
  <2> QED BY <1>15, <2>1 DEF TypeOK, Ask, uVars
<1>16. ASSUME NEW i \in Pieces, TimeoutLost(i) \/ TimeoutEarly(i)
       PROVE  TypeOK'
  <2>0. toU' = toU \/ toU' = Write(toU, Indexed("cancel", i))
    <3>1. GiveUp(i)
      BY <1>16 DEF TimeoutLost, TimeoutEarly
    <3> QED BY <3>1 DEF GiveUp
  <2>1. toU' \in Seq(Message)
    <3>1. Indexed("cancel", i) \in Message
      BY Messages
    <3> QED BY <1>2, <2>0, <3>1, Writing
  <2> QED BY <1>0, <1>16, <2>1 DEF TypeOK, TimeoutLost, TimeoutEarly, GiveUp, uVars
<1>17. ASSUME NEW s \in Slots, LoadRequest(s)
       PROVE  TypeOK'
  BY <1>17 DEF TypeOK, LoadRequest, dVars
<1> QED BY <1>3, <1>4, <1>5, <1>6, <1>7, <1>8, <1>9, <1>10, <1>11, <1>12, <1>13, <1>14, <1>15,
           <1>16, <1>17 DEF Next, Uploading, Downloading, Scheduling

-----------------------------------------------------------------------------
(* What the messages tell *)

(***************************************************************************)
(* A queue whose messages tell only of pieces in S, after a step that      *)
(* writes only messages that tell of pieces in T.                          *)
(***************************************************************************)
LEMMA TellsTrue ==
    ASSUME NEW q, NEW r, NEW S, NEW T, S \subseteq T,
           \A k \in DOMAIN q, i \in Pieces : Tells(q[k], i) => i \in S,
           \/ r = q \/ r = <<>> \/ Shrunk(q, r)
           \/ \E m : Grown(q, r, m) /\ \A i \in Pieces : Tells(m, i) => i \in T
    PROVE  \A k \in DOMAIN r, i \in Pieces : Tells(r[k], i) => i \in T
<1>1. CASE r = q \/ r = <<>>
  BY <1>1
<1>2. CASE Shrunk(q, r)
  BY <1>2 DEF Shrunk
<1>3. ASSUME NEW m, Grown(q, r, m), \A i \in Pieces : Tells(m, i) => i \in T
      PROVE  \A k \in DOMAIN r, i \in Pieces : Tells(r[k], i) => i \in T
  BY <1>3 DEF Grown
<1> QED BY <1>1, <1>2, <1>3

(***************************************************************************)
(* What a message tells is what its reader records.                        *)
(***************************************************************************)
LEMMA RecordedTells ==
    ASSUME NEW r, NEW m \in Message
    PROVE  /\ \A i \in Recorded(r, m) : i \in r \/ (i \in Pieces /\ Tells(m, i))
           /\ \A i \in r : Keeps(m, i) => i \in Recorded(r, m)
           /\ \A i : Tells(m, i) => i \in Recorded(r, m)
BY MessageFields DEF Recorded, Tells, Keeps

(***************************************************************************)
(* What each kind of message tells.                                        *)
(***************************************************************************)
LEMMA WhatIsTold ==
    /\ \A i, j \in Pieces : Tells(Indexed("have", i), j) <=> i = j
    /\ \A i, j \in Pieces, t \in {"request", "cancel", "piece"} : ~Tells(Indexed(t, i), j)
    /\ \A b \in SUBSET Pieces, j \in Pieces : Tells(Bits(b), j) <=> j \in b
    /\ \A t \in {"unchoke", "interest", "notinterest"}, j \in Pieces : ~Tells(Plain(t), j)
BY Messages DEF Tells

(***************************************************************************)
(* The queues move: nothing, one message written or read, or all dropped.  *)
(* What is written tells of pieces U has, or D has verified.               *)
(***************************************************************************)
LEMMA MovesD ==
    ASSUME TypeOK, TruthInv, Next
    PROVE  \/ toD' = toD \/ toD' = <<>> \/ Shrunk(toD, toD')
           \/ \E m : Grown(toD, toD', m) /\ \A i \in Pieces : Tells(m, i) => i \in BitField'
<1>0. toD \in Seq(Message) /\ clone \in SUBSET Pieces
  BY DEF TypeOK
<1>1. ASSUME NEW m \in Message, toD' = Write(toD, m), \A i \in Pieces : Tells(m, i) => i \in BitField'
      PROVE  toD' = toD \/ \E n : Grown(toD, toD', n) /\ \A i \in Pieces : Tells(n, i) => i \in BitField'
  BY <1>0, <1>1, Writing
<1>2. CASE SendBitfield
  <2>1. toD' = Write(toD, Bits(clone)) /\ BitField' = BitField
    BY <1>2 DEF SendBitfield
  <2> QED BY <1>0, <1>1, <2>1, Messages, WhatIsTold DEF TruthInv
<1>3. CASE WriteUnchoke
  <2>1. toD' = Write(toD, Plain("unchoke"))
    BY <1>3 DEF WriteUnchoke
  <2> QED BY <1>1, <2>1, Messages, WhatIsTold
<1>4. CASE SendPiece
  <2>1. toD' = toD \/ toD' = Write(toD, Indexed("piece", up.index))
    BY <1>4 DEF SendPiece
  <2>2. up.index \in Pieces
    BY <1>4 DEF SendPiece, TypeOK
  <2> QED BY <1>1, <2>1, <2>2, Messages, WhatIsTold
<1>5. ASSUME NEW i \in Pieces, Announce(i)
      PROVE  toD' = toD \/ \E n : Grown(toD, toD', n) /\ \A j \in Pieces : Tells(n, j) => j \in BitField'
  <2>1. toD' = toD \/ toD' = Write(toD, Indexed("have", i))
    BY <1>5 DEF Announce
  <2>2. i \in BitField'
    BY <1>5 DEF Announce, TruthInv
  <2> QED BY <1>1, <2>1, <2>2, Messages, WhatIsTold
<1>6. CASE ListenD
  BY <1>0, <1>6, Reading DEF ListenD
<1> QED BY <1>2, <1>3, <1>4, <1>5, <1>6 DEF Next, Uploading, Downloading, Scheduling, StoreLeecher,
           CloneBits, StoreUnchoke, ListenU, EndU, StoreSeeder, Introduce, SendInterested, Leave,
           Acquire, Schedule, Ask, TimeoutLost, TimeoutEarly, GiveUp, LoadRequest

LEMMA MovesU ==
    ASSUME TypeOK, Next
    PROVE  /\ Verified \subseteq Verified'
           /\ \/ toU' = toU \/ toU' = <<>> \/ Shrunk(toU, toU')
              \/ \E m : Grown(toU, toU', m) /\ \A i \in Pieces : Tells(m, i) => i \in Verified'
<1>0. /\ toU \in Seq(Message) /\ toD \in Seq(Message) /\ Verified \in SUBSET Pieces
      /\ piece \in [Pieces -> {"missing", "pending", "inflight", "verified"}]
  BY DEF TypeOK, Verified
<1>1. ASSUME NEW m \in Message, toU' = Write(toU, m), \A i \in Pieces : Tells(m, i) => i \in Verified'
      PROVE  toU' = toU \/ \E n : Grown(toU, toU', n) /\ \A i \in Pieces : Tells(n, i) => i \in Verified'
  BY <1>0, <1>1, Writing
<1>2. CASE Introduce
  <2>1. toU' = Write(toU, Bits(Verified)) /\ piece' = piece
    BY <1>2 DEF Introduce
  <2>2. Verified' = Verified
    BY <2>1 DEF Verified
  <2> QED BY <1>0, <1>1, <2>1, <2>2, Messages, WhatIsTold
<1>3. CASE SendInterested \/ Leave
  <2>1. PICK t \in {"interest", "notinterest"} : toU' = Write(toU, Plain(t)) /\ piece' = piece
    BY <1>3 DEF SendInterested, Leave
  <2>2. Verified' = Verified
    BY <2>1 DEF Verified
  <2> QED BY <1>1, <2>1, <2>2, Messages, WhatIsTold
<1>4. CASE ListenD
  <2>0. PICK m : m = Head(toD)
    OBVIOUS
  <2>1. m \in Message
    BY <1>0, <1>4, <2>0, Reading DEF ListenD
  <2>2. \/ piece' = piece /\ toU' = toU
        \/ /\ m.type = "piece" /\ piece' = [piece EXCEPT ![m.index] = "verified"]
           /\ toU' = Write(toU, Indexed("have", m.index))
    BY <1>4, <2>0 DEF ListenD
  <2>3. CASE piece' = piece /\ toU' = toU
    BY <2>3 DEF Verified
  <2>4. CASE /\ m.type = "piece" /\ piece' = [piece EXCEPT ![m.index] = "verified"]
             /\ toU' = Write(toU, Indexed("have", m.index))
    <3>1. m.index \in Pieces
      BY <2>1, <2>4, MessageFields
    <3>2. m.index \in Verified' /\ Verified \subseteq Verified'
      BY <1>0, <2>4, <3>1 DEF Verified
    <3> QED BY <1>1, <2>4, <3>1, <3>2, Messages, WhatIsTold
  <2> QED BY <2>2, <2>3, <2>4
<1>5. ASSUME NEW i \in Pieces, Ask(i) \/ TimeoutLost(i) \/ TimeoutEarly(i)
      PROVE  /\ Verified \subseteq Verified'
             /\ \/ toU' = toU
                \/ \E n : Grown(toU, toU', n) /\ \A j \in Pieces : Tells(n, j) => j \in Verified'
  <2>1. toU' = toU \/ \E t \in {"request", "cancel"} : toU' = Write(toU, Indexed(t, i))
    BY <1>5 DEF Ask, TimeoutLost, TimeoutEarly, GiveUp
  <2>2. piece[i] # "verified" /\ \A j \in Pieces \ {i} : piece'[j] = piece[j]
    BY <1>0, <1>5 DEF Ask, TimeoutLost, TimeoutEarly, GiveUp
  <2>3. Verified \subseteq Verified'
    BY <2>2 DEF Verified
  <2> QED BY <1>1, <2>1, <2>3, Messages, WhatIsTold
<1>6. ASSUME NEW i \in Pieces, Schedule(i)
      PROVE  Verified \subseteq Verified' /\ toU' = toU
  BY <1>0, <1>6 DEF Schedule, Verified
<1>7. CASE ListenU
  BY <1>0, <1>7, Reading DEF ListenU, dVars, Verified
<1>8. CASE EndU
  BY <1>8 DEF EndU, dVars, Verified
<1>9. ASSUME UNCHANGED <<piece, toU>>
      PROVE  Verified \subseteq Verified' /\ toU' = toU
  BY <1>9 DEF Verified
<1> QED BY <1>2, <1>3, <1>4, <1>5, <1>6, <1>7, <1>8, <1>9 DEF Next, Uploading, Downloading,
           Scheduling, StoreLeecher, CloneBits, SendBitfield, WriteUnchoke, StoreUnchoke,
           SendPiece, StoreSeeder, Acquire, Announce, LoadRequest, dVars

LEMMA TruthStep ==
    ASSUME TypeOK, TruthInv, Next
    PROVE  TruthInv'
<1>0. /\ toU \in Seq(Message) /\ toD \in Seq(Message) /\ clone \in SUBSET Pieces
      /\ announce \in [Pieces -> {"missing", "set", "done"}]
  BY DEF TypeOK
<1>1. BitField \subseteq BitField'
  BY DEF Next, Uploading, Downloading, Scheduling, StoreLeecher, CloneBits, SendBitfield,
     WriteUnchoke, StoreUnchoke, ListenU, EndU, SendPiece, StoreSeeder, Introduce, SendInterested,
     ListenD, Leave, Acquire, Announce, Schedule, Ask, TimeoutLost, TimeoutEarly, LoadRequest, uVars
<1>2. /\ Verified \subseteq Verified'
      /\ \A k \in DOMAIN toU', i \in Pieces : Tells(toU'[k], i) => i \in Verified'
  <2>1. \A k \in DOMAIN toU, i \in Pieces : Tells(toU[k], i) => i \in Verified
    BY DEF TruthInv
  <2> QED BY <2>1, MovesU, TellsTrue
<1>3. \A k \in DOMAIN toD', i \in Pieces : Tells(toD'[k], i) => i \in BitField'
  <2>1. \A k \in DOMAIN toD, i \in Pieces : Tells(toD[k], i) => i \in BitField
    BY DEF TruthInv
  <2> QED BY <1>1, <2>1, MovesD, TellsTrue
<1>4. \A i \in Pieces : announce'[i] # "missing" => i \in BitField'
  <2>1. ASSUME NEW i \in Pieces, Acquire(i) \/ Announce(i)
        PROVE  \A j \in Pieces : announce'[j] # "missing" => j \in BitField'
    BY <1>0, <2>1 DEF Acquire, Announce, TruthInv
  <2>2. ASSUME announce' = announce
        PROVE  \A j \in Pieces : announce'[j] # "missing" => j \in BitField'
    BY <1>1, <2>2 DEF TruthInv
  <2> QED BY <2>1, <2>2 DEF Next, Uploading, Downloading, Scheduling, StoreLeecher, CloneBits,
     SendBitfield, WriteUnchoke, StoreUnchoke, ListenU, EndU, SendPiece, StoreSeeder, Introduce,
     SendInterested, ListenD, Leave, Schedule, Ask, TimeoutLost, TimeoutEarly, LoadRequest, uVars
<1>5. clone' \subseteq BitField'
  <2>1. clone' = clone \/ (clone' = BitField /\ BitField' = BitField)
    BY DEF Next, Uploading, Downloading, Scheduling, StoreLeecher, CloneBits, SendBitfield,
     WriteUnchoke, StoreUnchoke, ListenU, EndU, SendPiece, StoreSeeder, Introduce, SendInterested,
     ListenD, Leave, Acquire, Announce, Schedule, Ask, TimeoutLost, TimeoutEarly, LoadRequest, uVars
  <2> QED BY <1>1, <2>1 DEF TruthInv
<1>6. known' \subseteq BitField'
  <2>1. CASE ListenD
    <3>1. toD[1] \in Message /\ 1 \in DOMAIN toD /\ known' = Recorded(known, toD[1])
      BY <1>0, <2>1, Reading DEF ListenD
    <3> QED BY <1>1, <3>1, RecordedTells DEF TruthInv, RecordsTrue
  <2>2. CASE known' = known
    BY <1>1, <2>2 DEF TruthInv, RecordsTrue
  <2> QED BY <2>1, <2>2 DEF Next, Uploading, Downloading, Scheduling, StoreLeecher, CloneBits,
     SendBitfield, WriteUnchoke, StoreUnchoke, ListenU, EndU, SendPiece, StoreSeeder, Introduce,
     SendInterested, Leave, Acquire, Announce, Schedule, Ask, TimeoutLost, TimeoutEarly,
     LoadRequest, dVars
<1>7. theirs' \subseteq Verified'
  <2>1. CASE ListenU
    <3>1. toU[1] \in Message /\ 1 \in DOMAIN toU /\ theirs' = Recorded(theirs, toU[1])
      BY <1>0, <2>1, Reading DEF ListenU
    <3> QED BY <1>2, <3>1, RecordedTells DEF TruthInv, RecordsTrue
  <2>2. CASE theirs' = theirs
    BY <1>2, <2>2 DEF TruthInv, RecordsTrue
  <2> QED BY <2>1, <2>2 DEF Next, Uploading, Downloading, Scheduling, StoreLeecher, CloneBits,
     SendBitfield, WriteUnchoke, StoreUnchoke, EndU, SendPiece, StoreSeeder, Introduce,
     SendInterested, ListenD, Leave, Acquire, Announce, Schedule, Ask, TimeoutLost, TimeoutEarly,
     LoadRequest, uVars
<1> QED BY <1>2, <1>3, <1>4, <1>5, <1>6, <1>7 DEF TruthInv, RecordsTrue

-----------------------------------------------------------------------------
(* What D will have on record *)

(***************************************************************************)
(* What is on D's record when all is read stays there: a message behind    *)
(* the others that keeps it, or tells it, and the first message read.      *)
(***************************************************************************)
LEMMA RecordWritten ==
    ASSUME NEW i, NEW m, Grown(toD, toD', m), known' = known,
           Tells(m, i) \/ (OnRecord(i) /\ Keeps(m, i))
    PROVE  OnRecord(i)'
<1>1. CASE Tells(m, i)
  <2>1. /\ Len(toD) + 1 \in DOMAIN toD' /\ Tells(toD'[Len(toD) + 1], i)
        /\ \A l \in DOMAIN toD' : ~(l > Len(toD) + 1)
    BY <1>1 DEF Grown
  <2> QED BY <2>1 DEF OnRecord
<1>2. CASE i \in known /\ Keeps(m, i) /\ \A k \in DOMAIN toD : Keeps(toD[k], i)
  BY <1>2 DEF OnRecord, Grown
<1>3. ASSUME NEW k \in DOMAIN toD, Tells(toD[k], i), Keeps(m, i),
             \A l \in DOMAIN toD : l > k => Keeps(toD[l], i)
      PROVE  OnRecord(i)'
  <2>1. k \in DOMAIN toD' /\ Tells(toD'[k], i)
    BY <1>3 DEF Grown
  <2>2. \A l \in DOMAIN toD' : l > k => Keeps(toD'[l], i)
    BY <1>3 DEF Grown
  <2> QED BY <2>1, <2>2 DEF OnRecord
<1> QED BY <1>1, <1>2, <1>3 DEF OnRecord

LEMMA RecordRead ==
    ASSUME NEW i, Shrunk(toD, toD'), toD[1] \in Message, known' = Recorded(known, toD[1]),
           OnRecord(i)
    PROVE  OnRecord(i)'
<1>1. CASE i \in known /\ \A k \in DOMAIN toD : Keeps(toD[k], i)
  <2>1. i \in known'
    BY <1>1, RecordedTells DEF Shrunk
  <2>2. \A k \in DOMAIN toD' : Keeps(toD'[k], i)
    BY <1>1 DEF Shrunk
  <2> QED BY <2>1, <2>2 DEF OnRecord
<1>2. ASSUME NEW k \in DOMAIN toD, Tells(toD[k], i),
             \A l \in DOMAIN toD : l > k => Keeps(toD[l], i)
      PROVE  OnRecord(i)'
  <2>1. CASE k = 1
    <3>1. i \in known'
      BY <1>2, <2>1, RecordedTells
    <3>2. \A l \in DOMAIN toD' : Keeps(toD'[l], i)
      BY <1>2, <2>1 DEF Shrunk
    <3> QED BY <3>1, <3>2 DEF OnRecord
  <2>2. CASE k > 1
    <3>1. k - 1 \in DOMAIN toD' /\ toD'[k - 1] = toD[k]
      BY <2>2 DEF Shrunk
    <3>2. \A l \in DOMAIN toD' : l > k - 1 => Keeps(toD'[l], i)
      BY <1>2, <2>2 DEF Shrunk
    <3> QED BY <1>2, <3>1, <3>2 DEF OnRecord
  <2> QED BY <2>1, <2>2 DEF Shrunk
<1> QED BY <1>1, <1>2 DEF OnRecord

LEMMA HaveStep ==
    ASSUME TypeOK, TruthInv, HaveInv, Next
    PROVE  HaveInv'
<1> DEFINE Cloned == addpc = "cloned" =>
                        \A i \in Pieces : announce[i] = "done" => i \in clone \cup raced
<1>0. /\ toD \in Seq(Message) /\ clone \in SUBSET Pieces /\ BitField \in SUBSET Pieces
      /\ announce \in [Pieces -> {"missing", "set", "done"}]
      /\ link \in {"up", "closed"}
      /\ Cloned /\ KnownUnlessRaced
      /\ \A i \in Pieces : announce[i] # "missing" => i \in BitField
  BY DEF TypeOK, TruthInv, HaveInv
\* A step that announces nothing and writes a message that keeps every record.
<1>1. ASSUME UNCHANGED <<announce, clone, raced, known>>, link' = "up" => link = "up",
             addpc' = addpc \/ addpc' \in {"stored", "ended"}, BitField' = BitField,
             \/ toD' = toD \/ link' = "closed"
             \/ \E m \in Message : toD' = Write(toD, m) /\ m.type # "bitfield"
      PROVE  HaveInv'
  <2>1. Cloned'
    BY <1>0, <1>1
  <2>2. ASSUME NEW i \in Pieces, OnRecord(i), link' = "up"
        PROVE  OnRecord(i)'
    <3>1. CASE toD' = toD
      BY <1>1, <2>2, <3>1 DEF OnRecord
    <3>2. ASSUME NEW m \in Message, toD' = Write(toD, m), m.type # "bitfield"
          PROVE  OnRecord(i)'
      <4>1. Grown(toD, toD', m) /\ Keeps(m, i)
        BY <1>0, <1>1, <2>2, <3>2, Writing DEF Keeps
      <4> QED BY <1>1, <2>2, <4>1, RecordWritten
    <3> QED BY <1>1, <2>2, <3>1, <3>2
  <2>3. KnownUnlessRaced'
    BY <1>0, <1>1, <2>2 DEF KnownUnlessRaced
  <2> QED BY <2>1, <2>3 DEF HaveInv
<1>2. ASSUME NEW i \in Pieces, Announce(i)
      PROVE  HaveInv'
  <2>0. /\ announce' = [announce EXCEPT ![i] = "done"]
        /\ toD' = IF Listed THEN Write(toD, Indexed("have", i)) ELSE toD
        /\ raced' = IF Listed /\ addpc = "cloned" /\ i \notin clone THEN raced \cup {i} ELSE raced
        /\ UNCHANGED <<BitField, addpc, clone, known, link>>
    BY <1>2 DEF Announce, dVars
  <2>1. Cloned'
    BY <1>0, <2>0 DEF Listed
  <2>2. ASSUME addpc = "running", link = "up", NEW j \in BitField,
               announce'[j] = "done"
        PROVE  OnRecord(j)' \/ j \in raced'
    <3>1. raced' = raced /\ toD' = Write(toD, Indexed("have", i))
      BY <2>0, <2>2 DEF Listed
    <3>2. /\ Grown(toD, toD', Indexed("have", i)) /\ Keeps(Indexed("have", i), j)
          /\ Tells(Indexed("have", i), i)
      BY <1>0, <2>2, <3>1, Writing, Messages, WhatIsTold DEF Keeps
    <3>3. j = i \/ OnRecord(j) \/ j \in raced
      BY <1>0, <2>0, <2>2 DEF KnownUnlessRaced
    <3> QED BY <2>0, <3>1, <3>2, <3>3, RecordWritten
  <2>3. KnownUnlessRaced'
    BY <2>0, <2>2 DEF KnownUnlessRaced
  <2> QED BY <2>1, <2>3 DEF HaveInv
<1>3. CASE CloneBits
  BY <1>0, <1>3 DEF CloneBits, HaveInv, KnownUnlessRaced
<1>4. CASE SendBitfield
  <2>0. /\ addpc = "cloned" /\ addpc' = "running" /\ toD' = Write(toD, Bits(clone))
        /\ UNCHANGED <<BitField, announce, clone, known, link, raced>>
    BY <1>4 DEF SendBitfield, dVars
  <2>1. ASSUME link = "up", NEW j \in clone
        PROVE  OnRecord(j)'
    <3>1. Grown(toD, toD', Bits(clone)) /\ Tells(Bits(clone), j)
      BY <1>0, <2>0, <2>1, Writing, Messages, WhatIsTold
    <3> QED BY <2>0, <3>1, RecordWritten
  <2> QED BY <1>0, <2>0, <2>1 DEF HaveInv, KnownUnlessRaced
<1>5. CASE ListenD
  <2>0. /\ toD[1] \in Message /\ known' = Recorded(known, toD[1]) /\ Shrunk(toD, toD')
        /\ UNCHANGED <<BitField, announce, addpc, clone, link, raced>>
    BY <1>0, <1>5, Reading DEF ListenD, uVars
  <2>1. \A i \in Pieces : OnRecord(i) => OnRecord(i)'
    BY <2>0, RecordRead
  <2> QED BY <1>0, <2>0, <2>1 DEF HaveInv, KnownUnlessRaced
<1>6. CASE SendPiece
  <2>1. up.index \in Pieces
    BY <1>6 DEF SendPiece, TypeOK
  <2>2. Indexed("piece", up.index) \in Message /\ Indexed("piece", up.index).type = "piece"
    BY <2>1, Messages
  <2> QED BY <1>1, <1>6, <2>2 DEF SendPiece, dVars
<1>7. CASE WriteUnchoke
  <2>1. Plain("unchoke") \in Message /\ Plain("unchoke").type = "unchoke"
    BY Messages
  <2> QED BY <1>1, <1>7, <2>1 DEF WriteUnchoke, dVars
<1>8. CASE StoreLeecher \/ StoreUnchoke \/ ListenU \/ EndU
  BY <1>1, <1>8 DEF StoreLeecher, StoreUnchoke, ListenU, EndU, dVars
<1>9. CASE StoreSeeder \/ Introduce \/ SendInterested \/ Leave
  BY <1>1, <1>9 DEF StoreSeeder, Introduce, SendInterested, Leave, uVars
<1>10. ASSUME NEW i \in Pieces, Acquire(i)
       PROVE  HaveInv'
  <2>0. /\ announce' = [announce EXCEPT ![i] = "set"] /\ BitField' = BitField \cup {i}
        /\ UNCHANGED <<addpc, clone, known, toD, link, raced>>
    BY <1>10 DEF Acquire, dVars
  <2>1. \A j : OnRecord(j)' <=> OnRecord(j)
    BY <2>0 DEF OnRecord
  <2>2. \A j \in Pieces : announce'[j] = "done" => announce[j] = "done" /\ j \in BitField
    BY <1>0, <2>0
  <2> QED BY <1>0, <2>0, <2>1, <2>2 DEF HaveInv, KnownUnlessRaced
<1>11. ASSUME NEW i \in Pieces, Scheduling(i) \/ TimeoutEarly(i)
       PROVE  HaveInv'
  BY <1>1, <1>11 DEF Scheduling, Schedule, Ask, TimeoutLost, TimeoutEarly, uVars
<1>12. ASSUME NEW s \in Slots, LoadRequest(s)
       PROVE  HaveInv'
  BY <1>1, <1>12 DEF LoadRequest, dVars
<1> QED BY <1>2, <1>3, <1>4, <1>5, <1>6, <1>7, <1>8, <1>9, <1>10, <1>11, <1>12
        DEF Next, Uploading, Downloading

-----------------------------------------------------------------------------
(* Unchoke and interest *)

(***************************************************************************)
(* What of the queues UnchokeInv speaks of, after a step.                  *)
(***************************************************************************)
LEMMA UnchokeStep ==
    ASSUME TypeOK, UnchokeInv, Next
    PROVE  UnchokeInv'
<1> DEFINE Sent == \E k \in DOMAIN toD : toD[k].type = "unchoke"
           Unchoking == unchoked \/ unchoker = "written"
           NoLeave == \A k \in DOMAIN toU : toU[k].type # "notinterest"
<1>0. /\ toD \in Seq(Message) /\ toU \in Seq(Message) /\ link \in {"up", "closed"}
      /\ mayAsk \/ Sent => Unchoking
      /\ link = "up" => NoLeave
      /\ Unchoking /\ link = "up" => interest
      /\ interest \in BOOLEAN /\ mayAsk \in BOOLEAN /\ unchoked \in BOOLEAN
  BY DEF TypeOK, UnchokeInv
\* The queues: no new unchoke, no notinterest.
<1>1. ASSUME \/ toD' = toD \/ toD' = <<>> \/ Shrunk(toD, toD')
             \/ \E m \in Message : toD' = Write(toD, m) /\ m.type # "unchoke"
      PROVE  Sent' => Sent
  <2>1. CASE toD' = toD \/ toD' = <<>>
    BY <2>1
  <2>2. CASE Shrunk(toD, toD')
    BY <2>2 DEF Shrunk
  <2>3. ASSUME NEW m \in Message, toD' = Write(toD, m), m.type # "unchoke"
        PROVE  Sent' => Sent
    <3>1. toD' = toD \/ Grown(toD, toD', m)
      BY <1>0, <2>3, Writing
    <3> QED BY <2>3, <3>1 DEF Grown
  <2> QED BY <1>1, <2>1, <2>2, <2>3
<1>2. ASSUME \/ toU' = toU \/ toU' = <<>> \/ Shrunk(toU, toU')
             \/ \E m \in Message : toU' = Write(toU, m) /\ m.type # "notinterest"
      PROVE  NoLeave => NoLeave'
  <2>1. CASE toU' = toU \/ toU' = <<>>
    BY <2>1
  <2>2. CASE Shrunk(toU, toU')
    BY <2>2 DEF Shrunk
  <2>3. ASSUME NEW m \in Message, toU' = Write(toU, m), m.type # "notinterest"
        PROVE  NoLeave => NoLeave'
    <3>1. toU' = toU \/ Grown(toU, toU', m)
      BY <1>0, <2>3, Writing
    <3> QED BY <2>3, <3>1 DEF Grown
  <2> QED BY <1>2, <2>1, <2>2, <2>3
<1>3. ASSUME mayAsk' \/ Sent' => mayAsk \/ Sent \/ Unchoking', link' = "up" => (NoLeave => NoLeave'),
             link' = "up" => link = "up",
             Unchoking' /\ link' = "up" => (Unchoking \/ interest'),
             link' = "up" => (interest => interest'), Unchoking => Unchoking'
      PROVE  UnchokeInv'
  <2> HIDE DEF Sent, NoLeave, Unchoking
  <2>1. (mayAsk \/ Sent => Unchoking)'
    BY <1>0, <1>3
  <2>2. (link = "up" => NoLeave)'
    BY <1>0, <1>3
  <2>3. (Unchoking /\ link = "up" => interest)'
    BY <1>0, <1>3
  <2> QED BY <2>1, <2>2, <2>3 DEF UnchokeInv, Sent, NoLeave, Unchoking
<1>4. CASE WriteUnchoke
  <2>1. interest /\ unchoker' = "written" /\ UNCHANGED <<toU, link, interest, mayAsk, unchoked>>
    BY <1>4 DEF WriteUnchoke, dVars
  <2> QED BY <1>2, <1>3, <2>1
<1>5. CASE StoreUnchoke
  <2>1. /\ unchoker = "written" /\ unchoked' = TRUE
        /\ UNCHANGED <<toU, toD, link, interest, mayAsk>>
    BY <1>5 DEF StoreUnchoke, dVars
  <2> QED BY <1>0, <1>1, <1>2, <1>3, <2>1
<1>6. CASE ListenU
  <2>1. UNCHANGED <<toD, link, mayAsk, unchoked, unchoker>> /\ Shrunk(toU, toU')
    BY <1>0, <1>6, Reading DEF ListenU, dVars
  <2>2. toU[1].type = "notinterest" \/ (interest => interest')
    BY <1>0, <1>6, Reading DEF ListenU
  <2>3. link' = "up" => (interest => interest')
    BY <1>0, <2>1, <2>2 DEF Shrunk
  <2> QED BY <1>1, <1>2, <1>3, <2>1, <2>3
<1>7. CASE ListenD
  <2>0. /\ UNCHANGED <<link, interest, unchoked, unchoker>> /\ Shrunk(toD, toD')
        /\ toD[1] \in Message /\ 1 \in DOMAIN toD
        /\ mayAsk' = (mayAsk \/ toD[1].type = "unchoke")
    BY <1>0, <1>7, Reading DEF ListenD, uVars
  <2>1. mayAsk' => mayAsk \/ Sent
    BY <2>0
  <2>2. toU' = toU \/ (toD[1].type = "piece" /\ toU' = Write(toU, Indexed("have", toD[1].index)))
    BY <1>0, <1>7, Reading DEF ListenD
  <2>3. toU' = toU \/ \E m \in Message : toU' = Write(toU, m) /\ m.type # "notinterest"
    BY <2>0, <2>2, MessageFields, Messages
  <2> QED BY <1>1, <1>2, <1>3, <2>0, <2>1, <2>3
<1>8. CASE Leave
  BY <1>1, <1>3, <1>8 DEF Leave, uVars
<1>9. ASSUME UNCHANGED <<link, interest, mayAsk, unchoked, unchoker>>,
             \/ toD' = toD
             \/ \E m \in Message : toD' = Write(toD, m) /\ m.type # "unchoke",
             \/ toU' = toU \/ toU' = <<>>
             \/ \E m \in Message : toU' = Write(toU, m) /\ m.type # "notinterest"
      PROVE  UnchokeInv'
  BY <1>1, <1>2, <1>3, <1>9
<1> HIDE DEF Sent, Unchoking, NoLeave
<1>10. CASE SendBitfield
  <2>1. Bits(clone) \in Message /\ Bits(clone).type = "bitfield"
    BY Messages DEF TypeOK
  <2> QED BY <1>9, <1>10, <2>1 DEF SendBitfield, dVars
<1>11. CASE SendPiece
  <2>1. up.index \in Pieces
    BY <1>11 DEF SendPiece, TypeOK
  <2>2. Indexed("piece", up.index) \in Message /\ Indexed("piece", up.index).type = "piece"
    BY <2>1, Messages
  <2> QED BY <1>9, <1>11, <2>2 DEF SendPiece, dVars
<1>12. ASSUME NEW i \in Pieces, Announce(i)
       PROVE  UnchokeInv'
  <2>1. Indexed("have", i) \in Message /\ Indexed("have", i).type = "have"
    BY Messages
  <2> QED BY <1>9, <1>12, <2>1 DEF Announce, dVars
<1>13. CASE Introduce \/ SendInterested
  <2>1. /\ Plain("interest") \in Message /\ Plain("interest").type = "interest"
        /\ Bits(Verified) \in Message /\ Bits(Verified).type = "bitfield"
    BY Messages DEF Verified
  <2> QED BY <1>9, <1>13, <2>1 DEF Introduce, SendInterested, uVars
<1>14. ASSUME NEW i \in Pieces, Scheduling(i) \/ TimeoutEarly(i) \/ Acquire(i)
       PROVE  UnchokeInv'
  <2>1. \A t \in {"request", "cancel"} : Indexed(t, i) \in Message /\ Indexed(t, i).type = t
    BY Messages
  <2>2. toU' = toU \/ \E t \in {"request", "cancel"} : toU' = Write(toU, Indexed(t, i))
    BY <1>14 DEF Scheduling, TimeoutEarly, Acquire, Schedule, Ask, TimeoutLost, GiveUp
  <2>3. UNCHANGED <<link, interest, mayAsk, unchoked, unchoker, toD>>
    BY <1>14 DEF Scheduling, TimeoutEarly, Acquire, Schedule, Ask, TimeoutLost, uVars, dVars
  <2> QED BY <1>9, <2>1, <2>2, <2>3
<1>15. CASE \/ StoreLeecher \/ CloneBits \/ EndU \/ StoreSeeder
            \/ \E s \in Slots : LoadRequest(s)
  BY <1>9, <1>15 DEF StoreLeecher, CloneBits, EndU, StoreSeeder, LoadRequest, uVars, dVars
<1> QED BY <1>4, <1>5, <1>6, <1>7, <1>8, <1>10, <1>11, <1>12, <1>13, <1>14, <1>15
        DEF Next, Uploading, Downloading

-----------------------------------------------------------------------------
(* Requests and cancels *)

(***************************************************************************)
(* How a step moves the queue to U: by a message that is no request,       *)
(* cancel or notinterest, or by one of the actions that write those, read  *)
(* a message or drop them all.                                             *)
(***************************************************************************)
Talks == \E m \in Message : /\ Grown(toU, toU', m)
                            /\ m.type \notin {"request", "cancel", "notinterest"}

LEMMA ToUMoves ==
    ASSUME TypeOK, Next
    PROVE  \/ toU' = toU /\ UNCHANGED <<interest, link>>
           \/ Talks /\ link = "up" /\ UNCHANGED <<interest, requests, link, unchoked, addpc>>
           \/ Leave \/ ListenU \/ EndU
           \/ \E i \in Pieces : Ask(i) \/ TimeoutLost(i) \/ TimeoutEarly(i)
<1>0. /\ toU \in Seq(Message) /\ toD \in Seq(Message) /\ link \in {"up", "closed"}
  BY DEF TypeOK
<1>1. ASSUME NEW m \in Message, m.type \notin {"request", "cancel", "notinterest"},
             toU' = Write(toU, m), UNCHANGED <<uVars, link>>
      PROVE  \/ toU' = toU /\ UNCHANGED <<interest, link>>
             \/ Talks /\ link = "up" /\ UNCHANGED <<interest, requests, link, unchoked, addpc>>
  BY <1>0, <1>1, Writing DEF Talks, uVars
<1>2. CASE Introduce \/ SendInterested
  <2>1. /\ Plain("interest") \in Message /\ Plain("interest").type = "interest"
        /\ Bits(Verified) \in Message /\ Bits(Verified).type = "bitfield"
    BY Messages DEF Verified
  <2> QED BY <1>1, <1>2, <2>1 DEF Introduce, SendInterested
<1>3. CASE ListenD
  <2>1. toD[1] \in Message /\ UNCHANGED <<uVars, link>>
    BY <1>0, <1>3, Reading DEF ListenD
  <2>2. toU' = toU \/ (toD[1].type = "piece" /\ toU' = Write(toU, Indexed("have", toD[1].index)))
    BY <1>0, <1>3, Reading DEF ListenD
  <2>3. \/ toU' = toU
        \/ \E m \in Message : /\ m.type \notin {"request", "cancel", "notinterest"}
                              /\ toU' = Write(toU, m)
    BY <2>1, <2>2, MessageFields, Messages
  <2> QED BY <1>1, <2>1, <2>3 DEF uVars
<1> QED BY <1>2, <1>3 DEF Next, Uploading, Downloading, Scheduling, StoreLeecher, CloneBits,
           SendBitfield, WriteUnchoke, StoreUnchoke, SendPiece, StoreSeeder, Acquire, Announce,
           Schedule, LoadRequest, uVars

(***************************************************************************)
(* A time-out of D writes a cancel: what is in flight was asked for, so D  *)
(* may ask.  The link is up, for D leaves with every piece verified.       *)
(***************************************************************************)
LEMMA Giving ==
    ASSUME TypeOK, AskInv, NEW i \in Pieces, TimeoutLost(i) \/ TimeoutEarly(i)
    PROVE  /\ Grown(toU, toU', Indexed("cancel", i))
           /\ piece[i] = "inflight" /\ piece' = [piece EXCEPT ![i] = "pending"]
           /\ UNCHANGED <<uVars, known, mayAsk, toD, link>>
<1>1. /\ piece[i] = "inflight" /\ piece' = [piece EXCEPT ![i] = "pending"]
      /\ toU' = IF mayAsk THEN Write(toU, Indexed("cancel", i)) ELSE toU
      /\ UNCHANGED <<uVars, known, mayAsk, toD, link>>
  BY DEF TimeoutLost, TimeoutEarly, GiveUp
<1>2. mayAsk /\ link = "up" /\ toU \in Seq(Message)
  BY <1>1 DEF AskInv, TypeOK
<1>3. Indexed("cancel", i) \in Message
  BY Messages
<1> QED BY <1>1, <1>2, <1>3, Writing

LEMMA Asking ==
    ASSUME TypeOK, AskInv, NEW i \in Pieces, Ask(i)
    PROVE  /\ Grown(toU, toU', Indexed("request", i))
           /\ mayAsk /\ i \in known /\ link = "up"
           /\ piece[i] = "pending" /\ piece' = [piece EXCEPT ![i] = "inflight"]
           /\ UNCHANGED <<uVars, known, mayAsk, toD, link>>
<1>1. /\ mayAsk /\ i \in known
      /\ piece[i] = "pending" /\ piece' = [piece EXCEPT ![i] = "inflight"]
      /\ toU' = Write(toU, Indexed("request", i))
      /\ UNCHANGED <<uVars, known, mayAsk, toD, link>>
  BY DEF Ask, CanRequest
<1>2. link = "up" /\ toU \in Seq(Message)
  BY <1>1 DEF AskInv, TypeOK
<1>3. Indexed("request", i) \in Message
  BY Messages
<1> QED BY <1>1, <1>2, <1>3, Writing

LEMMA AskStep ==
    ASSUME TypeOK, TruthInv, AskInv, Next
    PROVE  AskInv'
<1> DEFINE Allowed == \A k \in DOMAIN toU, i \in Pieces : Asks(k, i) => mayAsk /\ i \in BitField
           Flying  == \A i \in Pieces : piece[i] = "inflight" => mayAsk
           Done    == \A i \in Pieces : piece[i] = "verified"
<1>0. /\ toU \in Seq(Message) /\ link \in {"up", "closed"} /\ mayAsk \in BOOLEAN
      /\ piece \in [Pieces -> {"missing", "pending", "inflight", "verified"}]
      /\ Allowed /\ Flying /\ (link = "closed" => Done) /\ known \subseteq BitField
  BY DEF TypeOK, AskInv, TruthInv, RecordsTrue
<1>1. (mayAsk => mayAsk') /\ BitField \subseteq BitField'
  BY <1>0 DEF Next, Uploading, Downloading, Scheduling, StoreLeecher, CloneBits, SendBitfield,
     WriteUnchoke, StoreUnchoke, ListenU, EndU, SendPiece, StoreSeeder, Introduce, SendInterested,
     ListenD, Leave, Acquire, Announce, Schedule, Ask, TimeoutLost, TimeoutEarly, LoadRequest,
     uVars, dVars
<1>2. Allowed'
  <2>1. CASE toU' = toU \/ toU' = <<>>
    BY <1>0, <1>1, <2>1 DEF Asks
  <2>2. CASE Shrunk(toU, toU')
    <3>1. \A k \in DOMAIN toU' : k + 1 \in DOMAIN toU /\ toU'[k] = toU[k + 1]
      BY <2>2 DEF Shrunk
    <3> QED BY <1>0, <1>1, <3>1 DEF Asks
  <2>3. ASSUME NEW m, Grown(toU, toU', m),
               m.type = "request" /\ m.index \in Pieces => mayAsk /\ m.index \in BitField
        PROVE  Allowed'
    <3>1. \A k \in DOMAIN toU' : toU'[k] = m \/ (k \in DOMAIN toU /\ toU'[k] = toU[k])
      BY <2>3 DEF Grown
    <3> QED BY <1>0, <1>1, <2>3, <3>1 DEF Asks
  <2> HIDE DEF Allowed
  <2>4. CASE Talks
    BY <2>3, <2>4 DEF Talks
  <2>5. CASE Leave
    <3>1. Plain("notinterest") \in Message /\ Plain("notinterest").type = "notinterest"
      BY Messages
    <3> QED BY <1>0, <2>1, <2>3, <2>5, <3>1, Writing DEF Leave
  <2>6. CASE ListenU \/ EndU
    BY <1>0, <2>1, <2>2, <2>6, Reading DEF ListenU, EndU
  <2>7. ASSUME NEW i \in Pieces, Ask(i) \/ TimeoutLost(i) \/ TimeoutEarly(i)
        PROVE  Allowed'
    <3>1. \A t \in {"request", "cancel"} : Indexed(t, i).type = t /\ Indexed(t, i).index = i
      BY Messages
    <3> QED BY <1>0, <2>3, <2>7, <3>1, Asking, Giving
  <2> QED BY <2>1, <2>4, <2>5, <2>6, <2>7, ToUMoves
<1>3. Flying' /\ (link' = "closed" => Done')
  <2>1. ASSUME NEW i \in Pieces, Ask(i) \/ TimeoutLost(i) \/ TimeoutEarly(i) \/ Schedule(i)
        PROVE  Flying' /\ (link' = "closed" => Done')
    <3>1. /\ piece[i] # "verified" /\ (\A j \in Pieces \ {i} : piece'[j] = piece[j])
          /\ link' = link /\ (piece'[i] = "inflight" => mayAsk)
      BY <1>0, <2>1 DEF Ask, CanRequest, TimeoutLost, TimeoutEarly, GiveUp, Schedule
    <3> QED BY <1>0, <1>1, <3>1
  <2>2. CASE ListenD
    <3>1. /\ link' = link
          /\ \A j \in Pieces : piece'[j] \in {piece[j], "verified"}
      BY <1>0, <2>2 DEF ListenD
    <3> QED BY <1>0, <1>1, <3>1
  <2>3. CASE Leave
    BY <1>0, <1>1, <2>3 DEF Leave, Verified
  <2>4. CASE UNCHANGED <<piece, link>>
    BY <1>0, <1>1, <2>4
  <2> QED BY <2>1, <2>2, <2>3, <2>4 DEF Next, Uploading, Downloading, Scheduling, StoreLeecher,
     CloneBits, SendBitfield, WriteUnchoke, StoreUnchoke, ListenU, EndU, SendPiece, StoreSeeder,
     Introduce, SendInterested, Acquire, Announce, LoadRequest, dVars
<1> QED BY <1>2, <1>3 DEF AskInv

(***************************************************************************)
(* A request is stored in at most one slot, and only for a D that is       *)
(* unchoked and interested; a cancel empties every slot of its block.      *)
(***************************************************************************)
LEMMA StoredWhere ==
    ASSUME TypeOK, NEW i \in Pieces
    PROVE  /\ \A s \in Slots : \/ Stored(i)[s] = requests[s]
                               \/ Stored(i)[s] = i /\ unchoked /\ interest
           /\ \A s, t \in Slots :
                 Stored(i)[s] # requests[s] /\ Stored(i)[t] # requests[t] => s = t
<1>0. requests \in [Slots -> Pieces \cup {Nil}]
  BY DEF TypeOK
<1>1. CASE ~unchoked \/ ~interest \/ i \notin BitField \/ \A s \in Slots : requests[s] # Nil
  BY <1>1 DEF Stored
<1>2. CASE ~(~unchoked \/ ~interest \/ i \notin BitField \/ \A s \in Slots : requests[s] # Nil)
  <2>1. PICK u : Stored(i) = [requests EXCEPT ![u] = i]
    BY <1>2 DEF Stored
  <2> QED BY <1>0, <1>2, <2>1
<1> QED BY <1>1, <1>2

LEMMA CancelledWhere ==
    ASSUME TypeOK, NEW i \in Pieces
    PROVE  /\ \A s \in Slots : Cancelled(i)[s] \in {requests[s], Nil}
           /\ unchoked /\ interest => \A s \in Slots : Cancelled(i)[s] # i
BY SessionAssumption DEF TypeOK, Cancelled

(***************************************************************************)
(* What U's listener does with the first message.                          *)
(***************************************************************************)
LEMMA ReadingU ==
    ASSUME TypeOK, ListenU
    PROVE  /\ Shrunk(toU, toU') /\ toU[1] \in Message /\ 1 \in DOMAIN toU
           /\ UNCHANGED <<piece, link, unchoked>>
           /\ toU[1].type \notin {"interest", "notinterest"} => interest' = interest
           /\ toU[1].type = "interest" => interest'
           /\ toU[1].type = "request" => requests' = Stored(toU[1].index)
           /\ toU[1].type = "cancel" => requests' = Cancelled(toU[1].index)
           /\ toU[1].type \notin {"request", "cancel"} => requests' = requests
<1>0. toU \in Seq(Message) /\ toU # <<>>
  BY DEF TypeOK, ListenU
<1>1. /\ Head(toU) = toU[1] /\ toU' = Tail(toU) /\ UNCHANGED <<piece, link, unchoked>>
      /\ Shrunk(toU, toU') /\ toU[1] \in Message /\ 1 \in DOMAIN toU
  BY <1>0, Reading DEF ListenU, dVars
<1>2. /\ interest' = CASE toU[1].type = "interest" -> TRUE
                        [] toU[1].type = "notinterest" -> FALSE
                        [] OTHER -> interest
      /\ requests' = CASE toU[1].type = "request" -> Stored(toU[1].index)
                        [] toU[1].type = "cancel" -> Cancelled(toU[1].index)
                        [] OTHER -> requests
  BY <1>1 DEF ListenU
<1> QED BY <1>1, <1>2

(***************************************************************************)
(* No other step puts a request into a slot.                               *)
(***************************************************************************)
LEMMA StoredByListener ==
    ASSUME TypeOK, Next, ~ListenU
    PROVE  \A s \in Slots : requests'[s] \in {requests[s], Nil}
<1>1. ASSUME SendPiece
      PROVE  \A s \in Slots : requests'[s] \in {requests[s], Nil}
  BY <1>1 DEF SendPiece, TypeOK
<1>2. \/ \A s \in Slots : requests'[s] \in {requests[s], Nil}
      \/ requests' = requests
  BY <1>1 DEF Next, Uploading, Downloading, Scheduling, StoreLeecher, CloneBits, SendBitfield,
     WriteUnchoke, StoreUnchoke, EndU, StoreSeeder, Introduce, SendInterested, ListenD, Leave,
     Acquire, Announce, Schedule, Ask, TimeoutLost, TimeoutEarly, LoadRequest, uVars
<1> QED BY <1>2

LEMMA HeldStep ==
    ASSUME TypeOK, UnchokeInv, AskInv, HeldInv, Next
    PROVE  HeldInv'
<1> DEFINE Final == \A k \in DOMAIN toU : toU[k].type = "notinterest" => k = Len(toU)
           Over == toU = <<>> /\ link = "closed"
<1>0. /\ toU \in Seq(Message) /\ link \in {"up", "closed"}
      /\ Final /\ \A i \in Pieces : Holds(i) => unchoked /\ (interest \/ Over)
      /\ link = "up" => \A k \in DOMAIN toU : toU[k].type # "notinterest"
  BY DEF TypeOK, HeldInv, UnchokeInv
<1>1. Final'
  <2>1. ASSUME NEW m, Grown(toU, toU', m), link = "up"
        PROVE  Final'
    BY <1>0, <2>1 DEF Grown
  <2>2. CASE toU' = toU \/ toU' = <<>>
    BY <1>0, <2>2
  <2>3. CASE ListenU
    BY <1>0, <2>3, ReadingU DEF Shrunk
  <2> HIDE DEF Final
  <2>4. CASE Leave
    <3>1. Plain("notinterest") \in Message /\ toU' = Write(toU, Plain("notinterest"))
      BY <2>4, Messages DEF Leave
    <3> QED BY <1>0, <2>1, <2>2, <3>1, Writing
  <2>5. ASSUME NEW i \in Pieces, Ask(i) \/ TimeoutLost(i) \/ TimeoutEarly(i)
        PROVE  Final'
    <3>1. link = "up"
      BY <1>0, <2>5, Asking, Giving DEF AskInv
    <3> QED BY <2>1, <2>5, <3>1, Asking, Giving
  <2> QED BY <2>1, <2>2, <2>3, <2>4, <2>5, ToUMoves DEF Talks, EndU
<1>2. ASSUME NEW i \in Pieces, Holds(i)'
      PROVE  (unchoked /\ (interest \/ Over))'
  <2>1. CASE ListenU
    <3>0. /\ toU[1] \in Message /\ 1 \in DOMAIN toU /\ Shrunk(toU, toU') /\ toU # <<>>
          /\ UNCHANGED <<link, unchoked>>
      BY <2>1, ReadingU DEF ListenU
    <3>1. Holds(i) \/ (unchoked /\ interest /\ toU[1].type = "request")
      <4>1. CASE toU[1].type \in {"request", "cancel"}
        <5>1. toU[1].index \in Pieces
          BY <3>0, <4>1, MessageFields
        <5>2. CASE toU[1].type = "request"
          BY <1>2, <2>1, <5>1, <5>2, ReadingU, StoredWhere DEF Holds
        <5>3. CASE toU[1].type = "cancel"
          BY <1>2, <2>1, <5>1, <5>3, ReadingU, CancelledWhere, SessionAssumption DEF Holds
        <5> QED BY <4>1, <5>2, <5>3
      <4>2. CASE toU[1].type \notin {"request", "cancel"}
        BY <1>2, <2>1, <4>2, ReadingU DEF Holds
      <4> QED BY <4>1, <4>2
    <3>2. unchoked' /\ interest
      BY <1>0, <3>0, <3>1
    <3>3. CASE toU[1].type # "notinterest"
      BY <2>1, <3>2, <3>3, ReadingU
    <3>4. CASE toU[1].type = "notinterest"
      <4>1. Len(toU) = 1 /\ link = "closed"
        BY <1>0, <3>0, <3>4
      <4>2. toU' = <<>>
        BY <1>0, <2>1, <4>1 DEF ListenU
      <4> QED BY <3>0, <3>2, <4>1, <4>2
    <3> QED BY <3>3, <3>4
  <2>2. CASE ~ListenU
    <3>1. Holds(i)
      BY <1>2, <2>2, StoredByListener, SessionAssumption DEF Holds
    <3>2. interest' = interest /\ unchoked' \in {unchoked, TRUE}
      BY <2>2 DEF Next, Uploading, Downloading, Scheduling, StoreLeecher, CloneBits,
           SendBitfield, WriteUnchoke, StoreUnchoke, EndU, SendPiece, StoreSeeder, Introduce,
           SendInterested, ListenD, Leave, Acquire, Announce, Schedule, Ask, TimeoutLost,
           TimeoutEarly, LoadRequest, uVars
    <3>3. ASSUME Over
          PROVE  Over'
      <4>1. CASE Leave
        <5>1. Plain("notinterest") \in Message /\ toU' = Write(toU, Plain("notinterest"))
          BY <4>1, Messages DEF Leave
        <5> QED BY <1>0, <3>3, <4>1, <5>1, Writing DEF Leave
      <4>2. ASSUME NEW j \in Pieces, Ask(j) \/ TimeoutLost(j) \/ TimeoutEarly(j)
            PROVE  FALSE
        BY <3>3, <4>2, Asking, Giving DEF AskInv
      <4> QED BY <2>2, <3>3, <4>1, <4>2, ToUMoves DEF EndU
    <3>4. unchoked => unchoked'
      BY <3>2, Zenon
    <3>5. (interest \/ Over) => (interest \/ Over)'
      BY <3>2, <3>3
    <3> QED BY <1>0, <3>1, <3>4, <3>5
  <2> QED BY <2>1, <2>2
<1> QED BY <1>1, <1>2 DEF HeldInv

-----------------------------------------------------------------------------
(* One slot per block *)

(***************************************************************************)
(* A step that writes no request for i, and after which i is neither newly *)
(* held nor newly to be asked for.                                         *)
(***************************************************************************)
LEMMA CancelQuiet ==
    ASSUME NEW i, CancelledFirst(i), Holds(i)' => Holds(i), Unasked(i)' => Unasked(i),
           \/ toU' = toU
           \/ \E m : Grown(toU, toU', m) /\ ~(m.type = "request" /\ m.index = i)
    PROVE  CancelledFirst(i)'
<1>1. CASE toU' = toU
  BY <1>1 DEF CancelledFirst, Asks, Cancels
<1>2. ASSUME NEW m, Grown(toU, toU', m), ~(m.type = "request" /\ m.index = i)
      PROVE  CancelledFirst(i)'
  <2>1. \A k : Asks(k, i)' => Asks(k, i)
    BY <1>2 DEF Grown, Asks
  <2>2. \A k : Cancels(k, i) => Cancels(k, i)'
    BY <1>2 DEF Grown, Cancels
  <2>3. DOMAIN toU \subseteq DOMAIN toU'
    BY <1>2 DEF Grown
  <2>4. \A k : (Asks(k, i) => k \in DOMAIN toU) /\ (Cancels(k, i) => k \in DOMAIN toU)
    BY DEF Asks, Cancels
  <2> QED BY <2>1, <2>2, <2>3, <2>4 DEF CancelledFirst
<1> QED BY <1>1, <1>2

(***************************************************************************)
(* D writes a cancel for i, after which it may ask for i again.            *)
(***************************************************************************)
LEMMA CancelWritten ==
    ASSUME NEW i, CancelledFirst(i), Holds(i)' => Holds(i),
           NEW m, Grown(toU, toU', m), m.type = "cancel", m.index = i
    PROVE  CancelledFirst(i)'
<1>1. \A k : Asks(k, i)' => Asks(k, i)
  BY DEF Grown, Asks
<1>2. \A k : Cancels(k, i) => Cancels(k, i)'
  BY DEF Grown, Cancels
<1>3. PICK n \in DOMAIN toU' : Cancels(n, i)' /\ \A k \in DOMAIN toU : k < n
  <2>1. PICK n \in DOMAIN toU' : n = Len(toU) + 1
    BY DEF Grown
  <2>2. Cancels(n, i)' /\ \A k \in DOMAIN toU : k < n
    BY <2>1 DEF Grown, Cancels
  <2> QED BY <2>2
<1>4. DOMAIN toU \subseteq DOMAIN toU'
  BY DEF Grown
<1>5. \A k : (Asks(k, i) => k \in DOMAIN toU) /\ (Cancels(k, i) => k \in DOMAIN toU)
  BY DEF Asks, Cancels
<1> QED BY <1>1, <1>2, <1>3, <1>4, <1>5 DEF CancelledFirst

(***************************************************************************)
(* D asks for i.                                                           *)
(***************************************************************************)
LEMMA RequestWritten ==
    ASSUME NEW i, CancelledFirst(i), Holds(i)' => Holds(i), Unasked(i), ~Unasked(i)',
           NEW m, Grown(toU, toU', m), m.type = "request", m.index = i
    PROVE  CancelledFirst(i)'
<1>1. \A k : Asks(k, i)' => Asks(k, i) \/ k = Len(toU) + 1
  BY DEF Grown, Asks
<1>2. \A k : Cancels(k, i) => Cancels(k, i)'
  BY DEF Grown, Cancels
<1>3. /\ DOMAIN toU \subseteq DOMAIN toU'
      /\ \A k \in DOMAIN toU : k < Len(toU) + 1
      /\ \A k \in DOMAIN toU : ~(Len(toU) + 1 < k)
      /\ ~(Len(toU) + 1 < Len(toU) + 1)
  BY DEF Grown
<1>4. \A k : (Asks(k, i) => k \in DOMAIN toU) /\ (Cancels(k, i) => k \in DOMAIN toU)
  BY DEF Asks, Cancels
<1>5. ASSUME NEW k \in DOMAIN toU', NEW l \in DOMAIN toU', Asks(k, i)', Asks(l, i)', k < l
      PROVE  \E n \in DOMAIN toU' : Cancels(n, i)' /\ k < n /\ n < l
  <2>1. Asks(k, i)
    BY <1>1, <1>3, <1>4, <1>5
  <2>2. CASE Asks(l, i)
    BY <1>2, <1>3, <1>4, <1>5, <2>1, <2>2 DEF CancelledFirst
  <2>3. CASE l = Len(toU) + 1
    BY <1>2, <1>3, <1>4, <2>1, <2>3 DEF CancelledFirst
  <2> QED BY <1>1, <1>5, <2>2, <2>3
<1>6. ASSUME NEW l \in DOMAIN toU', Holds(i)', Asks(l, i)'
      PROVE  \E n \in DOMAIN toU' : Cancels(n, i)' /\ n < l
  <2>1. CASE Asks(l, i)
    BY <1>2, <1>3, <1>4, <1>6, <2>1 DEF CancelledFirst
  <2>2. CASE l = Len(toU) + 1
    BY <1>2, <1>3, <1>4, <1>6, <2>2 DEF CancelledFirst
  <2> QED BY <1>1, <1>6, <2>1, <2>2
<1> QED BY <1>5, <1>6 DEF CancelledFirst

(***************************************************************************)
(* U reads a message: of another block, the request for i (which may then  *)
(* be held), or the cancel for i (after which i is not held).              *)
(***************************************************************************)
LEMMA CancelRead ==
    ASSUME NEW i, CancelledFirst(i), Shrunk(toU, toU'), Unasked(i)' => Unasked(i),
           \/ Asks(1, i)
           \/ ~Asks(1, i) /\ ~Cancels(1, i) /\ (Holds(i)' => Holds(i))
           \/ Cancels(1, i) /\ ~Holds(i)'
    PROVE  CancelledFirst(i)'
<1>1. /\ \A k \in DOMAIN toU' : k + 1 \in DOMAIN toU /\ k \in Nat \ {0}
      /\ \A k \in DOMAIN toU : k # 1 => k - 1 \in DOMAIN toU'
      /\ \A k \in DOMAIN toU : k \in Nat \ {0}
  BY DEF Shrunk
<1>2. \A k \in DOMAIN toU' : /\ Asks(k, i)' <=> Asks(k + 1, i)
                             /\ Cancels(k, i)' <=> Cancels(k + 1, i)
  BY <1>1 DEF Asks, Cancels, Shrunk
<1>3. ASSUME NEW n \in DOMAIN toU, Cancels(n, i), n # 1
      PROVE  n - 1 \in DOMAIN toU' /\ Cancels(n - 1, i)' /\ n - 1 < n
  <2>1. n - 1 \in DOMAIN toU' /\ (n - 1) + 1 = n
    BY <1>1, <1>3
  <2>2. Cancels((n - 1) + 1, i) 
    BY <1>3, <2>1
  <2> QED BY <1>1, <1>2, <2>1, <2>2
<1>4. ASSUME NEW k \in DOMAIN toU', NEW l \in DOMAIN toU', Asks(k, i)', Asks(l, i)', k < l
      PROVE  \E n \in DOMAIN toU' : Cancels(n, i)' /\ k < n /\ n < l
  <2>1. PICK n \in DOMAIN toU : Cancels(n, i) /\ k + 1 < n /\ n < l + 1
    BY <1>1, <1>2, <1>4 DEF CancelledFirst
  <2>2. PICK o \in DOMAIN toU' : o = n - 1 /\ Cancels(o, i)'
    BY <1>1, <1>3, <2>1
  <2> QED BY <1>1, <2>1, <2>2
<1>5. ASSUME NEW l \in DOMAIN toU', Asks(l, i)', Holds(i)'
      PROVE  \E n \in DOMAIN toU' : Cancels(n, i)' /\ n < l
  <2>1. PICK n \in DOMAIN toU : Cancels(n, i) /\ n < l + 1 /\ n # 1
    <3>1. CASE Asks(1, i)
      BY <1>1, <1>2, <1>5, <3>1 DEF CancelledFirst, Asks
    <3>2. CASE ~Cancels(1, i) /\ Holds(i)
      BY <1>1, <1>2, <1>5, <3>2 DEF CancelledFirst
    <3> QED BY <1>5, <3>1, <3>2
  <2>2. PICK o \in DOMAIN toU' : o = n - 1 /\ Cancels(o, i)'
    BY <1>1, <1>3, <2>1
  <2> QED BY <1>1, <2>1, <2>2
<1>6. ASSUME NEW l \in DOMAIN toU', Asks(l, i)', Unasked(i)'
      PROVE  \E n \in DOMAIN toU' : Cancels(n, i)' /\ l < n
  <2>1. PICK n \in DOMAIN toU : Cancels(n, i) /\ l + 1 < n
    BY <1>1, <1>2, <1>6 DEF CancelledFirst
  <2>2. PICK o \in DOMAIN toU' : o = n - 1 /\ Cancels(o, i)'
    BY <1>1, <1>3, <2>1
  <2> QED BY <1>1, <2>1, <2>2
<1>7. ASSUME Unasked(i)', Holds(i)'
      PROVE  \E n \in DOMAIN toU' : Cancels(n, i)'
  <2>1. PICK n \in DOMAIN toU : Cancels(n, i) /\ n # 1
    <3>1. CASE Asks(1, i)
      BY <1>1, <1>7, <3>1 DEF CancelledFirst, Asks
    <3>2. CASE ~Cancels(1, i) /\ Holds(i)
      BY <1>7, <3>2 DEF CancelledFirst
    <3> QED BY <1>7, <3>1, <3>2
  <2> QED BY <1>3, <2>1
<1> QED BY <1>4, <1>5, <1>6, <1>7 DEF CancelledFirst

LEMMA CancelStep ==
    ASSUME TypeOK, UnchokeInv, AskInv, HeldInv, CancelInv, Next
    PROVE  CancelInv'
<1> SUFFICES ASSUME NEW i \in Pieces
             PROVE  CancelledFirst(i)'
  BY DEF CancelInv
<1>0. /\ toU \in Seq(Message) /\ link \in {"up", "closed"} /\ CancelledFirst(i)
      /\ piece \in [Pieces -> {"missing", "pending", "inflight", "verified"}]
      /\ Nil \notin Pieces
  BY SessionAssumption DEF TypeOK, CancelInv
<1>1. ASSUME ~ListenU
      PROVE  Holds(i)' => Holds(i)
  BY <1>0, <1>1, StoredByListener DEF Holds
<1>2. CASE ListenU
  <2>0. /\ Shrunk(toU, toU') /\ toU[1] \in Message /\ 1 \in DOMAIN toU /\ piece' = piece
        /\ toU # <<>>
    BY <1>2, ReadingU DEF ListenU
  <2>1. Unasked(i)' => Unasked(i)
    BY <2>0 DEF Unasked
  <2>2. CASE toU[1].type = "request"
    <3>1. toU[1].index \in Pieces
      BY <2>0, <2>2, MessageFields
    <3>2. CASE toU[1].index = i
      BY <1>0, <2>0, <2>1, <2>2, <3>2, CancelRead DEF Asks
    <3>3. CASE toU[1].index # i
      <4>1. Holds(i)' => Holds(i)
        BY <1>2, <2>2, <3>1, <3>3, ReadingU, StoredWhere DEF Holds
      <4> QED BY <1>0, <2>0, <2>1, <2>2, <3>3, <4>1, CancelRead DEF Asks, Cancels
    <3> QED BY <3>2, <3>3
  <2>3. CASE toU[1].type = "cancel"
    <3>1. toU[1].index \in Pieces
      BY <2>0, <2>3, MessageFields
    <3>2. Holds(i)' => Holds(i)
      BY <1>0, <1>2, <2>3, <3>1, ReadingU, CancelledWhere DEF Holds
    <3>3. CASE toU[1].index = i
      <4>1. ~Holds(i)'
        <5>1. Holds(i) => unchoked /\ interest
          BY <2>0 DEF HeldInv
        <5>2. unchoked /\ interest => ~Holds(i)'
          BY <1>0, <1>2, <2>3, <3>3, ReadingU, CancelledWhere DEF Holds
        <5> QED BY <3>2, <5>1, <5>2
      <4> QED BY <1>0, <2>0, <2>1, <2>3, <3>3, <4>1, CancelRead DEF Cancels
    <3>4. CASE toU[1].index # i
      BY <1>0, <2>0, <2>1, <2>3, <3>2, <3>4, CancelRead DEF Asks, Cancels
    <3> QED BY <3>3, <3>4
  <2>4. CASE toU[1].type \notin {"request", "cancel"}
    <3>1. Holds(i)' => Holds(i)
      BY <1>2, <2>4, ReadingU DEF Holds
    <3> QED BY <1>0, <2>0, <2>1, <2>4, <3>1, CancelRead DEF Asks, Cancels
  <2> QED BY <2>2, <2>3, <2>4
<1>3. ASSUME NEW j \in Pieces, Ask(j), ~ListenU
      PROVE  CancelledFirst(i)'
  <2>1. /\ Grown(toU, toU', Indexed("request", j))
        /\ piece[j] = "pending" /\ piece' = [piece EXCEPT ![j] = "inflight"]
    BY <1>3, Asking
  <2>2. /\ Indexed("request", j).type = "request" /\ Indexed("request", j).index = j
    BY Messages
  <2>3. CASE i = j
    <3>1. Unasked(i) /\ ~Unasked(i)'
      BY <1>0, <2>1, <2>3 DEF Unasked
    <3> QED BY <1>0, <1>1, <1>3, <2>1, <2>2, <2>3, <3>1, RequestWritten
  <2>4. CASE i # j
    <3>1. Unasked(i)' => Unasked(i)
      BY <1>0, <2>1, <2>4 DEF Unasked
    <3> QED BY <1>0, <1>1, <1>3, <2>1, <2>2, <2>4, <3>1, CancelQuiet
  <2> QED BY <2>3, <2>4
<1>4. ASSUME NEW j \in Pieces, TimeoutLost(j) \/ TimeoutEarly(j), ~ListenU
      PROVE  CancelledFirst(i)'
  <2>1. /\ Grown(toU, toU', Indexed("cancel", j))
        /\ piece' = [piece EXCEPT ![j] = "pending"]
    BY <1>4, Giving
  <2>2. /\ Indexed("cancel", j).type = "cancel" /\ Indexed("cancel", j).index = j
    BY Messages
  <2>3. CASE i = j
    BY <1>0, <1>1, <1>4, <2>1, <2>2, <2>3, CancelWritten
  <2>4. CASE i # j
    <3>1. Unasked(i)' => Unasked(i)
      BY <1>0, <2>1, <2>4 DEF Unasked
    <3> QED BY <1>0, <1>1, <1>4, <2>1, <2>2, <2>4, <3>1, CancelQuiet
  <2> QED BY <2>3, <2>4
<1>5. CASE EndU
  <2>1. link = "closed" /\ toU' = <<>> /\ piece' = piece
    BY <1>5 DEF EndU, dVars
  <2>2. ~Unasked(i)'
    BY <2>1 DEF AskInv, Unasked
  <2>3. DOMAIN toU' = {}
    BY <2>1
  <2> QED BY <2>2, <2>3 DEF CancelledFirst
<1>6. ASSUME ~ListenU, ~\E j \in Pieces : Ask(j) \/ TimeoutLost(j) \/ TimeoutEarly(j), ~EndU
      PROVE  CancelledFirst(i)'
  <2>1. Unasked(i)' => Unasked(i)
    <3>1. CASE ListenD
      <4>1. piece'[i] \in {piece[i], "verified"}
        BY <1>0, <3>1 DEF ListenD
      <4> QED BY <4>1 DEF Unasked
    <3>2. ASSUME NEW j \in Pieces, Schedule(j)
          PROVE  Unasked(i)' => Unasked(i)
      BY <1>0, <3>2 DEF Schedule, Unasked
    <3>3. CASE piece' = piece
      BY <3>3 DEF Unasked
    <3> QED BY <1>6, <3>1, <3>2, <3>3 DEF Next, Uploading, Downloading, Scheduling, StoreLeecher,
         CloneBits, SendBitfield, WriteUnchoke, StoreUnchoke, SendPiece, StoreSeeder, Introduce,
         SendInterested, Leave, Acquire, Announce, LoadRequest, dVars
  <2>2. CASE Leave
    <3>1. /\ Plain("notinterest") \in Message /\ Plain("notinterest").type = "notinterest"
          /\ toU' = Write(toU, Plain("notinterest"))
      BY <2>2, Messages DEF Leave
    <3> QED BY <1>0, <1>1, <1>6, <2>1, <3>1, Writing, CancelQuiet
  <2>3. CASE toU' = toU \/ Talks
    BY <1>0, <1>1, <1>6, <2>1, <2>3, CancelQuiet DEF Talks
  <2> QED BY <1>6, <2>2, <2>3, ToUMoves
<1> QED BY <1>2, <1>3, <1>4, <1>5, <1>6

LEMMA OneSlotStep ==
    ASSUME TypeOK, CancelInv, OneSlotPerBlock, Next
    PROVE  OneSlotPerBlock'
<1>0. Nil \notin Pieces /\ requests \in [Slots -> Pieces \cup {Nil}]
  BY SessionAssumption DEF TypeOK
<1>1. ASSUME \A s \in Slots : requests'[s] \in {requests[s], Nil}
      PROVE  OneSlotPerBlock'
  BY <1>1 DEF OneSlotPerBlock
<1>2. CASE ListenU
  <2>0. /\ toU[1] \in Message /\ 1 \in DOMAIN toU
        /\ \A k \in DOMAIN toU : ~(k < 1)
    BY <1>2, ReadingU DEF Shrunk
  <2>1. CASE toU[1].type = "request"
    <3>1. PICK j \in Pieces : j = toU[1].index
      BY <2>0, <2>1, MessageFields
    <3>2. requests' = Stored(j)
      BY <1>2, <2>1, <3>1, ReadingU
    <3>3. ~Holds(j)
      <4>1. Asks(1, j)
        BY <2>0, <2>1, <3>1 DEF Asks
      <4> QED BY <2>0, <4>1 DEF CancelInv, CancelledFirst
    <3>4. /\ \A s \in Slots : requests'[s] = requests[s] \/ requests'[s] = j
          /\ \A s, t \in Slots :
                requests'[s] # requests[s] /\ requests'[t] # requests[t] => s = t
      BY <3>2, StoredWhere
    <3> QED BY <3>3, <3>4 DEF OneSlotPerBlock, Holds
  <2>2. CASE toU[1].type = "cancel"
    <3>1. toU[1].index \in Pieces
      BY <2>0, <2>2, MessageFields
    <3> QED BY <1>1, <1>2, <2>2, <3>1, ReadingU, CancelledWhere
  <2>3. CASE toU[1].type \notin {"request", "cancel"}
    BY <1>1, <1>2, <2>3, ReadingU
  <2> QED BY <2>1, <2>2, <2>3
<1> QED BY <1>1, <1>2, StoredByListener

-----------------------------------------------------------------------------
LEMMA InitInv ==
    ASSUME Init
    PROVE  IInv
<1>0. /\ Nil \notin Pieces /\ MaxEarly \in Nat /\ toD = <<>> /\ toU = <<>>
      /\ DOMAIN toD = {} /\ DOMAIN toU = {}
  BY SessionAssumption DEF Init
<1>1. TypeOK
  <2>1. /\ announce \in [Pieces -> {"missing", "set", "done"}]
        /\ piece \in [Pieces -> {"missing", "pending", "inflight", "verified"}]
        /\ toD \in Seq(Message) /\ toU \in Seq(Message) /\ early \in 0 .. MaxEarly
    BY <1>0 DEF Init
  <2> QED BY <2>1 DEF Init, TypeOK
<1>2. TruthInv
  BY <1>0 DEF Init, TruthInv, RecordsTrue
<1>3. HaveInv
  BY DEF Init, HaveInv, KnownUnlessRaced
<1>4. UnchokeInv
  BY <1>0 DEF Init, UnchokeInv
<1>5. AskInv
  BY <1>0 DEF Init, AskInv
<1>6. ~\E i \in Pieces : Holds(i)
  BY <1>0 DEF Init, Holds
<1>7. HeldInv /\ CancelInv
  BY <1>0, <1>6 DEF HeldInv, CancelInv, CancelledFirst
<1>8. OneSlotPerBlock
  BY DEF Init, OneSlotPerBlock
<1> QED BY <1>1, <1>2, <1>3, <1>4, <1>5, <1>7, <1>8 DEF IInv

LEMMA NextInv ==
    ASSUME IInv, [Next]_vars
    PROVE  IInv'
<1>1. CASE Next
  BY <1>1, TypeStep, TruthStep, HaveStep, UnchokeStep, AskStep, HeldStep, CancelStep, OneSlotStep
     DEF IInv
<1>2. CASE UNCHANGED vars
  <2>1. TypeOK' /\ TruthInv' /\ HaveInv'
    BY <1>2 DEF vars, uVars, dVars, IInv, TypeOK, TruthInv, RecordsTrue, Verified, HaveInv,
       KnownUnlessRaced, OnRecord
  <2>2. UnchokeInv' /\ AskInv' /\ HeldInv' /\ OneSlotPerBlock'
    BY <1>2 DEF vars, uVars, dVars, IInv, UnchokeInv, AskInv, Asks, HeldInv, Holds, OneSlotPerBlock
  <2>3. CancelInv'
    BY <1>2 DEF vars, uVars, dVars, IInv, CancelInv, CancelledFirst, Asks, Cancels, Holds, Unasked
  <2> QED BY <2>1, <2>2, <2>3 DEF IInv
<1> QED BY <1>1, <1>2

(***************************************************************************)
(* The inductive invariant of a session.                                   *)
(***************************************************************************)
THEOREM Invariance == Spec => []IInv
BY InitInv, NextInv, PTL DEF Spec

(***************************************************************************)
(* The types of a session: what the two listeners index and store.         *)
(***************************************************************************)
THEOREM TypeCorrect == Spec => []TypeOK
<1>1. IInv => TypeOK
  BY DEF IInv
<1> QED BY <1>1, Invariance, PTL

(***************************************************************************)
(* What an end has on record of the other, the other really has.           *)
(***************************************************************************)
THEOREM TrueRecords == Spec => []RecordsTrue
<1>1. IInv => RecordsTrue
  BY DEF IInv, TruthInv
<1> QED BY <1>1, Invariance, PTL

(***************************************************************************)
(* Every piece U has announced reaches D's record, unless the have was     *)
(* written between AddLeecher's Clone and its SendBitfield.                *)
(***************************************************************************)
THEOREM AllAnnounced == Spec => []KnownUnlessRaced
<1>1. IInv => KnownUnlessRaced
  BY DEF IInv, HaveInv
<1> QED BY <1>1, Invariance, PTL

(***************************************************************************)
(* A request is refused only between the write of the unchoke and the      *)
(* store of the status.                                                    *)
(***************************************************************************)
THEOREM NoNeedlessDrop == Spec => []DropsOnlyWhileUnchoking
<1>1. ASSUME IInv
      PROVE  DropsOnlyWhileUnchoking
  <2> SUFFICES ASSUME toU # <<>>, link = "up", Head(toU).type = "request"
               PROVE  /\ Head(toU).index \in BitField /\ interest
                      /\ unchoked \/ unchoker = "written"
    BY DEF DropsOnlyWhileUnchoking
  <2>1. Head(toU) \in Message /\ Head(toU) = toU[1] /\ 1 \in DOMAIN toU
    BY <1>1, Reading DEF IInv, TypeOK
  <2>2. PICK i \in Pieces : i = toU[1].index
    BY <2>1, MessageFields
  <2>3. mayAsk /\ i \in BitField
    BY <1>1, <2>1, <2>2 DEF IInv, AskInv, Asks
  <2>4. (unchoked \/ unchoker = "written") /\ interest
    BY <1>1, <2>3 DEF IInv, UnchokeInv
  <2> QED BY <2>1, <2>2, <2>3, <2>4
<1> QED BY <1>1, Invariance, PTL

(***************************************************************************)
(* U holds a block in one slot at a time, however often D asks again.      *)
(***************************************************************************)
THEOREM OneSlot == Spec => []OneSlotPerBlock
<1>1. IInv => OneSlotPerBlock
  BY DEF IInv
<1> QED BY <1>1, Invariance, PTL

=============================================================================
