--------------------------- MODULE DownloadProofs ---------------------------
(***************************************************************************)
(* The safety of the download engine for every torrent geometry, number of *)
(* slots, set of connections and behaviour of the remote peers.            *)
(*                                                                         *)
(* None of the properties of Download is inductive alone.  IInv joins what *)
(* they need of each other: a receiver that verifies a piece holds its     *)
(* mutex and has all of its blocks; a piece out of the slots has nothing   *)
(* outstanding, so a go-routine that still remembers it cannot disturb it; *)
(* freeSlots can reach the number of slots only if all of them are free.   *)
(***************************************************************************)
EXTENDS Download, TorrentProofs

Holding == {"verify", "write", "set", "release"}

InSlot(i) == \E s \in Slots : requests[s] = i

\* The scheduler's local variables against the slots.
SchedInv ==
    /\ spc = "lock" => sslot \in Slots /\ spiece \in Pieces
    /\ spc \in {"scan", "lock"} =>
          /\ sfree <= sslot - 1
          /\ sfree = sslot - 1 => \A t \in Slots : t < sslot => requests[t] = NoPiece

\* Where a piece is.
SlotInv ==
    /\ unverified \cap BitField = {}
    /\ \A s \in Slots : requests[s] \notin unverified
    /\ \A s, t \in Slots : requests[s] # NoPiece /\ requests[s] = requests[t] => s = t
    /\ \A i \in Pieces : i \in unverified \/ i \in BitField \/ InSlot(i)

\* The fields of a pendingPiece.
PieceInv ==
    \A i \in Pieces :
        /\ Pending[i] \subseteq Blocks(i) /\ InFlight[i] \subseteq Blocks(i)
        /\ Pending[i] \cap InFlight[i] = {}
        /\ Received[i] \subseteq InFlight[i]
        /\ marked[i] = Received[i]
        /\ Downloaded[i] = Cardinality(BytesOf(Received[i]))
        /\ InSlot(i) => Pending[i] \cup InFlight[i] = Blocks(i)
        /\ ~InSlot(i) => Pending[i] = {} /\ InFlight[i] = Received[i]
        /\ i \in unverified => Received[i] = {}

\* The receivers, the mutexes they hold and what they have done so far.
LockInv ==
    /\ \A i \in Pieces : lock[i] # NoConn => rpc[lock[i]] \in Holding /\ PieceOf(lock[i]) = i
    /\ \A c \in Conns : rpc[c] # "idle" =>
          /\ rmsg[c] \in Msgs /\ PieceOf(c) \in Pieces /\ PieceOf(c) \notin unverified
          /\ InSlot(PieceOf(c)) => requests[rmsg[c].slot] = PieceOf(c)
    /\ \A c \in Conns : rpc[c] \in Holding =>
          /\ lock[PieceOf(c)] = c
          /\ requests[rmsg[c].slot] = PieceOf(c)
          /\ Received[PieceOf(c)] = Blocks(PieceOf(c))
    /\ \A c \in Conns : rpc[c] \in {"verify", "write", "set"} => PieceOf(c) \notin BitField
    /\ \A c \in Conns : rpc[c] = "release" => PieceOf(c) \in BitField
    /\ \A c \in Conns : rpc[c] \in {"set", "release"} => file[PieceOf(c)] = "good"
    /\ \A i \in Pieces : InSlot(i) /\ i \in BitField =>
          lock[i] \in Conns /\ rpc[lock[i]] = "release"

CompletedInv == completed => BitField = Pieces

IInv ==
    /\ TypeOK /\ SchedInv /\ SlotInv /\ PieceInv /\ LockInv
    /\ ExactCount /\ VerifiedOnDisk /\ CompletedInv /\ NoPanic

-----------------------------------------------------------------------------
(***************************************************************************)
(* What a receiver that is past its channel knows, in one place.           *)
(***************************************************************************)
LEMMA ReceiverFacts ==
    ASSUME TypeOK, LockInv, NEW c \in Conns, rpc[c] # "idle"
    PROVE  /\ PieceOf(c) \in Pieces
           /\ rmsg[c] \in Msgs
           /\ rmsg[c].slot \in Slots
           /\ rmsg[c].hdr \in Requests \cup Strays
           /\ rmsg[c].good \in BOOLEAN
BY DEF LockInv, Msgs

(***************************************************************************)
(* An accepted block is a block of the receiver's piece, which is in a     *)
(* slot and unverified, and it fits.                                       *)
(***************************************************************************)
LEMMA AcceptedFacts ==
    ASSUME IInv, NEW c \in Conns, RecvBlock(c)
    PROVE  LET i == PieceOf(c)
               r == rmsg[c].hdr
           IN  /\ i \in Pieces /\ r \in Blocks(i) /\ r \notin Received[i]
               /\ InSlot(i) /\ i \notin BitField /\ i \notin unverified
               /\ r.Length \in Nat \ {0}
               /\ Received[i] \cup {r} \in SUBSET Blocks(i)
               /\ Downloaded[i] + r.Length = Cardinality(BytesOf(Received[i] \cup {r}))
               /\ Downloaded[i] + r.Length \in Nat
               /\ Downloaded[i] + r.Length <= PieceSize(i)
               /\ Downloaded[i] + r.Length = PieceSize(i) <=> Received[i] \cup {r} = Blocks(i)
<1> DEFINE i == PieceOf(c)
           r == rmsg[c].hdr
<1>1. i \in Pieces /\ i \notin unverified /\ lock[i] = NoConn
  BY DEF IInv, LockInv, RecvBlock
<1>2. r \in InFlight[i] /\ r \notin Received[i]
  BY DEF RecvBlock, Unexpected
<1>3. InSlot(i) /\ r \in Blocks(i) /\ Received[i] \subseteq Blocks(i)
  BY <1>1, <1>2 DEF IInv, PieceInv
<1>4. i \notin BitField
  BY <1>1, <1>3, SeedersAssumption DEF IInv, LockInv
<1>5. Downloaded[i] = Cardinality(BytesOf(Received[i]))
  BY <1>1 DEF IInv, PieceInv
<1>6. Received[i] \cup {r} \in SUBSET Blocks(i)
  BY <1>3
<1> HIDE DEF i, r
<1>7. Cardinality(BytesOf(Received[i] \cup {r})) = Cardinality(BytesOf(Received[i])) + r.Length
  BY <1>1, <1>2, <1>3, AddBlock
<1>8. /\ Cardinality(BytesOf(Received[i] \cup {r})) \in Nat
      /\ Cardinality(BytesOf(Received[i] \cup {r})) <= PieceSize(i)
      /\ Cardinality(BytesOf(Received[i] \cup {r})) = PieceSize(i) <=> Received[i] \cup {r} = Blocks(i)
  BY <1>1, <1>6, SomeBlocks, FullPiece
<1>9. r.Length \in Nat \ {0}
  BY <1>1, <1>3, BlockFacts
<1> QED BY <1>1, <1>2, <1>3, <1>4, <1>5, <1>6, <1>7, <1>8, <1>9 DEF i, r

(***************************************************************************)
(* A receiver that throws a piece away had all of its blocks in flight.    *)
(***************************************************************************)
LEMMA VerifyFacts ==
    ASSUME IInv, NEW c \in Conns, rpc[c] \in Holding
    PROVE  LET i == PieceOf(c)
           IN  /\ i \in Pieces /\ i \notin unverified
               /\ rmsg[c].slot \in Slots /\ requests[rmsg[c].slot] = i /\ InSlot(i)
               /\ lock[i] = c
               /\ Received[i] = Blocks(i) /\ InFlight[i] = Blocks(i) /\ Pending[i] = {}
<1>1. rpc[c] # "idle"
  BY DEF Holding
<1>2. PieceOf(c) \in Pieces /\ rmsg[c].slot \in Slots
  BY <1>1, ReceiverFacts DEF IInv
<1>3. lock[PieceOf(c)] = c /\ requests[rmsg[c].slot] = PieceOf(c)
      /\ Received[PieceOf(c)] = Blocks(PieceOf(c)) /\ PieceOf(c) \notin unverified
  BY <1>1 DEF IInv, LockInv
<1>4. InSlot(PieceOf(c))
  BY <1>2, <1>3 DEF InSlot
<1>5. /\ Received[PieceOf(c)] \subseteq InFlight[PieceOf(c)]
      /\ InFlight[PieceOf(c)] \subseteq Blocks(PieceOf(c))
      /\ Pending[PieceOf(c)] \subseteq Blocks(PieceOf(c))
      /\ Pending[PieceOf(c)] \cap InFlight[PieceOf(c)] = {}
  BY <1>2 DEF IInv, PieceInv
<1>6. InFlight[PieceOf(c)] = Blocks(PieceOf(c)) /\ Pending[PieceOf(c)] = {}
  BY <1>3, <1>5
<1> QED BY <1>2, <1>3, <1>4, <1>6

-----------------------------------------------------------------------------
(***************************************************************************)
(* Steps of the keepers and of the remote peers keep the types and leave   *)
(* the download engine alone.                                              *)
(***************************************************************************)
LEMMA SeederTypes ==
    ASSUME SeedersTypeOK, NEW k \in Keepers,
           KeeperStep(k)
    PROVE  SeedersTypeOK'
<1> USE SeedersAssumption DEF SeedersTypeOK
<1>1. CASE Redial(k)
  BY <1>1 DEF Redial
<1>2. CASE DialFail(k)
  BY <1>2 DEF DialFail
<1>3. CASE KeepAliveFail(k)
  BY <1>3 DEF KeepAliveFail
<1>4. CASE KeeperExit(k)
  BY <1>4 DEF KeeperExit
<1>5. CASE \E c \in Conns : DialOk(k, c)
  BY <1>5 DEF DialOk
<1> QED BY <1>1, <1>2, <1>3, <1>4, <1>5 DEF KeeperStep

(***************************************************************************)
(* So does UpdateSeeders, which only starts keepers.                       *)
(***************************************************************************)
LEMMA StartTypes ==
    ASSUME SeedersTypeOK, NEW ks, StartKeepers(ks)
    PROVE  /\ SeedersTypeOK' /\ UNCHANGED <<cur, conn>>
           /\ \A k \in Keepers : keeper'[k] = keeper[k] \/ (keeper[k] = "none" /\ keeper'[k] = "wait")
BY DEF SeedersTypeOK, StartKeepers, UpdateSeeders

(***************************************************************************)
(* What remote peers and their connections do keeps the types of the       *)
(* seeder variables.                                                       *)
(***************************************************************************)
LEMMA RemoteTypes ==
    ASSUME SeedersTypeOK, NEW c \in Conns, RemoteStep(c)
    PROVE  SeedersTypeOK'
<1> USE DownloadAssumption DEF SeedersTypeOK
<1>1. CASE ListenerEnd(c)
  BY <1>1 DEF ListenerEnd
<1>2. CASE ProcessChoke(c)
  BY <1>2 DEF ProcessChoke
<1>3. CASE ProcessUnChoke(c)
  BY <1>3 DEF ProcessUnChoke
<1>4. CASE \E i \in Haves : ProcessHave(c, i)
  BY <1>4 DEF ProcessHave
<1>5. CASE \E B \in Bitfields : ProcessBitfield(c, B)
  BY <1>5 DEF ProcessBitfield
<1> QED BY <1>1, <1>2, <1>3, <1>4, <1>5 DEF RemoteStep

(***************************************************************************)
(* The types of the download engine's own variables.                       *)
(***************************************************************************)
LEMMA DownloadTypes ==
    ASSUME IInv, Next
    PROVE  DownloadTypeOK'
<1>0. DownloadTypeOK
  BY DEF IInv, TypeOK
<1> USE <1>0 DEF DownloadTypeOK
<1>1. CASE UNCHANGED downloadVars
  BY <1>1 DEF downloadVars, schedVars, pieceVars, recvVars
<1>2. CASE SchedStop
  BY <1>2 DEF SchedStop, pieceVars, recvVars
<1>3. CASE SchedLoop
  BY <1>3, DownloadAssumption DEF SchedLoop, pieceVars, recvVars
<1>4. CASE SchedLoad
  <2>1. CASE requests[sslot] = NoPiece
    BY <1>4, <2>1, DownloadAssumption DEF SchedLoad, pieceVars, recvVars, Slots, IInv, SchedInv
  <2>2. CASE requests[sslot] # NoPiece
    BY <1>4, <2>2 DEF SchedLoad, pieceVars, recvVars, Slots
  <2> QED BY <2>1, <2>2
<1>5. CASE \E T, S \in SUBSET Requests : SchedPass(T, S)
  <2>1. PICK T, S \in SUBSET Requests : SchedPass(T, S)
    BY <1>5
  <2>2. sslot \in Slots
    BY <2>1 DEF SchedPass, IInv, SchedInv
  <2>3. spc' = "scan" /\ sslot' \in 1 .. NumSlots + 1
    BY <2>1, <2>2, DownloadAssumption DEF SchedPass, Slots
  <2>4. Pending' \in [Pieces -> SUBSET Requests] /\ InFlight' \in [Pieces -> SUBSET Requests]
    BY <2>1 DEF SchedPass
  <2> QED BY <2>1, <2>3, <2>4 DEF SchedPass, recvVars
<1>6. CASE SchedComplete
  BY <1>6 DEF SchedComplete, pieceVars, recvVars
<1>7. CASE SchedEndPass
  BY <1>7 DEF SchedEndPass, pieceVars, recvVars
<1>8. CASE \E s \in Slots, i \in Pieces : SchedAlloc(s, i)
  <2>1. PICK s \in Slots, i \in Pieces : SchedAlloc(s, i)
    BY <1>8
  <2>2. Blocks(i) \subseteq Requests
    BY DEF Requests
  <2>3. spc' = "loop" /\ unverified' \in SUBSET Pieces /\ requests' \in [Slots -> Pieces \cup {NoPiece}]
    BY <2>1 DEF SchedAlloc, Without
  <2>4. /\ Pending' \in [Pieces -> SUBSET Requests]
        /\ InFlight' \in [Pieces -> SUBSET Requests]
        /\ Received' \in [Pieces -> SUBSET Requests]
        /\ marked' \in [Pieces -> SUBSET Requests]
        /\ bad' \in [Pieces -> SUBSET Requests]
        /\ Downloaded' \in [Pieces -> Nat]
    BY <2>1, <2>2 DEF SchedAlloc
  <2> QED BY <2>1, <2>3, <2>4 DEF SchedAlloc, recvVars
<1>9. CASE SchedIdle
  BY <1>9 DEF SchedIdle, pieceVars, recvVars
<1>10. CASE Cancel
  BY <1>10 DEF Cancel, schedVars, pieceVars, recvVars
<1>11. ASSUME NEW c \in Conns, NEW m \in Msgs, RecvMessage(c, m)
       PROVE  DownloadTypeOK'
  BY <1>11 DEF RecvMessage, schedVars, pieceVars
<1>12. ASSUME NEW c \in Conns, RecvStep(c)
       PROVE  DownloadTypeOK'
  <2>1. CASE RecvDrop(c)
    BY <2>1 DEF RecvDrop, schedVars, pieceVars
  <2>2. CASE RecvBlock(c)
    <3>1. /\ PieceOf(c) \in Pieces /\ rmsg[c].hdr \in Requests
          /\ Downloaded[PieceOf(c)] + rmsg[c].hdr.Length \in Nat
          /\ rmsg[c].hdr.Length \in Nat
          /\ PieceSize(PieceOf(c)) \in Nat
      <4>1. /\ PieceOf(c) \in Pieces /\ rmsg[c].hdr \in Blocks(PieceOf(c))
            /\ Downloaded[PieceOf(c)] + rmsg[c].hdr.Length \in Nat
            /\ rmsg[c].hdr.Length \in Nat
        BY <2>2, AcceptedFacts
      <4>2. rmsg[c].hdr \in Requests
        BY <4>1 DEF Requests
      <4>3. PieceSize(PieceOf(c)) \in Nat
        BY <4>1, PieceSizeFacts
      <4> QED BY <4>1, <4>2, <4>3
    <3> QED BY <2>2, <3>1 DEF RecvBlock, Holder, schedVars
  <2>3. ASSUME NEW i \in Pieces, Retry(c, i), file' = file
        PROVE  DownloadTypeOK'
    <3>1. PieceSize(i) \in Nat
      BY PieceSizeFacts
    <3> QED BY <2>3, <3>1 DEF Retry, Uncounted, Unlocked, schedVars
  <2>4. CASE RecvReject(c) \/ RecvCreateFail(c) \/ RecvWriteFail(c)
    <3>1. PieceOf(c) \in Pieces
      BY <2>4, VerifyFacts DEF RecvReject, RecvCreateFail, RecvWriteFail, Holding
    <3> QED BY <2>3, <2>4, <3>1 DEF RecvReject, RecvCreateFail, RecvWriteFail
  <2>5. CASE RecvCreate(c)
    BY <2>5 DEF RecvCreate, schedVars, pieceVars
  <2>6. CASE RecvWrite(c)
    BY <2>6 DEF RecvWrite, schedVars, pieceVars
  <2>7. CASE RecvSetBit(c)
    <3>1. PieceOf(c) \in Pieces
      BY <2>7, VerifyFacts DEF RecvSetBit, Holding
    <3> QED BY <2>7, <3>1 DEF RecvSetBit, schedVars, pieceVars
  <2>8. CASE RecvRelease(c)
    BY <2>8 DEF RecvRelease, SwappedOut, Unlocked, schedVars, pieceVars
  <2> QED BY <1>12, <2>1, <2>2, <2>4, <2>5, <2>6, <2>7, <2>8 DEF RecvStep, VerifyStep
<1> QED
  BY <1>1, <1>2, <1>3, <1>4, <1>5, <1>6, <1>7, <1>8, <1>9, <1>10, <1>11, <1>12
     DEF Next, SchedStep

(***************************************************************************)
(* The scheduler's count of free slots.  Only the scheduler fills a slot,  *)
(* and never during a pass, so a slot it counted stays free.               *)
(***************************************************************************)
LEMMA SchedInvStep ==
    ASSUME IInv, Next
    PROVE  SchedInv'
<1>0. /\ SchedInv /\ sslot \in 1 .. NumSlots + 1 /\ sfree \in 0 .. NumSlots
      /\ NumSlots \in Nat \ {0}
      /\ requests \in [Slots -> Pieces \cup {NoPiece}]
  BY DownloadAssumption DEF IInv, TypeOK, DownloadTypeOK
<1> USE <1>0 DEF SchedInv, Slots
<1>1. CASE UNCHANGED <<schedVars, requests>>
  BY <1>1 DEF schedVars
<1>2. CASE SchedStop \/ SchedComplete \/ SchedIdle \/ SchedEndPass
  BY <1>2 DEF SchedStop, SchedComplete, SchedIdle, SchedEndPass
<1>3. CASE SchedLoop
  BY <1>3 DEF SchedLoop
<1>4. CASE SchedLoad
  <2>1. CASE requests[sslot] = NoPiece
    <3>1. spc' = "scan" /\ sfree' = sfree + 1 /\ sslot' = sslot + 1 /\ requests' = requests
      BY <1>4, <2>1 DEF SchedLoad
    <3>2. spc = "scan"
      BY <1>4 DEF SchedLoad
    <3> QED BY <2>1, <3>1, <3>2
  <2>2. CASE requests[sslot] # NoPiece
    BY <1>4, <2>2 DEF SchedLoad
  <2> QED BY <2>1, <2>2
<1>5. CASE \E T, S \in SUBSET Requests : SchedPass(T, S)
  BY <1>5 DEF SchedPass
<1>6. CASE \E s \in Slots, i \in Pieces : SchedAlloc(s, i)
  BY <1>6 DEF SchedAlloc
<1>7. CASE UNCHANGED schedVars /\ \E s \in Slots, i \in Pieces : requests' = SwappedOut(s, i)
  <2>1. \A t \in Slots : requests[t] = NoPiece => requests'[t] = NoPiece
    BY <1>7 DEF SwappedOut
  <2> QED BY <1>7, <2>1 DEF schedVars
<1>8. ASSUME NEW c \in Conns, RecvStep(c)
      PROVE  SchedInv'
  <2>1. CASE RecvRelease(c)
    <3>1. PieceOf(c) \in Pieces /\ rmsg[c].slot \in Slots
      BY <2>1, VerifyFacts DEF RecvRelease, Holding
    <3> QED BY <1>7, <2>1, <3>1 DEF RecvRelease
  <2> QED
    BY <1>1, <1>8, <2>1
       DEF RecvStep, VerifyStep, RecvDrop, RecvBlock, RecvReject, RecvCreateFail, RecvCreate,
           RecvWriteFail, RecvWrite, RecvSetBit, Retry
<1> QED
  BY <1>1, <1>2, <1>3, <1>4, <1>5, <1>6, <1>8
     DEF Next, SchedStep, Cancel, RecvMessage, downloadVars

(***************************************************************************)
(* A piece stays in exactly one place.                                     *)
(***************************************************************************)
LEMMA SlotInvStep ==
    ASSUME IInv, Next
    PROVE  SlotInv'
<1>0. /\ SlotInv /\ requests \in [Slots -> Pieces \cup {NoPiece}]
      /\ BitField \in SUBSET Pieces /\ unverified \in SUBSET Pieces /\ NoPiece \notin Pieces
  BY DownloadAssumption DEF IInv, TypeOK, DownloadTypeOK
<1> USE <1>0 DEF SlotInv, InSlot
<1>1. CASE UNCHANGED <<unverified, requests, BitField>>
  BY <1>1
<1>2. CASE \E s \in Slots, i \in Pieces : SchedAlloc(s, i)
  <2>1. PICK s \in Slots, i \in Pieces : SchedAlloc(s, i)
    BY <1>2
  <2>2. /\ requests[s] = NoPiece /\ i \in unverified
        /\ requests' = [requests EXCEPT ![s] = i]
        /\ unverified' = unverified \ {i} /\ BitField' = BitField
    BY <2>1 DEF SchedAlloc, Without
  <2>3. unverified' \cap BitField' = {}
    BY <2>2
  <2>4. \A t \in Slots : requests'[t] \notin unverified'
    BY <2>2
  <2>5. \A t, u \in Slots : requests'[t] # NoPiece /\ requests'[t] = requests'[u] => t = u
    BY <2>2
  <2>6. \A j \in Pieces : j \in unverified' \/ j \in BitField' \/ InSlot(j)'
    BY <2>2
  <2> QED BY <2>3, <2>4, <2>5, <2>6
<1>3. ASSUME NEW c \in Conns, RecvSetBit(c)
      PROVE  SlotInv'
  <2>1. PieceOf(c) \in Pieces /\ PieceOf(c) \notin unverified
    BY <1>3, VerifyFacts DEF RecvSetBit, Holding
  <2> QED BY <1>3, <2>1 DEF RecvSetBit, schedVars
<1>4. ASSUME NEW c \in Conns, RecvRelease(c)
      PROVE  SlotInv'
  <2>1. PieceOf(c) \in Pieces /\ PieceOf(c) \in BitField
    <3>1. rpc[c] = "release" /\ PieceOf(c) \in Pieces /\ InSlot(PieceOf(c)) /\ lock[PieceOf(c)] = c
      BY <1>4, VerifyFacts DEF RecvRelease, Holding
    <3> QED BY <3>1 DEF IInv, LockInv
  <2> QED BY <1>4, <2>1 DEF RecvRelease, SwappedOut, schedVars
<1>5. ASSUME NEW c \in Conns, RecvStep(c)
      PROVE  SlotInv'
  BY <1>1, <1>3, <1>4, <1>5
     DEF RecvStep, VerifyStep, RecvDrop, RecvBlock, RecvReject, RecvCreateFail, RecvCreate,
         RecvWriteFail, RecvWrite, Retry, schedVars
<1> QED
  BY <1>1, <1>2, <1>5
     DEF Next, SchedStep, SchedStop, SchedLoop, SchedLoad, SchedComplete, SchedEndPass,
         SchedIdle, SchedPass, Cancel, RecvMessage, downloadVars, schedVars

(***************************************************************************)
(* The fields of a pendingPiece: one step per way they change.             *)
(***************************************************************************)
LEMMA PieceInvStep ==
    ASSUME IInv, Next
    PROVE  PieceInv'
<1>0. /\ PieceInv /\ SlotInv /\ DownloadTypeOK /\ NoPiece \notin Pieces
  BY DownloadAssumption DEF IInv, TypeOK
<1>1. CASE UNCHANGED <<pieceVars, requests, unverified>>
  BY <1>0, <1>1 DEF PieceInv, InSlot, pieceVars
<1>2. CASE \E T, S \in SUBSET Requests : SchedPass(T, S)
  <2>1. PICK T, S \in SUBSET Requests : SchedPass(T, S)
    BY <1>2
  <2>2. spiece \in Pieces
    BY <2>1 DEF SchedPass, IInv, SchedInv
  <2>3. /\ T \subseteq InFlight[spiece] \ marked[spiece] /\ S \subseteq Pending[spiece] \cup T
        /\ Pending'  = [Pending EXCEPT ![spiece] = (Pending[spiece] \cup T) \ S]
        /\ InFlight' = [InFlight EXCEPT ![spiece] = (InFlight[spiece] \ T) \cup S]
        /\ UNCHANGED <<unverified, requests, Received, marked, Downloaded>>
    BY <2>1 DEF SchedPass, Overdue
  <2>4. SUFFICES ASSUME NEW i \in Pieces
                 PROVE  /\ Pending'[i] \subseteq Blocks(i) /\ InFlight'[i] \subseteq Blocks(i)
                        /\ Pending'[i] \cap InFlight'[i] = {}
                        /\ Received[i] \subseteq InFlight'[i]
                        /\ InSlot(i) => Pending'[i] \cup InFlight'[i] = Blocks(i)
                        /\ ~InSlot(i) => Pending'[i] = {} /\ InFlight'[i] = Received[i]
    <3>1. \A i \in Pieces : InSlot(i)' <=> InSlot(i)
      BY <2>3 DEF InSlot
    <3>2. \A i \in Pieces : /\ marked[i] = Received[i]
                            /\ Downloaded[i] = Cardinality(BytesOf(Received[i]))
                            /\ i \in unverified => Received[i] = {}
      BY <1>0 DEF PieceInv
    <3> QED BY <2>3, <3>1, <3>2 DEF PieceInv
  <2>5. CASE i # spiece
    <3>1. Pending'[i] = Pending[i] /\ InFlight'[i] = InFlight[i]
      BY <1>0, <2>2, <2>3, <2>5 DEF DownloadTypeOK
    <3> QED BY <1>0, <3>1 DEF PieceInv
  <2>6. CASE i = spiece
    <3>1. Pending'[i] = (Pending[i] \cup T) \ S /\ InFlight'[i] = (InFlight[i] \ T) \cup S
      BY <1>0, <2>2, <2>3, <2>6 DEF DownloadTypeOK
    <3>2. /\ Pending[i] \subseteq Blocks(i) /\ InFlight[i] \subseteq Blocks(i)
          /\ Pending[i] \cap InFlight[i] = {}
          /\ Received[i] \subseteq InFlight[i] /\ marked[i] = Received[i]
          /\ InSlot(i) => Pending[i] \cup InFlight[i] = Blocks(i)
          /\ ~InSlot(i) => Pending[i] = {} /\ InFlight[i] = Received[i]
      BY <1>0 DEF PieceInv
    <3>3. T \subseteq InFlight[i] \ Received[i] /\ S \subseteq Pending[i] \cup T
      BY <2>3, <2>6, <3>2
    <3> QED BY <3>1, <3>2, <3>3
  <2> QED BY <2>5, <2>6
<1>3. CASE \E s \in Slots, i \in Pieces : SchedAlloc(s, i)
  <2>1. PICK s \in Slots, i \in Pieces : SchedAlloc(s, i)
    BY <1>3
  <2>2. /\ requests[s] = NoPiece /\ requests' = [requests EXCEPT ![s] = i]
        /\ unverified' = unverified \ {i}
        /\ Pending' = [Pending EXCEPT ![i] = Blocks(i)]
        /\ InFlight' = [InFlight EXCEPT ![i] = {}]
        /\ Received' = [Received EXCEPT ![i] = {}]
        /\ marked' = [marked EXCEPT ![i] = {}]
        /\ Downloaded' = [Downloaded EXCEPT ![i] = 0]
    BY <2>1 DEF SchedAlloc, Without
  <2>3. SUFFICES ASSUME NEW j \in Pieces
                 PROVE  (/\ Pending[j] \subseteq Blocks(j) /\ InFlight[j] \subseteq Blocks(j)
                         /\ Pending[j] \cap InFlight[j] = {}
                         /\ Received[j] \subseteq InFlight[j]
                         /\ marked[j] = Received[j]
                         /\ Downloaded[j] = Cardinality(BytesOf(Received[j]))
                         /\ InSlot(j) => Pending[j] \cup InFlight[j] = Blocks(j)
                         /\ ~InSlot(j) => Pending[j] = {} /\ InFlight[j] = Received[j]
                         /\ j \in unverified => Received[j] = {})'
    BY DEF PieceInv
  <2>4. CASE j = i
    <3>1. BytesOf({}) = {} /\ Cardinality(BytesOf({})) = 0
      BY FS_EmptySet DEF BytesOf
    <3>2. InSlot(i)' /\ i \notin unverified'
      BY <1>0, <2>2 DEF InSlot, DownloadTypeOK
    <3>3. /\ Pending'[i] = Blocks(i) /\ InFlight'[i] = {} /\ Received'[i] = {}
          /\ marked'[i] = {} /\ Downloaded'[i] = 0
      BY <1>0, <2>2 DEF DownloadTypeOK
    <3> QED BY <2>4, <3>1, <3>2, <3>3
  <2>5. CASE j # i
    <3>1. /\ Pending'[j] = Pending[j] /\ InFlight'[j] = InFlight[j] /\ Received'[j] = Received[j]
          /\ marked'[j] = marked[j] /\ Downloaded'[j] = Downloaded[j]
          /\ j \in unverified' <=> j \in unverified
      BY <1>0, <2>2, <2>5 DEF DownloadTypeOK
    <3>2. InSlot(j)' <=> InSlot(j)
      BY <1>0, <2>2, <2>5 DEF InSlot, DownloadTypeOK
    <3> QED BY <1>0, <3>1, <3>2 DEF PieceInv
  <2> QED BY <2>4, <2>5
<1>4. ASSUME NEW c \in Conns, RecvBlock(c)
      PROVE  PieceInv'
  <2> DEFINE i == PieceOf(c)
             r == rmsg[c].hdr
  <2>1. /\ i \in Pieces /\ i \notin unverified
        /\ Downloaded[i] + r.Length = Cardinality(BytesOf(Received[i] \cup {r}))
        /\ InSlot(i)
    BY <1>4, AcceptedFacts
  <2>2. r \in InFlight[i]
    BY <1>4 DEF RecvBlock, Unexpected
  <2>3. /\ Received' = [Received EXCEPT ![i] = Received[i] \cup {r}]
        /\ marked' = [marked EXCEPT ![i] = marked[i] \cup {r}]
        /\ Downloaded' = [Downloaded EXCEPT ![i] = Downloaded[i] + r.Length]
        /\ UNCHANGED <<Pending, InFlight, requests, unverified>>
    BY <1>4 DEF RecvBlock, schedVars
  <2> HIDE DEF i, r
  <2>4. SUFFICES ASSUME NEW j \in Pieces
                 PROVE  /\ Received'[j] \subseteq InFlight[j]
                        /\ marked'[j] = Received'[j]
                        /\ Downloaded'[j] = Cardinality(BytesOf(Received'[j]))
                        /\ ~InSlot(j) => InFlight[j] = Received'[j]
                        /\ j \in unverified => Received'[j] = {}
    <3>1. \A j \in Pieces : InSlot(j)' <=> InSlot(j)
      BY <2>3 DEF InSlot
    <3> QED BY <1>0, <2>3, <3>1 DEF PieceInv
  <2>5. CASE j # i
    <3>1. Received'[j] = Received[j] /\ marked'[j] = marked[j] /\ Downloaded'[j] = Downloaded[j]
      BY <1>0, <2>1, <2>3, <2>5 DEF DownloadTypeOK
    <3> QED BY <1>0, <3>1 DEF PieceInv
  <2>6. CASE j = i
    <3>1. /\ Received'[j] = Received[j] \cup {r} /\ marked'[j] = marked[j] \cup {r}
          /\ Downloaded'[j] = Downloaded[j] + r.Length
      BY <1>0, <2>1, <2>3, <2>6 DEF DownloadTypeOK
    <3>2. Received[j] \subseteq InFlight[j] /\ marked[j] = Received[j]
      BY <1>0 DEF PieceInv
    <3>3. Downloaded'[j] = Cardinality(BytesOf(Received'[j]))
      BY <2>1, <2>6, <3>1
    <3> QED BY <2>1, <2>2, <2>6, <3>1, <3>2, <3>3
  <2> QED BY <2>5, <2>6
<1>5. ASSUME NEW c \in Conns, rpc[c] \in Holding, Retry(c, PieceOf(c))
      PROVE  PieceInv'
  <2> DEFINE i == PieceOf(c)
  <2>1. i \in Pieces /\ InSlot(i) /\ InFlight[i] = Blocks(i) /\ Pending[i] = {}
        /\ i \notin unverified
    BY <1>5, VerifyFacts
  <2>2. /\ Pending' = [Pending EXCEPT ![i] = Pending[i] \cup InFlight[i]]
        /\ InFlight' = [InFlight EXCEPT ![i] = {}]
        /\ Received' = [Received EXCEPT ![i] = {}]
        /\ marked' = [marked EXCEPT ![i] = {}]
        /\ Downloaded' = [Downloaded EXCEPT ![i] = 0]
        /\ UNCHANGED <<requests, unverified>>
    BY <1>5 DEF Retry, schedVars
  <2> HIDE DEF i
  <2>3. SUFFICES ASSUME NEW j \in Pieces
                 PROVE  /\ Pending'[j] \subseteq Blocks(j) /\ InFlight'[j] \subseteq Blocks(j)
                        /\ Pending'[j] \cap InFlight'[j] = {}
                        /\ Received'[j] \subseteq InFlight'[j]
                        /\ marked'[j] = Received'[j]
                        /\ Downloaded'[j] = Cardinality(BytesOf(Received'[j]))
                        /\ InSlot(j) => Pending'[j] \cup InFlight'[j] = Blocks(j)
                        /\ ~InSlot(j) => Pending'[j] = {} /\ InFlight'[j] = Received'[j]
                        /\ j \in unverified => Received'[j] = {}
    BY <2>2 DEF PieceInv, InSlot
  <2>4. CASE j # i
    <3>1. /\ Pending'[j] = Pending[j] /\ InFlight'[j] = InFlight[j] /\ Received'[j] = Received[j]
          /\ marked'[j] = marked[j] /\ Downloaded'[j] = Downloaded[j]
      BY <1>0, <2>1, <2>2, <2>4 DEF DownloadTypeOK
    <3> QED BY <1>0, <3>1 DEF PieceInv
  <2>5. CASE j = i
    <3>1. BytesOf({}) = {} /\ Cardinality(BytesOf({})) = 0
      BY FS_EmptySet DEF BytesOf
    <3>2. /\ Pending'[j] = Blocks(j) /\ InFlight'[j] = {} /\ Received'[j] = {}
          /\ marked'[j] = {} /\ Downloaded'[j] = 0
      BY <1>0, <2>1, <2>2, <2>5 DEF DownloadTypeOK
    <3> QED BY <2>1, <2>5, <3>1, <3>2
  <2> QED BY <2>4, <2>5
<1>6. ASSUME NEW c \in Conns, RecvRelease(c)
      PROVE  PieceInv'
  <2> DEFINE i == PieceOf(c)
             s == rmsg[c].slot
  <2>1. /\ i \in Pieces /\ s \in Slots /\ requests[s] = i
        /\ Received[i] = Blocks(i) /\ InFlight[i] = Blocks(i) /\ Pending[i] = {}
    BY <1>6, VerifyFacts DEF RecvRelease, Holding
  <2>2. requests' = [requests EXCEPT ![s] = NoPiece] /\ UNCHANGED <<pieceVars, unverified>>
    BY <1>6, <2>1 DEF RecvRelease, SwappedOut, schedVars
  <2> HIDE DEF i, s
  <2>3. \A j \in Pieces : j # i => (InSlot(j)' <=> InSlot(j))
    BY <1>0, <2>1, <2>2 DEF InSlot, DownloadTypeOK
  <2> QED BY <1>0, <2>1, <2>2, <2>3 DEF PieceInv, pieceVars
<1>7. ASSUME NEW c \in Conns, RecvStep(c)
      PROVE  PieceInv'
  BY <1>1, <1>4, <1>5, <1>6, <1>7
     DEF RecvStep, VerifyStep, RecvDrop, RecvReject, RecvCreateFail, RecvCreate,
         RecvWriteFail, RecvWrite, RecvSetBit, Holding, schedVars
<1> QED
  BY <1>1, <1>2, <1>3, <1>7
     DEF Next, SchedStep, SchedStop, SchedLoop, SchedLoad, SchedComplete, SchedEndPass,
         SchedIdle, Cancel, RecvMessage, downloadVars, schedVars

(***************************************************************************)
(* The mutexes.  At most one receiver holds the mutex of a piece, so what  *)
(* it does to the piece cannot disturb another that verifies.              *)
(***************************************************************************)
LEMMA LockInvStep ==
    ASSUME IInv, Next
    PROVE  LockInv'
<1>0. /\ LockInv /\ SlotInv /\ TypeOK /\ NoPiece \notin Pieces /\ NoConn \notin Conns
  BY DownloadAssumption, SeedersAssumption DEF IInv
<1>1. /\ requests \in [Slots -> Pieces \cup {NoPiece}] /\ Received \in [Pieces -> SUBSET Requests]
      /\ lock \in [Pieces -> Conns \cup {NoConn}] /\ rmsg \in [Conns -> Msgs \cup {NoMsg}]
      /\ rpc \in [Conns -> {"idle", "lock", "verify", "write", "set", "release"}]
      /\ file \in [Pieces -> {"none", "partial", "good"}]
      /\ BitField \in SUBSET Pieces /\ unverified \in SUBSET Pieces
  BY <1>0 DEF TypeOK, DownloadTypeOK
<1>2. \A c, d \in Conns : rpc[c] \in Holding /\ rpc[d] \in Holding /\ PieceOf(c) = PieceOf(d) => c = d
  BY <1>0 DEF LockInv
<1>3. \A c \in Conns : rpc[c] \in Holding => PieceOf(c) \in Pieces /\ rmsg[c].slot \in Slots
  BY <1>0, ReceiverFacts DEF Holding
<1>4. CASE UNCHANGED <<lock, rpc, rmsg, requests, Received, BitField, file, unverified>>
  BY <1>0, <1>4 DEF LockInv, InSlot, PieceOf
<1>5. CASE \E s \in Slots, i \in Pieces : SchedAlloc(s, i)
  <2>1. PICK s \in Slots, i \in Pieces : SchedAlloc(s, i)
    BY <1>5
  <2>2. /\ requests[s] = NoPiece /\ requests' = [requests EXCEPT ![s] = i] /\ i \in unverified
        /\ Received' = [Received EXCEPT ![i] = {}] /\ unverified' = unverified \ {i}
        /\ UNCHANGED <<lock, rpc, rmsg, BitField, file>>
    BY <2>1 DEF SchedAlloc, Without, recvVars
  <2>3. \A j \in Pieces : j # i => (InSlot(j)' <=> InSlot(j)) /\ Received'[j] = Received[j]
    BY <1>0, <1>1, <2>2 DEF InSlot
  <2>4. \A c \in Conns : rpc[c] # "idle" => PieceOf(c) # i /\ PieceOf(c)' = PieceOf(c)
    BY <1>0, <2>2 DEF LockInv, PieceOf
  <2>5. i \notin BitField
    BY <1>0, <2>2 DEF SlotInv
  <2>6. \A c \in Conns : rpc[c] # "idle" => rmsg[c].slot \in Slots
    BY <1>0, ReceiverFacts
  <2>7. \A c \in Conns : rpc[c] # "idle" /\ requests[rmsg[c].slot] = PieceOf(c) =>
           requests'[rmsg[c].slot] = PieceOf(c)
    BY <1>0, <1>1, <2>2, <2>6 DEF LockInv
  <2> QED BY <1>0, <1>1, <2>2, <2>3, <2>4, <2>5, <2>7 DEF LockInv, Holding, PieceOf
<1>6. ASSUME NEW c \in Conns, NEW m \in Msgs, RecvMessage(c, m)
      PROVE  LockInv'
  <2>1. /\ rpc[c] = "idle" /\ requests[m.slot] # NoPiece /\ requests[m.slot] = m.hdr.Index
        /\ rmsg' = [rmsg EXCEPT ![c] = m] /\ rpc' = [rpc EXCEPT ![c] = "lock"]
        /\ UNCHANGED <<lock, requests, Received, BitField, file, unverified>>
    BY <1>6 DEF RecvMessage, schedVars, pieceVars
  <2>2. m.slot \in Slots
    BY DEF Msgs
  <2>3. rmsg'[c] = m /\ PieceOf(c)' = m.hdr.Index /\ rpc'[c] = "lock"
    BY <1>1, <2>1 DEF PieceOf
  <2>4. m.hdr.Index \in Pieces /\ m.hdr.Index \notin unverified
    BY <1>0, <1>1, <2>1, <2>2 DEF SlotInv
  <2>5. \A d \in Conns : d # c => rmsg'[d] = rmsg[d] /\ rpc'[d] = rpc[d] /\ PieceOf(d)' = PieceOf(d)
    BY <1>1, <2>1 DEF PieceOf
  <2>6. \A i \in Pieces : lock[i] # c
    BY <1>0, <2>1 DEF LockInv, Holding
  <2>7. \A i \in Pieces : InSlot(i)' <=> InSlot(i)
    BY <2>1 DEF InSlot
  <2> QED BY <1>0, <1>1, <2>1, <2>2, <2>3, <2>4, <2>5, <2>6, <2>7 DEF LockInv, Holding
<1>7. ASSUME NEW c \in Conns, rpc[c] = "lock", lock[PieceOf(c)] = NoConn,
             rmsg' = [rmsg EXCEPT ![c] = NoMsg], rpc' = [rpc EXCEPT ![c] = "idle"],
             \A i \in Pieces : i # PieceOf(c) => Received'[i] = Received[i],
             UNCHANGED <<lock, requests, BitField, file, unverified>>
      PROVE  LockInv'
  <2>1. \A d \in Conns : d # c => rmsg'[d] = rmsg[d] /\ rpc'[d] = rpc[d] /\ PieceOf(d)' = PieceOf(d)
    BY <1>1, <1>7 DEF PieceOf
  <2>2. \A i \in Pieces : lock[i] # c
    BY <1>0, <1>7 DEF LockInv, Holding
  <2>3. \A i \in Pieces : InSlot(i)' <=> InSlot(i)
    BY <1>7 DEF InSlot
  <2>4. rpc'[c] = "idle"
    BY <1>1, <1>7
  <2>5. \A d \in Conns : rpc[d] \in Holding => PieceOf(d) # PieceOf(c)
    BY <1>0, <1>7 DEF LockInv
  <2> QED BY <1>0, <1>1, <1>3, <1>7, <2>1, <2>2, <2>3, <2>4, <2>5 DEF LockInv, Holding
<1>8. ASSUME NEW c \in Conns, RecvBlock(c)
      PROVE  LockInv'
  <2> DEFINE i == PieceOf(c)
             r == rmsg[c].hdr
             n == Downloaded[i] + r.Length
  <2>1. /\ i \in Pieces /\ InSlot(i) /\ i \notin BitField /\ i \notin unverified
        /\ n = PieceSize(i) <=> Received[i] \cup {r} = Blocks(i)
    BY <1>8, AcceptedFacts
  <2>2. /\ rpc[c] = "lock" /\ lock[i] = NoConn
        /\ Received' = [Received EXCEPT ![i] = Received[i] \cup {r}]
        /\ UNCHANGED <<requests, BitField, file, unverified>>
    BY <1>8 DEF RecvBlock, schedVars
  <2>3. CASE n # PieceSize(i)
    <3>1. /\ lock' = [lock EXCEPT ![i] = NoConn]
          /\ rmsg' = [rmsg EXCEPT ![c] = NoMsg] /\ rpc' = [rpc EXCEPT ![c] = "idle"]
      BY <1>8, <2>3 DEF RecvBlock, Holder, IsFull
    <3>2. lock' = lock
      BY <1>1, <2>2, <3>1
    <3>3. \A j \in Pieces : j # PieceOf(c) => Received'[j] = Received[j]
      BY <1>1, <2>2
    <3> QED BY <1>7, <2>2, <3>1, <3>2, <3>3
  <2>4. CASE n = PieceSize(i)
    <3>1. /\ lock' = [lock EXCEPT ![i] = c] /\ rmsg' = [rmsg EXCEPT ![c] = rmsg[c]]
          /\ rpc' = [rpc EXCEPT ![c] = "verify"]
      BY <1>8, <2>4 DEF RecvBlock, Holder, IsFull
    <3>2. rmsg' = rmsg /\ \A d \in Conns : PieceOf(d)' = PieceOf(d)
      BY <1>1, <3>1 DEF PieceOf
    <3> HIDE DEF i, r, n
    <3>3. Received'[i] = Blocks(i) /\ \A j \in Pieces : j # i => Received'[j] = Received[j]
      BY <1>1, <2>1, <2>2, <2>4
    <3>4. lock'[i] = c /\ \A j \in Pieces : j # i => lock'[j] = lock[j]
      BY <1>1, <2>1, <3>1
    <3>5. rpc'[c] = "verify" /\ \A d \in Conns : d # c => rpc'[d] = rpc[d]
      BY <1>1, <3>1
    <3>6. \A j \in Pieces : lock[j] # c
      BY <1>0, <2>2 DEF LockInv, Holding
    <3>7. \A d \in Conns : rpc[d] \in Holding => PieceOf(d) # i
      BY <1>0, <2>2 DEF LockInv
    <3>8. \A j \in Pieces : InSlot(j)' <=> InSlot(j)
      BY <2>2 DEF InSlot
    <3>9. PieceOf(c) = i
      BY DEF i
    <3> QED
      BY <1>0, <1>1, <1>3, <2>1, <2>2, <3>2, <3>3, <3>4, <3>5, <3>6, <3>7, <3>8, <3>9
         DEF LockInv, Holding
  <2> QED BY <2>3, <2>4
<1>9. ASSUME NEW c \in Conns, rpc[c] \in {"verify", "write"}, Retry(c, PieceOf(c)), file' = file
      PROVE  LockInv'
  <2> DEFINE i == PieceOf(c)
  <2>1. /\ lock' = [lock EXCEPT ![i] = NoConn] /\ rmsg' = [rmsg EXCEPT ![c] = NoMsg]
        /\ rpc' = [rpc EXCEPT ![c] = "idle"] /\ Received' = [Received EXCEPT ![i] = {}]
        /\ UNCHANGED <<requests, BitField, unverified>>
    BY <1>9 DEF Retry, Unlocked, schedVars
  <2>2. i \in Pieces /\ lock[i] = c
    BY <1>9, VerifyFacts DEF Holding
  <2>3. \A d \in Conns : d # c => rmsg'[d] = rmsg[d] /\ rpc'[d] = rpc[d] /\ PieceOf(d)' = PieceOf(d)
    BY <1>1, <2>1 DEF PieceOf
  <2> HIDE DEF i
  <2>4. lock'[i] = NoConn /\ \A j \in Pieces : j # i => lock'[j] = lock[j] /\ Received'[j] = Received[j]
    BY <1>1, <2>1, <2>2
  <2>5. \A j \in Pieces : InSlot(j)' <=> InSlot(j)
    BY <2>1 DEF InSlot
  <2>6. rpc'[c] = "idle"
    BY <1>1, <2>1
  <2>7. \A d \in Conns : d # c /\ rpc[d] \in Holding => PieceOf(d) # i
    BY <1>2, <1>9 DEF i, Holding
  <2>8. \A j \in Pieces : lock[j] = c => j = i
    BY <1>0, <1>9 DEF LockInv, i
  <2>9. i \notin BitField
    BY <1>0, <1>9 DEF LockInv, i
  <2> QED
    BY <1>0, <1>1, <1>3, <1>9, <2>1, <2>2, <2>3, <2>4, <2>5, <2>6, <2>7, <2>8, <2>9
       DEF LockInv, Holding
<1>10. ASSUME NEW c \in Conns, RecvCreate(c) \/ RecvWrite(c) \/ RecvSetBit(c)
       PROVE  LockInv'
  <2> DEFINE i == PieceOf(c)
  <2>1. i \in Pieces /\ lock[i] = c /\ rpc[c] \in {"verify", "write", "set"}
    BY <1>10, VerifyFacts DEF Holding, RecvCreate, RecvWrite, RecvSetBit
  <2>2. UNCHANGED <<lock, rmsg, requests, Received, unverified>>
    BY <1>10 DEF RecvCreate, RecvWrite, RecvSetBit, schedVars, pieceVars
  <2>3. \A d \in Conns : PieceOf(d)' = PieceOf(d)
    BY <2>2 DEF PieceOf
  <2>4. \A d \in Conns : d # c => rpc'[d] = rpc[d]
    BY <1>1, <1>10 DEF RecvCreate, RecvWrite, RecvSetBit
  <2>5. /\ \A j \in Pieces : j # i => file'[j] = file[j]
        /\ \A j \in Pieces : j # i => (j \in BitField' <=> j \in BitField)
    BY <1>1, <1>10 DEF RecvCreate, RecvWrite, RecvSetBit
  <2>6. \/ rpc'[c] = "write" /\ BitField' = BitField
        \/ rpc'[c] = "set" /\ file'[i] = "good" /\ BitField' = BitField
        \/ rpc'[c] = "release" /\ file'[i] = "good" /\ i \in BitField'
    BY <1>0, <1>1, <1>10, <2>1 DEF RecvCreate, RecvWrite, RecvSetBit, LockInv
  <2>7. \A j \in Pieces : InSlot(j)' <=> InSlot(j)
    BY <2>2 DEF InSlot
  <2>8. \A d \in Conns : d # c /\ rpc[d] \in Holding => PieceOf(d) # i
    BY <1>2, <2>1 DEF Holding
  <2>9. i \notin BitField /\ PieceOf(c) = i
    BY <1>0, <2>1 DEF LockInv
  <2> HIDE DEF i
  <2> QED
    BY <1>0, <1>1, <1>3, <2>1, <2>2, <2>3, <2>4, <2>5, <2>6, <2>7, <2>8, <2>9 DEF LockInv, Holding
<1>11. ASSUME NEW c \in Conns, RecvRelease(c)
       PROVE  LockInv'
  <2>0. PICK i \in Pieces, s \in Slots : i = PieceOf(c) /\ s = rmsg[c].slot
    BY <1>11, VerifyFacts DEF Holding, RecvRelease
  <2>1. i \in Pieces /\ s \in Slots /\ requests[s] = i /\ lock[i] = c /\ rpc[c] = "release"
    BY <1>11, <2>0, VerifyFacts DEF Holding, RecvRelease
  <2>2. /\ requests' = [requests EXCEPT ![s] = NoPiece] /\ lock' = [lock EXCEPT ![i] = NoConn]
        /\ rmsg' = [rmsg EXCEPT ![c] = NoMsg] /\ rpc' = [rpc EXCEPT ![c] = "idle"]
        /\ UNCHANGED <<Received, BitField, file, unverified>>
    BY <1>11, <2>0, <2>1 DEF RecvRelease, SwappedOut, Unlocked, schedVars, pieceVars
  <2>3. \A d \in Conns : d # c => rmsg'[d] = rmsg[d] /\ rpc'[d] = rpc[d] /\ PieceOf(d)' = PieceOf(d)
    BY <1>1, <2>2 DEF PieceOf
  <2>4. \A d \in Conns : d # c /\ rpc[d] \in Holding => PieceOf(d) # i
    BY <1>2, <2>0, <2>1 DEF Holding
  <2>5. \A j \in Pieces : lock[j] = c => j = i
    BY <1>0, <2>0, <2>1, SeedersAssumption DEF LockInv
  <2>6. ~InSlot(i)' /\ \A j \in Pieces : j # i => (InSlot(j)' <=> InSlot(j))
    <3>1. \A t \in Slots : requests'[t] = IF t = s THEN NoPiece ELSE requests[t]
      BY <1>1, <2>1, <2>2
    <3>2. \A t \in Slots : requests[t] = i => t = s
      BY <1>0, <2>1 DEF SlotInv
    <3>3. ~InSlot(i)'
      BY <1>0, <2>1, <3>1, <3>2 DEF InSlot
    <3>4. \A j \in Pieces : j # i => (InSlot(j)' <=> InSlot(j))
      BY <1>0, <2>1, <3>1 DEF InSlot
    <3> QED BY <3>3, <3>4
  <2>7. rpc'[c] = "idle" /\ lock'[i] = NoConn /\ \A j \in Pieces : j # i => lock'[j] = lock[j]
    BY <1>1, <2>1, <2>2
  <2>8. \A d \in Conns : rpc[d] # "idle" => rmsg[d].slot \in Slots
    BY <1>0, ReceiverFacts
  <2>9. \A d \in Conns : rpc[d] # "idle" /\ PieceOf(d) # i /\ requests[rmsg[d].slot] = PieceOf(d) =>
           requests'[rmsg[d].slot] = PieceOf(d)
    BY <1>1, <2>1, <2>2, <2>8
  <2>10. \A j \in Pieces : lock'[j] # NoConn => rpc'[lock'[j]] \in Holding /\ PieceOf(lock[j])' = j
    BY <1>0, <1>1, <2>3, <2>5, <2>7 DEF LockInv
  <2>11. \A j \in Pieces : (InSlot(j) /\ j \in BitField)' => lock'[j] \in Conns /\ rpc'[lock'[j]] = "release"
    BY <1>0, <1>1, <2>2, <2>3, <2>5, <2>6, <2>7 DEF LockInv
  <2>12. ASSUME NEW d \in Conns, rpc'[d] # "idle"
         PROVE  /\ rmsg'[d] \in Msgs /\ PieceOf(d)' \in Pieces /\ PieceOf(d)' \notin unverified'
                /\ InSlot(PieceOf(d))' => requests'[rmsg'[d].slot] = PieceOf(d)'
                /\ rpc'[d] \in Holding =>
                     /\ lock'[PieceOf(d)'] = d
                     /\ requests'[rmsg'[d].slot] = PieceOf(d)'
                     /\ Received'[PieceOf(d)'] = Blocks(PieceOf(d)')
                /\ rpc'[d] \in {"verify", "write", "set"} => PieceOf(d)' \notin BitField'
                /\ rpc'[d] = "release" => PieceOf(d)' \in BitField'
                /\ rpc'[d] \in {"set", "release"} => file'[PieceOf(d)'] = "good"
    <3>1. d # c /\ rmsg'[d] = rmsg[d] /\ rpc'[d] = rpc[d] /\ PieceOf(d)' = PieceOf(d)
      BY <2>3, <2>7, <2>12
    <3>2. rmsg[d] \in Msgs /\ PieceOf(d) \in Pieces /\ PieceOf(d) \notin unverified
          /\ (InSlot(PieceOf(d)) => requests[rmsg[d].slot] = PieceOf(d))
      BY <1>0, <2>12, <3>1 DEF LockInv
    <3>3. InSlot(PieceOf(d))' => requests'[rmsg'[d].slot] = PieceOf(d)'
      <4>1. InSlot(PieceOf(d))' => PieceOf(d) # i /\ InSlot(PieceOf(d))
        BY <2>6, <3>1, <3>2 DEF InSlot
      <4> QED BY <2>9, <2>12, <3>1, <3>2, <4>1
    <3>4. rpc[d] \in Holding =>
             /\ PieceOf(d) # i /\ lock[PieceOf(d)] = d /\ requests[rmsg[d].slot] = PieceOf(d)
             /\ Received[PieceOf(d)] = Blocks(PieceOf(d))
      BY <1>0, <2>4, <3>1 DEF LockInv
    <3>5. /\ rpc[d] \in {"verify", "write", "set"} => PieceOf(d) \notin BitField
          /\ rpc[d] = "release" => PieceOf(d) \in BitField
          /\ rpc[d] \in {"set", "release"} => file[PieceOf(d)] = "good"
      BY <1>0 DEF LockInv
    <3> QED BY <2>2, <2>7, <2>9, <2>12, <3>1, <3>2, <3>3, <3>4, <3>5
  <2> QED BY <2>10, <2>11, <2>12 DEF LockInv, Holding, PieceOf
<1>12. ASSUME NEW c \in Conns, RecvDrop(c)
       PROVE  LockInv'
  BY <1>7, <1>12 DEF RecvDrop, schedVars, pieceVars
<1>13. ASSUME NEW c \in Conns, RecvStep(c)
       PROVE  LockInv'
  <2>1. CASE RecvReject(c) \/ RecvCreateFail(c) \/ RecvWriteFail(c)
    BY <1>9, <2>1 DEF RecvReject, RecvCreateFail, RecvWriteFail
  <2> QED BY <1>8, <1>10, <1>11, <1>12, <1>13, <2>1 DEF RecvStep, VerifyStep
<1> QED
  BY <1>4, <1>5, <1>6, <1>13
     DEF Next, SchedStep, SchedStop, SchedLoop, SchedLoad, SchedComplete, SchedEndPass,
         SchedIdle, SchedPass, Cancel, downloadVars, schedVars, pieceVars, recvVars

-----------------------------------------------------------------------------
(***************************************************************************)
(* The byte count moves with the bytes held of one piece.                  *)
(***************************************************************************)
LEMMA HeldChange ==
    ASSUME PieceInv, PieceInv', NEW i \in Pieces,
           \A j \in Pieces \ {i} : HeldBytes(j)' = HeldBytes(j)
    PROVE  Cardinality(UNION {HeldBytes(j) : j \in Pieces})'
             = Cardinality(UNION {HeldBytes(j) : j \in Pieces})
               - Cardinality(HeldBytes(i)) + Cardinality(HeldBytes(i)')
<1> DEFINE h == [j \in Pieces |-> HeldBytes(j)]
           g == [j \in Pieces |-> HeldBytes(j)']
<1>1. \A j \in Pieces : Received[j] \in SUBSET Blocks(j) /\ Received'[j] \in SUBSET Blocks(j)
  BY DEF PieceInv
<1>2. \A j \in Pieces : HeldBytes(j) \subseteq PieceBytes(j) /\ HeldBytes(j)' \subseteq PieceBytes(j)
  BY <1>1, SomeBlocks DEF HeldBytes
<1>3. \A j \in Pieces : h[j] \subseteq PieceBytes(j) /\ g[j] \subseteq PieceBytes(j)
  BY <1>2
<1>4. \A j \in Pieces \ {i} : g[j] = h[j]
  OBVIOUS
<1>5. /\ UNION {h[j] : j \in Pieces} = UNION {HeldBytes(j) : j \in Pieces}
      /\ UNION {g[j] : j \in Pieces} = (UNION {HeldBytes(j) : j \in Pieces})'
      /\ h[i] = HeldBytes(i) /\ g[i] = HeldBytes(i)'
  OBVIOUS
<1> HIDE DEF h, g
<1>6. Cardinality(UNION {g[j] : j \in Pieces})
        = Cardinality(UNION {h[j] : j \in Pieces}) - Cardinality(h[i]) + Cardinality(g[i])
  <2>1. PICK H, G : H = h /\ G = g
    OBVIOUS
  <2>2. /\ \A j \in Pieces : H[j] \subseteq PieceBytes(j) /\ G[j] \subseteq PieceBytes(j)
        /\ \A j \in Pieces \ {i} : G[j] = H[j]
    BY <1>3, <1>4, <2>1
  <2>3. Cardinality(UNION {G[j] : j \in Pieces})
          = Cardinality(UNION {H[j] : j \in Pieces}) - Cardinality(H[i]) + Cardinality(G[i])
    BY <2>2, SwapPiece, ZenonT(30)
  <2> QED BY <2>1, <2>3
<1> QED BY <1>5, <1>6

(***************************************************************************)
(* Every step of the download keeps Tracker.Downloaded equal to the bytes  *)
(* held in slots, being verified and verified.                             *)
(***************************************************************************)
LEMMA CountStep ==
    ASSUME IInv, Next
    PROVE  ExactCount'
<1>0. /\ PieceInv /\ PieceInv' /\ ExactCount /\ LockInv
      /\ Received \in [Pieces -> SUBSET Requests] /\ BitField \in SUBSET Pieces
  BY PieceInvStep DEF IInv, TypeOK, DownloadTypeOK
<1>1. CASE UNCHANGED <<total, BitField, Received>>
  BY <1>0, <1>1 DEF ExactCount, HeldBytes
<1>2. ASSUME NEW s \in Slots, NEW i \in Pieces, SchedAlloc(s, i)
      PROVE  ExactCount'
  <2>1. Received' = Received
    BY <1>0, <1>2 DEF SchedAlloc, PieceInv
  <2> QED BY <1>1, <1>2, <2>1 DEF SchedAlloc
<1>3. ASSUME NEW c \in Conns, RecvBlock(c)
      PROVE  ExactCount'
  <2>0. PICK i \in Pieces, r \in Blocks(PieceOf(c)) : i = PieceOf(c) /\ r = rmsg[c].hdr
    BY <1>3, AcceptedFacts
  <2>1. /\ r \in Blocks(i) /\ r \notin Received[i] /\ i \notin BitField
        /\ r.Length \in Nat /\ Received[i] \in SUBSET Blocks(i)
    BY <1>0, <1>3, <2>0, AcceptedFacts DEF PieceInv
  <2>2. /\ Received' = [Received EXCEPT ![i] = Received[i] \cup {r}]
        /\ BitField' = BitField /\ total' = total + r.Length
    BY <1>3, <2>0 DEF RecvBlock
  <2>3. \A j \in Pieces \ {i} : HeldBytes(j)' = HeldBytes(j)
    BY <1>0, <2>2 DEF HeldBytes
  <2>4. HeldBytes(i) = BytesOf(Received[i]) /\ HeldBytes(i)' = BytesOf(Received[i] \cup {r})
    BY <1>0, <2>1, <2>2 DEF HeldBytes
  <2>5. Cardinality(HeldBytes(i)') = Cardinality(HeldBytes(i)) + r.Length
    BY <2>1, <2>4, AddBlock
  <2>6. Cardinality(HeldBytes(i)) \in Nat
    BY <2>1, <2>4, SomeBlocks
  <2>7. total = Cardinality(UNION {HeldBytes(j) : j \in Pieces}) /\ total \in Int
    BY <1>0 DEF IInv, TypeOK, DownloadTypeOK, ExactCount
  <2>8. Cardinality(UNION {HeldBytes(j) : j \in Pieces})'
          = Cardinality(UNION {HeldBytes(j) : j \in Pieces})
            - Cardinality(HeldBytes(i)) + Cardinality(HeldBytes(i)')
    BY <1>0, <2>3, HeldChange
  <2>9. Cardinality(UNION {HeldBytes(j) : j \in Pieces})' = total'
    BY <2>1, <2>2, <2>5, <2>6, <2>7, <2>8
  <2> QED BY <2>9 DEF ExactCount
<1>4. ASSUME NEW c \in Conns, rpc[c] \in {"verify", "write"}, Retry(c, PieceOf(c))
      PROVE  ExactCount'
  <2>0. PICK i \in Pieces : i = PieceOf(c)
    BY <1>4, VerifyFacts DEF Holding
  <2>1. Received[i] = Blocks(i) /\ i \notin BitField
    BY <1>0, <1>4, <2>0, VerifyFacts DEF Holding, LockInv
  <2>2. /\ Received' = [Received EXCEPT ![i] = {}]
        /\ BitField' = BitField /\ total' = total - PieceSize(i)
    BY <1>4, <2>0 DEF Retry, Uncounted
  <2>3. \A j \in Pieces \ {i} : HeldBytes(j)' = HeldBytes(j)
    BY <1>0, <2>2 DEF HeldBytes
  <2>4. HeldBytes(i) = BytesOf(Blocks(i)) /\ HeldBytes(i)' = {}
    BY <1>0, <2>1, <2>2 DEF HeldBytes, BytesOf
  <2>5. Cardinality(HeldBytes(i)) = PieceSize(i) /\ Cardinality(HeldBytes(i)') = 0
    BY <2>4, BlocksCover, PieceBytesFacts, FS_EmptySet
  <2>6. PieceSize(i) \in Nat
    BY PieceSizeFacts
  <2>7. total = Cardinality(UNION {HeldBytes(j) : j \in Pieces}) /\ total \in Int
    BY <1>0 DEF IInv, TypeOK, DownloadTypeOK, ExactCount
  <2>8. Cardinality(UNION {HeldBytes(j) : j \in Pieces})'
          = Cardinality(UNION {HeldBytes(j) : j \in Pieces})
            - Cardinality(HeldBytes(i)) + Cardinality(HeldBytes(i)')
    BY <1>0, <2>3, HeldChange
  <2>9. Cardinality(UNION {HeldBytes(j) : j \in Pieces})' = total'
    BY <2>1, <2>2, <2>5, <2>6, <2>7, <2>8
  <2> QED BY <2>9 DEF ExactCount
<1>5. ASSUME NEW c \in Conns, RecvSetBit(c)
      PROVE  ExactCount'
  <2>0. PICK i \in Pieces : i = PieceOf(c)
    BY <1>5, VerifyFacts DEF Holding, RecvSetBit
  <2>1. Received[i] = Blocks(i)
    BY <1>5, <2>0, VerifyFacts DEF Holding, RecvSetBit
  <2>2. Received' = Received /\ total' = total /\ BitField' = BitField \cup {i}
    BY <1>5, <2>0 DEF RecvSetBit, pieceVars
  <2>3. \A j \in Pieces : HeldBytes(j)' = HeldBytes(j)
    BY <2>1, <2>2, BlocksCover DEF HeldBytes
  <2> QED BY <1>0, <2>2, <2>3 DEF ExactCount
<1>6. ASSUME NEW c \in Conns, RecvStep(c)
      PROVE  ExactCount'
  BY <1>1, <1>3, <1>4, <1>5, <1>6
     DEF RecvStep, VerifyStep, RecvDrop, RecvReject, RecvCreateFail, RecvCreate,
         RecvWriteFail, RecvWrite, RecvRelease, pieceVars
<1> QED
  BY <1>1, <1>2, <1>6
     DEF Next, SchedStep, SchedStop, SchedLoop, SchedLoad, SchedComplete, SchedEndPass,
         SchedIdle, SchedPass, Cancel, RecvMessage, downloadVars, pieceVars

(***************************************************************************)
(* The files, the completed channel and the panics.                        *)
(***************************************************************************)
LEMMA DiskStep ==
    ASSUME IInv, Next
    PROVE  VerifiedOnDisk'
<1>0. /\ VerifiedOnDisk /\ LockInv /\ file \in [Pieces -> {"none", "partial", "good"}]
      /\ BitField \in SUBSET Pieces
  BY DEF IInv, TypeOK, DownloadTypeOK
<1>1. CASE UNCHANGED <<BitField, file>>
  BY <1>0, <1>1 DEF VerifiedOnDisk
<1>2. ASSUME NEW c \in Conns, RecvCreate(c) \/ RecvWrite(c)
      PROVE  VerifiedOnDisk'
  BY <1>0, <1>2 DEF RecvCreate, RecvWrite, VerifiedOnDisk, LockInv
<1>3. ASSUME NEW c \in Conns, RecvSetBit(c)
      PROVE  VerifiedOnDisk'
  BY <1>0, <1>3 DEF RecvSetBit, VerifiedOnDisk, LockInv
<1>4. ASSUME NEW c \in Conns, RecvStep(c)
      PROVE  VerifiedOnDisk'
  BY <1>1, <1>2, <1>3, <1>4
     DEF RecvStep, VerifyStep, RecvDrop, RecvBlock, RecvReject, RecvCreateFail,
         RecvWriteFail, RecvRelease, Retry
<1> QED
  BY <1>1, <1>4
     DEF Next, SchedStep, SchedStop, SchedLoop, SchedLoad, SchedComplete, SchedEndPass,
         SchedIdle, SchedPass, SchedAlloc, Cancel, RecvMessage, downloadVars

(***************************************************************************)
(* The completed channel stays closed only for a torrent whose pieces are  *)
(* all in the bitfield.                                                    *)
(***************************************************************************)
LEMMA CompletedStep ==
    ASSUME IInv, Next
    PROVE  CompletedInv'
<1>0. CompletedInv /\ BitField \in SUBSET Pieces
  BY DEF IInv, TypeOK, DownloadTypeOK
<1>1. CASE UNCHANGED <<completed, BitField>>
  BY <1>0, <1>1 DEF CompletedInv
<1>2. CASE SchedComplete
  <2>1. unverified = {} /\ sfree = NumSlots /\ sslot = NumSlots + 1 /\ spc = "scan"
    BY <1>2 DEF SchedComplete, NothingLeft
  <2>2. \A t \in Slots : requests[t] = NoPiece
    BY <2>1, DownloadAssumption DEF IInv, SchedInv, Slots
  <2>3. \A i \in Pieces : i \in BitField
    BY <2>1, <2>2, DownloadAssumption DEF IInv, SlotInv, InSlot
  <2> QED BY <1>0, <1>2, <2>3 DEF SchedComplete, CompletedInv
<1>3. ASSUME NEW c \in Conns, RecvSetBit(c)
      PROVE  CompletedInv'
  <2>1. PieceOf(c) \in Pieces
    BY <1>3, VerifyFacts DEF Holding, RecvSetBit
  <2> QED BY <1>0, <1>3, <2>1 DEF RecvSetBit, CompletedInv
<1>4. ASSUME NEW c \in Conns, RecvStep(c)
      PROVE  CompletedInv'
  BY <1>1, <1>3, <1>4
     DEF RecvStep, VerifyStep, RecvDrop, RecvBlock, RecvReject, RecvCreateFail, RecvCreate,
         RecvWrite, RecvWriteFail, RecvRelease, Retry
<1> QED
  BY <1>1, <1>2, <1>4
     DEF Next, SchedStep, SchedStop, SchedLoop, SchedLoad, SchedEndPass,
         SchedIdle, SchedPass, SchedAlloc, Cancel, RecvMessage, downloadVars

(***************************************************************************)
(* No step of recvPieces reaches one of its panics.                        *)
(***************************************************************************)
LEMMA NoPanicStep ==
    ASSUME IInv, Next
    PROVE  NoPanic'
<1>0. NoPanic
  BY DEF IInv
<1>1. CASE UNCHANGED panicked
  BY <1>0, <1>1 DEF NoPanic
<1>2. ASSUME NEW c \in Conns, RecvBlock(c)
      PROVE  NoPanic'
  <2>1. /\ Downloaded[PieceOf(c)] + rmsg[c].hdr.Length <= PieceSize(PieceOf(c))
        /\ Downloaded[PieceOf(c)] + rmsg[c].hdr.Length \in Nat /\ PieceOf(c) \in Pieces
    BY <1>2, AcceptedFacts
  <2>2. PieceSize(PieceOf(c)) \in Nat
    BY <2>1, PieceSizeFacts
  <2>3. ~(Downloaded[PieceOf(c)] + rmsg[c].hdr.Length > PieceSize(PieceOf(c)))
    BY <2>1, <2>2
  <2> QED BY <1>2, <2>3 DEF RecvBlock, NoPanic
<1>3. ASSUME NEW c \in Conns, rpc[c] \in {"verify", "write"}, Retry(c, PieceOf(c))
      PROVE  NoPanic'
  <2>1. Pending[PieceOf(c)] = {}
    BY <1>3, VerifyFacts DEF Holding
  <2> QED BY <1>3, <2>1 DEF Retry, NoPanic
<1>4. ASSUME NEW c \in Conns, RecvStep(c)
      PROVE  NoPanic'
  BY <1>1, <1>2, <1>3, <1>4
     DEF RecvStep, VerifyStep, RecvDrop, RecvReject, RecvCreateFail, RecvCreate,
         RecvWrite, RecvWriteFail, RecvSetBit, RecvRelease
<1> QED
  BY <1>1, <1>4
     DEF Next, SchedStep, SchedStop, SchedLoop, SchedLoad, SchedComplete, SchedEndPass,
         SchedIdle, SchedPass, SchedAlloc, Cancel, RecvMessage, downloadVars

-----------------------------------------------------------------------------
(***************************************************************************)
(* The initial states, whatever an earlier session left behind.            *)
(***************************************************************************)
LEMMA InitInv ==
    ASSUME Init
    PROVE  IInv
<1>0. BytesOf({}) = {} /\ Cardinality(BytesOf({})) = 0
  BY FS_EmptySet DEF BytesOf
<1>1. TypeOK
  <2>1. SeedersTypeOK
    BY SeedersAssumption DEF Init, SeedersInit, SeedersTypeOK
  <2>2. total \in Int
    <3> DEFINE U == UNION {PieceBytes(i) : i \in BitField}
    <3>1. BitField \subseteq Pieces /\ total = Cardinality(U)
      BY DEF Init, DownloadInit
    <3>2. IsFiniteSet(0 .. BytesToDownload - 1)
      BY FS_Interval, GeometryAssumption
    <3>3. U \subseteq 0 .. BytesToDownload - 1
      BY <3>1, PieceBytesFacts
    <3> HIDE DEF U
    <3>4. IsFiniteSet(U)
      BY <3>2, <3>3, FS_Subset
    <3> QED BY <3>1, <3>4, FS_CardinalityType
  <2>3. file \in [Pieces -> {"none", "partial", "good"}]
    BY DEF Init, DownloadInit
  <2>4. /\ spc = "loop" /\ sslot \in 1 .. NumSlots + 1 /\ sfree \in 0 .. NumSlots
        /\ spiece = NoPiece /\ unverified \in SUBSET Pieces /\ BitField \in SUBSET Pieces
        /\ cancel = FALSE /\ completed = FALSE /\ panicked = FALSE
    BY DownloadAssumption DEF Init, DownloadInit
  <2>5. /\ requests \in [Slots -> Pieces \cup {NoPiece}]
        /\ Pending \in [Pieces -> SUBSET Requests] /\ InFlight \in [Pieces -> SUBSET Requests]
        /\ Received \in [Pieces -> SUBSET Requests] /\ marked \in [Pieces -> SUBSET Requests]
        /\ bad \in [Pieces -> SUBSET Requests] /\ Downloaded \in [Pieces -> Nat]
        /\ lock \in [Pieces -> Conns \cup {NoConn}]
    BY DEF Init, DownloadInit
  <2>6. /\ rpc \in [Conns -> {"idle", "lock", "verify", "write", "set", "release"}]
        /\ rmsg \in [Conns -> Msgs \cup {NoMsg}]
    BY DEF Init, DownloadInit
  <2> QED BY <2>1, <2>2, <2>3, <2>4, <2>5, <2>6 DEF TypeOK, DownloadTypeOK
<1>2. SchedInv
  BY DEF Init, DownloadInit, SchedInv
<1>3. SlotInv
  BY DownloadAssumption DEF Init, DownloadInit, SlotInv, InSlot
<1>4. PieceInv
  <2>1. \A i \in Pieces : ~InSlot(i)
    BY DownloadAssumption DEF Init, DownloadInit, InSlot
  <2> QED BY <1>0, <2>1 DEF Init, DownloadInit, PieceInv
<1>5. LockInv
  BY DownloadAssumption DEF Init, DownloadInit, LockInv, InSlot, Holding
<1>6. ExactCount
  <2>1. BitField \subseteq Pieces /\ \A i \in Pieces : Received[i] = {}
    BY DEF Init, DownloadInit
  <2>2. \A i \in Pieces : HeldBytes(i) = IF i \in BitField THEN PieceBytes(i) ELSE {}
    BY <1>0, <2>1 DEF HeldBytes
  <2>3. UNION {HeldBytes(i) : i \in Pieces} = UNION {PieceBytes(i) : i \in BitField}
    BY <2>1, <2>2
  <2> QED BY <2>3 DEF Init, DownloadInit, ExactCount
<1>7. VerifiedOnDisk /\ CompletedInv /\ NoPanic
  BY DEF Init, DownloadInit, VerifiedOnDisk, CompletedInv, NoPanic
<1> QED BY <1>1, <1>2, <1>3, <1>4, <1>5, <1>6, <1>7 DEF IInv

(***************************************************************************)
(* IInv is inductive.                                                      *)
(***************************************************************************)
LEMMA NextInv ==
    ASSUME IInv, [Next]_vars
    PROVE  IInv'
<1>1. CASE Next
  <2>1. SeedersTypeOK'
    <3>0. SeedersTypeOK
      BY DEF IInv, TypeOK
    <3>1. CASE UNCHANGED seederVars
      BY <3>0, <3>1 DEF SeedersTypeOK, seederVars
    <3> QED BY <1>1, <3>0, <3>1, SeederTypes, StartTypes, RemoteTypes DEF Next
  <2>2. TypeOK'
    BY <1>1, <2>1, DownloadTypes DEF TypeOK
  <2> QED
    BY <1>1, <2>2, SchedInvStep, SlotInvStep, PieceInvStep, LockInvStep, CountStep, DiskStep,
       CompletedStep, NoPanicStep DEF IInv
<1>2. CASE UNCHANGED vars
  BY <1>2 DEF vars, seederVars, schedVars, pieceVars, recvVars, IInv, TypeOK, SeedersTypeOK,
     DownloadTypeOK, SchedInv, SlotInv, PieceInv, LockInv, ExactCount, HeldBytes, InSlot,
     PieceOf, VerifiedOnDisk, CompletedInv, NoPanic
<1> QED BY <1>1, <1>2

(***************************************************************************)
(* The inductive invariant holds in every state of every download.         *)
(***************************************************************************)
THEOREM Invariance == Spec => []IInv
BY InitInv, NextInv, PTL DEF Spec

-----------------------------------------------------------------------------
(***************************************************************************)
(* Every variable keeps its type.                                          *)
(***************************************************************************)
THEOREM TypeCorrect == Spec => []TypeOK
<1>1. IInv => TypeOK
  BY DEF IInv
<1> QED BY <1>1, Invariance, PTL

(***************************************************************************)
(* The panics of recvPieces are unreachable.                               *)
(***************************************************************************)
THEOREM NeverPanics == Spec => []NoPanic
<1>1. IInv => NoPanic
  BY DEF IInv
<1> QED BY <1>1, Invariance, PTL

(***************************************************************************)
(* Timeouts, retries and late answers neither lose nor duplicate a block.  *)
(***************************************************************************)
THEOREM BlocksConserved == Spec => []BlockConservation
<1>1. IInv => BlockConservation
  <2>1. SUFFICES ASSUME IInv, NEW s \in Slots, requests[s] # NoPiece
                 PROVE  LET i == requests[s] IN
                          /\ Pending[i] \cup InFlight[i] = Blocks(i)
                          /\ Pending[i] \cap InFlight[i] = {}
                          /\ Received[i] \subseteq InFlight[i]
                          /\ marked[i] = Received[i]
    BY DEF BlockConservation
  <2>2. requests[s] \in Pieces /\ InSlot(requests[s])
    BY <2>1 DEF IInv, TypeOK, DownloadTypeOK, InSlot
  <2> QED BY <2>1, <2>2 DEF IInv, PieceInv
<1> QED BY <1>1, Invariance, PTL

(***************************************************************************)
(* Tracker.Downloaded counts exactly the distinct bytes held.              *)
(***************************************************************************)
THEOREM CountIsExact == Spec => []ExactCount
<1>1. IInv => ExactCount
  BY DEF IInv
<1> QED BY <1>1, Invariance, PTL

(***************************************************************************)
(* A piece is unverified, in one slot, or verified.                        *)
(***************************************************************************)
THEOREM PiecesConserved == Spec => []PieceConservation
<1>1. IInv => PieceConservation
  <2>1. SUFFICES ASSUME IInv PROVE PieceConservation
    OBVIOUS
  <2>2. \A i \in Pieces : i \in unverified \/ i \in BitField \/ \E s \in Slots : requests[s] = i
    BY <2>1 DEF IInv, SlotInv, InSlot
  <2>3. ASSUME NEW s \in Slots, requests[s] # NoPiece
        PROVE  /\ requests[s] \notin unverified
               /\ \A t \in Slots : requests[t] = requests[s] => t = s
               /\ requests[s] \in BitField =>
                    \E c \in Conns : lock[requests[s]] = c /\ rpc[c] = "release"
    <3>1. requests[s] \in Pieces /\ InSlot(requests[s])
      BY <2>1, <2>3 DEF IInv, TypeOK, DownloadTypeOK, InSlot
    <3>2. requests[s] \in BitField =>
             \E c \in Conns : lock[requests[s]] = c /\ rpc[c] = "release"
      BY <2>1, <3>1 DEF IInv, LockInv
    <3> QED BY <2>1, <2>3, <3>2 DEF IInv, SlotInv
  <2> QED BY <2>2, <2>3 DEF PieceConservation
<1> QED BY <1>1, Invariance, PTL

(***************************************************************************)
(* The bitfield speaks only of pieces that are on disk.                    *)
(***************************************************************************)
THEOREM BitFieldOnDisk == Spec => []VerifiedOnDisk
<1>1. IInv => VerifiedOnDisk
  BY DEF IInv
<1> QED BY <1>1, Invariance, PTL

(***************************************************************************)
(* No two go-routines verify the same piece: the compare-and-swap that     *)
(* frees the slot always succeeds, under the piece's mutex.                *)
(***************************************************************************)
THEOREM OneVerifier == Spec => []VerifiedOnce
<1>1. IInv => VerifiedOnce
  BY DEF IInv, LockInv, VerifiedOnce, Holding
<1> QED BY <1>1, Invariance, PTL

(***************************************************************************)
(* A closed completed channel means the whole torrent is verified, on disk *)
(* and counted.                                                            *)
(***************************************************************************)
THEOREM CompletedIsAll == Spec => []CompletedMeansAll
<1>1. IInv => CompletedMeansAll
  <2>1. SUFFICES ASSUME IInv, completed PROVE CompletedMeansAll
    BY DEF CompletedMeansAll
  <2>2. BitField = Pieces
    BY <2>1 DEF IInv, CompletedInv
  <2>3. UNION {HeldBytes(i) : i \in Pieces} = UNION {PieceBytes(i) : i \in Pieces}
    BY <2>2 DEF HeldBytes
  <2>4. total = Cardinality(0 .. BytesToDownload - 1)
    BY <2>1, <2>3, PiecesCover DEF IInv, ExactCount
  <2>5. BytesToDownload \in Nat \ {0}
    <3>1. (NumPieces - 1) * PieceLength \in Nat
      BY GeometryAssumption
    <3> QED BY <3>1, GeometryAssumption
  <2>6. Cardinality(0 .. BytesToDownload - 1) = BytesToDownload
    BY <2>5, FS_Interval
  <2> QED BY <2>1, <2>2, <2>4, <2>6 DEF IInv, VerifiedOnDisk, CompletedMeansAll
<1> QED BY <1>1, Invariance, PTL

(***************************************************************************)
(* The count goes back only by whole, unverified pieces.                   *)
(***************************************************************************)
THEOREM CountDrops == Spec => DropsByPiece
<1>1. ASSUME IInv, [Next]_vars
      PROVE  [CountDropsByPiece]_vars
  <2>0. total \in Int
    BY <1>1 DEF IInv, TypeOK, DownloadTypeOK
  <2>1. ASSUME total' = total
        PROVE  CountDropsByPiece
    BY <2>0, <2>1 DEF CountDropsByPiece
  <2>2. ASSUME NEW c \in Conns, RecvBlock(c)
        PROVE  CountDropsByPiece
    <3>1. rmsg[c].hdr.Length \in Nat
      BY <1>1, <2>2, AcceptedFacts
    <3>2. total' = total + rmsg[c].hdr.Length
      BY <2>2 DEF RecvBlock
    <3>3. ~(total' < total)
      BY <2>0, <3>1, <3>2
    <3> QED BY <3>3 DEF CountDropsByPiece
  <2>3. ASSUME NEW c \in Conns, rpc[c] \in {"verify", "write"}, Retry(c, PieceOf(c))
        PROVE  CountDropsByPiece
    <3>1. PICK i \in Pieces : i = PieceOf(c)
      BY <1>1, <2>3, VerifyFacts DEF Holding
    <3>2. i \notin BitField
      BY <1>1, <2>3, <3>1 DEF IInv, LockInv
    <3>3. total' = total - PieceSize(i) /\ PieceSize(i) \in Nat
      BY <2>3, <3>1, PieceSizeFacts DEF Retry, Uncounted
    <3>4. total - total' = PieceSize(i)
      BY <2>0, <3>3
    <3> QED BY <3>2, <3>4 DEF CountDropsByPiece
  <2>4. ASSUME NEW c \in Conns, RecvStep(c)
        PROVE  CountDropsByPiece
    BY <2>1, <2>2, <2>3, <2>4
       DEF RecvStep, VerifyStep, RecvDrop, RecvReject, RecvCreateFail, RecvCreate,
           RecvWrite, RecvWriteFail, RecvSetBit, RecvRelease
  <2>5. CASE Next
    BY <2>1, <2>4, <2>5
       DEF Next, SchedStep, SchedStop, SchedLoop, SchedLoad, SchedComplete, SchedEndPass,
           SchedIdle, SchedPass, SchedAlloc, Cancel, RecvMessage, downloadVars
  <2> QED BY <1>1, <2>5 DEF vars
<1> QED BY <1>1, Invariance, PTL DEF Spec, DropsByPiece

(***************************************************************************)
(* An open seeder connection has a running keeper that will close it, also *)
(* when several keepers share an address.  With the types it is inductive. *)
(***************************************************************************)
THEOREM NoOrphans == Spec => []NoOrphanConnection
<1>1. Init => NoOrphanConnection
  BY DEF Init, SeedersInit, NoOrphanConnection
<1>2. ASSUME TypeOK, NoOrphanConnection, [Next]_vars
      PROVE  NoOrphanConnection'
  <2>0. SeedersTypeOK /\ NoConn \notin Conns
    BY <1>2, SeedersAssumption DEF TypeOK
  <2>1. CASE UNCHANGED <<keeper, cur, conn>>
    BY <1>2, <2>1 DEF NoOrphanConnection
  <2>2. ASSUME NEW k \in Keepers, KeeperStep(k)
        PROVE  NoOrphanConnection'
    <3> USE <1>2, <2>0 DEF NoOrphanConnection, SeedersTypeOK
    <3>2. CASE Redial(k)
      BY <3>2 DEF Redial, ConnectionStatus
    <3>3. CASE DialFail(k)
      BY <3>3 DEF DialFail
    <3>4. CASE KeepAliveFail(k)
      BY <3>4 DEF KeepAliveFail
    <3>5. CASE KeeperExit(k)
      BY <3>5 DEF KeeperExit
    <3>6. CASE \E c \in Conns : DialOk(k, c)
      BY <3>6 DEF DialOk
    <3> QED BY <2>2, <3>2, <3>3, <3>4, <3>5, <3>6 DEF KeeperStep
  <2>3. ASSUME NEW c \in Conns, RemoteStep(c)
        PROVE  NoOrphanConnection'
    <3>1. CASE ListenerEnd(c)
      BY <1>2, <2>0, <3>1 DEF ListenerEnd, NoOrphanConnection, SeedersTypeOK
    <3> QED
      BY <2>1, <2>3, <3>1
         DEF RemoteStep, ProcessChoke, ProcessUnChoke, ProcessHave, ProcessBitfield
  <2>4. ASSUME NEW ks, StartKeepers(ks)
        PROVE  NoOrphanConnection'
    BY <1>2, <2>0, <2>4, StartTypes DEF NoOrphanConnection
  <2> QED BY <1>2, <2>1, <2>2, <2>3, <2>4 DEF Next, seederVars, vars
<1> QED BY <1>1, <1>2, TypeCorrect, PTL DEF Spec

-----------------------------------------------------------------------------
(***************************************************************************)
(* The download engine implements Engine, which module Lifecycle builds    *)
(* on: under the mapping of Download, every step of the scheduler, of a    *)
(* receiver, of a keeper or of a remote peer is a step of Engine or leaves *)
(* what Engine sees alone.                                                 *)
(*                                                                         *)
(* IInv says nothing of the end of a download.                             *)
(* EndInv adds it: a keeper has left only after a channel was closed, a    *)
(* receiver that works had a keeper, and a complete piece that is not yet  *)
(* verified is in the hands of a receiver, so that no piece is half done   *)
(* when the last one leaves.                                               *)
(***************************************************************************)
Ending == cancel \/ completed

EndInv ==
    /\ \A k \in Keepers : keeper[k] = "exited" => Ending
    /\ \A c \in Conns : rpc[c] # "idle" => conn[c] # "none"
    /\ \A c \in Conns : conn[c] # "none" => \E k \in Keepers : keeper[k] # "none"
    /\ \A i \in Pieces : Received[i] = Blocks(i) /\ i \notin BitField => lock[i] # NoConn

\* What the mapping of Download makes of the pieces and of the receivers.
Counted == BitField \cup {i \in Pieces : Downloaded[i] = PieceSize(i)}
Recv == IF Arriving THEN "on" ELSE IF Receiving THEN "closing" ELSE "off"

\* A step of Engine, or none.
EngineStep == [E!Next]_(E!engine)

-----------------------------------------------------------------------------
(***************************************************************************)
(* A piece counts as counted exactly when it is verified or all its blocks *)
(* were received: the sum of the lengths tells.                            *)
(***************************************************************************)
LEMMA CountedFacts ==
    ASSUME IInv
    PROVE  /\ Counted = BitField \cup {i \in Pieces : Received[i] = Blocks(i)}
           /\ \A i \in Pieces : Blocks(i) # {}
<1>1. ASSUME NEW i \in Pieces
      PROVE  Downloaded[i] = PieceSize(i) <=> Received[i] = Blocks(i)
  <2>1. Received[i] \in SUBSET Blocks(i) /\ Downloaded[i] = Cardinality(BytesOf(Received[i]))
    BY DEF IInv, PieceInv
  <2> QED BY <2>1, FullPiece
<1>2. ASSUME NEW i \in Pieces, Blocks(i) = {}
      PROVE  FALSE
  <2>1. BytesOf({}) = {}
    BY DEF BytesOf
  <2>2. Cardinality(BytesOf({})) = 0
    BY <2>1, FS_EmptySet
  <2>3. PieceSize(i) # 0
    BY PieceSizeFacts
  <2> QED BY <1>2, <2>2, <2>3, FullPiece
<1> QED BY <1>1, <1>2 DEF Counted

(***************************************************************************)
(* When all pieces are counted the byte count is that of the torrent, so   *)
(* the test of UpdateSeeders never starts a keeper then.                   *)
(***************************************************************************)
LEMMA AllCounted ==
    ASSUME IInv, Counted = Pieces
    PROVE  total = BytesToDownload
<1>1. ASSUME NEW i \in Pieces
      PROVE  HeldBytes(i) = PieceBytes(i)
  <2>1. i \in BitField \/ Received[i] = Blocks(i)
    BY CountedFacts
  <2> QED BY <2>1, BlocksCover DEF HeldBytes
<1>2. UNION {HeldBytes(i) : i \in Pieces} = UNION {PieceBytes(i) : i \in Pieces}
  BY <1>1
<1>3. total = Cardinality(0 .. BytesToDownload - 1)
  BY <1>2, PiecesCover DEF IInv, ExactCount
<1>4. BytesToDownload \in Nat
  BY GeometryAssumption
<1> QED BY <1>3, <1>4, FS_Interval

(***************************************************************************)
(* When no receiver is at work, no piece is half done.                     *)
(***************************************************************************)
LEMMA NothingHalfDone ==
    ASSUME IInv, EndInv, ~Receiving
    PROVE  Counted = BitField
<1>1. ASSUME NEW i \in Pieces, Received[i] = Blocks(i), i \notin BitField
      PROVE  FALSE
  <2>1. lock[i] \in Conns
    BY <1>1 DEF EndInv, IInv, TypeOK, DownloadTypeOK
  <2>2. rpc[lock[i]] \in Holding
    BY <1>1, <2>1, SeedersAssumption DEF IInv, LockInv
  <2> QED BY <2>1, <2>2 DEF Receiving, Holding
<1> QED BY <1>1, CountedFacts

(***************************************************************************)
(* A receiver at work has a keeper that is still there, or a channel is    *)
(* closed.                                                                 *)
(***************************************************************************)
LEMMA ReceiverHasKeeper ==
    ASSUME IInv, EndInv, NEW c \in Conns, rpc[c] # "idle", ~Ending
    PROVE  \E k \in Keepers : keeper[k] \in {"wait", "dial"}
<1>1. PICK k \in Keepers : keeper[k] # "none"
  BY DEF EndInv
<1>2. keeper[k] \in {"none", "wait", "dial", "exited"}
  BY DEF IInv, TypeOK, SeedersTypeOK
<1> QED BY <1>1, <1>2 DEF EndInv

-----------------------------------------------------------------------------
(***************************************************************************)
(* EndInv: nothing of it holds before the first keeper is started.         *)
(***************************************************************************)
LEMMA EndInit ==
    ASSUME Init
    PROVE  EndInv
<1>1. IInv
  BY InitInv
<1>2. \A i \in Pieces : Received[i] = {}
  BY DEF Init, DownloadInit
<1>3. \A i \in Pieces : Received[i] # Blocks(i)
  BY <1>1, <1>2, CountedFacts
<1> QED BY <1>3 DEF Init, SeedersInit, DownloadInit, EndInv

(***************************************************************************)
(* The keepers: one leaves only when a channel is closed, and one is left  *)
(* of every connection that was ever made.                                 *)
(***************************************************************************)
LEMMA EndKeepers ==
    ASSUME IInv, EndInv, NEW k \in Keepers, KeeperStep(k), UNCHANGED downloadVars
    PROVE  EndInv'
<1>0. SeedersTypeOK /\ NoConn \notin Conns
  BY SeedersAssumption DEF IInv, TypeOK
<1>1. UNCHANGED <<rpc, Received, BitField, lock, cancel, completed>>
  BY DEF downloadVars, pieceVars, recvVars
<1> USE <1>0, <1>1 DEF EndInv, Ending, SeedersTypeOK
<1>3. CASE Redial(k)
  BY <1>3 DEF Redial
<1>4. CASE DialFail(k)
  BY <1>4 DEF DialFail
<1>5. CASE KeepAliveFail(k)
  BY <1>5 DEF KeepAliveFail, ConnectionStatus
<1>6. CASE (cancel \/ completed) /\ KeeperExit(k)
  BY <1>6 DEF KeeperExit
<1>7. ASSUME NEW c \in Conns, DialOk(k, c)
      PROVE  EndInv'
  BY <1>7 DEF DialOk
<1> QED BY <1>3, <1>4, <1>5, <1>6, <1>7 DEF KeeperStep

(***************************************************************************)
(* Keepers that are started are not among those that have left.            *)
(***************************************************************************)
LEMMA EndStarts ==
    ASSUME IInv, EndInv, NEW ks, StartKeepers(ks), UNCHANGED downloadVars
    PROVE  EndInv'
<1>1. UNCHANGED <<rpc, Received, BitField, lock, cancel, completed>>
  BY DEF downloadVars, pieceVars, recvVars
<1>2. /\ UNCHANGED <<cur, conn>>
      /\ \A k \in Keepers : keeper'[k] = keeper[k] \/ (keeper[k] = "none" /\ keeper'[k] = "wait")
  BY StartTypes DEF IInv, TypeOK
<1> QED BY <1>1, <1>2 DEF EndInv, Ending

(***************************************************************************)
(* The receivers: the one that completes a piece keeps its mutex until the *)
(* piece is verified or thrown away.                                       *)
(***************************************************************************)
LEMMA EndReceivers ==
    ASSUME IInv, EndInv, NEW c \in Conns, RecvStep(c), UNCHANGED seederVars
    PROVE  EndInv'
<1>0. /\ DownloadTypeOK /\ NoConn \notin Conns
      /\ UNCHANGED <<keeper, conn>>
  BY SeedersAssumption DEF IInv, TypeOK, seederVars
<1> USE <1>0 DEF EndInv, Ending, DownloadTypeOK
<1>1. CASE RecvDrop(c)
  BY <1>1 DEF RecvDrop, pieceVars
<1>2. CASE RecvBlock(c)
  <2> DEFINE i == PieceOf(c)
             r == rmsg[c].hdr
  <2>1. /\ i \in Pieces /\ Received[i] \cup {r} \in SUBSET Blocks(i)
        /\ Downloaded[i] + r.Length = PieceSize(i) <=> Received[i] \cup {r} = Blocks(i)
    BY <1>2, AcceptedFacts
  <2>2. /\ rpc[c] # "idle" /\ UNCHANGED <<BitField, cancel, completed>>
        /\ Received' = [Received EXCEPT ![i] = @ \cup {r}]
        /\ lock' = [lock EXCEPT ![i] = IF Downloaded[i] + r.Length = PieceSize(i) THEN c ELSE NoConn]
        /\ \A d \in Conns : rpc'[d] # "idle" => rpc[d] # "idle"
    BY <1>2 DEF RecvBlock, Holder, IsFull
  <2> HIDE DEF i, r
  <2> QED BY <2>1, <2>2
<1>3. ASSUME NEW i \in Pieces, Retry(c, i)
      PROVE  EndInv'
  <2>1. Blocks(i) # {}
    BY CountedFacts
  <2>2. /\ Received' = [Received EXCEPT ![i] = {}]
        /\ lock' = [lock EXCEPT ![i] = NoConn]
        /\ rpc' = [rpc EXCEPT ![c] = "idle"]
        /\ UNCHANGED <<BitField, cancel, completed>>
    BY <1>3 DEF Retry, Unlocked
  <2> QED BY <2>1, <2>2
<1>4. CASE RecvReject(c) \/ RecvCreateFail(c) \/ RecvWriteFail(c)
  <2>1. PieceOf(c) \in Pieces
    BY <1>4, VerifyFacts DEF RecvReject, RecvCreateFail, RecvWriteFail, Holding
  <2> QED BY <1>3, <1>4, <2>1 DEF RecvReject, RecvCreateFail, RecvWriteFail
<1>5. CASE RecvCreate(c)
  BY <1>5 DEF RecvCreate, pieceVars
<1>6. CASE RecvWrite(c)
  BY <1>6 DEF RecvWrite, pieceVars
<1>7. CASE RecvSetBit(c)
  BY <1>7 DEF RecvSetBit, pieceVars
<1>8. CASE RecvRelease(c)
  <2>1. PieceOf(c) \in Pieces /\ PieceOf(c) \in BitField
    <3>1. PieceOf(c) \in Pieces
      BY <1>8, VerifyFacts DEF RecvRelease, Holding
    <3> QED BY <1>8, <3>1 DEF IInv, LockInv, RecvRelease
  <2> QED BY <1>8, <2>1 DEF RecvRelease, Unlocked, pieceVars
<1> QED BY <1>1, <1>2, <1>4, <1>5, <1>6, <1>7, <1>8 DEF RecvStep, VerifyStep

(***************************************************************************)
(* EndInv is inductive relative to IInv.                                   *)
(***************************************************************************)
LEMMA EndStep ==
    ASSUME IInv, EndInv, [Next]_vars
    PROVE  EndInv'
<1>0. DownloadTypeOK /\ SeedersTypeOK
  BY DEF IInv, TypeOK
<1>1. CASE UNCHANGED <<keeper, conn, rpc, Received, BitField, lock, cancel, completed>>
  BY <1>1 DEF EndInv, Ending
<1>2. CASE SchedComplete /\ UNCHANGED seederVars
  BY <1>2 DEF SchedComplete, EndInv, Ending, seederVars, pieceVars, recvVars
<1>3. ASSUME NEW s \in Slots, NEW i \in Pieces, SchedAlloc(s, i), UNCHANGED seederVars
      PROVE  EndInv'
  <2>1. Received[i] = {}
    BY <1>3 DEF SchedAlloc, IInv, PieceInv
  <2>2. Received' = Received
    BY <1>0, <1>3, <2>1 DEF SchedAlloc, DownloadTypeOK
  <2> QED BY <1>1, <1>3, <2>2 DEF SchedAlloc, seederVars, recvVars
<1>4. CASE Cancel /\ UNCHANGED seederVars
  BY <1>4 DEF Cancel, EndInv, Ending, seederVars, pieceVars, recvVars
<1>5. ASSUME NEW c \in Conns, NEW m \in Msgs, RecvMessage(c, m), UNCHANGED seederVars
      PROVE  EndInv'
  BY <1>0, <1>5 DEF RecvMessage, EndInv, Ending, seederVars, pieceVars, DownloadTypeOK
<1>6. ASSUME NEW c \in Conns, RemoteStep(c), UNCHANGED downloadVars
      PROVE  EndInv'
  <2>1. UNCHANGED <<keeper, rpc, Received, BitField, lock, cancel, completed>>
    BY <1>6 DEF downloadVars, pieceVars, recvVars, RemoteStep, ListenerEnd, ProcessChoke,
       ProcessUnChoke, ProcessHave, ProcessBitfield
  <2>2. \A d \in Conns : conn'[d] # "none" <=> conn[d] # "none"
    BY <1>0, <1>6 DEF RemoteStep, ListenerEnd, ProcessChoke, ProcessUnChoke, ProcessHave,
       ProcessBitfield, SeedersTypeOK
  <2> QED BY <2>1, <2>2 DEF EndInv, Ending
<1>7. CASE SchedStep /\ UNCHANGED seederVars
  BY <1>1, <1>2, <1>3, <1>7
     DEF SchedStep, SchedStop, SchedLoop, SchedLoad, SchedEndPass, SchedIdle, SchedPass,
         seederVars, pieceVars, recvVars
<1>8. CASE UNCHANGED vars
  BY <1>1, <1>8 DEF vars, seederVars, pieceVars, recvVars
<1> QED BY <1>4, <1>5, <1>6, <1>7, <1>8, EndKeepers, EndStarts, EndReceivers DEF Next

(***************************************************************************)
(* What the end of a download needs holds in every state.                  *)
(***************************************************************************)
THEOREM EndInvariance == Spec => []EndInv
BY Invariance, EndInit, EndStep, PTL DEF Spec

-----------------------------------------------------------------------------
(* The steps of Engine, told in terms of Counted and Recv *)

(***************************************************************************)
(* What Engine sees did not change.                                        *)
(***************************************************************************)
LEMMA Stutter ==
    ASSUME UNCHANGED <<BitField, Counted, Recv, cancel, completed>>,
           spc' = "exited" <=> spc = "exited"
    PROVE  EngineStep
BY DEF EngineStep, E!engine, Counted, Recv

(***************************************************************************)
(* A go-routine that is at work comes to its end, or to that of a message. *)
(* Without a closed channel a keeper is there, before and after; with one, *)
(* Engine lets the receivers close and, when nothing is half done, stop.   *)
(***************************************************************************)
LEMMA WorkEnds ==
    ASSUME IInv, EndInv, IInv', EndInv',
           Arriving \/ Receiving, Arriving' => Arriving,
           Ending \/ Arriving',
           UNCHANGED <<BitField, Counted, spc, cancel, completed>>
    PROVE  EngineStep
<1>1. CASE Recv' = Recv
  BY <1>1, Stutter
<1>2. CASE Recv = "on" /\ Recv' = "closing"
  <2>1. E!RecvClose
    BY <1>2 DEF E!RecvClose, E!Ending, Ending, Recv, Counted
  <2> QED BY <2>1 DEF EngineStep, E!Next
<1>3. CASE Recv' = "off"
  <2>1. (IInv /\ EndInv /\ ~Receiving => Counted = BitField)'
    BY NothingHalfDone, PTL
  <2>2. Counted = BitField
    BY <1>3, <2>1 DEF Recv
  <2>3. E!RecvStop
    BY <1>3, <2>2 DEF E!RecvStop, E!Ending, Ending, Recv, Counted
  <2> QED BY <2>3 DEF EngineStep, E!Next
<1> QED BY <1>1, <1>2, <1>3 DEF Recv

(***************************************************************************)
(* UpdateSeeders implements that of Engine.                                *)
(***************************************************************************)
LEMMA StartRefines ==
    ASSUME IInv, EndInv, NEW ks \in SUBSET Keepers, StartKeepers(ks), UNCHANGED downloadVars
    PROVE  EngineStep
<1>1. /\ UNCHANGED <<BitField, Downloaded, spc, rpc, cancel, completed>>
      /\ Counted' = Counted /\ Receiving' = Receiving
  BY DEF downloadVars, schedVars, pieceVars, recvVars, Counted, Receiving
<1>2. Counted # Pieces
  BY AllCounted DEF StartKeepers
<1>3. PICK k \in Keepers : keeper'[k] = "wait"
  BY DEF StartKeepers, UpdateSeeders
<1>4. Recv' = "on"
  BY <1>3 DEF Recv, Arriving
<1>5. E!UpdateSeeders
  BY <1>1, <1>2, <1>4 DEF E!UpdateSeeders, Counted, Recv
<1> QED BY <1>5 DEF EngineStep, E!Next

(***************************************************************************)
(* The keepers implement the end of the receivers.                         *)
(***************************************************************************)
LEMMA KeeperRefines ==
    ASSUME IInv, EndInv, IInv', EndInv',
           NEW k \in Keepers, KeeperStep(k), UNCHANGED downloadVars
    PROVE  EngineStep
<1>0. /\ UNCHANGED <<BitField, Downloaded, spc, rpc, cancel, completed>>
      /\ keeper \in [Keepers -> {"none", "wait", "dial", "exited"}]
  BY DEF downloadVars, schedVars, pieceVars, recvVars, IInv, TypeOK, SeedersTypeOK
<1>1. Counted' = Counted /\ Receiving' = Receiving
  BY <1>0 DEF Counted, Receiving
<1>3. CASE Redial(k) \/ DialFail(k) \/ \E c \in Conns : DialOk(k, c)
  <2>1. keeper[k] \in {"wait", "dial"} /\ keeper'[k] \in {"wait", "dial"}
    BY <1>0, <1>3 DEF Redial, DialFail, DialOk
  <2>2. Recv = "on" /\ Recv' = "on"
    BY <2>1 DEF Recv, Arriving
  <2> QED BY <1>0, <1>1, <2>2, Stutter
<1>4. CASE KeepAliveFail(k)
  <2>1. Recv' = Recv
    BY <1>0, <1>4 DEF KeepAliveFail, Recv, Arriving, Receiving
  <2> QED BY <1>0, <1>1, <2>1, Stutter
<1>5. CASE (cancel \/ completed) /\ KeeperExit(k)
  <2>1. keeper[k] = "wait"
    BY <1>5 DEF KeeperExit
  <2>2. Arriving
    BY <2>1 DEF Arriving
  <2> QED BY <1>0, <1>1, <1>5, <2>2, WorkEnds DEF Ending
<1> QED BY <1>3, <1>4, <1>5 DEF KeeperStep

(***************************************************************************)
(* The receivers implement Count, Verify, Reject and their own end.        *)
(***************************************************************************)
LEMMA ReceiverRefines ==
    ASSUME IInv, EndInv, IInv', EndInv',
           NEW c \in Conns, RecvStep(c), UNCHANGED seederVars
    PROVE  EngineStep
<1>0. /\ DownloadTypeOK /\ UNCHANGED keeper
      /\ Counted = BitField \cup {i \in Pieces : Received[i] = Blocks(i)}
  BY CountedFacts DEF IInv, TypeOK, seederVars
<1>1. Counted' = BitField' \cup {i \in Pieces : Received'[i] = Blocks(i)}
  <2>1. (IInv => Counted = BitField \cup {i \in Pieces : Received[i] = Blocks(i)})'
    BY CountedFacts, PTL
  <2> QED BY <2>1
<1>2. /\ rpc[c] # "idle" /\ Receiving
      /\ UNCHANGED <<spc, cancel, completed>>
  BY DEF RecvStep, VerifyStep, RecvDrop, RecvBlock, RecvReject, RecvCreateFail, RecvCreate,
     RecvWriteFail, RecvWrite, RecvSetBit, RecvRelease, Retry, schedVars, Receiving
<1>3. Ending \/ (Arriving /\ Arriving')
  BY <1>0, <1>2, ReceiverHasKeeper DEF Arriving
<1>4. /\ \A d \in Conns : d # c => rpc'[d] = rpc[d]
      /\ rpc'[c] # "lock"
  BY <1>0 DEF DownloadTypeOK, RecvStep, VerifyStep, RecvDrop, RecvBlock, RecvReject,
     RecvCreateFail, RecvCreate, RecvWriteFail, RecvWrite, RecvSetBit, RecvRelease, Retry
<1>5. Arriving' => Arriving
  BY <1>0, <1>4 DEF Arriving
<1>6. CASE UNCHANGED <<BitField, Received>>
  <2>1. Counted' = Counted
    BY <1>0, <1>1, <1>6
  <2> QED BY <1>2, <1>3, <1>5, <1>6, <2>1, WorkEnds
<1>7. CASE RecvBlock(c)
  <2> DEFINE i == PieceOf(c)
             r == rmsg[c].hdr
  <2>1. /\ i \in Pieces /\ i \notin BitField /\ r \in Blocks(i) /\ r \notin Received[i]
        /\ Downloaded[i] + r.Length = PieceSize(i) <=> Received[i] \cup {r} = Blocks(i)
    BY <1>7, AcceptedFacts
  <2>2. /\ rpc[c] = "lock" /\ BitField' = BitField
        /\ Received' = [Received EXCEPT ![i] = @ \cup {r}]
        /\ Downloaded[i] + r.Length = PieceSize(i) => rpc'[c] = "verify"
    BY <1>0, <1>7 DEF RecvBlock, IsFull, DownloadTypeOK
  <2> HIDE DEF i, r
  <2>3. CASE Received[i] \cup {r} # Blocks(i)
    <3>1. Counted' = Counted
      BY <1>0, <1>1, <2>1, <2>2, <2>3 DEF DownloadTypeOK
    <3> QED BY <1>2, <1>3, <1>5, <2>2, <3>1, WorkEnds
  <2>4. CASE Received[i] \cup {r} = Blocks(i)
    <3>1. Counted' = Counted \cup {i} /\ i \notin Counted
      BY <1>0, <1>1, <2>1, <2>2, <2>4 DEF DownloadTypeOK
    <3>2. Recv = "on"
      BY <2>2 DEF Recv, Arriving
    <3>3. Receiving'
      BY <2>1, <2>2, <2>4 DEF Receiving
    <3>4. Recv' = "on" \/ (Recv' = "closing" /\ Ending)
      BY <1>3, <3>3 DEF Recv
    <3>5. PICK j \in Pieces : j = i
      BY <2>1
    <3>6. E!Count(j)
      BY <1>2, <2>1, <2>2, <3>1, <3>2, <3>4, <3>5 DEF E!Count, E!Ending, Ending, Counted, Recv
    <3> QED BY <3>6 DEF EngineStep, E!Next
  <2> QED BY <2>3, <2>4
<1>8. CASE rpc[c] \in {"verify", "write"} /\ Retry(c, PieceOf(c))
  <2> DEFINE i == PieceOf(c)
  <2>1. i \in Pieces /\ i \notin BitField /\ Received[i] = Blocks(i) /\ Blocks(i) # {}
    <3>1. i \in Pieces /\ Received[i] = Blocks(i)
      BY <1>8, VerifyFacts DEF Holding
    <3>2. i \notin BitField
      BY <1>8 DEF IInv, LockInv
    <3> QED BY <3>1, <3>2, CountedFacts
  <2>2. /\ BitField' = BitField /\ Received' = [Received EXCEPT ![i] = {}]
        /\ rpc' = [rpc EXCEPT ![c] = "idle"]
    BY <1>8 DEF Retry
  <2> HIDE DEF i
  <2>3. Counted' = Counted \ {i} /\ i \in Counted
    BY <1>0, <1>1, <2>1, <2>2 DEF DownloadTypeOK
  <2>4. Arriving' <=> Arriving
    BY <1>0, <1>4, <1>5, <1>8 DEF Arriving
  <2>5. ~Receiving' => Counted' = BitField'
    <3>1. (IInv /\ EndInv /\ ~Receiving => Counted = BitField)'
      BY NothingHalfDone, PTL
    <3> QED BY <3>1
  <2>6. PICK j \in Pieces : j = i
    BY <2>1
  <2>7. E!Reject(j)
    BY <1>2, <2>1, <2>2, <2>3, <2>4, <2>5, <2>6 DEF E!Reject, Counted, Recv
  <2> QED BY <2>7 DEF EngineStep, E!Next
<1>9. CASE RecvSetBit(c)
  <2> DEFINE i == PieceOf(c)
  <2>1. i \in Pieces /\ i \notin BitField /\ Received[i] = Blocks(i)
    <3>1. i \in Pieces /\ Received[i] = Blocks(i)
      BY <1>9, VerifyFacts DEF RecvSetBit, Holding
    <3>2. i \notin BitField
      BY <1>9 DEF IInv, LockInv, RecvSetBit
    <3> QED BY <3>1, <3>2
  <2>2. /\ BitField' = BitField \cup {i} /\ Received' = Received
        /\ rpc[c] = "set" /\ rpc' = [rpc EXCEPT ![c] = "release"]
    BY <1>9 DEF RecvSetBit, pieceVars
  <2> HIDE DEF i
  <2>3. Counted' = Counted /\ i \in Counted
    BY <1>0, <1>1, <2>1, <2>2
  <2>4. Recv' = Recv /\ Recv # "off"
    <3>1. Arriving' <=> Arriving
      BY <1>0, <1>4, <1>5, <2>2 DEF Arriving
    <3>2. rpc'[c] # "idle"
      BY <1>0, <2>2 DEF DownloadTypeOK
    <3> QED BY <1>2, <3>1, <3>2 DEF Recv, Receiving
  <2>5. PICK j \in Pieces : j = i
    BY <2>1
  <2>6. E!Verify(j)
    BY <1>2, <2>1, <2>2, <2>3, <2>4, <2>5 DEF E!Verify, Counted, Recv
  <2> QED BY <2>6 DEF EngineStep, E!Next
<1> QED
  BY <1>6, <1>7, <1>8, <1>9
     DEF RecvStep, VerifyStep, RecvDrop, RecvReject, RecvCreateFail, RecvCreate,
         RecvWriteFail, RecvWrite, RecvRelease, pieceVars

(***************************************************************************)
(* The scheduler implements SchedComplete and SchedStop; giving a piece a  *)
(* slot, timing out and sending requests change nothing Engine sees.       *)
(***************************************************************************)
LEMMA SchedulerRefines ==
    ASSUME IInv, IInv', SchedStep, UNCHANGED seederVars
    PROVE  EngineStep
<1>0. UNCHANGED <<keeper, rpc, BitField, cancel>>
  BY DEF SchedStep, SchedStop, SchedLoop, SchedLoad, SchedComplete, SchedEndPass, SchedIdle,
     SchedAlloc, SchedPass, recvVars, seederVars
<1>1. Recv' = Recv
  BY <1>0 DEF Recv, Arriving, Receiving
<1>2. Downloaded' = Downloaded
  <2>1. ASSUME NEW s \in Slots, NEW i \in Pieces, SchedAlloc(s, i)
        PROVE  Downloaded' = Downloaded
    <3>1. Received[i] = {} /\ Downloaded[i] = Cardinality(BytesOf(Received[i]))
      BY <2>1 DEF SchedAlloc, IInv, PieceInv
    <3>2. BytesOf({}) = {}
      BY DEF BytesOf
    <3>3. Downloaded[i] = 0
      BY <3>1, <3>2, FS_EmptySet
    <3> QED BY <2>1, <3>3 DEF SchedAlloc, IInv, TypeOK, DownloadTypeOK
  <2> QED
    BY <2>1 DEF SchedStep, SchedStop, SchedLoop, SchedLoad, SchedComplete, SchedEndPass,
       SchedIdle, SchedPass, pieceVars
<1>3. Counted' = Counted
  BY <1>0, <1>2 DEF Counted
<1>4. CASE SchedComplete
  <2>1. BitField = Pieces /\ completed' = TRUE /\ spc # "exited" /\ spc' = "exited"
    BY <1>0, <1>4 DEF SchedComplete, IInv, CompletedInv
  <2>2. E!SchedComplete
    BY <1>0, <1>1, <1>3, <2>1 DEF E!SchedComplete, Counted, Recv
  <2> QED BY <2>2 DEF EngineStep, E!Next
<1>5. CASE SchedStop
  <2>1. E!SchedStop
    BY <1>0, <1>1, <1>3, <1>5 DEF SchedStop, E!SchedStop, Counted, Recv
  <2> QED BY <2>1 DEF EngineStep, E!Next
<1>6. CASE completed' = completed /\ spc # "exited" /\ spc' # "exited"
  BY <1>0, <1>1, <1>3, <1>6, Stutter
<1> QED
  BY <1>4, <1>5, <1>6 DEF SchedStep, SchedLoop, SchedLoad, SchedEndPass, SchedIdle,
     SchedAlloc, SchedPass

(***************************************************************************)
(* Every step of the download engine is a step of Engine or a stutter.     *)
(***************************************************************************)
LEMMA StepRefines ==
    ASSUME IInv, EndInv, NoOrphanConnection, IInv', EndInv', [Next]_vars
    PROVE  EngineStep
<1>1. ASSUME UNCHANGED <<BitField, Downloaded, keeper, rpc, cancel, completed, spc>>
      PROVE  EngineStep
  <2>1. Counted' = Counted /\ Recv' = Recv
    BY <1>1 DEF Counted, Recv, Arriving, Receiving
  <2> QED BY <1>1, <2>1, Stutter
<1>2. CASE Cancel /\ UNCHANGED seederVars
  <2>1. /\ UNCHANGED <<BitField, Downloaded, keeper, rpc, completed, spc>>
        /\ cancel' = TRUE
    BY <1>2 DEF Cancel, seederVars, schedVars, pieceVars, recvVars
  <2>2. Counted' = Counted /\ Recv' = Recv
    BY <2>1 DEF Counted, Recv, Arriving, Receiving
  <2>3. E!Cancel
    BY <2>1, <2>2 DEF E!Cancel, Counted, Recv
  <2> QED BY <2>3 DEF EngineStep, E!Next
<1>3. ASSUME NEW c \in Conns, NEW m \in Msgs, RecvMessage(c, m), UNCHANGED seederVars
      PROVE  EngineStep
  <2>1. UNCHANGED <<BitField, Downloaded, keeper, completed, cancel, spc>>
    BY <1>3 DEF RecvMessage, seederVars, schedVars, pieceVars
  <2>2. \E k \in Keepers : keeper[k] = "wait"
    BY <1>3 DEF RecvMessage, NoOrphanConnection
  <2>3. Counted' = Counted /\ Recv = "on" /\ Recv' = "on"
    BY <2>1, <2>2 DEF Counted, Recv, Arriving
  <2> QED BY <2>1, <2>3, Stutter
<1>4. ASSUME NEW c \in Conns, RemoteStep(c), UNCHANGED downloadVars
      PROVE  EngineStep
  BY <1>1, <1>4 DEF RemoteStep, ListenerEnd, ProcessChoke, ProcessUnChoke, ProcessHave,
     ProcessBitfield, downloadVars, schedVars, pieceVars, recvVars
<1>5. CASE UNCHANGED vars
  BY <1>1, <1>5 DEF vars, seederVars, schedVars, pieceVars, recvVars
<1> QED
  BY <1>2, <1>3, <1>4, <1>5, KeeperRefines, StartRefines, ReceiverRefines, SchedulerRefines DEF Next

(***************************************************************************)
(* Download implements Engine, for every torrent, number of slots, keepers *)
(* and connections, and whatever the remote peers send.                    *)
(***************************************************************************)
THEOREM Refinement == Spec => ImplementsEngine
<1>1. Init => E!Init
  <2>1. SUFFICES ASSUME Init PROVE E!Init
    OBVIOUS
  <2>2. IInv /\ \A i \in Pieces : Downloaded[i] = 0
    BY <2>1, InitInv DEF Init, DownloadInit
  <2>3. \A i \in Pieces : PieceSize(i) # 0
    BY PieceSizeFacts
  <2>4. ~Arriving /\ ~Receiving
    BY <2>1 DEF Init, SeedersInit, DownloadInit, Arriving, Receiving
  <2> QED BY <2>1, <2>2, <2>3, <2>4 DEF E!Init, Init, DownloadInit
<1>2. IInv /\ EndInv /\ NoOrphanConnection /\ IInv' /\ EndInv' /\ [Next]_vars
          => [E!Next]_(E!engine)
  BY StepRefines DEF EngineStep
<1> QED BY <1>1, <1>2, Invariance, EndInvariance, NoOrphans, PTL
        DEF Spec, ImplementsEngine, E!Spec
=============================================================================
