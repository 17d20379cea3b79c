----------------------------- MODULE Download ------------------------------
(***************************************************************************)
(* The download engine of one torrent (status.Tracker): downloadScheduler, *)
(* one recvPieces go-routine per seeder connection, and the keepers of     *)
(* module Seeders, working on shared state.                                *)
(*                                                                         *)
(* A pendingPiece object is created at most once per piece, because a      *)
(* piece leaves `unverified' for good when its object is stored in a slot. *)
(* The objects are therefore named by their piece and their fields are     *)
(* functions of the piece.  Pending and InFlight are lists in the code;    *)
(* the order of a list is never relied on and a request moves between them *)
(* by being removed from one and appended to the other, so they are sets.  *)
(*                                                                         *)
(* The mutex of a pendingPiece is held by the scheduler for one step only: *)
(* what it does under the mutex touches nothing another go-routine reads   *)
(* without it.  A receiver holds it over the steps that verify a piece.    *)
(***************************************************************************)
EXTENDS Seeders

CONSTANTS
    NumSlots,  \* len(t.download.requests), 4 in the code
    NoPiece,   \* the nil *pendingPiece
    NoMsg,     \* a receiver has no message at hand
    Strays,    \* headers of piece messages that answer no request
    Haves,     \* indices remote peers announce in Have messages
    Bitfields  \* contents of the Bitfield messages remote peers send

ASSUME DownloadAssumption ==
    /\ NumSlots \in Nat \ {0}
    /\ NoPiece \notin Pieces
    /\ Strays \subseteq [Index : Nat, Begin : Nat, Length : Nat \ {0}]
    /\ Strays \cap Requests = {}
    /\ Haves \subseteq Pieces
    /\ Bitfields \subseteq SUBSET Pieces
    /\ NoMsg \notin [hdr : Requests \cup Strays, good : BOOLEAN, slot : 1 .. NumSlots]

VARIABLES
    \* downloadScheduler
    spc,         \* where the scheduler is
    sslot,       \* the slot it looks at
    sfree,       \* freeSlots
    spiece,      \* the pendingPiece it loaded from the slot
    unverified,  \* the pieces not yet given a slot
    \* shared by the go-routines of the torrent
    requests,    \* slot -> piece
    Pending, InFlight, Received,    \* fields of pendingPiece
    marked,      \* the InFlight entries with received = true
    bad,         \* the Received blocks whose data is not the torrent's
    Downloaded,  \* field of pendingPiece
    lock,        \* the receiver that holds the pendingPiece's mutex
    total,       \* Tracker.Downloaded
    BitField,    \* Tracker.BitField
    file,        \* the <index>.bin files
    cancel,      \* t.download.cancel or t.stop is closed
    completed,   \* t.download.completed is closed
    panicked,    \* a panic ended the process
    \* recvPieces
    rpc,         \* where the receiver of each connection is
    rmsg         \* the message it works on and the slot it found

schedVars == <<spc, sslot, sfree, spiece, unverified>>
pieceVars == <<Pending, InFlight, Received, marked, bad, Downloaded>>
recvVars  == <<rpc, rmsg>>
vars == <<seederVars, schedVars, requests, pieceVars, lock, total, BitField,
          file, cancel, completed, panicked, recvVars>>

Slots == 1 .. NumSlots
Msgs  == [hdr : Requests \cup Strays, good : BOOLEAN, slot : Slots]

DownloadTypeOK ==
    /\ spc        \in {"loop", "scan", "lock", "pick", "exited"}
    /\ sslot      \in 1 .. NumSlots + 1
    /\ sfree      \in 0 .. NumSlots
    /\ spiece     \in Pieces \cup {NoPiece}
    /\ unverified \in SUBSET Pieces
    /\ requests   \in [Slots -> Pieces \cup {NoPiece}]
    /\ Pending    \in [Pieces -> SUBSET Requests]
    /\ InFlight   \in [Pieces -> SUBSET Requests]
    /\ Received   \in [Pieces -> SUBSET Requests]
    /\ marked     \in [Pieces -> SUBSET Requests]
    /\ bad        \in [Pieces -> SUBSET Requests]
    /\ Downloaded \in [Pieces -> Nat]
    /\ lock       \in [Pieces -> Conns \cup {NoConn}]
    /\ total      \in Int
    /\ BitField   \in SUBSET Pieces
    /\ file       \in [Pieces -> {"none", "partial", "good"}]
    /\ cancel     \in BOOLEAN
    /\ completed  \in BOOLEAN
    /\ panicked   \in BOOLEAN
    /\ rpc        \in [Conns -> {"idle", "lock", "verify", "write", "set", "release"}]
    /\ rmsg       \in [Conns -> Msgs \cup {NoMsg}]

(***************************************************************************)
(* NewTracker: an earlier session may have left any set B of pieces in     *)
(* bitfield.bin, whose files it wrote; other files may be left unfinished. *)
(* Downloaded is the sum of the sizes of the existing pieces.              *)
(***************************************************************************)
DownloadInit ==
    /\ BitField \in SUBSET Pieces
    /\ file \in {[i \in Pieces |-> IF i \in BitField THEN "good" ELSE f] :
                    f \in {"none", "partial"}}
    /\ total = Cardinality(UNION {PieceBytes(i) : i \in BitField})
    /\ unverified = Pieces \ BitField
    /\ spc = "loop" /\ sslot = 1 /\ sfree = 0 /\ spiece = NoPiece
    /\ requests   = [s \in Slots |-> NoPiece]
    /\ Pending    = [i \in Pieces |-> {}]
    /\ InFlight   = [i \in Pieces |-> {}]
    /\ Received   = [i \in Pieces |-> {}]
    /\ marked     = [i \in Pieces |-> {}]
    /\ bad        = [i \in Pieces |-> {}]
    /\ Downloaded = [i \in Pieces |-> 0]
    /\ lock       = [i \in Pieces |-> NoConn]
    /\ cancel = FALSE /\ completed = FALSE /\ panicked = FALSE
    /\ rpc  = [c \in Conns |-> "idle"]
    /\ rmsg = [c \in Conns |-> NoMsg]

-----------------------------------------------------------------------------
(* downloadScheduler *)

\* The select sees stop or cancel closed.
SchedStop ==
    /\ spc = "loop" /\ cancel
    /\ spc' = "exited"
    /\ UNCHANGED <<sslot, sfree, spiece, unverified, requests, pieceVars, lock,
                   total, BitField, file, cancel, completed, panicked, recvVars>>

\* The default branch: a pass over the slots begins.
SchedLoop ==
    /\ spc = "loop" /\ ~cancel
    /\ spc' = "scan" /\ sslot' = 1 /\ sfree' = 0
    /\ UNCHANGED <<spiece, unverified, requests, pieceVars, lock,
                   total, BitField, file, cancel, completed, panicked, recvVars>>

\* Load a slot: count it as free, or go for the mutex of its piece.
SchedLoad ==
    /\ spc = "scan" /\ sslot \in Slots
    /\ IF requests[sslot] = NoPiece
       THEN /\ sfree' = sfree + 1
            /\ sslot' = sslot + 1
            /\ UNCHANGED <<spc, spiece>>
       ELSE /\ spiece' = requests[sslot]
            /\ spc' = "lock"
            /\ UNCHANGED <<sfree, sslot>>
    /\ UNCHANGED <<unverified, requests, pieceVars, lock,
                   total, BitField, file, cancel, completed, panicked, recvVars>>

\* Seeded fault: an answered request may time out as well.
OverdueIgnoringReceived(p) == InFlight[p]

\* The requests that may have been out for more than 8 s unanswered.
Overdue(p) == InFlight[p] \ marked[p]

(***************************************************************************)
(* The critical section of a pass: the requests T, sent more than 8 s ago  *)
(* and not received, return to Pending; of what is then pending, S goes    *)
(* out.  A request stays pending when no peer can serve the piece or       *)
(* SendRequest fails.  All requests of a piece ask for the same index, so  *)
(* they have the same candidate peers, and which one is chosen leaves no   *)
(* trace in the downloader's state.                                        *)
(***************************************************************************)
SchedPass(T, S) ==
    LET p == spiece IN
    /\ spc = "lock" /\ lock[p] = NoConn
    /\ T \subseteq Overdue(p)
    /\ S \subseteq Pending[p] \cup T
    /\ S # {} => \E c \in InMap : CanRequest(c, p)
    /\ Pending'  = [Pending EXCEPT ![p] = (@ \cup T) \ S]
    /\ InFlight' = [InFlight EXCEPT ![p] = (@ \ T) \cup S]
    /\ spc' = "scan" /\ sslot' = sslot + 1
    /\ UNCHANGED <<sfree, spiece, unverified, requests, Received, marked, bad,
                   Downloaded, lock, total, BitField, file, cancel, completed,
                   panicked, recvVars>>

\* Seeded fault: occupied slots are not waited for.
NothingLeftIgnoringSlots == unverified = {}

\* No piece is left to hand out and all slots were free.
NothingLeft == unverified = {} /\ sfree = NumSlots

\* Every piece has had a slot and all slots were seen free: close(completed).
SchedComplete ==
    /\ spc = "scan" /\ sslot = NumSlots + 1
    /\ NothingLeft
    /\ completed' = TRUE
    /\ spc' = "exited"
    /\ UNCHANGED <<sslot, sfree, spiece, unverified, requests, pieceVars, lock,
                   total, BitField, file, cancel, panicked, recvVars>>

\* The pass ends without completing: wait for busy slots, or pick a piece.
SchedEndPass ==
    /\ spc = "scan" /\ sslot = NumSlots + 1
    /\ ~NothingLeft
    /\ spc' = IF unverified = {} THEN "loop" ELSE "pick"
    /\ UNCHANGED <<sslot, sfree, spiece, unverified, requests, pieceVars, lock,
                   total, BitField, file, cancel, completed, panicked, recvVars>>

\* Seeded fault: a piece that got a slot stays in the map.
WithoutKeeping(i) == unverified

\* delete(unverified, i)
Without(i) == unverified \ {i}

(***************************************************************************)
(* A missing piece i that some peer of the map has gets a free slot s and  *)
(* a fresh pendingPiece.  Receivers may free a lower slot while the        *)
(* scheduler looks for one, so any free slot can be the one it found; only *)
(* the scheduler fills slots, so its compare-and-swap succeeds.            *)
(***************************************************************************)
SchedAlloc(s, i) ==
    /\ spc = "pick"
    /\ requests[s] = NoPiece
    /\ i \in unverified /\ Offered(i)
    /\ requests'   = [requests EXCEPT ![s] = i]
    /\ Pending'    = [Pending EXCEPT ![i] = Blocks(i)]
    /\ InFlight'   = [InFlight EXCEPT ![i] = {}]
    /\ Received'   = [Received EXCEPT ![i] = {}]
    /\ marked'     = [marked EXCEPT ![i] = {}]
    /\ bad'        = [bad EXCEPT ![i] = {}]
    /\ Downloaded' = [Downloaded EXCEPT ![i] = 0]
    /\ unverified' = Without(i)
    /\ spc' = "loop"
    /\ UNCHANGED <<sslot, sfree, spiece, lock, total, BitField, file, cancel,
                   completed, panicked, recvVars>>

\* No free slot, or no peer has a missing piece: sleep and start over.
SchedIdle ==
    /\ spc = "pick"
    /\ \/ \A s \in Slots : requests[s] # NoPiece
       \/ \A i \in unverified : ~Offered(i)
    /\ spc' = "loop"
    /\ UNCHANGED <<sslot, sfree, spiece, unverified, requests, pieceVars, lock,
                   total, BitField, file, cancel, completed, panicked, recvVars>>

-----------------------------------------------------------------------------
(* recvPieces *)

\* The pendingPiece the receiver of c found in the slots.
PieceOf(c) == rmsg[c].hdr.Index

(***************************************************************************)
(* A piece message arrives on c and a slot holds its piece.  A message     *)
(* whose piece is in no slot is dropped and changes nothing.  Any message  *)
(* may arrive from any peer, late, duplicated or never asked for.          *)
(***************************************************************************)
RecvMessage(c, m) ==
    /\ rpc[c] = "idle" /\ conn[c] = "established"
    /\ requests[m.slot] # NoPiece /\ requests[m.slot] = m.hdr.Index
    /\ rmsg' = [rmsg EXCEPT ![c] = m]
    /\ rpc' = [rpc EXCEPT ![c] = "lock"]
    /\ UNCHANGED <<schedVars, requests, pieceVars, lock, total, BitField, file,
                   cancel, completed, panicked>>

\* Seeded fault: no check for duplicates.
UnexpectedIgnoringDuplicates(i, r) == r \notin InFlight[i]

\* The header names no request in flight, or one already answered.
Unexpected(i, r) == r \notin InFlight[i] \/ r \in Received[i]

RecvDrop(c) ==
    /\ rpc[c] = "lock" /\ lock[PieceOf(c)] = NoConn
    /\ Unexpected(PieceOf(c), rmsg[c].hdr)
    /\ rpc' = [rpc EXCEPT ![c] = "idle"]
    /\ rmsg' = [rmsg EXCEPT ![c] = NoMsg]
    /\ UNCHANGED <<schedVars, requests, pieceVars, lock, total, BitField, file,
                   cancel, completed, panicked>>

\* The block that brought the piece to n bytes completed it.
IsFull(i, n) == n = PieceSize(i)

\* Seeded fault: the mutex is released before the piece is verified.
HolderNone(c, i, n) == NoConn

\* Who holds the mutex after the block: the receiver that verifies.
Holder(c, i, n) == IF IsFull(i, n) THEN c ELSE NoConn

\* A block is accepted; the one that completes the piece keeps the mutex.
RecvBlock(c) ==
    LET i == PieceOf(c)
        r == rmsg[c].hdr
        n == Downloaded[i] + r.Length
    IN
    /\ rpc[c] = "lock" /\ lock[i] = NoConn
    /\ ~Unexpected(i, r)
    /\ Downloaded' = [Downloaded EXCEPT ![i] = n]
    /\ panicked' = (n > PieceSize(i))
    /\ total' = total + r.Length
    /\ Received' = [Received EXCEPT ![i] = @ \cup {r}]
    /\ marked' = [marked EXCEPT ![i] = @ \cup {r}]
    /\ bad' = [bad EXCEPT ![i] = IF rmsg[c].good THEN @ ELSE @ \cup {r}]
    /\ lock' = [lock EXCEPT ![i] = Holder(c, i, n)]
    /\ rpc' = [rpc EXCEPT ![c] = IF IsFull(i, n) THEN "verify" ELSE "idle"]
    /\ rmsg' = [rmsg EXCEPT ![c] = IF IsFull(i, n) THEN @ ELSE NoMsg]
    /\ UNCHANGED <<schedVars, requests, Pending, InFlight, BitField, file,
                   cancel, completed>>

\* Seeded fault: the mutex is not unlocked.
UnlockedNot(i) == lock

Unlocked(i) == [lock EXCEPT ![i] = NoConn]

\* Seeded fault: a piece thrown away stays counted.
UncountedNot(i) == total

\* t.Downloaded.Add(-piece.Size)
Uncounted(i) == total - PieceSize(i)

\* t.Downloaded.Add(-Size), pendingPiece.Retry and Unlock.
Retry(c, i) ==
    /\ total' = Uncounted(i)
    /\ panicked' = (Pending[i] # {})
    /\ Pending' = [Pending EXCEPT ![i] = @ \cup InFlight[i]]
    /\ InFlight' = [InFlight EXCEPT ![i] = {}]
    /\ Received' = [Received EXCEPT ![i] = {}]
    /\ marked' = [marked EXCEPT ![i] = {}]
    /\ bad' = [bad EXCEPT ![i] = {}]
    /\ Downloaded' = [Downloaded EXCEPT ![i] = 0]
    /\ lock' = Unlocked(i)
    /\ rpc' = [rpc EXCEPT ![c] = "idle"]
    /\ rmsg' = [rmsg EXCEPT ![c] = NoMsg]
    /\ UNCHANGED <<schedVars, requests, BitField, cancel, completed>>

\* The sha1 sum of the piece is not the one of the metainfo file.
RecvReject(c) ==
    /\ rpc[c] = "verify" /\ bad[PieceOf(c)] # {}
    /\ Retry(c, PieceOf(c))
    /\ UNCHANGED file

\* Flush fails before it touches the piece's file.
RecvCreateFail(c) ==
    /\ rpc[c] = "verify" /\ bad[PieceOf(c)] = {}
    /\ Retry(c, PieceOf(c))
    /\ UNCHANGED file

\* Flush creates, or truncates, the piece's file.
RecvCreate(c) ==
    /\ rpc[c] = "verify" /\ bad[PieceOf(c)] = {}
    /\ file' = [file EXCEPT ![PieceOf(c)] = "partial"]
    /\ rpc' = [rpc EXCEPT ![c] = "write"]
    /\ UNCHANGED <<schedVars, requests, pieceVars, lock, total, BitField,
                   cancel, completed, panicked, rmsg>>

\* Flush fails while it writes: an unfinished file is left.
RecvWriteFail(c) ==
    /\ rpc[c] = "write"
    /\ Retry(c, PieceOf(c))
    /\ UNCHANGED file

RecvWrite(c) ==
    /\ rpc[c] = "write"
    /\ file' = [file EXCEPT ![PieceOf(c)] = "good"]
    /\ rpc' = [rpc EXCEPT ![c] = "set"]
    /\ UNCHANGED <<schedVars, requests, pieceVars, lock, total, BitField,
                   cancel, completed, panicked, rmsg>>

\* BitField.Set, then a Have to every connected peer.
RecvSetBit(c) ==
    /\ rpc[c] = "set"
    /\ BitField' = BitField \cup {PieceOf(c)}
    /\ rpc' = [rpc EXCEPT ![c] = "release"]
    /\ UNCHANGED <<schedVars, requests, pieceVars, lock, total, file,
                   cancel, completed, panicked, rmsg>>

\* Seeded fault: the slot is not freed.
SwappedOutNot(s, i) == requests

\* CompareAndSwap(piece, nil) on slot s.
SwappedOut(s, i) == IF requests[s] = i THEN [requests EXCEPT ![s] = NoPiece] ELSE requests

\* The slot is freed if it still holds the piece; Unlock.
RecvRelease(c) ==
    LET s == rmsg[c].slot IN
    /\ rpc[c] = "release"
    /\ requests' = SwappedOut(s, PieceOf(c))
    /\ lock' = Unlocked(PieceOf(c))
    /\ rpc' = [rpc EXCEPT ![c] = "idle"]
    /\ rmsg' = [rmsg EXCEPT ![c] = NoMsg]
    /\ UNCHANGED <<schedVars, pieceVars, total, BitField, file, cancel,
                   completed, panicked>>

-----------------------------------------------------------------------------
\* CancelDownload or Tracker.Close closes its channel.
Cancel ==
    /\ ~cancel
    /\ cancel' = TRUE
    /\ UNCHANGED <<schedVars, requests, pieceVars, lock, total, BitField, file,
                   completed, panicked, recvVars>>

SchedStep ==
    \/ SchedStop \/ SchedLoop \/ SchedLoad \/ SchedComplete \/ SchedEndPass
    \/ SchedIdle
    \/ \E s \in Slots, i \in Pieces : SchedAlloc(s, i)
    \/ \E T, S \in SUBSET Requests : SchedPass(T, S)

VerifyStep(c) ==
    \/ RecvReject(c) \/ RecvCreateFail(c) \/ RecvCreate(c) \/ RecvWriteFail(c)
    \/ RecvWrite(c) \/ RecvSetBit(c) \/ RecvRelease(c)

RecvStep(c) == RecvDrop(c) \/ RecvBlock(c) \/ VerifyStep(c)

\* Seeded fault: a keeper gives up when its peer is gone.
KeeperStepGivesUp(k) ==
    \/ ConnectionStatus(cur[k]) = "killed" /\ KeeperExit(k)
    \/ KeepAliveFail(k)
    \/ (cancel \/ completed) /\ KeeperExit(k)

KeeperStep(k) ==
    \/ Redial(k) \/ DialFail(k) \/ KeepAliveFail(k)
    \/ (cancel \/ completed) /\ KeeperExit(k)
    \/ \E c \in Conns : DialOk(k, c)

\* UpdateSeeders looks at the byte count once, before its loop; a keeper that
\* the loop reaches later is one that is slow to begin.
StartKeepers(ks) == total # BytesToDownload /\ ks # {} /\ UpdateSeeders(ks)

RemoteStep(c) ==
    \/ ListenerEnd(c) \/ ProcessChoke(c) \/ ProcessUnChoke(c)
    \/ \E i \in Haves : ProcessHave(c, i)
    \/ \E B \in Bitfields : ProcessBitfield(c, B)

downloadVars == <<schedVars, requests, pieceVars, lock, total, BitField, file,
                  cancel, completed, panicked, recvVars>>

Init == SeedersInit /\ DownloadInit

Next ==
    /\ ~panicked
    /\ \/ (SchedStep \/ Cancel) /\ UNCHANGED seederVars
       \/ \E c \in Conns : RecvStep(c) /\ UNCHANGED seederVars
       \/ \E c \in Conns, m \in Msgs : RecvMessage(c, m) /\ UNCHANGED seederVars
       \/ \E k \in Keepers : KeeperStep(k) /\ UNCHANGED downloadVars
       \/ \E ks \in SUBSET Keepers : StartKeepers(ks) /\ UNCHANGED downloadVars
       \/ \E c \in Conns : RemoteStep(c) /\ UNCHANGED downloadVars

Spec == Init /\ [][Next]_vars

-----------------------------------------------------------------------------
(* Safety *)

\* Every variable of the download engine and of its peers keeps its type.
TypeOK == SeedersTypeOK /\ DownloadTypeOK

(***************************************************************************)
(* The process never meets its two panics: recvPieces never counts more    *)
(* bytes for a piece than the piece has, and Retry never finds a pending   *)
(* request when a piece is thrown away, whatever timed out, was answered   *)
(* twice or arrived late before.                                           *)
(***************************************************************************)
NoPanic == ~panicked

(***************************************************************************)
(* A pendingPiece in a slot has each of its blocks in exactly one of       *)
(* Pending and InFlight: no timeout, retry or answer loses a block or asks *)
(* for it twice, and the answered ones are exactly the marked ones.        *)
(***************************************************************************)
BlockConservation ==
    \A s \in Slots : LET i == requests[s] IN
        i # NoPiece => /\ Pending[i] \cup InFlight[i] = Blocks(i)
                       /\ Pending[i] \cap InFlight[i] = {}
                       /\ Received[i] \subseteq InFlight[i]
                       /\ marked[i] = Received[i]

\* The bytes of piece i that count as downloaded.
HeldBytes(i) == IF i \in BitField THEN PieceBytes(i) ELSE BytesOf(Received[i])

(***************************************************************************)
(* Tracker.Downloaded, which decides what is announced to the torrent      *)
(* tracker and when the client stops, is exactly the number of distinct    *)
(* bytes received and not thrown away, also while a piece is being         *)
(* verified, and after a resume.                                           *)
(***************************************************************************)
ExactCount == total = Cardinality(UNION {HeldBytes(i) : i \in Pieces})

(***************************************************************************)
(* A piece is in one place: still unverified, in one slot, or verified and *)
(* out of the slots; a piece in a slot is in the bitfield only while its   *)
(* receiver is about to free the slot.                                     *)
(***************************************************************************)
PieceConservation ==
    /\ \A i \in Pieces : i \in unverified \/ i \in BitField \/ \E s \in Slots : requests[s] = i
    /\ \A s \in Slots : requests[s] # NoPiece =>
          /\ requests[s] \notin unverified
          /\ \A t \in Slots : requests[t] = requests[s] => t = s
          /\ requests[s] \in BitField =>
                \E c \in Conns : lock[requests[s]] = c /\ rpc[c] = "release"

\* A bit of the bitfield is set only for a piece whose file is complete.
VerifiedOnDisk == \A i \in BitField : file[i] = "good"

(***************************************************************************)
(* recvPieces warns "two go-routines verified same piece" when its         *)
(* compare-and-swap fails.  It never does: whoever is about to free a slot *)
(* holds the mutex of the piece that is in it.                             *)
(***************************************************************************)
VerifiedOnce ==
    \A c \in Conns : rpc[c] = "release" =>
        requests[rmsg[c].slot] = PieceOf(c) /\ lock[PieceOf(c)] = c

(***************************************************************************)
(* When the completed channel is closed every piece is verified, all of    *)
(* them are on disk and the byte count is that of the torrent.             *)
(***************************************************************************)
CompletedMeansAll ==
    completed => BitField = Pieces /\ total = BytesToDownload
                 /\ \A i \in Pieces : file[i] = "good"

(***************************************************************************)
(* A connection that is open belongs to a keeper that still runs, so       *)
(* CancelDownload, which waits for the keepers, leaves none open; this     *)
(* also with two keepers for one address overwriting each other's entry.   *)
(***************************************************************************)
NoOrphanConnection ==
    \A c \in Conns : conn[c] = "established" =>
        \E k \in Keepers : cur[k] = c /\ keeper[k] = "wait"

(***************************************************************************)
(* The byte count goes back only when a whole unverified piece is thrown   *)
(* away, after a wrong hash or a failed Flush, and by exactly its size.    *)
(***************************************************************************)
CountDropsByPiece ==
    total' < total => \E i \in Pieces \ BitField : total - total' = PieceSize(i)

DropsByPiece == [][CountDropsByPiece]_vars

-----------------------------------------------------------------------------
(* The engine as the client sees it *)

\* A block can still arrive: a keeper is there, or a receiver has one at hand.
Arriving ==
    \/ \E k \in Keepers : keeper[k] \in {"wait", "dial"}
    \/ \E c \in Conns : rpc[c] = "lock"

\* Some receiver is at work on a message.
Receiving == \E c \in Conns : rpc[c] # "idle"

E == INSTANCE Engine WITH
        counted  <- BitField \cup {i \in Pieces : Downloaded[i] = PieceSize(i)},
        verified <- BitField,
        sched    <- IF spc = "exited" THEN "exited" ELSE "run",
        recv     <- IF Arriving THEN "on" ELSE IF Receiving THEN "closing" ELSE "off"

(***************************************************************************)
(* Scheduler, receivers and keepers together implement Engine: a piece is  *)
(* verified only after it was counted whole, completed is closed only when *)
(* all are verified, and the last go-routine leaves only when a channel is *)
(* closed and no piece is half done.                                       *)
(***************************************************************************)
ImplementsEngine == E!Spec

-----------------------------------------------------------------------------
(* Liveness.  Every go-routine keeps being scheduled.  sync.Mutex hands    *)
(* the lock to a starved waiter, hence strong fairness of the steps that   *)
(* wait for one.  A keeper's tick is minutes away whenever it is back in   *)
(* its select, so it does not miss a closed channel forever.  Nothing is   *)
(* assumed of the remote peers.                                            *)

Fairness ==
    /\ WF_vars((SchedStop \/ SchedLoop \/ SchedLoad \/ SchedComplete \/ SchedEndPass
                \/ SchedIdle \/ \E s \in Slots, i \in Pieces : SchedAlloc(s, i))
               /\ UNCHANGED seederVars)
    /\ SF_vars((\E T, S \in SUBSET Requests : SchedPass(T, S)) /\ UNCHANGED seederVars)
    /\ \A c \in Conns :
          /\ SF_vars((RecvDrop(c) \/ RecvBlock(c)) /\ UNCHANGED seederVars)
          /\ WF_vars(VerifyStep(c) /\ UNCHANGED seederVars)
    /\ \A k \in Keepers :
          /\ WF_vars(KeeperStep(k) /\ UNCHANGED downloadVars)
          /\ SF_vars((cancel \/ completed) /\ KeeperExit(k) /\ UNCHANGED downloadVars)

FairSpec == Spec /\ Fairness

\* wg.Wait in CancelDownload and Tracker.Close returns.
Drained ==
    /\ spc = "exited"
    /\ \A k \in Keepers : keeper[k] \in {"none", "exited"}
    /\ \A c \in Conns : conn[c] # "established" /\ rpc[c] = "idle"

\* Closing cancel ends the scheduler, every keeper and every receiver.
CancelDrains == cancel ~> Drained

(***************************************************************************)
(* Once every piece is verified the completed channel is closed, unless    *)
(* the download is cancelled first: no receiver keeps a slot occupied.     *)
(***************************************************************************)
AllVerifiedCompletes == (BitField = Pieces) ~> (completed \/ cancel)

=============================================================================
