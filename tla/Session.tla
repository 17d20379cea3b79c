------------------------------ MODULE Session ------------------------------
(***************************************************************************)
(* One connection between two tinytorrent clients for the same torrent,    *)
(* message by message: U, which accepted it and uploads, and D, which      *)
(* dialed it and downloads.  U still receives pieces from other peers.     *)
(* The two directions are FIFO queues.  A piece is one block here: which   *)
(* blocks a piece has, and what a broken connection does, is the subject   *)
(* of Download and Upload.                                                 *)
(***************************************************************************)
EXTENDS Naturals, FiniteSets, SequencesExt

CONSTANTS
    Pieces,       \* piece indices
    Later,        \* bound: the pieces U may lack when D connects
    NumSlots,     \* len(t.upload.requests) of U, 75 in the code
    MaxPending,   \* len(t.download.requests) of D, 4 in the code
    MaxEarly,     \* bound: requests D gives up although the answer is on its way
    Nil           \* an empty upload slot, an idle uploader

Slots == 1 .. NumSlots

ASSUME SessionAssumption ==
    /\ NumSlots \in Nat \ {0} /\ MaxPending \in Nat \ {0} /\ MaxEarly \in Nat
    /\ IsFiniteSet(Pieces) /\ Nil \notin Pieces /\ Later \subseteq Pieces

Indexed(type, i) == [type |-> type, index |-> i]
Bits(b)          == [type |-> "bitfield", bits |-> b]
Plain(type)      == [type |-> type]
Message == [type : {"have", "request", "cancel", "piece"}, index : Pieces]
              \cup [type : {"bitfield"}, bits : SUBSET Pieces]
              \cup [type : {"unchoke", "interest", "notinterest"}]

VARIABLES
    BitField,     \* U's Tracker.BitField
    announce,     \* how far U's recvPieces is with each piece
    addpc, clone, \* U's AddLeecher, and the bytes it cloned
    unchoked,     \* U's Status.This is UnChoked
    unchoker,     \* U's optimisticUnchoke: the unchoke is written, not yet stored
    interest,     \* U's Interest.Remote is Interested
    theirs,       \* U's record of D's pieces, p.Bitfield
    requests,     \* U's t.upload.requests
    up,           \* the request U's processUploadRequests has loaded
    keeper,       \* D's keepAliveSeeders
    known,        \* D's record of U's pieces, p.Bitfield
    mayAsk,       \* D's Status.Remote is UnChoked
    piece,        \* D's state of each piece
    toD, toU,     \* the two directions of the connection
    link,         \* the socket is open
    early,        \* requests given up early so far
    raced         \* observer: announced between U's clone and its SendBitfield

uVars == <<BitField, announce, addpc, clone, unchoked, unchoker, interest, theirs,
           requests, up>>
dVars == <<keeper, known, mayAsk, piece>>
vars  == <<uVars, dVars, toD, toU, link, early, raced>>

Verified == {i \in Pieces : piece[i] = "verified"}

\* Every variable of the session keeps its type.
TypeOK ==
    /\ BitField \in SUBSET Pieces
    /\ announce \in [Pieces -> {"missing", "set", "done"}]
    /\ addpc \in {"accepted", "stored", "cloned", "running", "ended"}
    /\ clone \in SUBSET Pieces
    /\ unchoked \in BOOLEAN /\ interest \in BOOLEAN /\ mayAsk \in BOOLEAN
    /\ unchoker \in {"idle", "written"}
    /\ theirs \in SUBSET Pieces
    /\ requests \in [Slots -> Pieces \cup {Nil}]
    /\ up = Nil \/ up \in [slot : Slots, index : Pieces, held : BOOLEAN]
    /\ keeper \in {"dialed", "stored", "introduced", "running", "left"}
    /\ known \in SUBSET Pieces
    /\ piece \in [Pieces -> {"missing", "pending", "inflight", "verified"}]
    /\ toD \in Seq(Message) /\ toU \in Seq(Message)
    /\ link \in {"up", "closed"}
    /\ early \in 0 .. MaxEarly
    /\ raced \in SUBSET Pieces

\* Both ends have exchanged handshakes.  U has some pieces; D misses some.
Init ==
    /\ BitField \in SUBSET Pieces /\ Pieces \ Later \subseteq BitField
    /\ announce = [i \in Pieces |-> IF i \in BitField THEN "done" ELSE "missing"]
    /\ addpc = "accepted" /\ clone = {}
    /\ unchoked = FALSE /\ unchoker = "idle" /\ interest = FALSE /\ theirs = {}
    /\ requests = [s \in Slots |-> Nil] /\ up = Nil
    /\ keeper = "dialed" /\ known = {} /\ mayAsk = FALSE
    /\ piece \in [Pieces -> {"missing", "verified"}]
    /\ Verified # Pieces
    /\ toD = <<>> /\ toU = <<>> /\ link = "up" /\ early = 0 /\ raced = {}

\* A write to a socket the other end has closed is lost.
Write(q, m) == IF link = "up" THEN Append(q, m) ELSE q

-----------------------------------------------------------------------------
(* U: recvPieces of its other connections, AddLeecher, optimisticUnchoke *)

\* Seeded fault: the leecher is listed only once it was sent the bitfield.
ListedLate == addpc = "running"

\* The connection is in U's leechers map.
Listed == addpc \in {"stored", "cloned", "running"}

\* A piece is verified and flushed: t.BitField.Set.
Acquire(i) ==
    /\ announce[i] = "missing"
    /\ BitField' = BitField \cup {i}
    /\ announce' = [announce EXCEPT ![i] = "set"]
    /\ UNCHANGED <<addpc, clone, unchoked, unchoker, interest, theirs, requests,
                   up, dVars, toD, toU, link, early, raced>>

\* Seeded fault: a piece is announced before it is verified.
AnnounceUnverified(i) ==
    /\ announce[i] \in {"missing", "set"}
    /\ announce' = [announce EXCEPT ![i] = "done"]
    /\ toD' = IF Listed THEN Write(toD, Indexed("have", i)) ELSE toD
    /\ raced' = IF Listed /\ addpc = "cloned" /\ i \notin clone THEN raced \cup {i} ELSE raced
    /\ UNCHANGED <<BitField, addpc, clone, unchoked, unchoker, interest, theirs,
                   requests, up, dVars, toU, link, early>>

\* Then every connected leecher of the map is sent a have.
Announce(i) ==
    /\ announce[i] = "set"
    /\ announce' = [announce EXCEPT ![i] = "done"]
    /\ toD' = IF Listed THEN Write(toD, Indexed("have", i)) ELSE toD
    /\ raced' = IF Listed /\ addpc = "cloned" /\ i \notin clone THEN raced \cup {i} ELSE raced
    /\ UNCHANGED <<BitField, addpc, clone, unchoked, unchoker, interest, theirs,
                   requests, up, dVars, toU, link, early>>

\* leechers.Store
StoreLeecher ==
    /\ addpc = "accepted" /\ addpc' = "stored"
    /\ UNCHANGED <<BitField, announce, clone, unchoked, unchoker, interest, theirs,
                   requests, up, dVars, toD, toU, link, early, raced>>

\* t.BitField.Clone
CloneBits ==
    /\ addpc = "stored" /\ addpc' = "cloned"
    /\ clone' = BitField
    /\ UNCHANGED <<BitField, announce, unchoked, unchoker, interest, theirs,
                   requests, up, dVars, toD, toU, link, early, raced>>

\* The clone is sent and handleRequests starts.
SendBitfield ==
    /\ addpc = "cloned" /\ addpc' = "running"
    /\ toD' = Write(toD, Bits(clone))
    /\ UNCHANGED <<BitField, announce, clone, unchoked, unchoker, interest, theirs,
                   requests, up, dVars, toU, link, early, raced>>

\* SendUnchoke of a choked and interested leecher writes the message ...
WriteUnchoke ==
    /\ unchoker = "idle" /\ Listed /\ ~unchoked /\ interest
    /\ unchoker' = "written"
    /\ toD' = Write(toD, Plain("unchoke"))
    /\ UNCHANGED <<BitField, announce, addpc, clone, unchoked, interest, theirs,
                   requests, up, dVars, toU, link, early, raced>>

\* Seeded fault: the status is not stored.
StoreUnchokeNot ==
    /\ unchoker = "written" /\ unchoker' = "idle"
    /\ unchoked' = FALSE
    /\ UNCHANGED <<BitField, announce, addpc, clone, interest, theirs, requests, up,
                   dVars, toD, toU, link, early, raced>>

\* ... and then stores the status.
StoreUnchoke ==
    /\ unchoker = "written" /\ unchoker' = "idle"
    /\ unchoked' = TRUE
    /\ UNCHANGED <<BitField, announce, addpc, clone, interest, theirs, requests, up,
                   dVars, toD, toU, link, early, raced>>

-----------------------------------------------------------------------------
(* U: the listener, with handleRequests behind its channels *)

\* A have or bitfield message m received by an end that has recorded r.
Recorded(r, m) == CASE m.type = "have"     -> r \cup {m.index}
                    [] m.type = "bitfield" -> m.bits
                    [] OTHER               -> r

\* A request is dropped when D is choked or not interested, when U has not got
\* the piece, and when no slot is free.
Stored(i) ==
    IF ~unchoked \/ ~interest \/ i \notin BitField \/ \A s \in Slots : requests[s] # Nil
    THEN requests
    ELSE LET s == CHOOSE s \in Slots : /\ requests[s] = Nil
                                       /\ \A t \in Slots : t < s => requests[t] # Nil
         IN [requests EXCEPT ![s] = i]

\* A cancel empties the slots that hold the block.
Cancelled(i) ==
    IF ~unchoked \/ ~interest THEN requests
    ELSE [s \in Slots |-> IF requests[s] = i THEN Nil ELSE requests[s]]

\* Both channels are unbuffered: before handleRequests runs a request waits.
Delivered(m) == /\ m.type = "request" /\ unchoked /\ interest => addpc = "running"
                /\ m.type = "cancel" /\ unchoked /\ interest => addpc = "running"

ListenU ==
    /\ toU # <<>> /\ addpc # "ended"
    /\ LET m == Head(toU) IN
       /\ Delivered(m)
       /\ interest' = CASE m.type = "interest" -> TRUE
                        [] m.type = "notinterest" -> FALSE
                        [] OTHER -> interest
       /\ theirs' = Recorded(theirs, m)
       /\ requests' = CASE m.type = "request" -> Stored(m.index)
                        [] m.type = "cancel" -> Cancelled(m.index)
                        [] OTHER -> requests
       \* what was loaded from an emptied slot is no longer what the slot holds
       /\ up' = IF up # Nil /\ requests'[up.slot] = Nil THEN [up EXCEPT !.held = FALSE]
                                                       ELSE up
    /\ toU' = Tail(toU)
    /\ UNCHANGED <<BitField, announce, addpc, clone, unchoked, unchoker, dVars, toD,
                   link, early, raced>>

\* D has closed the socket: what is still unread may be lost.
EndU ==
    /\ link = "closed" /\ addpc # "ended"
    /\ addpc' = "ended" /\ toU' = <<>>
    /\ UNCHANGED <<BitField, announce, clone, unchoked, unchoker, interest, theirs,
                   requests, up, dVars, toD, link, early, raced>>

-----------------------------------------------------------------------------
(* U: processUploadRequests *)

LoadRequest(s) ==
    /\ up = Nil /\ requests[s] # Nil /\ Listed
    /\ up' = [slot |-> s, index |-> requests[s], held |-> TRUE]
    /\ UNCHANGED <<BitField, announce, addpc, clone, unchoked, unchoker, interest,
                   theirs, requests, dVars, toD, toU, link, early, raced>>

\* SendPiece, then the slot is emptied unless it holds another request by now.
SendPiece ==
    /\ up # Nil
    /\ toD' = IF Listed THEN Write(toD, Indexed("piece", up.index)) ELSE toD
    /\ requests' = IF up.held THEN [requests EXCEPT ![up.slot] = Nil] ELSE requests
    /\ up' = Nil
    /\ UNCHANGED <<BitField, announce, addpc, clone, unchoked, unchoker, interest,
                   theirs, dVars, toU, link, early, raced>>

-----------------------------------------------------------------------------
(* D: keepAliveSeeders and the listener, with recvPieces behind its channel *)

StoreSeeder ==
    /\ keeper = "dialed" /\ keeper' = "stored"
    /\ UNCHANGED <<uVars, known, mayAsk, piece, toD, toU, link, early, raced>>

Introduce ==
    /\ keeper = "stored" /\ keeper' = "introduced"
    /\ toU' = Write(toU, Bits(Verified))
    /\ UNCHANGED <<uVars, known, mayAsk, piece, toD, link, early, raced>>

SendInterested ==
    /\ keeper = "introduced" /\ keeper' = "running"
    /\ toU' = Write(toU, Plain("interest"))
    /\ UNCHANGED <<uVars, known, mayAsk, piece, toD, link, early, raced>>

\* A piece that is waited for is verified and announced; any other is dropped.
ListenD ==
    /\ toD # <<>>
    /\ LET m == Head(toD)
           new == m.type = "piece" /\ piece[m.index] = "inflight"
       IN /\ known' = Recorded(known, m)
          /\ mayAsk' = (mayAsk \/ m.type = "unchoke")
          /\ piece' = IF new THEN [piece EXCEPT ![m.index] = "verified"] ELSE piece
          /\ toU' = IF new THEN Write(toU, Indexed("have", m.index)) ELSE toU
    /\ toD' = Tail(toD)
    /\ UNCHANGED <<uVars, keeper, link, early, raced>>

\* The torrent is complete: NotInterested, and the socket is closed.
Leave ==
    /\ keeper = "running" /\ Verified = Pieces
    /\ keeper' = "left" /\ link' = "closed"
    /\ toU' = Write(toU, Plain("notinterest")) /\ toD' = <<>>
    /\ UNCHANGED <<uVars, known, mayAsk, piece, early, raced>>

-----------------------------------------------------------------------------
(* D: downloadScheduler *)

\* A missing piece that the peer has takes a free slot.
Schedule(i) ==
    /\ piece[i] = "missing"
    /\ Cardinality({j \in Pieces : piece[j] \in {"pending", "inflight"}}) < MaxPending
    /\ keeper # "dialed" /\ i \in known
    /\ piece' = [piece EXCEPT ![i] = "pending"]
    /\ UNCHANGED <<uVars, keeper, known, mayAsk, toD, toU, link, early, raced>>

\* Seeded fault: D asks although it is choked.
CanRequestChoked(i) == keeper # "dialed" /\ i \in known

\* The peer is in the seeders map, unchokes D and has the piece.
CanRequest(i) == keeper # "dialed" /\ mayAsk /\ i \in known

Ask(i) ==
    /\ piece[i] = "pending" /\ CanRequest(i)
    /\ piece' = [piece EXCEPT ![i] = "inflight"]
    /\ toU' = Write(toU, Indexed("request", i))
    /\ UNCHANGED <<uVars, keeper, known, mayAsk, toD, link, early, raced>>

\* Seeded fault: the request is made again without a cancel.
GiveUpSilently(i) ==
    /\ piece[i] = "inflight"
    /\ piece' = [piece EXCEPT ![i] = "pending"]
    /\ UNCHANGED toU

\* After 8 s without the block the request is cancelled and pending again.
GiveUp(i) ==
    /\ piece[i] = "inflight"
    /\ piece' = [piece EXCEPT ![i] = "pending"]
    /\ toU' = IF mayAsk THEN Write(toU, Indexed("cancel", i)) ELSE toU

\* The block is on its way: asked for, held, loaded or sent.
Coming(i) == \/ Indexed("request", i) \in ToSet(toU)
             \/ \E s \in Slots : requests[s] = i
             \/ up # Nil /\ up.index = i
             \/ Indexed("piece", i) \in ToSet(toD)

TimeoutLost(i) ==
    /\ ~Coming(i)
    /\ GiveUp(i)
    /\ UNCHANGED <<uVars, keeper, known, mayAsk, toD, link, early, raced>>

TimeoutEarly(i) ==
    /\ Coming(i) /\ early < MaxEarly
    /\ GiveUp(i)
    /\ early' = early + 1
    /\ UNCHANGED <<uVars, keeper, known, mayAsk, toD, link, raced>>

-----------------------------------------------------------------------------
Uploading   == \/ StoreLeecher \/ CloneBits \/ SendBitfield
               \/ WriteUnchoke \/ StoreUnchoke \/ ListenU \/ EndU \/ SendPiece
Downloading == StoreSeeder \/ Introduce \/ SendInterested \/ ListenD \/ Leave
Scheduling(i) == Schedule(i) \/ Ask(i) \/ TimeoutLost(i)

Next == \/ Uploading \/ Downloading
        \/ \E i \in Pieces : Acquire(i) \/ Announce(i) \/ Scheduling(i) \/ TimeoutEarly(i)
        \/ \E s \in Slots : LoadRequest(s)

Spec == Init /\ [][Next]_vars

(***************************************************************************)
(* Every go-routine runs on: the listeners, the ticks of the unchoker, the *)
(* busy loops of the scheduler and of the uploader.  Whether U acquires    *)
(* more pieces, and whether D gives up early, is left open.                *)
(***************************************************************************)
Fairness ==
    /\ WF_vars(StoreLeecher) /\ WF_vars(CloneBits) /\ WF_vars(SendBitfield)
    /\ WF_vars(WriteUnchoke) /\ WF_vars(StoreUnchoke)
    /\ WF_vars(ListenU) /\ WF_vars(EndU) /\ WF_vars(SendPiece)
    /\ WF_vars(\E s \in Slots : LoadRequest(s))
    /\ WF_vars(StoreSeeder) /\ WF_vars(Introduce) /\ WF_vars(SendInterested)
    /\ WF_vars(ListenD) /\ WF_vars(Leave)
    /\ \A i \in Pieces : /\ WF_vars(Announce(i))
                         /\ WF_vars(Schedule(i)) /\ WF_vars(Ask(i))
                         /\ WF_vars(TimeoutLost(i))

FairSpec == Spec /\ Fairness

-----------------------------------------------------------------------------
(***************************************************************************)
(* What each end has on record of the other one (Have and Bitfield         *)
(* messages, a Bitfield replacing what is there) the other one really has. *)
(***************************************************************************)
RecordsTrue == known \subseteq BitField /\ theirs \subseteq Verified

\* Reading m leaves i on the record, or puts it there.
Keeps(m, i) == m.type = "bitfield" => i \in m.bits
Tells(m, i) == \/ m.type = "have" /\ m.index = i
               \/ m.type = "bitfield" /\ i \in m.bits

\* i is on D's record when D has read all that is under way.
OnRecord(i) ==
    \/ i \in known /\ \A k \in DOMAIN toD : Keeps(toD[k], i)
    \/ \E k \in DOMAIN toD : /\ Tells(toD[k], i)
                             /\ \A l \in DOMAIN toD : l > k => Keeps(toD[l], i)

(***************************************************************************)
(* Once the bitfield is sent, every piece U has announced or cloned is on  *)
(* D's record when D has read all that is under way.  The one exception is *)
(* a have written between the clone and SendBitfield: the bitfield, which  *)
(* is older, arrives later and Overwrite takes the piece off the record.   *)
(***************************************************************************)
KnownUnlessRaced ==
    addpc = "running" /\ link = "up" =>
        \A i \in BitField : announce[i] = "done" => OnRecord(i) \/ i \in raced

(***************************************************************************)
(* Of D's requests U drops none for a missing piece or a missing interest, *)
(* and one for being choked only while SendUnchoke has written the unchoke *)
(* and not yet stored it.                                                  *)
(***************************************************************************)
DropsOnlyWhileUnchoking ==
    toU # <<>> /\ link = "up" /\ Head(toU).type = "request" =>
        /\ Head(toU).index \in BitField /\ interest
        /\ unchoked \/ unchoker = "written"

(***************************************************************************)
(* However often D gives up and asks again, U holds a block in one slot:   *)
(* the cancel arrives before the request that repeats it.                  *)
(***************************************************************************)
OneSlotPerBlock ==
    \A s, t \in Slots : requests[s] = requests[t] /\ requests[s] # Nil => s = t

\* D has read U's bitfield, and i is on its record.
Knows(i) == /\ addpc = "running" /\ i \in known
            /\ \A m \in ToSet(toD) : m.type # "bitfield"

(***************************************************************************)
(* A piece on D's record is fetched in the end: requests dropped while U   *)
(* unchokes, or because every slot was taken, are made again.              *)
(***************************************************************************)
KnownIsFetched == \A i \in Pieces : Knows(i) ~> piece[i] = "verified"

=============================================================================
