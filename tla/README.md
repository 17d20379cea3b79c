# A verification of tinytorrent

TLA+ models of the [tinytorrent](../src/README.md) BitTorrent client, the TLC
runs that check them on small instances, and TLAPS proofs of what matters most
for every instance. Line numbers refer to the files under `src/`;
`PROJECT.json` maps every definition to the lines it models.

## 1. Inventory

tinytorrent is one process. `main.go` starts a `Client`, gives it one metainfo
file and waits. Everything below is go-routines that share memory, channels and
the disk, and the connections between such processes.

| Component | State | Operations | Correct means |
|---|---|---|---|
| Torrent geometry (`torrent/metainfo.go`, `status/download.go` 203-230) | piece count, piece length, length of the files | size of a piece, requests of a piece | the requests of a piece are disjoint and cover it; the pieces cover the torrent |
| Download engine (`status/download.go`, `status.go`) | 4 slots holding a `pendingPiece` each, `Tracker.Downloaded`, `BitField`, `<i>.bin` files, the channels `cancel`, `completed`, `stop` | `downloadScheduler`, `recvPieces`, `Retry`, `Flush`, `CancelDownload`, resume in `NewTracker` | no block lost or counted twice, no panic, only verified pieces announced, `completed` closed exactly when done, cancel drains |
| Seeder connections (`keepAliveSeeders`, `UpdateSeeders`, `p2p/peer`) | map of addresses to peers, status, choke, interest and bitfield of each peer | start a keeper, dial, keep alive, redial, leave; receive choke, unchoke, have, bitfield, piece | a connection always has a keeper that will close it |
| Upload engine (`status/upload.go`, `client/listener.go`) | map of leechers, 75 request slots, `Tracker.Uploaded` | `AddLeecher`, `keepAliveLeechers`, `handleRequests`, `processUploadRequests`, `optimisticUnchoke` | slots never overwritten, bytes counted once, only complete pieces served, stop drains, dead leechers leave, live ones stay |
| Client life cycle (`client/client.go`, `main.go`, `Tracker.Close`) | `done`, context, wait group | `WorkOn`, `WaitFor`, `Close`, `watch`, `downloadTorrent`, `acceptLeechers`, `handlePeer` | a finished torrent is signalled, `Close` returns, the events announced are true, nobody joins late |
| Storage (`NewTracker`, `Flush`, `Tracker.Close`) | directory, `<i>.bin`, `bitfield.bin` | create, write, read back | a crash loses no saved piece and no file of one |
| Assembly (`WaitFor`, client.go 145-270) | file, offset, piece, read positions | copy stretches of pieces into files | every byte in its place, and it ends |
| Peer wire connection (`p2p/peer`) | the socket, status, choke, interest, bitfield | handshake, `Send...`, `listener`, `process` | messages arrive as sent; each end's record of the other is true |
| Bitfield (`p2p/peer/bitfield`) | bytes under a mutex | set, check, overwrite, clone, list | represents a set of pieces |
| Message codecs (`p2p/messagesv1`), bencoding, metainfo parser, tracker responses | none | encode, decode, validate | what is decoded is what was meant; nothing depends on map order |
| Torrent tracker client (`internal/tracker`) | none | announce | events and counters as the protocol wants them |
| Options, build information, generated stringers | none | | not modelled, section 7 |

How they interact. `WorkOn` creates a `Tracker`, whose constructor starts the
scheduler, the uploader and the unchoker, and hands the torrent to `watch`,
which starts `downloadTorrent`. That announces to the torrent tracker and calls
`UpdateSeeders`, which starts one keeper per address; a keeper dials, stores the
peer in the map and starts a receiver for it; the peer's own listener feeds the
receiver through an unbuffered channel. Scheduler and receivers meet in the
slots (atomic pointers) and in a mutex per piece. Leechers come in through
`handlePeer` and meet the uploader in the leechers map and the upload slots.
`Close` closes `done`, waits for the client's go-routines, then closes each
torrent, which saves `bitfield.bin`, closes `stop` and waits.

What is hard: a receiver looks up a slot before it has the piece's mutex; a
request times out while its answer is under way; a piece is thrown away, after
a wrong hash or a failing disk, while others still send blocks of it; slots
are counted while they are being freed; two keepers may own one address; the
peer constructor races with its listener; a cancel races with an answer; a have
races with the bitfield it belongs behind; an unchoke is written before it is
stored; two clients wait to write to each other; a write is cut in the middle
of a message; the process dies between the truncation of a file and its
content; the ticker judges by bytes and the scheduler by pieces; everything
must come to an end when a channel is closed. `PROJECT.json` lists each of
these hazards at its line with the properties that watch it.

## 2. Modules

| Module | Models |
|---|---|
| `Torrent` | the geometry: pieces, requests, bytes |
| `Seeders` | map of seeders, keepers, connections (extends `Torrent`) |
| `Download` | scheduler, receivers, disk, composed with `Seeders` |
| `Engine` | what the download engine promises the client; `Download` implements it |
| `Upload` | the upload side of a torrent (extends `Torrent`) |
| `Storage` | directory, piece files and `bitfield.bin` of a torrent |
| `Lifecycle` | `main`, client, `downloadTorrent`, `WaitFor`, `acceptLeechers`, `Tracker.Close`, on an instance of `Engine` and on `Storage` |
| `Assembly` | the multi-file merge (extends `Torrent`) |
| `Session` | the upload side of one client and the download side of another on one connection |
| `Swarm` | who waits for whom between clients that download from each other |
| `Wire` | bytes of handshakes and messages, the listener, the bitfield |
| `Bencode`, `Metainfo`, `TrackerResponse` (with `Values`) | the decoders |
| `MCDownload`, `MCUpload`, `MCLifecycle`, `MCSession`, `MCSwarm`, `MCFormats` | small instances for TLC |
| `TorrentProofs`, `DownloadProofs` (with the refinement), `UploadProofs`, `LifecycleProofs`, `AssemblyProofs`, `SessionProofs`, `SwarmProofs`, `FormatProofs` (`Wire`, `Metainfo`, `TrackerResponse`) | theorems |

Definitions whose comment begins with "Seeded fault" are variants of the
definition that follows them, the way a plausible bug would make it. They are
used nowhere; replacing the definition by its variant breaks the property that
`PROJECT.json` lists under `mutants`.

### Download and Seeders

State. `requests` are the four slots. A `pendingPiece` is created at most once
per piece (a piece leaves `unverified` for good), so its fields are functions
of the piece: `Pending`, `InFlight`, `Received`, `Downloaded`, `lock`. Two
fields stand for data: `marked` (the `received` flag of an `InFlight` entry)
and `bad` (received blocks whose bytes are not the torrent's; the hash is wrong
exactly when there is one). `total` is `Tracker.Downloaded`. `cancel` stands
for `t.download.cancel` and `t.stop`, which every go-routine of the engine
treats alike.

Steps. The scheduler loads each slot (`SchedLoad`), and works on its piece in
one step under the mutex (`SchedPass`): it moves any set of overdue requests
back and sends any set of pending ones that some peer can serve. Time is
abstracted: an unanswered request may be overdue at any moment. A receiver
looks up the slot (`RecvMessage`), and in a later step, with the mutex, drops
the message (`RecvDrop`) or accepts the block (`RecvBlock`); if the block
completes the piece it keeps the mutex over `RecvReject`, `RecvCreate`,
`RecvWrite`, `RecvSetBit` and `RecvRelease`, with the disk failing at either
point. Between any two of these every other go-routine may run.

`UpdateSeeders` compares the byte count once and then starts keepers in a loop
(download.go 23), so `StartKeepers` starts any set of them from one check: a
keeper may begin in a round that was let in before the last bytes arrived.

Remote peers are free: any message of `Msgs` (right or wrong data, any block of
any piece, and the headers of `Strays`, which answer no request) may arrive on
any open connection at any time, so late, duplicated, reordered and unasked-for
answers are all included. A connection object is used once; a redial takes a
new one, so `Conns` bounds the redials.

A peer whose listener ended before its constructor marked it established
(peer.go 132-135) is an established connection on which nothing arrives, which
the model includes, because it obliges no remote to send anything.

### Engine, and the refinement

`Engine` has no slots, blocks, messages or mutexes: pieces are counted, then
verified or thrown away; keepers and receivers are off, on, or finishing what
they had begun; the scheduler runs or has left; `cancel` and `completed` are
open or closed. `ImplementsEngine` in `Download` is `Engine`'s specification
under the mapping that takes as counted the pieces of which all bytes have
arrived, and the receivers as finishing once a channel is closed, no keeper
can still start one, and none has a message left to read. `Lifecycle` uses the
same module for its engine, with the disk added to its steps, so that what
`Lifecycle` assumes of the engine is what `Download` is proved to do
(`DownloadProofs`, last section).

### Upload

A request is an object with an identity of its own (`id`), so that the
compare-and-swaps tell equal requests apart. The three parties of a slot
(`handleRequests` looking for one and storing, cancelling; the uploader
loading, sending, clearing) take one step per atomic operation. The leechers
map is keyed by address, and `AddrOf` lets two connections come from the same
address, one after the other. `FlushBegins` and `FlushEnds` are what the
download side does to files and bitfield. `cancel` of uploads is never closed
(`CancelUpload` has no caller), so only `stop` is modelled. Requests carry
indices of the torrent: `BitField.Check` would panic on others.

### Lifecycle and Storage

A behaviour is any number of sessions of the client in one directory, which
starts without the torrent. `Kill` ends the process at any step and begins the
next session with what is on disk; `Restart` does so after a session that ended
or panicked. A file is created or truncated in one step and written in another;
either may fail. `NewTracker` finds `bitfield.bin` absent, short or full, cannot
open it (`WorkOnUnopened`: any error of `os.Open` counts as a missing file) or
cannot read it (`WorkOnUnread`). `torn`, `kept` and `forgotten` are observers:
whether the last attempt to save finished, what was ever saved, and which saved
pieces a session began without.
`handler` is one accepted connection in `handlePeer`. `crash` records the
panics of the code: `NewTicker` on an interval of zero, the nil response given
to `UpdateSeeders`, the nil connection given to `handlePeer`, a channel closed
twice; a session that panicked is followed by another one like any other.

### Session

U accepted the connection and uploads, D dialed it and downloads; U still
receives pieces from elsewhere (`Acquire`, `Announce`). A piece is one block,
the two directions are queues, the peers behave as the code does. AddLeecher
takes three steps (map, clone, send), SendUnchoke two (write, store), the
uploader two (load, send and clear). `handleRequests` is behind unbuffered
channels and is folded into the listener's step. A request is given up after it
is lost (`TimeoutLost`), and `MaxEarly` times although its answer is under way.

### Swarm

Only what can block: socket buffers of `Cap` messages, the listener that hands
a piece over, the receiver that writes haves to all leechers, the single
uploader, the write lock of a socket, and the write deadline, which ends a
blocked write after none or part of the message. A link on which part of a
message was left is garbled until it is dialed again.

### Wire, Bencode, Metainfo, TrackerResponse

`Wire` keeps bytes: `Serialize`, `Identify`, `Deserialize`, the handshake and
the bitfield's masks are computed as in the code, and a write may be cut after
any number of bytes. A port message counts as invalid, as the listener refuses
it. `Bencode` decodes documents put together from `Fragments`, at the front
of a buffer of `Capacity` bytes: indices are checked against the document,
slices against the buffer, as in Go. Its positions are one higher than the
code's. Space around a document is trimmed before.
`Metainfo` applies the keys of a decoded document one by one in any order, as
Go ranges over a map. `TrackerResponse` is a function of the response.

### Assembly

The loop of client.go 244-264 with its variables (`c`, `cp`, `l`), one read
position per piece, and the set of bytes written so far. The layout of the
files is any division of the torrent into `NumFiles` non-empty files (`validate`
refuses empty ones).

## 3. Runs and bounds

| Run | Instance | Checks |
|---|---|---|
| `download_churn` | 1 piece of 2 blocks, 1 slot, 2 keepers of one address, 2 connections, stray headers, breaking connections | `NoPanic`, `BlockConservation`, `ExactCount`, `VerifiedOnce`, `NoOrphanConnection` |
| `download_parallel` | 2 pieces of 2 and 1 bytes, 2 slots, 2 peers that stay up | `PieceConservation`, `CompletedMeansAll`, `ImplementsEngine` |
| `download_live` | 1 piece of 1 block, 1 keeper, 2 connections, cancel, fairness | `CancelDrains`, `AllVerifiedCompletes`, `ImplementsEngine` |
| `upload` | 2 leechers, 1 slot, up to 3 requests | `UploadedExact`, `ServesVerified`, `StaysListed`, `NeverOverwritten` |
| `upload_live` | 2 connections of one address, 1 slot, 1 request, fairness | `StopDrains`, `DeadLeft`, `KnownAreHandled` |
| `lifecycle` | 2 pieces, sessions without bound, fairness | `ResumeComplete`, `CancelledOnce`, `SavedOnDisk`, `Durable`, `StartFailsOnlyTorn`, `NoLateLeecher`, `CloseEnds` |
| `assembly` | 10 bytes in pieces of 3, every division into 4 files, fairness | `InPlace`, `AllWritten`, `Ends` |
| `session` | 3 pieces, 2 upload slots, 3 download slots, 1 early timeout, fairness | `RecordsTrue`, `KnownUnlessRaced`, `DropsOnlyWhileUnchoking`, `OneSlotPerBlock`, `KnownIsFetched` |
| `swarm` | 2 clients that download from each other, buffers of 1 message, fairness | `NobodyStuck`, no deadlock |
| `formats` | 10 pieces, 3 messages, documents of 5 fragments, 4 peers | `Framing`, `RecordAsAnnounced`, `LiteralDecodes`, `NoPrefixDecodes`, `FromIsOrderFree`, `PeersAsListed` |

Two more runs show where the code departs from its comments, section 6.

What is proved for every instance and adds little on a small one is not in the
runs: `TypeOK` of `Download`, `Upload`, `Session`, `Lifecycle` and `Assembly`,
`VerifiedOnDisk`, `DropsByPiece`, `MergeFindsAll` and `NoShortRead` are
theorems only (section 5). So is `TypeOK` of `Swarm`. These,
and the inductive invariants of the proofs, hold on the instances above when
they are added to a configuration; only the `Transit` part of `WireInv` has a
quantifier over positions that TLC cannot enumerate.

Why the bounds are enough. The interesting conflicts of the download engine
are between two receivers, or a receiver and the scheduler, over one piece with
at least two blocks (one answered, one timed out), and between two keepers over
one map entry: `download_churn`, whose constraint `OneBroken` stops when the
last connection object is used up; and over two pieces of different size in
two slots: `download_parallel`, whose constraint `NoChurn` leaves out what the
first run has. The proofs then cover every size. Two leechers and one slot are
the smallest contended slot table; three requests (`MaxRequests`) let a slot be
taken, emptied and taken again while the third is between look-up and store. In
`upload_live` the constraint `Seeding` keeps to torrents that are complete.
`lifecycle` has no bound but the two pieces: one may be saved while the other
is being written. In `session` three requests meet two slots, so that one is
dropped; `Later` lets one piece be acquired while D connects; `MaxEarly` lets
one request overtake its own answer. In `swarm` one message fills a buffer, and
two clients are the smallest ring. In `formats`, ten pieces need two bytes with
spare bits; index, offset and length need one, two and three bytes; `MaxSends`
lets a message precede and follow a cut one; five fragments nest lists and
dictionaries with complete, repeated and truncated values, and a `Capacity` of
16 leaves no, little or much room behind them; `Documents` holds
every mix of missing, empty and good values, and every acceptable document with
one value of a wrong type or one more key; `MaxPeers` needs no more than two,
cut at every byte. The layouts of `assembly` have files inside one piece,
files over several pieces, and boundaries on and off piece boundaries, with a
short last piece.

Deadlock checking is off where the system may stop: a torrent that is drained
or closed, a session that is over, a document that is read. In `swarm` it is on.

## 4. Fairness

`Spec` has none; `FairSpec` adds, per go-routine, that it keeps being scheduled
(weak fairness of its steps).

* Steps that wait for a piece's mutex (`SchedPass`, `RecvDrop`, `RecvBlock`)
  are strongly fair: `sync.Mutex` hands the lock to a waiter that starves for
  more than a millisecond. So is, in `Swarm`, taking the write lock of a
  socket, which is queued.
* A keeper's exit is strongly fair: the select that sees a closed channel
  competes with a tick that is two minutes away. Dialing ends because of the
  10 s dial timeout and the 15 s handshake deadlines, sending because of the
  15 s write deadline of every send, which `Swarm` has as a step.
* A leecher's keeper leaves when its peer's listener is gone: either the status
  says so or a keep-alive fails.
* In `Lifecycle` a request to the torrent tracker ends, with an answer or an
  error. This is an assumption about the environment: the announcements use
  `http.DefaultClient`, which has no timeout. The closed channels of
  `downloadTorrent` are strongly fair against its ticker. A multi-file merge is
  not assumed to end (a failing copy is tried for ever); `MultiFile` is FALSE
  in the run. Nobody has to kill or restart the client.
* In `Session` both ends are tinytorrent and the connection stays up until D
  leaves; U need not acquire more pieces and D need not give up early.
* In the other modules nothing is assumed of remote peers, of the user, or of
  `completed` ever happening.

## 5. Proofs

All statements hold for every value of the constants that satisfies the named
assumptions (`GeometryAssumption`, `SeedersAssumption`, `DownloadAssumption`,
`UploadAssumption`, `LifecycleAssumption`, `AssemblyAssumption`,
`SessionAssumption`, `SwarmAssumption`, `WireAssumption`, `DocumentAssumption`,
`ResponseAssumption`). `GeometryAssumption` says that piece count, piece length
and length of the files agree, which the parser does not verify.
`DocumentAssumption` says that a document has a value, possibly `Absent`, for
every key, and that `Absent` is neither `Wrong` nor a record. `WireAssumption`
says that numbers of messages are below 2^31, that a block has 1 to 16384 bytes,
that the client announces pieces of its torrent only, and that a handshake has
the length of the protocol's: on another one `Handshake.Serialize` panics, and
`Handshake.Deserialize`, which slices by the length byte of the remote, may
panic too (handshake.go 47-64).
`ResponseAssumption` says that addresses have four bytes and ports are below
65536. The others give constants their types.

* `TorrentProofs`: requests of a piece are disjoint, not empty and cover it;
  pieces are disjoint and cover the torrent; adding a block adds its length to
  the bytes held; a piece has all its bytes exactly when it has all its blocks.
* `DownloadProofs`: `TypeOK`, `NoPanic`, `BlockConservation`, `ExactCount`,
  `PieceConservation`, `VerifiedOnDisk`, `VerifiedOnce`, `CompletedMeansAll`,
  `DropsByPiece`, `NoOrphanConnection`. Few of them are inductive alone. The
  invariant `IInv` adds: `freeSlots` equals the number of slots passed only if
  all of these are still empty, because only the scheduler fills slots
  (`SchedInv`); a piece is unverified, verified or in a slot, and in one only
  (`SlotInv`); the blocks of a piece in a slot are split between `Pending` and
  `InFlight`, a piece out of the slots has nothing outstanding, so a go-routine
  that still remembers it cannot disturb it, and `Downloaded` is the number of
  bytes of `Received` (`PieceInv`); a receiver that verifies holds the mutex of
  a complete piece that its slot still has (`LockInv`); `completed` implies all
  verified (`CompletedInv`). The panic of download.go 304 is then impossible
  because a block that is not in `Received` still fits, and those of 333 and
  344 because a complete piece has every block in flight and none pending.
* `DownloadProofs`, last section: `ImplementsEngine`. On top of `IInv` the mapping needs to
  know how a download ends (`EndInv`): a keeper has left only after a channel
  was closed, a receiver at work had a keeper, and a complete piece that is not
  yet verified is in the hands of a receiver. Then no piece is half done when
  the last receiver leaves. The rest is one lemma per kind of step, which names
  the step of `Engine` it is, or shows that none of what `Engine` sees changes.
* `UploadProofs`: `TypeOK`, `UploadedExact`, `ServesVerified`, `StaysListed`,
  `NeverOverwritten`. The core of `IInv` is that a request object has one place
  (`ObjectInv`): a handler that still looks for a slot, or one slot; what the
  uploader has loaded is in no other slot than the one it came from; an
  answered object is gone, or its slot is about to be cleared. So no
  compare-and-swap can hit an equal but different request, and none is answered
  twice, whichever way cancels and answers race. `ListInv` ties open
  connections to the map, `DiskInv` bits to complete files.
* `LifecycleProofs`: `TypeOK`, `ResumeComplete`, `MergeFindsAll`,
  `CancelledOnce`, `SavedOnDisk`, `Durable`, `StartFailsOnlyTorn`,
  `NoLateLeecher`, over any number of sessions. The point of `IInv` is that
  receivers run only while `downloadTorrent` does (`ReceiverInv`), that `Close`
  joins it before it saves (`OrderInv`), that it leaves its loop with the event
  it announced (`EventInv`), and how files, `bitfield.bin` and the observers
  hang together while a flush or a save is half done.
* `AssemblyProofs`: `TypeOK`, `NoShortRead`, `InPlace`, `AllWritten`. `IInv`
  says that file offset, piece position and read handle stand at one byte of
  the torrent, `Start[f] + c = cp * PieceLength + PieceLength - l`, and that
  all before it is written.
* `SessionProofs`: `TypeOK`, `RecordsTrue`, `KnownUnlessRaced`,
  `DropsOnlyWhileUnchoking`, `OneSlotPerBlock`. The invariants speak of the
  messages under way: what they tell of pieces is true (`TruthInv`), what was
  announced is in the clone still to be sent or will be on record (`HaveInv`),
  whoever was unchoked is interested (`UnchokeInv`), D asks only for what it
  may ask for (`AskInv`), not interested is its last word (`HeldInv`), and
  between two requests for one block, or before one for a block that U still
  holds, there is its cancel (`CancelInv`). The last is why a block that timed
  out and is asked for again takes no second slot.
* `FormatProofs`, `Metainfo`: `FromIsOrderFree`. While a document is read, the
  `MetaInfoFile` is a function of the set of keys applied so far (`Partial`),
  none of which was refused (`KeyInv`); when no key is left that function is
  the document's meaning, and `validate` accepts it exactly when the document
  is acceptable.
* `FormatProofs`, `Wire`: `Framing` and `RecordAsAnnounced`. Two facts about
  single messages carry them: `Identify` at the front of a stream that begins
  with `Serialize(m)` takes exactly its bytes and returns `m` (`Decoded`), and
  likewise for the handshake (`HandshakeDecoded`). The invariant then needs no
  parse of the stream: the messages sent and not yet taken have positions, each
  one's bytes lie at its position and end at the next one's (`Transit`), the
  first position is the front, or the end of a handshake still to be read, and
  while no write was cut the last one ends the stream. A step of the listener
  moves every position to the front by what it took; a send adds one; after a
  cut the positions of what was sent before remain. For the record the proof
  keeps that every message tells only of pieces the sender has (`Announced`)
  and that the record agrees, bit by bit, with the last bitfield taken and the
  haves after it (`Recorded`); below it are the laws of the bitfield: `Set`
  leaves a byte a byte, sets its bit and no other.
* `FormatProofs`, `TrackerResponse`: `PeersAsListed`, for every list of
  addresses (`KnownPeers`): byte `6n + j` of a compact list is byte `j` of peer
  `n`, and the port of two bytes in network order is the port.
* `SwarmProofs`: `TypeOK`, and what `NobodyStuck` rests on, for every set of
  clients and links and every buffer size (`SwarmInv`): whoever has the write
  lock of a socket still owes it the message it writes (`Owed`) and has no
  other lock (`OneLock`), and a receiver announces exactly as long as there is
  a leecher to tell (`Telling`). So no circle of locks can form; a writer waits
  for a buffer or for its deadline only.

Only model-checked: the liveness properties (`CancelDrains`,
`AllVerifiedCompletes`, `StopDrains`, `DeadLeft`, `KnownAreHandled`,
`CloseEnds`, `Ends`, `KnownIsFetched`, `NobodyStuck`), which are out of the
prover's reach, and `LiteralDecodes` and `NoPrefixDecodes` of `Bencode`, whose
decoder is recursive over nested values: a proof is an induction over the
document. Every other property of a passing run is a theorem.

## 6. What the code does differently from what it says

Each is a run that must end in a violation; its trace is the scenario.

* `lifecycle_signal`: all bytes have arrived, the interval ticker fires before
  the scheduler's next pass. The tick announces `completed` and cancels the
  download; the scheduler leaves through `cancel` and `completed` is never
  closed, so `WaitFor` never assembles the files. A restart with the saved
  bitfield recovers.
* `upload_held`: requests of a leecher that left stay in the upload slots for
  ever.

Observations without a run of their own, each in the model of a passing run:

* A piece announced between the clone of the bitfield and its sending to a new
  leecher (upload.go 30) is taken off the leecher's record by the older
  bitfield and never announced again. `KnownUnlessRaced` excludes exactly these
  pieces. `src/README.md` 20-21 describes a client "downloading pieces as the
  Seeder makes them available".
* A leecher that reconnects from its old address loses its map entry when the
  keeper of the former connection leaves (upload.go 171), and is then neither
  unchoked nor served nor told of new pieces; `StaysListed` makes the exception.
* A regular update that fails passes a nil response to `UpdateSeeders`, and an
  Accept that fails a nil connection to `handlePeer`; both panic. The log line
  of the former (client.go 434) says "attempting to continue".
* A save that does not finish leaves a short `bitfield.bin`, and the client
  then refuses to start until somebody removes it. This is also what keeps
  `Durable` true: a client that took the short file for an empty bitfield would
  overwrite the better one for good. The errors of a save are dropped
  (status.go 195).
* A `bitfield.bin` that is there but cannot be opened counts as missing
  (status.go 148, under the comment "read bitfield if exists."). The session
  takes all pieces for missing, truncates the files of saved ones as it gets
  them again, and may save a poorer bitfield; if it dies while a file is
  truncated, the next session takes that piece for verified. `SavedOnDisk` and
  `Durable` make an exception for exactly these pieces (`forgotten`), until a
  save lists them with complete files; `Download` and `Upload` begin with a
  bitfield whose pieces are on disk and so leave such a session out.
* A write that is cut by its deadline leaves the connection in use with its
  message boundaries lost. `Framing` says what is left: what was sent before
  the cut arrives. And only that deadline lets clients go on that download
  from each other with full buffers (`NobodyStuck`; without it TLC finds the
  ring of waiting writers).
* Requests that reach the uploader between the writing and the storing of its
  unchoke are dropped (`DropsOnlyWhileUnchoking`); the timeout repairs it.
* The tick of `lifecycle_signal` announces `completed` while the last piece may
  still be verified and thrown away. Once `completed` was announced, or when
  the tracker gave no interval, a later graceful shutdown announces no
  `stopped`, although event.go 10 says it "must be included if the client
  Eventis shutting down gracefully". No property claims that it is;
  `CancelledOnce` is about the cancelling only.
* A bencoded string whose length points past the end of the document is no
  error: byte_string.go 34 slices up to the capacity of the buffer of
  `io.ReadAll`, which is at least 512. Within a list or a dictionary the decoder
  then panics at its next index (lists.go 44, dictionary.go 55 and 70), or in
  byte_string.go 34 if the capacity is exceeded too. A document that is one
  string is accepted with bytes from behind it; `From` and `DecodeResponse` take
  dictionaries only, for which `NoPrefixDecodes` says that nothing from behind
  the document gets in.

## 7. Not modelled

The URL encoding of announcements and the HTTP call; options, version strings,
generated stringers and logging. The rate counters, which are only logged.
`CancelUpload`, which nobody calls and whose channel is never made. A second
caller of `WorkOn` and several torrents in one client: main.go has one. The
opening of files before a merge and the concatenation of a single-file torrent
are outcomes of one step. Piece hashes are a flag on blocks. Overflow of 64-bit
lengths in bencoding, and peers that send indices past the torrent to
`BitField.Check`.

## 8. Plan

Done: the download, uploads, life cycle with crashes and restarts, assembly,
the abstract engine, two clients on a connection, the ring of clients, and the
formats; and the proofs of section 5, with which every safety property of a
passing run outside `Bencode` is a theorem. Left:

1. `Session` with a second leecher, for the cancel that empties the slots of
   others.
2. Larger rings in `Swarm`, if TLC's liveness checking allows.
3. Proofs about `Bencode` for documents of bounded nesting, whose decoder can be
   written without recursion.
