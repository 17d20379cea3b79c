------------------------------- MODULE Upload -------------------------------
(***************************************************************************)
(* The upload side of one torrent (status.Tracker): AddLeecher, run by the *)
(* client for an accepted connection, the keepAliveLeechers and            *)
(* handleRequests go-routines of each leecher, processUploadRequests, and  *)
(* optimisticUnchoke.  They share the table of upload requests, whose      *)
(* slots are atomic pointers, and the leechers map.                        *)
(*                                                                         *)
(* A peer p is one *peer.Peer object.  A request object is a record with   *)
(* an id of its own: a compare-and-swap tells two requests with the same   *)
(* fields apart.                                                           *)
(***************************************************************************)
EXTENDS Torrent

CONSTANTS
    Peers,        \* peer.Peer objects, one per accepted connection
    NoPeer,       \* no entry in the leechers map
    Addrs,        \* remote addresses, ip:port
    AddrOf,       \* the address a peer connected from
    NumSlots,     \* len(t.upload.requests), 75 in the code
    NoReq,        \* the nil *timedUploadRequest
    Asks,         \* request and cancel messages the leechers send
    MaxRequests   \* bound: requests that reach handleRequests

Slots   == 1 .. NumSlots
Objects == [id : 1 .. MaxRequests, hdr : Asks, addr : Addrs]

ASSUME UploadAssumption ==
    /\ NoPeer \notin Peers
    /\ AddrOf \in [Peers -> Addrs]
    /\ NumSlots \in Nat \ {0}
    /\ MaxRequests \in Nat
    /\ Asks \subseteq [Index : Pieces, Begin : Nat, Length : 0 .. RequestSize]
    /\ NoReq \notin Objects

VARIABLES
    leechers,     \* the map from addresses to peers
    open,         \* the peers whose listener runs: their channels are open
    conn,         \* connectionStatus
    unchoked,     \* the peers whose Status.This is UnChoked
    interested,   \* the peers whose Interest.Remote is Interested
    kpc,          \* AddLeecher, then keepAliveLeechers, of each peer
    hpc,          \* where the handleRequests of each peer is
    hslot,        \* the slot it looks at
    hask,         \* the cancel message it works on
    hobj,         \* the request object it stores, or loaded to cancel it
    requests,     \* t.upload.requests
    upc,          \* where processUploadRequests is
    uslot, ureq,  \* the slot it looks at and what it loaded from there
    unchoker,     \* optimisticUnchoke runs
    Uploaded,     \* Tracker.Uploaded
    BitField,     \* Tracker.BitField
    file,         \* the <index>.bin files
    stop,         \* t.stop is closed
    nextId,       \* observer: names the next request object
    sent          \* observer: request objects answered with a piece

peerVars == <<leechers, open, conn, unchoked, interested, kpc>>
handVars == <<hpc, hslot, hask, hobj>>
procVars == <<upc, uslot, ureq, Uploaded, sent>>
diskVars == <<BitField, file>>
vars == <<peerVars, handVars, procVars, diskVars, requests, unchoker, stop, nextId>>

\* Every variable of the upload side keeps its type.
TypeOK ==
    /\ leechers   \in [Addrs -> Peers \cup {NoPeer}]
    /\ open       \in SUBSET Peers
    /\ conn       \in [Peers -> {"none", "established", "killed"}]
    /\ unchoked   \in SUBSET Peers
    /\ interested \in SUBSET Peers
    /\ kpc   \in [Peers -> {"none", "new", "adding", "failed", "run", "leave", "exited"}]
    /\ hpc   \in [Peers -> {"none", "idle", "find", "store", "cancel", "clear", "exited"}]
    /\ hslot \in [Peers -> 1 .. NumSlots + 1]
    /\ hask  \in [Peers -> Asks \cup {NoReq}]
    /\ hobj  \in [Peers -> Objects \cup {NoReq}]
    /\ requests \in [Slots -> Objects \cup {NoReq}]
    /\ upc   \in {"scan", "serve", "clear", "exited"}
    /\ uslot \in 1 .. NumSlots + 1
    /\ ureq  \in Objects \cup {NoReq}
    /\ unchoker \in {"run", "exited"}
    /\ Uploaded \in Nat
    /\ BitField \in SUBSET Pieces
    /\ file \in [Pieces -> {"none", "partial", "good"}]
    /\ stop \in BOOLEAN
    /\ nextId \in 1 .. MaxRequests + 1
    /\ sent \in SUBSET Objects

Init ==
    /\ leechers = [a \in Addrs |-> NoPeer]
    /\ open = {} /\ unchoked = {} /\ interested = {}
    /\ conn  = [p \in Peers |-> "none"]
    /\ kpc   = [p \in Peers |-> "none"]
    /\ hpc   = [p \in Peers |-> "none"]
    /\ hslot = [p \in Peers |-> 1]
    /\ hask  = [p \in Peers |-> NoReq]
    /\ hobj  = [p \in Peers |-> NoReq]
    /\ requests = [s \in Slots |-> NoReq]
    /\ upc = "scan" /\ uslot = 1 /\ ureq = NoReq /\ unchoker = "run"
    /\ Uploaded = 0
    /\ BitField \in SUBSET Pieces
    /\ file = [i \in Pieces |-> IF i \in BitField THEN "good" ELSE "none"]
    /\ stop = FALSE /\ nextId = 1 /\ sent = {}

-----------------------------------------------------------------------------
(* AddLeecher and the connection *)

(***************************************************************************)
(* NewLeecherConnection starts the listener; the zero connectionStatus is  *)
(* ConnectionEstablished.  An address connects again only once its former  *)
(* connection is gone.  Client.Close lets every handlePeer end before it   *)
(* closes the torrent.                                                     *)
(***************************************************************************)
NewLeecherConnection(p) ==
    /\ ~stop /\ kpc[p] = "none"
    /\ \A q \in Peers : AddrOf[q] = AddrOf[p] => q \notin open
    /\ kpc' = [kpc EXCEPT ![p] = "new"]
    /\ open' = open \cup {p}
    /\ conn' = [conn EXCEPT ![p] = "established"]
    /\ UNCHANGED <<leechers, unchoked, interested, handVars, procVars, diskVars,
                   requests, unchoker, stop, nextId>>

\* The constructor sets the status, whatever the listener did meanwhile, and
\* AddLeecher replaces the entry of the address.
AddLeecher(p) ==
    /\ kpc[p] = "new"
    /\ kpc' = [kpc EXCEPT ![p] = "adding"]
    /\ conn' = [conn EXCEPT ![p] = "established"]
    /\ leechers' = [leechers EXCEPT ![AddrOf[p]] = p]
    /\ UNCHANGED <<open, unchoked, interested, handVars, procVars, diskVars,
                   requests, unchoker, stop, nextId>>

\* SendBitfield succeeded: the two go-routines of the leecher start.
AddLeecherOk(p) ==
    /\ kpc[p] = "adding" /\ conn[p] = "established"
    /\ kpc' = [kpc EXCEPT ![p] = "run"]
    /\ hpc' = [hpc EXCEPT ![p] = "idle"]
    /\ UNCHANGED <<leechers, open, conn, unchoked, interested, hslot, hask, hobj,
                   procVars, diskVars, requests, unchoker, stop, nextId>>

\* SendBitfield failed: the entry is deleted and handlePeer closes the socket,
\* on which the listener ends.
AddLeecherFail(p) ==
    /\ kpc[p] = "adding"
    /\ kpc' = [kpc EXCEPT ![p] = "failed"]
    /\ leechers' = [leechers EXCEPT ![AddrOf[p]] = NoPeer]
    /\ open' = open \ {p}
    /\ conn' = [conn EXCEPT ![p] = "killed"]
    /\ UNCHANGED <<unchoked, interested, handVars, procVars, diskVars, requests,
                   unchoker, stop, nextId>>

\* The remote is gone or was silent for KeepAliveTimeout: the listener closes
\* the channels and marks the peer killed.
ListenerEnd(p) ==
    /\ p \in open
    /\ open' = open \ {p}
    /\ conn' = [conn EXCEPT ![p] = "killed"]
    /\ UNCHANGED <<leechers, unchoked, interested, kpc, handVars, procVars,
                   diskVars, requests, unchoker, stop, nextId>>

ProcessInterest(p, yes) ==
    /\ p \in open
    /\ interested' = IF yes THEN interested \cup {p} ELSE interested \ {p}
    /\ UNCHANGED <<leechers, open, conn, unchoked, kpc, handVars, procVars,
                   diskVars, requests, unchoker, stop, nextId>>

-----------------------------------------------------------------------------
(* keepAliveLeechers *)

\* Seeded fault: the go-routine leaves without closing the peer.
ClosedNot(p) == UNCHANGED <<open, conn>>

\* p.Close: the socket is closed and the listener has ended.
Closed(p) == /\ open' = open \ {p}
             /\ conn' = [conn EXCEPT ![p] = "killed"]

\* Seeded fault: a keep-alive that cannot be sent is only logged.
KeeperLeavesKilledOnly(p) ==
    /\ kpc[p] = "run"
    /\ stop \/ conn[p] = "killed"
    /\ kpc' = [kpc EXCEPT ![p] = "leave"]
    /\ Closed(p)
    /\ UNCHANGED <<leechers, unchoked, interested, handVars, procVars, diskVars,
                   requests, unchoker, stop, nextId>>

\* stop is closed, or a tick finds the peer killed or cannot send: Close.
KeeperLeaves(p) ==
    /\ kpc[p] = "run"
    /\ kpc' = [kpc EXCEPT ![p] = "leave"]
    /\ Closed(p)
    /\ UNCHANGED <<leechers, unchoked, interested, handVars, procVars, diskVars,
                   requests, unchoker, stop, nextId>>

\* leechers.Delete(p.Addr), whichever peer the entry holds.
KeeperDelete(p) ==
    /\ kpc[p] = "leave"
    /\ kpc' = [kpc EXCEPT ![p] = "exited"]
    /\ leechers' = [leechers EXCEPT ![AddrOf[p]] = NoPeer]
    /\ UNCHANGED <<open, conn, unchoked, interested, handVars, procVars, diskVars,
                   requests, unchoker, stop, nextId>>

-----------------------------------------------------------------------------
(* optimisticUnchoke *)

\* A tick: one interested peer of the map that is choked is sent an unchoke.
Unchoke(p) ==
    /\ unchoker = "run" /\ \E a \in Addrs : leechers[a] = p
    /\ p \notin unchoked /\ p \in interested
    /\ conn[p] = "established"
    /\ unchoked' = unchoked \cup {p}
    /\ UNCHANGED <<leechers, open, conn, interested, kpc, handVars, procVars,
                   diskVars, requests, unchoker, stop, nextId>>

UnchokerStop ==
    /\ unchoker = "run" /\ stop
    /\ unchoker' = "exited"
    /\ UNCHANGED <<peerVars, handVars, procVars, diskVars, requests, stop, nextId>>

-----------------------------------------------------------------------------
(* The listener hands requests and cancels over to handleRequests *)

\* Both channels are unbuffered: the listener waits until the handler selects.
Delivers(p) == p \in open /\ p \in unchoked /\ p \in interested /\ hpc[p] = "idle"

\* The handler of p is back in its select, or goes on at pc with slot s.
Idle(p) == /\ hpc' = [hpc EXCEPT ![p] = "idle"]
           /\ hslot' = [hslot EXCEPT ![p] = 1]
           /\ hask' = [hask EXCEPT ![p] = NoReq]
           /\ hobj' = [hobj EXCEPT ![p] = NoReq]

GoOn(p, pc, s) == /\ hpc' = [hpc EXCEPT ![p] = pc]
                  /\ hslot' = [hslot EXCEPT ![p] = s]

\* Seeded fault: the bitfield is not consulted.
HavePieceAlways(i) == TRUE

\* t.BitField.Check
HavePiece(i) == i \in BitField

\* A request for a piece we have becomes a request object; others change nothing.
Request(p, h) ==
    /\ Delivers(p) /\ nextId <= MaxRequests
    /\ HavePiece(h.Index)
    /\ hobj' = [hobj EXCEPT ![p] = [id |-> nextId, hdr |-> h, addr |-> AddrOf[p]]]
    /\ nextId' = nextId + 1
    /\ GoOn(p, "find", 1)
    /\ UNCHANGED <<peerVars, hask, procVars, diskVars, requests, unchoker, stop>>

\* Look for a free slot.
Find(p) ==
    /\ hpc[p] = "find" /\ hslot[p] <= NumSlots
    /\ IF requests[hslot[p]] = NoReq THEN GoOn(p, "store", hslot[p])
                                     ELSE GoOn(p, "find", hslot[p] + 1)
    /\ UNCHANGED <<peerVars, hask, hobj, procVars, diskVars, requests, unchoker,
                   stop, nextId>>

\* All slots were taken: the request is dropped.
FindNone(p) ==
    /\ hpc[p] = "find" /\ hslot[p] > NumSlots
    /\ Idle(p)
    /\ UNCHANGED <<peerVars, procVars, diskVars, requests, unchoker, stop, nextId>>

\* Seeded fault: a plain store, although the slot may be taken by now.
SwappedBlindly(s, old, new) == [requests EXCEPT ![s] = new]

\* t.upload.requests[s].CompareAndSwap(old, new)
Swapped(s, old, new) ==
    IF requests[s] = old THEN [requests EXCEPT ![s] = new] ELSE requests

\* CompareAndSwap(nil, request); when another handler was faster, look again.
Store(p) ==
    LET s == hslot[p] IN
    /\ hpc[p] = "store"
    /\ requests' = Swapped(s, NoReq, hobj[p])
    /\ IF requests[s] = NoReq THEN Idle(p)
                              ELSE GoOn(p, "find", 1) /\ UNCHANGED <<hask, hobj>>
    /\ UNCHANGED <<peerVars, procVars, diskVars, unchoker, stop, nextId>>

\* A cancel is handed over.
CancelRequest(p, h) ==
    /\ Delivers(p)
    /\ hask' = [hask EXCEPT ![p] = h]
    /\ GoOn(p, "cancel", 1)
    /\ UNCHANGED <<peerVars, hobj, procVars, diskVars, requests, unchoker, stop, nextId>>

\* Load a slot; a request with the cancelled header, of any peer, matches.
CancelLook(p) ==
    LET s == hslot[p] IN
    /\ hpc[p] = "cancel" /\ s <= NumSlots
    /\ IF requests[s] # NoReq /\ requests[s].hdr = hask[p]
       THEN /\ hobj' = [hobj EXCEPT ![p] = requests[s]]
            /\ GoOn(p, "clear", s)
       ELSE GoOn(p, "cancel", s + 1) /\ UNCHANGED hobj
    /\ UNCHANGED <<peerVars, hask, procVars, diskVars, requests, unchoker, stop, nextId>>

\* CompareAndSwap(request, nil).
CancelClear(p) ==
    /\ hpc[p] = "clear"
    /\ requests' = Swapped(hslot[p], hobj[p], NoReq)
    /\ GoOn(p, "cancel", hslot[p] + 1)
    /\ hobj' = [hobj EXCEPT ![p] = NoReq]
    /\ UNCHANGED <<peerVars, hask, procVars, diskVars, unchoker, stop, nextId>>

CancelDone(p) ==
    /\ hpc[p] = "cancel" /\ hslot[p] > NumSlots
    /\ Idle(p)
    /\ UNCHANGED <<peerVars, procVars, diskVars, requests, unchoker, stop, nextId>>

\* A channel is closed.
HandlerExit(p) ==
    /\ hpc[p] = "idle" /\ p \notin open
    /\ hpc' = [hpc EXCEPT ![p] = "exited"]
    /\ UNCHANGED <<peerVars, hslot, hask, hobj, procVars, diskVars, requests,
                   unchoker, stop, nextId>>

-----------------------------------------------------------------------------
(* processUploadRequests *)

\* The slot is done with: the next one.
NextSlot == upc' = "scan" /\ uslot' = uslot + 1 /\ ureq' = NoReq

\* Load a slot.
ScanSlot ==
    /\ upc = "scan" /\ uslot <= NumSlots
    /\ IF requests[uslot] = NoReq
       THEN NextSlot
       ELSE upc' = "serve" /\ ureq' = requests[uslot] /\ UNCHANGED uslot
    /\ UNCHANGED <<peerVars, handVars, Uploaded, sent, diskVars, requests, unchoker,
                   stop, nextId>>

\* The address is not in the map: the request stays where it is.
ServeNobody ==
    /\ upc = "serve" /\ leechers[ureq.addr] = NoPeer
    /\ NextSlot
    /\ UNCHANGED <<peerVars, handVars, Uploaded, sent, diskVars, requests, unchoker,
                   stop, nextId>>

\* ReadRequest: the block must lie inside the file of the piece.
CanRead(h) ==
    /\ file[h.Index] # "none"
    /\ h.Begin < PieceSize(h.Index)
    /\ h.Length <= PieceSize(h.Index) - h.Begin

\* Seeded fault: a request that cannot be served keeps its slot.
ServeFailKeeps ==
    /\ upc = "serve" /\ leechers[ureq.addr] # NoPeer
    /\ NextSlot
    /\ UNCHANGED <<peerVars, handVars, Uploaded, sent, diskVars, requests, unchoker,
                   stop, nextId>>

\* ReadRequest or SendPiece fails: the request is dropped.
ServeFail ==
    /\ upc = "serve" /\ leechers[ureq.addr] # NoPeer
    /\ requests' = Swapped(uslot, ureq, NoReq)
    /\ NextSlot
    /\ UNCHANGED <<peerVars, handVars, Uploaded, sent, diskVars, unchoker, stop, nextId>>

\* The block is read and sent to the peer the map has for the address.
ServeSend ==
    /\ upc = "serve" /\ leechers[ureq.addr] # NoPeer
    /\ conn[leechers[ureq.addr]] = "established"
    /\ CanRead(ureq.hdr)
    /\ sent' = sent \cup {ureq}
    /\ upc' = "clear"
    /\ UNCHANGED <<peerVars, handVars, uslot, ureq, Uploaded, diskVars, requests,
                   unchoker, stop, nextId>>

\* Seeded fault: the slot keeps the request that was just answered.
ServedAgain(s, r) == requests

\* CompareAndSwap(req, nil) after a block was sent.
Served(s, r) == Swapped(s, r, NoReq)

ServeClear ==
    /\ upc = "clear"
    /\ requests' = Served(uslot, ureq)
    /\ Uploaded' = Uploaded + ureq.hdr.Length
    /\ NextSlot
    /\ UNCHANGED <<peerVars, handVars, sent, diskVars, unchoker, stop, nextId>>

\* Back in the select after the last slot.
PassEnds ==
    /\ upc = "scan" /\ uslot > NumSlots
    /\ IF stop THEN upc' = "exited" /\ UNCHANGED uslot
               ELSE uslot' = 1 /\ UNCHANGED upc
    /\ UNCHANGED <<peerVars, handVars, ureq, Uploaded, sent, diskVars, requests,
                   unchoker, stop, nextId>>

-----------------------------------------------------------------------------
(* The download side, as far as uploads see it *)

\* Flush has created, or truncated, the file of a missing piece.
FlushBegins(i) ==
    /\ i \notin BitField
    /\ file' = [file EXCEPT ![i] = "partial"]
    /\ UNCHANGED <<peerVars, handVars, procVars, BitField, requests, unchoker, stop, nextId>>

\* The file is written and BitField.Set announces the piece.
FlushEnds(i) ==
    /\ file[i] = "partial"
    /\ file' = [file EXCEPT ![i] = "good"]
    /\ BitField' = BitField \cup {i}
    /\ UNCHANGED <<peerVars, handVars, procVars, requests, unchoker, stop, nextId>>

\* Tracker.Close, which Client.Close calls once no handlePeer is left.
Stop ==
    /\ ~stop /\ \A p \in Peers : kpc[p] \notin {"new", "adding"}
    /\ stop' = TRUE
    /\ UNCHANGED <<peerVars, handVars, procVars, diskVars, requests, unchoker, nextId>>

-----------------------------------------------------------------------------
HandlerStep(p) ==
    \/ Find(p) \/ FindNone(p) \/ Store(p) \/ CancelLook(p) \/ CancelClear(p)
    \/ CancelDone(p) \/ HandlerExit(p)

ProcessorStep ==
    ScanSlot \/ ServeNobody \/ ServeFail \/ ServeSend \/ ServeClear \/ PassEnds

AcceptStep(p) ==
    NewLeecherConnection(p) \/ AddLeecher(p) \/ AddLeecherOk(p) \/ AddLeecherFail(p)

RemoteStep(p) ==
    \/ ListenerEnd(p)
    \/ \E yes \in BOOLEAN : ProcessInterest(p, yes)
    \/ \E h \in Asks : Request(p, h) \/ CancelRequest(p, h)

Next ==
    \/ ProcessorStep \/ UnchokerStop \/ Stop
    \/ \E i \in Pieces : FlushBegins(i) \/ FlushEnds(i)
    \/ \E p \in Peers : \/ AcceptStep(p) \/ RemoteStep(p) \/ HandlerStep(p)
                        \/ Unchoke(p) \/ KeeperLeaves(p) \/ KeeperDelete(p)

Spec == Init /\ [][Next]_vars

-----------------------------------------------------------------------------
(* Safety *)

(***************************************************************************)
(* No handler overwrites a slot: a slot that holds a request is emptied    *)
(* before it holds another one, although handlers of several leechers look *)
(* for a free slot and store at the same time.                             *)
(***************************************************************************)
NeverOverwritten ==
    [][\A s \in Slots : requests[s] # NoReq => requests'[s] \in {requests[s], NoReq}]_vars

\* The bytes of the requests answered, those of different requests apart.
AnsweredBytes == UNION {{r} \X (1 .. r.hdr.Length) : r \in sent}

(***************************************************************************)
(* Tracker.Uploaded, which is announced to the torrent tracker, is the     *)
(* number of bytes of the requests answered: no request is answered, or    *)
(* counted, twice, also when a cancel races with the answer.               *)
(***************************************************************************)
UploadedExact ==
    Uploaded + (IF upc = "clear" THEN ureq.hdr.Length ELSE 0) = Cardinality(AnsweredBytes)

(***************************************************************************)
(* A block is sent only of a piece whose file was complete when it was     *)
(* read, while the download side keeps flushing other pieces.              *)
(***************************************************************************)
ServesVerified == \A r \in sent : file[r.hdr.Index] = "good"

(***************************************************************************)
(* An open connection past AddLeecher is in the map, where the unchoker    *)
(* and the processor find it, unless its address had another connection    *)
(* before: only the keeper of that one, or an AddLeecher of it that is     *)
(* late, takes the entry away.                                             *)
(***************************************************************************)
StaysListed ==
    \A p \in open :
        kpc[p] \in {"run", "leave", "exited"} =>
            \/ leechers[AddrOf[p]] = p
            \/ \E q \in Peers \ {p} : AddrOf[q] = AddrOf[p] /\ kpc[q] # "none"

-----------------------------------------------------------------------------
(* Liveness.  The go-routines keep being scheduled; the 2-minute tick of a *)
(* keeper sees a killed peer, and its keep-alives cannot be sent forever   *)
(* to a connection that is gone.  Nothing is assumed of the leechers.      *)

Fairness ==
    /\ WF_vars(ProcessorStep)
    /\ WF_vars(UnchokerStop)
    /\ \A p \in Peers :
          /\ WF_vars(HandlerStep(p))
          /\ WF_vars(AddLeecher(p))
          /\ WF_vars(AddLeecherOk(p) \/ AddLeecherFail(p))
          /\ WF_vars((stop \/ p \notin open) /\ KeeperLeaves(p))
          /\ WF_vars(KeeperDelete(p))

FairSpec == Spec /\ Fairness

\* t.upload.wg.Wait in Tracker.Close returns.
Drained ==
    /\ upc = "exited" /\ unchoker = "exited"
    /\ \A p \in Peers : /\ kpc[p] \in {"none", "failed", "exited"}
                        /\ hpc[p] \in {"none", "exited"}

\* Closing stop ends every go-routine of the upload side.
StopDrains == stop ~> Drained

(***************************************************************************)
(* A leecher whose listener is gone leaves the map, also when the          *)
(* constructor marked it established after the listener had ended.         *)
(***************************************************************************)
DeadLeft ==
    \A p \in Peers : (kpc[p] = "run" /\ p \notin open) ~> (leechers[AddrOf[p]] # p)

Held(id) == \E s \in Slots : requests[s] # NoReq /\ requests[s].id = id

HeldByKnown(id) ==
    \E s \in Slots : /\ requests[s] # NoReq /\ requests[s].id = id
                     /\ leechers[requests[s].addr] # NoPeer

(***************************************************************************)
(* A request in a slot is answered or dropped as long as its address is in *)
(* the map and the torrent is not closed.                                  *)
(***************************************************************************)
KnownAreHandled == \A id \in 1 .. MaxRequests : Held(id) ~> (~HeldByKnown(id) \/ stop)

(***************************************************************************)
(* The comment of Upload.requests: the requests in the slots are the ones  *)
(* that will be handled, for any number of connected leechers.             *)
(***************************************************************************)
HeldAreHandled == \A id \in 1 .. MaxRequests : Held(id) ~> (~Held(id) \/ stop)

=============================================================================
