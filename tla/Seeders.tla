------------------------------ MODULE Seeders ------------------------------
(***************************************************************************)
(* The seeder side of a torrent's peers: the peers.seeders map, the        *)
(* keepAliveSeeders go-routine that owns the connection to an address, and *)
(* what the connection's listener records of the remote peer.              *)
(*                                                                         *)
(* A connection c is one *peer.Peer object.  Objects are never reused: a   *)
(* keeper that finds its peer killed dials a new one, so the number of     *)
(* connections bounds the number of redials.                               *)
(***************************************************************************)
EXTENDS Torrent

CONSTANTS
    Conns,     \* peer.Peer objects, one per successful dial
    NoConn,    \* the nil *peer.Peer
    Keepers,   \* keepAliveSeeders go-routines
    Addrs,     \* addresses the torrent tracker hands out
    AddrOf     \* the address a keeper was started for

ASSUME SeedersAssumption ==
    /\ NoConn \notin Conns
    /\ AddrOf \in [Keepers -> Addrs]

VARIABLES
    keeper,    \* where each keepAliveSeeders go-routine is
    cur,       \* its variable p, the peer it looks after
    seeders,   \* the map from addresses to peers
    conn,      \* connectionStatus of each peer object
    choked,    \* the peers whose Status.Remote is Choked
    has        \* the Bitfield of each peer

seederVars == <<keeper, cur, seeders, conn, choked, has>>

SeedersTypeOK ==
    /\ keeper  \in [Keepers -> {"none", "wait", "dial", "exited"}]
    /\ cur     \in [Keepers -> Conns \cup {NoConn}]
    /\ seeders \in [Addrs -> Conns \cup {NoConn}]
    /\ conn    \in [Conns -> {"none", "established", "killed"}]
    /\ choked  \in SUBSET Conns
    /\ has     \in [Conns -> SUBSET Pieces]

SeedersInit ==
    /\ keeper  = [k \in Keepers |-> "none"]
    /\ cur     = [k \in Keepers |-> NoConn]
    /\ seeders = [a \in Addrs |-> NoConn]
    /\ conn    = [c \in Conns |-> "none"]
    /\ choked  = Conns
    /\ has     = [c \in Conns |-> {}]

-----------------------------------------------------------------------------
\* Peer.ConnectionStatus: a nil peer counts as killed.
ConnectionStatus(c) == IF c = NoConn THEN "killed" ELSE conn[c]

\* The peers Range visits.
InMap == {seeders[a] : a \in Addrs} \ {NoConn}

\* The scheduler's canRequest: established, not choking us, and has the piece.
CanRequest(c, i) == conn[c] = "established" /\ c \notin choked /\ i \in has[c]

\* The guard of the allocation looks at the map only, whatever the status.
Offered(i) == \E c \in InMap : i \in has[c]

-----------------------------------------------------------------------------
(* keepAliveSeeders *)

(***************************************************************************)
(* UpdateSeeders starts keepers for addresses that are not in the map.     *)
(* The address of a keeper that is dialing is not in the map either, and a *)
(* response may list an address twice.                                     *)
(***************************************************************************)
UpdateSeeders(ks) ==
    /\ \A k \in ks : keeper[k] = "none" /\ seeders[AddrOf[k]] = NoConn
    /\ keeper' = [k \in Keepers |-> IF k \in ks THEN "wait" ELSE keeper[k]]
    /\ UNCHANGED <<cur, seeders, conn, choked, has>>

\* A tick finds the peer killed: close it, drop the address, start to dial.
Redial(k) ==
    /\ keeper[k] = "wait"
    /\ ConnectionStatus(cur[k]) = "killed"
    /\ keeper' = [keeper EXCEPT ![k] = "dial"]
    /\ seeders' = [seeders EXCEPT ![AddrOf[k]] = NoConn]
    /\ UNCHANGED <<cur, conn, choked, has>>

\* The dial or the handshake failed: p is nil until the next tick.
DialFail(k) ==
    /\ keeper[k] = "dial"
    /\ keeper' = [keeper EXCEPT ![k] = "wait"]
    /\ cur' = [cur EXCEPT ![k] = NoConn]
    /\ UNCHANGED <<seeders, conn, choked, has>>

\* NewSeederConnection returned a peer: choked, with an empty bitfield.
DialOk(k, c) ==
    /\ keeper[k] = "dial"
    /\ conn[c] = "none"
    /\ keeper' = [keeper EXCEPT ![k] = "wait"]
    /\ cur' = [cur EXCEPT ![k] = c]
    /\ seeders' = [seeders EXCEPT ![AddrOf[k]] = c]
    /\ conn' = [conn EXCEPT ![c] = "established"]
    /\ UNCHANGED <<choked, has>>

\* A tick finds the peer established but the keep-alive cannot be sent: Close.
KeepAliveFail(k) ==
    /\ keeper[k] = "wait"
    /\ ConnectionStatus(cur[k]) = "established"
    /\ conn' = [conn EXCEPT ![cur[k]] = "killed"]
    /\ UNCHANGED <<keeper, cur, seeders, choked, has>>

\* Seeded fault: the keeper leaves without closing its peer.
KeeperExitNoClose(k) ==
    /\ keeper[k] = "wait"
    /\ keeper' = [keeper EXCEPT ![k] = "exited"]
    /\ UNCHANGED <<cur, seeders, conn, choked, has>>

\* stop, cancel or completed is closed: close the peer and leave.
KeeperExit(k) ==
    /\ keeper[k] = "wait"
    /\ keeper' = [keeper EXCEPT ![k] = "exited"]
    /\ conn' = IF cur[k] = NoConn THEN conn
                                  ELSE [conn EXCEPT ![cur[k]] = "killed"]
    /\ UNCHANGED <<cur, seeders, choked, has>>

-----------------------------------------------------------------------------
(* Peer.listener and Peer.process *)

\* The remote closed the connection, or was silent for KeepAliveTimeout.
ListenerEnd(c) ==
    /\ conn[c] = "established"
    /\ conn' = [conn EXCEPT ![c] = "killed"]
    /\ UNCHANGED <<keeper, cur, seeders, choked, has>>

ProcessChoke(c) ==
    /\ conn[c] = "established"
    /\ choked' = choked \cup {c}
    /\ UNCHANGED <<keeper, cur, seeders, conn, has>>

ProcessUnChoke(c) ==
    /\ conn[c] = "established"
    /\ choked' = choked \ {c}
    /\ UNCHANGED <<keeper, cur, seeders, conn, has>>

\* SetWithCheck refuses an index outside the torrent.
ProcessHave(c, i) ==
    /\ conn[c] = "established"
    /\ has' = [has EXCEPT ![c] = @ \cup {i}]
    /\ UNCHANGED <<keeper, cur, seeders, conn, choked>>

\* Overwrite replaces what earlier Have messages recorded.
ProcessBitfield(c, B) ==
    /\ conn[c] = "established"
    /\ has' = [has EXCEPT ![c] = B]
    /\ UNCHANGED <<keeper, cur, seeders, conn, choked>>

=============================================================================
