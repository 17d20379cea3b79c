-------------------------- MODULE TrackerResponse ---------------------------
(***************************************************************************)
(* tracker.DecodeResponse and the end of CreateRequest, for responses that *)
(* list some peers in the compact or the wide form.  A response is a       *)
(* record of the values of its keys; Absent and Wrong stand for a key that *)
(* is not there and for a value of another bencoding type.  The value of   *)
(* "peers" comes with its type, <<"list", l>> or <<"string", bytes>>, or   *)
(* is <<Absent>> or <<Wrong>>.  "optional" is any key that is only stored  *)
(* (warning message, min interval, complete, incomplete).                  *)
(***************************************************************************)
EXTENDS Naturals, Sequences, Values

CONSTANTS
    Addresses,    \* peers: four bytes of an address and a port
    MaxPeers      \* bound: peers in a response

Port     == {n \in Nat : n < 65536}
Interval == 1800

\* Addresses of IPv4; Absent and Wrong are no values.
ASSUME ResponseAssumption ==
    /\ \A a \in Addresses :
          /\ a = [ip |-> a.ip, port |-> a.port] /\ a # Wrong
          /\ a.ip \in Seq(0 .. 255) /\ Len(a.ip) = 4 /\ a.ip \notin {Absent, Wrong}
          /\ a.port \in Port /\ a.port \notin {Absent, Wrong}
    /\ Wrong \notin {Absent, Interval} /\ {"list", "string"} \cap {Absent, Wrong} = {}

VARIABLE listed   \* the peers a tracker knows

Failed == <<"error">>

-----------------------------------------------------------------------------
(* How a tracker writes peers down *)

Wide(ps) == <<"list", [n \in DOMAIN ps |-> [ip |-> ps[n].ip, port |-> ps[n].port]]>>

\* Six bytes for a peer: four of its address, two of its port.
ByteOf(p, j) == CASE j <= 4 -> p.ip[j]
                  [] j = 5  -> p.port \div 256
                  [] j = 6  -> p.port % 256

Compact(ps) == <<"string", [k \in 1 .. 6 * Len(ps) |->
                    ByteOf(ps[((k - 1) \div 6) + 1], ((k - 1) % 6) + 1)]>>

\* A response with an interval and peers.
Response(peers) == [failure |-> Absent, interval |-> Interval, trackerId |-> Absent,
                    optional |-> Absent, peers |-> peers]

-----------------------------------------------------------------------------
(* DecodeResponse *)

\* Seeded fault: the port is read in the wrong byte order.
PortOfSwapped(b) == b[6] * 256 + b[5]

\* binary.BigEndian.Uint16
PortOf(b) == b[5] * 256 + b[6]

\* Groups of six bytes.
CompactPeers(bytes) ==
    [n \in 1 .. Len(bytes) \div 6 |->
        LET b == SubSeq(bytes, 6 * n - 5, 6 * n) IN [ip |-> SubSeq(b, 1, 4), port |-> PortOf(b)]]

\* Without an address or a port of the right type the response is refused.
WideOk(list) == \A n \in DOMAIN list : /\ list[n] # Wrong
                                       /\ list[n].ip \notin {Absent, Wrong}
                                       /\ list[n].port \notin {Absent, Wrong}

DecodePeers(p) ==
    CASE p[1] = Absent   -> <<"ok", <<>>>>
      [] p[1] = Wrong    -> Failed
      [] p[1] = "list"   -> IF WideOk(p[2]) THEN <<"ok", p[2]>> ELSE Failed
      [] p[1] = "string" -> IF Len(p[2]) % 6 = 0 THEN <<"ok", CompactPeers(p[2])>> ELSE Failed

\* CreateRequest returns an error for a failure reason.
DecodeResponse(r) ==
    LET peers == DecodePeers(r.peers) IN
    IF \/ r.failure # Absent
       \/ Wrong \in {r.interval, r.trackerId, r.optional}
       \/ peers = Failed
    THEN Failed
    ELSE <<"ok", r.interval, r.trackerId, peers[2]>>

-----------------------------------------------------------------------------
ResponseInit == listed = <<>>

\* A tracker gets to know a peer.
Know(a) == Len(listed) < MaxPeers /\ listed' = Append(listed, a)

ResponseNext == \E a \in Addresses : Know(a)

ResponseSpec == ResponseInit /\ [][ResponseNext]_listed

(***************************************************************************)
(* UpdateSeeders is given the peers of the tracker, in order and with      *)
(* their ports, in whichever form they come; a compact list that is cut    *)
(* short within a peer, and a wide list with a peer that lacks its port or *)
(* has an odd one, is refused as a whole.                                  *)
(***************************************************************************)
PeersAsListed ==
    LET c == Compact(listed)[2] IN
    /\ DecodeResponse(Response(Wide(listed))) = <<"ok", Interval, Absent, listed>>
    /\ \A n \in DOMAIN listed, odd \in {Absent, Wrong} :
          LET wide == [Wide(listed) EXCEPT ![2][n].port = odd]
          IN DecodeResponse(Response(wide)) = Failed
    /\ \A n \in 0 .. Len(c) :
          DecodeResponse(Response(<<"string", SubSeq(c, 1, n)>>)) =
              IF n % 6 = 0 THEN <<"ok", Interval, Absent, SubSeq(listed, 1, n \div 6)>> ELSE Failed
=============================================================================
