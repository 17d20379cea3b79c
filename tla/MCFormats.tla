------------------------------ MODULE MCFormats ------------------------------
(***************************************************************************)
(* The formats side by side: the messages on a connection, bencoding, the  *)
(* metainfo dictionary and the tracker's response.  They share no state;   *)
(* once one has moved the others keep still, so that their states add up   *)
(* instead of multiplying.                                                 *)
(***************************************************************************)
EXTENDS Wire, Bencode, Metainfo, TrackerResponse

(* Wire: an index of two bytes, an offset of three; a foreign protocol *)

MCRequests == {[index |-> 258, begin |-> 70000, length |-> RequestSize]}
MCBlocks   == {<<0, 0, 0>>}
MCProtocol == <<66, 84>>
MCHellos   == [pstr : {MCProtocol, <<66, 85>>}, hash : {<<3>>}, id : {<<4>>}]

(* Bencode: openings and ends, whole values, and values that lack bytes *)

MCFragments == {<<"d">>, <<"l">>, <<"e">>, <<"i", "1", "e">>, <<"i", "-", "0", "e">>,
                <<"0", ":">>, <<"1", ":", "x">>, <<"2", ":">>, <<"1", ":", "x", "i", "1", "e">>}

(* Metainfo: every mix of missing, empty and good values, and each *)
(* acceptable document with one value of another type              *)

File(l, p) == [length |-> l, path |-> p]

Fields == [announce : {Absent, "", "text"}, info : {Absent, "dict"}, name : {Absent, "", "text"},
           length : {Absent, 0, 5}, md5sum : {Absent, "text"}, pieces : {Absent, 0, 40, 41},
           files : {Absent, <<>>, <<File(3, "text")>>, <<File(3, "text"), File(0, "text")>>,
                    <<File(3, "")>>}]

Plain == {[k \in TopKeys \cup InfoKeys |->
              CASE k = "pieceLength" -> 2
                [] k = "extra"       -> "text"
                [] k \in DOMAIN f    -> f[k]
                [] OTHER             -> Absent] : f \in Fields}

Good == {d \in Plain : Acceptable(d)}

MCDocuments == Plain \cup {[d EXCEPT ![k] = Wrong] : k \in TopKeys \cup InfoKeys, d \in Good}
                     \cup {[d EXCEPT ![k] = 1] : k \in {"private", "other", "unknown"}, d \in Good}

(* TrackerResponse *)

MCAddresses == {[ip |-> <<10, 0, 0, 1>>, port |-> 6881], [ip |-> <<10, 0, 0, 2>>, port |-> 256],
                [ip |-> <<10, 0, 0, 2>>, port |-> 1]}

-----------------------------------------------------------------------------
Init == WireInit /\ BencodeInit /\ MetainfoInit /\ ResponseInit

Next ==
    \/ /\ BencodeInit /\ MetainfoInit /\ ResponseInit
       /\ WireNext
       /\ UNCHANGED <<bencodeVars, metaVars, listed>>
    \/ /\ WireInit /\ MetainfoInit /\ ResponseInit
       /\ BencodeNext
       /\ UNCHANGED <<wireVars, metaVars, listed>>
    \/ /\ WireInit /\ BencodeInit /\ ResponseInit
       /\ MetainfoNext
       /\ UNCHANGED <<wireVars, bencodeVars, listed>>
    \/ /\ WireInit /\ BencodeInit /\ MetainfoInit
       /\ ResponseNext
       /\ UNCHANGED <<wireVars, bencodeVars, metaVars>>

Spec == Init /\ [][Next]_<<wireVars, bencodeVars, metaVars, listed>>
=============================================================================
