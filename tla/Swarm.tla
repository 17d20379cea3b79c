------------------------------- MODULE Swarm --------------------------------
(***************************************************************************)
(* Who waits for whom between tinytorrent clients that download from each  *)
(* other.  On a link <<u, d>> the client d downloads from u; what u writes *)
(* to it waits in a bounded socket buffer until d's listener reads it.     *)
(*                                                                         *)
(* d's listener hands every piece to recvPieces over an unbuffered channel *)
(* and reads nothing meanwhile.  recvPieces, when a piece is verified,     *)
(* writes a have to every leecher of d before it takes the next block.     *)
(* The one uploader of a client writes the pieces of all its leechers.     *)
(* So clients that form a ring can all be waiting to write to the next     *)
(* one; the write deadline of every Send method ends that, and may leave   *)
(* part of a message behind.                                               *)
(*                                                                         *)
(* The other direction of a link (requests, haves) is left out: the        *)
(* listener that reads it hands over to handleRequests only, which never   *)
(* writes.                                                                 *)
(***************************************************************************)
EXTENDS Naturals, Sequences

CONSTANTS
    Clients,
    Links,        \* the pairs <<u, d>> where d downloads from u
    Cap,          \* whole messages a socket buffer takes
    Uploader,     \* the writer that is no recvPieces
    None          \* nobody, no link

ASSUME SwarmAssumption ==
    /\ Links \subseteq Clients \X Clients
    /\ Cap \in Nat \ {0}
    /\ Uploader \notin Links /\ None \notin Links \cup {Uploader}

VARIABLES
    buf,      \* what was written to a link and not yet read
    hand,     \* the links whose listener holds a piece for recvPieces
    recv,     \* the recvPieces of each link
    todo,     \* the links it has still to write the have to
    upl,      \* the link each client's uploader writes a piece to
    writer,   \* who has the write lock of the link's socket
    garbled   \* the links whose listener has lost the message boundaries

vars == <<buf, hand, recv, todo, upl, writer, garbled>>

\* Every variable keeps its type; at most part of a message exceeds the buffer.
TypeOK ==
    /\ buf \in [Links -> Seq({"have", "piece", "part"})]
    /\ \A l \in Links : Len(buf[l]) <= Cap + 1
    /\ hand \subseteq Links /\ garbled \subseteq Links
    /\ recv \in [Links -> {"idle", "announce"}]
    /\ todo \in [Links -> SUBSET Links]
    /\ upl \in [Clients -> Links \cup {None}]
    /\ writer \in [Links -> Links \cup {Uploader, None}]

Init ==
    /\ buf = [l \in Links |-> <<>>] /\ hand = {} /\ garbled = {}
    /\ recv = [l \in Links |-> "idle"] /\ todo = [l \in Links |-> {}]
    /\ upl = [c \in Clients |-> None] /\ writer = [l \in Links |-> None]

\* The leechers of the client that downloads on l.
Leechers(l) == {k \in Links : k[1] = l[2]}

-----------------------------------------------------------------------------
(* The downloading end of a link *)

\* The listener reads a message.  After part of one it takes what follows for
\* the rest of it, and from then on drops what it reads.
Listen(l) ==
    /\ buf[l] # <<>> /\ l \notin hand
    /\ buf' = [buf EXCEPT ![l] = Tail(@)]
    /\ garbled' = IF Head(buf[l]) = "part" THEN garbled \cup {l} ELSE garbled
    /\ hand' = IF Head(buf[l]) = "piece" /\ l \notin garbled THEN hand \cup {l} ELSE hand
    /\ UNCHANGED <<recv, todo, upl, writer>>

\* recvPieces takes a block that does not complete its piece ...
TakeBlock(l) ==
    /\ l \in hand /\ recv[l] = "idle"
    /\ hand' = hand \ {l}
    /\ UNCHANGED <<buf, recv, todo, upl, writer, garbled>>

\* ... or one that does: the have goes to every leecher.
TakeLastBlock(l) ==
    /\ l \in hand /\ recv[l] = "idle"
    /\ hand' = hand \ {l}
    /\ todo' = [todo EXCEPT ![l] = Leechers(l)]
    /\ recv' = IF Leechers(l) = {} THEN recv ELSE [recv EXCEPT ![l] = "announce"]
    /\ UNCHANGED <<buf, upl, writer, garbled>>

-----------------------------------------------------------------------------
(* The uploading end *)

\* The uploader loads a request and starts to send the piece.
StartUpload(l) ==
    /\ upl[l[1]] = None
    /\ upl' = [upl EXCEPT ![l[1]] = l]
    /\ UNCHANGED <<buf, hand, recv, todo, writer, garbled>>

\* w has something to write to l, and holds no other lock.
Wants(w, l) == /\ w = Uploader \/ \A k \in Links : writer[k] # w
               /\ IF w = Uploader THEN upl[l[1]] = l
                                  ELSE recv[w] = "announce" /\ l \in todo[w]

TakeLock(w, l) ==
    /\ writer[l] = None /\ Wants(w, l)
    /\ writer' = [writer EXCEPT ![l] = w]
    /\ UNCHANGED <<buf, hand, recv, todo, upl, garbled>>

\* The write of l's writer has returned.
Written(l) ==
    LET w == writer[l] IN
    /\ writer' = [writer EXCEPT ![l] = None]
    /\ IF w = Uploader
       THEN upl' = [upl EXCEPT ![l[1]] = None] /\ UNCHANGED <<recv, todo>>
       ELSE /\ todo' = [todo EXCEPT ![w] = @ \ {l}]
            /\ recv' = IF todo[w] = {l} THEN [recv EXCEPT ![w] = "idle"] ELSE recv
            /\ UNCHANGED upl

\* The socket has room for the message.
Put(l) ==
    /\ writer[l] # None /\ Len(buf[l]) < Cap
    /\ buf' = [buf EXCEPT ![l] = Append(@, IF writer[l] = Uploader THEN "piece" ELSE "have")]
    /\ Written(l)
    /\ UNCHANGED <<hand, garbled>>

\* Seeded fault: the write is tried again for as long as it takes.
TimeOutRetries(l) ==
    writer[l] # None /\ Len(buf[l]) >= Cap /\ UNCHANGED vars

\* 15 s passed: the write fails, after none or some of the message was written.
TimeOut(l) ==
    /\ writer[l] # None /\ Len(buf[l]) >= Cap
    /\ \/ UNCHANGED buf
       \/ Len(buf[l]) = Cap /\ buf' = [buf EXCEPT ![l] = Append(@, "part")]
    /\ Written(l)
    /\ UNCHANGED <<hand, garbled>>

\* A garbled link is given up at the latest when nothing sensible arrived for
\* KeepAliveTimeout: writes to it fail, and d's keeper dials again.
Reconnect(l) ==
    /\ l \in garbled /\ l \notin hand
    /\ garbled' = garbled \ {l}
    /\ buf' = [buf EXCEPT ![l] = <<>>]
    /\ IF writer[l] = None THEN UNCHANGED <<recv, todo, upl, writer>> ELSE Written(l)
    /\ UNCHANGED hand

-----------------------------------------------------------------------------
Writers == Links \cup {Uploader}

Next == \E l \in Links :
            \/ Listen(l) \/ TakeBlock(l) \/ TakeLastBlock(l)
            \/ StartUpload(l) \/ Put(l) \/ TimeOut(l) \/ Reconnect(l)
            \/ \E w \in Writers : TakeLock(w, l)

Spec == Init /\ [][Next]_vars

(***************************************************************************)
(* Listeners and recvPieces run on, a socket with room takes the message,  *)
(* the deadline of a blocked write passes, and the queue of the write lock *)
(* serves everybody.  What is uploaded, and when a garbled link is given   *)
(* up, is left open.                                                       *)
(***************************************************************************)
Fairness == \A l \in Links : /\ WF_vars(Listen(l))
                             /\ WF_vars(TakeBlock(l) \/ TakeLastBlock(l))
                             /\ WF_vars(Put(l)) /\ WF_vars(TimeOut(l))
                             /\ \A w \in Writers : SF_vars(TakeLock(w, l))

FairSpec == Spec /\ Fairness

-----------------------------------------------------------------------------
(***************************************************************************)
(* Nobody is stuck: a recvPieces that announces a piece, holding the lock  *)
(* of that piece, gets back to its channel, and an uploader to its table,  *)
(* also when all clients wait for each other.                              *)
(***************************************************************************)
NobodyStuck ==
    /\ \A l \in Links : recv[l] = "announce" ~> recv[l] = "idle"
    /\ \A c \in Clients : upl[c] # None ~> upl[c] = None
=============================================================================
