---------------------------- MODULE UploadProofs ----------------------------
(***************************************************************************)
(* The safety of the upload side for every number of slots, leechers,      *)
(* addresses and requests.                                                 *)
(*                                                                         *)
(* A request object has one place at a time: a handler that looks for a    *)
(* slot for it, or a slot; it never returns to a handler that would store  *)
(* it again.  What the processor loaded can therefore be in no other slot  *)
(* than the one it was loaded from, and an answered object is gone or      *)
(* about to be swapped out.                                                *)
(***************************************************************************)
EXTENDS Upload, FiniteSetTheorems, TLAPS

\* The handler of p has an object it has not stored yet.
Fresh(p) == hpc[p] \in {"find", "store"}

\* The processor has loaded a request.
Serving == upc \in {"serve", "clear"}

\* An object that was made: its name is used, and its piece is verified.
Made(o) == o \in Objects /\ o.id < nextId /\ o.hdr.Index \in BitField

\* The slots handlers and processor work on.
CursorInv ==
    /\ \A p \in Peers : hpc[p] \in {"store", "clear"} => hslot[p] \in Slots
    /\ Serving => uslot \in Slots

\* What handlers hold, slots hold, the processor has loaded or has answered.
ObjectInv ==
    /\ \A p \in Peers : Fresh(p) =>
          /\ Made(hobj[p]) /\ hobj[p] \notin sent
          /\ \A s \in Slots : requests[s] # hobj[p]
          /\ Serving => ureq # hobj[p]
    /\ \A p, q \in Peers : Fresh(p) /\ Fresh(q) /\ hobj[p] = hobj[q] => p = q
    /\ \A s \in Slots : requests[s] # NoReq => Made(requests[s])
    /\ \A s, t \in Slots : requests[s] # NoReq /\ requests[s] = requests[t] => s = t
    /\ Serving => /\ Made(ureq)
                  /\ \A t \in Slots : requests[t] = ureq => t = uslot
    /\ upc = "serve" => ureq \notin sent
    /\ \A r \in sent : Made(r)
    /\ \A s \in Slots : requests[s] \in sent => upc = "clear" /\ requests[s] = ureq

\* A bit is set only for a complete file.
DiskInv == \A i \in BitField : file[i] = "good"

\* What is announced, and that it is a number.
CountInv == IsFiniteSet(AnsweredBytes) /\ UploadedExact

\* Connections and the map.
ListInv ==
    /\ \A p \in open : kpc[p] \in {"new", "adding", "run"}
    /\ \A p \in Peers : kpc[p] \in {"adding", "run"} =>
          \/ leechers[AddrOf[p]] = p
          \/ \E q \in Peers \ {p} : AddrOf[q] = AddrOf[p] /\ kpc[q] # "none"

IInv == TypeOK /\ CursorInv /\ ObjectInv /\ DiskInv /\ CountInv /\ ListInv

-----------------------------------------------------------------------------
(***************************************************************************)
(* A handler that goes on at a slot, or is back in its select, keeps the   *)
(* types of its program counter and of its slot.                           *)
(***************************************************************************)
LEMMA HandlerMoves ==
    ASSUME TypeOK, CursorInv, NEW p \in Peers,
           \/ Idle(p)
           \/ \E s \in Slots : GoOn(p, "store", s) \/ GoOn(p, "clear", s)
           \/ \E s \in 1 .. NumSlots + 1 : GoOn(p, "find", s) \/ GoOn(p, "cancel", s)
    PROVE  /\ hpc' \in [Peers -> {"none", "idle", "find", "store", "cancel", "clear", "exited"}]
           /\ hslot' \in [Peers -> 1 .. NumSlots + 1]
           /\ \A q \in Peers : hpc'[q] \in {"store", "clear"} => hslot'[q] \in Slots
<1>0. /\ hpc \in [Peers -> {"none", "idle", "find", "store", "cancel", "clear", "exited"}]
      /\ hslot \in [Peers -> 1 .. NumSlots + 1]
      /\ \A q \in Peers : hpc[q] \in {"store", "clear"} => hslot[q] \in Slots
      /\ NumSlots \in Nat \ {0}
  BY UploadAssumption DEF TypeOK, CursorInv
<1>1. CASE Idle(p)
  BY <1>0, <1>1 DEF Idle, Slots
<1>2. ASSUME NEW s \in Slots, GoOn(p, "store", s) \/ GoOn(p, "clear", s)
      PROVE  /\ hpc' \in [Peers -> {"none", "idle", "find", "store", "cancel", "clear", "exited"}]
             /\ hslot' \in [Peers -> 1 .. NumSlots + 1]
             /\ \A q \in Peers : hpc'[q] \in {"store", "clear"} => hslot'[q] \in Slots
  BY <1>0, <1>2 DEF GoOn, Slots
<1>3. ASSUME NEW s \in 1 .. NumSlots + 1, GoOn(p, "find", s) \/ GoOn(p, "cancel", s)
      PROVE  /\ hpc' \in [Peers -> {"none", "idle", "find", "store", "cancel", "clear", "exited"}]
             /\ hslot' \in [Peers -> 1 .. NumSlots + 1]
             /\ \A q \in Peers : hpc'[q] \in {"store", "clear"} => hslot'[q] \in Slots
  BY <1>0, <1>3 DEF GoOn
<1> QED BY <1>1, <1>2, <1>3

(***************************************************************************)
(* The types.  A slot index stays in range because a handler or the        *)
(* processor moves on only from a slot it has looked at.                   *)
(***************************************************************************)
LEMMA TypeStep ==
    ASSUME IInv, Next
    PROVE  TypeOK' /\ CursorInv'
<1>0. /\ TypeOK /\ CursorInv /\ NumSlots \in Nat \ {0} /\ MaxRequests \in Nat
      /\ AddrOf \in [Peers -> Addrs]
      /\ Asks \subseteq [Index : Pieces, Begin : Nat, Length : 0 .. RequestSize]
      /\ RequestSize \in Nat
  BY UploadAssumption, GeometryAssumption DEF IInv
<1> USE <1>0 DEF TypeOK, CursorInv, Serving, Slots
<1>1. ASSUME NEW p \in Peers, AcceptStep(p)
      PROVE  TypeOK' /\ CursorInv'
  <2>1. CASE NewLeecherConnection(p)
    BY <2>1 DEF NewLeecherConnection, handVars, procVars, diskVars
  <2>2. CASE AddLeecher(p)
    BY <2>2 DEF AddLeecher, handVars, procVars, diskVars
  <2>3. CASE AddLeecherOk(p)
    BY <2>3 DEF AddLeecherOk, procVars, diskVars
  <2>4. CASE AddLeecherFail(p)
    BY <2>4 DEF AddLeecherFail, handVars, procVars, diskVars
  <2> QED BY <1>1, <2>1, <2>2, <2>3, <2>4 DEF AcceptStep
<1>2. ASSUME NEW p \in Peers, ListenerEnd(p) \/ Unchoke(p) \/ KeeperLeaves(p) \/ KeeperDelete(p)
      PROVE  TypeOK' /\ CursorInv'
  BY <1>2 DEF ListenerEnd, Unchoke, KeeperLeaves, Closed, KeeperDelete, handVars, procVars,
     diskVars
<1>3. ASSUME NEW p \in Peers, NEW yes \in BOOLEAN, ProcessInterest(p, yes)
      PROVE  TypeOK' /\ CursorInv'
  BY <1>3 DEF ProcessInterest, handVars, procVars, diskVars
<1>4. ASSUME NEW p \in Peers, NEW h \in Asks, Request(p, h) \/ CancelRequest(p, h)
      PROVE  TypeOK' /\ CursorInv'
  <2>1. CASE Request(p, h)
    <3>1. [id |-> nextId, hdr |-> h, addr |-> AddrOf[p]] \in Objects
      BY <2>1 DEF Request, Objects
    <3> QED BY <2>1, <3>1 DEF Request, GoOn, peerVars, procVars, diskVars
  <2>2. CASE CancelRequest(p, h)
    BY <2>2 DEF CancelRequest, GoOn, peerVars, procVars, diskVars
  <2> QED BY <1>4, <2>1, <2>2
<1>5. ASSUME NEW p \in Peers, HandlerStep(p)
      PROVE  TypeOK' /\ CursorInv'
  <2>1. CASE HandlerExit(p)
    BY <2>1 DEF HandlerExit, peerVars, procVars, diskVars
  <2>2. ASSUME \/ Idle(p)
               \/ \E s \in Slots : GoOn(p, "store", s) \/ GoOn(p, "clear", s)
               \/ \E s \in 1 .. NumSlots + 1 : GoOn(p, "find", s) \/ GoOn(p, "cancel", s),
               hask' \in [Peers -> Asks \cup {NoReq}],
               hobj' \in [Peers -> Objects \cup {NoReq}],
               requests' \in [Slots -> Objects \cup {NoReq}],
               UNCHANGED <<peerVars, procVars, diskVars, unchoker, stop, nextId>>
        PROVE  TypeOK' /\ CursorInv'
    <3>1. /\ hpc' \in [Peers -> {"none", "idle", "find", "store", "cancel", "clear", "exited"}]
          /\ hslot' \in [Peers -> 1 .. NumSlots + 1]
          /\ \A q \in Peers : hpc'[q] \in {"store", "clear"} => hslot'[q] \in Slots
      BY <2>2, HandlerMoves, <1>0
    <3> QED BY <2>2, <3>1 DEF peerVars, procVars, diskVars
  <2> HIDE DEF TypeOK, CursorInv, Serving
  <2>3. /\ hslot \in [Peers -> 1 .. NumSlots + 1] /\ hask \in [Peers -> Asks \cup {NoReq}]
        /\ hobj \in [Peers -> Objects \cup {NoReq}]
        /\ requests \in [Slots -> Objects \cup {NoReq}]
        /\ hpc[p] \in {"store", "clear"} => hslot[p] \in Slots
    BY <1>0 DEF TypeOK, CursorInv
  <2>4. CASE Find(p)
    <3>1. GoOn(p, "store", hslot[p]) \/ GoOn(p, "find", hslot[p] + 1)
      BY <2>4 DEF Find
    <3> QED BY <1>0, <2>2, <2>3, <2>4, <3>1 DEF Find
  <2>5. CASE FindNone(p)
    BY <2>2, <2>3, <2>5 DEF FindNone, Idle
  <2>6. CASE Store(p)
    <3>1. Idle(p) \/ (GoOn(p, "find", 1) /\ UNCHANGED <<hask, hobj>>)
      BY <2>6 DEF Store
    <3>2. requests' \in [Slots -> Objects \cup {NoReq}]
      BY <2>3, <2>6 DEF Store, Swapped
    <3>3. hask' \in [Peers -> Asks \cup {NoReq}] /\ hobj' \in [Peers -> Objects \cup {NoReq}]
      BY <2>3, <3>1 DEF Idle
    <3> QED BY <1>0, <2>2, <2>6, <3>1, <3>2, <3>3 DEF Store
  <2>7. CASE CancelLook(p)
    <3>1. hslot[p] \in Slots /\ requests[hslot[p]] \in Objects \cup {NoReq}
      BY <1>0, <2>3, <2>7 DEF CancelLook
    <3>2. \/ hobj' = [hobj EXCEPT ![p] = requests[hslot[p]]] /\ GoOn(p, "clear", hslot[p])
          \/ GoOn(p, "cancel", hslot[p] + 1) /\ UNCHANGED hobj
      BY <2>7 DEF CancelLook
    <3>3. hobj' \in [Peers -> Objects \cup {NoReq}]
      BY <2>3, <3>1, <3>2
    <3> QED BY <1>0, <2>2, <2>3, <2>7, <3>1, <3>2, <3>3 DEF CancelLook
  <2>8. CASE CancelClear(p)
    <3>1. requests' \in [Slots -> Objects \cup {NoReq}]
      BY <2>3, <2>8 DEF CancelClear, Swapped
    <3> QED BY <1>0, <2>2, <2>3, <2>8, <3>1 DEF CancelClear
  <2>9. CASE CancelDone(p)
    BY <2>2, <2>3, <2>9 DEF CancelDone, Idle
  <2> QED BY <1>5, <2>1, <2>4, <2>5, <2>6, <2>7, <2>8, <2>9 DEF HandlerStep
<1>6. CASE ProcessorStep
  <2>1. CASE ScanSlot
    BY <2>1 DEF ScanSlot, NextSlot, peerVars, handVars, diskVars
  <2>2. CASE ServeNobody
    BY <2>2 DEF ServeNobody, NextSlot, peerVars, handVars, diskVars
  <2>3. CASE ServeFail
    <3>1. requests' \in [Slots -> Objects \cup {NoReq}]
      BY <2>3 DEF ServeFail, Swapped
    <3> QED BY <2>3, <3>1 DEF ServeFail, NextSlot, peerVars, handVars, diskVars
  <2>4. CASE ServeSend
    BY <2>4 DEF ServeSend, peerVars, handVars, diskVars, IInv, ObjectInv, Made
  <2>5. CASE ServeClear
    <3>1. ureq.hdr.Length \in Nat
      BY <2>5 DEF ServeClear, IInv, ObjectInv, Made, Objects
    <3>2. requests' \in [Slots -> Objects \cup {NoReq}]
      BY <2>5 DEF ServeClear, Served, Swapped
    <3> QED BY <2>5, <3>1, <3>2 DEF ServeClear, NextSlot, peerVars, handVars, diskVars
  <2>6. CASE PassEnds
    BY <2>6 DEF PassEnds, peerVars, handVars, diskVars
  <2> QED BY <1>6, <2>1, <2>2, <2>3, <2>4, <2>5, <2>6 DEF ProcessorStep
<1>7. ASSUME NEW i \in Pieces, FlushBegins(i) \/ FlushEnds(i)
      PROVE  TypeOK' /\ CursorInv'
  BY <1>7 DEF FlushBegins, FlushEnds, peerVars, handVars, procVars
<1>8. CASE UnchokerStop \/ Stop
  BY <1>8 DEF UnchokerStop, Stop, peerVars, handVars, procVars, diskVars
<1> QED BY <1>1, <1>2, <1>3, <1>4, <1>5, <1>6, <1>7, <1>8 DEF Next, RemoteStep

-----------------------------------------------------------------------------
(***************************************************************************)
(* A compare-and-swap with nil only ever empties the slot.                 *)
(***************************************************************************)
LEMMA SwapEmpties ==
    ASSUME TypeOK, NEW t \in Slots, NEW o, requests' = Swapped(t, o, NoReq)
    PROVE  \A s \in Slots : requests'[s] \in {requests[s], NoReq}
BY DEF TypeOK, Swapped

(***************************************************************************)
(* Steps that make no object, load none and answer none.                   *)
(***************************************************************************)
LEMMA ObjectFrame ==
    ASSUME TypeOK, ObjectInv,
           \A p \in Peers : Fresh(p)' => Fresh(p) /\ hobj'[p] = hobj[p],
           \A s \in Slots : requests'[s] \in {requests[s], NoReq},
           UNCHANGED <<upc, uslot, ureq, sent, nextId>>, BitField \subseteq BitField'
    PROVE  ObjectInv'
<1>1. \A o : Made(o) => Made(o)'
  BY DEF Made
<1>2. NoReq \notin sent /\ \A o : Made(o) => o # NoReq
  BY UploadAssumption DEF TypeOK, Made
<1> QED BY <1>1, <1>2 DEF ObjectInv, Serving

(***************************************************************************)
(* The processor goes on to another slot, and no answered object is left.  *)
(***************************************************************************)
LEMMA ObjectNextSlot ==
    ASSUME TypeOK, ObjectInv, upc' \in {"scan", "exited"},
           \A s \in Slots : requests'[s] \in {requests[s], NoReq},
           \A s \in Slots : requests'[s] \notin sent,
           UNCHANGED <<hpc, hobj, sent, nextId, BitField>>
    PROVE  ObjectInv'
<1>1. \A o : Made(o) => Made(o)'
  BY DEF Made
<1>2. \A o : Made(o) => o # NoReq
  BY UploadAssumption DEF Made
<1> QED BY <1>1, <1>2 DEF ObjectInv, Serving, Fresh

(***************************************************************************)
(* One place per object: the steps of the handlers.                        *)
(***************************************************************************)
LEMMA ObjectHandler ==
    ASSUME IInv, NEW p \in Peers, HandlerStep(p)
    PROVE  ObjectInv'
<1>0. /\ TypeOK /\ ObjectInv
      /\ hpc[p] \in {"store", "clear"} => hslot[p] \in Slots
      /\ hpc \in [Peers -> {"none", "idle", "find", "store", "cancel", "clear", "exited"}]
      /\ hobj \in [Peers -> Objects \cup {NoReq}]
      /\ requests \in [Slots -> Objects \cup {NoReq}]
  BY DEF IInv, CursorInv, TypeOK
<1>1. UNCHANGED <<upc, uslot, ureq, sent, nextId, BitField>>
  BY DEF HandlerStep, Find, FindNone, Store, CancelLook, CancelClear, CancelDone, HandlerExit,
     procVars, diskVars
<1>2. CASE Find(p)
  <2>1. GoOn(p, "store", hslot[p]) \/ GoOn(p, "find", hslot[p] + 1)
    BY <1>2 DEF Find
  <2>2. Fresh(p) /\ UNCHANGED <<hobj, requests>>
    BY <1>2 DEF Find, Fresh
  <2>3. \A q \in Peers : Fresh(q)' => Fresh(q) /\ hobj'[q] = hobj[q]
    BY <1>0, <2>1, <2>2 DEF GoOn, Fresh
  <2> QED BY <1>0, <1>1, <2>2, <2>3, ObjectFrame
<1>3. CASE FindNone(p) \/ CancelDone(p)
  <2>1. Idle(p) /\ UNCHANGED requests
    BY <1>3 DEF FindNone, CancelDone
  <2>2. \A q \in Peers : Fresh(q)' => Fresh(q) /\ hobj'[q] = hobj[q]
    BY <1>0, <2>1 DEF Idle, Fresh
  <2> QED BY <1>0, <1>1, <2>1, <2>2, ObjectFrame
<1>4. CASE Store(p)
  <2>1. hslot[p] \in Slots /\ Fresh(p)
    BY <1>0, <1>4 DEF Store, Fresh
  <2>2. CASE requests[hslot[p]] # NoReq
    <3>1. GoOn(p, "find", 1) /\ UNCHANGED hobj
      BY <1>4, <2>2 DEF Store
    <3>2. requests' = requests
      BY <1>4, <2>2 DEF Store, Swapped
    <3>3. \A q \in Peers : Fresh(q)' => Fresh(q) /\ hobj'[q] = hobj[q]
      BY <1>0, <2>1, <3>1 DEF GoOn, Fresh
    <3> QED BY <1>0, <1>1, <3>2, <3>3, ObjectFrame
  <2>3. CASE requests[hslot[p]] = NoReq
    <3>1. /\ hpc' = [hpc EXCEPT ![p] = "idle"] /\ hobj' = [hobj EXCEPT ![p] = NoReq]
      BY <1>4, <2>3 DEF Store, Idle
    <3>2. requests' = [requests EXCEPT ![hslot[p]] = hobj[p]]
      BY <1>4, <2>3 DEF Store, Swapped
    <3>3. \A q \in Peers : Fresh(q)' => q # p /\ Fresh(q) /\ hobj'[q] = hobj[q]
      BY <1>0, <3>1 DEF Fresh
    <3>4. \A s \in Slots : requests'[s] = IF s = hslot[p] THEN hobj[p] ELSE requests[s]
      BY <1>0, <3>2
    <3>5. Serving' = Serving /\ \A o : Made(o)' <=> Made(o)
      BY <1>1 DEF Made, Serving
    <3> HIDE <3>1, <3>2
    <3> QED BY <1>0, <1>1, <2>1, <3>3, <3>4, <3>5 DEF ObjectInv
  <2> QED BY <2>2, <2>3
<1>5. CASE CancelLook(p)
  <2>1. \/ hobj' = [hobj EXCEPT ![p] = requests[hslot[p]]] /\ GoOn(p, "clear", hslot[p])
        \/ GoOn(p, "cancel", hslot[p] + 1) /\ UNCHANGED hobj
    BY <1>5 DEF CancelLook
  <2>2. \A q \in Peers : Fresh(q)' => Fresh(q) /\ hobj'[q] = hobj[q]
    BY <1>0, <2>1 DEF GoOn, Fresh
  <2>3. UNCHANGED requests
    BY <1>5 DEF CancelLook
  <2> QED BY <1>0, <1>1, <2>2, <2>3, ObjectFrame
<1>6. CASE CancelClear(p)
  <2>1. hslot[p] \in Slots
    BY <1>0, <1>6 DEF CancelClear
  <2>2. \A s \in Slots : requests'[s] \in {requests[s], NoReq}
    BY <1>0, <1>6, <2>1, SwapEmpties DEF CancelClear
  <2>3. \A q \in Peers : Fresh(q)' => Fresh(q) /\ hobj'[q] = hobj[q]
    BY <1>0, <1>6 DEF CancelClear, GoOn, Fresh
  <2> QED BY <1>0, <1>1, <2>2, <2>3, ObjectFrame
<1>7. CASE HandlerExit(p)
  <2>1. \A q \in Peers : Fresh(q)' => Fresh(q) /\ hobj'[q] = hobj[q]
    BY <1>0, <1>7 DEF HandlerExit, Fresh
  <2> QED BY <1>0, <1>1, <1>7, <2>1, ObjectFrame DEF HandlerExit
<1> QED BY <1>2, <1>3, <1>4, <1>5, <1>6, <1>7 DEF HandlerStep

(***************************************************************************)
(* One place per object: the steps of the processor.                       *)
(***************************************************************************)
LEMMA ObjectProcessor ==
    ASSUME IInv, ProcessorStep
    PROVE  ObjectInv'
<1>0. /\ TypeOK /\ ObjectInv /\ (Serving => uslot \in Slots)
      /\ requests \in [Slots -> Objects \cup {NoReq}] /\ NoReq \notin Objects
      /\ sent \in SUBSET Objects
  BY UploadAssumption DEF IInv, CursorInv, TypeOK
<1>1. UNCHANGED <<hpc, hobj, nextId, BitField>>
  BY DEF ProcessorStep, ScanSlot, ServeNobody, ServeFail, ServeSend, ServeClear, PassEnds,
     handVars, diskVars
<1>2. \A o : Made(o)' <=> Made(o)
  BY <1>1 DEF Made
<1>3. CASE ScanSlot
  <2>1. upc = "scan" /\ UNCHANGED <<requests, sent>>
    BY <1>3 DEF ScanSlot
  <2>2. \A s \in Slots : requests[s] \notin sent
    BY <1>0, <2>1 DEF ObjectInv
  <2>3. CASE upc' = "scan"
    BY <1>0, <1>1, <2>1, <2>2, <2>3, ObjectNextSlot
  <2>4. CASE upc' # "scan"
    <3>1. /\ uslot \in Slots /\ requests[uslot] # NoReq
          /\ upc' = "serve" /\ ureq' = requests[uslot] /\ uslot' = uslot
      BY <1>0, <1>3, <2>4 DEF ScanSlot, NextSlot, TypeOK, Slots
    <3> QED BY <1>0, <1>1, <1>2, <2>1, <2>2, <3>1 DEF ObjectInv, Serving, Fresh
  <2> QED BY <2>3, <2>4
<1>4. CASE ServeNobody
  <2>1. \A s \in Slots : requests[s] \notin sent
    BY <1>0, <1>4 DEF ServeNobody, ObjectInv
  <2> QED BY <1>0, <1>1, <1>4, <2>1, ObjectNextSlot DEF ServeNobody, NextSlot
<1>5. CASE ServeFail
  <2>1. \A s \in Slots : requests[s] \notin sent
    BY <1>0, <1>5 DEF ServeFail, ObjectInv
  <2>2. \A s \in Slots : requests'[s] \in {requests[s], NoReq}
    BY <1>0, <1>5, SwapEmpties DEF ServeFail, Serving
  <2>3. \A s \in Slots : requests'[s] \notin sent
    BY <1>0, <2>1, <2>2
  <2> QED BY <1>0, <1>1, <1>5, <2>2, <2>3, ObjectNextSlot DEF ServeFail, NextSlot
<1>6. CASE ServeSend
  <2>1. /\ upc = "serve" /\ upc' = "clear" /\ sent' = sent \cup {ureq}
        /\ UNCHANGED <<uslot, ureq, requests>>
    BY <1>6 DEF ServeSend
  <2> QED BY <1>0, <1>1, <1>2, <2>1 DEF ObjectInv, Serving, Fresh
<1>7. CASE ServeClear
  <2>1. upc = "clear" /\ requests' = Swapped(uslot, ureq, NoReq) /\ UNCHANGED sent /\ upc' = "scan"
    BY <1>7 DEF ServeClear, Served, NextSlot
  <2>2. \A s \in Slots : requests'[s] \in {requests[s], NoReq}
    BY <1>0, <2>1, SwapEmpties DEF Serving
  <2>3. ASSUME NEW s \in Slots, requests'[s] \in sent
        PROVE  FALSE
    <3>1. requests'[s] = requests[s]
      BY <1>0, <2>2, <2>3
    <3>2. requests[s] = ureq /\ s = uslot
      BY <1>0, <2>1, <2>3, <3>1 DEF ObjectInv, Serving
    <3> QED BY <1>0, <2>1, <2>3, <3>1, <3>2 DEF Swapped, Serving
  <2> QED BY <1>0, <1>1, <2>1, <2>2, <2>3, ObjectNextSlot
<1>8. CASE PassEnds
  <2>1. \A s \in Slots : requests[s] \notin sent
    BY <1>0, <1>8 DEF PassEnds, ObjectInv
  <2> QED BY <1>0, <1>1, <1>8, <2>1, ObjectNextSlot DEF PassEnds
<1> QED BY <1>3, <1>4, <1>5, <1>6, <1>7, <1>8 DEF ProcessorStep

(***************************************************************************)
(* One place per object: a request object is new when it is made.          *)
(***************************************************************************)
LEMMA ObjectStep ==
    ASSUME IInv, Next
    PROVE  ObjectInv'
<1>0. /\ TypeOK /\ ObjectInv
      /\ hpc \in [Peers -> {"none", "idle", "find", "store", "cancel", "clear", "exited"}]
      /\ hobj \in [Peers -> Objects \cup {NoReq}]
      /\ requests \in [Slots -> Objects \cup {NoReq}]
      /\ sent \in SUBSET Objects /\ nextId \in Nat /\ nextId >= 1 /\ NoReq \notin Objects
  BY UploadAssumption DEF IInv, TypeOK
<1>1. ASSUME UNCHANGED <<hpc, hobj, requests, upc, uslot, ureq, sent, nextId>>,
             BitField \subseteq BitField'
      PROVE  ObjectInv'
  BY <1>0, <1>1, ObjectFrame DEF Fresh
<1>2. ASSUME NEW p \in Peers, AddLeecherOk(p)
      PROVE  ObjectInv'
  <2>1. \A q \in Peers : Fresh(q)' => Fresh(q) /\ hobj'[q] = hobj[q]
    BY <1>0, <1>2 DEF AddLeecherOk, Fresh
  <2> QED BY <1>0, <1>2, <2>1, ObjectFrame DEF AddLeecherOk, procVars, diskVars
<1>3. ASSUME NEW p \in Peers, NEW h \in Asks, CancelRequest(p, h)
      PROVE  ObjectInv'
  <2>1. \A q \in Peers : Fresh(q)' => Fresh(q) /\ hobj'[q] = hobj[q]
    BY <1>0, <1>3 DEF CancelRequest, GoOn, Fresh
  <2> QED BY <1>0, <1>3, <2>1, ObjectFrame DEF CancelRequest, procVars, diskVars
<1>4. ASSUME NEW p \in Peers, NEW h \in Asks, Request(p, h)
      PROVE  ObjectInv'
  <2>0. PICK o : o = [id |-> nextId, hdr |-> h, addr |-> AddrOf[p]]
    OBVIOUS
  <2>1. /\ hpc' = [hpc EXCEPT ![p] = "find"] /\ hobj' = [hobj EXCEPT ![p] = o]
        /\ nextId' = nextId + 1 /\ h.Index \in BitField /\ nextId <= MaxRequests
        /\ UNCHANGED <<requests, upc, uslot, ureq, sent, BitField>>
    BY <1>4, <2>0 DEF Request, HavePiece, GoOn, procVars, diskVars
  <2>2. o \in Objects
    <3>1. AddrOf[p] \in Addrs /\ MaxRequests \in Nat
      BY UploadAssumption
    <3>2. nextId \in 1 .. MaxRequests
      BY <1>0, <2>1, <3>1
    <3> QED BY <2>0, <3>1, <3>2 DEF Objects
  <2>3. Made(o)' /\ ~Made(o)
    <3>1. o.id = nextId /\ o.hdr = h
      BY <2>0
    <3> HIDE <2>0
    <3> QED BY <1>0, <2>1, <2>2, <3>1 DEF Made
  <2>4. \A q : Made(q) => Made(q)'
    <3>1. \A q \in Objects : q.id \in Nat
      BY UploadAssumption DEF Objects
    <3> QED BY <1>0, <2>1, <3>1 DEF Made
  <2> HIDE <2>0
  <2>5. /\ \A q \in Peers : Fresh(q)' => q = p \/ Fresh(q)
        /\ \A q \in Peers : hobj'[q] = IF q = p THEN o ELSE hobj[q]
    BY <1>0, <2>1 DEF Fresh
  <2>6. /\ \A s \in Slots : requests[s] # o
        /\ o \notin sent /\ (Serving => ureq # o)
        /\ \A q \in Peers : Fresh(q) => hobj[q] # o
    BY <1>0, <2>2, <2>3 DEF ObjectInv
  <2>7. Serving' = Serving
    BY <2>1 DEF Serving
  <2> QED BY <1>0, <2>1, <2>3, <2>4, <2>5, <2>6, <2>7 DEF ObjectInv
<1>5. ASSUME NEW p \in Peers, AcceptStep(p) \/ RemoteStep(p) \/ Unchoke(p) \/ KeeperLeaves(p)
                              \/ KeeperDelete(p)
      PROVE  ObjectInv'
  BY <1>1, <1>2, <1>3, <1>4, <1>5
     DEF AcceptStep, RemoteStep, NewLeecherConnection, AddLeecher, AddLeecherFail, ListenerEnd,
         ProcessInterest, Unchoke, KeeperLeaves, KeeperDelete, handVars, procVars, diskVars
<1>6. CASE UnchokerStop \/ Stop \/ \E i \in Pieces : FlushBegins(i) \/ FlushEnds(i)
  BY <1>1, <1>6 DEF UnchokerStop, Stop, FlushBegins, FlushEnds, handVars, procVars, diskVars
<1> QED BY <1>5, <1>6, ObjectHandler, ObjectProcessor DEF Next

-----------------------------------------------------------------------------
(***************************************************************************)
(* A set of finitely many bytes, and one more answered request.            *)
(***************************************************************************)
LEMMA OneMoreAnswer ==
    ASSUME NEW S, NEW r, r \notin S, r.hdr.Length \in Nat,
           NEW B, B = UNION {{q} \X (1 .. q.hdr.Length) : q \in S}, IsFiniteSet(B),
           NEW C, C = UNION {{q} \X (1 .. q.hdr.Length) : q \in S \cup {r}}
    PROVE  IsFiniteSet(C) /\ Cardinality(C) = Cardinality(B) + r.hdr.Length
<1>0. PICK n \in Nat : n = r.hdr.Length
  OBVIOUS
<1>1. PICK A : A = {r} \X (1 .. n)
  OBVIOUS
<1>2. C = B \cup A /\ B \cap A = {}
  BY <1>0, <1>1
<1>3. IsFiniteSet(A) /\ Cardinality(A) = n
  <2>1. IsFiniteSet({r}) /\ Cardinality({r}) = 1
    BY FS_Singleton
  <2>2. IsFiniteSet(1 .. n) /\ Cardinality(1 .. n) = n
    BY FS_Interval
  <2>3. Cardinality({r} \X (1 .. n)) = Cardinality({r}) * Cardinality(1 .. n)
    BY <2>1, <2>2, FS_Product
  <2>4. IsFiniteSet({r} \X (1 .. n))
    BY <2>1, <2>2, FS_Product
  <2>5. Cardinality({r} \X (1 .. n)) = n
    BY <2>1, <2>2, <2>3
  <2> QED BY <1>1, <2>4, <2>5
<1>4. Cardinality({}) = 0 /\ Cardinality(B) \in Nat
  BY FS_EmptySet, FS_CardinalityType
<1>5. /\ IsFiniteSet(B \cup A)
      /\ Cardinality(B \cup A) = Cardinality(B) + Cardinality(A) - Cardinality(B \cap A)
  BY <1>3, FS_Union
<1>6. Cardinality(C) = Cardinality(B) + n - 0
  BY <1>2, <1>3, <1>4, <1>5
<1>7. IsFiniteSet(C)
  BY <1>2, <1>5
<1>8. Cardinality(C) = Cardinality(B) + n
  BY <1>4, <1>6
<1> QED BY <1>0, <1>7, <1>8

(***************************************************************************)
(* The count of uploaded bytes: a request is answered once, because an     *)
(* answered one is never loaded again.                                     *)
(***************************************************************************)
LEMMA CountStep ==
    ASSUME IInv, Next
    PROVE  CountInv'
<1>0. /\ CountInv /\ Uploaded \in Nat /\ (Serving => ureq.hdr.Length \in Nat)
      /\ (upc = "serve" => ureq \notin sent)
  <2>1. \A o \in Objects : o.hdr.Length \in Nat
    BY UploadAssumption, GeometryAssumption DEF Objects
  <2> QED BY <2>1 DEF IInv, TypeOK, ObjectInv, Made
<1>1. ASSUME sent' = sent, Uploaded' = Uploaded, upc # "clear", upc' # "clear"
      PROVE  CountInv'
  BY <1>0, <1>1 DEF CountInv, UploadedExact, AnsweredBytes
<1>2. ASSUME UNCHANGED procVars
      PROVE  CountInv'
  BY <1>0, <1>2 DEF CountInv, UploadedExact, AnsweredBytes, procVars
<1>3. CASE ServeSend
  <2>1. /\ upc = "serve" /\ upc' = "clear" /\ sent' = sent \cup {ureq}
        /\ UNCHANGED <<ureq, Uploaded>>
    BY <1>3 DEF ServeSend
  <2>2. /\ IsFiniteSet(AnsweredBytes')
        /\ Cardinality(AnsweredBytes') = Cardinality(AnsweredBytes) + ureq.hdr.Length
    BY <1>0, <2>1, OneMoreAnswer DEF CountInv, AnsweredBytes, Serving
  <2> QED BY <1>0, <2>1, <2>2 DEF CountInv, UploadedExact
<1>4. CASE ServeClear
  <2>1. /\ upc = "clear" /\ upc' = "scan" /\ Uploaded' = Uploaded + ureq.hdr.Length
        /\ sent' = sent
    BY <1>4 DEF ServeClear, NextSlot
  <2>2. AnsweredBytes' = AnsweredBytes
    BY <2>1 DEF AnsweredBytes
  <2> QED BY <1>0, <2>1, <2>2 DEF CountInv, UploadedExact
<1>5. CASE ScanSlot
  BY <1>1, <1>5 DEF ScanSlot, NextSlot
<1>6. CASE ServeNobody \/ ServeFail
  BY <1>1, <1>6 DEF ServeNobody, ServeFail, NextSlot
<1>7. CASE PassEnds
  BY <1>1, <1>7 DEF PassEnds
<1>8. CASE ~ProcessorStep
  <2>1. UNCHANGED procVars
    BY <1>8 DEF Next, UnchokerStop, Stop, FlushBegins, FlushEnds, AcceptStep, RemoteStep,
       HandlerStep, Unchoke, KeeperLeaves, KeeperDelete, NewLeecherConnection, AddLeecher,
       AddLeecherOk, AddLeecherFail, ListenerEnd, ProcessInterest, Request, CancelRequest, Find,
       FindNone, Store, CancelLook, CancelClear, CancelDone, HandlerExit
  <2> QED BY <1>2, <2>1
<1> QED BY <1>3, <1>4, <1>5, <1>6, <1>7, <1>8 DEF ProcessorStep

(***************************************************************************)
(* A flush touches only files of pieces that are not announced.            *)
(***************************************************************************)
LEMMA DiskStep ==
    ASSUME IInv, Next
    PROVE  DiskInv'
<1>0. DiskInv /\ file \in [Pieces -> {"none", "partial", "good"}] /\ BitField \in SUBSET Pieces
  BY DEF IInv, TypeOK
<1>1. ASSUME NEW i \in Pieces, FlushBegins(i) \/ FlushEnds(i)
      PROVE  DiskInv'
  BY <1>0, <1>1 DEF FlushBegins, FlushEnds, DiskInv
<1>2. CASE ~\E i \in Pieces : FlushBegins(i) \/ FlushEnds(i)
  <2>1. UNCHANGED diskVars
    BY <1>2 DEF Next, UnchokerStop, Stop, AcceptStep, RemoteStep, ProcessorStep,
       HandlerStep, Unchoke, KeeperLeaves, KeeperDelete, NewLeecherConnection, AddLeecher,
       AddLeecherOk, AddLeecherFail, ListenerEnd, ProcessInterest, Request, CancelRequest, Find,
       FindNone, Store, CancelLook, CancelClear, CancelDone, HandlerExit, ScanSlot, ServeNobody,
       ServeFail, ServeSend, ServeClear, PassEnds
  <2> QED BY <1>0, <2>1 DEF DiskInv, diskVars
<1> QED BY <1>1, <1>2

(***************************************************************************)
(* The map: an entry is replaced or deleted only by a peer of its address. *)
(***************************************************************************)
LEMMA ListStep ==
    ASSUME IInv, Next
    PROVE  ListInv'
<1>0. /\ ListInv /\ open \in SUBSET Peers /\ leechers \in [Addrs -> Peers \cup {NoPeer}]
      /\ kpc \in [Peers -> {"none", "new", "adding", "failed", "run", "leave", "exited"}]
      /\ AddrOf \in [Peers -> Addrs]
  BY UploadAssumption DEF IInv, TypeOK
<1>1. ASSUME UNCHANGED <<kpc, leechers>>, open' \subseteq open
      PROVE  ListInv'
  BY <1>0, <1>1 DEF ListInv
<1>2. ASSUME NEW p \in Peers, NewLeecherConnection(p)
      PROVE  ListInv'
  BY <1>0, <1>2 DEF NewLeecherConnection, ListInv
<1>3. ASSUME NEW p \in Peers, AddLeecher(p)
      PROVE  ListInv'
  BY <1>0, <1>3 DEF AddLeecher, ListInv
<1>4. ASSUME NEW p \in Peers, AddLeecherOk(p)
      PROVE  ListInv'
  BY <1>0, <1>4 DEF AddLeecherOk, ListInv
<1>5. ASSUME NEW p \in Peers, AddLeecherFail(p) \/ KeeperDelete(p)
      PROVE  ListInv'
  BY <1>0, <1>5 DEF AddLeecherFail, KeeperDelete, ListInv
<1>6. ASSUME NEW p \in Peers, KeeperLeaves(p)
      PROVE  ListInv'
  BY <1>0, <1>6 DEF KeeperLeaves, Closed, ListInv
<1>7. ASSUME NEW p \in Peers, RemoteStep(p) \/ HandlerStep(p) \/ Unchoke(p)
      PROVE  ListInv'
  BY <1>0, <1>1, <1>7 DEF RemoteStep, HandlerStep, Unchoke, ListenerEnd, ProcessInterest, Request,
     CancelRequest, Find, FindNone, Store, CancelLook, CancelClear, CancelDone, HandlerExit,
     peerVars
<1>8. CASE ProcessorStep \/ UnchokerStop \/ Stop \/ \E i \in Pieces : FlushBegins(i) \/ FlushEnds(i)
  BY <1>1, <1>8 DEF ProcessorStep, UnchokerStop, Stop, FlushBegins, FlushEnds, ScanSlot,
     ServeNobody, ServeFail, ServeSend, ServeClear, PassEnds, peerVars
<1> QED BY <1>2, <1>3, <1>4, <1>5, <1>6, <1>7, <1>8 DEF Next, AcceptStep

-----------------------------------------------------------------------------
LEMMA InitInv ==
    ASSUME Init
    PROVE  IInv
<1>0. /\ NumSlots \in Nat \ {0} /\ MaxRequests \in Nat /\ NoReq \notin Objects
  BY UploadAssumption
<1>1. TypeOK
  <2>1. 1 \in 1 .. NumSlots + 1 /\ 1 \in 1 .. MaxRequests + 1
    BY <1>0
  <2>2. file \in [Pieces -> {"none", "partial", "good"}]
    BY DEF Init
  <2> QED BY <2>1, <2>2 DEF Init, TypeOK
<1>2. CursorInv /\ ObjectInv
  BY <1>0 DEF Init, CursorInv, ObjectInv, Fresh, Serving
<1>3. DiskInv
  BY DEF Init, DiskInv
<1>4. CountInv
  <2>1. AnsweredBytes = {}
    BY DEF Init, AnsweredBytes
  <2> QED BY <2>1, FS_EmptySet DEF Init, CountInv, UploadedExact
<1>5. ListInv
  BY DEF Init, ListInv
<1> QED BY <1>1, <1>2, <1>3, <1>4, <1>5 DEF IInv

LEMMA NextInv ==
    ASSUME IInv, [Next]_vars
    PROVE  IInv'
<1>1. CASE Next
  BY <1>1, TypeStep, ObjectStep, CountStep, DiskStep, ListStep DEF IInv
<1>2. CASE UNCHANGED vars
  BY <1>2 DEF vars, peerVars, handVars, procVars, diskVars, IInv, TypeOK, CursorInv, ObjectInv,
     DiskInv, CountInv, UploadedExact, AnsweredBytes, ListInv, Fresh, Serving, Made
<1> QED BY <1>1, <1>2

(***************************************************************************)
(* The inductive invariant of the upload side.                             *)
(***************************************************************************)
THEOREM Invariance == Spec => []IInv
BY InitInv, NextInv, PTL DEF Spec

(***************************************************************************)
(* The types of the upload side: every slot the handlers and the processor *)
(* index t.upload.requests with exists.                                    *)
(***************************************************************************)
THEOREM TypeCorrect == Spec => []TypeOK
<1>1. IInv => TypeOK
  BY DEF IInv
<1> QED BY <1>1, Invariance, PTL

(***************************************************************************)
(* Tracker.Uploaded counts each answered request once.                     *)
(***************************************************************************)
THEOREM CountsExactly == Spec => []UploadedExact
<1>1. IInv => UploadedExact
  BY DEF IInv, CountInv
<1> QED BY <1>1, Invariance, PTL

(***************************************************************************)
(* Blocks are sent of complete files only.                                 *)
(***************************************************************************)
THEOREM SendsVerified == Spec => []ServesVerified
<1>1. IInv => ServesVerified
  BY DEF IInv, ObjectInv, DiskInv, Made, ServesVerified
<1> QED BY <1>1, Invariance, PTL

(***************************************************************************)
(* An open connection stays in the leechers map, unless its address had    *)
(* another one.                                                            *)
(***************************************************************************)
THEOREM Listing == Spec => []StaysListed
<1>1. IInv => StaysListed
  BY DEF IInv, TypeOK, ListInv, StaysListed
<1> QED BY <1>1, Invariance, PTL

(***************************************************************************)
(* The compare-and-swap of Store never replaces a request.                 *)
(***************************************************************************)
THEOREM NoOverwrite == Spec => NeverOverwritten
<1> DEFINE Keeps == \A s \in Slots : requests[s] # NoReq => requests'[s] \in {requests[s], NoReq}
<1>1. ASSUME IInv, Next
      PROVE  Keeps
  <2>0. TypeOK /\ CursorInv
    BY <1>1 DEF IInv
  <2>1. CASE UNCHANGED requests
    BY <2>1
  <2>2. ASSUME NEW p \in Peers, Store(p)
        PROVE  Keeps
    BY <2>0, <2>2 DEF Store, Swapped, TypeOK, CursorInv
  <2>3. ASSUME NEW p \in Peers, CancelClear(p)
        PROVE  Keeps
    BY <2>0, <2>3, SwapEmpties DEF CancelClear, CursorInv
  <2>4. CASE ServeFail \/ ServeClear
    <3>1. requests' = Swapped(uslot, ureq, NoReq) /\ uslot \in Slots
      BY <2>0, <2>4 DEF ServeFail, ServeClear, Served, CursorInv, Serving
    <3> QED BY <2>0, <3>1, SwapEmpties
  <2>5. CASE ~(ServeFail \/ ServeClear \/ \E p \in Peers : Store(p) \/ CancelClear(p))
    <3>1. UNCHANGED requests
      BY <1>1, <2>5 DEF Next, UnchokerStop, Stop, AcceptStep, RemoteStep, ProcessorStep,
         HandlerStep, Unchoke, KeeperLeaves, KeeperDelete, NewLeecherConnection, AddLeecher,
         AddLeecherOk, AddLeecherFail, ListenerEnd, ProcessInterest, Request, CancelRequest,
         Find, FindNone, CancelLook, CancelDone, HandlerExit, ScanSlot, ServeNobody, ServeSend,
         PassEnds, FlushBegins, FlushEnds
    <3> QED BY <2>1, <3>1
  <2> QED BY <2>2, <2>3, <2>4, <2>5
<1>2. IInv /\ [Next]_vars => [Keeps]_vars
  BY <1>1
<1> QED BY <1>2, Invariance, PTL DEF Spec, NeverOverwritten

=============================================================================
