---------------------------- MODULE SwarmProofs -----------------------------
(***************************************************************************)
(* The write locks of a swarm, for every set of clients and links and      *)
(* every size of the socket buffers.                                       *)
(*                                                                         *)
(* That nobody is stuck for ever is model-checked (NobodyStuck).  What it  *)
(* rests on is proved here: no circle of locks can form, because whoever   *)
(* has the lock of a link still owes it the message it is writing and has  *)
(* no other lock, so that it waits for the socket or its deadline only.    *)
(* The invariant adds that a recvPieces announces exactly as long as a     *)
(* leecher of its client is to be told, which makes the last write to end  *)
(* the one that lets it go back to its channel.                            *)
(***************************************************************************)
EXTENDS Swarm, TLAPS

\* A go-routine that has a lock owes the link the message.
Owed ==
    \A l \in Links :
        /\ writer[l] = Uploader => upl[l[1]] = l
        /\ \A w \in Links : writer[l] = w => recv[w] = "announce" /\ l \in todo[w]

\* It has no other lock; every client has an uploader of its own.
OneLock ==
    \A k, l \in Links :
        /\ writer[k] = Uploader /\ writer[l] = Uploader /\ k[1] = l[1] => k = l
        /\ \A w \in Links : writer[k] = w /\ writer[l] = w => k = l

\* A have goes to the client's own leechers, and announcing ends with the last.
Telling ==
    \A l \in Links : /\ recv[l] = "announce" <=> todo[l] # {}
                     /\ todo[l] \subseteq Leechers(l)

SwarmInv == TypeOK /\ Owed /\ OneLock /\ Telling

-----------------------------------------------------------------------------
(***************************************************************************)
(* What the end of a write does to the invariant.                          *)
(***************************************************************************)
LEMMA WrittenStep ==
    ASSUME SwarmInv, NEW l \in Links, writer[l] # None, Written(l)
    PROVE  /\ recv' \in [Links -> {"idle", "announce"}] /\ todo' \in [Links -> SUBSET Links]
           /\ upl' \in [Clients -> Links \cup {None}]
           /\ writer' \in [Links -> Links \cup {Uploader, None}]
           /\ Owed' /\ OneLock' /\ Telling'
<1>1. /\ recv \in [Links -> {"idle", "announce"}] /\ todo \in [Links -> SUBSET Links]
      /\ upl \in [Clients -> Links \cup {None}]
      /\ writer \in [Links -> Links \cup {Uploader, None}]
  BY DEF SwarmInv, TypeOK
<1>2. /\ \A k \in Links : k[1] \in Clients
      /\ Uploader \notin Links /\ None \notin Links /\ None # Uploader
  BY SwarmAssumption
<1>3. PICK w : w = writer[l]
  OBVIOUS
<1>4. writer' = [writer EXCEPT ![l] = None]
  BY DEF Written
<1>5. writer'[l] = None /\ \A k \in Links : k # l => writer'[k] = writer[k]
  BY <1>1, <1>4
<1>6. writer' \in [Links -> Links \cup {Uploader, None}]
  BY <1>1, <1>4
<1>7. OneLock'
  BY <1>2, <1>5 DEF SwarmInv, OneLock
<1>8. CASE w = Uploader
  <2>1. upl' = [upl EXCEPT ![l[1]] = None] /\ recv' = recv /\ todo' = todo
    BY <1>3, <1>8 DEF Written
  <2>2. upl' \in [Clients -> Links \cup {None}]
    BY <1>1, <2>1
  <2>3. ASSUME NEW k \in Links, writer'[k] = Uploader
        PROVE  upl'[k[1]] = k
    <3>1. k # l /\ writer[k] = Uploader
      BY <1>2, <1>5, <2>3
    <3>2. k[1] # l[1] /\ upl[k[1]] = k
      BY <1>3, <1>8, <3>1 DEF SwarmInv, OneLock, Owed
    <3> QED BY <1>1, <1>2, <2>1, <3>2
  <2>4. ASSUME NEW k \in Links, NEW v \in Links, writer'[k] = v
        PROVE  recv'[v] = "announce" /\ k \in todo'[v]
    <3>1. writer[k] = v
      BY <1>2, <1>5, <2>4
    <3> QED BY <2>1, <3>1 DEF SwarmInv, Owed
  <2>5. Owed'
    BY <2>3, <2>4 DEF Owed
  <2>6. Telling'
    BY <2>1 DEF SwarmInv, Telling
  <2> QED BY <1>1, <1>6, <1>7, <2>1, <2>2, <2>5, <2>6
<1>9. CASE w # Uploader
  <2>1. w \in Links /\ recv[w] = "announce" /\ l \in todo[w]
    BY <1>1, <1>3, <1>9 DEF SwarmInv, Owed
  <2>2. /\ todo' = [todo EXCEPT ![w] = @ \ {l}] /\ upl' = upl
        /\ recv' = IF todo[w] = {l} THEN [recv EXCEPT ![w] = "idle"] ELSE recv
    BY <1>3, <1>9 DEF Written
  <2>3. recv' \in [Links -> {"idle", "announce"}] /\ todo' \in [Links -> SUBSET Links]
    BY <1>1, <2>1, <2>2
  <2>4. todo'[w] = todo[w] \ {l} /\ \A k \in Links : k # w => todo'[k] = todo[k]
    BY <1>1, <2>1, <2>2
  <2>5. /\ recv'[w] = IF todo[w] = {l} THEN "idle" ELSE "announce"
        /\ \A k \in Links : k # w => recv'[k] = recv[k]
    BY <1>1, <2>1, <2>2
  <2>6. Telling'
    <3>1. ASSUME NEW k \in Links
          PROVE  (recv'[k] = "announce" <=> todo'[k] # {}) /\ todo'[k] \subseteq Leechers(k)
      <4>1. (recv[k] = "announce" <=> todo[k] # {}) /\ todo[k] \subseteq Leechers(k)
        BY DEF SwarmInv, Telling
      <4> QED BY <2>1, <2>4, <2>5, <4>1
    <3> QED BY <3>1 DEF Telling
  <2>7. ASSUME NEW k \in Links, NEW v \in Links, writer'[k] = v
        PROVE  recv'[v] = "announce" /\ k \in todo'[v]
    <3>1. k # l /\ writer[k] = v
      BY <1>2, <1>5, <2>7
    <3>2. v # w
      BY <1>3, <2>1, <3>1 DEF SwarmInv, OneLock
    <3> QED BY <2>4, <2>5, <3>1, <3>2 DEF SwarmInv, Owed
  <2>8. ASSUME NEW k \in Links, writer'[k] = Uploader
        PROVE  upl'[k[1]] = k
    BY <1>2, <1>5, <2>2, <2>8 DEF SwarmInv, Owed
  <2>9. Owed'
    BY <2>7, <2>8 DEF Owed
  <2> QED BY <1>1, <1>6, <1>7, <2>2, <2>3, <2>6, <2>9
<1> QED BY <1>8, <1>9

(***************************************************************************)
(* What is written to and read from a socket buffer.                       *)
(***************************************************************************)
Buffers == {b \in Seq({"have", "piece", "part"}) : Len(b) <= Cap + 1}

\* The buffer of a socket after a read and after a write.
LEMMA BufferFacts ==
    ASSUME NEW b \in Buffers
    PROVE  /\ <<>> \in Buffers
           /\ b # <<>> => Tail(b) \in Buffers
           /\ Len(b) <= Cap => \A m \in {"have", "piece", "part"} : Append(b, m) \in Buffers
<1>1. Cap \in Nat /\ b \in Seq({"have", "piece", "part"}) /\ Len(b) \in Nat /\ Len(b) <= Cap + 1
  BY SwarmAssumption DEF Buffers
<1>2. <<>> \in Buffers
  BY <1>1 DEF Buffers
<1>3. ASSUME b # <<>>
      PROVE  Tail(b) \in Buffers
  <2>1. Tail(b) \in Seq({"have", "piece", "part"}) /\ Len(Tail(b)) = Len(b) - 1
    BY <1>1, <1>3
  <2> QED BY <1>1, <2>1 DEF Buffers
<1>4. ASSUME Len(b) <= Cap, NEW m \in {"have", "piece", "part"}
      PROVE  Append(b, m) \in Buffers
  <2>1. Append(b, m) \in Seq({"have", "piece", "part"}) /\ Len(Append(b, m)) = Len(b) + 1
    BY <1>1
  <2> QED BY <1>1, <1>4, <2>1 DEF Buffers
<1> QED BY <1>2, <1>3, <1>4

\* The types, with the bound of the buffers in one set.
LEMMA BufferType == TypeOK =>
    /\ buf \in [Links -> Buffers] /\ hand \subseteq Links /\ garbled \subseteq Links
    /\ recv \in [Links -> {"idle", "announce"}] /\ todo \in [Links -> SUBSET Links]
    /\ upl \in [Clients -> Links \cup {None}]
    /\ writer \in [Links -> Links \cup {Uploader, None}]
BY DEF TypeOK, Buffers

\* The same for the state after a step.
LEMMA TypedAgain ==
    ASSUME buf' \in [Links -> Buffers], hand' \subseteq Links, garbled' \subseteq Links,
           recv' \in [Links -> {"idle", "announce"}], todo' \in [Links -> SUBSET Links],
           upl' \in [Clients -> Links \cup {None}],
           writer' \in [Links -> Links \cup {Uploader, None}]
    PROVE  TypeOK'
BY DEF TypeOK, Buffers

-----------------------------------------------------------------------------
\* At first nobody has a lock.
LEMMA SwarmInitially == Init => SwarmInv
<1> SUFFICES ASSUME Init PROVE SwarmInv
  OBVIOUS
<1>1. Cap \in Nat /\ Uploader \notin Links /\ None \notin Links \cup {Uploader}
  BY SwarmAssumption
<1>2. TypeOK
  BY <1>1 DEF Init, TypeOK
<1>3. Owed /\ OneLock /\ Telling
  BY <1>1 DEF Init, Owed, OneLock, Telling
<1> QED BY <1>2, <1>3 DEF SwarmInv

\* Every step of a client keeps the invariant.
LEMMA SwarmStep == SwarmInv /\ [Next]_vars => SwarmInv'
<1> SUFFICES ASSUME SwarmInv, [Next]_vars PROVE SwarmInv'
  OBVIOUS
<1>0. /\ \A k \in Links : k[1] \in Clients
      /\ Uploader \notin Links /\ None \notin Links /\ None # Uploader /\ Cap \in Nat
  BY SwarmAssumption
<1>1. /\ buf \in [Links -> Buffers] /\ hand \subseteq Links /\ garbled \subseteq Links
      /\ recv \in [Links -> {"idle", "announce"}] /\ todo \in [Links -> SUBSET Links]
      /\ upl \in [Clients -> Links \cup {None}]
      /\ writer \in [Links -> Links \cup {Uploader, None}]
  BY BufferType DEF SwarmInv
<1>2. ASSUME NEW l \in Links, Listen(l)
      PROVE  SwarmInv'
  <2>1. /\ buf' = [buf EXCEPT ![l] = Tail(buf[l])] /\ buf[l] # <<>>
        /\ recv' = recv /\ todo' = todo /\ upl' = upl /\ writer' = writer
    BY <1>2 DEF Listen
  <2>2. hand' \subseteq Links /\ garbled' \subseteq Links
    BY <1>1, <1>2 DEF Listen
  <2>3. Tail(buf[l]) \in Buffers
    BY <1>1, <2>1, BufferFacts
  <2>4. buf' \in [Links -> Buffers]
    BY <1>1, <2>1, <2>3
  <2>5. TypeOK'
    BY <1>1, <2>1, <2>2, <2>4, TypedAgain
  <2>6. Owed' /\ OneLock' /\ Telling'
    BY <2>1 DEF SwarmInv, Owed, OneLock, Telling
  <2> QED BY <2>5, <2>6 DEF SwarmInv
<1>3. ASSUME NEW l \in Links, TakeBlock(l)
      PROVE  SwarmInv'
  <2>1. /\ hand' = hand \ {l} /\ buf' = buf /\ recv' = recv /\ todo' = todo /\ upl' = upl
        /\ writer' = writer /\ garbled' = garbled
    BY <1>3 DEF TakeBlock
  <2>2. TypeOK'
    BY <1>1, <2>1, TypedAgain
  <2>3. Owed' /\ OneLock' /\ Telling'
    BY <2>1 DEF SwarmInv, Owed, OneLock, Telling
  <2> QED BY <2>2, <2>3 DEF SwarmInv
<1>4. ASSUME NEW l \in Links, TakeLastBlock(l)
      PROVE  SwarmInv'
  <2>1. /\ recv[l] = "idle" /\ hand' = hand \ {l} /\ buf' = buf /\ upl' = upl
        /\ writer' = writer /\ garbled' = garbled
        /\ todo' = [todo EXCEPT ![l] = Leechers(l)]
        /\ recv' = IF Leechers(l) = {} THEN recv ELSE [recv EXCEPT ![l] = "announce"]
    BY <1>4 DEF TakeLastBlock
  <2>2. Leechers(l) \subseteq Links
    BY DEF Leechers
  <2>3. recv' \in [Links -> {"idle", "announce"}] /\ todo' \in [Links -> SUBSET Links]
    BY <1>1, <2>1, <2>2
  <2>4. TypeOK'
    BY <1>1, <2>1, <2>3, TypedAgain
  <2>5. todo'[l] = Leechers(l) /\ \A k \in Links : k # l => todo'[k] = todo[k] /\ recv'[k] = recv[k]
    BY <1>1, <2>1
  <2>6. recv'[l] = IF Leechers(l) = {} THEN "idle" ELSE "announce"
    BY <1>1, <2>1
  <2>7. Telling'
    <3>1. ASSUME NEW k \in Links
          PROVE  (recv'[k] = "announce" <=> todo'[k] # {}) /\ todo'[k] \subseteq Leechers(k)
      <4>1. (recv[k] = "announce" <=> todo[k] # {}) /\ todo[k] \subseteq Leechers(k)
        BY DEF SwarmInv, Telling
      <4> QED BY <2>5, <2>6, <4>1
    <3> QED BY <3>1 DEF Telling
  <2>8. \A k \in Links : writer[k] # l
    BY <2>1 DEF SwarmInv, Owed
  <2>9. Owed'
    BY <2>1, <2>5, <2>8 DEF SwarmInv, Owed
  <2>10. OneLock'
    BY <2>1 DEF SwarmInv, OneLock
  <2> QED BY <2>4, <2>7, <2>9, <2>10 DEF SwarmInv
<1>5. ASSUME NEW l \in Links, StartUpload(l)
      PROVE  SwarmInv'
  <2>1. /\ upl[l[1]] = None /\ upl' = [upl EXCEPT ![l[1]] = l] /\ buf' = buf /\ hand' = hand
        /\ recv' = recv /\ todo' = todo /\ writer' = writer /\ garbled' = garbled
    BY <1>5 DEF StartUpload
  <2>2. upl' \in [Clients -> Links \cup {None}]
    BY <1>1, <2>1
  <2>3. TypeOK'
    BY <1>1, <2>1, <2>2, TypedAgain
  <2>4. ASSUME NEW k \in Links, writer[k] = Uploader
        PROVE  upl'[k[1]] = k
    <3>1. upl[k[1]] = k
      BY <2>4 DEF SwarmInv, Owed
    <3>2. k[1] # l[1]
      BY <1>0, <2>1, <3>1
    <3> QED BY <1>0, <1>1, <2>1, <3>1, <3>2
  <2>5. Owed'
    BY <2>1, <2>4 DEF SwarmInv, Owed
  <2>6. OneLock' /\ Telling'
    BY <2>1 DEF SwarmInv, OneLock, Telling
  <2> QED BY <2>3, <2>5, <2>6 DEF SwarmInv
<1>6. ASSUME NEW l \in Links, NEW w \in Writers, TakeLock(w, l)
      PROVE  SwarmInv'
  <2>1. /\ writer[l] = None /\ Wants(w, l) /\ writer' = [writer EXCEPT ![l] = w] /\ buf' = buf
        /\ hand' = hand /\ recv' = recv /\ todo' = todo /\ upl' = upl /\ garbled' = garbled
    BY <1>6 DEF TakeLock
  <2>2. writer' \in [Links -> Links \cup {Uploader, None}]
    BY <1>1, <2>1 DEF Writers
  <2>3. TypeOK'
    BY <1>1, <2>1, <2>2, TypedAgain
  <2>4. writer'[l] = w /\ \A k \in Links : k # l => writer'[k] = writer[k]
    BY <1>1, <2>1
  <2>5. Telling'
    BY <2>1 DEF SwarmInv, Telling
  <2>6. CASE w = Uploader
    <3>1. upl[l[1]] = l
      BY <2>1, <2>6 DEF Wants
    <3>2. \A k \in Links : writer[k] = Uploader /\ k[1] = l[1] => k = l
      BY <3>1 DEF SwarmInv, Owed
    <3>3. Owed'
      BY <1>0, <2>1, <2>4, <2>6, <3>1 DEF SwarmInv, Owed
    <3>4. OneLock'
      BY <1>0, <2>4, <2>6, <3>2 DEF SwarmInv, OneLock
    <3> QED BY <2>3, <2>5, <3>3, <3>4 DEF SwarmInv
  <2>7. CASE w # Uploader
    <3>1. w \in Links /\ recv[w] = "announce" /\ l \in todo[w] /\ \A k \in Links : writer[k] # w
      BY <2>1, <2>7 DEF Wants, Writers
    <3>2. Owed'
      BY <1>0, <2>1, <2>4, <2>7, <3>1 DEF SwarmInv, Owed
    <3>3. OneLock'
      BY <1>0, <2>4, <2>7, <3>1 DEF SwarmInv, OneLock
    <3> QED BY <2>3, <2>5, <3>2, <3>3 DEF SwarmInv
  <2> QED BY <2>6, <2>7
<1>7. ASSUME NEW l \in Links, Put(l)
      PROVE  SwarmInv'
  <2>1. PICK m \in {"have", "piece", "part"} : buf' = [buf EXCEPT ![l] = Append(buf[l], m)]
    BY <1>7 DEF Put
  <2>2. /\ writer[l] # None /\ Len(buf[l]) <= Cap /\ Written(l)
        /\ hand' = hand /\ garbled' = garbled
    <3>1. Len(buf[l]) \in Nat
      BY <1>1 DEF Buffers
    <3> QED BY <1>0, <1>7, <3>1 DEF Put
  <2>3. Append(buf[l], m) \in Buffers
    BY <1>1, <2>2, BufferFacts
  <2>4. buf' \in [Links -> Buffers]
    BY <1>1, <2>1, <2>3
  <2>5. /\ recv' \in [Links -> {"idle", "announce"}] /\ todo' \in [Links -> SUBSET Links]
        /\ upl' \in [Clients -> Links \cup {None}]
        /\ writer' \in [Links -> Links \cup {Uploader, None}]
        /\ Owed' /\ OneLock' /\ Telling'
    BY <2>2, WrittenStep
  <2>6. TypeOK'
    BY <1>1, <2>2, <2>4, <2>5, TypedAgain
  <2> QED BY <2>5, <2>6 DEF SwarmInv
<1>8. ASSUME NEW l \in Links, TimeOut(l)
      PROVE  SwarmInv'
  <2>1. writer[l] # None /\ Written(l) /\ hand' = hand /\ garbled' = garbled
    BY <1>8 DEF TimeOut
  <2>2. buf' \in [Links -> Buffers]
    <3>1. CASE buf' = buf
      BY <1>1, <3>1
    <3>2. CASE Len(buf[l]) = Cap /\ buf' = [buf EXCEPT ![l] = Append(buf[l], "part")]
      <4>1. Append(buf[l], "part") \in Buffers
        BY <1>0, <1>1, <3>2, BufferFacts
      <4> QED BY <1>1, <3>2, <4>1
    <3> QED BY <1>8, <3>1, <3>2 DEF TimeOut
  <2>3. /\ recv' \in [Links -> {"idle", "announce"}] /\ todo' \in [Links -> SUBSET Links]
        /\ upl' \in [Clients -> Links \cup {None}]
        /\ writer' \in [Links -> Links \cup {Uploader, None}]
        /\ Owed' /\ OneLock' /\ Telling'
    BY <2>1, WrittenStep
  <2>4. TypeOK'
    BY <1>1, <2>1, <2>2, <2>3, TypedAgain
  <2> QED BY <2>3, <2>4 DEF SwarmInv
<1>9. ASSUME NEW l \in Links, Reconnect(l)
      PROVE  SwarmInv'
  <2>1. /\ buf' = [buf EXCEPT ![l] = <<>>] /\ hand' = hand /\ garbled' = garbled \ {l}
    BY <1>9 DEF Reconnect
  <2>2. buf' \in [Links -> Buffers] /\ garbled' \subseteq Links
    <3>1. <<>> \in Buffers
      BY <1>1, BufferFacts
    <3> QED BY <1>1, <2>1, <3>1
  <2>3. CASE writer[l] = None
    <3>1. recv' = recv /\ todo' = todo /\ upl' = upl /\ writer' = writer
      BY <1>9, <2>3 DEF Reconnect
    <3>2. TypeOK'
      BY <1>1, <2>1, <2>2, <3>1, TypedAgain
    <3>3. Owed' /\ OneLock' /\ Telling'
      BY <3>1 DEF SwarmInv, Owed, OneLock, Telling
    <3> QED BY <3>2, <3>3 DEF SwarmInv
  <2>4. CASE writer[l] # None
    <3>1. Written(l)
      BY <1>9, <2>4 DEF Reconnect
    <3>2. /\ recv' \in [Links -> {"idle", "announce"}] /\ todo' \in [Links -> SUBSET Links]
          /\ upl' \in [Clients -> Links \cup {None}]
          /\ writer' \in [Links -> Links \cup {Uploader, None}]
          /\ Owed' /\ OneLock' /\ Telling'
      BY <2>4, <3>1, WrittenStep
    <3>3. TypeOK'
      BY <1>1, <2>1, <2>2, <3>2, TypedAgain
    <3> QED BY <3>2, <3>3 DEF SwarmInv
  <2> QED BY <2>3, <2>4
<1>10. CASE UNCHANGED vars
  BY <1>10 DEF vars, SwarmInv, TypeOK, Owed, OneLock, Telling
<1> QED BY <1>2, <1>3, <1>4, <1>5, <1>6, <1>7, <1>8, <1>9, <1>10 DEF Next

(***************************************************************************)
(* The buffers, the go-routines and the locks keep their types, and a      *)
(* socket holds at most part of a message more than it has room for.       *)
(***************************************************************************)
THEOREM SwarmTypeCorrect == Spec => []TypeOK
<1> QED BY SwarmInitially, SwarmStep, PTL DEF Spec, SwarmInv

(***************************************************************************)
(* No circle of write locks can form: who has a lock still has to write    *)
(* that message and has no other lock, for every swarm.                    *)
(***************************************************************************)
THEOREM NoCircleOfLocks == Spec => [](Owed /\ OneLock /\ Telling)
<1> QED BY SwarmInitially, SwarmStep, PTL DEF Spec, SwarmInv
=============================================================================
