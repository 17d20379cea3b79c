-------------------------- MODULE LifecycleProofs ---------------------------
(***************************************************************************)
(* Proofs about Lifecycle, for every set of pieces.  The argument: until   *)
(* downloadTorrent is in its loop no receiver runs, and it does not return *)
(* from there before CancelDownload has seen the receivers end.  Client.   *)
(* Close joins downloadTorrent before it closes the torrent, so nothing    *)
(* is verified after bitfield.bin is written.                              *)
(***************************************************************************)
EXTENDS Lifecycle, TLAPS

\* Without receivers no piece is between being counted and being verified.
QuietInv == recv = "off" => counted = verified

\* Receivers run only while downloadTorrent is at work.
ReceiverInv == dt \in {"none", "start", "exited"} => recv = "off"

\* How far the client is tells where its go-routines and the scheduler are.
OrderInv ==
    /\ main \in {"start", "failed", "unread", "handoff"} => dt = "none"
    /\ main \in {"start", "failed", "unread"} <=> sched = "none"
    /\ sched = "none" => ~completed
    /\ sched = "none" => recv = "off"
    /\ main \in {"join", "save", "saving", "stop", "closed"} => done
    /\ main \in {"save", "saving", "stop", "closed"} =>
          dt = "exited" /\ accept = "exited" /\ handler = "none"

(***************************************************************************)
(* What a session saved before this one is in the bitfield this one works  *)
(* with, unless it is forgotten, so Flush opens the file of no other saved *)
(* piece; and a short bitfield.bin is being written, or was left behind.   *)
(***************************************************************************)
DiskInv ==
    /\ SavedOnDisk /\ Durable /\ StartFailsOnlyTorn
    /\ sched # "none" => saved \ forgotten \subseteq verified
    /\ saved \subseteq kept
    /\ \A i \in Pieces : flush[i] = "done" => file[i] = "good"
    /\ \A i \in Pieces : flush[i] # "no" => dir
    /\ bin # "full" => saved = {}
    /\ bin = "absent" => kept = {}
    /\ bin = "short" => torn \/ main = "saving"
    /\ main = "saving" => bin = "short" /\ (crash = "none" \/ torn)
    /\ dir \/ (verified = {} /\ bin = "absent")

\* The completed channel is closed for a verified torrent only.
SignalInv ==
    /\ completed => verified = Pieces
    /\ waiter = "merge" => completed

\* Where downloadTorrent is tells which last event it announced, if any.
EventInv ==
    /\ dt \in {"none", "start", "loop"} => ~cancel /\ LastEvents = {}
    /\ dt = "announce" => ~cancel /\ LastEvents = {event} \ {"none"}
    /\ CancelledOnce

\* The inductive invariant.
IInv == TypeOK /\ QuietInv /\ ReceiverInv /\ OrderInv /\ SignalInv /\ ResumeComplete
        /\ EventInv /\ DiskInv

-----------------------------------------------------------------------------
(***************************************************************************)
(* The invariant holds before WorkOn, whatever bitfield.bin contains.      *)
(***************************************************************************)
LEMMA InitInv == Init => IInv
BY DEF Init, StorageInit, IInv, TypeOK, StorageTypeOK, QuietInv, ReceiverInv, OrderInv,
     SignalInv, ResumeComplete, EventInv, CancelledOnce, LastEvents, DiskInv, SavedOnDisk,
     Durable, StartFailsOnlyTorn

(***************************************************************************)
(* A step that leaves the disk, and what the engine has on it, alone.      *)
(***************************************************************************)
LEMMA DiskUntouched ==
    ASSUME IInv, UNCHANGED <<engineVars, diskVars>>, main' = "saving" <=> main = "saving",
           main # "saving" \/ crash' = crash, main' # "failed"
    PROVE  DiskInv'
BY DEF IInv, DiskInv, SavedOnDisk, Durable, StartFailsOnlyTorn, engineVars, diskVars, disk

(***************************************************************************)
(* No step of the client, of downloadTorrent, of the engine, of the disk,  *)
(* and no kill or restart breaks it.                                       *)
(***************************************************************************)
LEMMA NextInv == IInv /\ [Next]_vars => IInv'
<1> USE DEF IInv, TypeOK, StorageTypeOK, QuietInv, ReceiverInv, OrderInv, SignalInv,
     ResumeComplete, EventInv, CancelledOnce, LastEvents
<1> SUFFICES ASSUME IInv, [Next]_vars PROVE IInv'
    OBVIOUS
<1>1. CASE Alive /\ Handoff
    BY <1>1, DiskUntouched DEF Alive, Handoff, engineVars, diskVars, disk
<1>2. CASE Alive /\ Close
    BY <1>2, DiskUntouched DEF Alive, Close, engineVars, diskVars, disk
<1>3. CASE Alive /\ Joined
    BY <1>3, DiskUntouched DEF Alive, Joined, AllReturned, engineVars, diskVars, disk
<1>4. CASE Alive /\ CloseReturns
    BY <1>4, DiskUntouched DEF Alive, CloseReturns, engineVars, diskVars, disk
<1>5. CASE Alive /\ WatchDone
    BY <1>5, DiskUntouched DEF Alive, WatchDone, engineVars, diskVars, disk
<1>6. CASE Alive /\ Accept
    BY <1>6, DiskUntouched DEF Alive, Accept, engineVars, diskVars, disk
<1>7. CASE Alive /\ AcceptFails
    BY <1>7, DiskUntouched DEF Alive, AcceptFails, engineVars, diskVars, disk
<1>8. CASE Alive /\ AcceptEnds
    BY <1>8, DiskUntouched DEF Alive, AcceptEnds, engineVars, diskVars, disk
<1>9. CASE Alive /\ HandshakeOk
    BY <1>9, DiskUntouched DEF Alive, HandshakeOk, engineVars, diskVars, disk
<1>10. CASE Alive /\ HandlerEnds
    BY <1>10, DiskUntouched DEF Alive, HandlerEnds, engineVars, diskVars, disk
<1>11. CASE Alive /\ WaiterDone
    BY <1>11, DiskUntouched DEF Alive, WaiterDone, engineVars, diskVars, disk
<1>12. CASE Alive /\ WaiterCompleted
    BY <1>12, DiskUntouched DEF Alive, WaiterCompleted, engineVars, diskVars, disk
<1>13. CASE Alive /\ (\E r \in {"ok", "error"} : Merge(r))
    BY <1>13, DiskUntouched DEF Alive, Merge, engineVars, diskVars, disk
<1>14. CASE Alive /\ StartCancelled
    BY <1>14, DiskUntouched DEF Alive, StartCancelled, engineVars, diskVars, disk
<1>15. CASE Alive /\ (AnnounceStopped \/ AnnounceCompleted \/ Tick)
  <2>. PICK e \in {"none", "stopped", "completed"} : Announce(e)
    BY <1>15 DEF AnnounceStopped, AnnounceCompleted, Tick
  <2>1. TypeOK' /\ QuietInv' /\ ReceiverInv' /\ OrderInv' /\ SignalInv' /\ ResumeComplete'
    BY DEF Announce, engineVars, diskVars, disk
  <2>2. EventInv'
    BY DEF Announce, engineVars
  <2>3. DiskInv'
    BY DiskUntouched DEF Announce
  <2>. QED
    BY <2>1, <2>2, <2>3
<1>16. CASE Alive /\ UpdateFailed
    BY <1>16, DiskUntouched DEF Alive, UpdateFailed, engineVars, diskVars, disk
<1>17. CASE Alive /\ Drained
    BY <1>17, DiskUntouched DEF Alive, Drained, engineVars, diskVars, disk
<1>18. CASE Alive /\ WorkOn
    BY <1>18 DEF Alive, DiskInv, SavedOnDisk, Durable, StartFailsOnlyTorn, WorkOn, LoadFails, diskVars, disk
<1>19. CASE Alive /\ WorkOnFails
    BY <1>19 DEF Alive, DiskInv, SavedOnDisk, Durable, StartFailsOnlyTorn, WorkOnFails, LoadFails, engineVars, diskVars, disk
<1>40. CASE Alive /\ WorkOnUnopened
    BY <1>40 DEF Alive, DiskInv, SavedOnDisk, Durable, StartFailsOnlyTorn, WorkOnUnopened, disk
<1>41. CASE Alive /\ WorkOnUnread
    BY <1>41 DEF Alive, DiskInv, SavedOnDisk, Durable, StartFailsOnlyTorn, WorkOnUnread, engineVars, diskVars, disk
<1>20. CASE Alive /\ SaveBegins
    BY <1>20 DEF Alive, DiskInv, SavedOnDisk, Durable, StartFailsOnlyTorn, SaveBegins, SaveCreate, engineVars
<1>21. CASE Alive /\ SaveRefused
    BY <1>21 DEF Alive, DiskInv, SavedOnDisk, Durable, StartFailsOnlyTorn, SaveRefused, engineVars, disk
<1>22. CASE Alive /\ SaveEnds
  <2>0. kept \ forgotten \subseteq verified /\ kept' = kept \cup verified /\ saved' = verified
        /\ verified' = verified /\ file' = file
        /\ forgotten' = forgotten \ {i \in verified : file[i] = "good"}
    BY <1>22 DEF DiskInv, Durable, SaveEnds, SaveWrite, engineVars
  <2>1. SavedOnDisk' /\ Durable' /\ StartFailsOnlyTorn'
    BY <1>22, <2>0 DEF DiskInv, SavedOnDisk, Durable, StartFailsOnlyTorn, SaveEnds, SaveWrite, engineVars
  <2>2. DiskInv'
    <3>1. dir'
      BY <1>22 DEF DiskInv, SaveEnds, SaveWrite
    <3>2. flush' = flush /\ bin' = "full" /\ main' # "saving"
      BY <1>22 DEF SaveEnds, SaveWrite, engineVars
    <3>. QED
      BY <2>0, <2>1, <3>1, <3>2 DEF DiskInv
  <2>3. TypeOK'
    <3>1. StorageTypeOK'
      BY <1>22 DEF SaveEnds, SaveWrite, engineVars
    <3>2. torn' \in BOOLEAN /\ kept' \in SUBSET Pieces /\ forgotten' \in SUBSET Pieces
      BY <1>22 DEF SaveEnds
    <3>. QED
      BY <1>22, <3>1, <3>2 DEF SaveEnds, engineVars
  <2>4. (QuietInv /\ ReceiverInv /\ OrderInv /\ SignalInv /\ ResumeComplete)'
    BY <1>22, <2>0 DEF SaveEnds, SaveWrite, engineVars
  <2>5. EventInv'
    BY <1>22 DEF SaveEnds, engineVars
  <2>. QED
    BY <2>2, <2>3, <2>4, <2>5
<1>23. CASE Alive /\ SaveWriteFails
    BY <1>23 DEF Alive, DiskInv, SavedOnDisk, Durable, StartFailsOnlyTorn, SaveWriteFails, engineVars, disk
<1>24. CASE Alive /\ CloseStop
    BY <1>24 DEF Alive, DiskInv, SavedOnDisk, Durable, StartFailsOnlyTorn, CloseStop, clientVars, diskVars, disk
<1>25. CASE Alive /\ (\E interval \in {"none", "zero", "some"} : Start(interval))
  <2>. PICK interval \in {"none", "zero", "some"} : Start(interval)
    BY <1>25
  <2>1. DiskInv'
    BY DEF DiskInv, SavedOnDisk, Durable, StartFailsOnlyTorn, Start, diskVars, disk
  <2>2. CASE interval = "none"
    BY <2>1, <2>2 DEF Start, diskVars, disk
  <2>3. CASE interval # "none"
    BY <2>1, <2>3 DEF Start, UpdateSeeders, diskVars, disk
  <2>. QED
    BY <2>2, <2>3
<1>26. CASE Alive /\ AnnounceEnds
    BY <1>26 DEF Alive, DiskInv, SavedOnDisk, Durable, StartFailsOnlyTorn, AnnounceEnds, CancelDownload, diskVars, disk
<1>27. CASE Alive /\ UpdateOk
  <2>1. DiskInv'
    BY <1>27 DEF DiskInv, SavedOnDisk, Durable, StartFailsOnlyTorn, UpdateOk, diskVars, disk
  <2>2. (TypeOK /\ QuietInv /\ ReceiverInv /\ OrderInv /\ SignalInv /\ ResumeComplete /\ EventInv)'
    BY <1>27 DEF UpdateOk, UpdateSeeders, diskVars, disk
  <2>. QED
    BY <2>1, <2>2
<1>28. CASE Alive /\ (\E i \in Pieces : Count(i))
    BY <1>28 DEF Alive, DiskInv, SavedOnDisk, Durable, StartFailsOnlyTorn, Count, E!Count, E!Ending, engineRest, clientVars, disk
<1>29. CASE Alive /\ (\E i \in Pieces : FlushBegins(i))
  <2>. PICK i \in Pieces : FlushBegins(i)
    BY <1>29
  <2>. i \notin saved \ forgotten /\ UNCHANGED <<verified, forgotten>>
    BY DEF FlushBegins, DiskInv, engineRest
  <2>1. TypeOK'
    <3>1. StorageTypeOK' /\ flush' \in [Pieces -> {"no", "open", "done"}]
      BY DEF FlushBegins, Mkdir, FlushCreate
    <3>. QED
      BY <3>1 DEF FlushBegins, engineRest, clientVars
  <2>2. (QuietInv /\ ReceiverInv /\ OrderInv /\ SignalInv /\ ResumeComplete /\ EventInv)'
    BY DEF FlushBegins, Mkdir, FlushCreate, engineRest, clientVars
  <2>3. CASE Mkdir /\ UNCHANGED flush
    BY <2>3 DEF DiskInv, SavedOnDisk, Durable, StartFailsOnlyTorn, FlushBegins, Mkdir, engineRest, clientVars
  <2>4. CASE FlushCreate(i) /\ flush' = [flush EXCEPT ![i] = "open"]
    <3>1. SavedOnDisk' /\ \A j \in Pieces : flush'[j] = "done" => file'[j] = "good"
      BY <2>4 DEF DiskInv, SavedOnDisk, FlushBegins, FlushCreate
    <3>. QED
      BY <2>4, <3>1, <2>1, <2>2 DEF DiskInv, Durable, StartFailsOnlyTorn, FlushBegins, FlushCreate,
         engineRest, clientVars
  <2>. QED
    BY <2>1, <2>2, <2>3, <2>4 DEF FlushBegins
<1>30. CASE Alive /\ (\E i \in Pieces : FlushEnds(i))
    BY <1>30 DEF Alive, DiskInv, SavedOnDisk, Durable, StartFailsOnlyTorn, FlushEnds, FlushWrite, engineRest, clientVars
<1>31. CASE Alive /\ (\E i \in Pieces : Verify(i))
  <2>. PICK i \in Pieces : Verify(i)
    BY <1>31
  <2>0. file[i] = "good" /\ verified' = verified \cup {i} /\ UNCHANGED disk /\ dir
    BY DEF DiskInv, SavedOnDisk, Verify, Flushed, E!Verify
  <2>1. DiskInv'
    BY <2>0 DEF DiskInv, SavedOnDisk, Durable, StartFailsOnlyTorn, Verify, E!Verify, engineRest, clientVars, disk
  <2>2. (TypeOK /\ QuietInv /\ ReceiverInv /\ OrderInv /\ SignalInv /\ ResumeComplete /\ EventInv)'
    BY DEF Verify, E!Verify, engineRest, clientVars, disk
  <2>. QED
    BY <2>1, <2>2
<1>32. CASE Alive /\ (\E i \in Pieces : Reject(i))
    BY <1>32 DEF Alive, DiskInv, SavedOnDisk, Durable, StartFailsOnlyTorn, Reject, E!Reject, engineRest, clientVars, disk
<1>33. CASE Alive /\ SchedComplete
    BY <1>33 DEF Alive, DiskInv, SavedOnDisk, Durable, StartFailsOnlyTorn, SchedComplete, E!SchedComplete, engineRest, clientVars, disk
<1>34. CASE Alive /\ SchedStop
    BY <1>34 DEF Alive, DiskInv, SavedOnDisk, Durable, StartFailsOnlyTorn, SchedStop, E!SchedStop, engineRest, clientVars, disk
<1>35. CASE Alive /\ RecvClose
    BY <1>35 DEF Alive, DiskInv, SavedOnDisk, Durable, StartFailsOnlyTorn, RecvClose, E!RecvClose, E!Ending, engineRest, clientVars, disk
<1>36. CASE Alive /\ RecvStop
    BY <1>36 DEF Alive, DiskInv, SavedOnDisk, Durable, StartFailsOnlyTorn, RecvStop, E!RecvStop, E!Ending, engineRest, clientVars, disk
<1>37. CASE Kill
    BY <1>37 DEF DiskInv, SavedOnDisk, Durable, StartFailsOnlyTorn, Kill, Fresh, Alive, disk
<1>38. CASE Restart
    BY <1>38 DEF DiskInv, SavedOnDisk, Durable, StartFailsOnlyTorn, Restart, Fresh, Alive, disk
<1>39. CASE UNCHANGED vars
    BY <1>39 DEF DiskInv, SavedOnDisk, Durable, StartFailsOnlyTorn, vars, clientVars, engineVars, diskVars, disk
<1>. QED
    BY <1>1, <1>2, <1>3, <1>4, <1>5, <1>6, <1>7, <1>8, <1>9, <1>10, <1>11, <1>12, <1>13, <1>14, <1>15, <1>16, <1>17, <1>18, <1>19, <1>20, <1>21, <1>22, <1>23, <1>24, <1>25, <1>26, <1>27, <1>28, <1>29, <1>30, <1>31, <1>32, <1>33, <1>34, <1>35, <1>36, <1>37, <1>38, <1>39, <1>40, <1>41
       DEF Next, Run, Closing, Serving, Waiter, DownloadTorrent, EngineStep, Settle

-----------------------------------------------------------------------------
(***************************************************************************)
(* The inductive invariant holds in every state of every run.              *)
(***************************************************************************)
THEOREM Invariance == Spec => []IInv
<1>1. Init => IInv
    BY InitInv
<1>2. IInv /\ [Next]_vars => IInv'
    BY NextInv
<1>. QED
    BY <1>1, <1>2, PTL DEF Spec

(***************************************************************************)
(* Every variable of Lifecycle keeps its type.                             *)
(***************************************************************************)
THEOREM TypeCorrect == Spec => []TypeOK
<1>1. IInv => TypeOK
    BY DEF IInv
<1>. QED
    BY Invariance, <1>1, PTL

(***************************************************************************)
(* bitfield.bin has every verified piece once it is written, although      *)
(* Tracker.Close writes it before it stops the torrent's go-routines.      *)
(***************************************************************************)
THEOREM ResumeLosesNothing == Spec => []ResumeComplete
<1>1. IInv => ResumeComplete
    BY DEF IInv
<1>. QED
    BY Invariance, <1>1, PTL

(***************************************************************************)
(* The download is cancelled exactly when a last event was announced to    *)
(* the torrent tracker, and only once.                                     *)
(***************************************************************************)
THEOREM CancelIsOne == Spec => []CancelledOnce
<1>1. IInv => CancelledOnce
    BY DEF IInv, EventInv
<1>. QED
    BY Invariance, <1>1, PTL

(***************************************************************************)
(* WaitFor merges only a torrent all of whose pieces exist.                *)
(***************************************************************************)
THEOREM MergeIsComplete == Spec => []MergeFindsAll
<1>1. IInv => MergeFindsAll
    BY DEF IInv, SignalInv, MergeFindsAll
<1>. QED
    BY Invariance, <1>1, PTL

(***************************************************************************)
(* Every piece of the bitfield, in memory or saved, has a complete file,   *)
(* whatever was killed before, unless a session that could not open        *)
(* bitfield.bin forgot it.                                                 *)
(***************************************************************************)
THEOREM SavedIsOnDisk == Spec => []SavedOnDisk
<1>1. IInv => SavedOnDisk
    BY DEF IInv, DiskInv
<1>. QED
    BY Invariance, <1>1, PTL

(***************************************************************************)
(* No session saves a bitfield that lacks a piece an earlier one saved,    *)
(* unless it was forgotten that way.                                       *)
(***************************************************************************)
THEOREM SavesAreDurable == Spec => []Durable
<1>1. IInv => Durable
    BY DEF IInv, DiskInv
<1>. QED
    BY Invariance, <1>1, PTL

(***************************************************************************)
(* A bitfield.bin that is too short is one whose save did not finish.      *)
(***************************************************************************)
THEOREM StartFailsTorn == Spec => []StartFailsOnlyTorn
<1>1. IInv => StartFailsOnlyTorn
    BY DEF IInv, DiskInv
<1>. QED
    BY Invariance, <1>1, PTL

(***************************************************************************)
(* handlePeer adds no leecher to a torrent that is being closed.           *)
(***************************************************************************)
THEOREM LeechersInTime == Spec => []NoLateLeecher
<1>1. IInv => NoLateLeecher
    BY DEF IInv, OrderInv, NoLateLeecher
<1>. QED
    BY Invariance, <1>1, PTL

=============================================================================
