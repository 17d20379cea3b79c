----------------------------- MODULE Lifecycle ------------------------------
(***************************************************************************)
(* The life of one torrent in the client: run of main.go (WorkOn, WaitFor, *)
(* Close), the client's watch, downloadTorrent, acceptLeechers and         *)
(* handlePeer go-routines, the go-routine of WaitFor, and Tracker.Close.   *)
(* They stand on the engine of module Engine and the disk of module        *)
(* Storage; the process may die at any step and be started again.          *)
(*                                                                         *)
(* Tracker.Downloaded is the size of the torrent exactly when every piece  *)
(* is counted (ExactCount of Download).                                    *)
(***************************************************************************)
EXTENDS Storage

CONSTANTS
    MultiFile,  \* the torrent has more than one file
    Seeding     \* the action is not "leech": leechers are accepted

ASSUME LifecycleAssumption ==
    /\ Pieces # {}
    /\ MultiFile \in BOOLEAN /\ Seeding \in BOOLEAN

VARIABLES
    \* the client
    main,       \* where the go-routine of run is
    done,       \* p.done is closed, and so is the seed server
    ctx,        \* the context of watch is cancelled
    watch,      \* watch runs
    dt,         \* where downloadTorrent is
    event,      \* the event of the announce under way
    sent,       \* observer: the events sent to the torrent tracker
    waiter,     \* where the go-routine of WaitFor is
    result,     \* what it sent to its channel
    accept,     \* acceptLeechers runs
    handler,    \* where handlePeer is with an accepted connection
    crash,      \* the panic that ended the process
    \* the download engine
    counted, verified, sched, recv, completed,   \* as in Engine
    cancel, stop,   \* the two channels that end it
    flush,      \* how far Flush is with a counted piece
    \* observers of the disk
    torn,       \* the last attempt to save bitfield.bin did not finish
    kept,       \* the pieces of all bitfields that were saved
    forgotten   \* those of them a session began without, although they were
                \* saved, and that were not saved with a complete file since

clientVars == <<main, done, ctx, watch, dt, event, sent, waiter, result, accept, handler, crash>>
engineVars == <<counted, verified, sched, recv, completed, cancel, stop, flush>>
diskVars   == <<disk, torn, kept, forgotten>>
vars == <<clientVars, engineVars, diskVars>>

\* Every channel that ends a go-routine of the engine has the same effect.
E == INSTANCE Engine WITH cancel <- cancel \/ stop

\* Every variable of the client, of its engine and of the disk keeps its type.
TypeOK ==
    /\ main \in {"start", "failed", "unread", "handoff", "wait", "join", "save", "saving", "stop", "closed"}
    /\ done \in BOOLEAN /\ ctx \in BOOLEAN
    /\ watch \in {"run", "exited"}
    /\ dt \in {"none", "start", "loop", "announce", "drain", "exited"}
    /\ event \in {"none", "stopped", "completed"}
    /\ sent \in SUBSET {"started", "stopped", "completed"}
    /\ waiter \in {"none", "wait", "merge", "exited"}
    /\ result \in {"none", "ok", "error"}
    /\ accept \in {"run", "exited"}
    /\ handler \in {"none", "read", "add"}
    /\ crash \in {"none", "interval", "nil_response", "nil_conn", "closed_twice"}
    /\ verified \in SUBSET Pieces /\ counted \in SUBSET Pieces
    /\ sched \in {"none", "run", "exited"}
    /\ recv \in {"off", "on", "closing"}
    /\ completed \in BOOLEAN /\ cancel \in BOOLEAN /\ stop \in BOOLEAN
    /\ flush \in [Pieces -> {"no", "open", "done"}]
    /\ StorageTypeOK
    /\ torn \in BOOLEAN /\ kept \in SUBSET Pieces /\ forgotten \in SUBSET Pieces

\* client.New in a directory that has never seen the torrent.
Init ==
    /\ main = "start" /\ done = FALSE /\ ctx = FALSE /\ watch = "run"
    /\ dt = "none" /\ event = "none" /\ sent = {}
    /\ waiter = "none" /\ result = "none"
    /\ accept = (IF Seeding THEN "run" ELSE "exited") /\ handler = "none"
    /\ crash = "none"
    /\ verified = {} /\ counted = {} /\ sched = "none" /\ recv = "off"
    /\ completed = FALSE /\ cancel = FALSE /\ stop = FALSE
    /\ flush = [i \in Pieces |-> "no"]
    /\ StorageInit
    /\ torn = FALSE /\ kept = {} /\ forgotten = {}

\* The process runs.
Alive == crash = "none" /\ main \notin {"failed", "unread", "closed"}

\* A session begins, with what is on disk.
Fresh ==
    /\ main' = "start" /\ done' = FALSE /\ ctx' = FALSE /\ watch' = "run"
    /\ dt' = "none" /\ event' = "none" /\ sent' = {}
    /\ waiter' = "none" /\ result' = "none"
    /\ accept' = (IF Seeding THEN "run" ELSE "exited") /\ handler' = "none"
    /\ crash' = "none"
    /\ verified' = {} /\ counted' = {} /\ sched' = "none" /\ recv' = "off"
    /\ completed' = FALSE /\ cancel' = FALSE /\ stop' = FALSE
    /\ flush' = [i \in Pieces |-> "no"]
    /\ UNCHANGED <<disk, kept, forgotten>>

\* The process is killed and the client started again; a save that the process
\* was in the middle of stays unfinished.
Kill == Alive /\ Fresh /\ torn' = (torn \/ main = "saving")

\* Whichever other way it ended, the user starts the client again.
Restart == ~Alive /\ Fresh /\ UNCHANGED torn

-----------------------------------------------------------------------------
(* run: WorkOn, WaitFor, Close *)

\* WorkOn: NewTracker resumes from bitfield.bin and starts the scheduler.
WorkOn ==
    /\ main = "start" /\ ~LoadFails
    /\ main' = "handoff"
    /\ sched' = "run"
    /\ verified' = saved
    /\ counted' = saved
    /\ UNCHANGED <<done, ctx, watch, dt, event, sent, waiter, result, accept, handler, crash,
                   recv, completed, cancel, stop, flush, diskVars>>

\* An error of os.Open counts as a file that is not there, also when it is.
WorkOnUnopened ==
    /\ main = "start" /\ bin # "absent"
    /\ main' = "handoff"
    /\ sched' = "run"
    /\ verified' = {} /\ counted' = {}
    /\ forgotten' = kept
    /\ UNCHANGED <<done, ctx, watch, dt, event, sent, waiter, result, accept, handler, crash,
                   recv, completed, cancel, stop, flush, disk, torn, kept>>

\* NewTracker fails on a bitfield.bin that is too short: run returns the error.
WorkOnFails ==
    /\ main = "start" /\ LoadFails
    /\ main' = "failed"
    /\ UNCHANGED <<done, ctx, watch, dt, event, sent, waiter, result, accept, handler, crash,
                   engineVars, diskVars>>

\* The file has all its bytes, but the disk does not give them: the same error.
WorkOnUnread ==
    /\ main = "start" /\ bin = "full"
    /\ main' = "unread"
    /\ UNCHANGED <<done, ctx, watch, dt, event, sent, waiter, result, accept, handler, crash,
                   engineVars, diskVars>>

\* p.handler <- h meets the receive in watch; then WaitFor starts its go-routine.
Handoff ==
    /\ main = "handoff" /\ watch = "run"
    /\ main' = "wait" /\ dt' = "start" /\ waiter' = "wait"
    /\ UNCHANGED <<done, ctx, watch, event, sent, result, accept, handler, crash,
                   engineVars, diskVars>>

\* Interrupt, or WaitFor reported an error: Close closes the seed server and done.
Close ==
    /\ main = "wait"
    /\ main' = "join" /\ done' = TRUE
    /\ UNCHANGED <<ctx, watch, dt, event, sent, waiter, result, accept, handler, crash,
                   engineVars, diskVars>>

\* Seeded fault: accepted connections are not waited for.
AllReturnedButHandlers == watch = "exited" /\ dt = "exited" /\ waiter = "exited" /\ accept = "exited"

\* p.wg counts every go-routine of the client, not those of the torrents.
AllReturned ==
    /\ watch = "exited" /\ dt = "exited" /\ waiter = "exited"
    /\ accept = "exited" /\ handler = "none"

\* p.wg.Wait returns; Tracker.Close follows.
Joined ==
    /\ main = "join" /\ AllReturned
    /\ main' = "save"
    /\ UNCHANGED <<done, ctx, watch, dt, event, sent, waiter, result, accept, handler, crash,
                   engineVars, diskVars>>

\* Tracker.Close creates bitfield.bin ...
SaveBegins ==
    /\ main = "save" /\ SaveCreate
    /\ main' = "saving"
    /\ UNCHANGED <<done, ctx, watch, dt, event, sent, waiter, result, accept, handler, crash,
                   engineVars, torn, kept, forgotten>>

\* ... or cannot: there is no directory before the first Flush, or the disk
\* refuses.  The error is dropped.
SaveRefused ==
    /\ main = "save"
    /\ main' = "stop" /\ torn' = (torn \/ dir)
    /\ UNCHANGED <<done, ctx, watch, dt, event, sent, waiter, result, accept, handler, crash,
                   engineVars, disk, kept, forgotten>>

\* ... writes it ...
SaveEnds ==
    /\ main = "saving" /\ SaveWrite(verified)
    /\ main' = "stop" /\ torn' = FALSE /\ kept' = kept \cup verified
    /\ forgotten' = forgotten \ {i \in verified : file[i] = "good"}
    /\ UNCHANGED <<done, ctx, watch, dt, event, sent, waiter, result, accept, handler, crash,
                   engineVars>>

\* ... or not; that error is dropped as well ...
SaveWriteFails ==
    /\ main = "saving"
    /\ main' = "stop" /\ torn' = TRUE
    /\ UNCHANGED <<done, ctx, watch, dt, event, sent, waiter, result, accept, handler, crash,
                   engineVars, disk, kept, forgotten>>

\* ... closes stop, ...
CloseStop ==
    /\ main = "stop" /\ ~stop
    /\ stop' = TRUE
    /\ UNCHANGED <<clientVars, counted, verified, sched, recv, completed, cancel, flush, diskVars>>

\* ... and waits for the go-routines of the torrent.  That those of the upload
\* side end as well is StopDrains of Upload.
CloseReturns ==
    /\ main = "stop" /\ stop
    /\ sched = "exited" /\ recv = "off"
    /\ main' = "closed"
    /\ UNCHANGED <<done, ctx, watch, dt, event, sent, waiter, result, accept, handler, crash,
                   engineVars, diskVars>>

\* watch sees done closed and cancels the context.
WatchDone ==
    /\ watch = "run" /\ done
    /\ watch' = "exited" /\ ctx' = TRUE
    /\ UNCHANGED <<main, done, dt, event, sent, waiter, result, accept, handler, crash,
                   engineVars, diskVars>>

-----------------------------------------------------------------------------
(* acceptLeechers and handlePeer, for one connection at a time *)

Accept ==
    /\ accept = "run" /\ ~done /\ handler = "none"
    /\ handler' = "read"
    /\ UNCHANGED <<main, done, ctx, watch, dt, event, sent, waiter, result, accept, crash,
                   engineVars, diskVars>>

\* Another error than a closed listener is logged, and handlePeer gets a nil
\* connection.
AcceptFails ==
    /\ accept = "run" /\ ~done
    /\ crash' = "nil_conn"
    /\ UNCHANGED <<main, done, ctx, watch, dt, event, sent, waiter, result, accept, handler,
                   engineVars, diskVars>>

\* The seed server is closed.
AcceptEnds ==
    /\ accept = "run" /\ done
    /\ accept' = "exited"
    /\ UNCHANGED <<main, done, ctx, watch, dt, event, sent, waiter, result, handler, crash,
                   engineVars, diskVars>>

\* The handshake came and names a torrent in the map: AddLeecher is called.
HandshakeOk ==
    /\ handler = "read" /\ sched # "none"
    /\ handler' = "add"
    /\ UNCHANGED <<main, done, ctx, watch, dt, event, sent, waiter, result, accept, crash,
                   engineVars, diskVars>>

\* handlePeer returns: no handshake in 30 s, another torrent, or AddLeecher is done.
HandlerEnds ==
    /\ handler # "none"
    /\ handler' = "none"
    /\ UNCHANGED <<main, done, ctx, watch, dt, event, sent, waiter, result, accept, crash,
                   engineVars, diskVars>>

-----------------------------------------------------------------------------
(* The go-routine of WaitFor *)

WaiterDone ==
    /\ waiter = "wait" /\ done
    /\ waiter' = "exited" /\ result' = "error"
    /\ UNCHANGED <<main, done, ctx, watch, dt, event, sent, accept, handler, crash,
                   engineVars, diskVars>>

WaiterCompleted ==
    /\ waiter = "wait" /\ completed
    /\ waiter' = "merge"
    /\ UNCHANGED <<main, done, ctx, watch, dt, event, sent, result, accept, handler, crash,
                   engineVars, diskVars>>

(***************************************************************************)
(* The pieces are merged into the files.  It fails when the bytes of the   *)
(* existing pieces are not those of the torrent, or on a disk error.  In   *)
(* the multi-file case a failing copy is tried again for ever.             *)
(***************************************************************************)
Merge(r) ==
    /\ waiter = "merge"
    /\ r = "ok" => \A i \in Pieces : i \in verified /\ file[i] = "good"
    /\ waiter' = "exited" /\ result' = r
    /\ UNCHANGED <<main, done, ctx, watch, dt, event, sent, accept, handler, crash,
                   engineVars, diskVars>>

-----------------------------------------------------------------------------
(* downloadTorrent *)

\* Seeded fault: the start loop does not look at the context.
StartCancelledNever == FALSE /\ UNCHANGED vars

\* The context is cancelled before the torrent tracker was reached.
StartCancelled ==
    /\ dt = "start" /\ ctx
    /\ dt' = "exited"
    /\ UNCHANGED <<main, done, ctx, watch, event, sent, waiter, result, accept, handler, crash,
                   engineVars, diskVars>>

\* Bytes are missing: UpdateSeeders starts keepers, which start receivers.
UpdateSeeders == recv' = IF counted = Pieces THEN recv ELSE "on"

(***************************************************************************)
(* Announce "started"; a failure is tried again.  Without an interval in   *)
(* the answer downloadTorrent gives up; NewTicker panics on one that is    *)
(* not positive.                                                           *)
(***************************************************************************)
Start(interval) ==
    /\ dt = "start"
    /\ sent' = sent \cup {"started"}
    /\ IF interval = "none" THEN dt' = "exited" /\ UNCHANGED recv
                            ELSE dt' = "loop" /\ UpdateSeeders
    /\ crash' = IF interval = "zero" THEN "interval" ELSE crash
    /\ UNCHANGED <<main, done, ctx, watch, event, waiter, result, accept, handler,
                   counted, verified, sched, cancel, completed, stop, flush, diskVars>>

\* An announce that is not the first one; a regular update has no event.
Announce(e) ==
    /\ dt = "loop"
    /\ dt' = "announce" /\ event' = e
    /\ sent' = IF e = "none" THEN sent ELSE sent \cup {e}
    /\ UNCHANGED <<main, done, ctx, watch, waiter, result, accept, handler, crash,
                   engineVars, diskVars>>

AnnounceStopped   == ctx /\ Announce("stopped")
AnnounceCompleted == completed /\ Announce("completed")

\* A tick: the byte count decides whether the update is the last one.
Tick == Announce(IF counted = Pieces THEN "completed" ELSE "none")

\* Seeded fault: downloadTorrent returns without cancelling the download.
CancelDownloadNot == dt' = "exited" /\ UNCHANGED <<cancel, crash>>

\* Seeded fault: downloadTorrent stays in its loop.
CancelDownloadAndGoOn == /\ dt' = "loop" /\ cancel' = TRUE
                         /\ crash' = IF cancel THEN "closed_twice" ELSE crash

\* CancelDownload closes cancel, which panics the second time, and waits.
CancelDownload == /\ dt' = "drain" /\ cancel' = TRUE
                  /\ crash' = IF cancel THEN "closed_twice" ELSE crash

\* The tracker answered, or the request failed: the download ends.
AnnounceEnds ==
    /\ dt = "announce" /\ event # "none"
    /\ event' = "none"
    /\ CancelDownload
    /\ UNCHANGED <<main, done, ctx, watch, sent, waiter, result, accept, handler,
                   counted, verified, sched, recv, completed, stop, flush, diskVars>>

\* The answer to a regular update has new peers.
UpdateOk ==
    /\ dt = "announce" /\ event = "none"
    /\ dt' = "loop" /\ UpdateSeeders
    /\ UNCHANGED <<main, done, ctx, watch, event, sent, waiter, result, accept, handler, crash,
                   counted, verified, sched, cancel, completed, stop, flush, diskVars>>

\* The request failed: UpdateSeeders is given a nil response, which it reads
\* unless all bytes have arrived meanwhile.
UpdateFailed ==
    /\ dt = "announce" /\ event = "none"
    /\ dt' = "loop" /\ crash' = IF counted # Pieces THEN "nil_response" ELSE crash
    /\ UNCHANGED <<main, done, ctx, watch, event, sent, waiter, result, accept, handler,
                   engineVars, diskVars>>

\* t.download.wg.Wait returns.
Drained ==
    /\ dt = "drain" /\ sched = "exited" /\ recv = "off"
    /\ dt' = "exited"
    /\ UNCHANGED <<main, done, ctx, watch, event, sent, waiter, result, accept, handler, crash,
                   engineVars, diskVars>>

-----------------------------------------------------------------------------
(* The download engine *)

engineRest == <<clientVars, cancel, stop, torn, kept, forgotten>>

\* The last block of piece i arrives.
Count(i) ==
    /\ UNCHANGED <<engineRest, flush, disk>>
    /\ E!Count(i)

\* Its hash is right: Flush begins.
FlushBegins(i) ==
    /\ recv # "off" /\ i \in counted \ verified /\ flush[i] = "no"
    /\ \/ ~dir /\ Mkdir /\ UNCHANGED flush
       \/ FlushCreate(i) /\ flush' = [flush EXCEPT ![i] = "open"]
    /\ UNCHANGED <<engineRest, counted, verified, sched, recv, completed>>

FlushEnds(i) ==
    /\ recv # "off" /\ flush[i] = "open"
    /\ FlushWrite(i) /\ flush' = [flush EXCEPT ![i] = "done"]
    /\ UNCHANGED <<engineRest, counted, verified, sched, recv, completed>>

\* Seeded fault: the bit is set while the piece is being written.
FlushedEarly(i) == flush[i] = "open"

Flushed(i) == flush[i] = "done"

Verify(i) ==
    /\ Flushed(i)
    /\ UNCHANGED <<engineRest, flush, disk>>
    /\ E!Verify(i)

\* The hash is wrong, or Flush fails at either of its steps.
Reject(i) ==
    /\ flush[i] # "done"
    /\ flush' = [flush EXCEPT ![i] = "no"]
    /\ UNCHANGED <<engineRest, disk>>
    /\ E!Reject(i)

SchedComplete == UNCHANGED <<engineRest, flush, disk>> /\ E!SchedComplete
SchedStop     == UNCHANGED <<engineRest, flush, disk>> /\ E!SchedStop
RecvClose     == UNCHANGED <<engineRest, flush, disk>> /\ E!RecvClose
RecvStop      == UNCHANGED <<engineRest, flush, disk>> /\ E!RecvStop

Settle(i) == FlushBegins(i) \/ FlushEnds(i) \/ Verify(i) \/ Reject(i)

-----------------------------------------------------------------------------
DownloadTorrent ==
    \/ StartCancelled \/ AnnounceStopped \/ AnnounceCompleted \/ Tick
    \/ AnnounceEnds \/ UpdateOk \/ UpdateFailed \/ Drained
    \/ \E interval \in {"none", "zero", "some"} : Start(interval)

Waiter == WaiterDone \/ WaiterCompleted \/ \E r \in {"ok", "error"} : Merge(r)

Closing ==
    \/ Joined \/ SaveBegins \/ SaveRefused \/ SaveEnds \/ SaveWriteFails
    \/ CloseStop \/ CloseReturns

Serving == Accept \/ AcceptFails \/ AcceptEnds \/ HandshakeOk \/ HandlerEnds

EngineStep ==
    \/ SchedComplete \/ SchedStop \/ RecvClose \/ RecvStop
    \/ \E i \in Pieces : Count(i) \/ Settle(i)

Run ==
    \/ WorkOn \/ WorkOnUnopened \/ WorkOnFails \/ WorkOnUnread \/ Handoff \/ Close \/ Closing \/ WatchDone
    \/ Serving \/ Waiter \/ DownloadTorrent \/ EngineStep

Next ==
    \/ Alive /\ Run
    \/ Kill \/ Restart

Spec == Init /\ [][Next]_vars

(***************************************************************************)
(* Every go-routine keeps being scheduled.  A request to the torrent       *)
(* tracker ends, with an answer or an error.  A closed channel is ready    *)
(* each time downloadTorrent selects, a tick only once per interval, hence *)
(* strong fairness; the engine drains as Download shows (CancelDrains).    *)
(* handlePeer has a read deadline.  Merging ends, except that a multi-file *)
(* merge need not.  Nobody has to interrupt, kill or restart the client,   *)
(* and no peer has to deliver anything.                                    *)
(***************************************************************************)
Fairness ==
    /\ WF_vars(Alive /\ (WorkOn \/ Handoff \/ Closing)) /\ WF_vars(Alive /\ WatchDone)
    /\ WF_vars(Alive /\ AcceptEnds) /\ WF_vars(Alive /\ HandlerEnds)
    /\ WF_vars(Alive /\ (WaiterDone \/ WaiterCompleted))
    /\ MultiFile \/ WF_vars(Alive /\ \E r \in {"ok", "error"} : Merge(r))
    /\ WF_vars(Alive /\ (StartCancelled \/ AnnounceEnds \/ UpdateOk \/ UpdateFailed \/ Drained))
    /\ SF_vars(Alive /\ (AnnounceStopped \/ AnnounceCompleted))
    /\ WF_vars(Alive /\ (SchedComplete \/ SchedStop)) /\ WF_vars(Alive /\ (RecvClose \/ RecvStop))
    /\ \A i \in Pieces : WF_vars(Alive /\ Settle(i))

FairSpec == Spec /\ Fairness

-----------------------------------------------------------------------------
(* What holds *)

(***************************************************************************)
(* A client that resumes reads exactly the verified pieces, unless the     *)
(* save failed: no receiver verifies a piece after Tracker.Close has       *)
(* written bitfield.bin, although it writes it before it stops the         *)
(* go-routines of the torrent.                                             *)
(***************************************************************************)
ResumeComplete ==
    main \in {"stop", "closed"} /\ ~torn => saved = verified /\ bin # "short"

(***************************************************************************)
(* Whatever died between two writes, in this or an earlier session, every  *)
(* piece of the bitfield, in memory or in bitfield.bin, has a complete     *)
(* file: no session truncates the file of a piece an earlier one saved.    *)
(* The exception are the pieces that were saved when a session could not   *)
(* open bitfield.bin: it takes them for missing and writes their files     *)
(* anew, until a save lists them with complete files again.                *)
(***************************************************************************)
SavedOnDisk == \A i \in (verified \cup saved) \ forgotten : file[i] = "good"

(***************************************************************************)
(* A piece some session saved is in every later bitfield, with the same    *)
(* exception: a bitfield.bin that is too short or cannot be read stops the *)
(* client before it saves a poorer one, one that cannot be opened does     *)
(* not.                                                                    *)
(***************************************************************************)
Durable ==
    /\ bin = "full" => kept \ forgotten \subseteq saved
    /\ sched # "none" => kept \ forgotten \subseteq verified

(***************************************************************************)
(* The client finds bitfield.bin too short only when the last save did not *)
(* finish.  It then refuses to start until somebody removes the file, or   *)
(* it cannot be opened.                                                    *)
(***************************************************************************)
StartFailsOnlyTorn == main = "failed" => torn

(***************************************************************************)
(* No leecher is added to a torrent that is being closed: its go-routines  *)
(* would be added to a wait group that is already waited on.               *)
(***************************************************************************)
NoLateLeecher == handler = "add" => main \notin {"save", "saving", "stop", "closed"}

(***************************************************************************)
(* WaitFor merges the existing pieces only when all of them exist, so that *)
(* "failed to reconstruct torrent from downloaded pieces" is never due to  *)
(* a piece that is missing.                                                *)
(***************************************************************************)
MergeFindsAll == waiter = "merge" => verified = Pieces

\* The events that end a download and were announced.
LastEvents == sent \cap {"stopped", "completed"}

(***************************************************************************)
(* Of the three ways out of the loop of downloadTorrent one is taken:      *)
(* CancelDownload is called exactly when a last event was announced, and   *)
(* once, because closing the cancel channel again would panic.             *)
(***************************************************************************)
CancelledOnce ==
    /\ dt \in {"drain", "exited"} => (cancel <=> LastEvents # {})
    /\ crash # "closed_twice"

\* Client.Close returns, whatever the torrent was doing, or the process dies.
CloseEnds == (main = "join") ~> (main \in {"closed", "start"} \/ crash # "none")

-----------------------------------------------------------------------------
(* What the comments say and the code does not keep *)

(***************************************************************************)
(* Download.completed: "When the torrent finishes downloading the          *)
(* downloaded channel is closed", unless the client is shut down or dies.  *)
(***************************************************************************)
FinishedIsSignalled == (verified = Pieces) ~> (completed \/ done \/ main = "start" \/ crash # "none")

=============================================================================
