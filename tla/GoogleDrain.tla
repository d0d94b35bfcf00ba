---------------------------- MODULE GoogleDrain ----------------------------
(***************************************************************************)
(* One Google account: the synchronisation job of                          *)
(* providers/google/googlesync.cpp on top of the event store, with the     *)
(* Google server, other clients of the calendar, and the network.          *)
(*                                                                         *)
(* A job pulls the changes since the sync token, applies them in chunks,   *)
(* takes a snapshot of the ready outbox rows and sends them one by one; a  *)
(* job that finishes without an error lets the daemon resolve conflicts by *)
(* their timestamps.  The daemon has one thread: while a handler runs (the *)
(* phases of Busy) nothing else in the process happens, but a crash can    *)
(* fall between two of its transactions.  Whenever the job waits for the   *)
(* event loop the user's commands run.                                     *)
(*                                                                         *)
(* A request and its reply are one step.  Between the server's decision    *)
(* and the delivery of the reply only user commands (which do not touch    *)
(* the server) and other clients (which do not touch the store) can act,   *)
(* so every order of them is an order around the joint step.               *)
(***************************************************************************)
EXTENDS OutboxStore

CONSTANTS
    Faults,         \* what may go wrong: a subset of FaultNames
    MaxFaults       \* bound: faults in a behaviour

\* unheard_create: the reply to a create is lost, or the daemon dies before it;
\* lost_reply: the reply to an update or a removal is.
FaultNames == {"failure", "lost_reply", "unheard_create", "auth", "crash"}

ASSUME DrainAssumption ==
    /\ Faults \subseteq FaultNames
    /\ MaxFaults \in Nat
    /\ NumForeign + MaxOps <= MaxEtag

VARIABLES
    server,         \* the remote calendar: remote id -> resource
    clock,          \* the number of the newest version at the server
    token,          \* calendars.sync_token: the newest version pulled
    connected,      \* the auth status of the account allows synchronisation
    job,            \* GoogleSync::SyncJob
    faults,         \* faults so far (bound only)
    applied         \* how often the server accepted each row (bound, history)

remoteVars == <<server, clock, applied>>
drainVars == <<storeVars, remoteVars, token, connected, job, faults>>

Resources == [state : {"never", "live", "gone"}, etag : Etags \cup {None},
              content : Contents]

Phases == {"idle", "list", "apply", "drain", "dispatch", "complete", "mutate",
           "hydrate", "reconcile", "settle", "refresh", "resolve"}

\* The phases inside one handler: control does not return to the event loop.
Busy == job.phase \in {"drain", "dispatch", "complete", "settle", "resolve"}

IdleJob == [phase |-> "idle", todo |-> Empty, cursor |-> None, snap |-> Empty,
            item |-> None, refreshed |-> FALSE, open |-> {}]

IsLive(r) == r \in RemoteIds /\ server[r].state = "live"
Changed(r) == server[r].state # "never" /\ server[r].etag > token

Goto(phase) == job' = [job EXCEPT !.phase = phase]
Finish == job' = IdleJob

\* Mutant of NextItem: the index into the snapshot is not advanced.
SameItem == job' = [job EXCEPT !.phase = "dispatch", !.item = None]

\* dispatchNextOutbox after the current row: the snapshot moves on.
NextItem == job' = [job EXCEPT !.phase = "dispatch", !.item = None,
                               !.snap = Restrict(@, DOMAIN @ \ {job.item})]

Fault(f) == f \in Faults /\ faults < MaxFaults /\ faults' = faults + 1
-----------------------------------------------------------------------------
(* Other clients of the remote calendar.                                   *)

Publish(r, state, c) ==
    /\ clock < MaxEtag
    /\ clock' = clock + 1
    /\ server' = [server EXCEPT ![r] = [state |-> state, etag |-> clock + 1,
                                        content |-> c]]

\* Bound: a version is kept back for every mutation not yet accepted.
ForeignAllowed ==
    clock + Cardinality({o \in OpIds : applied[o] = 0}) < MaxEtag

ForeignChange(r, state, c) ==
    /\ ForeignAllowed
    /\ \/ r > MaxOps /\ server[r].state = "never" /\ state = "live"
       \/ server[r].state = "live"
    /\ state \in {"live", "gone"}
    /\ state = "gone" => c = server[r].content
    /\ Publish(r, state, c)
    /\ UNCHANGED <<storeVars, applied, token, connected, job, faults>>
-----------------------------------------------------------------------------
(* The pull.                                                               *)

\* GoogleSync::syncAccount: refused while a job of the account runs.
StartSync ==
    /\ job.phase = "idle" /\ connected
    /\ job' = [IdleJob EXCEPT !.phase = "list"]
    /\ UNCHANGED <<storeVars, remoteVars, token, connected, faults>>

\* Mutant of ListReply: deleted events are not asked for.
ListReplyWithoutDeletions ==
    /\ job.phase = "list"
    /\ job' = [job EXCEPT
                !.phase = "apply", !.cursor = clock,
                !.todo = [r \in {r \in RemoteIds : Changed(r) /\ IsLive(r)}
                             |-> server[r]]]
    /\ UNCHANGED <<storeVars, remoteVars, token, connected, faults>>

\* The last page of events.list: the changes since the token are staged.
ListReply ==
    /\ job.phase = "list"
    /\ job' = [job EXCEPT
                !.phase = "apply", !.cursor = clock,
                !.todo = [r \in {r \in RemoteIds : Changed(r)} |-> server[r]]]
    /\ UNCHANGED <<storeVars, remoteVars, token, connected, faults>>

ListFails ==
    /\ job.phase = "list" /\ Fault("failure")
    /\ Finish
    /\ UNCHANGED <<storeVars, remoteVars, token, connected>>

\* requireReauthorization: the job ends and periodic synchronisation stops
\* until the user connects the account again.
Reauthorize == connected' = FALSE /\ Finish

\* 401 on the list: one token refresh per job, then the page is read again.
ListRefused ==
    /\ job.phase = "list" /\ Fault("auth")
    /\ IF job.refreshed
       THEN Reauthorize
       ELSE job' = [job EXCEPT !.refreshed = TRUE] /\ UNCHANGED connected
    /\ UNCHANGED <<storeVars, remoteVars, token>>

\* Mutant of ApplyChunk: every chunk writes the new sync token.
ApplyChunkTokenFirst(r) ==
    /\ job.phase = "apply" /\ r \in DOMAIN job.todo
    /\ LET change == job.todo[r] IN
        IF change.state = "live"
        THEN ApplyRemote(r, change.etag, change.content)
        ELSE RemoveRemote(r)
    /\ job' = [job EXCEPT !.todo = Restrict(@, DOMAIN @ \ {r}),
                          !.phase = IF DOMAIN job.todo = {r}
                                    THEN "drain" ELSE "apply"]
    /\ token' = job.cursor
    /\ UNCHANGED <<remoteVars, connected, faults>>

\* One chunk of ChunkedSyncApply, scaled down to one change.  A chunk takes up
\* to 32 events and up to 32 deletions, so either kind may come first; the sync
\* token is written with the last chunk.
ApplyChunk(r) ==
    /\ job.phase = "apply" /\ r \in DOMAIN job.todo
    /\ LET change == job.todo[r] IN
        IF change.state = "live"
        THEN ApplyRemote(r, change.etag, change.content)
        ELSE RemoveRemote(r)
    /\ job' = [job EXCEPT !.todo = Restrict(@, DOMAIN @ \ {r}),
                          !.phase = IF DOMAIN job.todo = {r}
                                    THEN "drain" ELSE "apply"]
    /\ token' = IF DOMAIN job.todo = {r} THEN job.cursor ELSE token
    /\ UNCHANGED <<remoteVars, connected, faults>>

ApplyNothing ==
    /\ job.phase = "apply" /\ DOMAIN job.todo = {}
    /\ Goto("drain")
    /\ token' = job.cursor
    /\ UNCHANGED <<storeVars, remoteVars, connected, faults>>
-----------------------------------------------------------------------------
(* The drain.                                                              *)

\* GoogleSync::drainOutbox copies the ready rows into the job.
DrainOutbox ==
    /\ job.phase = "drain"
    /\ job' = [job EXCEPT !.phase = "dispatch",
                          !.snap = [o \in {o \in OpIds : Ready(o)} |-> outbox[o]]]
    /\ UNCHANGED <<storeVars, remoteVars, token, connected, faults>>

\* GoogleSync::dispatchNextOutbox.  The row is marked as it is now, the
\* request will carry what the snapshot says.
DispatchNext(o) ==
    /\ job.phase = "dispatch"
    /\ o \in DOMAIN job.snap /\ \A p \in DOMAIN job.snap : o <= p
    /\ SetState(o, "sending")
    /\ job' = [job EXCEPT !.item = o,
                          !.phase = IF /\ job.snap[o].op = "remove"
                                       /\ job.snap[o].rid = None
                                    THEN "complete" ELSE "mutate"]
    /\ UNCHANGED <<remoteVars, token, connected, faults>>

\* The row was deleted since the snapshot: updateOutboxState finds nothing
\* and the job ends with database_error.
DispatchMissing(o) ==
    /\ job.phase = "dispatch"
    /\ o \in DOMAIN job.snap /\ \A p \in DOMAIN job.snap : o <= p
    /\ o \notin DOMAIN outbox
    /\ Finish
    /\ UNCHANGED <<storeVars, remoteVars, token, connected, faults>>

\* The job ends without an error; the daemon looks at every open conflict.
DispatchDone ==
    /\ job.phase = "dispatch" /\ DOMAIN job.snap = {}
    /\ job' = [IdleJob EXCEPT !.phase = "resolve", !.open = DOMAIN conflicts]
    /\ UNCHANGED <<storeVars, remoteVars, token, connected, faults>>

\* A removal whose payload has no remote id is completed without a request.
CompleteLocally ==
    /\ job.phase = "complete"
    /\ AcknowledgeRemoval(job.item)
    /\ NextItem
    /\ UNCHANGED <<remoteVars, token, connected, faults>>
-----------------------------------------------------------------------------
(* The server's side of a mutation: i is the snapshot of row o.            *)

Target(o, i) == IF i.op = "create" THEN o ELSE i.rid

\* Mutant of Matches: the request carries no If-Match.
MatchesWithoutPrecondition(i) == TRUE

\* If-Match is sent only when the row has an expected revision.
Matches(i) == i.expected = None \/ server[i.rid].etag = i.expected

Accepts(o, i) ==
    IF i.op = "create" THEN server[o].state = "never"
                       ELSE IsLive(i.rid) /\ Matches(i)

ServerApplies(o, i) ==
    /\ Publish(Target(o, i),
               IF i.op = "remove" \/ i.deleted THEN "gone" ELSE "live", i.content)
    /\ applied' = [applied EXCEPT ![o] = @ + 1]

Sent == job.snap[job.item]
Mutating == job.phase = "mutate"

\* Mutant of Complete: the acknowledgement is taken for a failure.
CompleteAsFailure(v) ==
    IF job.item \notin DOMAIN outbox
    THEN UNCHANGED storeVars /\ Finish
    ELSE SetState(job.item, "retry_wait") /\ NextItem

\* Completion of the current row; completeOutbox fails, and with it the job,
\* when the row is gone or the remote id is already taken.
Complete(v) ==
    IF job.item \notin DOMAIN outbox \/ AckCollides(job.item, v)
    THEN UNCHANGED storeVars /\ Finish
    ELSE Acknowledge(job.item, v) /\ NextItem

CompleteRemoval ==
    IF job.item \notin DOMAIN outbox
    THEN UNCHANGED storeVars /\ Finish
    ELSE AcknowledgeRemoval(job.item) /\ NextItem

\* updateOutboxState on the current row, then the next one.
Settle(state) ==
    IF job.item \notin DOMAIN outbox
    THEN UNCHANGED storeVars /\ Finish
    ELSE SetState(job.item, state) /\ NextItem
-----------------------------------------------------------------------------
(* GoogleSync::handleMutationResult, by what the reply is.                 *)

\* 2xx.
MutationAccepted ==
    /\ Mutating
    /\ Accepts(job.item, Sent)
    /\ ServerApplies(job.item, Sent)
    /\ IF Sent.op = "remove"
       THEN CompleteRemoval
       ELSE Complete([rid |-> Target(job.item, Sent), etag |-> clock + 1,
                      content |-> Sent.content])
    /\ UNCHANGED <<token, connected, faults>>

\* The server applied the mutation and the reply was lost: for the client a
\* network error, retried until RetryPolicy's attempts are exhausted.
ReplyLost ==
    /\ Mutating /\ Fault(IF Sent.op = "create" THEN "unheard_create" ELSE "lost_reply")
    /\ Accepts(job.item, Sent)
    /\ ServerApplies(job.item, Sent)
    /\ Settle("retry_wait")
    /\ UNCHANGED <<token, connected>>

\* The request (or the read that follows a refusal) failed.
RequestFails(state) ==
    /\ job.phase \in {"mutate", "hydrate", "reconcile"} /\ Fault("failure")
    /\ Settle(state)
    /\ UNCHANGED <<remoteVars, token, connected>>

\* 401 before the mutation was looked at: the row returns to pending and the
\* same snapshot entry is dispatched again after one token refresh per job.
AuthRefused ==
    /\ job.phase \in {"mutate", "hydrate", "reconcile"} /\ Fault("auth")
    /\ IF job.item \notin DOMAIN outbox
       THEN UNCHANGED <<storeVars, connected>> /\ Finish
       ELSE /\ SetState(job.item, "pending")
            /\ IF job.refreshed
               THEN Reauthorize
               ELSE /\ job' = [job EXCEPT !.phase = "refresh", !.item = None,
                                          !.refreshed = TRUE]
                    /\ UNCHANGED connected
    /\ UNCHANGED <<remoteVars, token>>

TokenRefreshed ==
    /\ job.phase = "refresh"
    /\ Goto("dispatch")
    /\ UNCHANGED <<storeVars, remoteVars, token, connected, faults>>

RefreshRejected ==
    /\ job.phase = "refresh" /\ Fault("auth")
    /\ Reauthorize
    /\ UNCHANGED <<storeVars, remoteVars, token>>

Reconnect ==
    /\ ~connected
    /\ connected' = TRUE
    /\ UNCHANGED <<storeVars, remoteVars, token, job, faults>>

\* 404 or 410 on a removal: already the requested state.
RemovalAlreadyDone ==
    /\ Mutating /\ Sent.op = "remove" /\ ~IsLive(Sent.rid)
    /\ CompleteRemoval
    /\ UNCHANGED <<remoteVars, token, connected, faults>>

\* 404 or 410 on an update: the deletion is applied, which records a conflict
\* on the dirty event; without a remote id there is nothing to apply.
UpdateTargetGone ==
    /\ Mutating /\ Sent.op = "update" /\ ~IsLive(Sent.rid)
    /\ IF Sent.rid = None THEN UNCHANGED storeVars ELSE RemoveRemote(Sent.rid)
    /\ Goto("settle")
    /\ UNCHANGED <<remoteVars, token, connected, faults>>

\* 409 on a create, 412 on an update or a removal: read the remote event.
Refused ==
    /\ Mutating
    /\ \/ Sent.op = "create" /\ ~Accepts(job.item, Sent)
       \/ Sent.op # "create" /\ IsLive(Sent.rid) /\ ~Matches(Sent)
    /\ Goto(IF Sent.op = "create" THEN "reconcile" ELSE "hydrate")
    /\ UNCHANGED <<storeVars, remoteVars, token, connected, faults>>

\* Mutant of Hydrate: the remote event replaces the local one.
HydrateOverEdits ==
    /\ job.phase = "hydrate"
    /\ events' = [e \in DOMAIN events |->
                    IF events[e].rid = Sent.rid
                    THEN [events[e] EXCEPT !.etag = server[Sent.rid].etag,
                                           !.content = server[Sent.rid].content,
                                           !.dirty = FALSE]
                    ELSE events[e]]
    /\ Goto("settle")
    /\ UNCHANGED <<outbox, conflicts, nextOp, edits>>
    /\ UNCHANGED <<remoteVars, token, connected, faults>>

\* The event read after a refusal is applied as a pull would apply it.
Hydrate ==
    /\ job.phase = "hydrate"
    /\ IF IsLive(Sent.rid)
       THEN ApplyRemote(Sent.rid, server[Sent.rid].etag, server[Sent.rid].content)
       ELSE RemoveRemote(Sent.rid)
    /\ Goto("settle")
    /\ UNCHANGED <<remoteVars, token, connected, faults>>

\* A conflict is not retried: the row is blocked.
BlockRow ==
    /\ job.phase = "settle"
    /\ Settle("blocked")
    /\ UNCHANGED <<remoteVars, token, connected, faults>>

\* The event under the deterministic id is the one an earlier attempt made.
Reconcile ==
    /\ job.phase = "reconcile" /\ IsLive(job.item)
    /\ Complete([rid |-> job.item, etag |-> server[job.item].etag,
                 content |-> server[job.item].content])
    /\ UNCHANGED <<remoteVars, token, connected, faults>>

\* It is gone already: asked for again, until the attempts are used up.
ReconcilePending(state) ==
    /\ job.phase = "reconcile" /\ ~IsLive(job.item)
    /\ Settle(state)
    /\ UNCHANGED <<remoteVars, token, connected, faults>>
-----------------------------------------------------------------------------
(* Daemon: after a job without an error, resolveNewestConflicts keeps the  *)
(* newer side of each conflict, and retains it when the timestamps do not  *)
(* tell (a remote deletion has none).                                      *)

ResolveNewest(e) ==
    /\ job.phase = "resolve" /\ e \in job.open
    /\ CASE conflicts[e].newer = "local" -> KeepLocalSnapshot(e)
         [] conflicts[e].newer = "remote" -> KeepRemote(e)
         [] OTHER -> UNCHANGED storeVars
    /\ job' = [job EXCEPT !.open = @ \ {e}]
    /\ UNCHANGED <<remoteVars, token, connected, faults>>

ResolveDone ==
    /\ job.phase = "resolve" /\ job.open = {}
    /\ Finish
    /\ UNCHANGED <<storeVars, remoteVars, token, connected, faults>>
-----------------------------------------------------------------------------
\* The daemon dies and starts again.  A request in flight may have arrived;
\* its reply is then lost.
Crash ==
    /\ Fault("crash")
    /\ \/ UNCHANGED remoteVars
       \/ /\ Mutating /\ (Sent.op = "create" => "unheard_create" \in Faults)
          /\ Accepts(job.item, Sent) /\ ServerApplies(job.item, Sent)
    /\ Recover
    /\ Finish
    /\ UNCHANGED <<token, connected>>

Init ==
    /\ StoreInit
    /\ server \in {[r \in RemoteIds |->
                        IF r > MaxOps
                        THEN [state |-> "live", etag |-> r - MaxOps, content |-> c]
                        ELSE [state |-> "never", etag |-> None, content |-> c]]
                   : c \in Contents}
    /\ clock = NumForeign
    /\ token = None
    /\ connected = TRUE
    /\ job = IdleJob
    /\ faults = 0
    /\ applied = [o \in OpIds |-> 0]

UserTurn ==
    /\ ~Busy
    /\ UserStep
    /\ UNCHANGED <<remoteVars, token, connected, job, faults>>

\* A deadline is a date: it passes whatever the process does.
DeadlinePasses(o) ==
    /\ GraceOver(o) \/ BackoffOver(o)
    /\ UNCHANGED <<remoteVars, token, connected, job, faults>>

Pull == ListReply \/ (\E r \in RemoteIds : ApplyChunk(r)) \/ ApplyNothing

Dispatch ==
    \/ DrainOutbox \/ DispatchDone \/ CompleteLocally
    \/ \E o \in OpIds : DispatchNext(o) \/ DispatchMissing(o)

MutationResult ==
    \/ MutationAccepted \/ RemovalAlreadyDone \/ UpdateTargetGone \/ Refused
    \/ Hydrate \/ BlockRow \/ Reconcile \/ TokenRefreshed
    \/ \E state \in {"retry_wait", "blocked"} : ReconcilePending(state)

Resolution == (\E e \in EventIds : ResolveNewest(e)) \/ ResolveDone

JobStep == Pull \/ Dispatch \/ MutationResult \/ Resolution

FaultStep ==
    \/ ListFails \/ ListRefused \/ ReplyLost \/ AuthRefused \/ RefreshRejected \/ Crash
    \/ \E state \in {"retry_wait", "blocked"} : RequestFails(state)

Foreign ==
    \E r \in RemoteIds, state \in {"live", "gone"}, c \in Contents :
        ForeignChange(r, state, c)

Next ==
    \/ UserTurn \/ StartSync \/ JobStep \/ FaultStep \/ Reconnect \/ Foreign
    \/ \E o \in OpIds : DeadlinePasses(o)

Spec == Init /\ [][Next]_drainVars

\* What the daemon does on its own keeps happening: handlers run, the poll
\* timer or a retry wake starts the next job, and deadlines pass.  RetryPolicy
\* allows six attempts, so a row is not asked for again for ever.
Fairness ==
    /\ WF_drainVars(JobStep)
    /\ WF_drainVars(StartSync)
    /\ \A o \in OpIds : WF_drainVars(DeadlinePasses(o))
    /\ SF_drainVars(ReconcilePending("blocked"))

FairSpec == Spec /\ Fairness

\* A command the job has nothing to do with.  It recovers no row: discard and
\* undo mark an event clean or leave a dirty one without a row, retry sends a
\* finished row again.  It leaves the rows that the job copied and has not
\* settled as they are, and puts nothing behind a create among them.
ApartFromJob ==
    /\ \A e \in EventIds : ~UndoRemove(e)
    /\ \A o \in OpIds : ~DiscardOperation(o) /\ ~RetryOperation(o)
    /\ \A o \in DOMAIN job.snap \cap DOMAIN outbox :
        /\ o \in DOMAIN outbox' /\ outbox'[o] = outbox[o]
        /\ outbox[o].op = "create" =>
            OpsOf(outbox[o].event)' = OpsOf(outbox[o].event)

\* The behaviours up to the first command that meets the job.
CalmNext ==
    \/ UserTurn /\ ApartFromJob
    \/ StartSync \/ JobStep \/ FaultStep \/ Reconnect \/ Foreign
    \/ \E o \in OpIds : DeadlinePasses(o)

CalmSpec == Init /\ [][CalmNext]_drainVars

\* A command that sends no finished row again, and decides no conflict about an
\* event of which the job has copied a row.
Orderly ==
    UserTurn =>
        /\ \A o \in DOMAIN outbox : outbox[o].state = "done" => ~RetryOperation(o)
        /\ \A o \in DOMAIN job.snap \cap DOMAIN outbox : ~ResolveByUser(outbox[o].event)

\* The behaviours up to the first command that is not one.
OrderlySpec == Init /\ [][Next /\ Orderly]_drainVars
-----------------------------------------------------------------------------
(* Properties.                                                             *)

DrainTypeOK ==
    /\ TypeOK
    /\ server \in [RemoteIds -> Resources]
    /\ clock \in 0 .. MaxEtag /\ token \in 0 .. MaxEtag
    /\ connected \in BOOLEAN
    /\ job.phase \in Phases
    /\ DOMAIN job.todo \subseteq RemoteIds
    /\ \A r \in DOMAIN job.todo : job.todo[r] \in Resources
    /\ job.cursor \in 0 .. MaxEtag
    /\ DOMAIN job.snap \subseteq OpIds
    /\ \A o \in DOMAIN job.snap : job.snap[o] \in OutboxRows
    /\ job.item \in OpIds \cup {None}
    /\ job.refreshed \in BOOLEAN
    /\ job.open \subseteq EventIds
    /\ faults \in 0 .. MaxFaults
    /\ applied \in [OpIds -> Nat]

OwnWrite(r) == applied' # applied /\ server'[r] # server[r]

\* "Silent remote overwrite" (docs/THREAT_MODEL.md): this client replaces a
\* version at the server only when the local copy is based on exactly it. It
\* holds in OrderlySpec, and fails when a finished row is sent again or an old
\* conflict is decided under the job (RetryFinished, ConflictDuringDrain).
NoSilentOverwrite ==
    [][\A r \in RemoteIds :
        OwnWrite(r) /\ server[r].state = "live" =>
            \E e \in RowsWith(r) : events[e].etag = server[r].etag]_drainVars

\* "Mutation replay/duplication" (docs/THREAT_MODEL.md): whatever is lost,
\* retried, coalesced, resolved or restarted, the creates queued for one local
\* event never leave two live events at the server.
NoDuplicateRemote ==
    \A o, p \in DOMAIN outbox :
        /\ outbox[o].op = "create" /\ outbox[p].op = "create"
        /\ outbox[o].event = outbox[p].event
        /\ IsLive(o) /\ IsLive(p)
        => o = p

\* An event shown as synchronised says what the server says, or the server
\* has a newer version that has yet to be pulled. It holds in CalmSpec, as
\* Converged and LocalEditRemainsVisible do.
CleanIsFaithful ==
    \A e \in DOMAIN events :
        LET r == events[e].rid IN
        ~events[e].dirty =>
            /\ r # None
            /\ events[e].etag <= server[r].etag
            /\ events[e].etag = server[r].etag /\ server[r].state = "live" =>
                  events[e].content = server[r].content

\* The sync token never gets ahead of the store: a change the token covers is
\* in the local copy, or that copy carries a local edit.
NoMissedChange ==
    \A r \in RemoteIds \ OpIds :
        server[r].state # "never" /\ server[r].etag <= token =>
            IF server[r].state = "live"
            THEN \E e \in RowsWith(r) :
                    events[e].etag = server[r].etag \/ events[e].dirty
            ELSE \A e \in RowsWith(r) : events[e].dirty \/ events[e].deleted

\* An unresolved conflict protects the local edit it is about: while it is
\* open the event stays dirty, so no pull overwrites it.
OpenConflictIsDirty == \A e \in DOMAIN conflicts : events[e].dirty

\* Nothing left to do: the local calendar and the remote one are the same.
Quiet ==
    /\ job.phase = "idle" /\ token = clock
    /\ DOMAIN conflicts = {}
    /\ \A o \in DOMAIN outbox : outbox[o].state = "done"

Converged ==
    Quiet =>
        /\ \A r \in RemoteIds : IsLive(r) =>
            \E e \in RowsWith(r) : /\ events[e].content = server[r].content
                                   /\ ~events[e].deleted
        /\ \A e \in DOMAIN events : IsLive(events[e].rid) \/ events[e].deleted

\* Every step of the engine is a step the store offers to any engine.
StoreRefinement == StoreSpec

\* Every mutation comes to an end: it is finished, it was cancelled, or it or
\* another mutation of the same event is blocked and shown to the user.
Settled(o) ==
    \/ o \notin DOMAIN outbox
    \/ outbox[o].state = "done"
    \/ \E p \in OpsOf(outbox[o].event) : outbox[p].state = "blocked"

EveryMutationSettles == \A o \in OpIds : []<>Settled(o)

\* A queued mutation keeps its event dirty.
QueuedEditIsDirty ==
    \A o \in DOMAIN outbox :
        outbox[o].state \in ActiveStates => events[outbox[o].event].dirty

\* A finished operation is never sent (again).
DoneNeverSentAgain ==
    [][\A o \in DOMAIN outbox \cap DOMAIN outbox' :
        outbox[o].state = "done" => outbox'[o].state # "sending"]_drainVars

\* A mutation in flight names the remote event it is about.
IdentityResolved ==
    Mutating /\ Sent.op # "create" /\ job.item \in DOMAIN outbox =>
        Sent.rid = events[outbox[job.item].event].rid

\* A local edit stays until the user edits again or a conflict is decided. A
\* command that meets the job breaks it (EditDuringDrain).
LocalEditRemainsVisible ==
    [][\A e \in DOMAIN events \cap DOMAIN events' :
        /\ events[e].dirty /\ events'[e].content # events[e].content
        => edits' # edits \/ e \in DOMAIN conflicts]_drainVars

\* Keeping the local side keeps what the event says now, edits made after the
\* conflict was found included.
KeepLocalKeepsEdits ==
    [][\A e \in DOMAIN conflicts \cap DOMAIN events' :
        job.phase = "resolve" /\ e \notin DOMAIN conflicts' /\ events'[e].dirty
            /\ ~conflicts[e].localDeleted
        => events'[e].content = events[e].content]_drainVars

\* An event this client created at the server belongs to a local event, or
\* the operation that created it is still on record.
NoOrphanRemote ==
    \A o \in OpIds :
        IsLive(o) => o \in DOMAIN outbox \/ RowsWith(o) # {}

\* While a create is unfinished no other local event has its identity.
OneRowPerCreate ==
    \A o \in DOMAIN outbox :
        outbox[o].op = "create" /\ outbox[o].state \in ActiveStates =>
            RowsWith(o) \subseteq {outbox[o].event}
=============================================================================
