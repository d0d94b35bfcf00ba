---------------------------- MODULE OutboxStore ----------------------------
(***************************************************************************)
(* The event store of the daemon (core/database.cpp): the events table,    *)
(* the durable outbox of local mutations waiting for the provider, and the *)
(* unresolved conflicts.  Each action is one database transaction: the     *)
(* user's commands that arrive over IPC, the calls a provider's            *)
(* synchronisation engine makes, the passing of the two deadlines an       *)
(* outbox row carries, and the recovery at daemon start.                   *)
(*                                                                         *)
(* The provider is the most general one: it may apply, remove, acknowledge *)
(* and set states in any order.  GoogleDrain puts the real engine on top   *)
(* and is shown to take only steps of this module.                         *)
(*                                                                         *)
(* The scope is the non-recurring events of one writable calendar of one   *)
(* remote account; a move between calendars is not an operation here.      *)
(***************************************************************************)
EXTENDS Integers, FiniteSets, Functions

CONSTANTS
    EventIds,       \* identities of local event rows (the UUIDs of events.id)
    Contents,       \* what an event says; versions are only compared
    MaxOps,         \* bound: outbox rows ever inserted
    NumForeign,     \* bound: events that other clients own at the provider
    MaxEdits,       \* bound: commands that write an event locally
    MaxEtag,        \* bound: versions the provider ever publishes
    Commands        \* the recovery commands the user may issue

CommandNames == {"undo", "discard", "retry", "resolve"}

ASSUME StoreAssumption ==
    /\ MaxOps \in Nat /\ NumForeign \in Nat
    /\ MaxEdits \in Nat /\ MaxEtag \in Nat
    /\ Commands \subseteq CommandNames

None == 0           \* the empty remote id, etag or dependency

OpIds == 1 .. MaxOps

\* A created event's provider id is derived from the outbox row's idempotency
\* key, so the row's number stands for it; foreign events have the ids above.
RemoteIds == 1 .. (MaxOps + NumForeign)
Etags == 1 .. MaxEtag

Operations == {"create", "update", "remove"}
ActiveStates == {"pending", "sending", "retry_wait", "blocked"}
QueuedStates == {"pending", "retry_wait"}

VARIABLES
    events,         \* the events table: event id -> row
    outbox,         \* the outbox table: operation id -> row
    conflicts,      \* the unresolved conflicts: event id -> conflict
    nextOp,         \* the AUTOINCREMENT of the outbox
    edits           \* how many local writes were made (bound only)

storeVars == <<events, outbox, conflicts, nextOp, edits>>

EventRows ==
    [rid : RemoteIds \cup {None}, etag : Etags \cup {None}, content : Contents,
     dirty : BOOLEAN, deleted : BOOLEAN]

\* grace: not_before lies ahead; backoff: next_attempt_at lies ahead.
\* rid, content and deleted are the payload, the event as it was queued.
OutboxRows ==
    [event : EventIds, op : Operations, state : ActiveStates \cup {"done"},
     dep : OpIds \cup {None}, expected : Etags \cup {None},
     rid : RemoteIds \cup {None}, content : Contents, deleted : BOOLEAN,
     grace : BOOLEAN, backoff : BOOLEAN]

\* rev = None is the revision "deleted"; remote is meaningless with it.
\* newer: what the two snapshots' updated_at timestamps say, "unknown" when one
\* is missing (a deletion has none) or both fall in the same second.
Sides == {"local", "remote", "unknown"}

ConflictRows ==
    [rev : Etags \cup {None}, remote : Contents, local : Contents,
     localDeleted : BOOLEAN, newer : Sides]

\* What an acknowledgement carries: the provider's copy of the event.
Versions == [rid : RemoteIds, etag : Etags, content : Contents]
-----------------------------------------------------------------------------
(* Tables.                                                                 *)

Put(table, key, row) ==
    [k \in DOMAIN table \cup {key} |-> IF k = key THEN row ELSE table[k]]

OpsOf(e) == {o \in DOMAIN outbox : outbox[o].event = e}
ActiveOps(e) == {o \in OpsOf(e) : outbox[o].state \in ActiveStates}
QueuedOps(e) == {o \in OpsOf(e) : outbox[o].state \in QueuedStates}

IsNewest(o, S) == o \in S /\ \A p \in S : p <= o
IsNewestOrNone(o, S) == IF S = {} THEN o = None ELSE IsNewest(o, S)

\* Mutant of DeleteEvent: foreign keys are not enforced on this connection.
DeleteEventWithoutCascade(e) ==
    /\ events' = Restrict(events, DOMAIN events \ {e})
    /\ conflicts' = Restrict(conflicts, DOMAIN conflicts \ {e})
    /\ UNCHANGED outbox

\* DELETE FROM events WHERE id=e: its outbox rows and conflicts go with it.
DeleteEvent(e) ==
    /\ events' = Restrict(events, DOMAIN events \ {e})
    /\ outbox' = Restrict(outbox, DOMAIN outbox \ OpsOf(e))
    /\ conflicts' = Restrict(conflicts, DOMAIN conflicts \ {e})

\* The table after every unfinished row of event e was marked done.
Finished(e) ==
    [o \in DOMAIN outbox |->
        IF outbox[o].event = e THEN [outbox[o] EXCEPT !.state = "done"]
                               ELSE outbox[o]]

\* Mutant of QueueRow: the stored payload drops the provider's identity.
QueueRowWithoutIdentity(e, op, row, dep) ==
    [event |-> e, op |-> op, state |-> "pending", dep |-> dep,
     expected |-> row.etag, rid |-> None, content |-> row.content,
     deleted |-> row.deleted, grace |-> op = "remove", backoff |-> FALSE]

QueueRow(e, op, row, dep) ==
    [event |-> e, op |-> op, state |-> "pending", dep |-> dep,
     expected |-> row.etag, rid |-> row.rid, content |-> row.content,
     deleted |-> row.deleted, grace |-> op = "remove", backoff |-> FALSE]
-----------------------------------------------------------------------------
(* Database::saveLocalEvent: write the event and fold the mutation into    *)
(* the newest row that has not been sent, or queue a row behind it.        *)

\* A removal that meets its own unsent Create cancels both.
CancelUnsynced(e, o, op) ==
    /\ IsNewest(o, QueuedOps(e))
    /\ outbox[o].op = "create" /\ op = "remove"
    /\ DeleteEvent(e)
    /\ UNCHANGED nextOp

\* Mutant of Coalesce: the dependency is looked up again and finds the row.
CoalesceDependingAgain(e, o, row, op) ==
    /\ IsNewest(o, QueuedOps(e))
    /\ ~(outbox[o].op = "create" /\ op = "remove")
    /\ events' = Put(events, e, row)
    /\ \E dep \in ActiveOps(e) :
        /\ IsNewest(dep, ActiveOps(e))
        /\ outbox' =
            [outbox EXCEPT ![o] =
                [QueueRow(e, op, row, dep)
                    EXCEPT !.op = IF outbox[o].op = "create" THEN "create" ELSE op]]
    /\ UNCHANGED <<conflicts, nextOp>>

Coalesce(e, o, row, op) ==
    /\ IsNewest(o, QueuedOps(e))
    /\ ~(outbox[o].op = "create" /\ op = "remove")
    /\ events' = Put(events, e, row)
    /\ outbox' =
        [outbox EXCEPT ![o] =
            [QueueRow(e, op, row, outbox[o].dep)
                EXCEPT !.op = IF outbox[o].op = "create" THEN "create" ELSE op]]
    /\ UNCHANGED <<conflicts, nextOp>>

Enqueue(e, dep, row, op) ==
    /\ QueuedOps(e) = {}
    /\ IsNewestOrNone(dep, ActiveOps(e))
    /\ nextOp <= MaxOps
    /\ events' = Put(events, e, row)
    /\ outbox' = Put(outbox, nextOp, QueueRow(e, op, row, dep))
    /\ nextOp' = nextOp + 1
    /\ UNCHANGED conflicts

SaveLocalEvent(e, row, op) ==
    \/ \E o \in OpIds : CancelUnsynced(e, o, op)
    \/ \E o \in OpIds : Coalesce(e, o, row, op)
    \/ \E dep \in OpIds \cup {None} : Enqueue(e, dep, row, op)
-----------------------------------------------------------------------------
(* The user's commands (Daemon::onEvents..., onConflictsResolve,           *)
(* onOutboxRetry, onOperationsDiscard).                                    *)

EditAllowed == edits < MaxEdits /\ edits' = edits + 1

CreateEvent(e, c) ==
    /\ EditAllowed
    /\ e \notin DOMAIN events
    /\ SaveLocalEvent(e, [rid |-> None, etag |-> None, content |-> c,
                          dirty |-> TRUE, deleted |-> FALSE], "create")

\* Identity and revision stay the stored ones.  A full draft carries
\* deleted = FALSE, a patch leaves the stored flag alone.
UpdateEvent(e, c, deleted) ==
    /\ EditAllowed
    /\ e \in DOMAIN events
    /\ deleted \in {FALSE, events[e].deleted}
    /\ SaveLocalEvent(e, [events[e] EXCEPT !.content = c, !.dirty = TRUE,
                                           !.deleted = deleted], "update")

RemoveEvent(e) ==
    /\ EditAllowed
    /\ e \in DOMAIN events
    /\ SaveLocalEvent(e, [events[e] EXCEPT !.dirty = TRUE, !.deleted = TRUE],
                      "remove")

\* Database::discardOutbox.  A discarded removal restores the event as clean;
\* a discarded create or update leaves the event as it is.
Discard(o) ==
    /\ o \in DOMAIN outbox
    /\ outbox[o].state # "sending"
    /\ outbox' =
        [p \in DOMAIN outbox |->
            IF p = o THEN [outbox[p] EXCEPT !.state = "done"]
            ELSE IF outbox[p].dep = o
                    /\ outbox[p].state \in QueuedStates \cup {"blocked"}
            THEN [outbox[p] EXCEPT !.state = "blocked", !.backoff = FALSE]
            ELSE outbox[p]]
    /\ events' =
        IF outbox[o].op = "remove"
        THEN [events EXCEPT ![outbox[o].event].deleted = FALSE,
                            ![outbox[o].event].dirty = FALSE]
        ELSE events
    /\ UNCHANGED <<conflicts, nextOp, edits>>

DiscardOperation(o) == "discard" \in Commands /\ Discard(o)

\* An undo names a removal by its token, or the event.
UndoRemove(e) ==
    /\ "undo" \in Commands
    /\ \E o \in OpsOf(e) :
        /\ outbox[o].op = "remove" /\ outbox[o].state # "done"
        /\ Discard(o)

\* Database::updateOutboxState: no condition on the state the row is in.
SetState(o, state) ==
    /\ o \in DOMAIN outbox
    /\ outbox' = [outbox EXCEPT ![o].state = state,
                                ![o].backoff = (state = "retry_wait")]
    /\ UNCHANGED <<events, conflicts, nextOp, edits>>

RetryOperation(o) == "retry" \in Commands /\ SetState(o, "pending")
-----------------------------------------------------------------------------
(* Database::resolveConflict, called by the user and, after a pull, by     *)
(* resolveNewestConflicts.                                                 *)

CloseConflict(e) == conflicts' = Restrict(conflicts, DOMAIN conflicts \ {e})

\* Mutant of RemoteSide: the remote revision is taken over, the content is not.
RemoteSideRevisionOnly(e) ==
    [events EXCEPT ![e] =
        IF conflicts[e].rev = None
        THEN [@ EXCEPT !.deleted = TRUE, !.dirty = FALSE]
        ELSE [@ EXCEPT !.etag = conflicts[e].rev,
                       !.deleted = FALSE, !.dirty = FALSE]]

RemoteSide(e) ==
    [events EXCEPT ![e] =
        IF conflicts[e].rev = None
        THEN [@ EXCEPT !.deleted = TRUE, !.dirty = FALSE]
        ELSE [@ EXCEPT !.content = conflicts[e].remote,
                       !.etag = conflicts[e].rev,
                       !.deleted = FALSE, !.dirty = FALSE]]

\* Mutant of KeepRemote: the conflict stays unresolved.
KeepRemoteStaysOpen(e) ==
    /\ e \in DOMAIN conflicts
    /\ outbox' = Finished(e)
    /\ events' = RemoteSide(e)
    /\ UNCHANGED <<conflicts, nextOp, edits>>

\* Mutant of KeepRemote: the queued mutations are not cancelled.
KeepRemoteKeepsQueue(e) ==
    /\ e \in DOMAIN conflicts
    /\ events' = RemoteSide(e)
    /\ CloseConflict(e)
    /\ UNCHANGED <<outbox, nextOp, edits>>

KeepRemote(e) ==
    /\ e \in DOMAIN conflicts
    /\ outbox' = Finished(e)
    /\ events' = RemoteSide(e)
    /\ CloseConflict(e)
    /\ UNCHANGED <<nextOp, edits>>

\* Mutant of KeepLocal: the kept side is always queued as a new event.
KeepLocalAsCreate(e, content, deleted) ==
    /\ e \in DOMAIN conflicts
    /\ nextOp <= MaxOps
    /\ LET row == [rid |-> None, etag |-> None, content |-> content,
                   dirty |-> TRUE, deleted |-> deleted]
       IN  /\ events' = Put(events, e, row)
           /\ outbox' = Put(Finished(e), nextOp, QueueRow(e, "create", row, None))
    /\ nextOp' = nextOp + 1
    /\ CloseConflict(e)
    /\ UNCHANGED edits

\* The snapshot taken when the conflict was found (or the merged event) is
\* saved again on top of the remote revision, as a Create when the remote
\* event is gone.  Every earlier row is done, so a new one is queued.
KeepLocal(e, content, deleted) ==
    /\ e \in DOMAIN conflicts
    /\ nextOp <= MaxOps
    /\ LET gone == conflicts[e].rev = None
           row == [rid |-> IF gone THEN None ELSE events[e].rid,
                   etag |-> conflicts[e].rev, content |-> content,
                   dirty |-> TRUE, deleted |-> deleted]
       IN  /\ events' = Put(events, e, row)
           /\ outbox' = Put(Finished(e), nextOp,
                            QueueRow(e, IF gone THEN "create" ELSE "update",
                                     row, None))
    /\ nextOp' = nextOp + 1
    /\ CloseConflict(e)
    /\ UNCHANGED edits

KeepLocalSnapshot(e) ==
    /\ e \in DOMAIN conflicts
    /\ KeepLocal(e, conflicts[e].local, conflicts[e].localDeleted)

ResolveByUser(e) ==
    /\ "resolve" \in Commands
    /\ \/ KeepRemote(e)
       \/ KeepLocalSnapshot(e)
       \/ \E c \in Contents : KeepLocal(e, c, FALSE)
-----------------------------------------------------------------------------
(* The calls of a synchronisation engine.                                  *)

RowsWith(r) == {e \in DOMAIN events : events[e].rid = r}

\* upsertUnresolvedConflict: one unresolved conflict per event, replaced.
RecordConflict(e, rev, remote, newer) ==
    conflicts' = Put(conflicts, e,
                     [rev |-> rev, remote |-> remote, local |-> events[e].content,
                      localDeleted |-> events[e].deleted, newer |-> newer])

\* Mutant of ApplyRemote: a local edit does not protect the row.
ApplyRemoteOverEdits(r, etag, c) ==
    /\ \/ \E e \in EventIds :
            /\ RowsWith(r) = {} /\ e \notin DOMAIN events
            /\ events' = Put(events, e, [rid |-> r, etag |-> etag, content |-> c,
                                         dirty |-> FALSE, deleted |-> FALSE])
       \/ \E e \in RowsWith(r) :
            events' = [events EXCEPT ![e].etag = etag, ![e].content = c,
                                     ![e].deleted = FALSE, ![e].dirty = FALSE]
    /\ UNCHANGED <<outbox, conflicts, nextOp, edits>>

\* Database::applyRemoteEventInternal: insert, refresh a clean row, or keep a
\* dirty row and record the conflict when the revision is another one.
ApplyRemote(r, etag, c) ==
    /\ \/ \E e \in EventIds :
            /\ RowsWith(r) = {} /\ e \notin DOMAIN events
            /\ events' = Put(events, e, [rid |-> r, etag |-> etag, content |-> c,
                                         dirty |-> FALSE, deleted |-> FALSE])
            /\ UNCHANGED conflicts
       \/ \E e \in RowsWith(r) :
            /\ ~events[e].dirty
            /\ events' = [events EXCEPT ![e].etag = etag, ![e].content = c,
                                        ![e].deleted = FALSE]
            /\ UNCHANGED conflicts
       \/ \E e \in RowsWith(r) :
            /\ events[e].dirty
            /\ IF etag # events[e].etag
               THEN \E newer \in Sides : RecordConflict(e, etag, c, newer)
               ELSE UNCHANGED conflicts
            /\ UNCHANGED events
    /\ UNCHANGED <<outbox, nextOp, edits>>

\* Database::removeRemoteEventInternal.
RemoveRemote(r) ==
    /\ \/ /\ RowsWith(r) = {}
          /\ UNCHANGED <<events, outbox, conflicts>>
       \/ \E e \in RowsWith(r) :
            /\ ~events[e].dirty
            /\ DeleteEvent(e)
       \/ \E e \in RowsWith(r) :
            /\ events[e].dirty
            /\ RecordConflict(e, None, events[e].content, "unknown")
            /\ UNCHANGED <<events, outbox>>
    /\ UNCHANGED <<nextOp, edits>>

LaterOps(o) == ActiveOps(outbox[o].event) \ {o}

\* The acknowledged removal takes its event with it.
Purges(o) == outbox[o].op = "remove" /\ LaterOps(o) = {}

\* Mutant of AckCollides: the unique index on the remote id does not exist.
AckNeverCollides(o, v) == FALSE

\* Writing the acknowledged remote id would break the unique index
\* (calendar_id, remote_id): the transaction rolls back.
AckCollides(o, v) ==
    ~Purges(o) /\ RowsWith(v.rid) \ {outbox[o].event} # {}

\* Database::completeOutbox of a create or an update, with the remote event.
Acknowledge(o, v) ==
    /\ o \in DOMAIN outbox
    /\ ~AckCollides(o, v)
    /\ LET e == outbox[o].event
           later == LaterOps(o)
       IN  IF Purges(o)
           THEN DeleteEvent(e)
           ELSE /\ events' =
                    [events EXCEPT ![e] =
                        IF later # {}
                        THEN [@ EXCEPT !.rid = v.rid, !.etag = v.etag,
                                       !.dirty = TRUE]
                        ELSE [rid |-> v.rid, etag |-> v.etag,
                              content |-> v.content,
                              dirty |-> FALSE, deleted |-> FALSE]]
                /\ outbox' =
                    [p \in DOMAIN outbox |->
                        IF p = o THEN [outbox[p] EXCEPT !.state = "done"]
                        ELSE IF p \in later /\ outbox[p].state \in QueuedStates
                        THEN [outbox[p] EXCEPT !.expected = v.etag]
                        ELSE outbox[p]]
                /\ UNCHANGED conflicts
    /\ UNCHANGED <<nextOp, edits>>

\* Database::completeOutbox without a remote event.
AcknowledgeRemoval(o) ==
    /\ o \in DOMAIN outbox
    /\ LET e == outbox[o].event
           later == LaterOps(o)
       IN  IF Purges(o)
           THEN DeleteEvent(e)
           ELSE /\ outbox' = [outbox EXCEPT ![o].state = "done"]
                /\ events' = IF later = {}
                             THEN [events EXCEPT ![e].dirty = FALSE] ELSE events
                /\ UNCHANGED conflicts
    /\ UNCHANGED <<nextOp, edits>>
-----------------------------------------------------------------------------
(* Time and restart.                                                       *)

\* Database::readyOutbox: a row may be sent when its deadlines have passed and
\* the row it depends on is done or no longer exists.
DependencyMet(o) ==
    LET dep == outbox[o].dep IN
    dep = None \/ dep \notin DOMAIN outbox \/ outbox[dep].state = "done"

Ready(o) ==
    /\ o \in DOMAIN outbox
    /\ outbox[o].state \in QueuedStates
    /\ ~outbox[o].grace /\ ~outbox[o].backoff
    /\ DependencyMet(o)

GraceOver(o) ==
    /\ o \in DOMAIN outbox /\ outbox[o].grace
    /\ outbox' = [outbox EXCEPT ![o].grace = FALSE]
    /\ UNCHANGED <<events, conflicts, nextOp, edits>>

BackoffOver(o) ==
    /\ o \in DOMAIN outbox /\ outbox[o].backoff
    /\ outbox' = [outbox EXCEPT ![o].backoff = FALSE]
    /\ UNCHANGED <<events, conflicts, nextOp, edits>>

\* Mutant of Recover: rows that were being sent keep their lease.
RecoverNothing == UNCHANGED storeVars

\* Database::recoverExpiredOutbox, when the daemon starts.
Recover ==
    /\ outbox' = [o \in DOMAIN outbox |->
                    IF outbox[o].state = "sending"
                    THEN [outbox[o] EXCEPT !.state = "pending", !.backoff = FALSE]
                    ELSE outbox[o]]
    /\ UNCHANGED <<events, conflicts, nextOp, edits>>
-----------------------------------------------------------------------------
Empty == [k \in {} |-> k]

\* The store starts empty; a first pull fills it.
StoreInit ==
    /\ events = Empty
    /\ outbox = Empty
    /\ conflicts = Empty
    /\ nextOp = 1
    /\ edits = 0

UserStep ==
    \/ \E e \in EventIds :
        \/ \E c \in Contents : CreateEvent(e, c)
        \/ \E c \in Contents, deleted \in BOOLEAN : UpdateEvent(e, c, deleted)
        \/ RemoveEvent(e)
        \/ UndoRemove(e)
        \/ ResolveByUser(e)
    \/ \E o \in OpIds : DiscardOperation(o) \/ RetryOperation(o)

EngineStep ==
    \/ \E r \in RemoteIds :
        \/ \E etag \in Etags, c \in Contents : ApplyRemote(r, etag, c)
        \/ RemoveRemote(r)
    \/ \E o \in OpIds :
        \/ \E state \in ActiveStates : SetState(o, state)
        \/ \E v \in Versions : Acknowledge(o, v)
        \/ AcknowledgeRemoval(o)
    \/ \E e \in EventIds : KeepRemote(e) \/ KeepLocalSnapshot(e)

TimeStep == \E o \in OpIds : GraceOver(o) \/ BackoffOver(o)

StoreNext == UserStep \/ EngineStep \/ TimeStep \/ Recover

StoreSpec == StoreInit /\ [][StoreNext]_storeVars
-----------------------------------------------------------------------------
(* Properties.                                                             *)

EventsOK ==
    /\ DOMAIN events \subseteq EventIds
    /\ \A e \in DOMAIN events : events[e] \in EventRows

OutboxOK ==
    /\ DOMAIN outbox \subseteq OpIds
    /\ \A o \in DOMAIN outbox :
        outbox[o] \in OutboxRows /\ outbox[o].event \in DOMAIN events

ConflictsOK ==
    /\ DOMAIN conflicts \subseteq DOMAIN events
    /\ \A e \in DOMAIN conflicts : conflicts[e] \in ConflictRows

CountersOK == nextOp \in 1 .. (MaxOps + 1) /\ edits \in 0 .. MaxEdits

\* Every row has its type, and every outbox row and conflict belongs to an
\* event that still exists (the foreign keys of the schema).
TypeOK == EventsOK /\ OutboxOK /\ ConflictsOK /\ CountersOK

\* A row waits only for a row queued before it (dependency_id of the INSERT in
\* saveLocalEvent, kept by a coalescing update).
DependencyOrder ==
    \A o \in DOMAIN outbox : o < nextOp /\ outbox[o].dep < o

\* The queue cannot block itself: while a row is unfinished, some unfinished
\* row waits for nothing but its own deadlines, its reply or the user.
NoDependencyDeadlock ==
    (\E o \in DOMAIN outbox : outbox[o].state \in ActiveStates) =>
        \E o \in DOMAIN outbox :
            outbox[o].state \in ActiveStates /\ DependencyMet(o)

\* No two events of the calendar carry the same remote id.  The schema has an
\* index for it (events_remote_id_unique); this says that an acknowledgement is
\* the only transaction the index ever has to reject.
RemoteIdentityUnique ==
    \A e, f \in DOMAIN events :
        events[e].rid # None /\ events[e].rid = events[f].rid => e = f
=============================================================================
