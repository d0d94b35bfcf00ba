---------------------------- MODULE OutboxProofs ----------------------------
(***************************************************************************)
(* Proofs about the event store, for every number of events, contents,     *)
(* operations and versions.  Three invariants are proved in turn:          *)
(*                                                                         *)
(*   TypeOK is inductive by itself.                                        *)
(*   DependencyOrder is inductive given TypeOK, and the two imply          *)
(*     NoDependencyDeadlock, which is not inductive: a cycle of rows       *)
(*     hanging off a ready row satisfies it, until that row is done.       *)
(*   RemoteIdentityUnique is inductive given TypeOK.                       *)
(***************************************************************************)
EXTENDS OutboxStore, WellFoundedInduction, TLAPS

\* The changes the store makes to one outbox row (state, deadlines, expected
\* revision) give a row again, of the same event.
LEMMA RowChanges ==
    ASSUME NEW row \in OutboxRows, NEW etag \in Etags \cup {None},
           NEW state \in ActiveStates \cup {"done"}
    PROVE  /\ [row EXCEPT !.state = state] \in OutboxRows
           /\ [row EXCEPT !.state = state, !.backoff = FALSE] \in OutboxRows
           /\ [row EXCEPT !.expected = etag] \in OutboxRows
           /\ [row EXCEPT !.grace = FALSE] \in OutboxRows
           /\ [row EXCEPT !.backoff = FALSE] \in OutboxRows
           /\ [row EXCEPT !.state = state].event = row.event
           /\ [row EXCEPT !.state = state, !.backoff = FALSE].event = row.event
           /\ [row EXCEPT !.expected = etag].event = row.event
           /\ [row EXCEPT !.grace = FALSE].event = row.event
           /\ [row EXCEPT !.backoff = FALSE].event = row.event
  BY DEF OutboxRows

\* DELETE FROM events keeps the tables well typed: the outbox rows and the
\* conflict that name the event go with it.
LEMMA DeleteEventParts ==
    ASSUME TypeOK, NEW e, DeleteEvent(e)
    PROVE  EventsOK' /\ OutboxOK' /\ ConflictsOK'
<1> DEFINE rest == DOMAIN outbox \ OpsOf(e)
<1>1. /\ DOMAIN events' = DOMAIN events \ {e}
      /\ \A f \in DOMAIN events' : events'[f] = events[f]
      /\ DOMAIN outbox' = rest
      /\ \A o \in rest : outbox'[o] = outbox[o]
      /\ DOMAIN conflicts' = DOMAIN conflicts \ {e}
      /\ \A f \in DOMAIN conflicts' : conflicts'[f] = conflicts[f]
  BY DEF DeleteEvent, Restrict
<1>2. EventsOK'
  BY <1>1 DEF TypeOK, EventsOK
<1>3. OutboxOK'
  BY <1>1 DEF TypeOK, OutboxOK, OpsOf
<1>4. ConflictsOK'
  BY <1>1 DEF TypeOK, ConflictsOK
<1> QED
  BY <1>2, <1>3, <1>4

\* Folding a mutation into the newest unsent row (saveLocalEvent) preserves TypeOK.
LEMMA CoalesceType ==
    ASSUME TypeOK, NEW e \in EventIds, NEW o, NEW row \in EventRows,
           NEW op \in Operations, Coalesce(e, o, row, op), edits' \in 0 .. MaxEdits
    PROVE  TypeOK'
<1>1. o \in DOMAIN outbox /\ outbox[o].event = e /\ outbox[o] \in OutboxRows
  BY DEF Coalesce, IsNewest, QueuedOps, OpsOf, TypeOK, OutboxOK
<1>2. outbox[o].dep \in OpIds \cup {None}
  BY <1>1 DEF OutboxRows
<1>3. QueueRow(e, op, row, outbox[o].dep) \in OutboxRows
  BY <1>2 DEF QueueRow, OutboxRows, EventRows, ActiveStates
<1>4. \A x \in OutboxRows, y \in Operations : [x EXCEPT !.op = y] \in OutboxRows
  BY DEF OutboxRows
<1>5. EventsOK' /\ DOMAIN events' = DOMAIN events \cup {e}
  BY DEF Coalesce, Put, TypeOK, EventsOK
<1>6. outbox'[o] \in OutboxRows /\ outbox'[o].event = e
  BY <1>1, <1>3, <1>4 DEF Coalesce, Operations, QueueRow
<1>7. OutboxOK'
  BY <1>1, <1>5, <1>6 DEF Coalesce, TypeOK, OutboxOK
<1>8. ConflictsOK' /\ CountersOK'
  BY <1>5 DEF Coalesce, TypeOK, ConflictsOK, CountersOK
<1> QED
  BY <1>5, <1>7, <1>8 DEF TypeOK

\* Inserting a new outbox row (saveLocalEvent) preserves TypeOK.
LEMMA EnqueueType ==
    ASSUME StoreAssumption, TypeOK, NEW e \in EventIds, NEW dep, NEW row \in EventRows,
           NEW op \in Operations, Enqueue(e, dep, row, op), edits' \in 0 .. MaxEdits
    PROVE  TypeOK'
<1>1. dep \in OpIds \cup {None}
  BY DEF Enqueue, IsNewestOrNone, IsNewest, ActiveOps, OpsOf, TypeOK, OutboxOK
<1>2. QueueRow(e, op, row, dep) \in OutboxRows
  BY <1>1 DEF QueueRow, OutboxRows, EventRows, ActiveStates
<1>3. nextOp \in OpIds /\ nextOp' = nextOp + 1
  BY DEF Enqueue, TypeOK, CountersOK, OpIds
<1>4. EventsOK' /\ DOMAIN events' = DOMAIN events \cup {e}
  BY DEF Enqueue, Put, TypeOK, EventsOK
<1>5. OutboxOK'
  BY <1>2, <1>3, <1>4 DEF Enqueue, Put, QueueRow, TypeOK, OutboxOK
<1>6. ConflictsOK' /\ CountersOK'
  BY <1>3, <1>4 DEF Enqueue, TypeOK, ConflictsOK, CountersOK, OpIds, StoreAssumption
<1> QED
  BY <1>4, <1>5, <1>6 DEF TypeOK

\* Database::saveLocalEvent preserves TypeOK, whichever way it queues.
LEMMA SaveLocalEventType ==
    ASSUME StoreAssumption, TypeOK, NEW e \in EventIds, NEW row \in EventRows,
           NEW op \in Operations, SaveLocalEvent(e, row, op), EditAllowed
    PROVE  TypeOK'
<1>1. edits' \in 0 .. MaxEdits
  BY DEF EditAllowed, TypeOK, CountersOK, StoreAssumption
<1>2. ASSUME NEW o, CancelUnsynced(e, o, op) PROVE TypeOK'
  <2>1. EventsOK' /\ OutboxOK' /\ ConflictsOK'
    BY <1>2, DeleteEventParts DEF CancelUnsynced
  <2> QED
    BY <1>1, <1>2, <2>1 DEF CancelUnsynced, TypeOK, CountersOK
<1> QED
  BY <1>1, <1>2, CoalesceType, EnqueueType DEF SaveLocalEvent

\* Creating, updating and removing an event preserve TypeOK: the row that is
\* written keeps the identity the store has, or has none yet.
LEMMA UserEditType ==
    ASSUME StoreAssumption, TypeOK, NEW e \in EventIds, NEW c \in Contents,
           NEW deleted \in BOOLEAN,
           CreateEvent(e, c) \/ UpdateEvent(e, c, deleted) \/ RemoveEvent(e)
    PROVE  TypeOK'
<1>1. CASE CreateEvent(e, c)
  <2>1. [rid |-> None, etag |-> None, content |-> c, dirty |-> TRUE,
         deleted |-> FALSE] \in EventRows
    BY DEF EventRows
  <2> QED
    BY <1>1, <2>1, SaveLocalEventType DEF CreateEvent, Operations
<1>2. CASE UpdateEvent(e, c, deleted)
  <2>1. [events[e] EXCEPT !.content = c, !.dirty = TRUE, !.deleted = deleted]
            \in EventRows
    BY <1>2 DEF UpdateEvent, EventRows, TypeOK, EventsOK
  <2> QED
    BY <1>2, <2>1, SaveLocalEventType DEF UpdateEvent, Operations
<1>3. CASE RemoveEvent(e)
  <2>1. [events[e] EXCEPT !.dirty = TRUE, !.deleted = TRUE] \in EventRows
    BY <1>3 DEF RemoveEvent, EventRows, TypeOK, EventsOK
  <2> QED
    BY <1>3, <2>1, SaveLocalEventType DEF RemoveEvent, Operations
<1> QED
  BY <1>1, <1>2, <1>3

\* Database::discardOutbox preserves TypeOK.
LEMMA DiscardType ==
    ASSUME TypeOK, NEW o, Discard(o)
    PROVE  TypeOK'
<1>1. EventsOK' /\ DOMAIN events' = DOMAIN events
  BY DEF Discard, TypeOK, EventsOK, EventRows, OutboxOK
<1>2. \A p \in DOMAIN outbox :
        /\ [outbox[p] EXCEPT !.state = "done"] \in OutboxRows
        /\ [outbox[p] EXCEPT !.state = "blocked", !.backoff = FALSE] \in OutboxRows
        /\ [outbox[p] EXCEPT !.state = "done"].event = outbox[p].event
        /\ [outbox[p] EXCEPT !.state = "blocked", !.backoff = FALSE].event
                = outbox[p].event
  BY DEF TypeOK, OutboxOK, OutboxRows, ActiveStates
<1>3. OutboxOK'
  BY <1>1, <1>2 DEF Discard, TypeOK, OutboxOK
<1>4. ConflictsOK' /\ CountersOK'
  BY <1>1 DEF Discard, TypeOK, ConflictsOK, CountersOK
<1> QED
  BY <1>1, <1>3, <1>4 DEF TypeOK

\* Database::updateOutboxState preserves TypeOK.
LEMMA SetStateType ==
    ASSUME TypeOK, NEW o, NEW state \in ActiveStates, SetState(o, state)
    PROVE  TypeOK'
<1>1. OutboxOK'
  BY DEF SetState, TypeOK, OutboxOK, OutboxRows
<1> QED
  BY <1>1 DEF SetState, TypeOK, EventsOK, ConflictsOK, CountersOK

\* Marking an event's rows done gives rows of the same events.
LEMMA FinishedType ==
    ASSUME TypeOK, NEW e
    PROVE  /\ DOMAIN Finished(e) = DOMAIN outbox
           /\ \A o \in DOMAIN outbox : /\ Finished(e)[o] \in OutboxRows
                                       /\ Finished(e)[o].event = outbox[o].event
  BY DEF Finished, TypeOK, OutboxOK, OutboxRows

\* Resolving a conflict with the provider's side preserves TypeOK.
LEMMA KeepRemoteType ==
    ASSUME TypeOK, NEW e, KeepRemote(e)
    PROVE  TypeOK'
<1>1. e \in DOMAIN events /\ conflicts[e] \in ConflictRows
  BY DEF KeepRemote, TypeOK, ConflictsOK
<1>2. events[e] \in EventRows
  BY <1>1 DEF TypeOK, EventsOK
<1>3. DOMAIN events' = DOMAIN events
  BY DEF KeepRemote, RemoteSide
<1>4. events'[e] \in EventRows
  BY <1>1, <1>2 DEF KeepRemote, RemoteSide, EventRows, ConflictRows
<1>5. EventsOK'
  BY <1>3, <1>4 DEF KeepRemote, RemoteSide, TypeOK, EventsOK
<1>6. OutboxOK'
  BY <1>3, FinishedType DEF KeepRemote, TypeOK, OutboxOK
<1>7. ConflictsOK' /\ CountersOK'
  BY <1>3 DEF KeepRemote, CloseConflict, Restrict, TypeOK, ConflictsOK, CountersOK
<1> QED
  BY <1>5, <1>6, <1>7 DEF TypeOK

\* Resolving a conflict with a local side preserves TypeOK.
LEMMA KeepLocalType ==
    ASSUME StoreAssumption, TypeOK, NEW e, NEW content \in Contents,
           NEW deleted \in BOOLEAN, KeepLocal(e, content, deleted)
    PROVE  TypeOK'
<1> DEFINE gone == conflicts[e].rev = None
           op == IF gone THEN "create" ELSE "update"
           row == [rid |-> IF gone THEN None ELSE events[e].rid,
                   etag |-> conflicts[e].rev, content |-> content,
                   dirty |-> TRUE, deleted |-> deleted]
<1>1. e \in DOMAIN events /\ e \in EventIds /\ conflicts[e] \in ConflictRows
  BY DEF KeepLocal, TypeOK, ConflictsOK, EventsOK
<1>2. row \in EventRows
  BY <1>1 DEF EventRows, ConflictRows, TypeOK, EventsOK
<1>3. op \in Operations
  BY DEF Operations
<1>4. /\ events' = Put(events, e, row)
      /\ outbox' = Put(Finished(e), nextOp, QueueRow(e, op, row, None))
  BY DEF KeepLocal
<1> HIDE DEF row, op
<1>5. QueueRow(e, op, row, None) \in OutboxRows
  BY <1>2, <1>3, <1>1 DEF QueueRow, OutboxRows, EventRows, ActiveStates
<1>6. nextOp \in OpIds /\ nextOp' = nextOp + 1
  BY DEF KeepLocal, TypeOK, CountersOK, OpIds
<1>7. EventsOK' /\ DOMAIN events' = DOMAIN events
  BY <1>1, <1>2, <1>4 DEF Put, TypeOK, EventsOK
<1>8. OutboxOK'
  BY <1>1, <1>4, <1>5, <1>6, <1>7, FinishedType DEF Put, QueueRow, TypeOK, OutboxOK
<1>9. ConflictsOK' /\ CountersOK'
  BY <1>6, <1>7
     DEF KeepLocal, CloseConflict, Restrict, TypeOK, ConflictsOK, CountersOK,
         OpIds, StoreAssumption
<1> QED
  BY <1>7, <1>8, <1>9 DEF TypeOK

\* Recording a conflict of an existing event keeps the conflicts well typed.
LEMMA RecordConflictType ==
    ASSUME TypeOK, NEW e \in DOMAIN events, NEW rev \in Etags \cup {None},
           NEW remote \in Contents, NEW newer \in Sides,
           RecordConflict(e, rev, remote, newer), UNCHANGED events
    PROVE  ConflictsOK'
<1>1. events[e] \in EventRows
  BY DEF TypeOK, EventsOK
<1>2. [rev |-> rev, remote |-> remote, local |-> events[e].content,
       localDeleted |-> events[e].deleted, newer |-> newer] \in ConflictRows
  BY <1>1 DEF ConflictRows, EventRows
<1> QED
  BY <1>2 DEF RecordConflict, Put, TypeOK, ConflictsOK

\* Database::applyRemoteEventInternal preserves TypeOK.
LEMMA ApplyRemoteType ==
    ASSUME TypeOK, NEW r \in RemoteIds, NEW etag \in Etags, NEW c \in Contents,
           ApplyRemote(r, etag, c)
    PROVE  TypeOK'
<1>1. ASSUME NEW e \in EventIds, e \notin DOMAIN events, UNCHANGED conflicts,
             events' = Put(events, e, [rid |-> r, etag |-> etag, content |-> c,
                                       dirty |-> FALSE, deleted |-> FALSE])
      PROVE  TypeOK'
  <2>1. EventsOK' /\ DOMAIN events' = DOMAIN events \cup {e}
    BY <1>1 DEF Put, EventRows, TypeOK, EventsOK
  <2> QED
    BY <1>1, <2>1 DEF ApplyRemote, TypeOK, OutboxOK, ConflictsOK, CountersOK
<1>2. ASSUME NEW e \in RowsWith(r), UNCHANGED conflicts,
             events' = [events EXCEPT ![e].etag = etag, ![e].content = c,
                                      ![e].deleted = FALSE]
      PROVE  TypeOK'
  <2>1. EventsOK' /\ DOMAIN events' = DOMAIN events
    BY <1>2 DEF RowsWith, EventRows, TypeOK, EventsOK
  <2> QED
    BY <1>2, <2>1 DEF ApplyRemote, TypeOK, OutboxOK, ConflictsOK, CountersOK
<1>3. ASSUME NEW e \in RowsWith(r), UNCHANGED events,
             IF etag # events[e].etag
             THEN \E newer \in Sides : RecordConflict(e, etag, c, newer)
             ELSE UNCHANGED conflicts
      PROVE  TypeOK'
  <2>1. e \in DOMAIN events
    BY <1>3 DEF RowsWith
  <2>2. ConflictsOK'
    BY <1>3, <2>1, RecordConflictType DEF TypeOK, ConflictsOK
  <2> QED
    BY <1>3, <2>2 DEF ApplyRemote, TypeOK, EventsOK, OutboxOK, CountersOK
<1> QED
  BY <1>1, <1>2, <1>3 DEF ApplyRemote

\* Database::removeRemoteEventInternal preserves TypeOK.
LEMMA RemoveRemoteType ==
    ASSUME TypeOK, NEW r, RemoveRemote(r)
    PROVE  TypeOK'
<1>1. CountersOK'
  BY DEF RemoveRemote, TypeOK, CountersOK
<1>2. CASE UNCHANGED <<events, outbox, conflicts>>
  BY <1>1, <1>2 DEF TypeOK, EventsOK, OutboxOK, ConflictsOK
<1>3. ASSUME NEW e, DeleteEvent(e) PROVE TypeOK'
  BY <1>1, <1>3, DeleteEventParts DEF TypeOK
<1>4. ASSUME NEW e \in RowsWith(r), UNCHANGED <<events, outbox>>,
             RecordConflict(e, None, events[e].content, "unknown")
      PROVE  TypeOK'
  <2>1. e \in DOMAIN events /\ events[e].content \in Contents
    BY <1>4 DEF RowsWith, TypeOK, EventsOK, EventRows
  <2>2. ConflictsOK'
    BY <1>4, <2>1, RecordConflictType DEF Sides
  <2> QED
    BY <1>1, <1>4, <2>2 DEF TypeOK, EventsOK, OutboxOK
<1> QED
  BY <1>2, <1>3, <1>4 DEF RemoveRemote

\* Completing a create or an update with the provider's copy preserves TypeOK.
LEMMA AcknowledgeType ==
    ASSUME TypeOK, NEW o, NEW v \in Versions, Acknowledge(o, v)
    PROVE  TypeOK'
<1> DEFINE e == outbox[o].event
<1>1. o \in DOMAIN outbox /\ outbox[o] \in OutboxRows /\ e \in DOMAIN events
  BY DEF Acknowledge, TypeOK, OutboxOK
<1>2. CountersOK'
  BY DEF Acknowledge, TypeOK, CountersOK
<1>3. CASE Purges(o)
  BY <1>2, <1>3, DeleteEventParts DEF Acknowledge, TypeOK
<1>4. CASE ~Purges(o)
  <2>1. events[e] \in EventRows
    BY <1>1 DEF TypeOK, EventsOK
  <2> DEFINE queued == [events[e] EXCEPT !.rid = v.rid, !.etag = v.etag,
                                         !.dirty = TRUE]
             clean == [rid |-> v.rid, etag |-> v.etag, content |-> v.content,
                       dirty |-> FALSE, deleted |-> FALSE]
             later == LaterOps(o)
  <2>2. queued \in EventRows /\ clean \in EventRows
    BY <2>1 DEF EventRows, Versions
  <2>3. /\ events' = [events EXCEPT ![e] = IF later # {} THEN queued ELSE clean]
        /\ outbox' = [p \in DOMAIN outbox |->
                        IF p = o THEN [outbox[p] EXCEPT !.state = "done"]
                        ELSE IF p \in later /\ outbox[p].state \in QueuedStates
                        THEN [outbox[p] EXCEPT !.expected = v.etag]
                        ELSE outbox[p]]
        /\ UNCHANGED conflicts
    BY <1>4 DEF Acknowledge
  <2> HIDE DEF queued, clean, later
  <2>4. EventsOK' /\ DOMAIN events' = DOMAIN events
    BY <1>1, <2>2, <2>3 DEF TypeOK, EventsOK
  <2>5. OutboxOK'
    <3>1. v.etag \in Etags
      BY DEF Versions
    <3>2. \A p \in DOMAIN outbox : outbox[p] \in OutboxRows
      BY DEF TypeOK, OutboxOK
    <3>3. ASSUME NEW p \in DOMAIN outbox
          PROVE  outbox'[p] \in OutboxRows /\ outbox'[p].event = outbox[p].event
      BY <2>3, <3>1, <3>2, RowChanges
    <3> QED
      BY <2>3, <2>4, <3>3 DEF TypeOK, OutboxOK
  <2>6. ConflictsOK'
    BY <2>3, <2>4 DEF TypeOK, ConflictsOK
  <2> QED
    BY <1>2, <2>4, <2>5, <2>6 DEF TypeOK
<1> QED
  BY <1>3, <1>4

\* Completing a row without a provider's copy preserves TypeOK.
LEMMA AcknowledgeRemovalType ==
    ASSUME TypeOK, NEW o, AcknowledgeRemoval(o)
    PROVE  TypeOK'
<1>1. CountersOK'
  BY DEF AcknowledgeRemoval, TypeOK, CountersOK
<1>2. CASE Purges(o)
  BY <1>1, <1>2, DeleteEventParts DEF AcknowledgeRemoval, TypeOK
<1>3. CASE ~Purges(o)
  <2>1. EventsOK' /\ DOMAIN events' = DOMAIN events
    <3>1. outbox[o].event \in DOMAIN events
      BY DEF AcknowledgeRemoval, TypeOK, OutboxOK
    <3>2. [events[outbox[o].event] EXCEPT !.dirty = FALSE] \in EventRows
      BY <3>1 DEF TypeOK, EventsOK, EventRows
    <3> QED
      BY <1>3, <3>1, <3>2 DEF AcknowledgeRemoval, TypeOK, EventsOK
  <2>2. OutboxOK'
    <3>1. \A p \in DOMAIN outbox : outbox[p] \in OutboxRows
      BY DEF TypeOK, OutboxOK
    <3>2. outbox' = [outbox EXCEPT ![o].state = "done"]
      BY <1>3 DEF AcknowledgeRemoval
    <3>3. \A p \in DOMAIN outbox :
            outbox'[p] \in OutboxRows /\ outbox'[p].event = outbox[p].event
      BY <3>1, <3>2 DEF OutboxRows
    <3> QED
      BY <2>1, <3>2, <3>3 DEF TypeOK, OutboxOK
  <2>3. ConflictsOK'
    BY <1>3, <2>1 DEF AcknowledgeRemoval, TypeOK, ConflictsOK
  <2> QED
    BY <1>1, <2>1, <2>2, <2>3 DEF TypeOK
<1> QED
  BY <1>2, <1>3

\* A deadline that passes preserves TypeOK.
LEMMA TimeType ==
    ASSUME TypeOK, NEW o, GraceOver(o) \/ BackoffOver(o)
    PROVE  TypeOK'
<1>1. \A p \in DOMAIN outbox : outbox[p] \in OutboxRows
  BY DEF TypeOK, OutboxOK
<1>2. \A p \in DOMAIN outbox :
        outbox'[p] \in OutboxRows /\ outbox'[p].event = outbox[p].event
  <2>1. CASE GraceOver(o)
    BY <1>1, <2>1 DEF GraceOver, OutboxRows
  <2>2. CASE BackoffOver(o)
    BY <1>1, <2>2 DEF BackoffOver, OutboxRows
  <2> QED
    BY <2>1, <2>2
<1>3. DOMAIN outbox' = DOMAIN outbox /\ UNCHANGED <<events, conflicts, nextOp, edits>>
  BY DEF GraceOver, BackoffOver
<1> QED
  BY <1>2, <1>3 DEF TypeOK, EventsOK, OutboxOK, ConflictsOK, CountersOK

\* Database::recoverExpiredOutbox preserves TypeOK.
LEMMA RecoverType ==
    ASSUME TypeOK, Recover
    PROVE  TypeOK'
<1>1. \A o \in DOMAIN outbox :
        outbox'[o] \in OutboxRows /\ outbox'[o].event = outbox[o].event
  BY RowChanges DEF Recover, TypeOK, OutboxOK, ActiveStates
<1>2. OutboxOK'
  BY <1>1 DEF Recover, TypeOK, OutboxOK
<1> QED
  BY <1>2 DEF Recover, TypeOK, EventsOK, ConflictsOK, CountersOK

\* Every step of the store preserves TypeOK.
LEMMA NextType ==
    ASSUME StoreAssumption, TypeOK, [StoreNext]_storeVars
    PROVE  TypeOK'
<1>1. ASSUME NEW e \in EventIds, NEW c \in Contents, NEW deleted \in BOOLEAN,
             CreateEvent(e, c) \/ UpdateEvent(e, c, deleted) \/ RemoveEvent(e)
      PROVE  TypeOK'
  BY <1>1, UserEditType
<1>2. ASSUME NEW e \in EventIds, RemoveEvent(e) PROVE TypeOK'
  <2>1. events[e].content \in Contents
    BY <1>2 DEF RemoveEvent, TypeOK, EventsOK, EventRows
  <2> QED
    BY <1>1, <1>2, <2>1
<1>3. ASSUME NEW e \in EventIds, UndoRemove(e) PROVE TypeOK'
  BY <1>3, DiscardType DEF UndoRemove
<1>4. ASSUME NEW e \in EventIds, KeepRemote(e) PROVE TypeOK'
  BY <1>4, KeepRemoteType
<1>5. ASSUME NEW e \in EventIds, KeepLocalSnapshot(e) PROVE TypeOK'
  <2>1. conflicts[e] \in ConflictRows
    BY <1>5 DEF KeepLocalSnapshot, TypeOK, ConflictsOK
  <2> QED
    BY <1>5, <2>1, KeepLocalType DEF KeepLocalSnapshot, ConflictRows
<1>6. ASSUME NEW e \in EventIds, ResolveByUser(e) PROVE TypeOK'
  BY <1>4, <1>5, <1>6, KeepLocalType DEF ResolveByUser
<1>7. ASSUME NEW o \in OpIds, DiscardOperation(o) \/ RetryOperation(o) PROVE TypeOK'
  BY <1>7, DiscardType, SetStateType DEF DiscardOperation, RetryOperation, ActiveStates
<1>8. CASE UserStep
  BY <1>1, <1>2, <1>3, <1>6, <1>7, <1>8 DEF UserStep
<1>9. CASE EngineStep
  BY <1>4, <1>5, <1>9, ApplyRemoteType, RemoveRemoteType, SetStateType,
     AcknowledgeType, AcknowledgeRemovalType DEF EngineStep
<1>10. CASE TimeStep
  BY <1>10, TimeType DEF TimeStep
<1>11. CASE Recover
  BY <1>11, RecoverType
<1>12. CASE UNCHANGED storeVars
  BY <1>12 DEF storeVars, TypeOK, EventsOK, OutboxOK, ConflictsOK, CountersOK
<1> QED
  BY <1>8, <1>9, <1>10, <1>11, <1>12 DEF StoreNext

\* The tables stay well typed in every behaviour of the store, and no outbox row
\* or conflict outlives its event (foreign keys of outbox and conflicts).
THEOREM TypeCorrect == StoreSpec => []TypeOK
<1>1. StoreInit => TypeOK
  BY StoreAssumption
     DEF StoreInit, Empty, TypeOK, EventsOK, OutboxOK, ConflictsOK, CountersOK
<1>2. TypeOK /\ [StoreNext]_storeVars => TypeOK'
  BY StoreAssumption, NextType
<1> QED
  BY <1>1, <1>2, PTL DEF StoreSpec

-----------------------------------------------------------------------------
\* No row was added and no row waits for another one than before.
NoNewDependency ==
    /\ nextOp' = nextOp
    /\ DOMAIN outbox' \subseteq DOMAIN outbox
    /\ \A o \in DOMAIN outbox' : outbox'[o].dep = outbox[o].dep

\* A step that adds no row and no dependency preserves DependencyOrder.
LEMMA NoNewDependencyOrder ==
    ASSUME DependencyOrder, NoNewDependency
    PROVE  DependencyOrder'
  BY DEF DependencyOrder, NoNewDependency

\* Deleting an event only takes rows away.
LEMMA DeleteEventOrder ==
    ASSUME NEW e, DeleteEvent(e), UNCHANGED nextOp
    PROVE  NoNewDependency
  BY DEF DeleteEvent, Restrict, NoNewDependency

\* saveLocalEvent preserves DependencyOrder: a coalesced row keeps what it waits
\* for, and a new row waits for a row that has a smaller number.
LEMMA SaveLocalEventOrder ==
    ASSUME TypeOK, DependencyOrder, NEW e, NEW row, NEW op,
           SaveLocalEvent(e, row, op)
    PROVE  DependencyOrder'
<1>1. ASSUME NEW o, CancelUnsynced(e, o, op) PROVE DependencyOrder'
  BY <1>1, DeleteEventOrder, NoNewDependencyOrder DEF CancelUnsynced
<1>2. ASSUME NEW o, Coalesce(e, o, row, op) PROVE DependencyOrder'
  <2>1. NoNewDependency
    BY <1>2 DEF Coalesce, QueueRow, NoNewDependency
  <2> QED
    BY <2>1, NoNewDependencyOrder
<1>3. ASSUME NEW dep, Enqueue(e, dep, row, op) PROVE DependencyOrder'
  <2>1. nextOp \in Nat /\ 0 < nextOp /\ nextOp' = nextOp + 1
    BY <1>3 DEF Enqueue, TypeOK, CountersOK
  <2>2. dep < nextOp
    BY <1>3, <2>1 DEF Enqueue, IsNewestOrNone, IsNewest, ActiveOps, OpsOf,
                      DependencyOrder, None
  <2>3. outbox' = Put(outbox, nextOp, QueueRow(e, op, row, dep))
    BY <1>3 DEF Enqueue
  <2>4. QueueRow(e, op, row, dep).dep = dep
    BY DEF QueueRow
  <2>5. DOMAIN outbox \subseteq Nat
    BY DEF TypeOK, OutboxOK, OpIds
  <2> QED
    BY <2>1, <2>2, <2>3, <2>4, <2>5 DEF Put, DependencyOrder
<1> QED
  BY <1>1, <1>2, <1>3 DEF SaveLocalEvent

\* Keeping a local side of a conflict queues a row that waits for nothing.
LEMMA KeepLocalOrder ==
    ASSUME TypeOK, DependencyOrder, NEW e, NEW content, NEW deleted,
           KeepLocal(e, content, deleted)
    PROVE  DependencyOrder'
<1>1. nextOp \in Nat /\ 0 < nextOp /\ nextOp' = nextOp + 1
  BY DEF KeepLocal, TypeOK, CountersOK
<1>2. PICK row : /\ outbox' = Put(Finished(e), nextOp, row)
                 /\ row.dep = 0
  BY DEF KeepLocal, QueueRow, None
<1>3. /\ DOMAIN Finished(e) = DOMAIN outbox
      /\ \A o \in DOMAIN outbox : Finished(e)[o].dep = outbox[o].dep
  BY DEF Finished, TypeOK, OutboxOK, OutboxRows
<1>4. DOMAIN outbox \subseteq Nat
  BY DEF TypeOK, OutboxOK, OpIds
<1> QED
  BY <1>1, <1>2, <1>3, <1>4 DEF Put, DependencyOrder

\* Every step of the store preserves DependencyOrder.
LEMMA NextOrder ==
    ASSUME TypeOK, DependencyOrder, [StoreNext]_storeVars
    PROVE  DependencyOrder'
<1>1. ASSUME NEW o, Discard(o) PROVE DependencyOrder'
  <2>1. NoNewDependency
    BY <1>1 DEF Discard, NoNewDependency, TypeOK, OutboxOK, OutboxRows
  <2> QED
    BY <2>1, NoNewDependencyOrder
<1>2. ASSUME NEW o, NEW state, SetState(o, state) PROVE DependencyOrder'
  <2>1. NoNewDependency
    BY <1>2 DEF SetState, NoNewDependency, TypeOK, OutboxOK, OutboxRows
  <2> QED
    BY <2>1, NoNewDependencyOrder
<1>3. ASSUME NEW e, KeepRemote(e) PROVE DependencyOrder'
  <2>1. NoNewDependency
    BY <1>3 DEF KeepRemote, Finished, NoNewDependency, TypeOK, OutboxOK, OutboxRows
  <2> QED
    BY <2>1, NoNewDependencyOrder
<1>4. CASE UserStep
  <2>1. ASSUME NEW e, NEW c, NEW deleted,
               CreateEvent(e, c) \/ UpdateEvent(e, c, deleted) \/ RemoveEvent(e)
        PROVE  DependencyOrder'
    BY <2>1, SaveLocalEventOrder DEF CreateEvent, UpdateEvent, RemoveEvent
  <2>2. ASSUME NEW e, UndoRemove(e) \/ ResolveByUser(e) PROVE DependencyOrder'
    BY <1>1, <1>3, <2>2, KeepLocalOrder
       DEF UndoRemove, ResolveByUser, KeepLocalSnapshot
  <2>3. ASSUME NEW o, DiscardOperation(o) \/ RetryOperation(o) PROVE DependencyOrder'
    BY <1>1, <1>2, <2>3 DEF DiscardOperation, RetryOperation
  <2> QED
    BY <1>4, <2>1, <2>2, <2>3 DEF UserStep
<1>5. CASE EngineStep
  <2>1. ASSUME NEW r, NEW etag, NEW c, ApplyRemote(r, etag, c) PROVE DependencyOrder'
    <3>1. NoNewDependency
      BY <2>1 DEF ApplyRemote, NoNewDependency
    <3> QED
      BY <3>1, NoNewDependencyOrder
  <2>2. ASSUME NEW r, RemoveRemote(r) PROVE DependencyOrder'
    <3>1. NoNewDependency
      BY <2>2, DeleteEventOrder DEF RemoveRemote, NoNewDependency
    <3> QED
      BY <3>1, NoNewDependencyOrder
  <2>3. ASSUME NEW o, NEW v, Acknowledge(o, v) PROVE DependencyOrder'
    <3>1. CASE Purges(o)
      BY <2>3, <3>1, DeleteEventOrder, NoNewDependencyOrder DEF Acknowledge
    <3>2. CASE ~Purges(o)
      <4>1. NoNewDependency
        BY <2>3, <3>2 DEF Acknowledge, NoNewDependency, TypeOK, OutboxOK, OutboxRows
      <4> QED
        BY <4>1, NoNewDependencyOrder
    <3> QED
      BY <3>1, <3>2
  <2>4. ASSUME NEW o, AcknowledgeRemoval(o) PROVE DependencyOrder'
    <3>1. CASE Purges(o)
      BY <2>4, <3>1, DeleteEventOrder, NoNewDependencyOrder DEF AcknowledgeRemoval
    <3>2. CASE ~Purges(o)
      <4>1. NoNewDependency
        BY <2>4, <3>2
           DEF AcknowledgeRemoval, NoNewDependency, TypeOK, OutboxOK, OutboxRows
      <4> QED
        BY <4>1, NoNewDependencyOrder
    <3> QED
      BY <3>1, <3>2
  <2>5. ASSUME NEW e, KeepLocalSnapshot(e) PROVE DependencyOrder'
    BY <2>5, KeepLocalOrder DEF KeepLocalSnapshot
  <2> QED
    BY <1>2, <1>3, <1>5, <2>1, <2>2, <2>3, <2>4, <2>5 DEF EngineStep
<1>6. CASE TimeStep \/ Recover
  <2>1. \A o \in DOMAIN outbox : outbox[o] \in OutboxRows
    BY DEF TypeOK, OutboxOK
  <2>2. ASSUME NEW o, GraceOver(o) \/ BackoffOver(o) PROVE NoNewDependency
    BY <2>1, <2>2 DEF GraceOver, BackoffOver, NoNewDependency, OutboxRows
  <2>3. ASSUME Recover PROVE NoNewDependency
    BY <2>1, <2>3 DEF Recover, NoNewDependency, OutboxRows
  <2> QED
    BY <1>6, <2>2, <2>3, NoNewDependencyOrder DEF TimeStep
<1>7. CASE UNCHANGED storeVars
  BY <1>7 DEF storeVars, DependencyOrder
<1> QED
  BY <1>4, <1>5, <1>6, <1>7 DEF StoreNext


\* In every behaviour an outbox row waits only for a row queued before it: the
\* inductive invariant behind NeverDeadlocked.
THEOREM OrderCorrect == StoreSpec => []DependencyOrder
<1>1. StoreInit => TypeOK /\ DependencyOrder
  BY StoreAssumption
     DEF StoreInit, Empty, TypeOK, EventsOK, OutboxOK, ConflictsOK, CountersOK,
         DependencyOrder
<1>2. TypeOK /\ DependencyOrder /\ [StoreNext]_storeVars
        => TypeOK' /\ DependencyOrder'
  BY StoreAssumption, NextType, NextOrder
<1> QED
  BY <1>1, <1>2, PTL DEF StoreSpec

\* A nonempty set of naturals has a least element.
LEMMA LeastNatural ==
    ASSUME NEW S, S \subseteq Nat, S # {}
    PROVE  \E o \in S : \A p \in S : o <= p
<1>1. PICK o \in S : \A p \in S : ~ (<<p, o>> \in OpToRel(<, Nat))
  BY NatLessThanWellFounded, WFMin
<1>2. \A p \in S : ~ (p < o)
  BY <1>1 DEF OpToRel
<1> QED
  BY <1>2

\* The oldest unfinished row can wait only for a finished one.
LEMMA OrderMeansProgress ==
    ASSUME TypeOK, DependencyOrder
    PROVE  NoDependencyDeadlock
<1> DEFINE active == {o \in DOMAIN outbox : outbox[o].state \in ActiveStates}
<1>1. SUFFICES ASSUME active # {}
               PROVE  \E o \in active : DependencyMet(o)
  BY DEF NoDependencyDeadlock
<1>2. active \subseteq Nat
  BY DEF TypeOK, OutboxOK, OpIds
<1>3. PICK o \in active : \A p \in active : o <= p
  BY <1>1, <1>2, LeastNatural
<1>4. CASE outbox[o].dep \notin DOMAIN outbox
  BY <1>4 DEF DependencyMet
<1>5. CASE outbox[o].dep \in DOMAIN outbox
  <2>1. outbox[o].dep < o /\ o \in Nat /\ outbox[o].dep \in Nat
    BY <1>2, <1>5 DEF DependencyOrder, TypeOK, OutboxOK, OpIds
  <2>2. outbox[o].dep \notin active
    BY <1>3, <2>1
  <2>3. outbox[outbox[o].dep].state = "done"
    BY <1>5, <2>2 DEF TypeOK, OutboxOK, OutboxRows
  <2> QED
    BY <2>3 DEF DependencyMet
<1> QED
  BY <1>4, <1>5

\* The queue never blocks itself, whatever is edited, coalesced, discarded,
\* resolved, acknowledged or recovered in whatever order: some unfinished row
\* meets the dependency condition of Database::readyOutbox.
THEOREM NeverDeadlocked == StoreSpec => []NoDependencyDeadlock
<1>1. TypeOK /\ DependencyOrder => NoDependencyDeadlock
  BY OrderMeansProgress
<1> QED
  BY <1>1, TypeCorrect, OrderCorrect, PTL
-----------------------------------------------------------------------------
\* No event that lacked an identity gained one, and none changed its own.
IdentityKept ==
    \A e \in DOMAIN events' :
        events'[e].rid = None \/ (e \in DOMAIN events /\ events'[e].rid = events[e].rid)

\* A step that gives no event a new remote id preserves RemoteIdentityUnique.
LEMMA IdentityKeptUnique ==
    ASSUME RemoteIdentityUnique, IdentityKept
    PROVE  RemoteIdentityUnique'
  BY DEF RemoteIdentityUnique, IdentityKept

\* Giving one event an id that no other event has preserves RemoteIdentityUnique.
LEMMA IdentityGivenUnique ==
    ASSUME RemoteIdentityUnique, NEW e, NEW r, RowsWith(r) \ {e} = {},
           DOMAIN events' \subseteq DOMAIN events \cup {e}, events'[e].rid = r,
           \A f \in DOMAIN events' \ {e} : events'[f].rid = events[f].rid
    PROVE  RemoteIdentityUnique'
  BY DEF RemoteIdentityUnique, RowsWith

\* Deleting an event gives no event a new remote id.
LEMMA DeleteEventIdentity ==
    ASSUME NEW e, DeleteEvent(e)
    PROVE  IdentityKept
  BY DEF DeleteEvent, Restrict, IdentityKept

\* saveLocalEvent gives no event a new remote id, as long as the row it is given
\* carries the stored one or none.
LEMMA SaveLocalEventIdentity ==
    ASSUME NEW e, NEW row, NEW op, SaveLocalEvent(e, row, op),
           row.rid = None \/ (e \in DOMAIN events /\ row.rid = events[e].rid)
    PROVE  IdentityKept
<1>1. ASSUME NEW o, CancelUnsynced(e, o, op) PROVE IdentityKept
  BY <1>1, DeleteEventIdentity DEF CancelUnsynced
<1>2. CASE events' = Put(events, e, row)
  BY <1>2 DEF Put, IdentityKept
<1> QED
  BY <1>1, <1>2 DEF SaveLocalEvent, Coalesce, Enqueue

\* The user's writes give no event a new remote id.
LEMMA UserEditIdentity ==
    ASSUME TypeOK, NEW e, NEW c, NEW deleted,
           CreateEvent(e, c) \/ UpdateEvent(e, c, deleted) \/ RemoveEvent(e)
    PROVE  IdentityKept
<1>1. CASE CreateEvent(e, c)
  BY <1>1, SaveLocalEventIdentity DEF CreateEvent
<1>2. ASSUME e \in DOMAIN events
      PROVE  /\ [events[e] EXCEPT !.content = c, !.dirty = TRUE,
                                  !.deleted = deleted].rid = events[e].rid
             /\ [events[e] EXCEPT !.dirty = TRUE, !.deleted = TRUE].rid
                    = events[e].rid
  BY <1>2 DEF TypeOK, EventsOK, EventRows
<1>3. CASE UpdateEvent(e, c, deleted)
  BY <1>2, <1>3, SaveLocalEventIdentity DEF UpdateEvent
<1>4. CASE RemoveEvent(e)
  BY <1>2, <1>4, SaveLocalEventIdentity DEF RemoveEvent
<1> QED
  BY <1>1, <1>3, <1>4

\* discardOutbox gives no event a new remote id.
LEMMA DiscardIdentity ==
    ASSUME TypeOK, NEW o, Discard(o)
    PROVE  IdentityKept
<1>1. outbox[o].event \in DOMAIN events
  BY DEF Discard, TypeOK, OutboxOK
<1>2. \A e \in DOMAIN events : events[e] \in EventRows
  BY DEF TypeOK, EventsOK
<1> QED
  BY <1>1, <1>2 DEF Discard, IdentityKept, EventRows

\* Resolving a conflict gives no event a new remote id.
LEMMA ResolveIdentity ==
    ASSUME TypeOK, NEW e, NEW content, NEW deleted,
           KeepRemote(e) \/ KeepLocal(e, content, deleted)
    PROVE  IdentityKept
<1>1. e \in DOMAIN events /\ events[e] \in EventRows
  BY DEF KeepRemote, KeepLocal, TypeOK, EventsOK, ConflictsOK
<1>2. CASE KeepRemote(e)
  BY <1>1, <1>2 DEF KeepRemote, RemoteSide, IdentityKept, EventRows
<1>3. CASE KeepLocal(e, content, deleted)
  <2>1. PICK row : /\ events' = Put(events, e, row)
                   /\ row.rid = None \/ row.rid = events[e].rid
    BY <1>3 DEF KeepLocal
  <2> QED
    BY <1>1, <2>1 DEF Put, IdentityKept
<1> QED
  BY <1>2, <1>3

\* applyRemoteEventInternal inserts only an event no row stands for.
LEMMA ApplyRemoteIdentity ==
    ASSUME TypeOK, RemoteIdentityUnique, NEW r, NEW etag, NEW c,
           ApplyRemote(r, etag, c)
    PROVE  RemoteIdentityUnique'
<1>1. ASSUME NEW e, RowsWith(r) = {}, e \notin DOMAIN events,
             events' = Put(events, e, [rid |-> r, etag |-> etag, content |-> c,
                                       dirty |-> FALSE, deleted |-> FALSE])
      PROVE  RemoteIdentityUnique'
  BY <1>1, IdentityGivenUnique DEF Put
<1>2. ASSUME NEW e \in RowsWith(r),
             events' = [events EXCEPT ![e].etag = etag, ![e].content = c,
                                      ![e].deleted = FALSE]
      PROVE  IdentityKept
  BY <1>2 DEF RowsWith, TypeOK, EventsOK, EventRows, IdentityKept
<1>3. CASE UNCHANGED events
  BY <1>3 DEF RemoteIdentityUnique
<1> QED
  BY <1>1, <1>2, <1>3, IdentityKeptUnique DEF ApplyRemote

\* An acknowledgement that the unique index lets through preserves uniqueness.
LEMMA AcknowledgeIdentity ==
    ASSUME TypeOK, RemoteIdentityUnique, NEW o, NEW v, Acknowledge(o, v)
    PROVE  RemoteIdentityUnique'
<1> DEFINE e == outbox[o].event
<1>1. CASE Purges(o)
  BY <1>1, DeleteEventIdentity, IdentityKeptUnique DEF Acknowledge
<1>2. CASE ~Purges(o)
  <2>1. e \in DOMAIN events /\ events[e] \in EventRows
    BY DEF Acknowledge, TypeOK, OutboxOK, EventsOK
  <2>2. RowsWith(v.rid) \ {e} = {}
    BY <1>2 DEF Acknowledge, AckCollides
  <2>3. events'[e].rid = v.rid
    <3>1. [events[e] EXCEPT !.rid = v.rid, !.etag = v.etag, !.dirty = TRUE].rid
            = v.rid
      BY <2>1 DEF EventRows
    <3>2. [rid |-> v.rid, etag |-> v.etag, content |-> v.content,
           dirty |-> FALSE, deleted |-> FALSE].rid = v.rid
      OBVIOUS
    <3>3. CASE LaterOps(o) = {}
      BY <1>2, <2>1, <3>2, <3>3 DEF Acknowledge
    <3>4. CASE LaterOps(o) # {}
      BY <1>2, <2>1, <3>1, <3>4 DEF Acknowledge
    <3> QED
      BY <3>3, <3>4
  <2>4. /\ DOMAIN events' = DOMAIN events
        /\ \A f \in DOMAIN events \ {e} : events'[f] = events[f]
    BY <1>2 DEF Acknowledge
  <2> QED
    BY <2>2, <2>3, <2>4, IdentityGivenUnique
<1> QED
  BY <1>1, <1>2

\* Completing a row without a provider's copy gives no event a new remote id.
LEMMA AcknowledgeRemovalIdentity ==
    ASSUME TypeOK, NEW o, AcknowledgeRemoval(o)
    PROVE  IdentityKept
<1>1. CASE Purges(o)
  BY <1>1, DeleteEventIdentity DEF AcknowledgeRemoval
<1>2. CASE ~Purges(o)
  BY <1>2 DEF AcknowledgeRemoval, TypeOK, OutboxOK, EventsOK, EventRows,
              IdentityKept
<1> QED
  BY <1>1, <1>2

\* Every step of the store preserves RemoteIdentityUnique.
LEMMA NextIdentity ==
    ASSUME TypeOK, RemoteIdentityUnique, [StoreNext]_storeVars
    PROVE  RemoteIdentityUnique'
<1>1. CASE UNCHANGED events
  BY <1>1 DEF RemoteIdentityUnique
<1>2. ASSUME NEW e, UndoRemove(e) \/ ResolveByUser(e) \/ KeepLocalSnapshot(e)
      PROVE  IdentityKept
  BY <1>2, DiscardIdentity, ResolveIdentity
     DEF UndoRemove, ResolveByUser, KeepLocalSnapshot
<1>3. CASE UserStep
  <2>1. ASSUME NEW o, DiscardOperation(o) \/ RetryOperation(o)
        PROVE  IdentityKept \/ UNCHANGED events
    BY <2>1, DiscardIdentity DEF DiscardOperation, RetryOperation, SetState
  <2> QED
    BY <1>1, <1>2, <1>3, <2>1, UserEditIdentity, IdentityKeptUnique DEF UserStep
<1>4. CASE EngineStep
  <2>1. ASSUME NEW r, RemoveRemote(r) PROVE IdentityKept \/ UNCHANGED events
    BY <2>1, DeleteEventIdentity DEF RemoveRemote
  <2>2. ASSUME NEW o, NEW state, SetState(o, state) PROVE UNCHANGED events
    BY <2>2 DEF SetState
  <2> QED
    BY <1>1, <1>2, <1>4, <2>1, <2>2, ApplyRemoteIdentity, AcknowledgeIdentity,
       AcknowledgeRemovalIdentity, ResolveIdentity, IdentityKeptUnique
       DEF EngineStep
<1>5. CASE TimeStep \/ Recover \/ UNCHANGED storeVars
  BY <1>1, <1>5 DEF TimeStep, GraceOver, BackoffOver, Recover, storeVars
<1> QED
  BY <1>3, <1>4, <1>5 DEF StoreNext

\* In every behaviour the events of the calendar carry distinct remote ids:
\* the acknowledgement is the one transaction that needs the unique index
\* events_remote_id_unique to stop it, every other one is right by its own guards.
THEOREM IdentityCorrect == StoreSpec => []RemoteIdentityUnique
<1>1. StoreInit => RemoteIdentityUnique
  BY DEF StoreInit, Empty, RemoteIdentityUnique
<1>2. TypeOK /\ RemoteIdentityUnique /\ [StoreNext]_storeVars
        => RemoteIdentityUnique'
  BY NextIdentity
<1> QED
  BY <1>1, <1>2, TypeCorrect, PTL DEF StoreSpec
=============================================================================
