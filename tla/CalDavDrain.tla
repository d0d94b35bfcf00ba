----------------------------- MODULE CalDavDrain -----------------------------
(***************************************************************************)
(* The synchronisation job of a CalDAV account (CalDavSync) as one event   *)
(* sees it: the event's row, its outbox rows, two collections of the       *)
(* account, and the resource the event has in each of them.  A job pulls   *)
(* both collections, sends the ready outbox row and follows its replies:   *)
(* creates are reconciled by the client's mutation id, updates carry the   *)
(* ETag they expect, a move is a MOVE or a PUT followed by a DELETE.  The  *)
(* same job slot runs the check whether the server keeps a recurrence      *)
(* range (the this-and-future probe).                                      *)
(*                                                                         *)
(* A request and its reply are one step: between the server's decision and *)
(* the reply only the user acts on the store and only other clients act on *)
(* the server, and neither order makes a difference to the other.  What    *)
(* becomes of a conflict is a matter of OutboxStore; here it stays.        *)
(***************************************************************************)
EXTENDS Naturals, FiniteSets, Sequences

CONSTANTS
    MaxOps,        \* bound: outbox rows ever inserted
    MaxEdits,      \* bound: commands of the user
    MaxForeign,    \* bound: writes of other clients
    Faults,        \* what may go wrong: a subset of FaultNames
    MaxFaults,     \* bound: faults in a behaviour
    Commands,      \* what the user does: a subset of CommandNames
    MaxAttempts    \* RetryOptions::maximumAttempts

FaultNames ==
    {"failure", "lost_reply", "throttled", "unauthorized", "forbidden", "crash"}

\* "overtake": any command may fall on an event while one of its mutations is
\* being sent or a move of it is not acknowledged; without it only the removal
\* of an event whose create is being sent.
CommandNames == {"create", "edit", "remove", "move", "overtake", "credentials", "probe"}

ASSUME CalDavAssumption ==
    /\ MaxOps \in Nat /\ MaxEdits \in Nat /\ MaxForeign \in Nat /\ MaxFaults \in Nat
    /\ MaxAttempts \in Nat \ {0}
    /\ Faults \subseteq FaultNames
    /\ Commands \subseteq CommandNames

VARIABLES
    server,        \* collection -> the resource with the event's file name
    clock,         \* number of the newest version at the server
    synced,        \* collection -> sync token: the newest version pulled
    rows,          \* the events table: row name -> row
    queue,         \* the outbox rows of the event, in the order of their ids
    conflict,      \* the unresolved conflict of the event
    features,      \* what this server does: see Servers
    probe,         \* the resource of the this-and-future probe
    proven,        \* capability thisAndFutureProven of the collection "src"
    job,           \* CalDavSync::SyncJob
    edits, foreign, faults

vars == <<server, clock, synced, rows, queue, conflict, features, probe, proven, job,
          edits, foreign, faults>>
store == <<rows, queue, conflict>>
bounds == <<edits, foreign, faults>>

None == 0
Cals == {"src", "dst"}
Nowhere == "nowhere"
Other(c) == IF c = "src" THEN "dst" ELSE "src"

OpIds == 1..MaxOps

\* uid: it is the event's, not another one under the same name.  stamp: the
\* outbox row whose mutation id the payload carries.
Resources == [state : {"never", "live", "gone"}, etag : Nat, uid : BOOLEAN,
              stamp : OpIds \cup {None}]

\* The user's row is "own"; a pull that finds no row for the resource of a
\* collection inserts one, named after the collection.
RowIds == {"own"} \cup Cals
\* rid: the collection in whose URL the row's remote id lies.
EventRows == [cal : Cals, rid : Cals \cup {Nowhere}, etag : Nat, uid : BOOLEAN,
              dirty : BOOLEAN, deleted : BOOLEAN]

ActiveStates == {"pending", "sending", "retry_wait", "blocked"}
QueuedStates == {"pending", "retry_wait"}

\* from: the source collection of a move; rid: the remote id in the payload;
\* changed: the move also changes the event; wait: a deadline lies ahead;
\* cancelled: the row was deleted before it was sent.
OutboxRows == [op : {"create", "update", "remove", "move"},
               state : ActiveStates \cup {"done"}, dep : OpIds \cup {None},
               cal : Cals, from : Cals \cup {Nowhere}, rid : Cals \cup {Nowhere},
               expected : Nat, attempts : 0..MaxAttempts, changed : BOOLEAN,
               wait : BOOLEAN]

NoConflict == [open |-> FALSE, rev |-> None]

\* etags: a PUT is answered with an ETag.  move: MOVE is offered and works,
\* is offered and answered with 405, or is not offered.  range: a recurrence
\* range survives being stored.
Servers == [etags : BOOLEAN, move : {"works", "refused", "none"}, range : BOOLEAN]

NoRows == [r \in {} |-> r]

Phases == {"idle", "pull", "drain", "put", "delete", "readBack", "lookupCreate",
           "lookupConflict", "move", "putTarget", "readTarget", "readSource",
           "deleteSource", "hydrate", "probeClean", "probePut", "probeRead",
           "probeUpdate", "probeVerify", "probeEnd"}

\* outbox holds the copies of the rows that were ready when the sending began, op
\* the row the job works on; direct: its move went by MOVE; verified: the probe saw
\* the range retained.
IdleJob == [phase |-> "idle", todo |-> {}, outbox |-> NoRows, op |-> None,
            direct |-> FALSE, cancelled |-> FALSE, verified |-> FALSE]

TypeOK ==
    /\ server \in [Cals -> Resources] /\ clock \in Nat
    /\ synced \in [Cals -> 0..clock]
    /\ DOMAIN rows \subseteq RowIds /\ \A r \in DOMAIN rows : rows[r] \in EventRows
    /\ Len(queue) <= MaxOps /\ \A o \in DOMAIN queue : queue[o] \in OutboxRows
    /\ (\E o \in DOMAIN queue : queue[o].state \in ActiveStates) => "own" \in DOMAIN rows
    /\ conflict.rev \in 0..clock
    /\ features \in Servers
    /\ probe \in {"absent", "plain", "range"} /\ proven \in BOOLEAN
    /\ job.phase \in Phases /\ job.todo \subseteq Cals
    /\ DOMAIN job.outbox \subseteq DOMAIN queue
    /\ \A o \in DOMAIN job.outbox : job.outbox[o] \in OutboxRows
    /\ edits \in 0..MaxEdits /\ foreign \in 0..MaxForeign /\ faults \in 0..MaxFaults

Never == [state |-> "never", etag |-> None, uid |-> FALSE, stamp |-> None]

\* Either nothing is known yet or one event was pulled from "src".
Init ==
    /\ features \in Servers
    /\ \/ /\ server = [c \in Cals |-> Never] /\ clock = 0
          /\ rows = NoRows
       \/ /\ server = [src |-> [state |-> "live", etag |-> 1, uid |-> TRUE, stamp |-> None],
                       dst |-> Never]
          /\ clock = 1
          /\ rows = [own |-> [cal |-> "src", rid |-> "src", etag |-> 1, uid |-> TRUE,
                              dirty |-> FALSE, deleted |-> FALSE]]
    /\ synced = [c \in Cals |-> clock]
    /\ queue = <<>> /\ conflict = NoConflict
    /\ probe = "absent" /\ proven = FALSE
    /\ job = IdleJob
    /\ edits = 0 /\ foreign = 0 /\ faults = 0

Live(c) == server[c].state = "live"
Own == rows["own"]
Known == "own" \in DOMAIN rows

Active == {o \in DOMAIN queue : queue[o].state \in ActiveStates}
Queued == {o \in DOMAIN queue : queue[o].state \in QueuedStates}
Newest(S) == IF S = {} THEN None ELSE CHOOSE o \in S : \A p \in S : p <= o
Underway == \E o \in Active : queue[o].op = "move" \/ queue[o].state = "sending"

----------------------------------------------------------------------------
(* The user (Database::saveLocalEvent and moveLocalEvent)                   *)

Budget == edits < MaxEdits /\ edits' = edits + 1
Creating == \A o \in Active : queue[o].op = "create"
MayEdit == Budget /\ (~Underway \/ "overtake" \in Commands)
MayRemove == Budget /\ (~Underway \/ Creating \/ "overtake" \in Commands)

Item(op, row, from, changed) ==
    [op |-> op, state |-> "pending", dep |-> Newest(Active), cal |-> row.cal,
     from |-> from, rid |-> row.rid, expected |-> row.etag, attempts |-> 0,
     changed |-> changed, wait |-> (op = "remove")]

\* Mutant of Fold: the folded row is queued behind itself.
FoldBehindItself(o, op, row) ==
    [queue EXCEPT ![o] = [Item(IF @.op = "create" THEN "create" ELSE op, row, Nowhere, FALSE)
                              EXCEPT !.cal = queue[o].cal]]

\* A mutation folded into the newest row not yet sent; its calendar stays.
Fold(o, op, row) ==
    [queue EXCEPT ![o] = [Item(IF @.op = "create" THEN "create" ELSE op, row, Nowhere, FALSE)
                              EXCEPT !.cal = queue[o].cal, !.dep = queue[o].dep,
                                     !.wait = (op = "remove")]]

SaveLocalEvent(op, row) ==
    LET newest == Newest(Queued)
    IN  \/ /\ newest # None /\ queue[newest].op = "create" /\ op = "remove"
           /\ rows' = [r \in DOMAIN rows \ {"own"} |-> rows[r]]
           /\ queue' = [o \in DOMAIN queue |-> [queue[o] EXCEPT !.state = "done"]]
           /\ conflict' = NoConflict
        \/ /\ newest # None /\ ~(queue[newest].op = "create" /\ op = "remove")
           /\ rows' = [rows EXCEPT !["own"] = row]
           /\ queue' = Fold(newest, op, row)
           /\ UNCHANGED conflict
        \/ /\ newest = None /\ Len(queue) < MaxOps
           /\ rows' = [rows EXCEPT !["own"] = row]
           /\ queue' = Append(queue, Item(op, row, Nowhere, FALSE))
           /\ UNCHANGED conflict

CreateEvent ==
    /\ "create" \in Commands /\ MayEdit
    /\ DOMAIN rows = {} /\ queue = <<>> /\ ~Live("src")
    /\ LET row == [cal |-> "src", rid |-> Nowhere, etag |-> None, uid |-> TRUE,
                   dirty |-> TRUE, deleted |-> FALSE]
       IN  /\ rows' = [own |-> row]
           /\ queue' = <<Item("create", row, Nowhere, FALSE)>>
    /\ UNCHANGED <<server, clock, synced, conflict, features, probe, proven, job,
                   foreign, faults>>

EditEvent ==
    /\ "edit" \in Commands /\ MayEdit /\ Known /\ ~Own.deleted
    /\ SaveLocalEvent("update", [Own EXCEPT !.dirty = TRUE])
    /\ UNCHANGED <<server, clock, synced, features, probe, proven, job, foreign, faults>>

RemoveEvent ==
    /\ "remove" \in Commands /\ MayRemove /\ Known /\ ~Own.deleted
    /\ SaveLocalEvent("remove", [Own EXCEPT !.dirty = TRUE, !.deleted = TRUE])
    /\ UNCHANGED <<server, clock, synced, features, probe, proven, job, foreign, faults>>

\* The other collection must not hold the event already.
MoveEvent(changed) ==
    /\ "move" \in Commands /\ MayEdit /\ Known /\ ~Own.deleted
    /\ Len(queue) < MaxOps
    /\ LET row == [Own EXCEPT !.cal = Other(Own.cal), !.dirty = TRUE]
       IN  /\ \A r \in DOMAIN rows : rows[r].uid => rows[r].cal # row.cal
           /\ rows' = [rows EXCEPT !["own"] = row]
           /\ queue' = Append(queue, Item("move", row, Own.cal, changed))
    /\ UNCHANGED <<server, clock, synced, conflict, features, probe, proven, job,
                   foreign, faults>>

\* The password is entered again: the callbacks of a running job are told to
\* stop.  Refused while a probe is under way.
UpdateCredentials ==
    /\ "credentials" \in Commands /\ edits < MaxEdits /\ edits' = edits + 1
    /\ job.phase \notin {"idle", "probeClean", "probePut", "probeRead", "probeUpdate",
                         "probeVerify", "probeEnd"}
    /\ job' = [job EXCEPT !.cancelled = TRUE]
    /\ UNCHANGED <<server, clock, synced, store, features, probe, proven, foreign, faults>>

----------------------------------------------------------------------------
(* Other clients and time                                                   *)

Foreign(c, resource) ==
    /\ foreign < MaxForeign /\ foreign' = foreign + 1
    /\ server' = [server EXCEPT ![c] = resource]
    /\ clock' = clock + 1
    /\ UNCHANGED <<synced, store, features, probe, proven, job, edits, faults>>

ForeignEdit(c) ==
    Live(c) /\ Foreign(c, [server[c] EXCEPT !.etag = clock + 1])

ForeignDelete(c) ==
    Live(c) /\ Foreign(c, [server[c] EXCEPT !.state = "gone", !.etag = clock + 1])

\* Another event takes the name in the collection.
ForeignCreate(c) ==
    /\ server[c].state = "never"
    /\ Foreign(c, [state |-> "live", etag |-> clock + 1, uid |-> FALSE, stamp |-> None])

DeadlineOver(o) ==
    /\ o \in DOMAIN queue /\ queue[o].wait
    /\ queue' = [queue EXCEPT ![o].wait = FALSE]
    /\ UNCHANGED <<server, clock, synced, rows, conflict, features, probe, proven, job,
                   bounds>>

\* The daemon dies and starts again (Database::recoverExpiredOutbox).
Crash ==
    /\ "crash" \in Faults /\ faults < MaxFaults /\ faults' = faults + 1
    /\ job.phase # "idle"
    /\ job' = IdleJob
    /\ queue' = [o \in DOMAIN queue |->
                    IF queue[o].state = "sending"
                    THEN [queue[o] EXCEPT !.state = "pending"] ELSE queue[o]]
    /\ UNCHANGED <<server, clock, synced, rows, conflict, features, probe, proven, edits,
                   foreign>>

----------------------------------------------------------------------------
(* The pull                                                                 *)

StartJob ==
    /\ job.phase = "idle"
    /\ (\E c \in Cals : server[c].etag > synced[c]) \/ \E o \in Queued : ~queue[o].wait
    /\ job' = [IdleJob EXCEPT !.phase = "pull", !.todo = Cals]
    /\ UNCHANGED <<server, clock, synced, store, features, probe, proven, bounds>>

\* activeMoveReservesRemote: a pull leaves the source of an unfinished move
\* alone.  (For the target it compares the remote id of the source, which is
\* the URL in the other collection.)
Reserved(c) ==
    \E o \in Active : queue[o].op = "move" /\ queue[o].rid = c /\ queue[o].from = c

RowsAt(c) == {r \in DOMAIN rows : rows[r].cal = c /\ rows[r].rid = c}

RowOf(c) == [cal |-> c, rid |-> c, etag |-> server[c].etag, uid |-> server[c].uid,
             dirty |-> FALSE, deleted |-> FALSE]

Conflict(rev) == [open |-> TRUE, rev |-> rev]

\* UNIQUE(calendar_id, uid, recurrence_id): the event is already in the calendar
\* with another remote id, or none, and the batch of the pull fails.
Clash(c) ==
    /\ server[c].etag > synced[c] /\ Live(c) /\ ~Reserved(c) /\ RowsAt(c) = {}
    /\ \E r \in DOMAIN rows : rows[r].cal = c /\ rows[r].uid /\ server[c].uid

ApplyRemote(c) ==
    \/ Reserved(c) /\ UNCHANGED <<rows, conflict>>
    \/ /\ ~Reserved(c) /\ RowsAt(c) = {}
       /\ rows' = [r \in DOMAIN rows \cup {c} |->
                     IF r = c THEN RowOf(c) ELSE rows[r]]
       /\ UNCHANGED conflict
    \/ /\ ~Reserved(c)
       /\ \E r \in RowsAt(c) :
            /\ ~rows[r].dirty
            /\ rows' = [rows EXCEPT ![r].etag = server[c].etag, ![r].deleted = FALSE]
            /\ UNCHANGED conflict
    \/ /\ ~Reserved(c)
       /\ \E r \in RowsAt(c) :
            /\ rows[r].dirty
            /\ conflict' = IF server[c].etag # rows[r].etag THEN Conflict(server[c].etag)
                           ELSE conflict
            /\ UNCHANGED rows

\* Mutant of RemoveRemote: a local change is no reason to keep the row.
RemoveRemoteDirty(c) ==
    /\ rows' = [r \in DOMAIN rows \ RowsAt(c) |-> rows[r]]
    /\ UNCHANGED conflict

RemoveRemote(c) ==
    \/ RowsAt(c) = {} /\ UNCHANGED <<rows, conflict>>
    \/ \E r \in RowsAt(c) :
        /\ ~rows[r].dirty
        /\ rows' = [s \in DOMAIN rows \ {r} |-> rows[s]]
        /\ UNCHANGED conflict
    \/ \E r \in RowsAt(c) :
        /\ rows[r].dirty
        /\ conflict' = Conflict(None)
        /\ UNCHANGED rows

DependencyMet(o) == queue[o].dep # None => queue[queue[o].dep].state = "done"

Ready(o) == queue[o].state \in QueuedStates /\ ~queue[o].wait /\ DependencyMet(o)

\* drainOutbox: the ready rows are copied, and the copies are sent.
DrainOutbox == [job EXCEPT !.todo = {}, !.phase = "drain",
                           !.outbox = [o \in {p \in DOMAIN queue : Ready(p)} |-> queue[o]]]

\* One collection: the changes since its token, applied with the new token.  A
\* leftover of the probe is a resource of the collection like any other.
Pull(c) ==
    /\ job.phase = "pull" /\ c \in job.todo /\ ~job.cancelled /\ ~Clash(c)
    /\ \/ server[c].etag <= synced[c] /\ UNCHANGED <<rows, conflict>>
       \/ server[c].etag > synced[c] /\ Live(c) /\ ApplyRemote(c)
       \/ server[c].etag > synced[c] /\ ~Live(c) /\ RemoveRemote(c)
    /\ synced' = [synced EXCEPT ![c] = clock]
    /\ proven' = (proven \/ (c = "src" /\ probe = "range"))
    /\ job' = IF job.todo = {c} THEN DrainOutbox ELSE [job EXCEPT !.todo = @ \ {c}]
    /\ UNCHANGED <<server, clock, queue, features, probe, bounds>>

\* Mutant of PullStops: the token is stored before the batch.
PullStopsAdvancing ==
    /\ job.phase = "pull"
    /\ "failure" \in Faults /\ faults < MaxFaults /\ faults' = faults + 1
    /\ job' = IdleJob
    /\ synced' = [c \in Cals |-> clock]
    /\ UNCHANGED <<server, clock, store, features, probe, proven, edits, foreign>>

\* The job ends: its credentials were replaced, a request of the pull failed or
\* its batch was refused by the store.
PullStops ==
    /\ job.phase = "pull"
    /\ \/ job.cancelled /\ UNCHANGED faults
       \/ (\E c \in job.todo : Clash(c)) /\ UNCHANGED faults
       \/ "failure" \in Faults /\ faults < MaxFaults /\ faults' = faults + 1
    /\ job' = IdleJob
    /\ UNCHANGED <<server, clock, synced, store, features, probe, proven, edits, foreign>>

----------------------------------------------------------------------------
(* Sending (dispatchNextOutbox)                                             *)

Attempt(o) == IF job.outbox[o].attempts < MaxAttempts THEN job.outbox[o].attempts + 1
              ELSE MaxAttempts

\* The attempt is counted when the row is marked as being sent.
Send(o, phase) ==
    /\ queue' = [queue EXCEPT ![o].state = "sending", ![o].attempts = Attempt(o)]
    /\ job' = [job EXCEPT !.phase = phase, !.op = o, !.direct = (phase = "move")]

SetItem(o, state) == queue' = [queue EXCEPT ![o].state = state,
                                            ![o].wait = (state = "retry_wait")]

\* DELETE FROM events WHERE calendar_id=? AND uid=?
OwnRemoved ==
    /\ rows' = [r \in {s \in DOMAIN rows : rows[s].uid => rows[s].cal # Own.cal} |-> rows[r]]
    /\ conflict' = NoConflict

\* The copy is what is sent, whatever was folded into the row since.  (A move waits
\* for the create it follows, so its source has a URL.)
Dispatch(o) ==
    /\ job.phase = "drain" /\ ~job.cancelled
    /\ o \in DOMAIN job.outbox /\ queue[o].state \in QueuedStates
    /\ LET item == job.outbox[o]
       IN  \/ item.op \in {"create", "update"}
              /\ Send(o, "put") /\ UNCHANGED <<rows, conflict>>
           \/ item.op = "remove" /\ item.rid # Nowhere
              /\ Send(o, "delete") /\ UNCHANGED <<rows, conflict>>
           \/ item.op = "remove" /\ item.rid = Nowhere
              /\ SetItem(o, "done") /\ OwnRemoved /\ job' = IdleJob
           \/ item.op = "move"
              /\ Send(o, IF features.move # "none" /\ ~item.changed
                         THEN "move" ELSE "putTarget")
              /\ UNCHANGED <<rows, conflict>>
    /\ UNCHANGED <<server, clock, synced, features, probe, proven, bounds>>

\* The row was deleted since: updateOutboxState finds none, and the job ends.
Vanished(o) ==
    /\ job.phase = "drain" /\ ~job.cancelled
    /\ o \in DOMAIN job.outbox /\ queue[o].state \notin QueuedStates
    /\ job' = IdleJob
    /\ UNCHANGED <<server, clock, synced, store, features, probe, proven, bounds>>

NothingReady ==
    /\ job.phase = "drain"
    /\ job.cancelled \/ job.outbox = NoRows
    /\ job' = IdleJob
    /\ UNCHANGED <<server, clock, synced, store, features, probe, proven, bounds>>

----------------------------------------------------------------------------
(* Requests and replies                                                     *)

\* The copy the job works on.
Sent == job.outbox[job.op]

Outcomes == {"ok"} \cup (Faults \ {"crash"})
Reaches(out) == out \in {"ok", "lost_reply"}

\* What the client makes of an outcome; 0 is a network error.
Status(out, answer) ==
    CASE out = "ok" -> answer
      [] out \in {"failure", "lost_reply"} -> 0
      [] out = "throttled" -> 429
      [] out = "unauthorized" -> 401
      [] out = "forbidden" -> 403

Request(phase, out) ==
    /\ job.phase = phase
    /\ \/ out = "ok" /\ UNCHANGED faults
       \/ out # "ok" /\ faults < MaxFaults /\ faults' = faults + 1
    /\ UNCHANGED <<synced, features, edits, foreign>>

\* The handler of a reply, unless the job was cancelled in the meantime.
Handle(handler) ==
    \/ job.cancelled /\ job' = IdleJob /\ UNCHANGED store
    \/ ~job.cancelled /\ handler

Continue(phase) == job' = [job EXCEPT !.phase = phase] /\ UNCHANGED store
Stop(state) == SetItem(job.op, state) /\ job' = IdleJob /\ UNCHANGED <<rows, conflict>>

\* RetryPolicy::evaluate of a service that is unavailable.
RetryLater == Stop(IF Attempt(job.op) >= MaxAttempts THEN "blocked" ELSE "retry_wait")

\* handleMutationResult, the errors that are no precondition's.
Failed(status) ==
    \/ (status = 0 \/ (status = 429 /\ Sent.op # "create")) /\ RetryLater
    \/ (status = 429 /\ Sent.op = "create") /\ Stop("blocked")
    \/ status \in {401, 403, 404} /\ Stop("blocked")

\* Database::recordProviderConflict.
RecordConflict(rev) ==
    /\ conflict' = Conflict(rev)
    /\ SetItem(job.op, "blocked")
    /\ rows' = [rows EXCEPT !["own"].dirty = TRUE]
    /\ job' = IdleJob

Later == Active \ {job.op}

\* completeSuccessfulMutation: the row takes the acknowledged identity.
Complete(c, etag) ==
    /\ job' = IdleJob
    /\ UNCHANGED conflict
    /\ rows' = [rows EXCEPT !["own"] =
          IF Later = {} THEN [@ EXCEPT !.cal = Sent.cal, !.rid = c, !.etag = etag,
                                       !.dirty = FALSE, !.deleted = FALSE]
          ELSE [@ EXCEPT !.rid = c, !.etag = etag, !.dirty = TRUE]]
    /\ queue' = [o \in DOMAIN queue |->
          IF o = job.op THEN [queue[o] EXCEPT !.state = "done"]
          ELSE IF queue[o].state \in QueuedStates
          THEN [queue[o] EXCEPT !.expected = etag] ELSE queue[o]]

\* What a request finds of a resource, and its version if the body shows one.
Found(c) == IF Live(c) THEN 200 ELSE 404
Etag(c) == IF Live(c) THEN server[c].etag ELSE None

Written(stamp) == [state |-> "live", etag |-> clock + 1, uid |-> TRUE, stamp |-> stamp]
Write(c, resource) == server' = [server EXCEPT ![c] = resource] /\ clock' = clock + 1
Removed(c) == Write(c, [server[c] EXCEPT !.state = "gone", !.etag = clock + 1])

\* If-Match is sent only with a revision.
Matches(c, expected) == expected = None \/ (Live(c) /\ server[c].etag = expected)

\* eventResourceUrl: the remote id in the payload, else the name by the uid.
Url == IF Sent.rid # Nowhere THEN Sent.rid ELSE Sent.cal

----------------------------------------------------------------------------
(* Creates, updates, removals                                               *)

PutReplied(status) ==
    LET creates == Sent.op = "create"
    IN  \/ status = 200 /\ features.etags /\ Complete(Url, server'[Url].etag)
        \/ status = 200 /\ ~features.etags /\ Continue("readBack")
        \/ creates /\ status \in {0, 412} /\ Continue("lookupCreate")
        \/ ~creates /\ status = 412 /\ Continue("lookupConflict")
        \/ ~(creates /\ status = 0) /\ Failed(status)

Put(out) ==
    /\ Request("put", out)
    /\ LET creates == Sent.op = "create"
           accepted == IF creates THEN ~Live(Url) ELSE Matches(Url, Sent.expected)
           stamp == IF creates THEN job.op ELSE server[Url].stamp
       IN  /\ IF Reaches(out) /\ accepted THEN Write(Url, Written(stamp))
              ELSE UNCHANGED <<server, clock>>
           /\ Handle(PutReplied(Status(out, IF accepted THEN 200 ELSE 412)))
    /\ UNCHANGED <<probe, proven>>

\* A read after a write that was answered without an ETag; it may fail.
ReadBack(out) ==
    /\ Request("readBack", out)
    /\ Handle(Complete(Url, IF out = "ok" THEN Etag(Url) ELSE None))
    /\ UNCHANGED <<server, clock, probe, proven>>

\* reconcileAmbiguousCreate
LookupCreate(out) ==
    /\ Request("lookupCreate", out)
    /\ LET c == Url
           found == out = "ok" /\ Live(c)
       IN  Handle(\/ found /\ server[c].stamp = job.op /\ Complete(c, server[c].etag)
                  \/ found /\ server[c].stamp # job.op /\ Stop("blocked")
                  \/ ~found /\ out = "unauthorized" /\ Stop("blocked")
                  \/ ~found /\ out # "unauthorized" /\ RetryLater)
    /\ UNCHANGED <<server, clock, probe, proven>>

Delete(out) ==
    /\ Request("delete", out)
    /\ LET c == Url
           accepted == Live(c) /\ Matches(c, Sent.expected)
           status == Status(out, IF accepted THEN 200 ELSE IF Live(c) THEN 412 ELSE 404)
       IN  /\ IF Reaches(out) /\ accepted THEN Removed(c) ELSE UNCHANGED <<server, clock>>
           /\ Handle(\/ /\ status = 200 /\ Later = {}
                        /\ SetItem(job.op, "done") /\ OwnRemoved /\ job' = IdleJob
                     \/ status = 200 /\ Later # {} /\ Stop("done")
                     \/ status = 412 /\ Continue("lookupConflict")
                     \/ Failed(status))
    /\ UNCHANGED <<probe, proven>>

\* After 412 (for a move: of the DELETE of its source, read at the target).
LookupConflict(out) ==
    /\ Request("lookupConflict", out)
    /\ LET c == IF Sent.op = "move" THEN Sent.cal ELSE Url
       IN  Handle(\/ out = "ok" /\ ~Live(c) /\ RecordConflict(None)
                  \/ out = "ok" /\ Live(c) /\ server[c].uid /\ RecordConflict(server[c].etag)
                  \/ (out # "ok" \/ (Live(c) /\ ~server[c].uid)) /\ Stop("blocked"))
    /\ UNCHANGED <<server, clock, probe, proven>>

----------------------------------------------------------------------------
(* Moves                                                                    *)

Source == Own.rid
Target == Sent.cal

Move(out) ==
    /\ Request("move", out)
    /\ LET works == features.move = "works"
           accepted == works /\ Live(Source) /\ ~Live(Target)
                       /\ Matches(Source, Sent.expected)
           status == Status(out, IF accepted THEN 200
                              ELSE IF ~works THEN 405
                              ELSE IF ~Live(Source) THEN 404 ELSE 412)
       IN  /\ IF Reaches(out) /\ accepted
              THEN /\ server' = [server EXCEPT
                        ![Target] = [server[Source] EXCEPT !.etag = clock + 1],
                        ![Source] = [@ EXCEPT !.state = "gone", !.etag = clock + 1]]
                   /\ clock' = clock + 1
              ELSE UNCHANGED <<server, clock>>
           /\ Handle(\/ status = 200 /\ Continue("hydrate")
                     \/ /\ status = 405
                        /\ job' = [job EXCEPT !.phase = "putTarget", !.direct = FALSE]
                        /\ UNCHANGED store
                     \/ status \in {0, 404, 412} /\ Continue("readTarget")
                     \/ status \in {401, 403, 429} /\ Failed(status))
    /\ UNCHANGED <<probe, proven>>

\* startFallbackMove
PutTarget(out) ==
    /\ Request("putTarget", out)
    /\ LET accepted == ~Live(Target)
           status == Status(out, IF accepted THEN 200 ELSE 412)
       IN  /\ IF Reaches(out) /\ accepted THEN Write(Target, Written(job.op))
              ELSE UNCHANGED <<server, clock>>
           /\ Handle(\/ status \in {0, 200, 412} /\ Continue("readTarget")
                     \/ status \in {401, 403, 429} /\ Failed(status))
    /\ UNCHANGED <<probe, proven>>

\* The attempts before this one.
Attempts == Sent.attempts

\* Mutant of TargetRead: a PUT that was answered is not verified.
TargetReadUnverified(out) ==
    \/ out = "ok" /\ Live(Target) /\ ~job.direct /\ Continue("deleteSource")
    \/ out = "ok" /\ Live(Target) /\ job.direct /\ Continue("readSource")
    \/ ~(out = "ok" /\ Live(Target)) /\ RetryLater

\* reconcileMoveTarget: the source is deleted only behind a target that is the
\* event, and for a PUT the one this mutation wrote.
TargetRead(out) ==
    LET found == out = "ok" /\ Live(Target)
        missing == out = "ok" /\ ~Live(Target)
        ours == server[Target].uid /\ (job.direct \/ server[Target].stamp = job.op)
    IN  \/ missing /\ Attempts < 3 /\ RetryLater
        \/ ((missing /\ Attempts >= 3) \/ out = "forbidden") /\ RecordConflict(None)
        \/ out \notin {"ok", "forbidden"}
           /\ Failed(Status(out, 200))
        \/ found /\ ~ours /\ Stop("blocked")
        \/ found /\ ours /\ Continue(IF job.direct THEN "readSource" ELSE "deleteSource")

ReadTarget(out) ==
    /\ Request("readTarget", out)
    /\ Handle(TargetRead(out))
    /\ UNCHANGED <<server, clock, probe, proven>>

\* After a MOVE whose reply was unclear: both there is a collision.
ReadSource(out) ==
    /\ Request("readSource", out)
    /\ Handle(\/ out = "ok" /\ ~Live(Source) /\ Complete(Target, Etag(Target))
              \/ out = "ok" /\ Live(Source) /\ Stop("blocked")
              \/ out # "ok" /\ Failed(Status(out, 200)))
    /\ UNCHANGED <<server, clock, probe, proven>>

DeleteSource(out) ==
    /\ Request("deleteSource", out)
    /\ LET accepted == Live(Source) /\ Matches(Source, Sent.expected)
           status == Status(out, IF accepted THEN 200 ELSE IF Live(Source) THEN 412 ELSE 404)
       IN  /\ IF Reaches(out) /\ accepted THEN Removed(Source) ELSE UNCHANGED <<server, clock>>
           /\ Handle(\/ status \in {200, 404} /\ Continue("hydrate")
                     \/ status = 412 /\ Continue("lookupConflict")
                     \/ status \notin {200, 404, 412} /\ Failed(status))
    /\ UNCHANGED <<probe, proven>>

HydrateTarget(out) ==
    /\ Request("hydrate", out)
    /\ LET status == Status(out, Found(Target))
       IN  Handle(\/ status = 200 /\ Complete(Target, server[Target].etag)
                  \/ status # 200 /\ Failed(status))
    /\ UNCHANGED <<server, clock, probe, proven>>

----------------------------------------------------------------------------
(* The this-and-future probe, started by the user (item id 0)               *)

StartProbe ==
    /\ "probe" \in Commands /\ edits < MaxEdits /\ edits' = edits + 1
    /\ job.phase = "idle" /\ ~proven
    /\ job' = [IdleJob EXCEPT !.phase = "probeClean"]
    /\ UNCHANGED <<server, clock, synced, store, features, probe, proven, foreign, faults>>

ProbeRequest(phase, out, resource) ==
    /\ Request(phase, out)
    /\ probe' = IF Reaches(out) THEN resource ELSE probe
    /\ UNCHANGED <<server, clock, store>>

ProbeGoes(phase, verified) ==
    /\ job' = [job EXCEPT !.phase = phase, !.verified = verified]
    /\ UNCHANGED proven

ProbeFails == job' = IdleJob /\ proven' = FALSE

\* A leftover of an interrupted probe is removed first.
ProbeClean(out) ==
    /\ ProbeRequest("probeClean", out, "absent")
    /\ IF out = "ok" THEN ProbeGoes("probePut", FALSE) ELSE ProbeFails

ProbePut(out) ==
    /\ ProbeRequest("probePut", out, "plain")
    /\ ProbeGoes(IF out = "ok" THEN "probeRead" ELSE "probeEnd", FALSE)

ProbeRead(out) ==
    /\ ProbeRequest("probeRead", out, probe)
    /\ ProbeGoes(IF out = "ok" THEN "probeUpdate" ELSE "probeEnd", FALSE)

ProbeUpdate(out) ==
    /\ ProbeRequest("probeUpdate", out, IF features.range THEN "range" ELSE "plain")
    /\ ProbeGoes(IF out = "ok" THEN "probeVerify" ELSE "probeEnd", FALSE)

\* Mutant of ProbeVerify: a write that was accepted counts as kept.
ProbeVerifyNothing(out) ==
    /\ ProbeRequest("probeVerify", out, probe)
    /\ ProbeGoes("probeEnd", TRUE)

ProbeVerify(out) ==
    /\ ProbeRequest("probeVerify", out, probe)
    /\ ProbeGoes("probeEnd", out = "ok" /\ probe = "range")

\* finishFutureCapabilityProbe
ProbeEnd(out) ==
    /\ ProbeRequest("probeEnd", out, "absent")
    /\ job' = IdleJob
    /\ proven' = (job.verified /\ out = "ok")

----------------------------------------------------------------------------
Reply(out) ==
    \/ Put(out) \/ ReadBack(out) \/ LookupCreate(out) \/ Delete(out)
    \/ LookupConflict(out)
    \/ Move(out) \/ PutTarget(out) \/ ReadTarget(out) \/ ReadSource(out)
    \/ DeleteSource(out) \/ HydrateTarget(out)
    \/ ProbeClean(out) \/ ProbePut(out) \/ ProbeRead(out) \/ ProbeUpdate(out)
    \/ ProbeVerify(out) \/ ProbeEnd(out)

JobStep ==
    \/ \E c \in Cals : Pull(c)
    \/ PullStops
    \/ \E o \in OpIds : Dispatch(o) \/ Vanished(o)
    \/ NothingReady
    \/ \E out \in Outcomes : Reply(out)

OtherClient == \E c \in Cals : ForeignEdit(c) \/ ForeignDelete(c) \/ ForeignCreate(c)

Next ==
    \/ CreateEvent \/ EditEvent \/ RemoveEvent
    \/ \E changed \in BOOLEAN : MoveEvent(changed)
    \/ UpdateCredentials \/ StartProbe
    \/ OtherClient
    \/ \E o \in OpIds : DeadlineOver(o)
    \/ StartJob \/ JobStep \/ Crash

Spec == Init /\ [][Next]_vars

\* The poll and the retry timer fire, deadlines pass, requests are answered or
\* time out (30 s).  Nothing is assumed about the user and the other clients.
Fairness ==
    /\ WF_vars(StartJob) /\ WF_vars(JobStep)
    /\ \A o \in OpIds : WF_vars(DeadlineOver(o))

FairSpec == Spec /\ Fairness

----------------------------------------------------------------------------
(* Properties                                                               *)

Copies == {c \in Cals : Live(c) /\ server[c].uid}

\* No step of this client but a removal takes the last copy of the event from
\* the server, unless another client has deleted the target of the move.
MoveKeepsTheEvent ==
    [][Copies # {} /\ Copies' = {} /\ clock' > clock /\ ~OtherClient =>
           Sent.op = "remove" \/ server[Target].state = "gone"]_vars

Settled == Active = {} /\ ~conflict.open /\ job.phase = "idle"
CaughtUp == \A c \in Cals : server[c].etag <= synced[c]

\* A removal queued while its create was being sent carries no URL; it is
\* acknowledged without a request and the created resource stays.
RemovedBlindly == \E o \in DOMAIN queue : queue[o].op = "remove" /\ queue[o].rid = Nowhere

\* When every mutation is acknowledged and everything was pulled, the calendar
\* shows what the server holds: one clean row for each resource, no other row.
Converged ==
    Settled /\ CaughtUp /\ ~RemovedBlindly =>
        /\ \A c \in Cals : Cardinality(RowsAt(c)) = IF Live(c) THEN 1 ELSE 0
        /\ \A r \in DOMAIN rows :
            /\ rows[r].rid = rows[r].cal /\ ~rows[r].dirty
            /\ rows[r].etag = server[rows[r].cal].etag

\* The event of an acknowledged move lies in the collection it was moved to.
MovedIsMoved == Settled /\ CaughtUp /\ Known => Own.rid = Own.cal

\* What the probe stores is true of the server.
ProofIsTrue == proven => features.range

\* A job was told to stop while its request was under way.
Abandoned(o) == queue[o].state = "sending" /\ job.phase = "idle"

Shown(o) == queue[o].state = "blocked" \/ Abandoned(o)

\* Every mutation leaves the queue, or the user is shown that it or one before
\* it is blocked, or it was abandoned and waits for the daemon to start again;
\* unless the pull that comes first is refused (see QueueMovesOn).
EveryMutationSettles ==
    \A o \in OpIds :
        (o \in Active) ~>
            (o \notin Active \/ (\E p \in Active : Shown(p)) \/ \E c \in Cals : Clash(c))

\* The same without the exception: a queued change is sent once the server can
\* be reached.
QueueMovesOn ==
    \A o \in OpIds :
        (o \in Active) ~> (o \notin Active \/ \E p \in Active : Shown(p))
============================================================================
