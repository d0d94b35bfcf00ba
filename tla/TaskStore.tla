------------------------------ MODULE TaskStore ------------------------------
(***************************************************************************)
(* The tasks table of one list of a provider (databasetasks.cpp), the      *)
(* commands of the user on it, and the list at the server with the other   *)
(* clients that write there.  CalDavTasks and GoogleTasks add the job that *)
(* carries the commands to the server and reads the list back.             *)
(*                                                                         *)
(* A task has two fields: the user edits its title and other clients edit  *)
(* its notes, each time with a new stamp.  (Both writing one field is      *)
(* decided for the later write by design and left out.)  An ETag is a hash *)
(* of the content it stands for: here it is that content.                  *)
(***************************************************************************)
EXTENDS Integers, FiniteSets

CONSTANTS
    MaxCommands,   \* bound: commands of the user
    MaxForeign,    \* bound: writes of other clients
    Faults,        \* what may go wrong: a subset of FaultNames
    MaxFaults      \* bound: faults in a behaviour

\* "failure": a request is not carried out.  "lost_reply": it is, but the answer is
\* lost.  "stop": the daemon dies, or the account is disconnected and comes back.
\* "partial": the server does not report a resource, or the collection.
FaultNames == {"failure", "lost_reply", "stop", "partial"}

ASSUME TaskAssumption ==
    /\ MaxCommands \in Nat /\ MaxForeign \in Nat /\ MaxFaults \in Nat
    /\ Faults \subseteq FaultNames

VARIABLES
    provider,      \* what kind of account the list belongs to
    collection,    \* the list exists at the server
    server,        \* resource -> [c: its content, by: the row it was made for]
    tag,           \* the tag of the collection: counts its changes
    list,          \* the row of task_lists
    rows,          \* the tasks table: row -> task
    job,           \* the synchronisation job of the account
    again,         \* m_again: a further job was asked for
    rerun,         \* m_rerunQueued: the timer for it is set
    newId,         \* the newest task or resource
    commands, foreign, faults,
    overtaken,     \* history: rows edited while their upload was under way
    unheard,       \* history: rows whose create was carried out unheard
    edited,        \* history: those the user edited since the create was sent
    altered,       \* history: those whose resource another client changed since
    recreated      \* history: those that had a resource before, which was gone

vars == <<provider, collection, server, tag, list, rows, job, again, rerun, newId,
          commands, foreign, faults, overtaken, unheard, edited, altered, recreated>>
atServer == <<collection, server, tag>>
bounds == <<newId, commands, foreign, faults>>
creates == <<unheard, edited, altered, recreated>>
history == <<overtaken, creates>>

None == 0
\* The user's task i is the row i; the row a pull inserts for the resource j is Pulled(j).
Pulled(j) == -j
RowIds == Int \ {0}

Contents == [title : 0..MaxCommands, notes : 0..(MaxForeign + 1)]
NoContent == [title |-> 0, notes |-> 0]
\* What the first resource holds, and the notes of the next write of another client.
FirstContent == [title |-> 0, notes |-> 1]
NextNotes == foreign + 2

\* rid: the remote id; raw: the provider's copy the content was last based on;
\* op: pending_operation, which is "" when nothing is owed; rev: local_revision.
Tasks == [rid : Nat, etag : Contents, raw : Contents, c : Contents,
          op : {"", "create", "update", "remove"}, rev : Nat]

Phases == {"idle", "lists", "reconcile", "create", "put", "merge", "putAgain", "delete",
           "reread", "deleteAgain", "recreate", "pull"}

\* A copy of a row, taken when the job starts on its list.
Snapshot(t, i) == [id |-> i, row |-> t[i]]
Owed(t) == {Snapshot(t, i) : i \in {k \in DOMAIN t : t[k].op # ""}}
NoWrite == [id |-> None, row |-> None]

\* writes: pendingTaskWrites still to send; cur: the one being sent; ctag: the tag of
\* the discovery, if there was one; token, enabled: the list as the job read it.
IdleJob == [phase |-> "idle", writes |-> {}, cur |-> NoWrite, ctag |-> {}, token |-> {},
            enabled |-> TRUE, wrote |-> FALSE]
Busy == job.phase # "idle"

Only(f, S) == [x \in DOMAIN f \cap S |-> f[x]]
Without(f, S) == [x \in DOMAIN f \ S |-> f[x]]
With(f, x, v) == [y \in DOMAIN f \cup {x} |-> IF y = x THEN v ELSE f[y]]
Empty == [x \in {} |-> x]

TypeOK ==
    /\ provider \in {"caldav", "google"} /\ collection \in BOOLEAN
    /\ DOMAIN server \subseteq 1..newId
    /\ \A j \in DOMAIN server : server[j].c \in Contents /\ server[j].by \in RowIds
    /\ tag \in Nat /\ list.token \subseteq 0..tag
    /\ list.stored \in BOOLEAN /\ list.enabled \in BOOLEAN
    /\ DOMAIN rows \subseteq RowIds /\ \A i \in DOMAIN rows : rows[i] \in Tasks
    /\ \A i, k \in DOMAIN rows : rows[i].rid = rows[k].rid => i = k \/ rows[i].rid = None
    /\ job.phase \in Phases /\ again \in BOOLEAN /\ rerun \in BOOLEAN
    /\ again => Busy
    /\ newId \in Nat /\ commands \in 0..MaxCommands
    /\ foreign \in 0..MaxForeign /\ faults \in 0..MaxFaults

\* Either nothing is there yet or one task of another client was pulled.
Init ==
    /\ provider \in {"caldav", "google"}
    /\ collection = TRUE /\ tag = 0
    /\ \/ /\ server = Empty /\ rows = Empty /\ newId = 0
       \/ /\ server = [j \in {1} |-> [c |-> FirstContent, by |-> Pulled(1)]]
          /\ rows = [i \in {Pulled(1)} |->
                       [rid |-> 1, etag |-> FirstContent, raw |-> FirstContent,
                        c |-> FirstContent, op |-> "", rev |-> 1]]
          /\ newId = 1
    /\ list = [stored |-> TRUE, enabled |-> TRUE, token |-> {tag}]
    /\ job = IdleJob /\ again = FALSE /\ rerun = FALSE
    /\ commands = 0 /\ foreign = 0 /\ faults = 0
    /\ overtaken = {} /\ unheard = {} /\ edited = {} /\ altered = {} /\ recreated = {}

Fault(kind) ==
    /\ kind \in Faults /\ faults < MaxFaults
    /\ faults' = faults + 1

-----------------------------------------------------------------------------
\* The table.

CreatedTask == [rid |-> None, etag |-> NoContent, raw |-> NoContent,
                c |-> [title |-> commands + 1, notes |-> 0], op |-> "create", rev |-> 1]

EditedTask(task) ==
    [task EXCEPT !.c.title = commands + 1,
                 !.op = IF task.op = "create" THEN "create" ELSE "update",
                 !.rev = @ + 1]

SaveLocalTask(i) ==
    IF i \in DOMAIN rows THEN With(rows, i, EditedTask(rows[i]))
    ELSE With(rows, i, CreatedTask)

\* Mutant of RemoveLocalTask: a task without a remote id is deleted at once.
RemoveLocalTaskAtOnce(i) ==
    IF rows[i].rid = None THEN Without(rows, {i})
    ELSE [rows EXCEPT ![i].op = "remove", ![i].rev = @ + 1]

\* Even a task that was never uploaded leaves a tombstone.
RemoveLocalTask(i) == [rows EXCEPT ![i].op = "remove", ![i].rev = @ + 1]

\* Mutant of CompleteTaskWrite: an edit made since is not noticed.
CompleteTaskWriteUnchecked(t, w, rid, etag, raw, c) ==
    IF w.id \notin DOMAIN t THEN t
    ELSE IF t[w.id].op = "remove" THEN Without(t, {w.id})
    ELSE With(t, w.id, [t[w.id] EXCEPT !.rid = rid, !.etag = etag, !.raw = raw, !.op = "",
                                       !.c = c])

\* What a write that the server accepted leaves in the table: rid, etag and raw are the
\* server's, c is what was uploaded.
CompleteTaskWrite(t, w, rid, etag, raw, c) ==
    IF w.id \notin DOMAIN t THEN t
    ELSE LET task == t[w.id]
             editedSince == task.rev # w.row.rev
         IN IF task.op = "remove" /\ ~editedSince THEN Without(t, {w.id})
            ELSE With(t, w.id,
                      [task EXCEPT !.rid = rid, !.etag = etag, !.raw = raw,
                                   !.op = IF ~editedSince THEN ""
                                          ELSE IF @ = "remove" THEN "remove" ELSE "update",
                                   !.c = IF editedSince THEN @ ELSE c])

\* A removal is recorded by dropping the row: tombstones are not edited.
RecordRemoval(t, w) == CompleteTaskWrite(t, w, w.row.rid, NoContent, NoContent, w.row.c)

RowOf(t, j) == {i \in DOMAIN t : t[i].rid = j}

\* The row's content is the server's; rev counts the change.
Taken(task, c) == [task EXCEPT !.c = c, !.etag = c, !.raw = c, !.rev = @ + 1]

\* remote: what the server reported.  A task that owes a write or has the ETag stays as
\* it is; when the report is complete, tasks it lacks are deleted.
ApplyRemoteTasks(t, remote, complete) ==
    LET fresh == {j \in DOMAIN remote : RowOf(t, j) = {}}
        stale == {i \in DOMAIN t : /\ complete /\ t[i].op = ""
                                   /\ t[i].rid \notin DOMAIN remote \cup {None}}
    IN [i \in (DOMAIN t \ stale) \cup {Pulled(j) : j \in fresh} |->
          IF i \notin DOMAIN t
          THEN [rid |-> -i, etag |-> remote[-i].c,
                raw |-> remote[-i].c, c |-> remote[-i].c, op |-> "", rev |-> 1]
          ELSE IF \/ t[i].rid \notin DOMAIN remote \/ t[i].op # ""
                  \/ t[i].etag = remote[t[i].rid].c THEN t[i]
          ELSE Taken(t[i], remote[t[i].rid].c)]

\* upsertTaskList after a pull: the whole list, as the job read it when it began.
SyncedList(token) == [stored |-> TRUE, enabled |-> job.enabled, token |-> token]

-----------------------------------------------------------------------------
\* The end of a job.  Jobs asked for meanwhile become one, started by a timer.
Finished(timer) ==
    /\ job' = IdleJob
    /\ again' = FALSE
    /\ rerun' = (timer \/ again)

\* The copies of the tasks are still of use to a removal that was never uploaded: such a
\* tombstone is dropped when the job reaches it, which is when it starts.
NeverUploaded(t) == {i \in DOMAIN t : t[i].op = "remove" /\ t[i].rid = None}

\* The server carried out the create of w and the answer does not come.
Unheard(w) ==
    LET row == IF w.id \in DOMAIN rows THEN rows[w.id] ELSE w.row IN
    /\ unheard' = unheard \cup {w.id}
    /\ edited' = IF row.c = w.row.c THEN edited ELSE edited \cup {w.id}
    /\ recreated' = IF row.rid = None THEN recreated ELSE recreated \cup {w.id}
    /\ UNCHANGED altered

\* Every change of the list at the server gives it a new tag.
Tagged ==
    tag' = IF <<server', collection'>> = <<server, collection>> THEN tag ELSE tag + 1

\* The row was not told of its resource yet.
Missing(i) == i \in unheard /\ i \in DOMAIN rows /\ rows[i].rid = None

\* Mutant of Forget: only the job is.
ForgetJob == job' = IdleJob /\ UNCHANGED <<again, rerun>>

\* The daemon dies or the account is cancelled: the job and what was asked for are
\* forgotten.
Forget == job' = IdleJob /\ again' = FALSE /\ rerun' = FALSE

-----------------------------------------------------------------------------
\* The user.  Every command is followed by a call for a job: see TaskSync.

Command == commands < MaxCommands /\ list.stored /\ commands' = commands + 1

\* The edit falls on a task whose upload is under way or of which the server's ETag is not
\* known, or of which a create was carried out unheard.
Edited(i) ==
    /\ overtaken' = IF \/ job.cur.id = i \/ \E w \in job.writes : w.id = i
                       \/ (rows[i].rid # None /\ rows[i].etag = NoContent)
                    THEN overtaken \cup {i} ELSE overtaken
    /\ edited' = IF Missing(i) THEN edited \cup {i} ELSE edited
    /\ UNCHANGED <<unheard, altered, recreated>>

-----------------------------------------------------------------------------
\* Other clients.

Foreign == foreign < MaxForeign /\ foreign' = foreign + 1

ForeignCreate ==
    /\ Foreign /\ collection
    /\ newId' = newId + 1
    /\ server' = With(server, newId + 1, [c |-> [title |-> 0, notes |-> NextNotes],
                                          by |-> Pulled(newId + 1)])
    /\ UNCHANGED <<provider, collection, list, rows, job, again, rerun, commands, faults,
                   history>>
    /\ Tagged

ForeignEdit(j) ==
    /\ Foreign
    /\ server' = [server EXCEPT ![j].c.notes = NextNotes]
    /\ altered' = IF Missing(server[j].by) THEN altered \cup {server[j].by} ELSE altered
    /\ UNCHANGED <<provider, collection, list, rows, job, again, rerun, newId, commands,
                   faults, overtaken, unheard, edited, recreated>>
    /\ Tagged

ForeignRemove(j) ==
    /\ Foreign
    /\ server' = Without(server, {j})
    /\ UNCHANGED <<provider, collection, list, rows, job, again, rerun, newId, commands,
                   faults, history>>
    /\ Tagged

\* The whole list is deleted.
ForeignRemoveList ==
    /\ Foreign /\ collection
    /\ collection' = FALSE
    /\ server' = Empty
    /\ UNCHANGED <<provider, list, rows, job, again, rerun, newId, commands, faults, history>>
    /\ Tagged

Others ==
    \/ ForeignCreate \/ ForeignRemoveList
    \/ \E j \in DOMAIN server : ForeignEdit(j) \/ ForeignRemove(j)
==============================================================================
