------------------------------- MODULE TaskSync -------------------------------
(***************************************************************************)
(* One task list, of a CalDAV or of a Google account: the user's commands  *)
(* (daemontasks.cpp), the account's job and the other clients.             *)
(***************************************************************************)
EXTENDS CalDavTasks, GoogleTasks

\* syncTaskList: a saved command asks for a job at once.
SyncTaskList(t) ==
    \/ provider = "caldav" /\ DavSyncStored(t)
    \/ provider = "google" /\ GoogleSyncAccount(t)

TasksCreate ==
    /\ Command
    /\ newId' = newId + 1
    /\ SyncTaskList(SaveLocalTask(newId + 1))
    /\ UNCHANGED <<provider, atServer, list, foreign, faults, history>>

TasksUpdate(i) ==
    /\ Command /\ rows[i].op # "remove"
    /\ SyncTaskList(SaveLocalTask(i))
    /\ Edited(i)
    /\ UNCHANGED <<provider, atServer, list, newId, foreign, faults>>

TasksRemove(i) ==
    /\ Command /\ rows[i].op # "remove"
    /\ SyncTaskList(RemoveLocalTask(i))
    /\ UNCHANGED <<provider, atServer, list, newId, foreign, faults, history>>

\* No job follows: whether the list is shown is not the provider's business.
TaskListsSetEnabled ==
    /\ Command
    /\ list' = [list EXCEPT !.enabled = ~@]
    /\ UNCHANGED <<provider, atServer, rows, job, again, rerun, newId, foreign, faults,
                   history>>

User ==
    \/ TasksCreate \/ TaskListsSetEnabled
    \/ \E i \in DOMAIN rows : TasksUpdate(i) \/ TasksRemove(i)

\* The poll timer of the account.
Poll ==
    \/ provider = "caldav" /\ (DavSyncDiscovered \/ DavListGone)
    \/ provider = "google" /\ GoogleSync

JobStep ==
    \/ provider = "caldav" /\ DavJob
    \/ provider = "google" /\ GoogleJob

Rerun ==
    \/ provider = "caldav" /\ DavRerun
    \/ provider = "google" /\ GoogleRerun

Troubles ==
    \/ provider = "caldav" /\ DavFaults
    \/ provider = "google" /\ GoogleFaults

Next == User \/ Poll \/ JobStep \/ Rerun \/ Troubles \/ Others

Spec == Init /\ [][Next]_vars

\* The poll timer keeps firing, and what an event loop owes a job is done: every request
\* ends with an answer or a timeout, and a timer of no delay fires.
FairSpec == Spec /\ WF_vars(Poll) /\ WF_vars(JobStep) /\ WF_vars(Rerun)

-----------------------------------------------------------------------------
\* Properties

\* A step of the synchronisation never changes the title the user gave a task, neither one
\* that is still owed nor one the server accepted: an answer that comes after a further
\* edit, and a list read before it, leave the edit alone (completeTaskWrite,
\* applyRemoteTasks).  Not so at CalDAV for a task edited after its create was carried out
\* unheard: the create is repeated, finds the resource and is taken for heard, and the
\* older title is read back.  See EditSurvives.
EditKept ==
    [][\A i \in DOMAIN rows \cap DOMAIN rows' :
          \/ rows'[i].c.title = rows[i].c.title \/ commands' # commands
          \/ provider = "caldav" /\ i \in edited]_vars

\* The same of every task.  docs/IPC.md has writes "marked dirty until the provider accepts
\* them".
EditSurvives ==
    [][\A i \in DOMAIN rows \cap DOMAIN rows' :
          rows'[i].c.title = rows[i].c.title \/ commands' # commands]_vars

\* A write of a CalDAV job never puts older notes over those of another client, unless the
\* user edited the task while the previous upload was under way or its ETag unknown
\* (mergeEdit: "a concurrent change to another field is not lost").
OtherFieldKept ==
    [][\A j \in DOMAIN server \cap DOMAIN server' :
          \/ server'[j].c.notes >= server[j].c.notes
          \/ provider = "google" \/ server[j].by \in overtaken
          \/ \E i \in overtaken : i \in RowOf(rows, j)]_vars

\* A task removed by the user does not come back: its tombstone leaves the table only when
\* no resource of it is at the server, even if its upload was under way at the removal
\* (removeLocalTask).  Two kinds of task do come back, both after a create that was carried
\* out unheard.  A CalDAV job drops the tombstone of a task without a remote id, edited or
\* not (see RemovalSurvives).  A Google job looks for the task by its content, and misses
\* it when the user or another client changed it since, or when it was created a second
\* time because its first resource was gone.
RemovalReachesServer ==
    [][\A i \in DOMAIN rows \ DOMAIN rows' :
          \/ ~\E j \in DOMAIN server' : server'[j].by = i \/ j = rows[i].rid
          \/ provider = "caldav" /\ Missing(i)
          \/ provider = "google" /\ i \in edited \cup altered \cup recreated]_vars

\* The same of every task.  databasetasks.cpp: "without the tombstone the answer would find
\* no row and the task would come back on the next pull".
RemovalSurvives ==
    [][\A i \in DOMAIN rows \ DOMAIN rows' :
          ~\E j \in DOMAIN server' : server'[j].by = i \/ j = rows[i].rid]_vars

\* A task of the user is one task at the server.  At CalDAV the resource is named after the
\* task.  At Google a create that was not heard of is looked for by its content before it
\* is repeated (matchUnconfirmedCreates).  It is missed, and the task doubled, when the
\* user or another client changed it since; and a task that is created a second time
\* because its first resource was gone is not looked for at all (see TaskNotDoubled).
OneResourcePerTask ==
    \A j, k \in DOMAIN server :
        \/ server[j].by = server[k].by => j = k
        \/ provider = "google" /\ server[j].by \in edited \cup altered \cup recreated

\* The same of every task that nobody changed since.  googletasksync.h: "A create whose response
\* never arrived may still have reached Google.  Pairs each such local write with an
\* unclaimed Google task holding the same content".
TaskNotDoubled ==
    \A j, k \in DOMAIN server :
        server[j].by = server[k].by => j = k \/ server[j].by \in edited \cup altered

\* The table is the server's list.
InSync ==
    IF ~collection THEN ~list.stored /\ rows = Empty
    ELSE /\ \A i \in DOMAIN rows : rows[i].op = "" /\ rows[i].rid \in DOMAIN server
         /\ \A j \in DOMAIN server : \E i \in DOMAIN rows :
              rows[i].rid = j /\ rows[i].c = server[j].c

\* Once the user, the others and the faults rest, every write has arrived and the table
\* and the server agree for good; no tag of the collection keeps a job from reading it.
Converges == <>[]InSync
==============================================================================
