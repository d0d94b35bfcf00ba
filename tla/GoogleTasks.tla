----------------------------- MODULE GoogleTasks -----------------------------
(***************************************************************************)
(* The task job of a Google account (GoogleTaskSync): the list of lists,   *)
(* a first reading of the tasks when a create or removal was never         *)
(* confirmed, the owed writes, and a reading of the whole list.  Google    *)
(* has no conditional writes and gives every new task its own id.  As in   *)
(* CalDavTasks a request and its answer are one step.                      *)
(***************************************************************************)
EXTENDS TaskStore

GoogleSyncAccount(t) ==
    /\ rows' = t
    /\ IF Busy THEN again' = TRUE /\ UNCHANGED <<job, rerun>>
       ELSE job' = [IdleJob EXCEPT !.phase = "lists"] /\ rerun' = FALSE /\ UNCHANGED again

GoogleSync ==
    /\ GoogleSyncAccount(rows)
    /\ UNCHANGED <<provider, atServer, list, bounds, history>>

GoogleRerun == rerun /\ GoogleSync

GooglePhaseOf(w) ==
    IF w.row.op = "remove" THEN "delete"
    ELSE IF w.row.op = "create" \/ w.row.rid = None THEN "create" ELSE "put"

\* The next write, or the reading of the list.  A removal of what was never uploaded only
\* drops the row.
GoogleProceed(t, j) ==
    LET drops == {w \in j.writes : w.row.op = "remove" /\ w.row.rid = None}
        left == j.writes \ drops
    IN /\ rows' = Without(t, {w.id : w \in drops})
       /\ IF left = {} THEN job' = [j EXCEPT !.writes = {}, !.cur = NoWrite, !.phase = "pull"]
          ELSE \E w \in left : job' = [j EXCEPT !.writes = left \ {w}, !.cur = w,
                                                !.phase = GooglePhaseOf(w)]
       /\ UNCHANGED <<again, rerun>>

GoogleFailList == Finished(rerun) /\ UNCHANGED rows

\* Written before its create was confirmed: no Google id yet.
Unconfirmed(w) == w.row.rid = None /\ w.row.op \in {"create", "remove"}

\* storeLists, and what the job does with a list that is still there.
GoogleLists ==
    /\ job.phase = "lists"
    /\ IF ~collection
       THEN /\ list' = [list EXCEPT !.stored = FALSE]
            /\ rows' = Empty
            /\ Finished(rerun)
       ELSE LET j == [job EXCEPT !.writes = Owed(rows), !.enabled = list.enabled]
            IN /\ list' = [list EXCEPT !.stored = TRUE]
               /\ IF \E w \in j.writes : Unconfirmed(w)
                  THEN job' = [j EXCEPT !.phase = "reconcile"] /\ UNCHANGED <<rows, again, rerun>>
                  ELSE GoogleProceed(rows, j)
    /\ UNCHANGED <<provider, atServer, bounds, history>>

\* Mutant of Matched: nothing is looked for.
MatchedNothing(w) == w

\* matchUnconfirmedCreates: an unclaimed task of the same content is the one that was not
\* heard of.  It is patched or deleted, not created.
Matched(w) ==
    LET known == {rows[i].rid : i \in DOMAIN rows}
        same == {j \in DOMAIN server \ known : server[j].c = w.row.c}
    IN IF ~Unconfirmed(w) \/ same = {} THEN w
       ELSE [w EXCEPT !.row.rid = CHOOSE j \in same : TRUE,
                      !.row.op = IF @ = "create" THEN "update" ELSE @]

GoogleReconcile ==
    /\ job.phase = "reconcile"
    /\ IF collection
       THEN GoogleProceed(rows, [job EXCEPT !.writes = {Matched(w) : w \in @}])
       ELSE GoogleFailList
    /\ UNCHANGED <<provider, atServer, list, bounds, history>>

-----------------------------------------------------------------------------
\* What Google does with a write.

GoogleThere == job.cur.row.rid \in DOMAIN server
Inserted == With(server, newId + 1, [c |-> job.cur.row.c, by |-> job.cur.id])
Patched == [server EXCEPT ![job.cur.row.rid].c = job.cur.row.c]

GoogleRecord(rid) ==
    GoogleProceed(CompleteTaskWrite(rows, job.cur, rid, job.cur.row.c, job.cur.row.c,
                                    job.cur.row.c),
                  [job EXCEPT !.cur = NoWrite])

GoogleCreate ==
    /\ job.phase \in {"create", "recreate"}
    /\ IF collection
       THEN newId' = newId + 1 /\ server' = Inserted
            /\ GoogleRecord(newId + 1)
       ELSE GoogleFailList /\ UNCHANGED <<server, newId>>
    /\ UNCHANGED <<provider, collection, list, commands, foreign, faults, history>>
    /\ Tagged

\* A task that is gone is brought back by the edit, as a new one.
GooglePatch ==
    /\ job.phase = "put"
    /\ IF GoogleThere THEN server' = Patched /\ GoogleRecord(job.cur.row.rid)
       ELSE job' = [job EXCEPT !.phase = "recreate"] /\ UNCHANGED <<server, rows, again, rerun>>
    /\ UNCHANGED <<provider, collection, list, bounds, history>>
    /\ Tagged

GoogleDelete ==
    /\ job.phase = "delete"
    /\ server' = Without(server, {job.cur.row.rid})
    /\ GoogleProceed(RecordRemoval(rows, job.cur), [job EXCEPT !.cur = NoWrite])
    /\ UNCHANGED <<provider, collection, list, bounds, history>>
    /\ Tagged

\* The whole list is read and applied.
GooglePull ==
    /\ job.phase = "pull"
    /\ IF collection
       THEN /\ rows' = ApplyRemoteTasks(rows, server, TRUE)
            /\ list' = SyncedList(list.token)
            /\ Finished(rerun)
       ELSE GoogleFailList /\ UNCHANGED list
    /\ UNCHANGED <<provider, atServer, bounds, history>>

-----------------------------------------------------------------------------
\* Requests that go wrong.

GoogleUnanswered(carriedOut) ==
    CASE ~carriedOut \/ ~collection -> UNCHANGED <<server, newId, creates>>
      [] carriedOut /\ collection /\ job.phase \in {"create", "recreate"} ->
           /\ newId' = newId + 1 /\ server' = Inserted
           /\ Unheard(job.cur)
      [] carriedOut /\ collection /\ job.phase = "put" /\ GoogleThere ->
           server' = Patched /\ UNCHANGED <<newId, creates>>
      [] carriedOut /\ collection /\ job.phase = "delete" ->
           /\ server' = Without(server, {job.cur.row.rid})
           /\ UNCHANGED <<newId, creates>>
      [] OTHER -> UNCHANGED <<server, newId, creates>>

GoogleRequestFails ==
    /\ Busy
    /\ \/ Fault("failure") /\ GoogleUnanswered(FALSE)
       \/ Fault("lost_reply") /\ GoogleUnanswered(TRUE)
    /\ GoogleFailList
    /\ UNCHANGED <<provider, collection, list, commands, foreign, overtaken>>
    /\ Tagged

GoogleStop ==
    /\ Busy \/ rerun
    /\ Fault("stop")
    /\ \E carriedOut \in BOOLEAN : GoogleUnanswered(carriedOut)
    /\ Forget
    /\ UNCHANGED <<provider, collection, list, rows, commands, foreign, overtaken>>
    /\ Tagged

GoogleJob ==
    GoogleLists \/ GoogleReconcile \/ GoogleCreate \/ GooglePatch \/ GoogleDelete
        \/ GooglePull

GoogleFaults == GoogleRequestFails \/ GoogleStop
==============================================================================
