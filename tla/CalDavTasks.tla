----------------------------- MODULE CalDavTasks -----------------------------
(***************************************************************************)
(* The task job of a CalDAV account (CalDavTaskSync): the owed writes of   *)
(* the list, one after the other, then a query of the collection.  A write *)
(* that meets a newer copy is merged into it once.                         *)
(*                                                                         *)
(* A request and its answer are one step: between them only the user acts  *)
(* on the table and only others act on the server.                         *)
(***************************************************************************)
EXTENDS TaskStore

DavPhaseOf(w) ==
    IF w.row.op = "remove" THEN "delete"
    ELSE IF w.row.op = "create" \/ w.row.rid = None THEN "create" ELSE "put"

\* The job goes on with the table t: the next write, or the query, unless nothing was
\* written and the collection has the tag it was last read under.
DavProceed(t, j, timer) ==
    /\ rows' = t
    /\ IF j.writes = {} /\ ~j.wrote /\ j.ctag # {} /\ j.ctag = j.token
       THEN Finished(timer)
       ELSE /\ IF j.writes = {}
               THEN job' = [j EXCEPT !.phase = "pull", !.cur = NoWrite]
               ELSE \E w \in j.writes : job' = [j EXCEPT !.writes = @ \ {w}, !.cur = w,
                                                         !.phase = DavPhaseOf(w)]
            /\ rerun' = timer /\ UNCHANGED again

DavBegin(t, ctag, timer) ==
    DavProceed(Without(t, NeverUploaded(t)),
               [IdleJob EXCEPT !.writes = Owed(Without(t, NeverUploaded(t))),
                               !.wrote = NeverUploaded(t) # {}, !.ctag = ctag,
                               !.token = list.token, !.enabled = list.enabled],
               timer)

DavSyncStored(t) ==
    IF Busy THEN rows' = t /\ again' = TRUE /\ UNCHANGED <<job, rerun>>
    ELSE IF list.stored THEN DavBegin(t, {}, FALSE)
    ELSE rows' = t /\ rerun' = FALSE /\ UNCHANGED <<job, again>>

\* The discovery of the account reports the collection with its tag.
DavSyncDiscovered ==
    /\ collection
    /\ IF Busy THEN again' = TRUE /\ UNCHANGED <<rows, job, rerun>>
       ELSE DavBegin(rows, {tag}, rerun)
    /\ UNCHANGED <<provider, atServer, list, bounds, history>>

\* A complete discovery without the collection removes the list and its tasks.
DavListGone ==
    /\ ~collection
    /\ list' = [list EXCEPT !.stored = FALSE]
    /\ rows' = Empty
    /\ again' = (again \/ Busy)
    /\ UNCHANGED <<provider, atServer, job, rerun, bounds, history>>

\* An incomplete one that lacks the collection proves nothing: the list is synchronised
\* without a tag.
DavSyncUnreported ==
    /\ Fault("partial")
    /\ IF Busy THEN again' = TRUE /\ UNCHANGED <<rows, job, rerun>>
       ELSE IF list.stored THEN DavBegin(rows, {}, rerun)
       ELSE UNCHANGED <<rows, job, again, rerun>>
    /\ UNCHANGED <<provider, atServer, list, newId, commands, foreign, history>>

DavRerun ==
    /\ rerun
    /\ DavSyncStored(rows)
    /\ UNCHANGED <<provider, atServer, list, bounds, history>>

-----------------------------------------------------------------------------
\* What the server does with the request of a write.

Address(w) == IF w.row.rid = None THEN w.id ELSE w.row.rid
Present(w) == Address(w) \in DOMAIN server
\* If-Match holds; without an ETag there is no condition.
Matches(w) == w.row.etag = NoContent \/ w.row.etag = server[Address(w)].c

Stored(w) ==
    With(server, Address(w),
         [c |-> w.row.c, by |-> IF Present(w) THEN server[Address(w)].by ELSE w.id])

DavAccepts(phase, w) ==
    /\ collection
    /\ CASE phase = "create" -> ~Present(w)
         [] phase \in {"put", "putAgain"} ->
              IF Present(w) THEN Matches(w) ELSE w.row.etag = NoContent
         [] phase \in {"delete", "deleteAgain"} -> Present(w) /\ Matches(w)
         [] OTHER -> FALSE

DavAfter(phase, w) ==
    IF ~DavAccepts(phase, w) THEN server
    ELSE IF phase \in {"delete", "deleteAgain"} THEN Without(server, {Address(w)})
    ELSE Stored(w)

\* recordWrite; a server need not answer a PUT with an ETag.
DavRecorded(t) == DavProceed(t, [job EXCEPT !.wrote = TRUE, !.cur = NoWrite], rerun)
DavRecord(etag) ==
    DavRecorded(CompleteTaskWrite(rows, job.cur, Address(job.cur), etag, job.cur.row.c,
                                  job.cur.row.c))

DavFailList == Finished(rerun) /\ UNCHANGED rows

\* PUT with If-None-Match.  412: an upload arrived before and its answer was lost.
DavCreate ==
    /\ job.phase = "create"
    /\ server' = DavAfter("create", job.cur)
    /\ IF ~collection THEN DavFailList
       ELSE \E etag \in {NoContent} \cup (IF Present(job.cur) THEN {} ELSE {job.cur.row.c}) :
              DavRecord(etag)
    /\ UNCHANGED <<provider, collection, list, bounds, history>>
    /\ Tagged

\* Mutant of Merged: the local copy wins every field.
MergedOver(w) == [w EXCEPT !.row.etag = server[Address(w)].c, !.row.raw = server[Address(w)].c]

\* mergeEdit: the fields that differ from the copy the edit was based on are local, the
\* others are the server's.
Merged(w) ==
    LET remote == server[Address(w)].c
        kept(mine, base, theirs) == IF mine # base THEN mine ELSE theirs
    IN [w EXCEPT !.row.c =
                   [title |-> kept(w.row.c.title, w.row.raw.title, remote.title),
                    notes |-> kept(w.row.c.notes, w.row.raw.notes, remote.notes)],
                 !.row.etag = remote, !.row.raw = remote]

\* PUT with If-Match.  A resource that is gone is created again; a newer copy is read.
DavPut ==
    /\ job.phase \in {"put", "putAgain"}
    /\ server' = DavAfter(job.phase, job.cur)
    /\ \/ /\ DavAccepts(job.phase, job.cur)
          /\ \E etag \in {NoContent, job.cur.row.c} : DavRecord(etag)
       \/ /\ ~DavAccepts(job.phase, job.cur) /\ ~Present(job.cur)
          /\ job' = [job EXCEPT !.phase = "create"]
          /\ UNCHANGED <<rows, again, rerun>>
       \/ /\ ~DavAccepts(job.phase, job.cur) /\ Present(job.cur)
          /\ IF job.phase = "putAgain" THEN DavFailList
             ELSE job' = [job EXCEPT !.phase = "merge"] /\ UNCHANGED <<rows, again, rerun>>
    /\ UNCHANGED <<provider, collection, list, bounds, history>>
    /\ Tagged

\* The server's copy is read and the edit merged into it.
DavMerge ==
    /\ job.phase = "merge"
    /\ IF ~collection THEN DavFailList
       ELSE /\ job' = IF Present(job.cur)
                      THEN [job EXCEPT !.cur = Merged(job.cur), !.phase = "putAgain"]
                      ELSE [job EXCEPT !.phase = "create"]
            /\ UNCHANGED <<rows, again, rerun>>
    /\ UNCHANGED <<provider, atServer, list, bounds, history>>

\* DELETE with If-Match.  A newer copy does not save the task: the removal still stands.
DavDelete ==
    /\ job.phase \in {"delete", "deleteAgain"}
    /\ server' = DavAfter(job.phase, job.cur)
    /\ IF ~Present(job.cur) \/ DavAccepts(job.phase, job.cur)
       THEN DavRecorded(RecordRemoval(rows, job.cur))
       ELSE IF job.phase = "deleteAgain" THEN DavFailList
       ELSE job' = [job EXCEPT !.phase = "reread"] /\ UNCHANGED <<rows, again, rerun>>
    /\ UNCHANGED <<provider, collection, list, bounds, history>>
    /\ Tagged

DavReread ==
    /\ job.phase = "reread"
    /\ IF ~collection THEN DavFailList
       ELSE IF ~Present(job.cur) THEN DavRecorded(RecordRemoval(rows, job.cur))
       ELSE /\ job' = [job EXCEPT !.cur.row.etag = server[Address(job.cur)].c,
                                  !.phase = "deleteAgain"]
            /\ UNCHANGED <<rows, again, rerun>>
    /\ UNCHANGED <<provider, atServer, list, bounds, history>>

\* Mutant of DavPulled: the tag is kept although the report was not complete.
DavPulledAnyhow(hidden) ==
    /\ rows' = ApplyRemoteTasks(rows, Without(server, hidden), hidden = {})
    /\ list' = SyncedList(IF job.ctag # {} THEN job.ctag ELSE job.token)
    /\ Finished(rerun)

\* The answer of the query, reported without the resources hidden.
DavPulled(hidden) ==
    LET complete == hidden = {} IN
    /\ rows' = ApplyRemoteTasks(rows, Without(server, hidden), complete)
    /\ list' = SyncedList(IF job.ctag # {} /\ complete THEN job.ctag ELSE job.token)
    /\ Finished(rerun)

DavPull ==
    /\ job.phase = "pull"
    /\ IF collection THEN DavPulled({}) ELSE DavFailList /\ UNCHANGED list
    /\ UNCHANGED <<provider, atServer, bounds, history>>

\* A resource is reported as failed or cannot be read.
DavPullPartly ==
    /\ job.phase = "pull" /\ collection
    /\ Fault("partial")
    /\ \E j \in DOMAIN server : DavPulled({j})
    /\ UNCHANGED <<provider, atServer, newId, commands, foreign, history>>

-----------------------------------------------------------------------------
\* Requests that go wrong.

\* The server carries the request out, or not, and nobody hears of it.
DavUnanswered(carriedOut) ==
    IF carriedOut /\ DavAccepts(job.phase, job.cur)
    THEN /\ server' = DavAfter(job.phase, job.cur)
         /\ IF job.phase \in {"delete", "deleteAgain"} \/ Present(job.cur)
            THEN UNCHANGED creates
            ELSE Unheard(job.cur)
    ELSE UNCHANGED <<server, creates>>

DavRequestFails ==
    /\ Busy
    /\ \/ Fault("failure") /\ DavUnanswered(FALSE)
       \/ Fault("lost_reply") /\ DavUnanswered(TRUE)
    /\ DavFailList
    /\ UNCHANGED <<provider, collection, list, newId, commands, foreign, overtaken>>
    /\ Tagged

DavStop ==
    /\ Busy \/ rerun
    /\ Fault("stop")
    /\ \E carriedOut \in BOOLEAN : DavUnanswered(carriedOut)
    /\ Forget
    /\ UNCHANGED <<provider, collection, list, rows, newId, commands, foreign, overtaken>>
    /\ Tagged

DavJob ==
    DavCreate \/ DavPut \/ DavMerge \/ DavDelete \/ DavReread \/ DavPull

DavFaults == DavPullPartly \/ DavRequestFails \/ DavStop \/ DavSyncUnreported
==============================================================================
