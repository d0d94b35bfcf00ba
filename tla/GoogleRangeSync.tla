--------------------------- MODULE GoogleRangeSync ---------------------------
(***************************************************************************)
(* Which part of a Google calendar the local copy stands for. A first or   *)
(* full synchronisation lists a window of days around today and removes    *)
(* what the listing does not show; ranges outside of it are hydrated when  *)
(* a view asks for them, and backwards by a timer; changes arrive through  *)
(* a sync token, which the server may refuse (410). The ranges listed so   *)
(* far are kept as merged intervals, and views that lie within one are     *)
(* answered from the local copy without asking.                            *)
(*                                                                         *)
(* An event here is its day and its revision. Creation, the queue and the  *)
(* conflicts' decisions are OutboxStore's; a conflict is only noted.       *)
(***************************************************************************)
EXTENDS Integers, Sequences, FiniteSets, FiniteSetsExt, SequencesExt

CONSTANTS
    EventIds,      \* events of the calendar
    MaxDay,        \* days are 0..MaxDay-1
    Width,         \* days of the default window
    MaxSpan,       \* days a single range request may span
    MaxChanges,    \* changes at the server, by any client
    MaxEdits,      \* local edits
    MaxRequests,   \* ranges asked for by views
    MaxSlides,     \* times the default window moves
    Faults,        \* kinds of faults: "failure", "expired", "crash"
    MaxFaults

ASSUME RangeAssumption ==
    /\ MaxDay \in Nat /\ Width \in 1..MaxDay /\ MaxSpan \in Nat
    /\ MaxChanges \in Nat /\ MaxEdits \in Nat /\ MaxRequests \in Nat
    /\ MaxSlides \in Nat /\ MaxFaults \in Nat
    /\ Faults \subseteq {"failure", "expired", "crash"}

VARIABLES
    remote,        \* the calendar at the server
    local,         \* the rows of events
    conflict,      \* the unresolved conflicts, with their snapshots
    token,         \* calendars.sync_token: the changes it stands for
    coverage,      \* sync_coverage: intervals <<start, end>>
    wanted,        \* m_pendingHydrations
    today,         \* first day of the default window
    job,           \* the part of SyncJob that pulls
    changes, edits, requests, faults

data == <<remote, local, conflict, token, coverage>>
counters == <<changes, edits, requests, faults>>
vars == <<data, wanted, today, job, counters>>

Days == 0..(MaxDay - 1)
Nowhere == -1                       \* deleted, or no row
FirstToday == (MaxDay - Width) \div 2

Revisions == 0..MaxChanges
RemoteEvents == [day : Days \cup {Nowhere}, at : Revisions]
LocalEvents == [day : Days \cup {Nowhere}, at : Revisions, dirty : BOOLEAN]
NoConflict == [kind |-> "none"]
Conflicts ==
    {NoConflict, [kind |-> "deleted"]} \cup
    [kind : {"changed"}, theirs : RemoteEvents, mine : Days]
Intervals == {i \in (0..MaxDay) \X (0..MaxDay) : i[1] < i[2]}
NoToken == -1

Idle == [phase |-> "idle"]
Jobs ==
    [phase : {"idle"}] \cup
    [phase : {"listing", "paging", "applying"}, full : BOOLEAN, hydration : BOOLEAN,
     reset : BOOLEAN, lo : 0..MaxDay, hi : 0..MaxDay, since : Revisions \cup {NoToken},
     next : Revisions, seen : SUBSET EventIds,
     staged : SUBSET (EventIds \X RemoteEvents), removed : SUBSET EventIds] \cup
    [phase : {"hydrating", "draining"}]

Covers(i, lo, hi) == i[1] <= lo /\ hi <= i[2]

\* isSyncRangeCovered: one stored interval has to contain the range.
Covered(lo, hi) == \E i \in coverage : Covers(i, lo, hi)

Within(lo, hi) == {d \in Days : lo <= d /\ d < hi}
DaysOf(intervals) == UNION {Within(i[1], i[2]) : i \in intervals}

\* mergeSyncCoverageInternal: the intervals that overlap or touch become one.
Touching(intervals, lo, hi) == {i \in intervals : i[2] >= lo /\ i[1] <= hi}

\* Mutant of Merged: an interval that touches the range stays beside it.
MergedOverlapping(intervals, lo, hi) ==
    LET near == {i \in intervals : i[2] > lo /\ i[1] < hi}
        start == Min({lo} \cup {i[1] : i \in near})
        end == Max({hi} \cup {i[2] : i \in near})
    IN  (intervals \ near) \cup {<<start, end>>}

\* Mutant of Merged: the intervals that are replaced do not widen the new one.
MergedForgetting(intervals, lo, hi) ==
    (intervals \ Touching(intervals, lo, hi)) \cup {<<lo, hi>>}

Merged(intervals, lo, hi) ==
    LET near == Touching(intervals, lo, hi)
        start == Min({lo} \cup {i[1] : i \in near})
        end == Max({hi} \cup {i[2] : i \in near})
    IN  (intervals \ Touching(intervals, start, end)) \cup {<<start, end>>}

----------------------------------------------------------------------------
TypeOK ==
    /\ remote \in [EventIds -> RemoteEvents]
    /\ local \in [EventIds -> LocalEvents]
    /\ conflict \in [EventIds -> Conflicts]
    /\ token \in Revisions \cup {NoToken}
    /\ coverage \subseteq Intervals
    /\ wanted \in Seq({i \in Intervals : i[2] - i[1] <= MaxSpan})
    /\ today \in FirstToday..(FirstToday + MaxSlides)
    /\ job \in Jobs
    /\ changes \in 0..MaxChanges /\ edits \in 0..MaxEdits
    /\ requests \in 0..MaxRequests /\ faults \in 0..MaxFaults

Init ==
    /\ remote \in [EventIds -> [day : Days, at : {0}]]
    /\ local = [e \in EventIds |-> [day |-> Nowhere, at |-> 0, dirty |-> FALSE]]
    /\ conflict = [e \in EventIds |-> NoConflict]
    /\ token = NoToken /\ coverage = {} /\ wanted = <<>>
    /\ today = FirstToday /\ job = Idle
    /\ changes = 0 /\ edits = 0 /\ requests = 0 /\ faults = 0

Fault(kind) ==
    /\ kind \in Faults /\ faults < MaxFaults
    /\ faults' = faults + 1

----------------------------------------------------------------------------
(* The server, the clock and the user                                       *)

ForeignChange(e, day) ==
    /\ changes < MaxChanges /\ remote[e].day \notin {Nowhere, day}
    /\ changes' = changes + 1
    /\ remote' = [remote EXCEPT ![e] = [day |-> day, at |-> changes + 1]]
    /\ UNCHANGED <<local, conflict, token, coverage, wanted, today, job, edits,
                   requests, faults>>

\* initialCoverageWindow moves with the date.
Slide ==
    /\ today < FirstToday + MaxSlides /\ today + Width < MaxDay
    /\ today' = today + 1
    /\ UNCHANGED <<data, wanted, job, counters>>

\* An event is dragged to another day.
EditEvent(e, day) ==
    /\ edits < MaxEdits /\ edits' = edits + 1
    /\ local[e].day \notin {Nowhere, day}
    /\ local' = [local EXCEPT ![e].day = day, ![e].dirty = TRUE]
    /\ UNCHANGED <<remote, conflict, token, coverage, wanted, today, job, changes,
                   requests, faults>>

----------------------------------------------------------------------------
(* Requests for ranges                                                      *)

\* Mutant of Joins: the limit is forgotten.
JoinsUnbounded(i, lo, hi) == lo <= i[2] /\ i[1] <= hi

\* syncRange: a request that overlaps or touches a waiting one is merged into
\* it, the first such, unless that grows beyond the limit.
Joins(i, lo, hi) ==
    /\ lo <= i[2] /\ i[1] <= hi
    /\ Max({hi, i[2]}) - Min({lo, i[1]}) <= MaxSpan

Requested(lo, hi) ==
    LET joining == {k \in DOMAIN wanted : Joins(wanted[k], lo, hi)}
    IN  IF joining = {} THEN Append(wanted, <<lo, hi>>)
        ELSE [wanted EXCEPT ![Min(joining)] =
                <<Min({lo, @[1]}), Max({hi, @[2]})>>]

SyncRange(lo, hi) ==
    /\ lo < hi /\ hi - lo <= MaxSpan
    /\ ~Covered(lo, hi)
    /\ wanted' = Requested(lo, hi)

\* A view asks for its range (ensureRangeHydrated).
EnsureRangeHydrated(lo, hi) ==
    /\ requests < MaxRequests /\ requests' = requests + 1
    /\ SyncRange(lo, hi)
    /\ UNCHANGED <<data, today, job, changes, edits, faults>>

\* runOlderHistoryBackfill: one more piece before the earliest known day.
OlderHistoryBackfill ==
    /\ requests < MaxRequests /\ requests' = requests + 1
    /\ coverage # {}
    /\ LET end == Min({i[1] : i \in coverage})
       IN  end > 0 /\ SyncRange(end - 1, end)
    /\ UNCHANGED <<data, today, job, changes, edits, faults>>

----------------------------------------------------------------------------
(* Listing                                                                  *)

\* startEventPage for the first page: which listing this is depends on what
\* is covered at this moment.
Listing(hydration, reset, lo, hi, since) ==
    [phase |-> "listing", full |-> hydration \/ since = NoToken,
     hydration |-> hydration, reset |-> reset, lo |-> lo, hi |-> hi, since |-> since,
     next |-> 0, seen |-> {}, staged |-> {}, removed |-> {}]

CalendarListing(reset) ==
    Listing(FALSE, reset, today, today + Width,
            IF reset \/ ~Covered(today, today + Width) THEN NoToken ELSE token)

StartSync ==
    /\ job = Idle
    /\ job' = CalendarListing(FALSE)
    /\ UNCHANGED <<data, wanted, today, counters>>

\* What the server would list now. An incremental listing tells deletions too.
Listed ==
    {e \in EventIds :
        IF job.full THEN remote[e].day \in Within(job.lo, job.hi)
                    ELSE remote[e].at > job.since}

\* stageEventPage. The token of a listing stands for its beginning.
Page(S) ==
    [job EXCEPT !.seen = @ \cup S,
                !.staged = @ \cup {<<e, remote[e]>> : e \in
                                     {x \in S : remote[x].day # Nowhere}},
                !.removed = @ \cup {e \in S : remote[e].day = Nowhere}]

FirstPage(S) ==
    /\ job.phase = "listing" /\ S \subseteq Listed
    /\ job' = [Page(S) EXCEPT !.phase = "paging", !.next = changes]
    /\ UNCHANGED <<data, wanted, today, counters>>

\* googleFullSyncPruneCandidates: what the local copy has in the window and
\* the listing did not show.
Pruned(seen) ==
    {e \in EventIds \ seen : local[e].day \in Within(job.lo, job.hi)}

LastPage ==
    /\ job.phase = "paging"
    /\ LET page == Page(Listed \ job.seen)
       IN  job' = [page EXCEPT !.phase = "applying",
                     !.removed = @ \cup IF job.full THEN Pruned(page.seen) ELSE {}]
    /\ UNCHANGED <<data, wanted, today, counters>>

\* 410: the token is dropped, once per job, and the window is listed anew.
TokenExpired ==
    /\ job.phase \in {"listing", "paging"} /\ ~job.full /\ ~job.reset
    /\ Fault("expired")
    /\ job' = CalendarListing(TRUE)
    /\ UNCHANGED <<data, wanted, today, changes, edits, requests>>

ListFails ==
    /\ job.phase \in {"listing", "paging"} /\ Fault("failure")
    /\ job' = Idle
    /\ UNCHANGED <<data, wanted, today, changes, edits, requests>>

----------------------------------------------------------------------------
(* Applying, hydrating, draining                                            *)

\* One staged event. A row with a local edit is kept and a conflict recorded,
\* unless the revision is the one it is based on.
ApplyEvent(e, row) ==
    /\ job.phase = "applying" /\ <<e, row>> \in job.staged
    /\ job' = [job EXCEPT !.staged = @ \ {<<e, row>>}]
    /\ IF ~local[e].dirty
       THEN /\ local' = [local EXCEPT ![e] =
                           [day |-> row.day, at |-> row.at, dirty |-> FALSE]]
            /\ conflict' = conflict
       ELSE /\ conflict' = IF row.at = local[e].at THEN conflict
                           ELSE [conflict EXCEPT ![e] =
                                   [kind |-> "changed", theirs |-> row,
                                    mine |-> local[e].day]]
            /\ local' = local
    /\ UNCHANGED <<remote, token, coverage, wanted, today, counters>>

RemoveEvent(e) ==
    /\ job.phase = "applying" /\ job.staged = {} /\ e \in job.removed
    /\ job' = [job EXCEPT !.removed = @ \ {e}]
    /\ IF ~local[e].dirty
       THEN /\ local' = [local EXCEPT ![e].day = Nowhere]
            /\ conflict' = conflict
       ELSE /\ conflict' = [conflict EXCEPT ![e] = [kind |-> "deleted"]]
            /\ local' = local
    /\ UNCHANGED <<remote, token, coverage, wanted, today, counters>>

NewCoverage ==
    Merged(IF job.reset THEN {} ELSE coverage, job.lo, job.hi)

\* Mutant of Answered: the head goes whatever was asked meanwhile.
AnsweredHead ==
    IF job.hydration /\ wanted # <<>> THEN Tail(wanted) ELSE wanted

\* A hydration that was answered is taken off the list, unless the request
\* at the head has grown meanwhile.
Answered ==
    IF job.hydration /\ wanted # <<>> /\ Head(wanted) = <<job.lo, job.hi>>
    THEN Tail(wanted) ELSE wanted

\* Mutant of ApplyFinal: a hydration stores its token as well.
ApplyFinalToken ==
    /\ job.phase = "applying" /\ job.staged = {} /\ job.removed = {}
    /\ token' = job.next
    /\ coverage' = IF job.full THEN NewCoverage ELSE coverage
    /\ wanted' = Answered
    /\ job' = [phase |-> "hydrating"]
    /\ UNCHANGED <<remote, local, conflict, today, counters>>

\* The last transaction: token and coverage.
ApplyFinal ==
    /\ job.phase = "applying" /\ job.staged = {} /\ job.removed = {}
    /\ token' = IF job.hydration THEN token ELSE job.next
    /\ coverage' = IF job.full THEN NewCoverage ELSE coverage
    /\ wanted' = Answered
    /\ job' = [phase |-> "hydrating"]
    /\ UNCHANGED <<remote, local, conflict, today, counters>>

\* Mutant of NextHydration: it ends with the first range that is covered.
NextHydrationOnce ==
    /\ job.phase = "hydrating"
    /\ IF wanted = <<>> \/ Covered(Head(wanted)[1], Head(wanted)[2])
       THEN job' = [phase |-> "draining"]
       ELSE job' = Listing(TRUE, FALSE, Head(wanted)[1], Head(wanted)[2], NoToken)
    /\ wanted' = wanted
    /\ UNCHANGED <<data, today, counters>>

\* syncNextHydration
NextHydration ==
    /\ job.phase = "hydrating"
    /\ IF wanted = <<>> THEN job' = [phase |-> "draining"] /\ wanted' = wanted
       ELSE LET r == Head(wanted)
            IN  IF Covered(r[1], r[2])
                THEN wanted' = Tail(wanted) /\ job' = job
                ELSE job' = Listing(TRUE, FALSE, r[1], r[2], NoToken) /\ wanted' = wanted
    /\ UNCHANGED <<data, today, counters>>

\* The outbox: a local edit is sent with the revision it is based on, and
\* taken if the server still has that one. A conflict does not hold it back.
Push(e) ==
    /\ job.phase = "draining" /\ changes < MaxChanges
    /\ local[e].dirty /\ remote[e].at = local[e].at
    /\ remote[e].day # Nowhere
    /\ changes' = changes + 1
    /\ remote' = [remote EXCEPT ![e] = [day |-> local[e].day, at |-> changes + 1]]
    /\ local' = [local EXCEPT ![e].at = changes + 1, ![e].dirty = FALSE]
    /\ UNCHANGED <<conflict, token, coverage, wanted, today, job, edits, requests,
                   faults>>

\* The job ends well, and resolveNewestConflicts decides the conflicts whose
\* sides have different dates; a deletion has none.
Finish(mine, theirs) ==
    /\ job.phase = "draining"
    /\ \A e \in mine \cup theirs : conflict[e].kind = "changed"
    /\ mine \cap theirs = {}
    /\ local' = [e \in EventIds |->
         IF e \in mine THEN [day |-> conflict[e].mine, at |-> conflict[e].theirs.at,
                            dirty |-> TRUE]
         ELSE IF e \in theirs THEN [day |-> conflict[e].theirs.day,
                                   at |-> conflict[e].theirs.at, dirty |-> FALSE]
         ELSE local[e]]
    /\ conflict' = [e \in EventIds |->
                      IF e \in mine \cup theirs THEN NoConflict ELSE conflict[e]]
    /\ job' = Idle
    /\ UNCHANGED <<remote, token, coverage, wanted, today, counters>>

Crash ==
    /\ Fault("crash") /\ job # Idle
    /\ job' = Idle /\ wanted' = <<>>
    /\ UNCHANGED <<data, today, changes, edits, requests>>

----------------------------------------------------------------------------
Next ==
    \/ \E e \in EventIds, day \in Days :
        ForeignChange(e, day) \/ EditEvent(e, day)
    \/ \E e \in EventIds : ForeignChange(e, Nowhere)
    \/ Slide
    \/ \E lo, hi \in 0..MaxDay : EnsureRangeHydrated(lo, hi)
    \/ OlderHistoryBackfill
    \/ StartSync \/ LastPage \/ TokenExpired \/ ListFails
    \/ \E S \in SUBSET EventIds : FirstPage(S)
    \/ \E e \in EventIds, row \in RemoteEvents : ApplyEvent(e, row)
    \/ \E e \in EventIds : RemoveEvent(e) \/ Push(e)
    \/ ApplyFinal \/ NextHydration
    \/ \E mine, theirs \in SUBSET EventIds : Finish(mine, theirs)
    \/ Crash

Spec == Init /\ [][Next]_vars

\* The timer starts synchronisations, requests are answered or fail, and the
\* apply and the drain continue from the event loop.
FairSpec ==
    /\ Spec
    /\ WF_vars(StartSync)
    /\ WF_vars(\E S \in SUBSET EventIds : FirstPage(S))
    /\ WF_vars(LastPage)
    /\ WF_vars(\E e \in EventIds, row \in RemoteEvents : ApplyEvent(e, row))
    /\ WF_vars(\E e \in EventIds : RemoveEvent(e))
    /\ WF_vars(ApplyFinal) /\ WF_vars(NextHydration)
    /\ WF_vars(\E mine, theirs \in SUBSET EventIds : Finish(mine, theirs))

----------------------------------------------------------------------------
(* Properties                                                               *)

\* Stored intervals neither overlap nor touch, so that a range whose days are
\* all covered lies in one of them and isSyncRangeCovered, which looks for a
\* single row, recognises it (mergeSyncCoverageInternal).
CoverageSeparated ==
    \A i, j \in coverage : i # j => i[2] < j[1] \/ j[2] < i[1]

\* The intervals stand for a set of days that only completed pulls change
\* (applyRemoteRangeSyncBatch, mergeSyncCoverageInternal): the specification
\* DayCoverage is implemented.
Replacing == job.phase \in {"listing", "paging", "applying"} /\ job.reset
Abstract ==
    INSTANCE DayCoverage WITH covered <- DaysOf(coverage), refused <- Replacing
CoverageRefinement == Abstract!CoverageSpec

\* What is wrong with an event of a covered day the sync token stands for:
\* the local copy is neither what the server has, nor locally changed. After
\* local edits only the server's day counts: a conflict decided for the
\* provider brings back the copy it was recorded with, which may have left
\* the window before an expired token had it listed anew.
DaysAtStake(e) == {remote[e].day} \cup IF edits = 0 THEN {local[e].day} ELSE {}

Stale(e) ==
    /\ remote[e].at <= token
    /\ DaysAtStake(e) \cap DaysOf(coverage) # {}
    /\ ~local[e].dirty /\ conflict[e] = NoConflict
    /\ \/ local[e].day # remote[e].day
       \/ local[e].at # remote[e].at /\ remote[e].day # Nowhere

\* As long as the default window does not move, the local copy of a covered
\* day is what the server had when the token was issued: pages read while
\* others write, hydrations beside incremental listings, expired tokens,
\* failures and crashes half-way lose no change and leave no ghost
\* (startEventPage, stageEventPage, applyRemoteRangeSyncBatch).
CoveredIsFresh == today = FirstToday => \A e \in EventIds : ~Stale(e)

\* The same whatever the date: a range reported as complete is not partial
\* (docs/IPC.md on "coverage"). Violated: the listing that replaces the
\* incremental one when the window has moved shows the window only, and its
\* token skips what changed elsewhere in covered ranges.
CoveredStaysFresh == \A e \in EventIds : ~Stale(e)

\* A conflict is recorded only for a revision the server has and the local
\* edit is not based on (docs/ARCHITECTURE.md, step 3). Violated: an edit that
\* moved the event into a range hydrated before it is sent looks like an
\* event the server no longer has.
ConflictHasCause ==
    \A e \in EventIds : conflict[e] # NoConflict => remote[e].at > local[e].at

\* A range that views asked for is forgotten only once it is covered, also if
\* the request grew while its first form was being listed; a restart forgets
\* them all (syncRange, syncNextHydration, the completion in stageEventPage).
DaysWanted == DaysOf({wanted[k] : k \in DOMAIN wanted})
HydratedBeforeForgotten ==
    [][\/ DaysWanted \subseteq DaysWanted' \cup DaysOf(coverage')
       \/ Crash]_vars

\* Ranges asked for are all dealt with in the end (syncNextHydration).
HydrationCompletes == wanted # <<>> ~> wanted = <<>>
==============================================================================
