-------------------------- MODULE ReminderDelivery --------------------------
(***************************************************************************)
(* Delivery of reminders: the table reminder_jobs (core/database.cpp), the *)
(* scheduler that claims due rows and hands them to the desktop's          *)
(* notification service (reminders/reminderscheduler.cpp), the user, and   *)
(* the synchronisation that rewrites the event underneath.                 *)
(*                                                                         *)
(* A row is claimed in one transaction, the notification is sent over      *)
(* D-Bus, and its reply records the delivery: three steps, with a lease on *)
(* the claim so that a daemon that died in between does not lose the       *)
(* reminder.  The daemon has one thread; the phases "check" and "deliver"  *)
(* lie inside one handler, where only the clock, the notification service  *)
(* and a crash can act.                                                    *)
(*                                                                         *)
(* Time is what the code compares dates with: a fire time is early, due or *)
(* past the grace period; an occurrence has started or not; a snooze and a *)
(* lease have run out or not.  One event is modelled; events meet only in  *)
(* the order in which a handler delivers their due rows.                   *)
(***************************************************************************)
EXTENDS Integers, FiniteSets, Functions

CONSTANTS
    Keys,           \* fingerprints: an occurrence of the event and an alarm of it
    MaxClaims,      \* bound: deliveries ever attempted
    Changes,        \* what happens to the event and its calendar: of ChangeNames
    MaxEdits,       \* bound: such changes
    MaxSnoozes,     \* bound: snoozes and dismissals by the user
    Faults,         \* what may go wrong: of FaultNames
    MaxFaults       \* bound: faults in a behaviour

\* The service refuses a call, D-Bus gives up on one, a delivery cannot be
\* written, the event loop stalls past a lease, the system sleeps, the daemon
\* dies.
FaultNames == {"refused", "timeout", "database", "stall", "sleep", "crash"}

\* An edit by the user, a version stored by a pull or an acknowledgement, a
\* removal and its undo, the removal of the series around an exception, the
\* deletion of the row, and the calendar's alerts switched off and on.
ChangeNames == {"edit", "refresh", "remove", "undo", "hold", "delete", "mute"}

ASSUME ReminderAssumption ==
    /\ IsFiniteSet(Keys)
    /\ MaxClaims \in Nat /\ MaxEdits \in Nat /\ MaxSnoozes \in Nat
    /\ Changes \subseteq ChangeNames
    /\ Faults \subseteq FaultNames /\ MaxFaults \in Nat

VARIABLES
    event,          \* the event the rows belong to
    instances,      \* event_instances: its occurrences, as last expanded
    muted,          \* calendars.ignore_alerts
    jobs,           \* reminder_jobs: fingerprint -> row
    calls,          \* the notifications ever requested: token -> call
    pending,        \* ReminderScheduler::m_pending
    active,         \* ReminderScheduler::m_active
    phase,          \* where the scheduler's handler is
    due,            \* the due rows the handler still has to deliver
    sleeping,       \* ReminderScheduler::m_sleeping
    age,            \* the fire time of each fingerprint against the clock
    started,        \* the occurrences that have started
    edits, snoozes, faults, \* how often each bounded thing happened
    causes,         \* history: what entitles a reminder to be shown again
    missed          \* history: rows that came due while the calendar was muted

calendarVars == <<event, instances, muted>>
schedulerVars == <<pending, active, phase, due, sleeping>>
clockVars == <<age, started>>
bounds == <<edits, snoozes, faults>>
history == <<causes, missed>>
vars == <<calendarVars, jobs, calls, schedulerVars, clockVars, bounds, history>>

None == 0
Tokens == 1 .. MaxClaims

\* snooze: snoozed_until is empty, lies ahead or is over; a claim keeps it.
JobRows == [state : {"pending", "snoozed", "claimed", "delivered", "dismissed"},
            snooze : {"none", "ahead", "over"}, token : Tokens \cup {None}]

\* hasRow: the row the call was made for still exists (a row that is inserted
\* again has another id); lease: whether the claim's lease_expires_at has passed.
Calls == [key : Keys, hasRow : BOOLEAN, state : {"sent", "shown", "refused"},
          lease : {"live", "expired"}]

\* alarms: it has reminders; stored: live, a tombstone that waits for its removal
\* to be sent, or gone; held: the removal of the series the event is an exception
\* of is queued.
Events == [occurs : SUBSET Keys, alarms : BOOLEAN, cancelled : BOOLEAN,
           held : BOOLEAN, stored : {"live", "removed", "gone"}]

Live == event.stored = "live"

\* The fingerprints the event calls for, and the occurrences still to come.
Planned(e) == IF e.alarms /\ e.stored = "live" THEN e.occurs ELSE {}
Upcoming(k) == k \in instances \ started

Empty == [k \in {} |-> k]
Idle == phase = "idle"
Fault(f) == f \in Faults /\ faults < MaxFaults /\ faults' = faults + 1
Change(c) == c \in Changes /\ edits < MaxEdits /\ edits' = edits + 1
Touch == snoozes < MaxSnoozes /\ snoozes' = snoozes + 1
Cause(S) ==
    causes' = [k \in Keys |-> IF k \in S THEN causes[k] + 1 ELSE causes[k]]
-----------------------------------------------------------------------------
(* What the statements of the database do to one row.                      *)

NewRow == [state |-> "pending", snooze |-> "none", token |-> None]

\* Mutant of Unclaimed: the state is not reset.
UnclaimedKeepsState(row) == [row EXCEPT !.token = None]

\* A claim that is given up leaves the row as it was: the claim kept the snooze.
Unclaimed(row) ==
    [row EXCEPT !.state = IF row.snooze = "none" THEN "pending" ELSE "snoozed",
                !.token = None]

Dismissed(row) == [row EXCEPT !.state = "dismissed", !.token = None]
Snoozed(row) == [state |-> "snoozed", snooze |-> "ahead", token |-> None]
Delivered(row) == [state |-> "delivered", snooze |-> "none", token |-> None]

SetRow(k, row) == jobs' = [jobs EXCEPT ![k] = row]

\* The rows, changed by f where they are in S.
Changed(S, f(_)) ==
    [k \in DOMAIN jobs |-> IF k \in S THEN f(jobs[k]) ELSE jobs[k]]

\* finish and release ask for the row's id, its state and the claim's token.
ClaimHeld(t) ==
    /\ calls[t].hasRow
    /\ jobs[calls[t].key].state = "claimed" /\ jobs[calls[t].key].token = t
-----------------------------------------------------------------------------
(* The event and its calendar change.  A handler that changes an event     *)
(* ends in eventsChanged and with it checkNow.                             *)

Waiting == {k \in DOMAIN jobs : jobs[k].state \in {"pending", "snoozed"}}

\* Mutant of Kept: delivered rows are replaced as well.
KeptClaims == {k \in DOMAIN jobs : jobs[k].state \in {"claimed", "dismissed"}}

\* Rows that were claimed, delivered or dismissed stay.
Kept == DOMAIN jobs \ Waiting

DuePending(table) ==
    {k \in DOMAIN table : table[k].state = "pending" /\ age[k] # "early"}

\* Database::rebuildReminderJobs: waiting rows are deleted, and those the event
\* calls for are inserted unless their fingerprint is still there.
RebuildReminderJobs(e) ==
    /\ event' = e
    /\ instances' = IF e.stored = "live" THEN e.occurs ELSE {}
    /\ jobs' = [k \in Kept \cup Planned(e) |->
                    IF k \in Kept THEN jobs[k] ELSE NewRow]
    /\ calls' = [t \in DOMAIN calls |->
                    [calls[t] EXCEPT !.hasRow = @ /\ calls[t].key \in Kept]]
    /\ missed' = IF muted THEN DuePending(jobs') ELSE {}

EditEvent(e) ==
    /\ Idle /\ Live /\ Change("edit")
    /\ RebuildReminderJobs(e)
    /\ phase' = "check"
    /\ UNCHANGED <<muted, pending, active, due, sleeping, clockVars, snoozes,
                   faults, causes>>

\* A pull or an acknowledgement stores the event again, changed or not; its
\* eventsChanged comes when the job ends.
RefreshEvent(e) ==
    /\ Idle /\ Live /\ Change("refresh")
    /\ RebuildReminderJobs(e)
    /\ UNCHANGED <<muted, schedulerVars, clockVars, snoozes, faults, causes>>

RemoveEvent ==
    /\ Idle /\ Live /\ Change("remove")
    /\ RebuildReminderJobs([event EXCEPT !.stored = "removed"])
    /\ phase' = "check"
    /\ UNCHANGED <<muted, pending, active, due, sleeping, clockVars, snoozes,
                   faults, causes>>

\* Database::discardOutbox of a removal sets the columns of the event, and
\* nothing else.
UndoRemove ==
    /\ Idle /\ event.stored = "removed" /\ Change("undo")
    /\ event' = [event EXCEPT !.stored = "live"]
    /\ phase' = "check"
    /\ UNCHANGED <<instances, muted, jobs, calls, pending, active, due,
                   sleeping, clockVars, snoozes, faults, history>>

\* The series removal is queued, or undone: no row of this event changes.
HoldEvent(b) ==
    /\ Idle /\ Live /\ Change("hold")
    /\ b # event.held
    /\ event' = [event EXCEPT !.held = b]
    /\ phase' = "check"
    /\ UNCHANGED <<instances, muted, jobs, calls, pending, active, due,
                   sleeping, clockVars, snoozes, faults, history>>

\* DELETE FROM events: the rows go with the event.
DeleteEvent ==
    /\ Idle /\ event.stored # "gone" /\ Change("delete")
    /\ event' = [event EXCEPT !.stored = "gone"]
    /\ instances' = {}
    /\ jobs' = Empty
    /\ calls' = [t \in DOMAIN calls |-> [calls[t] EXCEPT !.hasRow = FALSE]]
    /\ missed' = {}
    /\ UNCHANGED <<muted, schedulerVars, clockVars, snoozes, faults, causes>>

\* Mutant of SetMuted: the reminders that came due meanwhile are kept.
SetMutedKeeping(b) ==
    /\ Idle /\ Change("mute")
    /\ muted' = b
    /\ missed' = IF b THEN missed \cup DuePending(jobs) ELSE missed
    /\ UNCHANGED <<event, instances, jobs, calls, schedulerVars, clockVars,
                   snoozes, faults, causes>>

\* Database::updateCalendarPreferences: leaving the muted state consumes the
\* reminders that came due in it.
SetMuted(b) ==
    /\ Idle /\ Change("mute")
    /\ muted' = b
    /\ jobs' = IF muted /\ ~b THEN Changed(DuePending(jobs), Dismissed) ELSE jobs
    /\ missed' = IF b THEN missed \cup DuePending(jobs) ELSE missed
    /\ UNCHANGED <<event, instances, calls, schedulerVars, clockVars, snoozes,
                   faults, causes>>
-----------------------------------------------------------------------------
(* ReminderScheduler::checkNow, by the timer, after a change, on waking.   *)

LeaseExpired(row) == row.state = "claimed" /\ calls[row.token].lease = "expired"

\* Mutant of Recovered: a claim is never given up.
RecoveredNever == {}

\* Database::recoverExpiredReminderDeliveries and the reminders' half of
\* recoverClaimedNotificationDeliveries.
Recovered == {k \in DOMAIN jobs : LeaseExpired(jobs[k])}

\* Database::dismissStaleReminders, on the table after the recovery.
Stale(table) ==
    {k \in DOMAIN table :
        /\ table[k].state = "pending"
        /\ \/ muted /\ age[k] # "early"
           \/ age[k] = "late" /\ ~Upcoming(k)}

\* Database::dueReminders.
DueIn(table) ==
    {k \in DOMAIN table :
        /\ ~muted
        /\ \/ /\ table[k].state = "pending"
              /\ age[k] = "due" \/ (age[k] = "late" /\ Upcoming(k))
           \/ table[k].state = "snoozed" /\ table[k].snooze = "over"}

\* checkNow up to its loop: recover, sweep, forget expired attempts, query.
CheckNow ==
    /\ phase \in {"idle", "check"}
    /\ ~sleeping
    /\ LET free == Changed(Recovered, Unclaimed)
           stale == Stale(free)
           swept == [k \in DOMAIN jobs |->
                        IF k \in stale THEN Dismissed(free[k]) ELSE free[k]]
       IN  /\ Cardinality(DOMAIN calls) + Cardinality(DueIn(swept)) <= MaxClaims
           /\ jobs' = swept
           /\ due' = DueIn(swept)
           /\ phase' = IF due' = {} THEN "idle" ELSE "deliver"
           /\ missed' = missed \ stale
    /\ pending' = {t \in pending : calls[t].lease = "live"}
    /\ Cause(Recovered)
    /\ UNCHANGED <<calendarVars, calls, active, sleeping, clockVars, bounds>>

\* While the system prepares to sleep a change is only remembered.
CheckAsleep ==
    /\ phase = "check" /\ sleeping
    /\ phase' = "idle"
    /\ UNCHANGED <<calendarVars, jobs, calls, pending, active, due, sleeping,
                   clockVars, bounds, history>>

NextDue(k) ==
    /\ phase = "deliver" /\ k \in due
    /\ due' = due \ {k}
    /\ phase' = IF due' = {} THEN "idle" ELSE "deliver"

Off == event.cancelled \/ ~Live

\* A reminder whose occurrence began while the handler was busy.
Overtaken(k) == jobs[k].state = "pending" /\ age[k] = "late" /\ k \in started

\* ReminderScheduler::deliver: the row of an event that is cancelled
\* or removed, and a stale row, is dismissed.
DeliverDismisses(k) ==
    /\ NextDue(k)
    /\ Off \/ (~event.held /\ Overtaken(k))
    /\ SetRow(k, Dismissed(jobs[k]))
    /\ missed' = missed \ {k}
    /\ UNCHANGED <<calendarVars, calls, pending, active, sleeping, clockVars,
                   bounds, causes>>

\* ... and an event whose series is being removed keeps its row.
DeliverWaits(k) ==
    /\ NextDue(k)
    /\ ~Off /\ event.held
    /\ UNCHANGED <<calendarVars, jobs, calls, pending, active, sleeping,
                   clockVars, bounds, history>>

\* ... otherwise the row is claimed under a new token and the notification sent.
Deliver(k) ==
    /\ NextDue(k)
    /\ ~Off /\ ~event.held /\ ~Overtaken(k)
    /\ LET t == Cardinality(DOMAIN calls) + 1 IN
        /\ SetRow(k, [jobs[k] EXCEPT !.state = "claimed", !.token = t])
        /\ calls' = [u \in DOMAIN calls \cup {t} |->
                        IF u = t
                        THEN [key |-> k, hasRow |-> TRUE, state |-> "sent",
                              lease |-> "live"]
                        ELSE calls[u]]
        /\ pending' = pending \cup {t}
    /\ UNCHANGED <<calendarVars, active, sleeping, clockVars, bounds, history>>
-----------------------------------------------------------------------------
(* The notification service, and its replies.                              *)

ServiceAnswers(t, answer) ==
    /\ t \in DOMAIN calls /\ calls[t].state = "sent"
    /\ calls' = [calls EXCEPT ![t].state = answer]
    /\ UNCHANGED <<calendarVars, jobs, schedulerVars, clockVars, edits,
                   snoozes, history>>

ServiceShows(t) == ServiceAnswers(t, "shown") /\ UNCHANGED faults
ServiceRefuses(t) == ServiceAnswers(t, "refused") /\ Fault("refused")

Answered(t) == Idle /\ t \in pending /\ pending' = pending \ {t}

\* Mutant of FinishReminder: the row is found by its id alone.
FinishReminderUnfenced(t) ==
    jobs' = IF calls[t].hasRow
            THEN [jobs EXCEPT ![calls[t].key] = Delivered(@)] ELSE jobs

\* Database::finishReminderDelivery.
FinishReminder(t) ==
    jobs' = IF ClaimHeld(t)
            THEN [jobs EXCEPT ![calls[t].key] = Delivered(@)] ELSE jobs

\* onNotificationResult with a notification id.  When the delivery cannot be
\* written the claim stays until its lease expires.
ResultShown(t, written) ==
    /\ Answered(t) /\ calls[t].state = "shown"
    /\ IF written THEN FinishReminder(t) ELSE UNCHANGED jobs
    /\ active' = active \cup {t}
    /\ UNCHANGED <<calendarVars, calls, phase, due, sleeping, clockVars, edits,
                   snoozes, history>>

\* Database::releaseReminderDelivery, after an error.
ReleaseReminder(t) ==
    jobs' = IF ClaimHeld(t)
            THEN [jobs EXCEPT ![calls[t].key] = Unclaimed(@)] ELSE jobs

ResultRefused(t) ==
    /\ Answered(t) /\ calls[t].state = "refused"
    /\ ReleaseReminder(t)
    /\ UNCHANGED <<calendarVars, calls, active, phase, due, sleeping,
                   clockVars, bounds, history>>

\* D-Bus reports a timeout; the service may have shown the notification, or
\* show it later.
ResultTimesOut(t) ==
    /\ Fault("timeout")
    /\ Answered(t) /\ calls[t].state # "refused"
    /\ ReleaseReminder(t)
    /\ Cause({calls[t].key})
    /\ UNCHANGED <<calendarVars, calls, active, phase, due, sleeping,
                   clockVars, edits, snoozes, missed>>
-----------------------------------------------------------------------------
(* The user: reminders.snooze and reminders.dismiss name a row, a button   *)
(* on a notification names the row it was shown for.                       *)

\* Mutant of SnoozeReminder: a dismissed reminder can be snoozed.
SnoozeReminderAnyway(k) == SetRow(k, Snoozed(jobs[k])) /\ Cause({k})

\* Database::snoozeReminderAt and snoozeReminderUntil: not when dismissed.
SnoozeReminder(k) ==
    IF jobs[k].state = "dismissed"
    THEN UNCHANGED <<jobs, causes>>
    ELSE SetRow(k, Snoozed(jobs[k])) /\ Cause({k})

DismissReminder(k) == SetRow(k, Dismissed(jobs[k])) /\ UNCHANGED causes

OnRemindersSnooze(k) ==
    /\ Idle /\ Touch /\ k \in DOMAIN jobs
    /\ SnoozeReminder(k)
    /\ missed' = missed \ {k}
    /\ UNCHANGED <<calendarVars, calls, schedulerVars, clockVars, edits,
                   faults>>

OnRemindersDismiss(k) ==
    /\ Idle /\ Touch /\ k \in DOMAIN jobs
    /\ DismissReminder(k)
    /\ missed' = missed \ {k}
    /\ UNCHANGED <<calendarVars, calls, schedulerVars, clockVars, edits,
                   faults>>

\* onActionInvoked; the other buttons open something.
OnActionInvoked(t) ==
    /\ Idle /\ Touch /\ t \in active
    /\ active' = active \ {t}
    /\ LET k == calls[t].key IN
        \/ calls[t].hasRow /\ SnoozeReminder(k) /\ missed' = missed \ {k}
        \/ calls[t].hasRow /\ DismissReminder(k) /\ missed' = missed \ {k}
        \/ UNCHANGED <<jobs, causes, missed>>
    /\ UNCHANGED <<calendarVars, calls, pending, phase, due, sleeping,
                   clockVars, edits, faults>>
-----------------------------------------------------------------------------
(* Sleep, the clock, and restarts.                                         *)

\* handlePrepareForSleep; on waking the check is run by the event loop.
PrepareForSleep(b) ==
    /\ Idle /\ b # sleeping
    /\ IF b THEN Fault("sleep") ELSE UNCHANGED faults
    /\ sleeping' = b
    /\ UNCHANGED <<calendarVars, jobs, calls, pending, active, phase, due,
                   clockVars, edits, snoozes, history>>

FireTimePasses(k) ==
    /\ age[k] # "late"
    /\ age' = [age EXCEPT ![k] = IF @ = "early" THEN "due" ELSE "late"]
    /\ missed' = IF /\ age[k] = "early" /\ muted
                    /\ k \in DOMAIN jobs /\ jobs[k].state = "pending"
                 THEN missed \cup {k} ELSE missed
    /\ UNCHANGED <<calendarVars, jobs, calls, schedulerVars, started, bounds,
                   causes>>

OccurrenceStarts(k) ==
    /\ k \notin started
    /\ started' = started \cup {k}
    /\ UNCHANGED <<calendarVars, jobs, calls, schedulerVars, age, bounds,
                   history>>

SnoozeEnds(k) ==
    /\ k \in DOMAIN jobs /\ jobs[k].snooze = "ahead"
    /\ jobs' = [jobs EXCEPT ![k].snooze = "over"]
    /\ UNCHANGED <<calendarVars, calls, schedulerVars, clockVars, bounds,
                   history>>

\* A lease outlives the timeout of its call: it passes under a call the daemon
\* still waits for only when the daemon did not run.  No code asks for the lease
\* of a call that is neither waited for nor holds a claim.
LeaseExpires(t) ==
    /\ t \in DOMAIN calls /\ calls[t].lease = "live"
    /\ \/ t \in pending /\ Fault("stall")
       \/ t \notin pending /\ ClaimHeld(t) /\ UNCHANGED faults
    /\ calls' = [calls EXCEPT ![t].lease = "expired"]
    /\ UNCHANGED <<calendarVars, jobs, schedulerVars, clockVars, edits,
                   snoozes, history>>

\* The daemon dies, also in the middle of a check, and starts again: start
\* recovers only the claims that have expired.  The call of the last claim may
\* not have left.
Crash ==
    /\ Fault("crash")
    /\ pending' = {} /\ active' = {} /\ due' = {}
    /\ sleeping' = FALSE
    /\ phase' = "idle"
    /\ jobs' = Changed(Recovered, Unclaimed)
    /\ Cause(Recovered)
    /\ \/ UNCHANGED calls
       \/ \E t \in pending :
            /\ calls[t].state = "sent" /\ \A u \in DOMAIN calls : u <= t
            /\ calls' = [calls EXCEPT ![t].state = "refused"]
    /\ UNCHANGED <<calendarVars, clockVars, edits, snoozes, missed>>
-----------------------------------------------------------------------------
Init ==
    /\ event \in [occurs : SUBSET Keys, alarms : {TRUE}, cancelled : {FALSE},
                  held : {FALSE}, stored : {"live"}]
    /\ instances = event.occurs
    /\ muted = FALSE
    /\ jobs = [k \in event.occurs |-> NewRow]
    /\ calls = Empty
    /\ pending = {} /\ active = {}
    /\ phase = "idle" /\ due = {} /\ sleeping = FALSE
    /\ age = [k \in Keys |-> "early"] /\ started = {}
    /\ edits = 0 /\ snoozes = 0 /\ faults = 0
    /\ causes = [k \in Keys |-> 0]
    /\ missed = {}

ChangeStep ==
    \/ \E e \in {e \in Events : e.held = event.held /\ e.stored = "live"} :
            EditEvent(e) \/ RefreshEvent(e)
    \/ RemoveEvent \/ UndoRemove \/ DeleteEvent
    \/ \E b \in BOOLEAN : HoldEvent(b) \/ SetMuted(b)

Check == CheckNow \/ CheckAsleep

DeliverNext ==
    \E k \in Keys : DeliverDismisses(k) \/ DeliverWaits(k) \/ Deliver(k)

Result(t) ==
    \/ ResultShown(t, TRUE) /\ UNCHANGED faults
    \/ ResultRefused(t)

UserStep ==
    \/ \E k \in Keys : OnRemindersSnooze(k) \/ OnRemindersDismiss(k)
    \/ \E t \in Tokens : OnActionInvoked(t)

ClockStep ==
    \/ \E k \in Keys : FireTimePasses(k) \/ OccurrenceStarts(k) \/ SnoozeEnds(k)
    \/ \E t \in Tokens : LeaseExpires(t)

FaultStep ==
    \/ \E t \in Tokens :
        \/ ServiceRefuses(t) \/ ResultTimesOut(t)
        \/ Fault("database") /\ ResultShown(t, FALSE)
    \/ Crash

Next ==
    \/ ChangeStep \/ Check \/ DeliverNext \/ UserStep \/ ClockStep \/ FaultStep
    \/ \E t \in Tokens : ServiceShows(t) \/ Result(t)
    \/ \E b \in BOOLEAN : PrepareForSleep(b)

Spec == Init /\ [][Next]_vars

\* The 30-second timer runs the check, the event loop finishes handlers, D-Bus
\* answers every call (with an error after its timeout), the clock runs, and a
\* system that sleeps wakes up.
Fairness ==
    /\ WF_vars(CheckNow) /\ WF_vars(CheckAsleep) /\ WF_vars(DeliverNext)
    /\ \A t \in Tokens : WF_vars(ServiceShows(t)) /\ WF_vars(Result(t))
    /\ \A t \in Tokens : WF_vars(LeaseExpires(t))
    /\ \A k \in Keys : WF_vars(FireTimePasses(k)) /\ WF_vars(OccurrenceStarts(k))
    /\ \A k \in Keys : WF_vars(SnoozeEnds(k))
    /\ WF_vars(PrepareForSleep(FALSE))

FairSpec == Spec /\ Fairness
-----------------------------------------------------------------------------
(* Properties.                                                             *)

\* The shape of the state: a claimed row carries the token of a call that was
\* made for this very row.
TypeOK ==
    /\ event \in Events /\ instances \subseteq Keys
    /\ muted \in BOOLEAN
    /\ DOMAIN jobs \subseteq Keys
    /\ \A k \in DOMAIN jobs : jobs[k] \in JobRows
    /\ DOMAIN calls \subseteq Tokens
    /\ \A t \in DOMAIN calls :
        calls[t] \in Calls /\ (calls[t].hasRow => calls[t].key \in DOMAIN jobs)
    /\ \A k \in DOMAIN jobs :
        jobs[k].state = "claimed" => /\ jobs[k].token \in DOMAIN calls
                                     /\ calls[jobs[k].token].hasRow
                                     /\ calls[jobs[k].token].key = k
    /\ pending \subseteq DOMAIN calls /\ active \subseteq DOMAIN calls
    /\ phase \in {"idle", "check", "deliver"}
    /\ due \subseteq DOMAIN jobs /\ (due # {} <=> phase = "deliver")
    /\ sleeping \in BOOLEAN
    /\ age \in [Keys -> {"early", "due", "late"}] /\ started \subseteq Keys
    /\ causes \in [Keys -> Nat] /\ missed \subseteq DOMAIN jobs

Shown(k) == {t \in DOMAIN calls : calls[t].key = k /\ calls[t].state = "shown"}

\* A reminder is shown once, and again only when the user snoozed it or a claim
\* had to be given up (its lease expired, or its reply was an error), or came
\* back with its event.
NoSpuriousRepeat == \A k \in Keys : Cardinality(Shown(k)) <= 1 + causes[k]

\* A snooze ends when its time has come, when the user says so or when the event
\* is written: no late reply to the notification it was pressed on, and no
\* recovery, ends it.
SnoozeKept ==
    [][\A k \in DOMAIN jobs \cap DOMAIN jobs' :
        /\ jobs[k].state = "snoozed" /\ jobs[k].snooze = "ahead"
        /\ snoozes' = snoozes /\ edits' = edits
        => jobs'[k].state = "snoozed"]_vars

\* The token of a removal "restores the event" (AppController): an event that is
\* not removed has a row for each reminder it calls for.
RemindersScheduled == Planned(event) \subseteq DOMAIN jobs

\* What the user dismissed stays dismissed, whatever replies, buttons of older
\* notifications, refreshes and restarts come after.
DismissedIsFinal ==
    [][\A k \in DOMAIN jobs \cap DOMAIN jobs' :
        jobs[k].state = "dismissed" => jobs'[k].state = "dismissed"]_vars

\* A reminder that came due while its calendar was muted is not delivered after
\* the calendar is unmuted.
MutedStaysSilent ==
    [][\A k \in missed : k \in DOMAIN jobs' => jobs'[k].state # "claimed"]_vars

\* Every reminder is delivered or dismissed, or goes with its event, unless
\* its event is suspended or its calendar muted while it is snoozed.
Ended(k) ==
    \/ k \notin DOMAIN jobs
    \/ jobs[k].state \in {"delivered", "dismissed"}
    \/ jobs[k].state = "snoozed" /\ (muted \/ event.held)

EveryReminderEnds == \A k \in Keys : []<>Ended(k)
=============================================================================
