--------------------------- MODULE ReminderProofs ---------------------------
(***************************************************************************)
(* Proofs about ReminderDelivery: that no reminder is shown again without  *)
(* a cause, that a snooze and a dismissal are kept, and that a reminder    *)
(* missed in a muted calendar stays silent.                                *)
(*                                                                         *)
(* None of the four is inductive.  The invariant adds what ties a check to *)
(* its query (DueOK), a claim to its call (TypeOK), the next token to the  *)
(* calls made (TokensOK, Capacity), what was missed to the mute (MissedOK) *)
(* and, for the first, an account per reminder: calls that were or may be  *)
(* shown, plus one if it can be sent again as it is, never exceed one plus *)
(* its causes (BudgetOK).                                                  *)
(***************************************************************************)
EXTENDS ReminderDelivery, FiniteSetTheorems, TLAPS

\* The calls for a reminder that the service has shown, or may still show:
\* only a refusal takes one back.
Spent(k) ==
    {t \in DOMAIN calls : calls[t].key = k /\ calls[t].state \in {"sent", "shown"}}

\* A reminder that can be sent again with no new cause: its row waits, or can
\* be inserted again, or is claimed by a call that was refused.
Claimable(k) ==
    /\ event.stored # "gone"
    /\ k \in DOMAIN jobs =>
        \/ k \in Waiting
        \/ jobs[k].state = "claimed" /\ calls[jobs[k].token].state = "refused"

\* The parts of TypeOK, by the variables they are about.
CalendarOK == event \in Events /\ instances \subseteq Keys /\ muted \in BOOLEAN

\* The rows of reminder_jobs.
RowsOK ==
    /\ DOMAIN jobs \subseteq Keys
    /\ \A k \in DOMAIN jobs : jobs[k] \in JobRows

\* The calls; one that still has a row names a row of the table.
CallsOK ==
    /\ DOMAIN calls \subseteq Tokens
    /\ \A t \in DOMAIN calls :
        calls[t] \in Calls /\ (calls[t].hasRow => calls[t].key \in DOMAIN jobs)

\* A claimed row carries the token of a call made for it.
ClaimsOK ==
    \A k \in DOMAIN jobs :
        jobs[k].state = "claimed" => /\ jobs[k].token \in DOMAIN calls
                                     /\ calls[jobs[k].token].hasRow
                                     /\ calls[jobs[k].token].key = k

\* The scheduler's own state.
SchedulerOK ==
    /\ pending \subseteq DOMAIN calls /\ active \subseteq DOMAIN calls
    /\ phase \in {"idle", "check", "deliver"}
    /\ due \subseteq DOMAIN jobs /\ (due # {} <=> phase = "deliver")
    /\ sleeping \in BOOLEAN

\* The clock.
ClockOK == age \in [Keys -> {"early", "due", "late"}] /\ started \subseteq Keys

\* The history variables.
HistoryOK == causes \in [Keys -> Nat] /\ missed \subseteq DOMAIN jobs

\* Tokens are handed out in order, so the next one was never used.
TokensOK == DOMAIN calls = 1 .. Cardinality(DOMAIN calls)

\* The bound on deliveries leaves room for the rows the handler still holds.
Capacity ==
    phase = "deliver" =>
        Cardinality(DOMAIN calls) + Cardinality(due) <= MaxClaims

\* A row the handler still has to deliver has stayed as the query found it:
\* nothing claims, mutes, snoozes or dismisses it in between.
DueOK ==
    /\ phase = "deliver" => ~muted
    /\ \A k \in due : /\ k \in Waiting
                      /\ jobs[k].state = "snoozed" => jobs[k].snooze = "over"

\* What came due in a muted calendar waits there, or was dismissed.
MissedOK ==
    \A k \in missed : \/ jobs[k].state = "dismissed"
                      \/ muted /\ jobs[k].state = "pending" /\ age[k] # "early"

\* What was sent for a reminder, and what can be sent without a cause, was
\* paid for: once by the reminder itself, and once by each cause.
BudgetOK ==
    \A k \in Keys :
        Cardinality(Spent(k)) + (IF Claimable(k) THEN 1 ELSE 0) <= 1 + causes[k]

\* The inductive invariant.
DeliveryInv == TypeOK /\ TokensOK /\ Capacity /\ DueOK /\ MissedOK /\ BudgetOK
-----------------------------------------------------------------------------

\* TypeOK is the conjunction of its parts.
LEMMA TypeParts ==
    TypeOK <=> /\ CalendarOK /\ RowsOK /\ CallsOK /\ ClaimsOK /\ SchedulerOK
               /\ ClockOK /\ HistoryOK
  BY DEF TypeOK, CalendarOK, RowsOK, CallsOK, ClaimsOK, SchedulerOK, ClockOK,
         HistoryOK

\* ... also in the next state.
LEMMA TypePartsNext ==
    ASSUME CalendarOK', RowsOK', CallsOK', ClaimsOK', SchedulerOK', ClockOK',
           HistoryOK'
    PROVE  TypeOK'
  BY DEF TypeOK, CalendarOK, RowsOK, CallsOK, ClaimsOK, SchedulerOK, ClockOK,
         HistoryOK

\* What each operation makes of a row.
LEMMA RowOperations ==
    ASSUME NEW row \in JobRows
    PROVE  /\ NewRow \in JobRows /\ NewRow.state = "pending"
           /\ Unclaimed(row) \in JobRows
           /\ Unclaimed(row).state \in {"pending", "snoozed"}
           /\ Dismissed(row) \in JobRows /\ Dismissed(row).state = "dismissed"
           /\ Snoozed(row) \in JobRows /\ Snoozed(row).state = "snoozed"
           /\ Delivered(row) \in JobRows /\ Delivered(row).state = "delivered"
  BY DEF JobRows, NewRow, Unclaimed, Dismissed, Snoozed, Delivered

\* There are finitely many calls, and so finitely many of a reminder.
LEMMA TokensFinite ==
    ASSUME CallsOK
    PROVE  /\ IsFiniteSet(DOMAIN calls) /\ Cardinality(DOMAIN calls) \in Nat
           /\ \A k : IsFiniteSet(Spent(k)) /\ Cardinality(Spent(k)) \in Nat
<1>1. IsFiniteSet(Tokens)
  BY ReminderAssumption, FS_Interval DEF Tokens
<1>2. IsFiniteSet(DOMAIN calls)
  BY <1>1, FS_Subset DEF CallsOK
<1>3. \A k : Spent(k) \in SUBSET DOMAIN calls
  BY DEF Spent
<1> QED
  BY <1>2, <1>3, FS_Subset, FS_CardinalityType

\* The arithmetic of BudgetOK: fewer calls T than S, or a new cause, pay for a
\* reminder that can be sent again.
LEMMA Budget ==
    ASSUME NEW S, IsFiniteSet(S), NEW T \in SUBSET S,
           NEW c \in Nat, NEW d \in Nat, d >= c,
           NEW a \in BOOLEAN, NEW b \in BOOLEAN,
           Cardinality(S) + (IF a THEN 1 ELSE 0) <= 1 + c,
           b => a \/ d >= c + 1 \/ T # S
    PROVE  Cardinality(T) + (IF b THEN 1 ELSE 0) <= 1 + d
<1>1. /\ IsFiniteSet(T) /\ Cardinality(T) <= Cardinality(S)
      /\ Cardinality(S) = Cardinality(T) => S = T
  BY FS_Subset
<1>2. Cardinality(S) \in Nat /\ Cardinality(T) \in Nat
  BY <1>1, FS_CardinalityType
<1> QED
  BY <1>1, <1>2

\* The budget of one reminder over a step that sends nothing: it can be sent
\* again only if it could before, has a new cause, or a call was refused.
LEMMA BudgetStep ==
    ASSUME CallsOK, HistoryOK, HistoryOK', BudgetOK, NEW k \in Keys,
           Spent(k)' \subseteq Spent(k), causes'[k] >= causes[k],
           Claimable(k)' => \/ Claimable(k)
                            \/ causes'[k] >= causes[k] + 1
                            \/ Spent(k)' # Spent(k)
    PROVE  Cardinality(Spent(k)') + (IF Claimable(k)' THEN 1 ELSE 0)
             <= 1 + causes'[k]
<1>1. IsFiniteSet(Spent(k))
  BY TokensFinite
<1>2. Claimable(k) \in BOOLEAN /\ Claimable(k)' \in BOOLEAN
  BY DEF Claimable
<1>3. causes[k] \in Nat /\ causes'[k] \in Nat
  BY DEF HistoryOK
<1>4. Cardinality(Spent(k)) + (IF Claimable(k) THEN 1 ELSE 0) <= 1 + causes[k]
  BY DEF BudgetOK
<1> QED
  BY <1>1, <1>2, <1>3, <1>4, Budget

\* ... for every reminder.
LEMMA BudgetNext ==
    ASSUME CallsOK, HistoryOK, HistoryOK', BudgetOK,
           \A k \in Keys :
               /\ Spent(k)' \subseteq Spent(k)
               /\ causes'[k] >= causes[k]
               /\ Claimable(k)' => \/ Claimable(k)
                                   \/ causes'[k] >= causes[k] + 1
                                   \/ Spent(k)' # Spent(k)
    PROVE  BudgetOK'
<1> SUFFICES ASSUME NEW k \in Keys
             PROVE  Cardinality(Spent(k)') + (IF Claimable(k)' THEN 1 ELSE 0)
                      <= 1 + causes'[k]
  BY DEF BudgetOK
<1> QED
  BY BudgetStep

\* With no row left to deliver, the two conjuncts about those rows hold.
LEMMA IdleParts ==
    ASSUME due' = {}, phase' # "deliver"
    PROVE  Capacity' /\ DueOK'
  BY DEF Capacity, DueOK

\* A step that inserts and deletes no row, claims none, and makes no call,
\* keeps rows, calls and claims in order.
LEMMA TableKept ==
    ASSUME RowsOK, CallsOK, ClaimsOK, TokensOK,
           DOMAIN jobs' = DOMAIN jobs, DOMAIN calls' = DOMAIN calls,
           \A k \in DOMAIN jobs :
               /\ jobs'[k] \in JobRows
               /\ jobs'[k].state = "claimed" =>
                    jobs[k].state = "claimed" /\ jobs'[k].token = jobs[k].token,
           \A t \in DOMAIN calls : /\ calls'[t] \in Calls
                                   /\ calls'[t].key = calls[t].key
                                   /\ calls'[t].hasRow = calls[t].hasRow
    PROVE  RowsOK' /\ CallsOK' /\ ClaimsOK' /\ TokensOK'
<1>1. RowsOK'
  BY DEF RowsOK
<1>2. CallsOK'
  BY DEF CallsOK
<1>3. ClaimsOK'
  BY DEF ClaimsOK
<1>4. TokensOK'
  BY DEF TokensOK
<1> QED
  BY <1>1, <1>2, <1>3, <1>4

\* The conjuncts of the invariant.
LEMMA InvParts ==
    ASSUME DeliveryInv
    PROVE  /\ CalendarOK /\ RowsOK /\ CallsOK /\ ClaimsOK /\ SchedulerOK
           /\ ClockOK /\ HistoryOK /\ TokensOK /\ Capacity /\ DueOK /\ MissedOK
           /\ BudgetOK
  BY TypeParts DEF DeliveryInv

\* The invariant of the next state from its conjuncts.
LEMMA InvNext ==
    ASSUME CalendarOK', RowsOK', CallsOK', ClaimsOK', SchedulerOK', ClockOK',
           HistoryOK', TokensOK', Capacity', DueOK', MissedOK', BudgetOK'
    PROVE  DeliveryInv'
  BY TypePartsNext DEF DeliveryInv

\* A step over the same rows and calls keeps the budget when a row that waits
\* again had a cause or was claimed by a refused call: replies, snoozes,
\* dismissals, recoveries and sweeps.
LEMMA TableStep ==
    ASSUME DeliveryInv, HistoryOK',
           DOMAIN jobs' = DOMAIN jobs, DOMAIN calls' = DOMAIN calls,
           event.stored = "gone" => event'.stored = "gone",
           \A k \in Keys : causes'[k] >= causes[k],
           \A k \in DOMAIN jobs :
               /\ jobs'[k] \in JobRows
               /\ jobs'[k].state = "claimed" =>
                    jobs[k].state = "claimed" /\ jobs'[k].token = jobs[k].token
               /\ jobs'[k].state \in {"pending", "snoozed"} =>
                    \/ jobs[k].state \in {"pending", "snoozed"}
                    \/ causes'[k] >= causes[k] + 1
                    \/ /\ jobs[k].state = "claimed"
                       /\ calls[jobs[k].token].state = "refused",
           \A t \in DOMAIN calls :
               /\ calls'[t] \in Calls
               /\ calls'[t].key = calls[t].key
               /\ calls'[t].hasRow = calls[t].hasRow
               /\ calls[t].state = "refused" => calls'[t].state = "refused"
    PROVE  RowsOK' /\ CallsOK' /\ ClaimsOK' /\ TokensOK' /\ BudgetOK'
<1> USE InvParts
<1>1. RowsOK' /\ CallsOK' /\ ClaimsOK' /\ TokensOK'
  BY TableKept
<1>2. ASSUME NEW k \in Keys
      PROVE  /\ Spent(k)' \subseteq Spent(k)
             /\ Claimable(k)' => \/ Claimable(k)
                                 \/ causes'[k] >= causes[k] + 1
                                 \/ Spent(k)' # Spent(k)
  <2>1. Spent(k)' \subseteq Spent(k)
    BY DEF Spent, Calls, CallsOK
  <2>2. ASSUME Claimable(k)', ~Claimable(k), ~(causes'[k] >= causes[k] + 1)
        PROVE  Spent(k)' # Spent(k)
    <3>1. /\ event.stored # "gone"
          /\ k \in DOMAIN jobs /\ jobs[k].state \notin {"pending", "snoozed"}
          /\ ~(jobs[k].state = "claimed" /\ calls[jobs[k].token].state = "refused")
      BY <2>2 DEF Claimable, Waiting
    <3>2. jobs'[k].state = "claimed" /\ calls'[jobs'[k].token].state = "refused"
      BY <2>2, <3>1 DEF Claimable, Waiting
    <3>3. /\ jobs[k].state = "claimed" /\ jobs[k].token \in DOMAIN calls
          /\ calls[jobs[k].token].key = k /\ calls[jobs[k].token].state # "refused"
          /\ calls'[jobs[k].token].state = "refused"
      BY <3>1, <3>2 DEF ClaimsOK
    <3>4. jobs[k].token \in Spent(k) /\ jobs[k].token \notin Spent(k)'
      BY <3>3 DEF Spent, CallsOK, Calls
    <3> QED
      BY <3>4
  <2> QED
    BY <2>1, <2>2
<1>3. BudgetOK'
  BY <1>2, BudgetNext
<1> QED
  BY <1>1, <1>3

\* rebuildReminderJobs: rows that are deleted or inserted could be sent before
\* and after, and claimed rows are kept with their calls.
LEMMA RebuildKeeps ==
    ASSUME DeliveryInv, NEW e \in Events, Idle, Live, e.stored # "gone",
           RebuildReminderJobs(e), phase' \in {"idle", "check"},
           UNCHANGED <<muted, pending, active, due, sleeping, clockVars, causes>>
    PROVE  DeliveryInv'
<1> USE InvParts
<1>1. /\ Kept \subseteq DOMAIN jobs /\ Planned(e) \subseteq Keys
      /\ DOMAIN jobs' = Kept \cup Planned(e)
      /\ \A k \in Kept : jobs'[k] = jobs[k]
      /\ \A k \in DOMAIN jobs' \ Kept : jobs'[k] = NewRow
  BY DEF RebuildReminderJobs, Kept, Planned, Events
<1>2. /\ DOMAIN calls' = DOMAIN calls
      /\ \A t \in DOMAIN calls :
            /\ calls'[t].key = calls[t].key /\ calls'[t].state = calls[t].state
            /\ calls'[t].hasRow = (calls[t].hasRow /\ calls[t].key \in Kept)
  BY DEF RebuildReminderJobs, CallsOK, Calls
<1>3. \A k \in DOMAIN jobs : k \in Kept <=> k \notin Waiting
  BY DEF Kept
<1>4. CalendarOK'
  BY DEF RebuildReminderJobs, CalendarOK, Events
<1>5. RowsOK'
  BY <1>1 DEF RowsOK, NewRow, JobRows
<1>6. CallsOK'
  <2> SUFFICES ASSUME NEW t \in DOMAIN calls PROVE calls'[t] \in Calls
    BY <1>1, <1>2 DEF CallsOK
  <2>1. ASSUME NEW b \in BOOLEAN PROVE [calls[t] EXCEPT !.hasRow = b] \in Calls
    BY DEF CallsOK, Calls
  <2>2. (calls[t].hasRow /\ calls[t].key \in Kept) \in BOOLEAN
    OBVIOUS
  <2>3. calls'[t] = [calls[t] EXCEPT !.hasRow = @ /\ calls[t].key \in Kept]
    BY DEF RebuildReminderJobs
  <2> QED
    BY <2>1, <2>2, <2>3, Zenon
<1>7. ClaimsOK'
  <2> SUFFICES ASSUME NEW k \in DOMAIN jobs', jobs'[k].state = "claimed"
               PROVE  /\ jobs'[k].token \in DOMAIN calls'
                      /\ calls'[jobs'[k].token].hasRow
                      /\ calls'[jobs'[k].token].key = k
    BY DEF ClaimsOK
  <2>1. k \in Kept /\ jobs'[k] = jobs[k]
    BY <1>1 DEF NewRow
  <2> DEFINE t == jobs[k].token
  <2>2. k \in DOMAIN jobs /\ t \in DOMAIN calls /\ calls[t].hasRow /\ calls[t].key = k
    BY <1>1, <2>1 DEF ClaimsOK
  <2>3. calls'[t].key = k /\ calls'[t].hasRow = (calls[t].hasRow /\ calls[t].key \in Kept)
    BY <1>2, <2>2
  <2>4. calls'[t].hasRow
    BY <2>1, <2>2, <2>3, Zenon
  <2> QED
    BY <1>2, <2>1, <2>2, <2>3, <2>4
<1>8. SchedulerOK'
  BY <1>2 DEF SchedulerOK, Idle
<1>9. ClockOK' /\ HistoryOK'
  BY DEF ClockOK, HistoryOK, clockVars, RebuildReminderJobs, DuePending
<1>10. TokensOK' /\ Capacity' /\ DueOK'
  BY <1>2, IdleParts DEF TokensOK, SchedulerOK, Idle
<1>11. MissedOK'
  BY DEF MissedOK, RebuildReminderJobs, DuePending, clockVars
<1>12. BudgetOK'
  <2> SUFFICES ASSUME NEW k \in Keys
               PROVE  /\ Spent(k)' \subseteq Spent(k)
                      /\ causes'[k] >= causes[k]
                      /\ Claimable(k)' => Claimable(k)
    BY <1>9, BudgetNext
  <2>1. Spent(k)' \subseteq Spent(k)
    BY <1>2 DEF Spent
  <2>2. causes'[k] >= causes[k]
    BY DEF HistoryOK
  <2>3. ASSUME Claimable(k)' PROVE Claimable(k)
    <3>1. event.stored # "gone"
      BY DEF Live
    <3>2. CASE k \in Kept
      BY <1>1, <1>2, <1>3, <2>3, <3>1, <3>2 DEF Claimable, Waiting, ClaimsOK
    <3>3. CASE k \notin Kept
      BY <1>3, <3>1, <3>3 DEF Claimable
    <3> QED
      BY <3>2, <3>3
  <2> QED
    BY <2>1, <2>2, <2>3
<1> QED
  BY <1>4, <1>5, <1>6, <1>7, <1>8, <1>9, <1>10, <1>11, <1>12, InvNext

\* An edit, or a version stored by a pull, keeps the invariant.
LEMMA EditKeeps ==
    ASSUME DeliveryInv, NEW e \in Events, e.stored = "live",
           EditEvent(e) \/ RefreshEvent(e)
    PROVE  DeliveryInv'
  BY RebuildKeeps DEF EditEvent, RefreshEvent, schedulerVars, Idle

\* ... so does the removal of the event,
LEMMA RemoveKeeps ==
    ASSUME DeliveryInv, RemoveEvent
    PROVE  DeliveryInv'
<1> DEFINE e == [event EXCEPT !.stored = "removed"]
<1>1. e \in Events /\ e.stored # "gone"
  BY InvParts DEF CalendarOK, Events
<1>2. /\ Idle /\ Live /\ RebuildReminderJobs(e) /\ phase' \in {"idle", "check"}
      /\ UNCHANGED <<muted, pending, active, due, sleeping, clockVars, causes>>
  BY DEF RemoveEvent
<1> HIDE DEF e
<1> QED
  BY <1>1, <1>2, RebuildKeeps

\* ... a change of the event alone,
LEMMA EventKeeps ==
    ASSUME DeliveryInv, Idle, event' \in Events, event.stored # "gone",
           phase' = "check",
           UNCHANGED <<instances, muted, jobs, calls, pending, active, due,
                       sleeping, clockVars, causes, missed>>
    PROVE  DeliveryInv'
<1> USE InvParts
<1>1. CalendarOK' /\ ClockOK' /\ HistoryOK'
  BY DEF CalendarOK, ClockOK, HistoryOK, clockVars
<1>2. RowsOK' /\ CallsOK' /\ ClaimsOK' /\ TokensOK'
  BY DEF RowsOK, CallsOK, ClaimsOK, TokensOK
<1>3. SchedulerOK'
  BY DEF SchedulerOK, Idle
<1>4. Capacity' /\ DueOK'
  BY IdleParts DEF SchedulerOK, Idle
<1>5. MissedOK'
  BY DEF MissedOK, clockVars
<1>6. BudgetOK'
  <2>1. ASSUME NEW k \in Keys
        PROVE  /\ Spent(k)' \subseteq Spent(k) /\ causes'[k] >= causes[k]
               /\ Claimable(k)' => Claimable(k)
    BY DEF Spent, Claimable, Waiting, HistoryOK
  <2> QED
    BY <1>1, <2>1, BudgetNext
<1> QED
  BY <1>1, <1>2, <1>3, <1>4, <1>5, <1>6, InvNext

\* ... the undo of a removal,
LEMMA UndoKeeps ==
    ASSUME DeliveryInv, UndoRemove
    PROVE  DeliveryInv'
<1>1. event' \in Events /\ event.stored # "gone"
  BY InvParts DEF UndoRemove, CalendarOK, Events
<1> QED
  BY <1>1, EventKeeps DEF UndoRemove, history

\* ... the removal of the series around an exception, and its undo,
LEMMA HoldKeeps ==
    ASSUME DeliveryInv, NEW b \in BOOLEAN, HoldEvent(b)
    PROVE  DeliveryInv'
<1>1. event.stored # "gone"
  BY DEF HoldEvent, Live
<1>2. event' = [event EXCEPT !.held = b]
  BY DEF HoldEvent
<1>3. ASSUME NEW c \in BOOLEAN PROVE [event EXCEPT !.held = c] \in Events
  BY InvParts DEF CalendarOK, Events
<1>4. event' \in Events
  BY <1>2, <1>3
<1> QED
  BY <1>1, <1>4, EventKeeps DEF HoldEvent, history

\* ... the deletion of the row: nothing is left to be sent,
LEMMA DeleteKeeps ==
    ASSUME DeliveryInv, DeleteEvent
    PROVE  DeliveryInv'
<1> USE InvParts
<1>1. CalendarOK'
  BY DEF DeleteEvent, CalendarOK, Events
<1>2. DOMAIN jobs' = {} /\ due = {}
  BY DEF DeleteEvent, Empty, SchedulerOK, Idle
<1>3. /\ DOMAIN calls' = DOMAIN calls
      /\ \A t \in DOMAIN calls :
            /\ calls'[t] \in Calls /\ calls'[t].key = calls[t].key
            /\ calls'[t].state = calls[t].state /\ ~calls'[t].hasRow
  BY DEF DeleteEvent, CallsOK, Calls
<1>4. RowsOK' /\ CallsOK' /\ ClaimsOK' /\ TokensOK'
  BY <1>2, <1>3 DEF RowsOK, CallsOK, ClaimsOK, TokensOK
<1>5. SchedulerOK'
  BY <1>2, <1>3 DEF DeleteEvent, schedulerVars, SchedulerOK, Idle
<1>6. ClockOK' /\ HistoryOK'
  BY DEF DeleteEvent, clockVars, ClockOK, HistoryOK
<1>7. Capacity' /\ DueOK'
  BY <1>2, IdleParts DEF DeleteEvent, schedulerVars, Idle
<1>8. MissedOK'
  BY DEF MissedOK, DeleteEvent
<1>9. BudgetOK'
  <2>1. ASSUME NEW k \in Keys
        PROVE  /\ Spent(k)' \subseteq Spent(k) /\ causes'[k] >= causes[k]
               /\ ~Claimable(k)'
    BY <1>1, <1>3 DEF Spent, Claimable, HistoryOK, DeleteEvent, CalendarOK, Events
  <2> QED
    BY <1>6, <2>1, BudgetNext
<1> QED
  BY <1>1, <1>4, <1>5, <1>6, <1>7, <1>8, <1>9, InvNext

\* ... and muting and unmuting, which dismisses what came due meanwhile.
LEMMA MuteKeeps ==
    ASSUME DeliveryInv, NEW b \in BOOLEAN, SetMuted(b)
    PROVE  DeliveryInv'
<1> USE InvParts
<1>1. /\ DOMAIN jobs' = DOMAIN jobs
      /\ \A k \in DOMAIN jobs :
            jobs'[k] = IF muted /\ ~b /\ k \in DuePending(jobs)
                       THEN Dismissed(jobs[k]) ELSE jobs[k]
  BY DEF SetMuted, Changed
<1>2. CalendarOK' /\ ClockOK'
  BY DEF SetMuted, CalendarOK, ClockOK, clockVars
<1>3. HistoryOK'
  BY <1>1 DEF SetMuted, HistoryOK, DuePending
<1>4. RowsOK' /\ CallsOK' /\ ClaimsOK' /\ TokensOK' /\ BudgetOK'
  <2>1. \A k \in DOMAIN jobs :
            /\ jobs'[k] \in JobRows
            /\ jobs'[k] = jobs[k] \/ jobs'[k].state = "dismissed"
    BY <1>1, RowOperations DEF RowsOK
  <2>2. calls' = calls /\ causes' = causes /\ event' = event
    BY DEF SetMuted
  <2> QED
    BY <1>1, <1>3, <2>1, <2>2, TableStep DEF CallsOK, HistoryOK
<1>5. SchedulerOK'
  BY <1>1 DEF SetMuted, schedulerVars, SchedulerOK
<1>6. Capacity' /\ DueOK'
  BY IdleParts DEF SetMuted, schedulerVars, Idle, SchedulerOK
<1>7. MissedOK'
  BY <1>1 DEF MissedOK, SetMuted, DuePending, clockVars, Dismissed, RowsOK,
              JobRows, HistoryOK
<1> QED
  BY <1>2, <1>3, <1>4, <1>5, <1>6, <1>7, InvNext

\* The rows after a recovery of the claims S, whose leases have expired.
LEMMA CheckRows ==
    ASSUME DeliveryInv,
           NEW S, S \subseteq {k \in DOMAIN jobs : LeaseExpired(jobs[k])}
    PROVE  LET free == [k \in DOMAIN jobs |->
                           IF k \in S THEN Unclaimed(jobs[k]) ELSE jobs[k]]
           IN  /\ DOMAIN free = DOMAIN jobs
               /\ \A k \in DOMAIN jobs :
                    /\ free[k] \in JobRows
                    /\ k \in S => free[k].state \in {"pending", "snoozed"}
                    /\ k \notin S => free[k] = jobs[k]
  BY InvParts, RowOperations DEF RowsOK

\* checkNow: each recovered claim is a cause, the sweep dismisses what the
\* muted calendar missed, and the query finds rows that wait.
LEMMA CheckKeeps ==
    ASSUME DeliveryInv, CheckNow
    PROVE  DeliveryInv'
<1> USE InvParts
<1> DEFINE free == Changed(Recovered, Unclaimed)
           stale == Stale(free)
           swept == [k \in DOMAIN jobs |->
                        IF k \in stale THEN Dismissed(free[k]) ELSE free[k]]
<1>1. /\ Cardinality(DOMAIN calls) + Cardinality(DueIn(swept)) <= MaxClaims
      /\ jobs' = swept /\ due' = DueIn(swept)
      /\ phase' = (IF due' = {} THEN "idle" ELSE "deliver")
      /\ missed' = missed \ stale
      /\ pending' \subseteq pending
      /\ Cause(Recovered)
      /\ UNCHANGED <<calendarVars, calls, active, sleeping, clockVars, bounds>>
  BY DEF CheckNow
<1>2. /\ Recovered \subseteq DOMAIN jobs
      /\ \A k \in Recovered : jobs[k].state = "claimed"
  BY DEF Recovered, LeaseExpired
<1>3. /\ DOMAIN free = DOMAIN jobs
      /\ \A k \in DOMAIN jobs :
            /\ free[k] \in JobRows
            /\ k \in Recovered => free[k].state \in {"pending", "snoozed"}
            /\ k \notin Recovered => free[k] = jobs[k]
  BY CheckRows DEF Changed, Recovered
<1>4. /\ stale \subseteq DOMAIN jobs
      /\ \A k \in stale : free[k].state = "pending"
      /\ \A k \in DOMAIN jobs :
            muted /\ free[k].state = "pending" /\ age[k] # "early" => k \in stale
  BY <1>3 DEF Stale
<1> HIDE DEF free, stale
<1>5. /\ DOMAIN jobs' = DOMAIN jobs
      /\ \A k \in DOMAIN jobs :
            /\ jobs'[k] \in JobRows
            /\ k \in stale => jobs'[k].state = "dismissed"
            /\ k \notin stale => jobs'[k] = free[k]
  BY <1>1, <1>3, <1>4, RowOperations
<1>6. /\ \A k \in due' : /\ k \in DOMAIN jobs /\ ~muted
                         /\ \/ jobs'[k].state = "pending"
                            \/ jobs'[k].state = "snoozed" /\ jobs'[k].snooze = "over"
      /\ muted => due' = {}
  BY <1>1 DEF DueIn
<1>7. \A k \in Keys :
        causes'[k] = IF k \in Recovered THEN causes[k] + 1 ELSE causes[k]
  BY <1>1 DEF Cause
<1>8. CalendarOK' /\ ClockOK'
  BY <1>1 DEF CalendarOK, ClockOK, calendarVars, clockVars
<1>9. HistoryOK'
  <2>1. causes' \in [Keys -> Nat]
    BY <1>1 DEF Cause, HistoryOK
  <2> QED
    BY <1>1, <1>5, <2>1 DEF HistoryOK
<1>10. RowsOK' /\ CallsOK' /\ ClaimsOK' /\ TokensOK' /\ BudgetOK'
  <2>1. calls' = calls /\ event' = event
    BY <1>1 DEF calendarVars
  <2>2. \A k \in DOMAIN jobs :
            /\ jobs'[k].state = "claimed" =>
                 jobs[k].state = "claimed" /\ jobs'[k].token = jobs[k].token
            /\ jobs'[k].state \in {"pending", "snoozed"} =>
                 jobs[k].state \in {"pending", "snoozed"} \/ k \in Recovered
    BY <1>3, <1>5
  <2>3. \A k \in Keys : causes[k] \in Nat
    BY DEF HistoryOK
  <2>4. DOMAIN jobs \subseteq Keys
    BY DEF RowsOK
  <2>5. \A t \in DOMAIN calls : calls[t] \in Calls
    BY DEF CallsOK
  <2>6. /\ \A k \in Keys : causes'[k] >= causes[k]
        /\ \A k \in Recovered : causes'[k] >= causes[k] + 1
    BY <1>2, <1>7, <2>3, <2>4
  <2> QED
    BY <1>5, <1>9, <2>1, <2>2, <2>4, <2>5, <2>6, TableStep
<1>11. SchedulerOK'
  BY <1>1, <1>5, <1>6 DEF SchedulerOK
<1>12. Capacity' /\ DueOK'
  <2>1. Capacity'
    BY <1>1 DEF Capacity
  <2>2. DueOK'
    BY <1>1, <1>5, <1>6 DEF DueOK, Waiting, calendarVars
  <2> QED
    BY <2>1, <2>2
<1>13. MissedOK'
  <2> SUFFICES ASSUME NEW k \in missed' PROVE jobs'[k].state = "dismissed"
    BY DEF MissedOK
  <2>1. k \in missed /\ k \notin stale /\ k \in DOMAIN jobs
    BY <1>1 DEF HistoryOK
  <2>2. k \notin Recovered
    BY <1>2, <2>1 DEF MissedOK
  <2>3. jobs'[k] = jobs[k] /\ free[k] = jobs[k]
    BY <1>3, <1>5, <2>1, <2>2
  <2> QED
    BY <1>4, <2>1, <2>3 DEF MissedOK
<1> QED
  BY <1>8, <1>9, <1>10, <1>11, <1>12, <1>13, InvNext

\* A check asked for during sleep changes no row.
LEMMA AsleepKeeps ==
    ASSUME DeliveryInv, CheckAsleep
    PROVE  DeliveryInv'
<1> USE InvParts
<1>1. CalendarOK' /\ RowsOK' /\ CallsOK' /\ ClaimsOK' /\ ClockOK' /\ HistoryOK'
  BY DEF CheckAsleep, calendarVars, clockVars, history, CalendarOK, RowsOK,
         CallsOK, ClaimsOK, ClockOK, HistoryOK
<1>2. SchedulerOK' /\ Capacity' /\ DueOK'
  BY IdleParts DEF CheckAsleep, SchedulerOK
<1>3. TokensOK' /\ MissedOK'
  BY DEF CheckAsleep, calendarVars, clockVars, history, TokensOK, MissedOK
<1>4. BudgetOK'
  BY DEF CheckAsleep, calendarVars, history, BudgetOK, Spent, Claimable, Waiting
<1> QED
  BY <1>1, <1>2, <1>3, <1>4, InvNext

\* One round of the loop: the row leaves the list and the others stay due.
LEMMA DueLeaves ==
    ASSUME DeliveryInv, NEW k \in Keys, NextDue(k), DOMAIN jobs' = DOMAIN jobs,
           muted' = muted,
           \A j \in DOMAIN jobs \ {k} : jobs'[j] = jobs[j]
    PROVE  /\ phase = "deliver" /\ ~muted /\ k \in due /\ k \in Waiting
           /\ phase' \in {"idle", "deliver"}
           /\ due' \subseteq DOMAIN jobs' /\ (due' # {} <=> phase' = "deliver")
           /\ DueOK'
           /\ IsFiniteSet(due) /\ Cardinality(due') + 1 = Cardinality(due)
           /\ Cardinality(due) \in Nat /\ Cardinality(due') \in Nat
<1> USE InvParts
<1>1. /\ phase = "deliver" /\ k \in due /\ due' = due \ {k}
      /\ phase' = IF due' = {} THEN "idle" ELSE "deliver"
  BY DEF NextDue
<1>2. IsFiniteSet(due)
  BY ReminderAssumption, FS_Subset DEF SchedulerOK, RowsOK
<1>3. /\ Cardinality(due) \in Nat /\ Cardinality(due') = Cardinality(due) - 1
      /\ IsFiniteSet(due') /\ Cardinality(due') \in Nat
  BY <1>1, <1>2, FS_RemoveElement, FS_CardinalityType
<1>4. DueOK'
  BY <1>1 DEF DueOK, Waiting, SchedulerOK
<1> QED
  BY <1>1, <1>2, <1>3, <1>4 DEF DueOK, SchedulerOK

\* The three outcomes of deliver: the row is dismissed,
LEMMA DeliverDismissesKeeps ==
    ASSUME DeliveryInv, NEW k \in Keys, DeliverDismisses(k)
    PROVE  DeliveryInv'
<1> USE InvParts
<1>1. /\ k \in DOMAIN jobs /\ DOMAIN jobs' = DOMAIN jobs
      /\ jobs'[k] = Dismissed(jobs[k])
      /\ \A j \in DOMAIN jobs \ {k} : jobs'[j] = jobs[j]
  BY DEF DeliverDismisses, SetRow, NextDue, SchedulerOK
<1>2. UNCHANGED <<event, instances, muted, calls, pending, active, sleeping,
                  age, started, causes>>
  BY DEF DeliverDismisses, calendarVars, clockVars
<1>3. /\ phase' \in {"idle", "deliver"} /\ due' \subseteq DOMAIN jobs'
      /\ (due' # {} <=> phase' = "deliver") /\ DueOK'
      /\ phase = "deliver" /\ Cardinality(due') + 1 = Cardinality(due)
      /\ Cardinality(due) \in Nat /\ Cardinality(due') \in Nat
  BY <1>1, <1>2, DueLeaves DEF DeliverDismisses
<1>4. CalendarOK' /\ ClockOK' /\ SchedulerOK'
  BY <1>2, <1>3 DEF CalendarOK, ClockOK, SchedulerOK
<1>5. HistoryOK'
  BY <1>1, <1>2 DEF HistoryOK, DeliverDismisses
<1>6. RowsOK' /\ CallsOK' /\ ClaimsOK' /\ TokensOK' /\ BudgetOK'
  <2>1. jobs'[k] \in JobRows /\ jobs'[k].state = "dismissed"
    BY <1>1, RowOperations DEF RowsOK
  <2> QED
    BY <1>1, <1>2, <1>5, <2>1, TableStep DEF RowsOK, CallsOK, HistoryOK
<1>7. Capacity'
  BY <1>2, <1>3, TokensFinite, ReminderAssumption DEF Capacity
<1>8. MissedOK'
  BY <1>1, <1>2 DEF MissedOK, HistoryOK, DeliverDismisses
<1> QED
  BY <1>3, <1>4, <1>5, <1>6, <1>7, <1>8, InvNext

\* ... left alone,
LEMMA DeliverWaitsKeeps ==
    ASSUME DeliveryInv, NEW k \in Keys, DeliverWaits(k)
    PROVE  DeliveryInv'
<1> USE InvParts
<1>1. UNCHANGED <<event, instances, muted, jobs, calls, pending, active,
                  sleeping, age, started, causes, missed>>
  BY DEF DeliverWaits, calendarVars, clockVars, history
<1>2. /\ phase' \in {"idle", "deliver"} /\ due' \subseteq DOMAIN jobs'
      /\ (due' # {} <=> phase' = "deliver") /\ DueOK'
      /\ phase = "deliver" /\ Cardinality(due') + 1 = Cardinality(due)
      /\ Cardinality(due) \in Nat /\ Cardinality(due') \in Nat
  BY <1>1, DueLeaves DEF DeliverWaits
<1>3. CalendarOK' /\ ClockOK' /\ SchedulerOK' /\ HistoryOK'
  BY <1>1, <1>2 DEF CalendarOK, ClockOK, SchedulerOK, HistoryOK
<1>4. RowsOK' /\ CallsOK' /\ ClaimsOK' /\ TokensOK' /\ MissedOK'
  BY <1>1 DEF RowsOK, CallsOK, ClaimsOK, TokensOK, MissedOK
<1>5. BudgetOK'
  BY <1>1 DEF BudgetOK, Spent, Claimable, Waiting
<1>6. Capacity'
  BY <1>1, <1>2, TokensFinite, ReminderAssumption DEF Capacity
<1> QED
  BY <1>2, <1>3, <1>4, <1>5, <1>6, InvNext

\* ... or claimed under a new token, which spends what the row could claim.
LEMMA DeliverKeeps ==
    ASSUME DeliveryInv, NEW k \in Keys, Deliver(k)
    PROVE  DeliveryInv'
<1> USE InvParts
<1> DEFINE t == Cardinality(DOMAIN calls) + 1
           call == [key |-> k, hasRow |-> TRUE, state |-> "sent", lease |-> "live"]
<1>1. /\ k \in DOMAIN jobs /\ DOMAIN jobs' = DOMAIN jobs
      /\ jobs'[k] = [jobs[k] EXCEPT !.state = "claimed", !.token = t]
      /\ \A j \in DOMAIN jobs \ {k} : jobs'[j] = jobs[j]
  BY DEF Deliver, SetRow, NextDue, SchedulerOK
<1>2. UNCHANGED <<event, instances, muted, active, sleeping, age, started,
                  causes, missed>>
  BY DEF Deliver, calendarVars, clockVars, history
<1>3. /\ phase' \in {"idle", "deliver"} /\ due' \subseteq DOMAIN jobs'
      /\ (due' # {} <=> phase' = "deliver") /\ DueOK'
      /\ phase = "deliver" /\ ~muted /\ k \in Waiting
      /\ Cardinality(due') + 1 = Cardinality(due)
      /\ Cardinality(due) \in Nat /\ Cardinality(due') \in Nat
  BY <1>1, <1>2, DueLeaves DEF Deliver
<1>4. /\ IsFiniteSet(DOMAIN calls) /\ Cardinality(DOMAIN calls) \in Nat
      /\ t \notin DOMAIN calls /\ t \in Tokens
  <2>1. Cardinality(DOMAIN calls) \in Nat
    BY TokensFinite
  <2>2. Cardinality(DOMAIN calls) + Cardinality(due) <= MaxClaims
    BY <1>3 DEF Capacity
  <2>3. t <= MaxClaims /\ t \in Nat /\ t >= 1
    BY <1>3, <2>1, <2>2, ReminderAssumption
  <2> QED
    BY <2>1, <2>3, TokensFinite DEF TokensOK, Tokens
<1>5. /\ DOMAIN calls' = DOMAIN calls \cup {t} /\ calls'[t] = call
      /\ \A u \in DOMAIN calls : calls'[u] = calls[u]
      /\ pending' = pending \cup {t}
  BY <1>4 DEF Deliver
<1>6. Cardinality(DOMAIN calls') = t
  BY <1>4, <1>5, FS_AddElement
<1> HIDE DEF t
<1>7. CalendarOK' /\ ClockOK' /\ SchedulerOK'
  BY <1>2, <1>3, <1>5 DEF CalendarOK, ClockOK, SchedulerOK
<1>8. HistoryOK'
  BY <1>1, <1>2 DEF HistoryOK
<1>9. RowsOK' /\ jobs'[k].state = "claimed" /\ jobs'[k].token = t
  <2>1. ASSUME NEW row \in JobRows, NEW u \in Tokens
        PROVE  /\ [row EXCEPT !.state = "claimed", !.token = u] \in JobRows
               /\ [row EXCEPT !.state = "claimed", !.token = u].state = "claimed"
               /\ [row EXCEPT !.state = "claimed", !.token = u].token = u
    BY DEF JobRows
  <2>2. jobs[k] \in JobRows
    BY <1>1 DEF RowsOK
  <2>3. jobs'[k] \in JobRows /\ jobs'[k].state = "claimed" /\ jobs'[k].token = t
    <3> DEFINE row == [jobs[k] EXCEPT !.state = "claimed", !.token = t]
    <3>1. t \in Tokens
      BY <1>4
    <3>2. row \in JobRows /\ row.state = "claimed" /\ row.token = t
      BY <2>1, <2>2, <3>1
    <3>3. jobs'[k] = row
      BY <1>1
    <3> HIDE DEF row
    <3> QED
      BY <3>2, <3>3
  <2> QED
    BY <1>1, <2>3 DEF RowsOK
<1>10. CallsOK'
  <2>1. ASSUME NEW u \in DOMAIN calls'
        PROVE  calls'[u] \in Calls /\ (calls'[u].hasRow => calls'[u].key \in DOMAIN jobs')
    <3>1. CASE u = t
      <4>1. call \in Calls /\ call.key = k
        BY DEF Calls
      <4>2. calls'[u] = call
        BY <1>5, <3>1
      <4> HIDE DEF call
      <4> QED
        BY <1>1, <4>1, <4>2
    <3>2. CASE u # t
      BY <1>1, <1>5, <3>2 DEF CallsOK
    <3> QED
      BY <3>1, <3>2
  <2> QED
    BY <1>4, <1>5, <2>1 DEF CallsOK
<1>11. ClaimsOK'
  <2> SUFFICES ASSUME NEW j \in DOMAIN jobs', jobs'[j].state = "claimed"
               PROVE  /\ jobs'[j].token \in DOMAIN calls'
                      /\ calls'[jobs'[j].token].hasRow
                      /\ calls'[jobs'[j].token].key = j
    BY DEF ClaimsOK
  <2>1. CASE j = k
    BY <1>5, <1>9, <2>1
  <2>2. CASE j # k
    BY <1>1, <1>5, <2>2 DEF ClaimsOK
  <2> QED
    BY <2>1, <2>2
<1>12. TokensOK'
  BY <1>4, <1>5, <1>6 DEF TokensOK, t
<1>13. Capacity'
  BY <1>3, <1>4, <1>6, ReminderAssumption DEF Capacity, t
<1>14. MissedOK'
  BY <1>1, <1>2, <1>3 DEF MissedOK, HistoryOK, Waiting
<1>15. BudgetOK'
  <2> SUFFICES ASSUME NEW j \in Keys
               PROVE  Cardinality(Spent(j)') + (IF Claimable(j)' THEN 1 ELSE 0)
                        <= 1 + causes'[j]
    BY DEF BudgetOK
  <2>1. CASE j = k
    <3>1. Spent(k)' = Spent(k) \cup {t}
      BY <1>4, <1>5 DEF Spent
    <3>2. Claimable(k)
      BY <1>3 DEF Claimable, Deliver, Off, Live
    <3>3. ~Claimable(k)'
      <4>1. calls'[jobs'[k].token].state = "sent"
        BY <1>5, <1>9
      <4> QED
        BY <1>1, <1>9, <4>1 DEF Claimable, Waiting
    <3>4. /\ IsFiniteSet(Spent(k)) /\ Cardinality(Spent(k)) \in Nat
          /\ Cardinality(Spent(k)) + 1 <= 1 + causes[k]
      BY <3>2, TokensFinite DEF BudgetOK
    <3>5. Cardinality(Spent(k)') \in {Cardinality(Spent(k)), Cardinality(Spent(k)) + 1}
      BY <3>1, <3>4, FS_AddElement
    <3>6. causes[k] \in Nat
      BY DEF HistoryOK
    <3> QED
      BY <1>2, <2>1, <3>3, <3>4, <3>5, <3>6
  <2>2. CASE j # k
    <3>1. Spent(j)' = Spent(j)
      BY <1>4, <1>5, <2>2 DEF Spent
    <3>2. Claimable(j)' => Claimable(j)
      BY <1>1, <1>2, <1>5, <2>2 DEF Claimable, Waiting, ClaimsOK
    <3>3. causes'[j] >= causes[j]
      BY <1>2 DEF HistoryOK
    <3> QED
      BY <1>8, <3>1, <3>2, <3>3, BudgetStep
  <2> QED
    BY <2>1, <2>2
<1> QED
  BY <1>3, <1>7, <1>8, <1>9, <1>10, <1>11, <1>12, <1>13, <1>14, <1>15, InvNext

\* The service's answer: a refusal gives a call back, as the claim may go back.
LEMMA AnswerKeeps ==
    ASSUME DeliveryInv, NEW t \in Tokens, NEW answer \in {"shown", "refused"},
           ServiceAnswers(t, answer)
    PROVE  DeliveryInv'
<1> USE InvParts
<1>1. UNCHANGED <<event, instances, muted, jobs, pending, active, phase, due,
                  sleeping, age, started, causes, missed>>
  BY DEF ServiceAnswers, calendarVars, schedulerVars, clockVars, history
<1>2. /\ DOMAIN calls' = DOMAIN calls
      /\ \A u \in DOMAIN calls :
            /\ calls'[u] \in Calls
            /\ calls'[u].key = calls[u].key /\ calls'[u].hasRow = calls[u].hasRow
            /\ calls[u].state = "refused" => calls'[u].state = "refused"
  BY DEF ServiceAnswers, CallsOK, Calls
<1>3. CalendarOK' /\ ClockOK' /\ HistoryOK' /\ SchedulerOK'
  BY <1>1, <1>2 DEF CalendarOK, ClockOK, HistoryOK, SchedulerOK
<1>4. RowsOK' /\ CallsOK' /\ ClaimsOK' /\ TokensOK' /\ BudgetOK'
  BY <1>1, <1>2, <1>3, TableStep DEF RowsOK, HistoryOK
<1>5. Capacity' /\ DueOK' /\ MissedOK'
  BY <1>1, <1>2 DEF Capacity, DueOK, Waiting, MissedOK
<1> QED
  BY <1>3, <1>4, <1>5, InvNext

\* A reply or the user changes rows while no check is under way.
LEMMA RowsKeep ==
    ASSUME DeliveryInv, Idle,
           UNCHANGED <<event, instances, muted, calls, phase, due, sleeping, age,
                       started>>,
           pending' \subseteq pending, active' \subseteq DOMAIN calls,
           causes' \in [Keys -> Nat], \A k \in Keys : causes'[k] >= causes[k],
           missed' \subseteq missed, DOMAIN jobs' = DOMAIN jobs,
           \A k \in DOMAIN jobs :
               \/ jobs'[k] = jobs[k]
               \/ /\ jobs'[k] \in JobRows /\ jobs'[k].state # "claimed"
                  /\ jobs'[k].state \in {"pending", "snoozed"} =>
                       \/ causes'[k] >= causes[k] + 1
                       \/ /\ jobs[k].state = "claimed"
                          /\ calls[jobs[k].token].state = "refused"
                  /\ \/ k \notin missed'
                     \/ jobs[k].state = "claimed"
    PROVE  DeliveryInv'
<1> USE InvParts
<1>1. CalendarOK' /\ ClockOK' /\ HistoryOK' /\ SchedulerOK'
  BY DEF CalendarOK, ClockOK, HistoryOK, SchedulerOK
<1>2. RowsOK' /\ CallsOK' /\ ClaimsOK' /\ TokensOK' /\ BudgetOK'
  BY <1>1, TableStep DEF RowsOK, CallsOK
<1>3. Capacity' /\ DueOK'
  BY IdleParts DEF Idle, SchedulerOK
<1>4. MissedOK'
  BY DEF MissedOK, HistoryOK
<1> QED
  BY <1>1, <1>2, <1>3, <1>4, InvNext

\* A reply with an identifier ends the claim it belongs to, if that is held.
LEMMA ShownKeeps ==
    ASSUME DeliveryInv, NEW t \in Tokens, NEW w \in BOOLEAN, ResultShown(t, w)
    PROVE  DeliveryInv'
<1> USE InvParts
<1>1. /\ Idle /\ t \in pending /\ pending' = pending \ {t}
      /\ active' = active \cup {t}
      /\ UNCHANGED <<event, instances, muted, calls, phase, due, sleeping, age,
                     started, causes, missed>>
  BY DEF ResultShown, Answered, calendarVars, clockVars, history
<1>2. jobs' = jobs \/ /\ ClaimHeld(t)
                      /\ jobs' = [jobs EXCEPT ![calls[t].key] = Delivered(@)]
  BY DEF ResultShown, FinishReminder
<1>3. /\ DOMAIN jobs' = DOMAIN jobs
      /\ \A k \in DOMAIN jobs :
           \/ jobs'[k] = jobs[k]
           \/ /\ jobs[k].state = "claimed"
              /\ jobs'[k] \in JobRows /\ jobs'[k].state = "delivered"
  BY <1>2, RowOperations DEF RowsOK, ClaimHeld
<1> QED
  BY <1>1, <1>3, RowsKeep DEF HistoryOK, SchedulerOK

\* What releaseReminderDelivery does to the rows.
LEMMA Released ==
    ASSUME DeliveryInv, NEW t \in DOMAIN calls, ReleaseReminder(t)
    PROVE  /\ DOMAIN jobs' = DOMAIN jobs
           /\ \A k \in DOMAIN jobs :
                \/ jobs'[k] = jobs[k]
                \/ /\ k = calls[t].key
                   /\ jobs[k].state = "claimed" /\ jobs[k].token = t
                   /\ jobs'[k] \in JobRows
                   /\ jobs'[k].state \in {"pending", "snoozed"}
<1>1. jobs' = jobs \/ /\ ClaimHeld(t)
                      /\ jobs' = [jobs EXCEPT ![calls[t].key] = Unclaimed(@)]
  BY DEF ReleaseReminder
<1> QED
  BY <1>1, InvParts, RowOperations DEF RowsOK, ClaimHeld

\* An error of the service: the claim is given up and its call was not shown.
LEMMA RefusedKeeps ==
    ASSUME DeliveryInv, NEW t \in Tokens, ResultRefused(t)
    PROVE  DeliveryInv'
<1> USE InvParts
<1>1. /\ Idle /\ t \in pending /\ pending' = pending \ {t}
      /\ calls[t].state = "refused" /\ ReleaseReminder(t)
      /\ UNCHANGED <<event, instances, muted, calls, active, phase, due,
                     sleeping, age, started, causes, missed>>
  BY DEF ResultRefused, Answered, calendarVars, clockVars, history
<1>2. t \in DOMAIN calls
  BY <1>1 DEF SchedulerOK
<1> QED
  BY <1>1, <1>2, Released, RowsKeep DEF HistoryOK, SchedulerOK

\* A timeout of D-Bus gives up a claim whose call may be shown: a cause.
LEMMA TimesOutKeeps ==
    ASSUME DeliveryInv, NEW t \in Tokens, ResultTimesOut(t)
    PROVE  DeliveryInv'
<1> USE InvParts
<1>1. /\ Idle /\ t \in pending /\ pending' = pending \ {t}
      /\ ReleaseReminder(t) /\ Cause({calls[t].key})
      /\ UNCHANGED <<event, instances, muted, calls, active, phase, due,
                     sleeping, age, started, missed>>
  BY DEF ResultTimesOut, Answered, calendarVars, clockVars
<1>2. t \in DOMAIN calls
  BY <1>1 DEF SchedulerOK
<1>3. /\ causes' \in [Keys -> Nat] /\ \A k \in Keys : causes'[k] >= causes[k]
      /\ \A k \in Keys : k = calls[t].key => causes'[k] >= causes[k] + 1
  BY <1>1 DEF Cause, HistoryOK
<1> QED
  BY <1>1, <1>2, <1>3, Released, RowsKeep DEF RowsOK, SchedulerOK

\* A snooze, which is a cause, or a dismissal.
LEMMA TouchKeeps ==
    ASSUME DeliveryInv, NEW k \in DOMAIN jobs, Idle,
           SnoozeReminder(k) \/ DismissReminder(k),
           UNCHANGED <<event, instances, muted, calls, pending, phase, due,
                       sleeping, age, started>>,
           active' \subseteq active, missed' = missed \ {k}
    PROVE  DeliveryInv'
<1> USE InvParts
<1>1. k \in Keys /\ \A j \in DOMAIN jobs : j \in Keys
  BY DEF RowsOK
<1>2. \A j \in Keys : causes[j] \in Nat
  BY DEF HistoryOK
<1>3. CASE UNCHANGED <<jobs, causes>>
  BY <1>2, <1>3, RowsKeep DEF HistoryOK, SchedulerOK
<1>4. CASE SetRow(k, Snoozed(jobs[k])) /\ Cause({k})
  <2>1. /\ causes' \in [Keys -> Nat] /\ \A j \in Keys : causes'[j] >= causes[j]
        /\ causes'[k] >= causes[k] + 1
    BY <1>1, <1>2, <1>4 DEF Cause, HistoryOK
  <2>2. /\ DOMAIN jobs' = DOMAIN jobs
        /\ \A j \in DOMAIN jobs \ {k} : jobs'[j] = jobs[j]
        /\ jobs'[k] \in JobRows /\ jobs'[k].state = "snoozed"
    BY <1>4, RowOperations DEF SetRow, RowsOK
  <2> QED
    BY <2>1, <2>2, RowsKeep DEF SchedulerOK
<1>5. CASE SetRow(k, Dismissed(jobs[k])) /\ UNCHANGED causes
  <2>1. /\ DOMAIN jobs' = DOMAIN jobs
        /\ \A j \in DOMAIN jobs \ {k} : jobs'[j] = jobs[j]
        /\ jobs'[k] \in JobRows /\ jobs'[k].state = "dismissed"
    BY <1>5, RowOperations DEF SetRow, RowsOK
  <2> QED
    BY <1>2, <1>5, <2>1, RowsKeep DEF SchedulerOK, HistoryOK
<1> QED
  BY <1>3, <1>4, <1>5 DEF SnoozeReminder, DismissReminder

\* The user's steps keep the invariant,
LEMMA UserKeeps ==
    ASSUME DeliveryInv, UserStep
    PROVE  DeliveryInv'
<1> USE InvParts
<1>1. ASSUME NEW k \in Keys, OnRemindersSnooze(k) \/ OnRemindersDismiss(k)
      PROVE  DeliveryInv'
  BY <1>1, TouchKeeps
     DEF OnRemindersSnooze, OnRemindersDismiss, calendarVars, schedulerVars,
         clockVars
<1>2. ASSUME NEW t \in Tokens, OnActionInvoked(t)
      PROVE  DeliveryInv'
  <2>1. /\ Idle /\ t \in active /\ active' = active \ {t}
        /\ UNCHANGED <<event, instances, muted, calls, pending, phase, due,
                       sleeping, age, started>>
    BY <1>2 DEF OnActionInvoked, calendarVars, clockVars
  <2> DEFINE k == calls[t].key
  <2>2. CASE calls[t].hasRow /\ missed' = missed \ {k}
             /\ (SnoozeReminder(k) \/ DismissReminder(k))
    <3>1. k \in DOMAIN jobs
      BY <2>1, <2>2 DEF CallsOK, SchedulerOK
    <3> HIDE DEF k
    <3> QED
      BY <2>1, <2>2, <3>1, TouchKeeps
  <2>3. CASE UNCHANGED <<jobs, causes, missed>>
    BY <2>1, <2>3, RowsKeep DEF HistoryOK, SchedulerOK
  <2> QED
    BY <1>2, <2>2, <2>3 DEF OnActionInvoked
<1> QED
  BY <1>1, <1>2 DEF UserStep

\* ... so does sleep,
LEMMA SleepKeeps ==
    ASSUME DeliveryInv, NEW b \in BOOLEAN, PrepareForSleep(b)
    PROVE  DeliveryInv'
<1> USE InvParts
<1>1. /\ sleeping' = b
      /\ UNCHANGED <<event, instances, muted, jobs, calls, pending, active,
                     phase, due, age, started, causes, missed>>
  BY DEF PrepareForSleep, calendarVars, clockVars, history
<1>2. CalendarOK' /\ RowsOK' /\ CallsOK' /\ ClaimsOK' /\ ClockOK' /\ HistoryOK'
  BY <1>1 DEF CalendarOK, RowsOK, CallsOK, ClaimsOK, ClockOK, HistoryOK
<1>3. SchedulerOK'
  BY <1>1 DEF SchedulerOK
<1>4. TokensOK' /\ Capacity' /\ DueOK' /\ MissedOK'
  BY <1>1 DEF TokensOK, Capacity, DueOK, Waiting, MissedOK
<1>5. BudgetOK'
  BY <1>1 DEF BudgetOK, Spent, Claimable, Waiting
<1> QED
  BY <1>2, <1>3, <1>4, <1>5, InvNext

\* ... the clock passing a fire time or a start,
LEMMA FireKeeps ==
    ASSUME DeliveryInv, NEW k \in Keys,
           FireTimePasses(k) \/ OccurrenceStarts(k)
    PROVE  DeliveryInv'
<1> USE InvParts
<1>1. UNCHANGED <<event, instances, muted, jobs, calls, pending, active, phase,
                  due, sleeping, causes>>
  BY DEF FireTimePasses, OccurrenceStarts, calendarVars, schedulerVars, history
<1>2. /\ ClockOK' /\ \A j \in Keys : age[j] # "early" => age'[j] # "early"
  BY DEF FireTimePasses, OccurrenceStarts, ClockOK
<1>3. /\ missed' \subseteq DOMAIN jobs
      /\ \A j \in missed' \ missed :
            muted /\ jobs[j].state = "pending" /\ age'[j] # "early"
  BY DEF FireTimePasses, OccurrenceStarts, history, HistoryOK, ClockOK
<1>4. CalendarOK' /\ RowsOK' /\ CallsOK' /\ ClaimsOK' /\ HistoryOK'
  BY <1>1, <1>3 DEF CalendarOK, RowsOK, CallsOK, ClaimsOK, HistoryOK
<1>5. SchedulerOK' /\ TokensOK' /\ Capacity' /\ DueOK'
  BY <1>1 DEF SchedulerOK, TokensOK, Capacity, DueOK, Waiting
<1>6. BudgetOK'
  BY <1>1 DEF BudgetOK, Spent, Claimable, Waiting
<1>7. MissedOK'
  BY <1>1, <1>2, <1>3 DEF MissedOK, RowsOK
<1> QED
  BY <1>2, <1>4, <1>5, <1>6, <1>7, InvNext

\* ... the end of a snooze,
LEMMA SnoozeEndKeeps ==
    ASSUME DeliveryInv, NEW k \in Keys, SnoozeEnds(k)
    PROVE  DeliveryInv'
<1> USE InvParts
<1>1. UNCHANGED <<event, instances, muted, calls, pending, active, phase, due,
                  sleeping, age, started, causes, missed>>
  BY DEF SnoozeEnds, calendarVars, schedulerVars, clockVars, history
<1>2. ASSUME NEW row \in JobRows
      PROVE  /\ [row EXCEPT !.snooze = "over"] \in JobRows
             /\ [row EXCEPT !.snooze = "over"].state = row.state
             /\ [row EXCEPT !.snooze = "over"].token = row.token
             /\ [row EXCEPT !.snooze = "over"].snooze = "over"
  BY DEF JobRows
<1>3. /\ k \in DOMAIN jobs /\ DOMAIN jobs' = DOMAIN jobs
      /\ jobs'[k] = [jobs[k] EXCEPT !.snooze = "over"]
      /\ \A j \in DOMAIN jobs \ {k} : jobs'[j] = jobs[j]
  BY DEF SnoozeEnds
<1>4. \A j \in DOMAIN jobs :
        /\ jobs'[j] \in JobRows /\ jobs'[j].state = jobs[j].state
        /\ jobs'[j].token = jobs[j].token
        /\ jobs'[j].snooze \in {jobs[j].snooze, "over"}
  <2> SUFFICES ASSUME NEW j \in DOMAIN jobs
               PROVE  /\ jobs'[j] \in JobRows /\ jobs'[j].state = jobs[j].state
                      /\ jobs'[j].token = jobs[j].token
                      /\ jobs'[j].snooze \in {jobs[j].snooze, "over"}
    OBVIOUS
  <2>1. jobs[j] \in JobRows
    BY DEF RowsOK
  <2>2. CASE j = k
    <3> DEFINE row == [jobs[j] EXCEPT !.snooze = "over"]
    <3>1. /\ row \in JobRows /\ row.state = jobs[j].state
          /\ row.token = jobs[j].token /\ row.snooze = "over"
      BY <1>2, <2>1
    <3>2. jobs'[j] = row
      BY <1>3, <2>2
    <3> HIDE DEF row
    <3> QED
      BY <3>1, <3>2
  <2>3. CASE j # k
    BY <1>3, <2>1, <2>3
  <2> QED
    BY <2>2, <2>3
<1>5. CalendarOK' /\ ClockOK' /\ HistoryOK' /\ SchedulerOK'
  BY <1>1, <1>3 DEF CalendarOK, ClockOK, HistoryOK, SchedulerOK
<1>6. RowsOK' /\ CallsOK' /\ ClaimsOK' /\ TokensOK' /\ BudgetOK'
  BY <1>1, <1>3, <1>4, <1>5, TableStep DEF CallsOK, HistoryOK
<1>7. Capacity' /\ DueOK' /\ MissedOK'
  BY <1>1, <1>3, <1>4
     DEF Capacity, DueOK, Waiting, MissedOK, SchedulerOK, HistoryOK
<1> QED
  BY <1>5, <1>6, <1>7, InvNext

\* ... the end of a lease,
LEMMA LeaseKeeps ==
    ASSUME DeliveryInv, NEW t \in Tokens, LeaseExpires(t)
    PROVE  DeliveryInv'
<1> USE InvParts
<1>1. UNCHANGED <<event, instances, muted, jobs, pending, active, phase, due,
                  sleeping, age, started, causes, missed>>
  BY DEF LeaseExpires, calendarVars, schedulerVars, clockVars, history
<1>2. /\ DOMAIN calls' = DOMAIN calls
      /\ \A u \in DOMAIN calls :
            /\ calls'[u] \in Calls
            /\ calls'[u].key = calls[u].key /\ calls'[u].hasRow = calls[u].hasRow
            /\ calls'[u].state = calls[u].state
  BY DEF LeaseExpires, CallsOK, Calls
<1>3. CalendarOK' /\ ClockOK' /\ HistoryOK' /\ SchedulerOK'
  BY <1>1, <1>2 DEF CalendarOK, ClockOK, HistoryOK, SchedulerOK
<1>4. RowsOK' /\ CallsOK' /\ ClaimsOK' /\ TokensOK' /\ BudgetOK'
  BY <1>1, <1>2, <1>3, TableStep DEF RowsOK, HistoryOK
<1>5. Capacity' /\ DueOK' /\ MissedOK'
  BY <1>1, <1>2 DEF Capacity, DueOK, Waiting, MissedOK
<1> QED
  BY <1>3, <1>4, <1>5, InvNext

\* ... a crash, whose start recovers the expired claims and whose last call may
\* not have left,
LEMMA CrashKeeps ==
    ASSUME DeliveryInv, Crash
    PROVE  DeliveryInv'
<1> USE InvParts
<1>1. /\ pending' = {} /\ active' = {} /\ due' = {} /\ sleeping' = FALSE
      /\ phase' = "idle" /\ Cause(Recovered)
      /\ UNCHANGED <<event, instances, muted, age, started, missed>>
  BY DEF Crash, calendarVars, clockVars
<1>2. /\ Recovered \subseteq DOMAIN jobs
      /\ \A k \in Recovered : jobs[k].state = "claimed"
  BY DEF Recovered, LeaseExpired
<1>3. /\ DOMAIN jobs' = DOMAIN jobs
      /\ \A k \in DOMAIN jobs :
            /\ jobs'[k] \in JobRows
            /\ k \in Recovered => jobs'[k].state \in {"pending", "snoozed"}
            /\ k \notin Recovered => jobs'[k] = jobs[k]
  <2>1. jobs' = [k \in DOMAIN jobs |->
                    IF k \in Recovered THEN Unclaimed(jobs[k]) ELSE jobs[k]]
    BY DEF Crash, Changed
  <2> QED
    BY <2>1, CheckRows DEF Recovered
<1>4. /\ DOMAIN calls' = DOMAIN calls
      /\ \A u \in DOMAIN calls :
            /\ calls'[u] \in Calls
            /\ calls'[u].key = calls[u].key /\ calls'[u].hasRow = calls[u].hasRow
            /\ calls[u].state = "refused" => calls'[u].state = "refused"
  <2>1. CASE UNCHANGED calls
    BY <2>1 DEF CallsOK
  <2>2. ASSUME NEW t \in pending, calls' = [calls EXCEPT ![t].state = "refused"]
        PROVE  <1>4!:
    BY <2>2 DEF CallsOK, Calls
  <2> QED
    BY <2>1, <2>2 DEF Crash
<1>5. /\ causes' \in [Keys -> Nat] /\ \A k \in Keys : causes'[k] >= causes[k]
      /\ \A k \in Recovered : causes'[k] >= causes[k] + 1
  BY <1>1, <1>2 DEF Cause, HistoryOK, RowsOK
<1>6. CalendarOK' /\ ClockOK' /\ HistoryOK' /\ SchedulerOK'
  BY <1>1, <1>3, <1>5 DEF CalendarOK, ClockOK, HistoryOK, SchedulerOK
<1>7. RowsOK' /\ CallsOK' /\ ClaimsOK' /\ TokensOK' /\ BudgetOK'
  <2>1. \A k \in DOMAIN jobs :
            /\ jobs'[k].state = "claimed" =>
                 jobs[k].state = "claimed" /\ jobs'[k].token = jobs[k].token
            /\ jobs'[k].state \in {"pending", "snoozed"} =>
                 jobs[k].state \in {"pending", "snoozed"} \/ k \in Recovered
    BY <1>3
  <2> QED
    BY <1>1, <1>3, <1>4, <1>5, <1>6, <2>1, TableStep
<1>8. Capacity' /\ DueOK'
  BY <1>1, IdleParts
<1>9. MissedOK'
  BY <1>1, <1>2, <1>3 DEF MissedOK, HistoryOK
<1> QED
  BY <1>6, <1>7, <1>8, <1>9, InvNext

\* ... and a step that changes nothing.
LEMMA StutterKeeps ==
    ASSUME DeliveryInv, UNCHANGED vars
    PROVE  DeliveryInv'
<1> USE InvParts
<1>1. UNCHANGED <<event, instances, muted, jobs, calls, pending, active, phase,
                  due, sleeping, age, started, causes, missed>>
  BY DEF vars, calendarVars, schedulerVars, clockVars, history
<1>2. CalendarOK' /\ RowsOK' /\ CallsOK' /\ ClaimsOK' /\ ClockOK' /\ HistoryOK'
  BY <1>1 DEF CalendarOK, RowsOK, CallsOK, ClaimsOK, ClockOK, HistoryOK
<1>3. SchedulerOK' /\ TokensOK' /\ Capacity' /\ DueOK' /\ MissedOK'
  BY <1>1 DEF SchedulerOK, TokensOK, Capacity, DueOK, Waiting, MissedOK
<1>4. BudgetOK'
  BY <1>1 DEF BudgetOK, Spent, Claimable, Waiting
<1> QED
  BY <1>2, <1>3, <1>4, InvNext

\* The invariant holds initially.
LEMMA DeliveryInvInit ==
    ASSUME Init
    PROVE  DeliveryInv
<1>1. event \in Events /\ event.occurs \subseteq Keys
  BY DEF Init, Events
<1>2. /\ instances = event.occurs /\ muted = FALSE
      /\ DOMAIN jobs = event.occurs /\ \A k \in DOMAIN jobs : jobs[k] = NewRow
      /\ DOMAIN calls = {} /\ pending = {} /\ active = {} /\ phase = "idle"
      /\ due = {} /\ sleeping = FALSE /\ age = [k \in Keys |-> "early"]
      /\ started = {} /\ causes = [k \in Keys |-> 0] /\ missed = {}
  BY DEF Init, Empty
<1>3. Cardinality(DOMAIN calls) = 0 /\ \A k : Cardinality(Spent(k)) = 0
  <2>1. \A k : Spent(k) = {}
    BY <1>2 DEF Spent
  <2> QED
    BY <1>2, <2>1, FS_EmptySet
<1>4. NewRow \in JobRows /\ NewRow.state = "pending"
  BY DEF NewRow, JobRows
<1>5. TypeOK
  BY <1>1, <1>2, <1>4 DEF TypeOK
<1>6. TokensOK /\ Capacity /\ DueOK /\ MissedOK
  BY <1>2, <1>3 DEF TokensOK, Capacity, DueOK, MissedOK
<1>7. BudgetOK
  BY <1>2, <1>3 DEF BudgetOK
<1> QED
  BY <1>5, <1>6, <1>7 DEF DeliveryInv

\* Every change of the event and its calendar keeps it.
LEMMA ChangeKeeps ==
    ASSUME DeliveryInv, ChangeStep
    PROVE  DeliveryInv'
<1>1. ASSUME NEW e \in Events, e.stored = "live", EditEvent(e) \/ RefreshEvent(e)
      PROVE  DeliveryInv'
  BY <1>1, EditKeeps
<1>2. CASE RemoveEvent \/ UndoRemove \/ DeleteEvent
  BY <1>2, RemoveKeeps, UndoKeeps, DeleteKeeps
<1>3. ASSUME NEW b \in BOOLEAN, HoldEvent(b) \/ SetMuted(b)
      PROVE  DeliveryInv'
  BY <1>3, HoldKeeps, MuteKeeps
<1> QED
  BY <1>1, <1>2, <1>3 DEF ChangeStep

\* The invariant is inductive.
LEMMA DeliveryInvNext ==
    ASSUME DeliveryInv, [Next]_vars
    PROVE  DeliveryInv'
<1>1. CASE ChangeStep
  BY <1>1, ChangeKeeps
<1>2. CASE Check
  BY <1>2, CheckKeeps, AsleepKeeps DEF Check
<1>3. CASE DeliverNext
  BY <1>3, DeliverDismissesKeeps, DeliverWaitsKeeps, DeliverKeeps DEF DeliverNext
<1>4. CASE UserStep
  BY <1>4, UserKeeps
<1>5. CASE ClockStep
  BY <1>5, FireKeeps, SnoozeEndKeeps, LeaseKeeps DEF ClockStep
<1>6. CASE FaultStep
  BY <1>6, AnswerKeeps, TimesOutKeeps, ShownKeeps, CrashKeeps
     DEF FaultStep, ServiceRefuses
<1>7. ASSUME NEW t \in Tokens, ServiceShows(t) \/ Result(t)
      PROVE  DeliveryInv'
  BY <1>7, AnswerKeeps, ShownKeeps, RefusedKeeps DEF ServiceShows, Result
<1>8. ASSUME NEW b \in BOOLEAN, PrepareForSleep(b)
      PROVE  DeliveryInv'
  BY <1>8, SleepKeeps
<1>9. CASE UNCHANGED vars
  BY <1>9, StutterKeeps
<1> QED
  BY <1>1, <1>2, <1>3, <1>4, <1>5, <1>6, <1>7, <1>8, <1>9 DEF Next

\* The inductive invariant holds throughout, for every set of reminders, every
\* number of changes, snoozes and faults, and every choice of them.
THEOREM DeliveryCorrect == Spec => []DeliveryInv
  BY DeliveryInvInit, DeliveryInvNext, PTL DEF Spec

\* The state keeps its shape; in particular a claimed row always carries the
\* token of a call made for that very row.
THEOREM DeliveryTypeCorrect == Spec => []TypeOK
<1>1. DeliveryInv => TypeOK
  BY DEF DeliveryInv
<1> QED
  BY <1>1, DeliveryCorrect, PTL

\* A reminder is shown once, and again only for a cause: claims, tokens, leases
\* and the rebuild of the table never send one twice by themselves.
THEOREM NoSpuriousRepeatCorrect == Spec => []NoSpuriousRepeat
<1>1. ASSUME DeliveryInv PROVE NoSpuriousRepeat
  <2> SUFFICES ASSUME NEW k \in Keys PROVE Cardinality(Shown(k)) <= 1 + causes[k]
    BY DEF NoSpuriousRepeat
  <2>1. /\ IsFiniteSet(Spent(k)) /\ Cardinality(Spent(k)) \in Nat
        /\ causes[k] \in Nat
    BY <1>1, InvParts, TokensFinite DEF HistoryOK
  <2>2. Shown(k) \in SUBSET Spent(k)
    BY DEF Shown, Spent
  <2>3. /\ Cardinality(Shown(k)) <= Cardinality(Spent(k))
        /\ Cardinality(Shown(k)) \in Nat
    BY <2>1, <2>2, FS_Subset, FS_CardinalityType
  <2>4. Cardinality(Spent(k)) + (IF Claimable(k) THEN 1 ELSE 0) <= 1 + causes[k]
    BY <1>1, InvParts DEF BudgetOK
  <2>5. Cardinality(Spent(k)) <= 1 + causes[k]
    BY <2>1, <2>4
  <2> QED
    BY <2>1, <2>3, <2>5
<1> QED
  BY <1>1, DeliveryCorrect, PTL

\* The counters a step's cause is read off are numbers.
BoundsOK == edits \in Nat /\ snoozes \in Nat

\* They stay numbers.
LEMMA BoundsInvariant == Spec => []BoundsOK
<1>1. Init => BoundsOK
  BY DEF Init, BoundsOK
<1>2. ASSUME BoundsOK, [Next]_vars
      PROVE  BoundsOK'
  <2>1. CASE ChangeStep
    BY <1>2, <2>1
       DEF ChangeStep, EditEvent, RefreshEvent, RemoveEvent, UndoRemove,
           DeleteEvent, HoldEvent, SetMuted, Change, BoundsOK
  <2>2. CASE Check \/ DeliverNext
    BY <1>2, <2>2
       DEF Check, CheckNow, CheckAsleep, DeliverNext, DeliverDismisses,
           DeliverWaits, Deliver, bounds, BoundsOK
  <2>3. CASE UserStep
    BY <1>2, <2>3
       DEF UserStep, OnRemindersSnooze, OnRemindersDismiss, OnActionInvoked,
           Touch, BoundsOK
  <2>4. CASE ClockStep
    BY <1>2, <2>4
       DEF ClockStep, FireTimePasses, OccurrenceStarts, SnoozeEnds, LeaseExpires,
           bounds, BoundsOK
  <2>5. CASE FaultStep
    BY <1>2, <2>5
       DEF FaultStep, ServiceRefuses, ServiceAnswers, ResultTimesOut,
           ResultShown, Crash, BoundsOK
  <2>6. CASE \E t \in Tokens : ServiceShows(t) \/ Result(t)
    BY <1>2, <2>6
       DEF ServiceShows, ServiceAnswers, Result, ResultShown, ResultRefused,
           bounds, BoundsOK
  <2>7. CASE \E b \in BOOLEAN : PrepareForSleep(b)
    BY <1>2, <2>7 DEF PrepareForSleep, BoundsOK
  <2>8. CASE UNCHANGED vars
    BY <1>2, <2>8 DEF vars, bounds, BoundsOK
  <2> QED
    BY <1>2, <2>1, <2>2, <2>3, <2>4, <2>5, <2>6, <2>7, <2>8 DEF Next
<1> QED
  BY <1>1, <1>2, PTL DEF Spec

\* What a step may do to a row that stays in the table: a dismissed row changes
\* only from the list of due rows, no row is claimed but from that list, and a
\* snoozed row leaves its state only from there, by the user or with the event.
RowStep(k) ==
    \/ jobs'[k].state = jobs[k].state
    \/ /\ jobs[k].state # "dismissed" /\ jobs'[k].state # "claimed"
       /\ jobs[k].state = "snoozed" => edits' # edits \/ snoozes' # snoozes
    \/ k \in due

\* The changes of the event and its calendar,
LEMMA ChangeRows ==
    ASSUME DeliveryInv, BoundsOK, ChangeStep,
           NEW k \in DOMAIN jobs \cap DOMAIN jobs'
    PROVE  RowStep(k)
<1>1. ASSUME NEW e, RebuildReminderJobs(e), Change("edit") \/ Change("refresh")
                                            \/ Change("remove")
      PROVE  RowStep(k)
  <2>1. edits' # edits
    BY <1>1 DEF Change, BoundsOK
  <2>2. CASE k \in Kept
    BY <1>1, <2>2 DEF RebuildReminderJobs, RowStep
  <2>3. CASE k \notin Kept
    BY <1>1, <2>1, <2>3 DEF RebuildReminderJobs, RowStep, Kept, Waiting, NewRow
  <2> QED
    BY <2>2, <2>3
<1>2. CASE RemoveEvent
  BY <1>1, <1>2 DEF RemoveEvent
<1>3. ASSUME NEW e \in Events, EditEvent(e) \/ RefreshEvent(e)
      PROVE  RowStep(k)
  BY <1>1, <1>3 DEF EditEvent, RefreshEvent
<1>4. CASE UndoRemove \/ \E b \in BOOLEAN : HoldEvent(b)
  BY <1>4 DEF UndoRemove, HoldEvent, RowStep
<1>5. CASE DeleteEvent
  BY <1>5 DEF DeleteEvent, Empty
<1>6. ASSUME NEW b \in BOOLEAN, SetMuted(b)
      PROVE  RowStep(k)
  <2>1. \/ jobs'[k] = jobs[k]
        \/ k \in DuePending(jobs) /\ jobs'[k] = Dismissed(jobs[k])
    BY <1>6 DEF SetMuted, Changed
  <2> QED
    BY <2>1, InvParts, RowOperations DEF RowStep, DuePending, RowsOK
<1> QED
  BY <1>2, <1>3, <1>4, <1>5, <1>6 DEF ChangeStep

\* ... the check and the recovery at start,
LEMMA CheckRowStep ==
    ASSUME DeliveryInv, CheckNow \/ Crash,
           NEW k \in DOMAIN jobs
    PROVE  RowStep(k)
<1> DEFINE free == Changed(Recovered, Unclaimed)
<1>1. /\ k \in Recovered => jobs[k].state = "claimed"
                            /\ free[k].state \in {"pending", "snoozed"}
      /\ k \notin Recovered => free[k] = jobs[k]
      /\ free[k] \in JobRows
  BY CheckRows DEF Changed, Recovered, LeaseExpired
<1>2. CASE CheckNow
  <2>1. jobs'[k] = IF k \in Stale(free) THEN Dismissed(free[k]) ELSE free[k]
    BY <1>2 DEF CheckNow
  <2>2. k \in Stale(free) => free[k].state = "pending"
    BY DEF Stale
  <2> HIDE DEF free
  <2> QED
    BY <1>1, <2>1, <2>2, RowOperations DEF RowStep
<1>3. CASE Crash
  <2>1. jobs'[k] = free[k]
    BY <1>3 DEF Crash
  <2> HIDE DEF free
  <2> QED
    BY <1>1, <2>1 DEF RowStep
<1> QED
  BY <1>2, <1>3

\* ... deliver, which changes rows of the list only,
LEMMA DeliverRows ==
    ASSUME DeliverNext, NEW k \in DOMAIN jobs
    PROVE  RowStep(k)
<1>1. PICK j \in Keys : DeliverDismisses(j) \/ DeliverWaits(j) \/ Deliver(j)
  BY DEF DeliverNext
<1>2. j \in due /\ (k # j => jobs'[k] = jobs[k])
  BY <1>1 DEF DeliverDismisses, DeliverWaits, Deliver, NextDue, SetRow
<1> QED
  BY <1>2 DEF RowStep

\* ... the replies, which change claimed rows only,
LEMMA ResultRows ==
    ASSUME DeliveryInv, NEW t \in Tokens,
           \/ \E w \in BOOLEAN : ResultShown(t, w)
           \/ ResultRefused(t)
           \/ ResultTimesOut(t),
           NEW k \in DOMAIN jobs
    PROVE  RowStep(k)
<1>1. \/ jobs'[k] = jobs[k]
      \/ /\ jobs[k].state = "claimed"
         /\ jobs'[k] \in {Delivered(jobs[k]), Unclaimed(jobs[k])}
  BY DEF ResultShown, ResultRefused, ResultTimesOut, FinishReminder,
         ReleaseReminder, ClaimHeld
<1> QED
  BY <1>1, InvParts, RowOperations DEF RowStep, RowsOK

\* ... and the user keep to it.
LEMMA UserRows ==
    ASSUME DeliveryInv, BoundsOK, UserStep, NEW k \in DOMAIN jobs
    PROVE  RowStep(k)
<1>1. snoozes' # snoozes
  BY DEF UserStep, OnRemindersSnooze, OnRemindersDismiss, OnActionInvoked, Touch,
         BoundsOK
<1>2. \/ jobs'[k] = jobs[k]
      \/ jobs[k].state # "dismissed" /\ jobs'[k] = Snoozed(jobs[k])
      \/ jobs'[k] = Dismissed(jobs[k])
  BY DEF UserStep, OnRemindersSnooze, OnRemindersDismiss, OnActionInvoked,
         SnoozeReminder, DismissReminder, SetRow
<1> QED
  BY <1>1, <1>2, InvParts, RowOperations DEF RowStep, RowsOK

\* Every step keeps to it.
LEMMA RowStepNext ==
    ASSUME DeliveryInv, BoundsOK, [Next]_vars,
           NEW k \in DOMAIN jobs \cap DOMAIN jobs'
    PROVE  RowStep(k)
<1>1. CASE ChangeStep
  BY <1>1, ChangeRows
<1>2. CASE Check
  <2>1. CheckAsleep => RowStep(k)
    BY DEF CheckAsleep, RowStep
  <2> QED
    BY <1>2, <2>1, CheckRowStep DEF Check
<1>3. CASE DeliverNext
  BY <1>3, DeliverRows
<1>4. CASE UserStep
  BY <1>4, UserRows
<1>5. CASE ClockStep
  <2>1. \/ jobs'[k] = jobs[k]
        \/ jobs'[k] = [jobs[k] EXCEPT !.snooze = "over"]
    BY <1>5 DEF ClockStep, FireTimePasses, OccurrenceStarts, SnoozeEnds,
                LeaseExpires
  <2>2. jobs[k] \in JobRows
    BY InvParts DEF RowsOK
  <2> QED
    BY <2>1, <2>2 DEF RowStep, JobRows
<1>6. CASE FaultStep
  <2>1. ASSUME NEW t \in Tokens, ServiceRefuses(t) PROVE RowStep(k)
    BY <2>1 DEF ServiceRefuses, ServiceAnswers, RowStep
  <2> QED
    BY <1>6, <2>1, ResultRows, CheckRowStep DEF FaultStep
<1>7. ASSUME NEW t \in Tokens, ServiceShows(t) \/ Result(t)
      PROVE  RowStep(k)
  <2>1. ServiceShows(t) => RowStep(k)
    BY DEF ServiceShows, ServiceAnswers, RowStep
  <2> QED
    BY <1>7, <2>1, ResultRows DEF Result
<1>8. CASE (\E b \in BOOLEAN : PrepareForSleep(b)) \/ UNCHANGED vars
  BY <1>8 DEF PrepareForSleep, vars, RowStep
<1> QED
  BY <1>1, <1>2, <1>3, <1>4, <1>5, <1>6, <1>7, <1>8 DEF Next

\* A snooze that lies ahead ends by the user or with the event: no late reply,
\* recovery or delivery ends it.
THEOREM SnoozeKeptCorrect == Spec => SnoozeKept
<1>1. ASSUME DeliveryInv, BoundsOK, [Next]_vars,
             NEW k \in DOMAIN jobs \cap DOMAIN jobs',
             jobs[k].state = "snoozed", jobs[k].snooze = "ahead",
             snoozes' = snoozes, edits' = edits
      PROVE  jobs'[k].state = "snoozed"
  <2>1. k \notin due
    BY <1>1, InvParts DEF DueOK
  <2> QED
    BY <1>1, <2>1, RowStepNext DEF RowStep
<1>2. DeliveryInv /\ BoundsOK /\ [Next]_vars =>
        [\A k \in DOMAIN jobs \cap DOMAIN jobs' :
            /\ jobs[k].state = "snoozed" /\ jobs[k].snooze = "ahead"
            /\ snoozes' = snoozes /\ edits' = edits
            => jobs'[k].state = "snoozed"]_vars
  BY <1>1
<1> QED
  BY <1>2, DeliveryCorrect, BoundsInvariant, PTL DEF Spec, SnoozeKept

\* What the user dismissed stays dismissed, whatever replies, buttons of older
\* notifications, refreshes and restarts come after.
THEOREM DismissedIsFinalCorrect == Spec => DismissedIsFinal
<1>1. ASSUME DeliveryInv, BoundsOK, [Next]_vars,
             NEW k \in DOMAIN jobs \cap DOMAIN jobs', jobs[k].state = "dismissed"
      PROVE  jobs'[k].state = "dismissed"
  <2>1. k \notin due
    BY <1>1, InvParts DEF DueOK, Waiting
  <2> QED
    BY <1>1, <2>1, RowStepNext DEF RowStep
<1>2. DeliveryInv /\ BoundsOK /\ [Next]_vars =>
        [\A k \in DOMAIN jobs \cap DOMAIN jobs' :
            jobs[k].state = "dismissed" => jobs'[k].state = "dismissed"]_vars
  BY <1>1
<1> QED
  BY <1>2, DeliveryCorrect, BoundsInvariant, PTL DEF Spec, DismissedIsFinal

\* A reminder that came due while its calendar was muted is never claimed, not
\* even by a check that follows the unmuting at once.
THEOREM MutedStaysSilentCorrect == Spec => MutedStaysSilent
<1>1. ASSUME DeliveryInv, BoundsOK, [Next]_vars, NEW k \in missed,
             k \in DOMAIN jobs'
      PROVE  jobs'[k].state # "claimed"
  <2>1. /\ k \in DOMAIN jobs /\ jobs[k].state \in {"dismissed", "pending"}
        /\ jobs[k].state = "pending" => muted
    BY <1>1, InvParts DEF MissedOK, HistoryOK
  <2>2. k \notin due
    BY <1>1, <2>1, InvParts DEF DueOK, SchedulerOK, Waiting
  <2> QED
    BY <1>1, <2>1, <2>2, RowStepNext DEF RowStep
<1>2. DeliveryInv /\ BoundsOK /\ [Next]_vars =>
        [\A k \in missed : k \in DOMAIN jobs' => jobs'[k].state # "claimed"]_vars
  BY <1>1
<1> QED
  BY <1>2, DeliveryCorrect, BoundsInvariant, PTL DEF Spec, MutedStaysSilent
=============================================================================
