----------------------------- MODULE CalDavPull -----------------------------
(***************************************************************************)
(* How the calendars of a CalDAV account are pulled. A job discovers the   *)
(* collections, takes one enabled calendar after the other, and ends with  *)
(* the ranges that views have asked for. What it asks of a calendar        *)
(* depends on what the server offers: a sync token, a tag of the whole     *)
(* collection (ctag), or nothing but the ETags of the resources.           *)
(*                                                                         *)
(* Time is two ranges, the default window and what is older. A new year    *)
(* moves the window, between two jobs; no event lies in what it moves by.  *)
(* An event is its range and its revision. Local edits, conflicts and the  *)
(* outbox are CalDavDrain's; the joining of requested ranges is            *)
(* GoogleRangeSync's, whose syncRange is the same code.                    *)
(***************************************************************************)
EXTENDS Integers, Sequences, FiniteSets, FiniteSetsExt, SequencesExt

CONSTANTS
    CalCount,      \* calendars are 1..CalCount, in the order they are pulled
    LaterOffers,   \* what the server may have for all calendars but the first
    Events,        \* resources of a calendar
    MaxChanges,    \* changes by other clients
    MaxCommands,   \* ranges asked for, and preferences set, by the user
    Faults,        \* "failure", "expired", "crash", "deletion", "new_year"
    MaxFaults

OfferKinds == {"token", "ctag", "nothing"}

ASSUME PullAssumption ==
    /\ LaterOffers \subseteq OfferKinds
    /\ CalCount \in Nat /\ MaxChanges \in Nat /\ MaxCommands \in Nat
    /\ Events # {} /\ MaxFaults \in Nat
    /\ Faults \subseteq {"failure", "expired", "crash", "deletion", "new_year"}

VARIABLES
    offers,        \* what the server has for each collection
    remote,        \* the resources of each collection
    exists,        \* collections not deleted at the server
    rows,          \* the table calendars
    cache,         \* the rows of events, by calendar
    covered,       \* sync_coverage, by calendar
    wanted,        \* m_pendingHydrations: calendars whose older range is wanted
    job,           \* SyncJob
    changes, commands, faults,
    outrun         \* history: calendars whose token passed over the older range

server == <<offers, remote, exists>>
local == <<rows, cache, covered>>
vars == <<server, local, wanted, job, changes, commands, faults, outrun>>

Cals == 1..CalCount
Ranges == {"window", "older"}
Gone == "gone"
NoTag == -1
Tags == NoTag..MaxChanges

Resources == [place : Ranges \cup {Gone}, at : 0..MaxChanges]

\* enabled and muted are the user's; ctag and serverToken were advertised at
\* the last discovery; token, syncedCtag and synced are what was applied.
CalendarRows ==
    [known : BOOLEAN, enabled : BOOLEAN, muted : BOOLEAN, ctag : Tags,
     serverToken : Tags, token : Tags, syncedCtag : Tags, synced : BOOLEAN]

UnknownRow ==
    [known |-> FALSE, enabled |-> TRUE, muted |-> FALSE, ctag |-> NoTag,
     serverToken |-> NoTag, token |-> NoTag, syncedCtag |-> NoTag, synced |-> FALSE]

Idle == [phase |-> "idle"]

NoneLeft == [c \in {} |-> UnknownRow]

\* left: the calendars S still to be asked about, with their rows as discovered; cal
\* and row are currentCalendar, as it was when the job took it.
Jobs(S) ==
    [phase : {"idle", "discovering"}] \cup
    [phase : {"next"}, left : [S -> CalendarRows]] \cup
    [phase : {"hydrating"}] \cup
    [phase : {"query", "changes", "etags", "multiget", "applying"},
     left : [S -> CalendarRows], cal : Cals, row : CalendarRows,
     full : BOOLEAN, replace : BOOLEAN, hydration : BOOLEAN,
     staged : SUBSET (Events \X Resources), missing : SUBSET Events,
     removed : SUBSET Events, token : Tags]

\* Every change of a collection changes its tag and its token.
Tag(c) == Max({remote[c][e].at : e \in Events})

----------------------------------------------------------------------------
TypeOK ==
    /\ offers \in [Cals -> OfferKinds]
    /\ remote \in [Cals -> [Events -> Resources]]
    /\ exists \subseteq Cals
    /\ rows \in [Cals -> CalendarRows]
    /\ cache \in [Cals -> [Events -> Resources]]
    /\ covered \in [Cals -> SUBSET Ranges]
    /\ wanted \in Seq(Cals) /\ IsInjective(wanted)
    /\ \E S \in SUBSET Cals : job \in Jobs(S)
    /\ changes \in 0..MaxChanges /\ commands \in 0..MaxCommands
    /\ faults \in 0..MaxFaults /\ outrun \subseteq Cals

Init ==
    /\ offers \in {f \in [Cals -> OfferKinds] : \A c \in Cals \ {1} : f[c] \in LaterOffers}
    /\ \E place \in Ranges :
        remote = [c \in Cals |-> [e \in Events |-> [place |-> place, at |-> 0]]]
    /\ exists = Cals
    /\ rows = [c \in Cals |-> UnknownRow]
    /\ cache = [c \in Cals |-> [e \in Events |-> [place |-> Gone, at |-> 0]]]
    /\ covered = [c \in Cals |-> {}]
    /\ wanted = <<>> /\ job = Idle
    /\ changes = 0 /\ commands = 0 /\ faults = 0 /\ outrun = {}

Fault(kind) == kind \in Faults /\ faults < MaxFaults /\ faults' = faults + 1

----------------------------------------------------------------------------
(* Other clients, and the user                                              *)

ForeignChange(c, e, place) ==
    /\ changes < MaxChanges /\ c \in exists /\ remote[c][e].place # place
    /\ changes' = changes + 1
    /\ remote' = [remote EXCEPT ![c][e] = [place |-> place, at |-> changes + 1]]
    /\ UNCHANGED <<offers, exists, local, wanted, job, commands, faults, outrun>>

DeleteCollection(c) ==
    /\ Fault("deletion") /\ c \in exists
    /\ exists' = exists \ {c}
    /\ UNCHANGED <<offers, remote, local, wanted, job, changes, commands, outrun>>

\* A new year moves the default window: what is covered of it is not all of it
\* any more (initialCoverageWindow).
NewYear ==
    /\ Fault("new_year") /\ job = Idle
    /\ covered' = [c \in Cals |-> covered[c] \ {"window"}]
    /\ UNCHANGED <<server, rows, cache, wanted, job, changes, commands, outrun>>

\* onCalendarsUpdatePreferences
SetPreferences(c, enabled, muted) ==
    /\ commands < MaxCommands /\ commands' = commands + 1
    /\ rows[c].known /\ (rows[c].enabled # enabled) # (rows[c].muted # muted)
    /\ rows' = [rows EXCEPT ![c].enabled = enabled, ![c].muted = muted]
    /\ UNCHANGED <<server, cache, covered, wanted, job, changes, faults, outrun>>

\* syncRange, for a view of the older range
SyncRange(c) ==
    /\ commands < MaxCommands /\ commands' = commands + 1
    /\ rows[c].known /\ rows[c].enabled /\ "older" \notin covered[c]
    /\ ~Contains(wanted, c)
    /\ wanted' = Append(wanted, c)
    /\ UNCHANGED <<server, local, job, changes, faults, outrun>>

----------------------------------------------------------------------------
(* The walk over the calendars                                              *)

\* syncAccount, by the timer, a request, or the end of another job
StartSync ==
    /\ job = Idle
    /\ job' = [phase |-> "discovering"]
    /\ UNCHANGED <<server, local, wanted, changes, commands, faults, outrun>>

\* discoverCollections: what is known of a collection is carried over into
\* the row it is saved as, but for the preferences other than "enabled".
Discovered(c) ==
    [rows[c] EXCEPT
        !.known = TRUE, !.muted = FALSE,
        !.ctag = IF offers[c] = "ctag" THEN Tag(c) ELSE NoTag,
        !.serverToken = IF offers[c] = "token" THEN Tag(c) ELSE NoTag]

DiscoverCollections ==
    /\ job.phase = "discovering"
    /\ rows' = [c \in Cals |-> IF c \in exists THEN Discovered(c) ELSE rows[c]]
    /\ job' = [phase |-> "next",
               left |-> [c \in {d \in Cals : rows'[d].known} |-> rows'[c]]]
    /\ UNCHANGED <<server, cache, covered, wanted, changes, commands, faults, outrun>>

Request(phase, left, c, row, full, replace, hydration) ==
    [phase |-> phase, left |-> left, cal |-> c, row |-> row, full |-> full,
     replace |-> replace, hydration |-> hydration, staged |-> {}, missing |-> {},
     removed |-> {}, token |-> NoTag]

\* Mutant of Unchanged: the tag of the discovery is compared with nothing.
UnchangedAlways(c, row) ==
    /\ "window" \in covered[c]
    /\ row.token = NoTag /\ row.synced /\ row.ctag # NoTag

Unchanged(c, row) ==
    /\ "window" \in covered[c]
    /\ row.token = NoTag /\ row.synced
    /\ row.ctag # NoTag /\ row.ctag = row.syncedCtag

\* syncNextCalendar, for a calendar that has to be asked about
RequestFor(c, row) ==
    IF "window" \in covered[c] /\ row.token = NoTag /\ row.synced /\ row.ctag = NoTag
    THEN "etags"
    ELSE IF "window" \in covered[c] /\ row.token # NoTag THEN "changes"
    ELSE "query"

SyncNextCalendar ==
    /\ job.phase = "next"
    /\ \E c \in DOMAIN job.left :
        /\ \A d \in DOMAIN job.left : c <= d
        /\ LET row == job.left[c]
               rest == Restrict(job.left, DOMAIN job.left \ {c})
               skip == [job EXCEPT !.left = rest]
               ask == RequestFor(c, row)
           IN  IF ~row.enabled THEN job' = skip /\ rows' = rows
               ELSE IF Unchanged(c, row)
               THEN job' = skip /\ rows' = [rows EXCEPT ![c] = row]
               ELSE /\ job' = Request(ask, rest, c, row, ask = "query", FALSE, FALSE)
                    /\ rows' = rows
    /\ UNCHANGED <<server, cache, covered, wanted, changes, commands, faults, outrun>>

\* Mutant of AllCalendarsDone: the ranges asked for are forgotten about.
AllCalendarsDoneEnds ==
    /\ job.phase = "next" /\ DOMAIN job.left = {}
    /\ job' = Idle
    /\ UNCHANGED <<server, local, wanted, changes, commands, faults, outrun>>

AllCalendarsDone ==
    /\ job.phase = "next" /\ DOMAIN job.left = {}
    /\ job' = [phase |-> "hydrating"]
    /\ UNCHANGED <<server, local, wanted, changes, commands, faults, outrun>>

----------------------------------------------------------------------------
(* Requests about one calendar                                              *)

Asked == IF job.hydration THEN "older" ELSE "window"

\* Mutant of Pruned: what the answer does not show stays.
PrunedNothing(shown) == {}

\* applyCalendarResources of a full answer: what the local copy has in the
\* range and the answer does not show is pruned.
Pruned(shown) ==
    {e \in Events : cache[job.cal][e].place = Asked /\ e \notin shown}

QueryAnswered ==
    /\ job.phase = "query" /\ job.cal \in exists
    /\ LET shown == {e \in Events : remote[job.cal][e].place = Asked}
       IN  job' = [job EXCEPT !.phase = "applying",
                     !.staged = {<<e, remote[job.cal][e]>> : e \in shown},
                     !.removed = Pruned(shown),
                     !.token = job.row.serverToken]
    /\ UNCHANGED <<server, local, wanted, changes, commands, faults, outrun>>

\* Resources named without their data are read in a second request.
Stage(S) == [job EXCEPT !.phase = IF S = {} THEN "applying" ELSE "multiget",
                        !.missing = S]

\* The changes since the token (sync-collection), with or without the data.
ChangesAnswered(lean) ==
    /\ job.phase = "changes" /\ job.cal \in exists
    /\ LET changed == {e \in Events : remote[job.cal][e].at > job.row.token}
           live == {e \in changed : remote[job.cal][e].place # Gone}
       IN  job' = [Stage(IF lean THEN live ELSE {}) EXCEPT
                     !.staged = IF lean THEN {}
                                ELSE {<<e, remote[job.cal][e]>> : e \in live},
                     !.removed = changed \ live, !.token = Tag(job.cal)]
    /\ UNCHANGED <<server, local, wanted, changes, commands, faults, outrun>>

\* The window is asked for instead, and replaces the recorded coverage.
QueryInstead(row) ==
    Request("query", job.left, job.cal, row, TRUE, TRUE, FALSE)

TokenRefused ==
    /\ job.phase = "changes" /\ Fault("expired")
    /\ job' = QueryInstead([job.row EXCEPT !.token = NoTag])
    /\ UNCHANGED <<server, local, wanted, changes, commands, outrun>>

\* syncCalendarWithEtags: the listing is compared with the local copy.
EtagsAnswered ==
    /\ job.phase = "etags" /\ job.cal \in exists
    /\ LET theirs == {e \in Events : remote[job.cal][e].place # Gone}
           mine == {e \in Events : cache[job.cal][e].place # Gone}
       IN  job' = [Stage({e \in theirs : e \notin mine
                              \/ cache[job.cal][e].at # remote[job.cal][e].at})
                   EXCEPT !.removed = mine \ theirs]
    /\ UNCHANGED <<server, local, wanted, changes, commands, faults, outrun>>

EtagsFail ==
    /\ job.phase = "etags"
    /\ IF job.cal \in exists THEN Fault("failure") ELSE faults' = faults
    /\ job' = QueryInstead(job.row)
    /\ UNCHANGED <<server, local, wanted, changes, commands, outrun>>

MultigetAnswered ==
    /\ job.phase = "multiget" /\ job.cal \in exists
    /\ \A e \in job.missing : remote[job.cal][e].place # Gone
    /\ job' = [job EXCEPT !.phase = "applying",
                 !.staged = {<<e, remote[job.cal][e]>> : e \in job.missing},
                 !.missing = {}]
    /\ UNCHANGED <<server, local, wanted, changes, commands, faults, outrun>>

\* Not all of them can be read, for instance because one is gone by now: the
\* answer to a token gives up, the comparison of ETags asks for the window.
MultigetIncomplete ==
    /\ job.phase = "multiget"
    /\ IF job.cal \in exists /\ \A e \in job.missing : remote[job.cal][e].place # Gone
       THEN Fault("failure") ELSE faults' = faults
    /\ job' = IF job.row.token # NoTag THEN Idle ELSE QueryInstead(job.row)
    /\ UNCHANGED <<server, local, wanted, changes, commands, outrun>>

\* finish with an error, of a request, of the parser or of the budget of the
\* job: the rest of the calendars waits for the next job.
RequestFails ==
    /\ job.phase \in {"discovering", "query", "changes", "etags", "multiget"}
    /\ Fault("failure")
    /\ job' = Idle
    /\ UNCHANGED <<server, local, wanted, changes, commands, outrun>>

\* The collection is not found.
CollectionGone ==
    /\ job.phase \in {"query", "changes"} /\ job.cal \notin exists
    /\ job' = Idle
    /\ UNCHANGED <<server, local, wanted, changes, commands, faults, outrun>>

----------------------------------------------------------------------------
(* Applying, and the ranges asked for                                       *)

ApplyResource(e, resource) ==
    /\ job.phase = "applying" /\ <<e, resource>> \in job.staged
    /\ cache' = [cache EXCEPT ![job.cal][e] = resource]
    /\ job' = [job EXCEPT !.staged = @ \ {<<e, resource>>}]
    /\ UNCHANGED <<server, rows, covered, wanted, changes, commands, faults, outrun>>

RemoveResource(e) ==
    /\ job.phase = "applying" /\ job.staged = {} /\ e \in job.removed
    /\ cache' = [cache EXCEPT ![job.cal][e].place = Gone]
    /\ job' = [job EXCEPT !.removed = @ \ {e}]
    /\ UNCHANGED <<server, rows, covered, wanted, changes, commands, faults, outrun>>

\* Mutant of Committed: the token stored is the next one.
CommittedNext(c) ==
    [rows[c] EXCEPT
        !.synced = TRUE,
        !.token = IF job.hydration \/ job.token = NoTag THEN job.row.token ELSE job.token + 1,
        !.syncedCtag = IF job.hydration \/ job.row.ctag = NoTag THEN job.row.syncedCtag
                       ELSE job.row.ctag]

\* Mutant of Committed: the job's copy replaces the row.
CommittedCopy(c) ==
    [job.row EXCEPT
        !.synced = TRUE,
        !.token = IF job.hydration \/ job.token = NoTag THEN job.row.token ELSE job.token,
        !.syncedCtag = IF job.hydration \/ job.row.ctag = NoTag THEN job.row.syncedCtag
                       ELSE job.row.ctag]

\* What the last transaction stores of the job's copy of the calendar, merged
\* into the row as it is by then (ChunkedSyncApply::step).
Committed(c) ==
    [rows[c] EXCEPT
        !.synced = TRUE,
        !.token = IF job.hydration \/ job.token = NoTag THEN job.row.token ELSE job.token,
        !.syncedCtag = IF job.hydration \/ job.row.ctag = NoTag THEN job.row.syncedCtag
                       ELSE job.row.ctag]

ApplyFinal ==
    /\ job.phase = "applying" /\ job.staged = {} /\ job.removed = {}
    /\ rows' = [rows EXCEPT ![job.cal] = Committed(job.cal)]
    /\ covered' = [covered EXCEPT ![job.cal] =
                     IF ~job.full THEN @
                     ELSE IF job.replace THEN {Asked} ELSE @ \cup {Asked}]
    /\ outrun' = IF ~job.full \/ job.hydration THEN outrun
                 ELSE IF "older" \in covered'[job.cal] THEN outrun \cup {job.cal}
                 ELSE outrun \ {job.cal}
    /\ wanted' = IF job.hydration /\ wanted # <<>> /\ Head(wanted) = job.cal
                 THEN Tail(wanted) ELSE wanted
    /\ job' = IF job.hydration THEN [phase |-> "hydrating"]
              ELSE [phase |-> "next", left |-> job.left]
    /\ UNCHANGED <<server, cache, changes, commands, faults>>

\* syncNextHydration
SyncNextHydration ==
    /\ job.phase = "hydrating" /\ wanted # <<>>
    /\ LET c == Head(wanted)
       IN  IF "older" \in covered[c] \/ ~rows[c].enabled
           THEN wanted' = Tail(wanted) /\ job' = job
           ELSE /\ job' = Request("query", NoneLeft, c, rows[c], TRUE, FALSE, TRUE)
                /\ wanted' = wanted
    /\ UNCHANGED <<server, local, changes, commands, faults, outrun>>

\* The outbox is drained (CalDavDrain), and the job is over.
Finish ==
    /\ job.phase = "hydrating" /\ wanted = <<>>
    /\ job' = Idle
    /\ UNCHANGED <<server, local, wanted, changes, commands, faults, outrun>>

Crash ==
    /\ Fault("crash") /\ job # Idle
    /\ job' = Idle /\ wanted' = <<>>
    /\ UNCHANGED <<server, local, changes, commands, outrun>>

----------------------------------------------------------------------------
Answer ==
    \/ DiscoverCollections \/ QueryAnswered \/ EtagsAnswered \/ MultigetAnswered
    \/ \E lean \in BOOLEAN : ChangesAnswered(lean)
    \/ EtagsFail \/ MultigetIncomplete \/ CollectionGone

Continue ==
    \/ SyncNextCalendar \/ AllCalendarsDone \/ ApplyFinal
    \/ \E e \in Events, resource \in Resources : ApplyResource(e, resource)
    \/ \E e \in Events : RemoveResource(e)
    \/ SyncNextHydration \/ Finish

User ==
    \E c \in Cals : SyncRange(c) \/ \E enabled, muted \in BOOLEAN : SetPreferences(c, enabled, muted)

Next ==
    \/ \E c \in Cals, e \in Events, place \in Ranges \cup {Gone} : ForeignChange(c, e, place)
    \/ \E c \in Cals : DeleteCollection(c)
    \/ NewYear \/ User \/ StartSync \/ Answer \/ Continue
    \/ TokenRefused \/ RequestFails \/ Crash

Spec == Init /\ [][Next]_vars

\* The timer starts jobs, requests are answered one way or the other, and the
\* job continues from the event loop.
FairSpec == Spec /\ WF_vars(StartSync) /\ WF_vars(Answer) /\ WF_vars(Continue)

----------------------------------------------------------------------------
(* Properties                                                               *)

\* What the record of the calendar claims to stand for: every change up to
\* the token it would ask with, or up to the tag it would be skipped for.
ClaimedUpTo(c) == IF rows[c].token # NoTag THEN rows[c].token ELSE rows[c].syncedCtag

\* The ranges the claim is about. A collection with a tag only is asked for
\* the window when the tag changes, whatever else had been hydrated; so is one
\* whose window is not covered, and its token passes over the rest: see
\* CoveredClaimIsTrue.
ClaimedRanges(c) ==
    covered[c] \cap IF rows[c].token # NoTag /\ c \notin outrun THEN Ranges ELSE {"window"}

Same(mine, theirs) == mine.place = theirs.place /\ (mine.place = Gone \/ mine.at = theirs.at)

\* A change the record claims to include is in the local copy, if it concerns
\* a covered range: tags taken at discovery and contents read later, answers
\* without data, refused tokens, hydrations, failures and crashes between two
\* transactions never make it skip one (syncNextCalendar,
\* applyCalendarResources, ChunkedSyncApply::step).
ClaimIsTrue ==
    \A c \in Cals, e \in Events :
        /\ remote[c][e].at <= ClaimedUpTo(c)
        /\ {remote[c][e].place, cache[c][e].place} \cap ClaimedRanges(c) # {}
        => Same(cache[c][e], remote[c][e])

\* The same for every covered range. Violated: when the year has changed, or a
\* range was hydrated before the window was first read, the window is listed alone
\* and the token of the discovery is stored with it; what changed meanwhile
\* in the range hydrated before is never asked for (syncNextCalendar).
CoveredClaimIsTrue ==
    \A c \in Cals, e \in Events :
        /\ remote[c][e].at <= rows[c].token
        /\ {remote[c][e].place, cache[c][e].place} \cap covered[c] # {}
        => Same(cache[c][e], remote[c][e])

\* What a user sees in the end of the calendars that are enabled: the server's
\* contents, in the window (syncNextCalendar).
Fresh(c) ==
    rows[c].known /\ (rows[c].enabled =>
        \A e \in Events : "window" \in {remote[c][e].place, cache[c][e].place}
                            => Same(cache[c][e], remote[c][e]))

\* As long as no collection is deleted, every calendar becomes and stays what
\* the server has, whichever of the three methods the server allows.
PullConverges == \A c \in Cals : <>[](exists = Cals => Fresh(c))

\* The same for the calendars that are left when one is deleted at the
\* server. Violated: its row stays, every request about it fails, and with it
\* the job, before the calendars behind it (finish; discoverCollections never
\* removes a row).
OthersConverge == \A c \in Cals : <>[](c \in exists => Fresh(c))

\* A range asked for is dealt with, or the calendar is disabled, or the
\* request forgotten in a restart (syncNextHydration, finish).
HydrationCompletes ==
    \A c \in Cals : Contains(wanted, c) ~> (~Contains(wanted, c) \/ exists # Cals)

Preferences == [c \in Cals |-> <<rows[c].enabled, rows[c].muted>>]
UserSets == \E c \in Cals, enabled, muted \in BOOLEAN : SetPreferences(c, enabled, muted)

\* A preference set while an answer is awaited or applied is kept by the
\* transaction that ends it (docs/ARCHITECTURE.md, "Calendar preference
\* changes made during apply are preserved"; ChunkedSyncApply::step).
PreferencesSurviveApply ==
    [][job.phase = "applying" /\ Preferences' # Preferences => UserSets]_vars

\* Only the user changes a preference. Violated: the next discovery saves the
\* calendar as not muted.
PreferencesKept == [][Preferences' # Preferences => UserSets]_vars
==============================================================================
