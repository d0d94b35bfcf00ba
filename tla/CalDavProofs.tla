---------------------------- MODULE CalDavProofs ----------------------------
(***************************************************************************)
(* Proofs about the pull of a CalDAV account (CalDavPull), for every       *)
(* number of calendars, resources, changes, commands and faults, and about *)
(* its password (CalDavAccount), for every number of passwords and faults. *)
(* The two have no state in common; theirs is one object in the program,   *)
(* CalDavSyncService.                                                      *)
(*                                                                         *)
(*   PullInv is inductive. Beside the types and ClaimIsTrue it says that   *)
(*   the rows a job works with claim what the table claims, that no tag is *)
(*   ahead of the server, and what the answers that are not applied yet    *)
(*   stand for: what is staged is what the server has or is followed by a  *)
(*   change beyond the claim to be made (StagedOK), what is to be removed  *)
(*   is in nothing that is claimed (RemovedOK), and all that will be       *)
(*   claimed is in the local copy or is staged, missing or to be removed   *)
(*   (ProgressOK).                                                         *)
(*                                                                         *)
(*   AccountInv is inductive: the types, what a helper at the keyring may  *)
(*   assume of the account it was started for, and that no job is under    *)
(*   way beside it.  That there is one helper, and that whoever starts one *)
(*   forgets the loaded password or has none, is what keeps the password   *)
(*   in use and the one in the keyring together.                           *)
(***************************************************************************)
EXTENDS CalDavPull, CalDavAccount, WellFoundedInduction, TLAPS

-----------------------------------------------------------------------------
(* What holds of the pull in every state.                                  *)

\* A request about one calendar is under way, or its answer is being applied.
Requesting == job.phase \in {"query", "changes", "etags", "multiget", "applying"}

\* Versions are numbered in order, the local copy is not ahead, and a version it
\* shares with the server says the same.
CacheOK ==
    \A c \in Cals, e \in Events :
        /\ remote[c][e].at <= changes /\ cache[c][e].at <= remote[c][e].at
        /\ cache[c][e].at = remote[c][e].at =>
                cache[c][e].place = Gone \/ cache[c][e] = remote[c][e]

\* No tag or token of row is ahead of the server.
TagsOK(row) ==
    /\ row.ctag <= changes /\ row.serverToken <= changes
    /\ row.token <= changes /\ row.syncedCtag <= changes

\* Two copies of a row claim the same.
SameClaim(row, copy) == copy.token = row.token /\ copy.syncedCtag = row.syncedCtag

\* The rows the job took claim what the table claims.
ListOK ==
    job.phase = "next" \/ Requesting =>
        \A c \in DOMAIN job.left : TagsOK(job.left[c]) /\ SameClaim(rows[c], job.left[c])

\* So does the one of the request, unless its token was refused.
RowOK ==
    Requesting =>
        /\ job.cal \notin DOMAIN job.left
        /\ TagsOK(job.row) /\ job.token <= changes
        /\ job.row.syncedCtag = rows[job.cal].syncedCtag
        /\ \/ job.row.token = rows[job.cal].token
           \/ job.full /\ ~job.hydration

\* What a phase says of the flags and of the fields that are filled later.
FlagsOK ==
    Requesting =>
        /\ job.phase = "query" => job.full
        /\ job.phase \in {"changes", "etags", "multiget"} => ~job.full
        /\ job.phase = "changes" => job.row.token # NoTag
        /\ job.phase = "etags" => job.row.token = NoTag
        /\ ~job.full => ~job.replace /\ ~job.hydration
        /\ job.hydration => ~job.replace
        /\ ~job.full /\ job.row.token = NoTag => job.token = NoTag
        /\ job.phase # "applying" => job.staged = {}
        /\ job.phase # "multiget" => job.missing = {}
        /\ job.phase \in {"query", "changes", "etags"} => job.removed = {} /\ job.token = NoTag

\* What the record will claim when the answer is applied, and of which ranges.
NewToken == IF job.hydration \/ job.token = NoTag THEN job.row.token ELSE job.token
NewCtag ==
    IF job.hydration \/ job.row.ctag = NoTag THEN job.row.syncedCtag ELSE job.row.ctag
NewClaim == IF NewToken # NoTag THEN NewToken ELSE NewCtag

Promised ==
    IF ~job.full THEN ClaimedRanges(job.cal)
    ELSE IF job.hydration THEN ClaimedRanges(job.cal) \cup {"older"} ELSE {"window"}

\* What is staged was the server's, and is unless it has changed since.
StagedOK ==
    Requesting =>
        \A s \in job.staged :
            LET theirs == remote[job.cal][s[1]]
            IN  /\ s[2].place # Gone
                /\ \/ s[2] = theirs
                   \/ /\ s[2].at < theirs.at
                      /\ ClaimedUpTo(job.cal) < theirs.at /\ NewClaim < theirs.at

\* What is to be removed is not at the server, in the ranges the claim is about.
RemovedOK ==
    Requesting =>
        /\ \A s \in job.staged : s[1] \notin job.removed
        /\ job.missing \cap job.removed = {}
        /\ \A e \in job.removed :
            LET theirs == remote[job.cal][e]
            IN  /\ theirs.at <= ClaimedUpTo(job.cal) => theirs.place \notin ClaimedRanges(job.cal)
                /\ theirs.at <= NewClaim => theirs.place \notin Promised

\* What will be claimed is in the local copy, or will be.
ProgressOK ==
    Requesting /\ job.phase \in {"multiget", "applying"} =>
        \A e \in Events :
            LET theirs == remote[job.cal][e]
                mine == cache[job.cal][e]
            IN  theirs.at <= NewClaim /\ {theirs.place, mine.place} \cap Promised # {} =>
                    \/ Same(mine, theirs) \/ <<e, theirs>> \in job.staged
                    \/ e \in job.missing \/ e \in job.removed

\* What the tables say is so.
TablesOK ==
    /\ CacheOK /\ ClaimIsTrue
    /\ \A c \in Cals : TagsOK(rows[c])

\* What the job knows is so, and what it has read will do.
JobOK == ListOK /\ RowOK /\ FlagsOK /\ StagedOK /\ RemovedOK /\ ProgressOK

\* The inductive invariant of the pull.
PullInv == TypeOK /\ TablesOK /\ JobOK

-----------------------------------------------------------------------------
(* Types.                                                                  *)

\* The phases of a request about one calendar, and such jobs.
RequestPhases == {"query", "changes", "etags", "multiget", "applying"}
Requests(S) ==
    [phase : RequestPhases,
     left : [S -> CalendarRows], cal : Cals, row : CalendarRows,
     full : BOOLEAN, replace : BOOLEAN, hydration : BOOLEAN,
     staged : SUBSET (Events \X Resources), missing : SUBSET Events,
     removed : SUBSET Events, token : Tags]

\* A job is as its phase says.
LEMMA JobShape ==
    ASSUME TypeOK
    PROVE  /\ job.phase \in {"idle", "discovering", "hydrating", "next"} \cup RequestPhases
           /\ job.phase = "idle" => job = Idle
           /\ job.phase = "next" => \E S \in SUBSET Cals :
                job \in [phase : {"next"}, left : [S -> CalendarRows]]
           /\ Requesting => \E S \in SUBSET Cals : job \in Requests(S)
<1>1. PICK S \in SUBSET Cals : job \in Jobs(S)
  BY DEF TypeOK
<1>2. CASE job \in [phase : {"idle", "discovering"}]
  BY <1>2 DEF Idle, Requesting
<1>3. CASE job \in [phase : {"next"}, left : [S -> CalendarRows]]
  BY <1>3 DEF Requesting
<1>4. CASE job \in [phase : {"hydrating"}]
  BY <1>4 DEF Requesting
<1>5. CASE job \in Requests(S)
  BY <1>5 DEF Requests, Requesting, RequestPhases
<1> QED
  BY <1>1, <1>2, <1>3, <1>4, <1>5 DEF Jobs, Requests, RequestPhases

\* The fields of a request.
LEMMA RequestFields ==
    ASSUME TypeOK, Requesting
    PROVE  /\ job.phase \in RequestPhases /\ job.cal \in Cals /\ job.row \in CalendarRows
           /\ job.full \in BOOLEAN /\ job.replace \in BOOLEAN /\ job.hydration \in BOOLEAN
           /\ job.staged \subseteq Events \X Resources /\ job.missing \subseteq Events
           /\ job.removed \subseteq Events /\ job.token \in Tags
           /\ DOMAIN job.left \subseteq Cals
           /\ job.left \in [DOMAIN job.left -> CalendarRows]
<1>1. PICK S \in SUBSET Cals : job \in Requests(S)
  BY JobShape
<1> QED
  BY <1>1 DEF Requests

\* A request with such fields is a job.
LEMMA RequestTyped ==
    ASSUME NEW S \in SUBSET Cals, NEW j \in Requests(S)
    PROVE  \E T \in SUBSET Cals : j \in Jobs(T)
  BY DEF Requests, Jobs, RequestPhases

\* A new request is one.
LEMMA NewRequestTyped ==
    ASSUME NEW phase \in RequestPhases, NEW S \in SUBSET Cals, NEW left \in [S -> CalendarRows],
           NEW c \in Cals, NEW row \in CalendarRows, NEW full \in BOOLEAN,
           NEW replace \in BOOLEAN, NEW hydration \in BOOLEAN
    PROVE  Request(phase, left, c, row, full, replace, hydration) \in Requests(S)
<1>1. NoTag \in Tags
  BY PullAssumption DEF NoTag, Tags
<1> QED
  BY <1>1 DEF Request, Requests

\* The tag of a collection is the version of a resource of it.
LEMMA TagTyped ==
    ASSUME TypeOK, NEW c \in Cals
    PROVE  \E e \in Events : Tag(c) = remote[c][e].at
<1> DEFINE S == {remote[c][e].at : e \in Events}
           D == {n \in Nat : MaxChanges - n \in S}
<1>1. \A x \in S : x \in Nat /\ x <= MaxChanges
  BY PullAssumption DEF TypeOK, Resources
<1>2. PICK x \in S : TRUE
  BY PullAssumption
<1>9. ASSUME NEW y \in S PROVE MaxChanges - y \in D
  <2>1. y \in Nat /\ y <= MaxChanges /\ MaxChanges \in Nat
    BY <1>1, PullAssumption
  <2> HIDE DEF S
  <2>2. MaxChanges - y \in Nat /\ MaxChanges - (MaxChanges - y) = y
    BY <2>1
  <2> QED
    BY <2>2
<1>3. MaxChanges - x \in D
  BY <1>2, <1>9
<1>4. PICK m \in D : \A n \in D : ~ (<<n, m>> \in OpToRel(<, Nat))
  BY <1>3, NatLessThanWellFounded, WFMin
<1>5. \A n \in D : ~ (n < m)
  BY <1>4 DEF OpToRel
<1>6. MaxChanges - m \in S /\ m \in Nat
  BY <1>4
<1>7. \A y \in S : MaxChanges - m >= y
  <2> SUFFICES ASSUME NEW y \in S PROVE MaxChanges - m >= y
    OBVIOUS
  <2>1. MaxChanges - y \in D
    BY <1>9
  <2> QED
    BY <1>1, <1>5, <1>6, <2>1, PullAssumption
<1>8. Max(S) \in S
  BY <1>6, <1>7 DEF Max
<1> QED
  BY <1>8 DEF Tag

\* A range asked for is added once, and the first one taken.
LEMMA WantedTyped ==
    ASSUME NEW w \in Seq(Cals), IsInjective(w)
    PROVE  /\ \A c \in Cals : ~Contains(w, c) =>
                Append(w, c) \in Seq(Cals) /\ IsInjective(Append(w, c))
           /\ w # <<>> => Head(w) \in Cals /\ Tail(w) \in Seq(Cals) /\ IsInjective(Tail(w))
<1>1. ASSUME NEW c \in Cals, ~Contains(w, c)
      PROVE  Append(w, c) \in Seq(Cals) /\ IsInjective(Append(w, c))
  <2>1. /\ Append(w, c) \in Seq(Cals) /\ Len(w) \in Nat
        /\ DOMAIN Append(w, c) = 1 .. (Len(w) + 1) /\ DOMAIN w = 1 .. Len(w)
        /\ \A i \in 1 .. Len(w) : Append(w, c)[i] = w[i] /\ w[i] # c
        /\ Append(w, c)[Len(w) + 1] = c
    BY <1>1 DEF Contains
  <2> SUFFICES ASSUME NEW i \in 1 .. (Len(w) + 1), NEW k \in 1 .. (Len(w) + 1),
                      Append(w, c)[i] = Append(w, c)[k]
               PROVE  i = k
    BY <2>1 DEF IsInjective
  <2>2. /\ i \in 1 .. Len(w) \/ i = Len(w) + 1
        /\ k \in 1 .. Len(w) \/ k = Len(w) + 1
    BY <2>1
  <2> QED
    BY <2>1, <2>2 DEF IsInjective
<1>2. ASSUME w # <<>>
      PROVE  Head(w) \in Cals /\ Tail(w) \in Seq(Cals) /\ IsInjective(Tail(w))
  <2>1. /\ Head(w) \in Cals /\ Tail(w) \in Seq(Cals) /\ Len(w) \in Nat
        /\ DOMAIN Tail(w) = 1 .. (Len(w) - 1) /\ DOMAIN w = 1 .. Len(w)
        /\ \A i \in 1 .. (Len(w) - 1) : Tail(w)[i] = w[i + 1]
    BY <1>2
  <2> SUFFICES ASSUME NEW i \in 1 .. (Len(w) - 1), NEW k \in 1 .. (Len(w) - 1),
                      Tail(w)[i] = Tail(w)[k]
               PROVE  i = k
    BY <2>1 DEF IsInjective
  <2>2. i + 1 \in 1 .. Len(w) /\ k + 1 \in 1 .. Len(w) /\ w[i + 1] = w[k + 1]
    BY <2>1
  <2>3. i + 1 = k + 1
    BY <2>1, <2>2 DEF IsInjective
  <2> QED
    BY <2>3
<1> QED
  BY <1>1, <1>2

\* A job after which no request is under way, and no list.
LEMMA RestingTyped ==
    /\ \E S \in SUBSET Cals : Idle \in Jobs(S)
    /\ \E S \in SUBSET Cals : [phase |-> "hydrating"] \in Jobs(S)
    /\ \E S \in SUBSET Cals : [phase |-> "discovering"] \in Jobs(S)
    /\ NoneLeft \in [{} -> CalendarRows]
  BY DEF Idle, Jobs, NoneLeft

\* The actions of the user, of the others and of the clock.
LEMMA UserTypes ==
    ASSUME TypeOK,
           \/ \E c \in Cals, e \in Events, place \in Ranges \cup {Gone} : ForeignChange(c, e, place)
           \/ \E c \in Cals : DeleteCollection(c)
           \/ NewYear \/ User
    PROVE  TypeOK'
<1>1. ASSUME NEW c \in Cals, NEW e \in Events, NEW place \in Ranges \cup {Gone},
             ForeignChange(c, e, place)
      PROVE  TypeOK'
  <2>1. [place |-> place, at |-> changes + 1] \in Resources /\ changes + 1 \in 0 .. MaxChanges
    BY <1>1, PullAssumption DEF ForeignChange, TypeOK, Resources
  <2>2. remote' \in [Cals -> [Events -> Resources]]
    BY <1>1, <2>1 DEF ForeignChange, TypeOK
  <2> QED
    BY <1>1, <2>1, <2>2 DEF ForeignChange, TypeOK, local
<1>2. ASSUME NEW c \in Cals, DeleteCollection(c) PROVE TypeOK'
  BY <1>2, PullAssumption DEF DeleteCollection, Fault, TypeOK, local
<1>3. ASSUME NewYear PROVE TypeOK'
  BY <1>3, PullAssumption DEF NewYear, Fault, TypeOK, server
<1>4. ASSUME NEW c \in Cals, NEW enabled \in BOOLEAN, NEW muted \in BOOLEAN,
             SetPreferences(c, enabled, muted)
      PROVE  TypeOK'
  <2>1. rows' \in [Cals -> CalendarRows]
    BY <1>4 DEF SetPreferences, TypeOK, CalendarRows
  <2> QED
    BY <1>4, <2>1, PullAssumption DEF SetPreferences, TypeOK, server
<1>5. ASSUME NEW c \in Cals, SyncRange(c) PROVE TypeOK'
  <2>1. wanted' \in Seq(Cals) /\ IsInjective(wanted')
    BY <1>5, WantedTyped DEF SyncRange, TypeOK
  <2> QED
    BY <1>5, <2>1, PullAssumption DEF SyncRange, TypeOK, server, local
<1> QED
  BY <1>1, <1>2, <1>3, <1>4, <1>5 DEF User

\* The steps that only change the job, the faults and what is wanted.
LEMMA JobTypes ==
    ASSUME TypeOK, UNCHANGED <<server, local, changes, commands, outrun>>,
           wanted' = wanted \/ wanted' = <<>> \/ (wanted # <<>> /\ wanted' = Tail(wanted)),
           faults' = faults \/ \E kind \in Faults : Fault(kind),
           \E S \in SUBSET Cals : job' \in Jobs(S)
    PROVE  TypeOK'
<1>0. <<>> \in Seq(Cals) /\ IsInjective(<<>>)
  <2>1. <<>> \in Seq(Cals) /\ Len(<<>>) = 0 /\ DOMAIN <<>> = 1 .. Len(<<>>)
    OBVIOUS
  <2> QED
    BY <2>1 DEF IsInjective
<1>1. wanted' \in Seq(Cals) /\ IsInjective(wanted')
  BY <1>0, WantedTyped DEF TypeOK
<1>2. faults' \in 0 .. MaxFaults
  BY PullAssumption DEF TypeOK, Fault
<1> QED
  BY <1>1, <1>2 DEF TypeOK, server, local

\* The walk over the calendars.
LEMMA WalkTypes ==
    ASSUME TypeOK,
           \/ StartSync \/ DiscoverCollections \/ SyncNextCalendar \/ AllCalendarsDone
           \/ SyncNextHydration \/ Finish \/ Crash
    PROVE  TypeOK'
<1>1. CASE StartSync \/ AllCalendarsDone \/ Finish \/ Crash
  BY <1>1, JobTypes, RestingTyped DEF StartSync, AllCalendarsDone, Finish, Crash, Fault, Idle
<1>2. CASE DiscoverCollections
  <2>1. \A c \in Cals : Tag(c) \in Tags /\ NoTag \in Tags
    BY TagTyped, PullAssumption DEF TypeOK, Resources, Tags, NoTag
  <2>2. \A c \in Cals : Discovered(c) \in CalendarRows
    BY <2>1 DEF Discovered, TypeOK, CalendarRows
  <2>3. rows' \in [Cals -> CalendarRows]
    BY <1>2, <2>2 DEF DiscoverCollections, TypeOK
  <2>4. PICK S \in SUBSET Cals : job' = [phase |-> "next", left |-> [c \in S |-> rows'[c]]]
    BY <1>2 DEF DiscoverCollections
  <2>5. job' \in Jobs(S)
    BY <2>3, <2>4 DEF Jobs
  <2> QED
    BY <1>2, <2>3, <2>5 DEF DiscoverCollections, TypeOK, server
<1>3. CASE SyncNextCalendar
  <2>1. PICK S \in SUBSET Cals : job \in [phase : {"next"}, left : [S -> CalendarRows]]
    BY <1>3, JobShape DEF SyncNextCalendar
  <2>2. PICK c \in DOMAIN job.left :
            LET row == job.left[c]
                rest == Restrict(job.left, DOMAIN job.left \ {c})
                skip == [job EXCEPT !.left = rest]
                ask == RequestFor(c, row)
            IN  \/ job' = skip /\ rows' \in {rows, [rows EXCEPT ![c] = row]}
                \/ /\ job' = Request(ask, rest, c, row, ask = "query", FALSE, FALSE)
                   /\ rows' = rows
    BY <1>3 DEF SyncNextCalendar
  <2>3. /\ c \in S /\ DOMAIN job.left = S /\ job.left[c] \in CalendarRows
        /\ Restrict(job.left, S \ {c}) \in [S \ {c} -> CalendarRows]
    BY <2>1 DEF Restrict
  <2>4. rows' \in [Cals -> CalendarRows]
    BY <2>2, <2>3 DEF TypeOK
  <2>5. RequestFor(c, job.left[c]) \in RequestPhases
    BY DEF RequestFor, RequestPhases
  <2>6. \E T \in SUBSET Cals : job' \in Jobs(T)
    <3>1. CASE job' = [job EXCEPT !.left = Restrict(job.left, S \ {c})]
      <4>1. job' \in Jobs(S \ {c})
        BY <2>1, <2>3, <3>1 DEF Jobs
      <4> QED
        BY <4>1
    <3>2. CASE job' = Request(RequestFor(c, job.left[c]), Restrict(job.left, S \ {c}), c,
                              job.left[c], RequestFor(c, job.left[c]) = "query", FALSE, FALSE)
      <4>1. job' \in Requests(S \ {c})
        BY <2>3, <2>5, <3>2, NewRequestTyped
      <4> QED
        BY <4>1, RequestTyped
    <3> QED
      BY <2>2, <2>3, <3>1, <3>2
  <2> QED
    BY <1>3, <2>4, <2>6 DEF SyncNextCalendar, TypeOK, server
<1>4. CASE SyncNextHydration
  <2>1. Head(wanted) \in Cals
    BY <1>4, WantedTyped DEF SyncNextHydration, TypeOK
  <2>2. rows[Head(wanted)] \in CalendarRows
    BY <2>1 DEF TypeOK
  <2>3. Request("query", NoneLeft, Head(wanted), rows[Head(wanted)], TRUE, FALSE, TRUE)
            \in Requests({})
    BY <2>1, <2>2, RestingTyped, NewRequestTyped DEF RequestPhases
  <2>4. \E S \in SUBSET Cals : job' \in Jobs(S)
    <3>1. CASE job' = job
      BY <3>1 DEF TypeOK
    <3> QED
      BY <1>4, <2>3, <3>1, RequestTyped DEF SyncNextHydration
  <2> QED
    BY <1>4, <2>4, JobTypes DEF SyncNextHydration
<1> QED
  BY <1>1, <1>2, <1>3, <1>4

\* The requests, and what fails.
LEMMA RequestTypes ==
    ASSUME TypeOK,
           \/ QueryAnswered \/ EtagsAnswered \/ MultigetAnswered
           \/ \E lean \in BOOLEAN : ChangesAnswered(lean)
           \/ EtagsFail \/ MultigetIncomplete \/ CollectionGone
           \/ TokenRefused \/ RequestFails
    PROVE  TypeOK'
<1>1. UNCHANGED <<server, local, wanted, changes, commands, outrun>>
  BY DEF QueryAnswered, EtagsAnswered, MultigetAnswered, ChangesAnswered, EtagsFail,
         MultigetIncomplete, CollectionGone, TokenRefused, RequestFails
<1>2. faults' = faults \/ \E kind \in Faults : Fault(kind)
  BY DEF QueryAnswered, EtagsAnswered, MultigetAnswered, ChangesAnswered, EtagsFail,
         MultigetIncomplete, CollectionGone, TokenRefused, RequestFails, Fault
<1>3. CASE job' = Idle
  BY <1>1, <1>2, <1>3, RestingTyped, JobTypes
<1>4. CASE job' # Idle
  <2>1. Requesting
    BY <1>4 DEF QueryAnswered, EtagsAnswered, MultigetAnswered, ChangesAnswered, EtagsFail,
                MultigetIncomplete, CollectionGone, TokenRefused, RequestFails, Requesting
  <2>2. PICK S \in SUBSET Cals : job \in Requests(S)
    BY <2>1, JobShape
  <2>3. job.cal \in Cals /\ job.left \in [S -> CalendarRows] /\ job.row \in CalendarRows
        /\ job.row.serverToken \in Tags
    BY <2>2 DEF Requests, CalendarRows
  <2>4. NoTag \in Tags /\ Tag(job.cal) \in Tags
    BY <2>3, TagTyped, PullAssumption DEF TypeOK, Resources, Tags, NoTag
  <2>5. \A e \in Events : remote[job.cal][e] \in Resources
    BY <2>3 DEF TypeOK
  <2>6. CASE QueryAnswered
    <3>1. {<<e, remote[job.cal][e]>> : e \in {f \in Events : remote[job.cal][f].place = Asked}}
            \subseteq Events \X Resources
      BY <2>5
    <3>2. \A shown : Pruned(shown) \subseteq Events
      BY DEF Pruned
    <3>3. job' \in Requests(S)
      BY <2>2, <2>3, <2>6, <3>1, <3>2 DEF QueryAnswered, Requests, RequestPhases
    <3> QED
      BY <1>1, <1>2, <3>3, RequestTyped, JobTypes
  <2>7. ASSUME NEW T \in SUBSET Events PROVE Stage(T) \in Requests(S)
    BY <2>2 DEF Stage, Requests, RequestPhases
  <2>8. ASSUME NEW lean \in BOOLEAN, ChangesAnswered(lean) PROVE TypeOK'
    <3> DEFINE changed == {e \in Events : remote[job.cal][e].at > job.row.token}
               live == {e \in changed : remote[job.cal][e].place # Gone}
               bodies == IF lean THEN {} ELSE {<<e, remote[job.cal][e]>> : e \in live}
    <3>1. /\ (IF lean THEN live ELSE {}) \in SUBSET Events
          /\ bodies \subseteq Events \X Resources /\ changed \ live \subseteq Events
      BY <2>5
    <3>2. PICK T \in SUBSET Events, B \in SUBSET (Events \X Resources), U \in SUBSET Events :
            job' = [Stage(T) EXCEPT !.staged = B, !.removed = U, !.token = Tag(job.cal)]
      BY <2>8, <3>1 DEF ChangesAnswered
    <3>3. \A j \in Requests(S) :
            [j EXCEPT !.staged = B, !.removed = U, !.token = Tag(job.cal)] \in Requests(S)
      BY <2>4 DEF Requests
    <3>4. job' \in Requests(S)
      BY <2>7, <3>2, <3>3
    <3> QED
      BY <1>1, <1>2, <3>4, RequestTyped, JobTypes
  <2>9. CASE EtagsAnswered
    <3>1. PICK T \in SUBSET Events, U \in SUBSET Events :
            job' = [Stage(T) EXCEPT !.removed = U]
      BY <2>9 DEF EtagsAnswered
    <3>2. job' \in Requests(S)
      BY <2>7, <3>1 DEF Requests
    <3> QED
      BY <1>1, <1>2, <3>2, RequestTyped, JobTypes
  <2>10. CASE MultigetAnswered
    <3>1. {<<e, remote[job.cal][e]>> : e \in job.missing} \subseteq Events \X Resources
      BY <2>2, <2>5 DEF Requests
    <3>2. job' \in Requests(S)
      BY <2>2, <2>10, <3>1 DEF MultigetAnswered, Requests, RequestPhases
    <3> QED
      BY <1>1, <1>2, <3>2, RequestTyped, JobTypes
  <2>11. CASE EtagsFail \/ MultigetIncomplete \/ TokenRefused
    <3>1. [job.row EXCEPT !.token = NoTag] \in CalendarRows
      BY <2>3, <2>4 DEF CalendarRows
    <3>2. PICK row \in CalendarRows : job' = QueryInstead(row)
      BY <1>4, <2>3, <2>11, <3>1 DEF EtagsFail, MultigetIncomplete, TokenRefused
    <3>3. job' \in Requests(S)
      BY <2>3, <3>2, NewRequestTyped DEF QueryInstead, RequestPhases
    <3> QED
      BY <1>1, <1>2, <3>3, RequestTyped, JobTypes
  <2> QED
    BY <1>4, <2>6, <2>8, <2>9, <2>10, <2>11 DEF CollectionGone, RequestFails
<1> QED
  BY <1>3, <1>4

\* The application of an answer.
LEMMA ApplyTypes ==
    ASSUME TypeOK,
           \/ \E e \in Events, resource \in Resources : ApplyResource(e, resource)
           \/ \E e \in Events : RemoveResource(e)
           \/ ApplyFinal
    PROVE  TypeOK'
<1>1. Requesting /\ job.phase = "applying"
  BY DEF ApplyResource, RemoveResource, ApplyFinal, Requesting
<1>2. PICK S \in SUBSET Cals : job \in Requests(S)
  BY <1>1, JobShape
<1>3. job.cal \in Cals /\ job.left \in [S -> CalendarRows] /\ job.row \in CalendarRows
      /\ job.token \in Tags
  BY <1>2 DEF Requests
<1>4. ASSUME NEW e \in Events, NEW resource \in Resources, ApplyResource(e, resource)
      PROVE  TypeOK'
  <2>1. cache' \in [Cals -> [Events -> Resources]]
    BY <1>3, <1>4 DEF ApplyResource, TypeOK
  <2>2. job' \in Requests(S)
    BY <1>2, <1>4 DEF ApplyResource, Requests
  <2> QED
    BY <1>4, <2>1, <2>2, RequestTyped DEF ApplyResource, TypeOK, server
<1>5. ASSUME NEW e \in Events, RemoveResource(e) PROVE TypeOK'
  <2>0. \A r \in Resources : [r EXCEPT !.place = Gone] \in Resources
    BY DEF Resources
  <2>3. [cache[job.cal][e] EXCEPT !.place = Gone] \in Resources
    BY <1>3, <2>0 DEF TypeOK
  <2>1. cache' \in [Cals -> [Events -> Resources]]
    BY <1>3, <1>5, <2>3 DEF RemoveResource, TypeOK
  <2>2. job' \in Requests(S)
    BY <1>2, <1>5 DEF RemoveResource, Requests
  <2> QED
    BY <1>5, <2>1, <2>2, RequestTyped DEF RemoveResource, TypeOK, server
<1>6. CASE ApplyFinal
  <2>1. Committed(job.cal) \in CalendarRows
    BY <1>3 DEF Committed, TypeOK, CalendarRows
  <2>2. rows' \in [Cals -> CalendarRows]
    BY <1>6, <2>1 DEF ApplyFinal, TypeOK
  <2>3. Asked \in Ranges
    BY DEF Asked, Ranges
  <2>4. covered' \in [Cals -> SUBSET Ranges]
    BY <1>3, <1>6, <2>3 DEF ApplyFinal, TypeOK
  <2>5. \E T \in SUBSET Cals : job' \in Jobs(T)
    BY <1>3, <1>6 DEF ApplyFinal, Jobs
  <2>6. wanted' \in Seq(Cals) /\ IsInjective(wanted')
    BY <1>6, WantedTyped DEF ApplyFinal, TypeOK
  <2>7. outrun' \subseteq Cals
    BY <1>3, <1>6 DEF ApplyFinal, TypeOK
  <2> QED
    BY <1>6, <2>2, <2>4, <2>5, <2>6, <2>7 DEF ApplyFinal, TypeOK, server
<1> QED
  BY <1>4, <1>5, <1>6

\* Every step keeps the types.
LEMMA TypeStep ==
    ASSUME TypeOK, [Next]_vars
    PROVE  TypeOK'
<1>1. CASE UNCHANGED vars
  BY <1>1 DEF TypeOK, vars, server, local
<1> QED
  BY <1>1, UserTypes, WalkTypes, RequestTypes, ApplyTypes DEF Next, Answer, Continue

-----------------------------------------------------------------------------
(* What a step that reads nothing does.                                    *)

\* The numbers the tables hold.
LEMMA Numbers ==
    ASSUME TypeOK
    PROVE  /\ changes \in Nat /\ NoTag \in Int
           /\ \A r \in Resources : r.at \in Int /\ r.place \in Ranges \cup {Gone}
           /\ \A c \in Cals, e \in Events : remote[c][e] \in Resources /\ cache[c][e] \in Resources
           /\ \A c \in Cals : rows[c] \in CalendarRows /\ covered[c] \subseteq Ranges
           /\ \A row \in CalendarRows :
                /\ row.token \in Int /\ row.syncedCtag \in Int
                /\ row.ctag \in Int /\ row.serverToken \in Int
           /\ \A t \in Tags : t \in Int
<1>1. changes \in Nat /\ NoTag \in Int /\ \A t \in Tags : t \in Int
  BY PullAssumption DEF TypeOK, NoTag, Tags
<1>2. \A r \in Resources : r.at \in Int /\ r.place \in Ranges \cup {Gone}
  BY DEF Resources
<1>3. \A row \in CalendarRows : /\ row.token \in Tags /\ row.syncedCtag \in Tags
                                /\ row.ctag \in Tags /\ row.serverToken \in Tags
  BY DEF CalendarRows
<1> QED
  BY <1>1, <1>2, <1>3 DEF TypeOK

\* No claim, made or to be made, is ahead of the server.
LEMMA ClaimBounds ==
    ASSUME TypeOK, TablesOK, JobOK
    PROVE  /\ \A c \in Cals : ClaimedUpTo(c) <= changes /\ ClaimedUpTo(c) \in Int
           /\ Requesting => NewClaim <= changes /\ NewClaim \in Int
<1>1. \A c \in Cals : ClaimedUpTo(c) <= changes /\ ClaimedUpTo(c) \in Int
  BY Numbers DEF TablesOK, TagsOK, ClaimedUpTo
<1>2. ASSUME Requesting PROVE NewClaim <= changes /\ NewClaim \in Int
  <2>1. job.row \in CalendarRows /\ job.token \in Int /\ TagsOK(job.row) /\ job.token <= changes
    BY <1>2, RequestFields, Numbers DEF JobOK, RowOK
  <2> QED
    BY <2>1, Numbers DEF NewClaim, NewToken, NewCtag, TagsOK
<1> QED
  BY <1>1, <1>2

\* The tables keep what they say when no claim grows.
LEMMA TablesKept ==
    ASSUME TablesOK, UNCHANGED <<remote, cache, changes, outrun>>,
           \A c \in Cals : /\ SameClaim(rows[c], rows'[c]) /\ TagsOK(rows'[c])
                           /\ covered'[c] \subseteq covered[c]
    PROVE  TablesOK'
<1>1. \A c \in Cals : /\ ClaimedUpTo(c)' = ClaimedUpTo(c)
                      /\ ClaimedRanges(c)' \subseteq ClaimedRanges(c)
  BY DEF ClaimedUpTo, ClaimedRanges, SameClaim
<1>2. CacheOK' /\ ClaimIsTrue'
  BY <1>1 DEF TablesOK, CacheOK, ClaimIsTrue
<1>3. \A c \in Cals : TagsOK(rows[c])'
  BY DEF TagsOK
<1> QED
  BY <1>2, <1>3 DEF TablesOK

\* The job keeps what it knows when only rows change, and not their claims.
LEMMA JobKept ==
    ASSUME TypeOK, JobOK, UNCHANGED <<job, remote, cache, changes, covered, outrun>>,
           \A c \in Cals : SameClaim(rows[c], rows'[c])
    PROVE  JobOK'
<1>1. Requesting => job.cal \in Cals
  BY RequestFields
<1>2. /\ Requesting' = Requesting /\ NewClaim' = NewClaim
      /\ \A c \in Cals : ClaimedUpTo(c)' = ClaimedUpTo(c) /\ ClaimedRanges(c)' = ClaimedRanges(c)
  BY DEF Requesting, NewClaim, NewToken, NewCtag, ClaimedUpTo, ClaimedRanges, SameClaim
<1>3. Requesting => Promised' = Promised
  BY <1>1, <1>2 DEF Promised
<1>4. ListOK'
  <2>1. job.phase = "next" \/ Requesting => DOMAIN job.left \subseteq Cals
    BY JobShape, RequestFields
  <2> QED
    BY <1>2, <2>1 DEF JobOK, ListOK, TagsOK, SameClaim
<1>5. RowOK' /\ FlagsOK'
  BY <1>1, <1>2 DEF JobOK, RowOK, FlagsOK, TagsOK, SameClaim
<1>6. StagedOK'
  BY <1>1, <1>2 DEF JobOK, StagedOK
<1>7. RemovedOK'
  BY <1>1, <1>2, <1>3 DEF JobOK, RemovedOK
<1>8. ProgressOK'
  BY <1>1, <1>2, <1>3 DEF JobOK, ProgressOK
<1> QED
  BY <1>4, <1>5, <1>6, <1>7, <1>8 DEF JobOK

\* A job without a request and without a list knows nothing.
LEMMA JobRests ==
    ASSUME job'.phase \in {"idle", "discovering", "hydrating"}
    PROVE  JobOK'
<1>1. ~Requesting' /\ job'.phase # "next"
  BY DEF Requesting
<1> QED
  BY <1>1 DEF JobOK, ListOK, RowOK, FlagsOK, StagedOK, RemovedOK, ProgressOK

\* A list of rows that claim what the table claims.
LEMMA JobLists ==
    ASSUME job'.phase = "next",
           \A c \in DOMAIN job'.left : /\ TagsOK(job.left[c])' /\ SameClaim(rows[c], job.left[c])'
    PROVE  JobOK'
<1>1. ~Requesting'
  BY DEF Requesting
<1> QED
  BY <1>1 DEF JobOK, ListOK, RowOK, FlagsOK, StagedOK, RemovedOK, ProgressOK

\* A new request.
LEMMA JobRequests ==
    ASSUME NEW phase \in {"query", "changes", "etags"}, NEW left, NEW c, NEW row,
           NEW full \in BOOLEAN, NEW replace \in BOOLEAN, NEW hydration \in BOOLEAN,
           job' = Request(phase, left, c, row, full, replace, hydration),
           UNCHANGED <<rows, changes>>, changes \in Nat,
           c \notin DOMAIN left, TagsOK(row), row.syncedCtag = rows[c].syncedCtag,
           row.token = rows[c].token \/ (full /\ ~hydration),
           \A d \in DOMAIN left : TagsOK(left[d]) /\ SameClaim(rows[d], left[d]),
           phase = "query" <=> full, replace \/ hydration => full, hydration => ~replace,
           phase = "changes" => row.token # NoTag, phase = "etags" => row.token = NoTag
    PROVE  JobOK'
<1>1. /\ job'.phase = phase /\ job'.left = left /\ job'.cal = c /\ job'.row = row
      /\ job'.full = full /\ job'.replace = replace /\ job'.hydration = hydration
      /\ job'.staged = {} /\ job'.missing = {} /\ job'.removed = {} /\ job'.token = NoTag
  BY DEF Request
<1>2. ListOK' /\ RowOK' /\ FlagsOK'
  BY <1>1 DEF ListOK, RowOK, FlagsOK, TagsOK, SameClaim, NoTag
<1>3. StagedOK' /\ RemovedOK' /\ ProgressOK'
  BY <1>1 DEF StagedOK, RemovedOK, ProgressOK
<1> QED
  BY <1>2, <1>3 DEF JobOK

-----------------------------------------------------------------------------
(* The steps that read nothing of a calendar.                              *)

\* Another client changes a resource: its version is beyond every claim.
LEMMA ForeignChangeStep ==
    ASSUME TypeOK, TablesOK, JobOK, NEW c \in Cals, NEW e \in Events,
           NEW place \in Ranges \cup {Gone}, ForeignChange(c, e, place)
    PROVE  TablesOK' /\ JobOK'
<1>1. /\ changes' = changes + 1 /\ changes \in Nat
      /\ remote' = [remote EXCEPT ![c][e] = [place |-> place, at |-> changes + 1]]
      /\ UNCHANGED <<rows, cache, covered, job, outrun>>
  BY Numbers DEF ForeignChange, local
<1>2. /\ remote'[c][e].at = changes + 1
      /\ \A d \in Cals, f \in Events :
            \/ remote'[d][f] = remote[d][f]
            \/ d = c /\ f = e
  BY <1>1 DEF TypeOK
<1>3. \A d \in Cals : /\ ClaimedUpTo(d)' = ClaimedUpTo(d) /\ ClaimedRanges(d)' = ClaimedRanges(d)
                      /\ ClaimedUpTo(d) < changes + 1 /\ ClaimedUpTo(d) \in Int
  BY <1>1, ClaimBounds DEF ClaimedUpTo, ClaimedRanges
<1>4. Requesting' = Requesting /\ NewClaim' = NewClaim
  BY <1>1 DEF Requesting, NewClaim, NewToken, NewCtag
<1>5. Requesting => NewClaim \in Int /\ NewClaim < changes + 1 /\ job.cal \in Cals
                    /\ job.row \in CalendarRows /\ job.token \in Int
                    /\ job.removed \subseteq Events /\ job.staged \subseteq Events \X Resources
  BY <1>1, ClaimBounds, RequestFields, Numbers
<1>6. \A row \in CalendarRows : TagsOK(row) => TagsOK(row)'
  BY <1>1, Numbers DEF TagsOK
<1>7. CacheOK'
  BY <1>1, <1>2, Numbers DEF TablesOK, CacheOK
<1>8. ClaimIsTrue'
  BY <1>1, <1>2, <1>3 DEF TablesOK, ClaimIsTrue
<1>9. TablesOK'
  BY <1>1, <1>6, <1>7, <1>8 DEF TablesOK, TypeOK
<1>10. ListOK'
  <2>1. job.phase = "next" \/ Requesting =>
            job.left \in [DOMAIN job.left -> CalendarRows] /\ DOMAIN job.left \subseteq Cals
    <3>1. CASE job.phase = "next"
      <4>1. PICK S \in SUBSET Cals : job \in [phase : {"next"}, left : [S -> CalendarRows]]
        BY <3>1, JobShape
      <4> QED
        BY <4>1
    <3> QED
      BY <3>1, RequestFields
  <2> QED
    BY <1>1, <1>4, <1>6, <2>1 DEF JobOK, ListOK, SameClaim
<1>11. RowOK' /\ FlagsOK'
  BY <1>1, <1>4, <1>5, <1>6 DEF JobOK, RowOK, FlagsOK
<1>12. StagedOK'
  <2> SUFFICES ASSUME Requesting, NEW s \in job.staged
               PROVE  /\ s[2].place # Gone
                      /\ \/ s[2] = remote'[job.cal][s[1]]
                         \/ /\ s[2].at < remote'[job.cal][s[1]].at
                            /\ ClaimedUpTo(job.cal) < remote'[job.cal][s[1]].at
                            /\ NewClaim < remote'[job.cal][s[1]].at
    BY <1>1, <1>3, <1>4, <1>5 DEF StagedOK
  <2>1. s[1] \in Events /\ s[2] \in Resources /\ job.cal \in Cals
    BY <1>5
  <2>2. CASE job.cal = c /\ s[1] = e
    <3>1. s[2].at <= changes /\ s[2].at \in Int
      BY <2>1, <2>2, Numbers DEF JobOK, StagedOK, TablesOK, CacheOK
    <3> QED
      BY <1>1, <1>2, <1>3, <1>5, <2>1, <2>2, <3>1 DEF JobOK, StagedOK
  <2> QED
    BY <1>2, <2>1, <2>2 DEF JobOK, StagedOK
<1>13. Promised' = Promised \/ ~Requesting
  BY <1>1, <1>3, <1>5 DEF Promised
<1>14. RemovedOK'
  BY <1>1, <1>2, <1>3, <1>4, <1>5, <1>13 DEF JobOK, RemovedOK
<1>15. ProgressOK'
  BY <1>1, <1>2, <1>4, <1>5, <1>13 DEF JobOK, ProgressOK
<1> QED
  BY <1>9, <1>10, <1>11, <1>12, <1>14, <1>15 DEF JobOK

\* The other changes from outside the job.
LEMMA OutsideStep ==
    ASSUME TypeOK, TablesOK, JobOK, (\E c \in Cals : DeleteCollection(c)) \/ User
    PROVE  TablesOK' /\ JobOK'
<1>1. UNCHANGED <<job, remote, cache, changes, covered, outrun>>
  BY DEF DeleteCollection, User, SyncRange, SetPreferences, server, local
<1>2. \A c \in Cals : SameClaim(rows[c], rows'[c]) /\ TagsOK(rows'[c])
  <2>1. CASE rows' = rows
    BY <2>1 DEF TablesOK, SameClaim
  <2>2. ASSUME NEW c \in Cals, NEW enabled \in BOOLEAN, NEW muted \in BOOLEAN,
               SetPreferences(c, enabled, muted)
        PROVE  \A d \in Cals : SameClaim(rows[d], rows'[d]) /\ TagsOK(rows'[d])
    <3>1. \A row \in CalendarRows :
            /\ SameClaim(row, [row EXCEPT !.enabled = enabled, !.muted = muted])
            /\ TagsOK(row) => TagsOK([row EXCEPT !.enabled = enabled, !.muted = muted])
      BY DEF CalendarRows, SameClaim, TagsOK
    <3>2. rows' = [rows EXCEPT ![c] = [rows[c] EXCEPT !.enabled = enabled, !.muted = muted]]
      BY <2>2 DEF SetPreferences, TypeOK, CalendarRows
    <3>3. \A d \in Cals : rows[d] \in CalendarRows /\ TagsOK(rows[d]) /\ SameClaim(rows[d], rows[d])
      BY Numbers DEF TablesOK, SameClaim
    <3> QED
      BY <3>1, <3>2, <3>3 DEF TypeOK
  <2> QED
    BY <2>1, <2>2 DEF DeleteCollection, User, SyncRange, local
<1> QED
  BY <1>1, <1>2, TablesKept, JobKept

\* Steps that leave the tables, or take from what is covered, and end a request.
LEMMA RestingStep ==
    ASSUME TypeOK, TablesOK, JobOK,
           \/ NewYear \/ StartSync \/ AllCalendarsDone \/ Finish \/ Crash
           \/ RequestFails \/ CollectionGone
    PROVE  TablesOK' /\ JobOK'
<1>1. /\ UNCHANGED <<remote, cache, changes, outrun, rows>>
      /\ \A c \in Cals : covered'[c] \subseteq covered[c]
      /\ job'.phase \in {"idle", "discovering", "hydrating"}
  BY DEF NewYear, StartSync, AllCalendarsDone, Finish, Crash, RequestFails, CollectionGone,
         server, local, Idle
<1>2. TablesOK'
  BY <1>1, TablesKept DEF SameClaim, TablesOK
<1> QED
  BY <1>1, <1>2, JobRests

\* The discovery takes tags the server has, and no claim changes.
LEMMA DiscoverStep ==
    ASSUME TypeOK, TablesOK, JobOK, DiscoverCollections
    PROVE  TablesOK' /\ JobOK'
<1>1. /\ UNCHANGED <<remote, cache, changes, outrun, covered>>
      /\ rows' = [c \in Cals |-> IF c \in exists THEN Discovered(c) ELSE rows[c]]
      /\ job' = [phase |-> "next", left |-> [c \in {d \in Cals : rows'[d].known} |-> rows'[c]]]
  BY DEF DiscoverCollections, server
<1>2. \A c \in Cals : Tag(c) <= changes /\ NoTag <= changes
  BY TagTyped, Numbers DEF TablesOK, CacheOK, NoTag
<1>3. ASSUME NEW c \in Cals PROVE SameClaim(rows[c], Discovered(c)) /\ TagsOK(Discovered(c))
  <2>1. rows[c] \in CalendarRows /\ TagsOK(rows[c]) /\ Tag(c) <= changes /\ NoTag <= changes
    BY <1>2, Numbers DEF TablesOK
  <2> QED
    BY <2>1 DEF Discovered, SameClaim, TagsOK, CalendarRows
<1>4. \A c \in Cals : SameClaim(rows[c], rows'[c]) /\ TagsOK(rows'[c])
  BY <1>1, <1>3 DEF TablesOK, SameClaim
<1>5. TablesOK'
  BY <1>1, <1>4, TablesKept
<1>6. JobOK'
  BY <1>1, <1>4, JobLists DEF TagsOK, SameClaim
<1> QED
  BY <1>5, <1>6

\* The rows of the list claim what the table claims.
LEMMA NextCalendarStep ==
    ASSUME TypeOK, TablesOK, JobOK, SyncNextCalendar
    PROVE  TablesOK' /\ JobOK'
<1>1. PICK S \in SUBSET Cals : job \in [phase : {"next"}, left : [S -> CalendarRows]]
  BY JobShape DEF SyncNextCalendar
<1>2. PICK c \in DOMAIN job.left :
          LET row == job.left[c]
              rest == Restrict(job.left, DOMAIN job.left \ {c})
              skip == [job EXCEPT !.left = rest]
              ask == RequestFor(c, row)
          IN  \/ job' = skip /\ rows' \in {rows, [rows EXCEPT ![c] = row]}
              \/ /\ job' = Request(ask, rest, c, row, ask = "query", FALSE, FALSE)
                 /\ rows' = rows
  BY DEF SyncNextCalendar
<1> DEFINE row == job.left[c]
           rest == Restrict(job.left, S \ {c})
<1>3. /\ UNCHANGED <<remote, cache, changes, outrun, covered>> /\ changes \in Nat
      /\ c \in S /\ DOMAIN job.left = S /\ DOMAIN rest = S \ {c} /\ c \in Cals
      /\ \A d \in S \ {c} : rest[d] = job.left[d]
      /\ \A d \in S : TagsOK(job.left[d]) /\ SameClaim(rows[d], job.left[d])
  BY <1>1, <1>2, Numbers DEF SyncNextCalendar, server, JobOK, ListOK, Restrict
<1>4. CASE job' = [job EXCEPT !.left = rest] /\ rows' \in {rows, [rows EXCEPT ![c] = row]}
  <2>1. \A d \in Cals : SameClaim(rows[d], rows'[d]) /\ TagsOK(rows'[d])
    BY <1>3, <1>4 DEF TypeOK, TablesOK, SameClaim
  <2>2. TablesOK'
    BY <1>3, <2>1, TablesKept
  <2>3. job'.phase = "next" /\ job'.left = rest
    BY <1>1, <1>4
  <2>4. \A d \in DOMAIN job'.left : TagsOK(job.left[d])' /\ SameClaim(rows[d], job.left[d])'
    BY <1>3, <2>1, <2>3 DEF TagsOK, SameClaim
  <2> QED
    BY <2>2, <2>3, <2>4, JobLists
<1>5. CASE /\ job' = Request(RequestFor(c, row), rest, c, row, RequestFor(c, row) = "query",
                             FALSE, FALSE)
           /\ rows' = rows
  <2>1. TablesOK'
    BY <1>3, <1>5, TablesKept DEF SameClaim, TablesOK
  <2>2. /\ RequestFor(c, row) \in {"query", "changes", "etags"}
        /\ RequestFor(c, row) = "changes" => row.token # NoTag
        /\ RequestFor(c, row) = "etags" => row.token = NoTag
    BY DEF RequestFor
  <2>3. TagsOK(row) /\ row.token = rows[c].token /\ row.syncedCtag = rows[c].syncedCtag
    BY <1>3 DEF SameClaim
  <2>4. \A d \in DOMAIN rest : TagsOK(rest[d]) /\ SameClaim(rows[d], rest[d])
    BY <1>3
  <2>5. c \notin DOMAIN rest /\ UNCHANGED <<rows, changes>> /\ changes \in Nat
    BY <1>3, <1>5
  <2>6. \A phase \in {"query", "changes", "etags"} : (phase = "query") \in BOOLEAN
    OBVIOUS
  <2> HIDE DEF row, rest
  <2>7. PICK phase \in {"query", "changes", "etags"} : phase = RequestFor(c, row)
    BY <2>2
  <2> QED
    BY <1>5, <2>1, <2>2, <2>3, <2>4, <2>5, <2>6, <2>7, JobRequests
<1> QED
  BY <1>2, <1>3, <1>4, <1>5

\* A range asked for is requested with the row as it is.
LEMMA NextHydrationStep ==
    ASSUME TypeOK, TablesOK, JobOK, SyncNextHydration
    PROVE  TablesOK' /\ JobOK'
<1>1. UNCHANGED <<remote, cache, changes, outrun, covered, rows>> /\ changes \in Nat
  BY Numbers DEF SyncNextHydration, server, local
<1>2. TablesOK'
  BY <1>1, TablesKept DEF SameClaim, TablesOK
<1>3. CASE job' = job
  BY <1>1, <1>2, <1>3, JobRests DEF SyncNextHydration
<1>4. CASE job' # job
  <2>1. Head(wanted) \in Cals
    BY WantedTyped DEF SyncNextHydration, TypeOK
  <2>2. job' = Request("query", NoneLeft, Head(wanted), rows[Head(wanted)], TRUE, FALSE, TRUE)
    BY <1>4 DEF SyncNextHydration
  <2>3. TagsOK(rows[Head(wanted)]) /\ DOMAIN NoneLeft = {}
    BY <2>1 DEF TablesOK, NoneLeft
  <2>4. PICK c \in Cals : c = Head(wanted)
    BY <2>1
  <2> QED
    BY <1>1, <1>2, <2>2, <2>3, <2>4, JobRequests
<1> QED
  BY <1>3, <1>4

\* The window is asked for instead.
LEMMA InsteadStep ==
    ASSUME TypeOK, TablesOK, JobOK, EtagsFail \/ MultigetIncomplete \/ TokenRefused
    PROVE  TablesOK' /\ JobOK'
<1>1. UNCHANGED <<remote, cache, changes, outrun, covered, rows>> /\ changes \in Nat
  BY Numbers DEF EtagsFail, MultigetIncomplete, TokenRefused, server, local
<1>2. TablesOK'
  BY <1>1, TablesKept DEF SameClaim, TablesOK
<1>3. CASE job' = Idle
  BY <1>2, <1>3, JobRests DEF Idle
<1>4. CASE job' # Idle
  <2>1. Requesting
    BY DEF EtagsFail, MultigetIncomplete, TokenRefused, Requesting
  <2>2. job.row \in CalendarRows
    BY <2>1, RequestFields
  <2>3. PICK row : /\ job' = QueryInstead(row)
                   /\ row = job.row \/ row = [job.row EXCEPT !.token = NoTag]
    BY <1>4 DEF EtagsFail, MultigetIncomplete, TokenRefused
  <2>4. TagsOK(row) /\ row.syncedCtag = rows[job.cal].syncedCtag
    BY <1>1, <2>1, <2>2, <2>3 DEF JobOK, RowOK, TagsOK, CalendarRows, NoTag
  <2>5. /\ job.cal \notin DOMAIN job.left
        /\ \A d \in DOMAIN job.left : TagsOK(job.left[d]) /\ SameClaim(rows[d], job.left[d])
    BY <2>1 DEF JobOK, RowOK, ListOK
  <2> QED
    BY <1>1, <1>2, <2>3, <2>4, <2>5, JobRequests DEF QueryInstead
<1> QED
  BY <1>3, <1>4

-----------------------------------------------------------------------------
(* The answers.                                                            *)

\* A request claims what the table claims, when the claim is not a new one.
LEMMA OldClaim ==
    ASSUME TypeOK, JobOK, Requesting, ~job.full \/ job.hydration
    PROVE  /\ job.row.token = rows[job.cal].token
           /\ job.row.syncedCtag = rows[job.cal].syncedCtag
  BY DEF JobOK, RowOK, FlagsOK

\* An answer changes the job and nothing else, and not what was asked for.
LEMMA AnswerFrame ==
    ASSUME TypeOK, TablesOK, JobOK, Requesting, UNCHANGED <<server, local, changes, outrun>>,
           job'.phase \in {"multiget", "applying"},
           job'.phase = "multiget" => ~job.full /\ job'.staged = {},
           job'.phase = "applying" => job'.missing = {},
           job'.left = job.left, job'.cal = job.cal, job'.row = job.row, job'.full = job.full,
           job'.replace = job.replace, job'.hydration = job.hydration,
           job'.token <= changes,
           ~job.full /\ job.row.token = NoTag => job'.token = NoTag,
           StagedOK', RemovedOK', ProgressOK'
    PROVE  TablesOK' /\ JobOK'
<1>1. Requesting'
  BY DEF Requesting
<1>2. TablesOK'
  BY TablesKept DEF server, local, SameClaim, TablesOK
<1>3. ListOK'
  BY DEF JobOK, ListOK, TagsOK, SameClaim, local
<1>4. RowOK'
  BY DEF JobOK, RowOK, TagsOK, local
<1>5. FlagsOK'
  BY <1>1 DEF JobOK, FlagsOK
<1> QED
  BY <1>2, <1>3, <1>4, <1>5 DEF JobOK

\* What an answer promises of the ranges, and the claims of the table.
LEMMA AnswerClaims ==
    ASSUME UNCHANGED <<server, local, changes, outrun>>,
           job'.cal = job.cal, job'.full = job.full, job'.hydration = job.hydration
    PROVE  /\ ClaimedUpTo(job.cal)' = ClaimedUpTo(job.cal)
           /\ ClaimedRanges(job.cal)' = ClaimedRanges(job.cal)
           /\ Promised' = Promised
<1>1. /\ ClaimedUpTo(job.cal)' = ClaimedUpTo(job.cal)
      /\ ClaimedRanges(job.cal)' = ClaimedRanges(job.cal)
  BY DEF ClaimedUpTo, ClaimedRanges, local
<1> QED
  BY <1>1 DEF Promised

\* The window, or a range asked for, is shown.
LEMMA QueryStep ==
    ASSUME TypeOK, TablesOK, JobOK, QueryAnswered
    PROVE  TablesOK' /\ JobOK'
<1>1. Requesting /\ job.phase = "query" /\ UNCHANGED <<server, local, changes, outrun>>
  BY DEF QueryAnswered, Requesting
<1>2. PICK S \in SUBSET Cals : job \in Requests(S)
  BY <1>1, JobShape
<1> DEFINE theirs(e) == remote[job.cal][e]
           mine(e) == cache[job.cal][e]
<1>3. /\ job'.phase = "applying" /\ job'.left = job.left /\ job'.cal = job.cal
      /\ job'.row = job.row /\ job'.full = job.full /\ job'.replace = job.replace
      /\ job'.hydration = job.hydration /\ job'.missing = job.missing
      /\ job'.staged = {<<e, theirs(e)>> : e \in {f \in Events : theirs(f).place = Asked}}
      /\ job'.removed = {e \in Events : mine(e).place = Asked /\ theirs(e).place # Asked}
      /\ job'.token = job.row.serverToken
  BY <1>2 DEF QueryAnswered, Requests, Pruned
<1>4. /\ job.full /\ job.missing = {} /\ job.cal \in Cals /\ job.row \in CalendarRows
      /\ TagsOK(job.row) /\ Asked # Gone
  BY <1>1, <1>2 DEF JobOK, FlagsOK, RowOK, Requests, Asked, Gone
<1>5. /\ ClaimedUpTo(job.cal)' = ClaimedUpTo(job.cal)
      /\ ClaimedRanges(job.cal)' = ClaimedRanges(job.cal)
      /\ Promised' = Promised
  BY <1>1, <1>3, AnswerClaims
<1>6. job.hydration => NewClaim' = ClaimedUpTo(job.cal)
  BY <1>1, <1>3, OldClaim DEF NewClaim, NewToken, NewCtag, ClaimedUpTo
<1>7. \A e \in Events : /\ theirs(e).at <= ClaimedUpTo(job.cal)
                        /\ {theirs(e).place, mine(e).place} \cap ClaimedRanges(job.cal) # {}
                        => Same(mine(e), theirs(e))
  BY <1>4 DEF TablesOK, ClaimIsTrue
<1>8. Promised = IF job.hydration THEN ClaimedRanges(job.cal) \cup {Asked} ELSE {Asked}
  BY <1>4 DEF Promised, Asked
<1>9. StagedOK'
  <2> SUFFICES ASSUME NEW s \in job'.staged
               PROVE  s[2].place # Gone /\ s[2] = remote'[job'.cal][s[1]]
    BY DEF StagedOK
  <2>1. PICK e \in Events : s = <<e, theirs(e)>> /\ theirs(e).place = Asked
    BY <1>3
  <2> QED
    BY <1>1, <1>3, <1>4, <2>1 DEF server
<1>10. RemovedOK'
  <2>1. \A s \in job'.staged : s[1] \notin job'.removed
    BY <1>3
  <2>2. job'.missing \cap job'.removed = {}
    BY <1>3, <1>4
  <2> SUFFICES ASSUME NEW e \in job'.removed
               PROVE  /\ theirs(e).at <= ClaimedUpTo(job.cal) =>
                            theirs(e).place \notin ClaimedRanges(job.cal)
                      /\ theirs(e).at <= NewClaim' => theirs(e).place \notin Promised
    BY <1>1, <1>3, <1>5, <2>1, <2>2 DEF RemovedOK, server
  <2>3. e \in Events /\ mine(e).place = Asked /\ theirs(e).place # Asked
    BY <1>3
  <2>4. theirs(e).at <= ClaimedUpTo(job.cal) => theirs(e).place \notin ClaimedRanges(job.cal)
    BY <1>7, <2>3 DEF Same
  <2> QED
    BY <1>6, <1>8, <2>3, <2>4
<1>11. ProgressOK'
  <2> SUFFICES ASSUME NEW e \in Events, theirs(e).at <= NewClaim',
                      {theirs(e).place, mine(e).place} \cap Promised # {}
               PROVE  \/ Same(mine(e), theirs(e)) \/ <<e, theirs(e)>> \in job'.staged
                      \/ e \in job'.removed
    BY <1>1, <1>3, <1>5 DEF ProgressOK, server, local
  <2>1. CASE theirs(e).place = Asked
    BY <1>3, <2>1
  <2>2. CASE theirs(e).place # Asked /\ mine(e).place = Asked
    BY <1>3, <2>2
  <2>3. CASE theirs(e).place # Asked /\ mine(e).place # Asked
    BY <1>6, <1>7, <1>8, <2>3
  <2> QED
    BY <2>1, <2>2, <2>3
<1> QED
  BY <1>1, <1>3, <1>4, <1>9, <1>10, <1>11, AnswerFrame DEF TagsOK

\* The changes since a token.
LEMMA ChangesStep ==
    ASSUME TypeOK, TablesOK, JobOK, NEW lean \in BOOLEAN, ChangesAnswered(lean)
    PROVE  TablesOK' /\ JobOK'
<1>1. Requesting /\ job.phase = "changes" /\ UNCHANGED <<server, local, changes, outrun>>
  BY DEF ChangesAnswered, Requesting
<1>2. PICK S \in SUBSET Cals : job \in Requests(S)
  BY <1>1, JobShape
<1> DEFINE theirs(e) == remote[job.cal][e]
           mine(e) == cache[job.cal][e]
           changed == {e \in Events : theirs(e).at > job.row.token}
           live == {e \in changed : theirs(e).place # Gone}
           named == IF lean THEN live ELSE {}
           bodies == IF lean THEN {} ELSE {<<e, theirs(e)>> : e \in live}
<1>3. /\ job'.phase = (IF named = {} THEN "applying" ELSE "multiget")
      /\ job'.left = job.left /\ job'.cal = job.cal
      /\ job'.row = job.row /\ job'.full = job.full /\ job'.replace = job.replace
      /\ job'.hydration = job.hydration /\ job'.missing = named
      /\ job'.staged = bodies /\ job'.removed = changed \ live /\ job'.token = Tag(job.cal)
  <2>1. job' = [Stage(named) EXCEPT !.staged = bodies, !.removed = changed \ live,
                                    !.token = Tag(job.cal)]
    BY DEF ChangesAnswered
  <2> HIDE DEF named, bodies, changed, live
  <2> QED
    BY <1>2, <2>1 DEF Stage, Requests
<1>4. /\ ~job.full /\ ~job.hydration /\ job.cal \in Cals /\ job.row \in CalendarRows
      /\ job.row.token # NoTag /\ job.row.token = rows[job.cal].token /\ job.row.token \in Int
  BY <1>1, <1>2, OldClaim, Numbers DEF JobOK, FlagsOK, Requests
<1>5. /\ ClaimedUpTo(job.cal)' = ClaimedUpTo(job.cal)
      /\ ClaimedRanges(job.cal)' = ClaimedRanges(job.cal)
      /\ Promised' = Promised
  BY <1>1, <1>3, AnswerClaims
<1>6. /\ Tag(job.cal) <= changes
      /\ Promised = ClaimedRanges(job.cal) /\ ClaimedUpTo(job.cal) = job.row.token
      /\ Gone \notin Promised
  BY <1>4, TagTyped, Numbers DEF TablesOK, CacheOK, Promised, ClaimedUpTo, ClaimedRanges,
                                  Ranges, Gone
<1>7. \A e \in Events : /\ theirs(e).at <= ClaimedUpTo(job.cal)
                        /\ {theirs(e).place, mine(e).place} \cap ClaimedRanges(job.cal) # {}
                        => Same(mine(e), theirs(e))
  BY <1>4 DEF TablesOK, ClaimIsTrue
<1>8. \A e \in Events : theirs(e).at \in Int
  BY <1>4, Numbers
<1>9. StagedOK'
  <2> SUFFICES ASSUME NEW s \in job'.staged
               PROVE  s[2].place # Gone /\ s[2] = remote'[job'.cal][s[1]]
    BY DEF StagedOK
  <2>1. PICK e \in live : s = <<e, theirs(e)>>
    BY <1>3
  <2> QED
    BY <1>1, <1>3, <2>1 DEF server
<1>10. RemovedOK'
  <2>1. \A s \in job'.staged : s[1] \notin job'.removed
    BY <1>3
  <2>2. job'.missing \cap job'.removed = {}
    BY <1>3
  <2>3. \A e \in job'.removed : theirs(e).place = Gone
    BY <1>3
  <2>4. \A e \in job'.removed : /\ remote'[job'.cal][e].place \notin ClaimedRanges(job.cal)'
                                /\ remote'[job'.cal][e].place \notin Promised'
    BY <1>1, <1>3, <1>5, <1>6, <2>3 DEF server
  <2> QED
    BY <2>1, <2>2, <2>4 DEF RemovedOK
<1>11. ProgressOK'
  <2> SUFFICES ASSUME NEW e \in Events,
                      {theirs(e).place, mine(e).place} \cap Promised # {}
               PROVE  \/ Same(mine(e), theirs(e)) \/ <<e, theirs(e)>> \in job'.staged
                      \/ e \in job'.missing \/ e \in job'.removed
    BY <1>1, <1>3, <1>5 DEF ProgressOK, server, local
  <2>1. CASE e \in live
    BY <1>3, <2>1
  <2>2. CASE e \in changed \ live
    BY <1>3, <2>2
  <2>3. CASE e \notin changed
    <3>1. theirs(e).at <= ClaimedUpTo(job.cal)
      BY <1>4, <1>6, <1>8, <2>3
    <3> QED
      BY <1>6, <1>7, <3>1
  <2> QED
    BY <2>1, <2>2, <2>3
<1>12. /\ job'.phase = "multiget" => job'.staged = {}
       /\ job'.phase = "applying" => job'.missing = {}
  BY <1>3
<1> QED
  BY <1>1, <1>3, <1>4, <1>6, <1>9, <1>10, <1>11, <1>12, AnswerFrame

\* The comparison of ETags.
LEMMA EtagsStep ==
    ASSUME TypeOK, TablesOK, JobOK, EtagsAnswered
    PROVE  TablesOK' /\ JobOK'
<1>1. Requesting /\ job.phase = "etags" /\ UNCHANGED <<server, local, changes, outrun>>
  BY DEF EtagsAnswered, Requesting
<1>2. PICK S \in SUBSET Cals : job \in Requests(S)
  BY <1>1, JobShape
<1> DEFINE theirs(e) == remote[job.cal][e]
           mine(e) == cache[job.cal][e]
           named == {e \in Events : /\ theirs(e).place # Gone
                                    /\ mine(e).place = Gone \/ mine(e).at # theirs(e).at}
           lost == {e \in Events : mine(e).place # Gone /\ theirs(e).place = Gone}
<1>3. /\ job'.phase = (IF named = {} THEN "applying" ELSE "multiget")
      /\ job'.left = job.left /\ job'.cal = job.cal
      /\ job'.row = job.row /\ job'.full = job.full /\ job'.replace = job.replace
      /\ job'.hydration = job.hydration /\ job'.missing = named
      /\ job'.staged = job.staged /\ job'.removed = lost /\ job'.token = job.token
  <2> DEFINE there == {e \in Events : theirs(e).place # Gone}
             here == {e \in Events : mine(e).place # Gone}
  <2>1. /\ {e \in there : e \notin here \/ mine(e).at # theirs(e).at} = named
        /\ here \ there = lost
    OBVIOUS
  <2>2. job' = [Stage({e \in there : e \notin here \/ mine(e).at # theirs(e).at})
                EXCEPT !.removed = here \ there]
    BY DEF EtagsAnswered
  <2> HIDE DEF there, here, named, lost
  <2> QED
    BY <1>2, <2>1, <2>2 DEF Stage, Requests
<1>4. /\ ~job.full /\ job.cal \in Cals /\ job.staged = {} /\ job.token = NoTag
      /\ job.row.token = NoTag /\ job.token <= changes
  BY <1>1, <1>2 DEF JobOK, FlagsOK, RowOK, Requests
<1>5. /\ ClaimedRanges(job.cal)' = ClaimedRanges(job.cal)
      /\ Promised' = Promised
  BY <1>1, <1>3, AnswerClaims
<1>6. Promised = ClaimedRanges(job.cal) /\ Gone \notin Promised
  BY <1>4, Numbers DEF Promised, ClaimedRanges, Ranges, Gone
<1>7. StagedOK'
  BY <1>3, <1>4 DEF StagedOK
<1>8. RemovedOK'
  <2>1. \A e \in job'.removed : /\ remote'[job'.cal][e].place \notin ClaimedRanges(job.cal)'
                                /\ remote'[job'.cal][e].place \notin Promised'
    BY <1>1, <1>3, <1>5, <1>6 DEF server
  <2>2. job'.missing \cap job'.removed = {} /\ job'.staged = {}
    BY <1>3, <1>4
  <2> QED
    BY <2>1, <2>2 DEF RemovedOK
<1>9. ProgressOK'
  <2> SUFFICES ASSUME NEW e \in Events
               PROVE  \/ Same(mine(e), theirs(e)) \/ e \in job'.missing \/ e \in job'.removed
    BY <1>1, <1>3 DEF ProgressOK, server, local
  <2>1. mine(e).at = theirs(e).at => mine(e).place = Gone \/ mine(e) = theirs(e)
    BY <1>4 DEF TablesOK, CacheOK
  <2> QED
    BY <1>3, <2>1 DEF Same
<1>10. job'.phase = "applying" => job'.missing = {}
  BY <1>3
<1> QED
  BY <1>1, <1>3, <1>4, <1>7, <1>8, <1>9, <1>10, AnswerFrame

\* The resources named are read.
LEMMA MultigetStep ==
    ASSUME TypeOK, TablesOK, JobOK, MultigetAnswered
    PROVE  TablesOK' /\ JobOK'
<1>1. Requesting /\ job.phase = "multiget" /\ UNCHANGED <<server, local, changes, outrun>>
  BY DEF MultigetAnswered, Requesting
<1>2. PICK S \in SUBSET Cals : job \in Requests(S)
  BY <1>1, JobShape
<1> DEFINE theirs(e) == remote[job.cal][e]
<1>3. /\ job'.phase = "applying" /\ job'.left = job.left /\ job'.cal = job.cal
      /\ job'.row = job.row /\ job'.full = job.full /\ job'.replace = job.replace
      /\ job'.hydration = job.hydration /\ job'.missing = {}
      /\ job'.staged = {<<e, theirs(e)>> : e \in job.missing}
      /\ job'.removed = job.removed /\ job'.token = job.token
      /\ \A e \in job.missing : theirs(e).place # Gone
  BY <1>2 DEF MultigetAnswered, Requests
<1>4. /\ ~job.full /\ job.staged = {} /\ job.token <= changes /\ job.missing \subseteq Events
      /\ job.row.token = NoTag => job.token = NoTag
      /\ job.cal \in Cals /\ job.removed \subseteq Events
  BY <1>1, <1>2 DEF JobOK, FlagsOK, RowOK, Requests
<1>5. /\ ClaimedUpTo(job.cal)' = ClaimedUpTo(job.cal)
      /\ ClaimedRanges(job.cal)' = ClaimedRanges(job.cal)
      /\ Promised' = Promised
  BY <1>1, <1>3, AnswerClaims
<1>6. NewClaim' = NewClaim
  BY <1>3 DEF NewClaim, NewToken, NewCtag
<1>7. StagedOK'
  BY <1>1, <1>3 DEF StagedOK, server
<1>8. RemovedOK'
  <2>1. \A s \in job'.staged : s[1] \notin job'.removed
    BY <1>1, <1>3 DEF JobOK, RemovedOK
  <2> QED
    BY <1>1, <1>3, <1>5, <1>6, <2>1 DEF JobOK, RemovedOK, server
<1>9. ProgressOK'
  <2> SUFFICES ASSUME NEW e \in Events, theirs(e).at <= NewClaim,
                      {theirs(e).place, cache[job.cal][e].place} \cap Promised # {}
               PROVE  \/ Same(cache[job.cal][e], theirs(e))
                      \/ <<e, theirs(e)>> \in job'.staged \/ e \in job'.removed
    BY <1>1, <1>3, <1>5, <1>6 DEF ProgressOK, server, local
  <2>1. \/ Same(cache[job.cal][e], theirs(e)) \/ <<e, theirs(e)>> \in job.staged
        \/ e \in job.missing \/ e \in job.removed
    BY <1>1 DEF JobOK, ProgressOK
  <2> QED
    BY <1>3, <1>4, <2>1
<1> QED
  BY <1>1, <1>3, <1>4, <1>7, <1>8, <1>9, AnswerFrame

-----------------------------------------------------------------------------
(* The application of an answer.                                           *)

\* The fields of a job that applies an answer, and what is known of it.
LEMMA Applying ==
    ASSUME TypeOK, TablesOK, JobOK, Requesting, job.phase = "applying"
    PROVE  /\ job.cal \in Cals /\ job.row \in CalendarRows /\ job.missing = {}
           /\ job.staged \subseteq Events \X Resources /\ job.removed \subseteq Events
           /\ \A e \in Events : remote[job.cal][e] \in Resources /\ cache[job.cal][e] \in Resources
           /\ NewClaim \in Int /\ NewClaim <= changes
           /\ ClaimedUpTo(job.cal) \in Int /\ ClaimedUpTo(job.cal) <= changes
  BY RequestFields, Numbers, ClaimBounds DEF JobOK, FlagsOK

\* One resource of the local copy is written, and taken off what is to be done.
LEMMA ApplyFrame ==
    ASSUME TypeOK, TablesOK, JobOK, Requesting, job.phase = "applying",
           UNCHANGED <<server, rows, covered, changes, outrun>>,
           job'.phase = "applying", job'.missing = {},
           job'.staged \subseteq job.staged, job'.removed \subseteq job.removed,
           job'.left = job.left, job'.cal = job.cal, job'.row = job.row, job'.full = job.full,
           job'.replace = job.replace, job'.hydration = job.hydration, job'.token = job.token,
           NEW e \in Events,
           \A c \in Cals, f \in Events : cache'[c][f] = cache[c][f] \/ (c = job.cal /\ f = e),
           cache'[job.cal][e].at <= remote[job.cal][e].at,
           cache'[job.cal][e].at = remote[job.cal][e].at =>
                cache'[job.cal][e].place = Gone \/ cache'[job.cal][e] = remote[job.cal][e],
           remote[job.cal][e].at <= ClaimedUpTo(job.cal)
                /\ {remote[job.cal][e].place, cache'[job.cal][e].place}
                        \cap ClaimedRanges(job.cal) # {}
                => Same(cache'[job.cal][e], remote[job.cal][e]),
           remote[job.cal][e].at <= NewClaim
                /\ {remote[job.cal][e].place, cache'[job.cal][e].place} \cap Promised # {}
                => Same(cache'[job.cal][e], remote[job.cal][e]),
           \A f \in Events \ {e} :
                /\ f \in job.removed => f \in job'.removed
                /\ <<f, remote[job.cal][f]>> \in job.staged =>
                        <<f, remote[job.cal][f]>> \in job'.staged
    PROVE  TablesOK' /\ JobOK'
<1>1. /\ Requesting' /\ UNCHANGED <<remote, rows, covered, changes, outrun>>
      /\ job.cal \in Cals /\ job.missing = {} /\ NewClaim' = NewClaim
      /\ \A c \in Cals : ClaimedUpTo(c)' = ClaimedUpTo(c) /\ ClaimedRanges(c)' = ClaimedRanges(c)
  BY Applying DEF Requesting, server, NewClaim, NewToken, NewCtag, ClaimedUpTo, ClaimedRanges
<1>2. /\ ClaimedUpTo(job.cal)' = ClaimedUpTo(job.cal)
      /\ ClaimedRanges(job.cal)' = ClaimedRanges(job.cal)
  BY <1>1 DEF ClaimedUpTo, ClaimedRanges
<1>3. Promised' = Promised
  BY <1>2 DEF Promised
<1>4. CacheOK'
  BY <1>1 DEF TablesOK, CacheOK
<1>5. ClaimIsTrue'
  BY <1>1 DEF TablesOK, ClaimIsTrue
<1>6. TablesOK'
  BY <1>1, <1>4, <1>5 DEF TablesOK, TagsOK
<1>7. ListOK' /\ RowOK' /\ FlagsOK'
  BY <1>1 DEF JobOK, ListOK, RowOK, FlagsOK, TagsOK, SameClaim
<1>8. StagedOK'
  BY <1>1, <1>2 DEF JobOK, StagedOK
<1>9. RemovedOK'
  BY <1>1, <1>2, <1>3 DEF JobOK, RemovedOK
<1>10. ProgressOK'
  <2> SUFFICES ASSUME NEW f \in Events, remote[job.cal][f].at <= NewClaim,
                      {remote[job.cal][f].place, cache'[job.cal][f].place} \cap Promised # {}
               PROVE  \/ Same(cache'[job.cal][f], remote[job.cal][f])
                      \/ <<f, remote[job.cal][f]>> \in job'.staged \/ f \in job'.removed
    BY <1>1, <1>3 DEF ProgressOK
  <2>1. CASE f # e
    BY <1>1, <2>1 DEF JobOK, ProgressOK
  <2> QED
    BY <2>1
<1> QED
  BY <1>6, <1>7, <1>8, <1>9, <1>10 DEF JobOK

\* What was staged is written: as the server has it, or with a later change due.
LEMMA ResourceStep ==
    ASSUME TypeOK, TablesOK, JobOK, NEW e \in Events, NEW resource \in Resources,
           ApplyResource(e, resource)
    PROVE  TablesOK' /\ JobOK'
<1>1. /\ Requesting /\ job.phase = "applying" /\ <<e, resource>> \in job.staged
      /\ UNCHANGED <<server, rows, covered, changes, outrun>>
      /\ cache' = [cache EXCEPT ![job.cal][e] = resource]
  BY DEF ApplyResource, Requesting
<1>2. PICK S \in SUBSET Cals : job \in Requests(S)
  BY <1>1, JobShape
<1>3. /\ job'.phase = "applying" /\ job'.left = job.left /\ job'.cal = job.cal
      /\ job'.row = job.row /\ job'.full = job.full /\ job'.replace = job.replace
      /\ job'.hydration = job.hydration /\ job'.missing = job.missing
      /\ job'.staged = job.staged \ {<<e, resource>>}
      /\ job'.removed = job.removed /\ job'.token = job.token
  BY <1>1, <1>2 DEF ApplyResource, Requests
<1>4. /\ job.cal \in Cals /\ job.missing = {} /\ remote[job.cal][e] \in Resources
      /\ NewClaim \in Int /\ ClaimedUpTo(job.cal) \in Int
      /\ remote[job.cal][e].at \in Int /\ resource.at \in Int
  BY <1>1, Applying, Numbers
<1>5. /\ cache'[job.cal][e] = resource
      /\ \A c \in Cals, f \in Events : cache'[c][f] = cache[c][f] \/ (c = job.cal /\ f = e)
  BY <1>1, <1>4 DEF TypeOK
<1>6. \/ resource = remote[job.cal][e]
      \/ /\ resource.at < remote[job.cal][e].at
         /\ ClaimedUpTo(job.cal) < remote[job.cal][e].at /\ NewClaim < remote[job.cal][e].at
  BY <1>1 DEF JobOK, StagedOK
<1>7. /\ resource.at <= remote[job.cal][e].at
      /\ resource.at = remote[job.cal][e].at => resource = remote[job.cal][e]
      /\ remote[job.cal][e].at <= ClaimedUpTo(job.cal) => Same(resource, remote[job.cal][e])
      /\ remote[job.cal][e].at <= NewClaim => Same(resource, remote[job.cal][e])
  BY <1>4, <1>6 DEF Same
<1>8. \A f \in Events \ {e} :
        /\ f \in job.removed => f \in job'.removed
        /\ <<f, remote[job.cal][f]>> \in job.staged => <<f, remote[job.cal][f]>> \in job'.staged
  BY <1>3
<1>9. job'.staged \subseteq job.staged /\ job'.removed \subseteq job.removed /\ job'.missing = {}
  BY <1>3, <1>4
<1> QED
  BY <1>1, <1>3, <1>5, <1>7, <1>8, <1>9, ApplyFrame

\* What is removed was not at the server when the answer was given, and is not in what
\* the record claims.
LEMMA RemoveStep ==
    ASSUME TypeOK, TablesOK, JobOK, NEW e \in Events, RemoveResource(e)
    PROVE  TablesOK' /\ JobOK'
<1>1. /\ Requesting /\ job.phase = "applying" /\ e \in job.removed
      /\ UNCHANGED <<server, rows, covered, changes, outrun>>
      /\ cache' = [cache EXCEPT ![job.cal][e].place = Gone]
  BY DEF RemoveResource, Requesting
<1>2. PICK S \in SUBSET Cals : job \in Requests(S)
  BY <1>1, JobShape
<1>3. /\ job'.phase = "applying" /\ job'.left = job.left /\ job'.cal = job.cal
      /\ job'.row = job.row /\ job'.full = job.full /\ job'.replace = job.replace
      /\ job'.hydration = job.hydration /\ job'.missing = job.missing
      /\ job'.staged = job.staged /\ job'.removed = job.removed \ {e} /\ job'.token = job.token
  BY <1>1, <1>2 DEF RemoveResource, Requests
<1>4. /\ job.cal \in Cals /\ job.missing = {} /\ cache[job.cal][e] \in Resources
  BY <1>1, Applying
<1>5. \A r \in Resources : /\ [r EXCEPT !.place = Gone].place = Gone
                           /\ [r EXCEPT !.place = Gone].at = r.at
  BY DEF Resources
<1>6. /\ cache'[job.cal][e] = [cache[job.cal][e] EXCEPT !.place = Gone]
      /\ \A c \in Cals, f \in Events : cache'[c][f] = cache[c][f] \/ (c = job.cal /\ f = e)
  BY <1>1, <1>4 DEF TypeOK
<1>7. cache'[job.cal][e].place = Gone /\ cache'[job.cal][e].at = cache[job.cal][e].at
  BY <1>4, <1>5, <1>6
<1>8. cache[job.cal][e].at <= remote[job.cal][e].at
  BY <1>4 DEF TablesOK, CacheOK
<1>9. /\ remote[job.cal][e].at <= ClaimedUpTo(job.cal) =>
            remote[job.cal][e].place \notin ClaimedRanges(job.cal)
      /\ remote[job.cal][e].at <= NewClaim => remote[job.cal][e].place \notin Promised
  BY <1>1 DEF JobOK, RemovedOK
<1>10. Gone \notin ClaimedRanges(job.cal) /\ Gone \notin Promised
  <2>1. Gone \notin ClaimedRanges(job.cal)
    BY <1>4, Numbers DEF ClaimedRanges, Ranges, Gone
  <2> QED
    BY <2>1 DEF Promised, Gone
<1>11. \A f \in Events \ {e} :
        /\ f \in job.removed => f \in job'.removed
        /\ <<f, remote[job.cal][f]>> \in job.staged => <<f, remote[job.cal][f]>> \in job'.staged
  BY <1>3
<1>12. job'.staged \subseteq job.staged /\ job'.removed \subseteq job.removed /\ job'.missing = {}
  BY <1>3, <1>4
<1>13. /\ remote[job.cal][e].at <= ClaimedUpTo(job.cal)
            /\ {remote[job.cal][e].place, cache'[job.cal][e].place} \cap ClaimedRanges(job.cal) # {}
            => Same(cache'[job.cal][e], remote[job.cal][e])
       /\ remote[job.cal][e].at <= NewClaim
            /\ {remote[job.cal][e].place, cache'[job.cal][e].place} \cap Promised # {}
            => Same(cache'[job.cal][e], remote[job.cal][e])
  BY <1>7, <1>9, <1>10
<1> QED
  BY <1>1, <1>3, <1>6, <1>7, <1>8, <1>11, <1>12, <1>13, ApplyFrame

\* The row that is committed holds the new claim.
LEMMA CommittedClaim ==
    ASSUME TypeOK, TablesOK, JobOK, ApplyFinal
    PROVE  /\ rows'[job.cal].token = NewToken /\ rows'[job.cal].syncedCtag = NewCtag
           /\ TagsOK(rows'[job.cal])
           /\ \A c \in Cals \ {job.cal} : rows'[c] = rows[c]
<1>1. Requesting /\ job.phase = "applying"
  BY DEF ApplyFinal, Requesting
<1>2. /\ job.cal \in Cals /\ job.row \in CalendarRows /\ rows[job.cal] \in CalendarRows
      /\ TagsOK(job.row) /\ TagsOK(rows[job.cal]) /\ job.token <= changes
  BY <1>1, Applying, Numbers DEF JobOK, RowOK, TablesOK
<1>3. \A r \in CalendarRows : \A t, g :
        LET q == [r EXCEPT !.synced = TRUE, !.token = t, !.syncedCtag = g]
        IN  q.token = t /\ q.syncedCtag = g /\ q.ctag = r.ctag /\ q.serverToken = r.serverToken
  BY DEF CalendarRows
<1>4. Committed(job.cal) = [rows[job.cal] EXCEPT !.synced = TRUE, !.token = NewToken,
                                                 !.syncedCtag = NewCtag]
  BY DEF Committed, NewToken, NewCtag
<1>5. /\ Committed(job.cal).token = NewToken /\ Committed(job.cal).syncedCtag = NewCtag
      /\ Committed(job.cal).ctag = rows[job.cal].ctag
      /\ Committed(job.cal).serverToken = rows[job.cal].serverToken
  BY <1>2, <1>3, <1>4
<1>6. NewToken <= changes /\ NewCtag <= changes
  BY <1>2 DEF NewToken, NewCtag, TagsOK
<1>7. /\ rows'[job.cal] = Committed(job.cal)
      /\ \A c \in Cals \ {job.cal} : rows'[c] = rows[c]
  BY <1>2 DEF ApplyFinal, TypeOK
<1> QED
  BY <1>2, <1>5, <1>6, <1>7 DEF TagsOK

\* The ranges the record then claims are those the answer promised.
LEMMA CommittedRanges ==
    ASSUME TypeOK, TablesOK, JobOK, ApplyFinal
    PROVE  /\ covered'[job.cal] \cap (IF rows'[job.cal].token # NoTag /\ job.cal \notin outrun'
                                      THEN Ranges ELSE {"window"}) \subseteq Promised
           /\ \A c \in Cals \ {job.cal} :
                covered'[c] = covered[c] /\ (c \in outrun' <=> c \in outrun)
<1>1. Requesting /\ job.phase = "applying"
  BY DEF ApplyFinal, Requesting
<1>2. /\ job.cal \in Cals /\ covered[job.cal] \subseteq Ranges
      /\ rows'[job.cal].token = NewToken
      /\ covered'[job.cal] = IF ~job.full THEN covered[job.cal]
                             ELSE IF job.replace THEN {Asked} ELSE covered[job.cal] \cup {Asked}
      /\ \A c \in Cals \ {job.cal} : covered'[c] = covered[c]
  BY <1>1, Applying, Numbers, CommittedClaim DEF ApplyFinal, TypeOK
<1>3. outrun' = IF ~job.full \/ job.hydration THEN outrun
                ELSE IF "older" \in covered'[job.cal] THEN outrun \cup {job.cal}
                ELSE outrun \ {job.cal}
  BY DEF ApplyFinal
<1>4. CASE ~job.full
  <2>1. ~job.hydration /\ job.row.token = rows[job.cal].token
        /\ (job.row.token = NoTag => NewToken = NoTag)
    BY <1>1, <1>4, OldClaim DEF JobOK, FlagsOK, NewToken
  <2> QED
    BY <1>2, <1>3, <1>4, <2>1 DEF Promised, ClaimedRanges
<1>5. CASE job.full /\ job.hydration
  <2>1. ~job.replace /\ NewToken = rows[job.cal].token /\ Asked = "older"
    BY <1>1, <1>5, OldClaim DEF JobOK, FlagsOK, NewToken, Asked
  <2> QED
    BY <1>2, <1>3, <1>5, <2>1 DEF Promised, ClaimedRanges
<1>6. CASE job.full /\ ~job.hydration
  <2>1. Asked = "window" /\ Promised = {"window"}
    BY <1>6 DEF Asked, Promised
  <2>2. CASE "older" \in covered'[job.cal]
    BY <1>2, <1>3, <1>6, <2>1, <2>2
  <2>3. CASE "older" \notin covered'[job.cal]
    BY <1>2, <1>3, <1>6, <2>1, <2>3 DEF Ranges
  <2> QED
    BY <2>2, <2>3
<1>7. \A c \in Cals \ {job.cal} : c \in outrun' <=> c \in outrun
  BY <1>3
<1>8. job.full \in BOOLEAN /\ job.hydration \in BOOLEAN
  BY <1>1, RequestFields
<1> QED
  BY <1>2, <1>4, <1>5, <1>6, <1>7, <1>8

\* Everything is written: the new claim is true.
LEMMA FinalStep ==
    ASSUME TypeOK, TablesOK, JobOK, ApplyFinal
    PROVE  TablesOK' /\ JobOK'
<1>1. /\ Requesting /\ job.phase = "applying" /\ job.staged = {} /\ job.removed = {}
      /\ UNCHANGED <<remote, cache, changes>>
  BY DEF ApplyFinal, Requesting, server
<1>2. job.missing = {} /\ job.cal \in Cals
  BY <1>1, Applying
<1>3. CacheOK'
  BY <1>1 DEF TablesOK, CacheOK
<1>4. ASSUME NEW c \in Cals PROVE TagsOK(rows[c])'
  BY <1>1, <1>4, CommittedClaim DEF TablesOK, TagsOK
<1>5. ASSUME NEW c \in Cals \ {job.cal}
      PROVE  ClaimedUpTo(c)' = ClaimedUpTo(c) /\ ClaimedRanges(c)' = ClaimedRanges(c)
  BY <1>5, CommittedClaim, CommittedRanges DEF ClaimedUpTo, ClaimedRanges
<1>6. ASSUME NEW c \in Cals, c = job.cal
      PROVE  ClaimedUpTo(c)' = NewClaim /\ ClaimedRanges(c)' \subseteq Promised
  BY <1>6, CommittedClaim, CommittedRanges DEF ClaimedUpTo, ClaimedRanges, NewClaim
<1>7. ClaimIsTrue'
  <2> SUFFICES ASSUME NEW c \in Cals, NEW e \in Events,
                      remote[c][e].at <= ClaimedUpTo(c)',
                      {remote[c][e].place, cache[c][e].place} \cap ClaimedRanges(c)' # {}
               PROVE  Same(cache[c][e], remote[c][e])
    BY <1>1 DEF ClaimIsTrue
  <2>1. CASE c # job.cal
    BY <1>5, <2>1 DEF TablesOK, ClaimIsTrue
  <2>2. CASE c = job.cal
    BY <1>1, <1>2, <1>6, <2>2 DEF JobOK, ProgressOK
  <2> QED
    BY <2>1, <2>2
<1>8. TablesOK'
  BY <1>3, <1>4, <1>7 DEF TablesOK
<1>9. CASE job.hydration
  <2>1. job'.phase = "hydrating"
    BY <1>9 DEF ApplyFinal
  <2> QED
    BY <1>8, <2>1, JobRests
<1>10. CASE ~job.hydration
  <2>1. job'.phase = "next" /\ job'.left = job.left
    BY <1>10 DEF ApplyFinal
  <2>2. /\ job.cal \notin DOMAIN job.left /\ DOMAIN job.left \subseteq Cals
        /\ \A c \in DOMAIN job.left : TagsOK(job.left[c]) /\ SameClaim(rows[c], job.left[c])
    BY <1>1, RequestFields DEF JobOK, RowOK, ListOK
  <2>3. \A c \in DOMAIN job'.left : TagsOK(job.left[c])' /\ SameClaim(rows[c], job.left[c])'
    BY <1>1, <2>1, <2>2, CommittedClaim DEF TagsOK, SameClaim
  <2> QED
    BY <1>8, <2>1, <2>3, JobLists
<1>11. job.hydration \in BOOLEAN
  BY <1>1, RequestFields
<1> QED
  BY <1>9, <1>10, <1>11

-----------------------------------------------------------------------------
(* The theorems.                                                           *)

\* The invariant holds when nothing has been read.
LEMMA PullInvInit == Init => PullInv
<1> SUFFICES ASSUME Init PROVE PullInv
  OBVIOUS
<1>1. NoTag \in Tags /\ 0 \in 0 .. MaxChanges /\ NoTag <= 0
  BY PullAssumption DEF NoTag, Tags
<1>2. PICK place \in Ranges :
        remote = [c \in Cals |-> [e \in Events |-> [place |-> place, at |-> 0]]]
  BY DEF Init
<1>3. UnknownRow \in CalendarRows
  BY <1>1 DEF UnknownRow, CalendarRows
<1>4. /\ [place |-> place, at |-> 0] \in Resources /\ [place |-> Gone, at |-> 0] \in Resources
  BY <1>1 DEF Resources
<1>5. wanted \in Seq(Cals) /\ IsInjective(wanted)
  <2>1. <<>> \in Seq(Cals) /\ Len(<<>>) = 0 /\ DOMAIN <<>> = 1 .. Len(<<>>)
    OBVIOUS
  <2> QED
    BY <2>1 DEF IsInjective, Init
<1>6. \E S \in SUBSET Cals : job \in Jobs(S)
  BY RestingTyped DEF Init
<1>7. TypeOK
  BY <1>1, <1>2, <1>3, <1>4, <1>5, <1>6, PullAssumption DEF Init, TypeOK
<1>8. JobOK
  BY DEF Init, Idle, Requesting, JobOK, ListOK, RowOK, FlagsOK, StagedOK, RemovedOK, ProgressOK
<1>9. TablesOK
  BY <1>1, <1>2 DEF Init, TablesOK, CacheOK, ClaimIsTrue, ClaimedRanges, TagsOK, UnknownRow
<1> QED
  BY <1>7, <1>8, <1>9 DEF PullInv

\* Every step keeps it.
LEMMA PullInvStep == PullInv /\ [Next]_vars => PullInv'
<1> SUFFICES ASSUME PullInv, [Next]_vars PROVE PullInv'
  OBVIOUS
<1>1. TypeOK /\ TablesOK /\ JobOK
  BY DEF PullInv
<1>2. TypeOK'
  BY <1>1, TypeStep
<1>3. CASE UNCHANGED vars
  <2>1. UNCHANGED <<job, remote, cache, changes, covered, outrun, rows>>
    BY <1>3 DEF vars, server, local
  <2>2. \A c \in Cals : SameClaim(rows[c], rows'[c]) /\ TagsOK(rows'[c])
    BY <1>1, <2>1 DEF SameClaim, TablesOK
  <2> QED
    BY <1>1, <1>2, <2>1, <2>2, TablesKept, JobKept DEF PullInv
<1>4. CASE Next
  BY <1>1, <1>2, <1>4, ForeignChangeStep, OutsideStep, RestingStep, DiscoverStep,
     NextCalendarStep, NextHydrationStep, InsteadStep, QueryStep, ChangesStep, EtagsStep,
     MultigetStep, ResourceStep, RemoveStep, FinalStep
     DEF PullInv, Next, Answer, Continue
<1> QED
  BY <1>3, <1>4

\* PullInv is an invariant, for any number of calendars, resources, changes, commands
\* and faults.
LEMMA PullInvAlways == Spec => []PullInv
  BY PullInvInit, PullInvStep, PTL DEF Spec

\* The tables, and the job of the pull, always have their types.
THEOREM PullTypeCorrect == Spec => []TypeOK
<1>1. PullInv => TypeOK
  BY DEF PullInv
<1> QED
  BY <1>1, PullInvAlways, PTL

\* What the record of a calendar claims to include is in the local copy: no change is
\* skipped by a tag taken earlier than the contents, by an answer without data, a
\* refused token, a hydration, a failure or a crash between two transactions.
THEOREM ClaimCorrect == Spec => []ClaimIsTrue
<1>1. PullInv => ClaimIsTrue
  BY DEF PullInv, TablesOK
<1> QED
  BY <1>1, PullInvAlways, PTL

\* A preference set while an answer is applied is kept by the transactions that apply
\* it: those of the resources leave the rows, and the last one keeps the row's own
\* preferences.
THEOREM PreferencesSurviveCorrect == Spec => PreferencesSurviveApply
<1>1. PullInv /\ [Next]_vars =>
        [job.phase = "applying" /\ Preferences' # Preferences => UserSets]_vars
  <2> SUFFICES ASSUME PullInv, Next, job.phase = "applying", ~UserSets
               PROVE  Preferences' = Preferences
    OBVIOUS
  <2>1. TypeOK /\ Requesting
    BY DEF PullInv, Requesting
  <2>2. CASE ApplyFinal
    <3>1. job.cal \in Cals
      BY <2>1, RequestFields
    <3>2. \A r \in CalendarRows : \A t, g :
            LET q == [r EXCEPT !.synced = TRUE, !.token = t, !.syncedCtag = g]
            IN  q.enabled = r.enabled /\ q.muted = r.muted
      BY DEF CalendarRows
    <3>3. /\ Committed(job.cal).enabled = rows[job.cal].enabled
          /\ Committed(job.cal).muted = rows[job.cal].muted
      <4>1. Committed(job.cal) = [rows[job.cal] EXCEPT !.synced = TRUE, !.token = NewToken,
                                                       !.syncedCtag = NewCtag]
        BY DEF Committed, NewToken, NewCtag
      <4> QED
        BY <2>1, <3>1, <3>2, <4>1 DEF TypeOK
    <3>4. rows' = [rows EXCEPT ![job.cal] = Committed(job.cal)]
      BY <2>2 DEF ApplyFinal
    <3>5. \A c \in Cals : rows'[c].enabled = rows[c].enabled /\ rows'[c].muted = rows[c].muted
      BY <2>1, <3>1, <3>3, <3>4 DEF TypeOK
    <3> QED
      BY <3>5 DEF Preferences
  <2>3. CASE rows' = rows
    BY <2>3 DEF Preferences
  <2>4. \/ ApplyFinal \/ rows' = rows \/ DiscoverCollections \/ SyncNextCalendar
        \/ \E c \in Cals, enabled, muted \in BOOLEAN : SetPreferences(c, enabled, muted)
    BY DEF Next, Answer, Continue, User, ForeignChange, DeleteCollection, NewYear, SyncRange,
           StartSync, QueryAnswered, EtagsAnswered, MultigetAnswered, ChangesAnswered,
           EtagsFail, MultigetIncomplete, CollectionGone, AllCalendarsDone, ApplyResource,
           RemoveResource, SyncNextHydration, Finish, TokenRefused, RequestFails, Crash, local
  <2> QED
    BY <2>2, <2>3, <2>4 DEF DiscoverCollections, SyncNextCalendar, UserSets
<1> QED
  BY <1>1, PullInvAlways, PTL DEF Spec, PreferencesSurviveApply

-----------------------------------------------------------------------------
(* The password of an account.                                             *)

\* The one helper works for an account without a loaded password, which is
\* enabled unless the password is being removed; what it has done, it has seen.
HelperOK ==
    /\ helper # None => ~loaded
    /\ helper.kind \in {"store", "lookup"} => account.enabled
    /\ helper.kind = "store" => helper.value # NoPassword
    /\ helper.kind \in {"store", "lookup"} /\ helper.done => helper.value = keyring

\* The inductive invariant of an account.
AccountInv ==
    /\ AccountTypeOK /\ HelperOK
    /\ loaded => account.enabled
    /\ UsedIsStored
    /\ JobHasPassword

\* What the variables range over when there is something in them.
KeyringValues == {NoPassword} \cup Passwords

HelperRecords ==
    [kind : {"store", "lookup", "remove"}, done : BOOLEAN, value : KeyringValues]
SyncJobRecords == [kind : {"job"}, probing : BOOLEAN, discovered : BOOLEAN, cancelled : BOOLEAN]
AccountRecords == [enabled : BOOLEAN, status : Statuses]

\* A helper, a job and an account are there or are not.
LEMMA Shapes ==
    /\ \A h \in Helpers : h = None \/ h \in HelperRecords
    /\ \A h \in HelperRecords : h \in Helpers /\ h # None
    /\ None \in Helpers /\ None \in SyncJobs /\ None.kind = "none"
    /\ \A j \in SyncJobs : j = None \/ j \in SyncJobRecords
    /\ \A j \in SyncJobRecords : j \in SyncJobs /\ j # None
    /\ NewJob \in SyncJobRecords /\ ~NewJob.cancelled
    /\ \A j \in SyncJobRecords : [j EXCEPT !.cancelled = TRUE] \in SyncJobRecords
                             /\ [j EXCEPT !.cancelled = TRUE].cancelled
    /\ NoAccount \in Accounts /\ ~NoAccount.enabled
    /\ \A a \in Accounts : a = NoAccount \/ a \in AccountRecords
    /\ \A a \in AccountRecords : a \in Accounts
<1>1. None.kind = "none" /\ None \in Helpers /\ None \in SyncJobs
  BY DEF None, Helpers, SyncJobs
<1>2. \A h \in Helpers : h = None \/ h \in HelperRecords
  BY DEF Helpers, HelperRecords, KeyringValues
<1>3. \A h \in HelperRecords : h \in Helpers /\ h # None
  BY DEF Helpers, HelperRecords, KeyringValues, None
<1>4. \A j \in SyncJobs : j = None \/ j \in SyncJobRecords
  BY DEF SyncJobs, SyncJobRecords
<1>5. \A j \in SyncJobRecords : j \in SyncJobs /\ j # None
  BY DEF SyncJobs, SyncJobRecords, None
<1>6. NewJob \in SyncJobRecords /\ ~NewJob.cancelled
  BY DEF NewJob, SyncJobRecords
<1>7. \A j \in SyncJobRecords : [j EXCEPT !.cancelled = TRUE] \in SyncJobRecords
                             /\ [j EXCEPT !.cancelled = TRUE].cancelled
  BY DEF SyncJobRecords
<1>8. NoAccount \in Accounts /\ ~NoAccount.enabled
  BY DEF NoAccount, Accounts
<1>9. \A a \in Accounts : a = NoAccount \/ a \in AccountRecords
  BY DEF Accounts, AccountRecords
<1>10. \A a \in AccountRecords : a \in Accounts
  BY DEF Accounts, AccountRecords
<1> QED
  BY <1>1, <1>2, <1>3, <1>4, <1>5, <1>6, <1>7, <1>8, <1>9, <1>10

\* A new helper has not done anything yet.
LEMMA NewHelperIs ==
    ASSUME NEW kind \in {"store", "lookup", "remove"}, NEW value \in KeyringValues
    PROVE  /\ NewHelper(kind, value) \in HelperRecords
           /\ NewHelper(kind, value).kind = kind /\ NewHelper(kind, value).value = value
           /\ ~NewHelper(kind, value).done
  BY DEF NewHelper, HelperRecords

\* A job that is cancelled has no password to have.
LEMMA CancelledIs ==
    ASSUME NEW j \in SyncJobs
    PROVE  /\ Cancelled(j) \in SyncJobs
           /\ Cancelled(j) = None \/ Cancelled(j).cancelled
  BY Shapes DEF Cancelled

\* setAccountAuthStatus does not enable or disable an account.
LEMMA WithStatusIs ==
    ASSUME AccountTypeOK, NEW status \in Statuses, account.enabled
    PROVE  /\ WithStatus(status) \in AccountRecords
           /\ WithStatus(status).enabled /\ WithStatus(status).status = status
<1>1. account \in AccountRecords /\ account # NoAccount
  BY Shapes DEF AccountTypeOK
<1>2. WithStatus(status) = [account EXCEPT !.status = status]
  BY <1>1 DEF WithStatus, Exists
<1> QED
  BY <1>1, <1>2 DEF AccountRecords

\* The bound on faults.
LEMMA FaultBound ==
    ASSUME AccountAssumption, AccountTypeOK, UNCHANGED accountFaults \/ \E kind : AccountFault(kind)
    PROVE  accountFaults' \in 0 .. MaxAccountFaults
<1>1. accountFaults \in 0 .. MaxAccountFaults /\ MaxAccountFaults \in Nat
  BY DEF AccountTypeOK, AccountAssumption
<1>2. \/ accountFaults' = accountFaults
      \/ accountFaults < MaxAccountFaults /\ accountFaults' = accountFaults + 1
  BY DEF AccountFault
<1> QED
  BY <1>1, <1>2

\* The callbacks of store and lookup that report a failure.
LEMMA CredentialFailureStep ==
    ASSUME AccountInv, helper.kind \in {"store", "lookup"}, CredentialFailure,
           UNCHANGED <<keyring, syncJob, syncAfter, entered, revoked>>,
           accountFaults' \in 0 .. MaxAccountFaults
    PROVE  AccountInv'
<1>1. account.enabled /\ helper # None
  BY Shapes DEF AccountInv, HelperOK
<1>2. /\ account' \in AccountRecords /\ account'.enabled
      /\ account'.status = "reauthorization_required"
  BY <1>1, WithStatusIs DEF CredentialFailure, AccountInv, Statuses
<1>3. /\ loading' = FALSE /\ loaded' = FALSE /\ client' = NoPassword /\ helper' = None
  BY DEF CredentialFailure
<1>4. AccountTypeOK'
  BY <1>2, <1>3, Shapes DEF AccountInv, AccountTypeOK
<1>5. HelperOK' /\ UsedIsStored'
  BY <1>3, Shapes DEF HelperOK, UsedIsStored
<1>6. JobHasPassword'
  BY <1>1, <1>3 DEF AccountInv, JobHasPassword
<1> QED
  BY <1>2, <1>3, <1>4, <1>5, <1>6 DEF AccountInv

\* AccountInv is inductive.
LEMMA AccountInvStep ==
    ASSUME AccountAssumption, AccountInv, [AccountNext]_accountVars
    PROVE  AccountInv'
<1>0. AccountTypeOK /\ HelperOK /\ UsedIsStored /\ JobHasPassword /\ (loaded => account.enabled)
  BY DEF AccountInv
<1>1. CASE CreateAccount
  <2>1. /\ ~loaded /\ syncJob' = None /\ entered' = entered + 1 /\ entered' \in Passwords
        /\ account' = [enabled |-> TRUE, status |-> "credential_storage_pending"]
        /\ helper' = NewHelper("store", entered')
        /\ UNCHANGED <<keyring, client, loaded, loading, syncAfter, revoked, accountFaults>>
    BY <1>0, <1>1, Shapes, AccountAssumption
       DEF CreateAccount, Exists, AccountTypeOK, Passwords, AccountAssumption
  <2>2. /\ helper' \in HelperRecords /\ helper'.kind = "store"
        /\ helper'.value = entered' /\ ~helper'.done
    BY <2>1, NewHelperIs DEF KeyringValues
  <2>3. account' \in AccountRecords /\ account'.enabled /\ account'.status # "disconnected"
    BY <2>1 DEF AccountRecords, Statuses
  <2>4. AccountTypeOK'
    BY <1>0, <2>1, <2>2, <2>3, Shapes DEF AccountTypeOK, Passwords
  <2>5. HelperOK' /\ UsedIsStored' /\ JobHasPassword'
    BY <2>1, <2>2, <2>3 DEF HelperOK, UsedIsStored, JobHasPassword, Passwords, NoPassword
  <2> QED
    BY <2>1, <2>4, <2>5 DEF AccountInv
<1>2. CASE UpdateCredentials
  <2>1. /\ ~loaded' /\ syncJob' = Cancelled(syncJob)
        /\ entered' = entered + 1 /\ entered' \in Passwords
        /\ account' = [enabled |-> TRUE, status |-> "credential_storage_pending"]
        /\ helper' = NewHelper("store", entered') /\ client' = NoPassword /\ loaded' = FALSE
        /\ UNCHANGED <<keyring, loading, syncAfter, revoked, accountFaults>>
    BY <1>0, <1>2, AccountAssumption
       DEF UpdateCredentials, AccountTypeOK, Passwords, AccountAssumption
  <2>2. /\ helper' \in HelperRecords /\ helper'.kind = "store"
        /\ helper'.value = entered' /\ ~helper'.done
    BY <2>1, NewHelperIs DEF KeyringValues
  <2>3. account' \in AccountRecords /\ account'.enabled /\ account'.status # "disconnected"
    BY <2>1 DEF AccountRecords, Statuses
  <2>4. syncJob' \in SyncJobs /\ (syncJob' = None \/ syncJob'.cancelled)
    BY <1>0, <2>1, CancelledIs DEF AccountTypeOK
  <2>5. AccountTypeOK'
    <3>1. revoked' \subseteq 1 .. entered' /\ entered' \in 0 .. MaxPasswords
      BY <1>0, <2>1 DEF AccountTypeOK, Passwords
    <3> QED
      BY <1>0, <2>1, <2>2, <2>3, <2>4, <3>1, Shapes DEF AccountTypeOK
  <2>6. HelperOK' /\ UsedIsStored' /\ JobHasPassword'
    BY <2>1, <2>2, <2>3, <2>4 DEF HelperOK, UsedIsStored, JobHasPassword, Passwords, NoPassword
  <2> QED
    BY <2>1, <2>5, <2>6 DEF AccountInv
<1>3. ASSUME NEW removeData \in BOOLEAN, NEW applying \in BOOLEAN,
             DisconnectAccount(removeData, applying)
      PROVE  AccountInv'
  <2>1. /\ loaded' = FALSE /\ loading' = FALSE /\ client' = NoPassword /\ syncAfter' = FALSE
        /\ syncJob' = None \/ syncJob' = Cancelled(syncJob)
        /\ helper' = NewHelper("remove", NoPassword)
        /\ \/ account' = NoAccount
           \/ account' = [enabled |-> FALSE, status |-> "disconnected"]
        /\ UNCHANGED <<keyring, entered, revoked, accountFaults>>
    BY <1>3 DEF DisconnectAccount
  <2>2. /\ helper' \in HelperRecords /\ helper'.kind = "remove"
    BY <2>1, NewHelperIs DEF KeyringValues
  <2>3. /\ account' \in Accounts /\ ~account'.enabled
        /\ account' # NoAccount => account'.status = "disconnected"
    <3>1. CASE account' = NoAccount
      BY <3>1, Shapes
    <3>2. CASE account' = [enabled |-> FALSE, status |-> "disconnected"]
      <4>1. account' \in AccountRecords
        BY <3>2 DEF AccountRecords, Statuses
      <4> QED
        BY <3>2, <4>1, Shapes
    <3> QED
      BY <2>1, <3>1, <3>2
  <2>4. syncJob' \in SyncJobs /\ (syncJob' = None \/ syncJob'.cancelled)
    BY <1>0, <2>1, CancelledIs, Shapes DEF AccountTypeOK
  <2>5. AccountTypeOK'
    BY <1>0, <2>1, <2>2, <2>3, <2>4, Shapes DEF AccountTypeOK
  <2>6. HelperOK' /\ UsedIsStored' /\ JobHasPassword'
    BY <2>1, <2>2, <2>3, <2>4 DEF HelperOK, UsedIsStored, JobHasPassword
  <2> QED
    BY <2>1, <2>5, <2>6 DEF AccountInv
<1>4. CASE Probe
  <2>1. /\ loaded /\ syncJob' = [NewJob EXCEPT !.probing = TRUE]
        /\ UNCHANGED <<account, keyring, helper, client, loaded, loading, syncAfter,
                       entered, revoked, accountFaults>>
    BY <1>4 DEF Probe
  <2>2. syncJob' \in SyncJobRecords
    BY <2>1 DEF NewJob, SyncJobRecords
  <2>3. AccountTypeOK'
    BY <1>0, <2>1, <2>2, Shapes DEF AccountTypeOK
  <2>4. HelperOK' /\ UsedIsStored' /\ JobHasPassword'
    BY <1>0, <2>1 DEF HelperOK, UsedIsStored, JobHasPassword
  <2> QED
    BY <1>0, <2>1, <2>3, <2>4 DEF AccountInv
<1>5. CASE SyncAccount
  <2>1. /\ syncJob = None /\ account.enabled
        /\ UNCHANGED <<account, keyring, client, loaded, syncAfter, entered, revoked,
                       accountFaults>>
        /\ \/ loaded /\ syncJob' = NewJob /\ UNCHANGED <<helper, loading>>
           \/ ~loaded /\ syncJob' = None /\ UNCHANGED <<helper, loading>>
           \/ ~loaded /\ syncJob' = None /\ helper' = NewHelper("lookup", NoPassword) /\ loading' = TRUE
    BY <1>5 DEF SyncAccount, LoadCredentials
  <2>2. /\ NewHelper("lookup", NoPassword) \in HelperRecords
        /\ NewHelper("lookup", NoPassword).kind = "lookup"
        /\ ~NewHelper("lookup", NoPassword).done
    BY NewHelperIs DEF KeyringValues
  <2>3. AccountTypeOK'
    BY <1>0, <2>1, <2>2, Shapes DEF AccountTypeOK
  <2>4. HelperOK'
    BY <1>0, <2>1, <2>2 DEF HelperOK
  <2>5. UsedIsStored' /\ JobHasPassword'
    BY <1>0, <2>1 DEF HelperOK, UsedIsStored, JobHasPassword
  <2> QED
    BY <1>0, <2>1, <2>3, <2>4, <2>5 DEF AccountInv
<1>6. CASE \/ CacheUnreadable
           \/ \E p \in Passwords : Revoke(p)
           \/ UNCHANGED accountVars
  <2>1. UNCHANGED <<account, keyring, helper, client, loaded, loading, syncJob, syncAfter, entered>>
    BY <1>6 DEF CacheUnreadable, Revoke, accountVars
  <2>2. accountFaults' \in 0 .. MaxAccountFaults
    BY <1>0, <1>6, FaultBound DEF CacheUnreadable, Revoke, accountVars
  <2>3. revoked' \subseteq 1 .. entered
    BY <1>0, <1>6 DEF CacheUnreadable, Revoke, accountVars, AccountTypeOK
  <2> QED
    BY <1>0, <2>1, <2>2, <2>3
       DEF AccountInv, AccountTypeOK, HelperOK, UsedIsStored, JobHasPassword
<1>7. CASE CollectionsDiscovered
  <2>1. /\ syncJob # None /\ ~syncJob.cancelled /\ account' = WithStatus("connected")
        /\ syncJob' = [syncJob EXCEPT !.discovered = TRUE]
        /\ UNCHANGED <<keyring, helper, client, loaded, loading, syncAfter, entered,
                       revoked, accountFaults>>
    BY <1>7 DEF CollectionsDiscovered
  <2>2. loaded /\ helper = None /\ account.enabled
    BY <1>0, <2>1 DEF JobHasPassword
  <2>3. account' \in AccountRecords /\ account'.enabled /\ account'.status = "connected"
    BY <1>0, <2>1, <2>2, WithStatusIs DEF Statuses
  <2>4. syncJob \in SyncJobRecords
    BY <1>0, <2>1, Shapes DEF AccountTypeOK
  <2>5. syncJob' \in SyncJobRecords
    BY <2>1, <2>4 DEF SyncJobRecords
  <2>6. AccountTypeOK'
    BY <1>0, <2>1, <2>2, <2>3, <2>5, Shapes DEF AccountTypeOK
  <2>7. HelperOK' /\ UsedIsStored' /\ JobHasPassword'
    BY <1>0, <2>1, <2>2, <2>3 DEF HelperOK, UsedIsStored, JobHasPassword
  <2> QED
    BY <2>3, <2>6, <2>7 DEF AccountInv
<1>8. CASE JobEnds \/ JobFails
  <2>1. /\ syncJob # None /\ syncJob' = None /\ syncAfter' = FALSE
        /\ \/ account' = account
           \/ ~syncJob.cancelled /\ account' = WithStatus("reauthorization_required")
        /\ UNCHANGED <<keyring, helper, client, loaded, loading, entered, revoked>>
    BY <1>8 DEF JobEnds, JobFails, EndJob
  <2>2. accountFaults' \in 0 .. MaxAccountFaults
    BY <1>0, <1>8, FaultBound DEF JobEnds, JobFails
  <2>3. ~syncJob.cancelled => loaded /\ helper = None /\ account.enabled
    BY <1>0, <2>1 DEF JobHasPassword
  <2>4. \/ account' = account
        \/ /\ account' \in AccountRecords /\ account'.enabled /\ helper = None
           /\ account'.status = "reauthorization_required"
    BY <1>0, <2>1, <2>3, WithStatusIs DEF Statuses
  <2>5. AccountTypeOK'
    BY <1>0, <2>1, <2>2, <2>4, Shapes DEF AccountTypeOK
  <2>6. HelperOK' /\ UsedIsStored' /\ JobHasPassword' /\ (loaded' => account'.enabled)
    BY <1>0, <2>1, <2>4, Shapes DEF HelperOK, UsedIsStored, JobHasPassword
  <2> QED
    BY <2>5, <2>6 DEF AccountInv
<1>9. CASE HelperWorks
  <2>1. /\ helper # None /\ helper \in HelperRecords /\ ~helper.done /\ ~loaded
        /\ keyring \in KeyringValues
    BY <1>0, <1>9, Shapes DEF HelperWorks, AccountTypeOK, HelperOK, KeyringValues
  <2>2. /\ helper.kind = "store" => keyring' = helper.value
        /\ helper.kind = "remove" => keyring' = NoPassword
        /\ helper.kind = "lookup" => keyring' = keyring
    BY <1>9 DEF HelperWorks
  <2>3. helper.kind \in {"store", "lookup", "remove"} /\ helper.value \in KeyringValues
    BY <2>1 DEF HelperRecords
  <2>4. keyring' \in KeyringValues
    BY <2>1, <2>2, <2>3 DEF KeyringValues
  <2> DEFINE value == IF helper.kind = "lookup" THEN keyring ELSE helper.value
  <2>5. helper' = [helper EXCEPT !.done = TRUE, !.value = value]
    BY <1>9 DEF HelperWorks
  <2>6. /\ value \in KeyringValues
        /\ helper.kind = "lookup" => value = keyring
        /\ helper.kind # "lookup" => value = helper.value
    BY <2>1, <2>3
  <2> HIDE DEF value
  <2>7. /\ helper' \in HelperRecords /\ helper'.kind = helper.kind
        /\ helper'.value = value
    BY <2>1, <2>5, <2>6 DEF HelperRecords
  <2>8. UNCHANGED <<account, client, loaded, loading, syncJob, syncAfter, entered, revoked,
                    accountFaults>>
    BY <1>9 DEF HelperWorks
  <2>9. AccountTypeOK'
    BY <1>0, <2>4, <2>7, <2>8, Shapes DEF AccountTypeOK, KeyringValues
  <2>10. HelperOK'
    BY <1>0, <2>1, <2>2, <2>3, <2>6, <2>7, <2>8 DEF HelperOK
  <2>11. UsedIsStored' /\ JobHasPassword'
    BY <1>0, <2>1, <2>8 DEF UsedIsStored, JobHasPassword
  <2> QED
    BY <1>0, <2>8, <2>9, <2>10, <2>11 DEF AccountInv
<1>10. CASE Stored
  <2>1. /\ helper.kind = "store" /\ helper.done /\ client' = helper.value /\ loaded' = TRUE
        /\ account' = WithStatus("connecting") /\ helper' = None
        /\ \/ syncJob # None /\ syncAfter' = TRUE /\ syncJob' = syncJob
           \/ syncJob = None /\ syncJob' = NewJob /\ syncAfter' = syncAfter
        /\ UNCHANGED <<keyring, loading, entered, revoked, accountFaults>>
    BY <1>10 DEF Stored
  <2>2. helper.value = keyring /\ helper.value # NoPassword /\ account.enabled
    BY <1>0, <2>1 DEF HelperOK
  <2>3. account' \in AccountRecords /\ account'.enabled /\ account'.status = "connecting"
    BY <1>0, <2>1, <2>2, WithStatusIs DEF Statuses
  <2>4. AccountTypeOK'
    BY <1>0, <2>1, <2>2, <2>3, Shapes DEF AccountTypeOK
  <2>5. HelperOK' /\ UsedIsStored' /\ JobHasPassword'
    BY <2>1, <2>2, Shapes DEF HelperOK, UsedIsStored, JobHasPassword
  <2> QED
    BY <2>3, <2>4, <2>5 DEF AccountInv
<1>11. CASE Found
  <2>1. /\ helper.kind = "lookup" /\ helper.done /\ helper.value # NoPassword
        /\ client' = helper.value /\ loaded' = TRUE /\ loading' = FALSE /\ helper' = None
        /\ syncJob' = IF syncJob = None THEN NewJob ELSE syncJob
        /\ UNCHANGED <<account, keyring, syncAfter, entered, revoked, accountFaults>>
    BY <1>11 DEF Found
  <2>2. helper.value = keyring /\ account.enabled
    BY <1>0, <2>1 DEF HelperOK
  <2>3. AccountTypeOK'
    BY <1>0, <2>1, <2>2, Shapes DEF AccountTypeOK
  <2>4. HelperOK' /\ UsedIsStored' /\ JobHasPassword'
    BY <2>1, <2>2, Shapes DEF HelperOK, UsedIsStored, JobHasPassword
  <2> QED
    BY <2>1, <2>2, <2>3, <2>4 DEF AccountInv
<1>12. CASE NotFound \/ HelperFails
  <2>1. accountFaults' \in 0 .. MaxAccountFaults
    BY <1>0, <1>12, FaultBound DEF NotFound, HelperFails
  <2> QED
    BY <1>12, <2>1, CredentialFailureStep DEF NotFound, HelperFails
<1>13. CASE RemovalEnds
  <2>1. /\ helper.kind = "remove" /\ helper' = None
        /\ UNCHANGED <<account, keyring, client, loaded, loading, syncJob, syncAfter, entered,
                       revoked>>
    BY <1>13 DEF RemovalEnds
  <2>2. accountFaults' \in 0 .. MaxAccountFaults
    BY <1>0, <1>13, FaultBound DEF RemovalEnds
  <2>3. AccountTypeOK'
    BY <1>0, <2>1, <2>2, Shapes DEF AccountTypeOK
  <2>4. HelperOK' /\ UsedIsStored' /\ JobHasPassword'
    BY <1>0, <2>1, Shapes DEF HelperOK, UsedIsStored, JobHasPassword
  <2> QED
    BY <1>0, <2>1, <2>3, <2>4 DEF AccountInv
<1>14. CASE DaemonDies
  <2>1. /\ helper' = None /\ client' = NoPassword
        /\ loaded' = FALSE /\ loading' = FALSE /\ syncJob' = None /\ syncAfter' = FALSE
        /\ UNCHANGED <<account, keyring, entered, revoked>>
    BY <1>14 DEF DaemonDies
  <2>2. accountFaults' \in 0 .. MaxAccountFaults
    BY <1>0, <1>14, FaultBound DEF DaemonDies
  <2>3. AccountTypeOK'
    BY <1>0, <2>1, <2>2, Shapes DEF AccountTypeOK
  <2>4. HelperOK' /\ UsedIsStored' /\ JobHasPassword'
    BY <2>1, Shapes DEF HelperOK, UsedIsStored, JobHasPassword
  <2> QED
    BY <2>1, <2>3, <2>4 DEF AccountInv
<1> QED
  BY <1>1, <1>2, <1>3, <1>4, <1>5, <1>6, <1>7, <1>8, <1>9, <1>10, <1>11, <1>12, <1>13,
     <1>14 DEF AccountNext

\* Before the first account there is no password at all.
LEMMA AccountInvInit ==
    ASSUME AccountAssumption, AccountInit
    PROVE  AccountInv
<1>1. AccountTypeOK
  <2>1. 0 \in 0 .. MaxPasswords /\ 0 \in 0 .. MaxAccountFaults /\ {} \subseteq 1 .. 0
    BY DEF AccountAssumption
  <2> QED
    BY <2>1, Shapes DEF AccountInit, AccountTypeOK
<1>2. HelperOK /\ UsedIsStored /\ JobHasPassword
  BY Shapes DEF AccountInit, HelperOK, UsedIsStored, JobHasPassword
<1> QED
  BY <1>1, <1>2 DEF AccountInit, AccountInv

\* The state keeps its types, and only an account that is not enabled has its
\* password taken out of the keyring.
THEOREM AccountTypeCorrect == AccountSpec => []AccountTypeOK
<1>1. AccountInv => AccountTypeOK
  BY DEF AccountInv
<1> QED
  BY <1>1, AccountAssumption, AccountInvInit, AccountInvStep, PTL DEF AccountSpec

\* The password in use is the one that a restart will find in the keyring,
\* whichever helper was killed, timed out or reported late.
THEOREM UsedIsStoredCorrect == AccountSpec => []UsedIsStored
<1>1. AccountInv => UsedIsStored
  BY DEF AccountInv
<1> QED
  BY <1>1, AccountAssumption, AccountInvInit, AccountInvStep, PTL DEF AccountSpec

\* A job that goes on has a password, and no helper is at the keyring.
THEOREM JobHasPasswordCorrect == AccountSpec => []JobHasPassword
<1>1. AccountInv => JobHasPassword
  BY DEF AccountInv
<1> QED
  BY <1>1, AccountAssumption, AccountInvInit, AccountInvStep, PTL DEF AccountSpec

\* What a step does to an account that was disconnected.
LEMMA DisconnectedStep ==
    ASSUME AccountInv, [AccountNext]_accountVars, Exists, ~account.enabled, account' # account
    PROVE  UpdateCredentials \/ \E applying \in BOOLEAN : DisconnectAccount(TRUE, applying)
<1>1. /\ ~loaded /\ helper.kind \notin {"store", "lookup"}
      /\ syncJob = None \/ syncJob.cancelled
  BY DEF AccountInv, HelperOK, JobHasPassword
<1>2. ~CreateAccount
  BY DEF CreateAccount
<1>6. \A applying \in BOOLEAN : ~DisconnectAccount(FALSE, applying)
  <2>1. account = [enabled |-> FALSE, status |-> "disconnected"]
    BY DEF AccountInv, AccountTypeOK, Accounts, Exists, NoAccount
  <2> QED
    BY <2>1 DEF DisconnectAccount
<1>3. ~ (CollectionsDiscovered \/ JobEnds \/ JobFails)
  BY <1>1 DEF CollectionsDiscovered, JobEnds, JobFails, EndJob
<1>4. ~ (Stored \/ NotFound \/ HelperFails)
  BY <1>1 DEF Stored, NotFound, HelperFails
<1>5. ~ (\/ Probe \/ SyncAccount \/ CacheUnreadable \/ HelperWorks \/ Found \/ RemovalEnds
         \/ \E p \in Passwords : Revoke(p)
         \/ DaemonDies \/ UNCHANGED accountVars)
  BY DEF Probe, SyncAccount, CacheUnreadable, HelperWorks, Found, RemovalEnds, Revoke,
         DaemonDies, accountVars
<1> QED
  BY <1>2, <1>3, <1>4, <1>5, <1>6 DEF AccountNext

\* No answer that comes late changes an account that was disconnected: only
\* new credentials, and its removal, do.
THEOREM DisconnectedCorrect == AccountSpec => DisconnectedStays
<1>1. AccountInv /\ [AccountNext]_accountVars =>
        [Exists /\ ~account.enabled /\ account' # account =>
            UpdateCredentials \/ \E applying \in BOOLEAN : DisconnectAccount(TRUE, applying)
        ]_accountVars
  BY DisconnectedStep
<1> QED
  BY <1>1, AccountAssumption, AccountInvInit, AccountInvStep, PTL DEF AccountSpec, DisconnectedStays
=============================================================================
