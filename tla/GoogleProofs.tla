---------------------------- MODULE GoogleProofs ----------------------------
(***************************************************************************)
(* Proofs about the record of synchronised ranges of a Google calendar     *)
(* (GoogleRangeSync), for every number of events and days, every width of  *)
(* the window, every limit on requests and every order of changes,         *)
(* requests and faults, and about the authorization of the account         *)
(* (GoogleAccount), for every number of tokens and faults and every order  *)
(* of helpers, answers, commands and crashes. The two have no state in     *)
(* common.                                                                 *)
(*                                                                         *)
(*   SyncInv is inductive: the types, and what a listing under way says.   *)
(*   A lemma on Merged carries the intervals: they stay apart, and stand   *)
(*     for exactly the old days and the new ones.                          *)
(*   FreshInv is inductive given SyncInv: what the rows, the conflicts and *)
(*     the pages of a listing say of the server, for as long as the window *)
(*     stands where it stood at first; hence CoveredIsFresh.               *)
(*   AuthInv is inductive: the types, and what a session, a lookup that    *)
(*     waits, a job and a disconnection may each assume of the account and *)
(*     of the keyring.  The heart of it is that a session which knows of   *)
(*     no stored token belongs to an account that is not connected, and    *)
(*     that nothing else is going on while an account is being             *)
(*     disconnected: both would be lost to a late answer if a generation   *)
(*     were not ended.                                                     *)
(***************************************************************************)
EXTENDS GoogleRangeSync, GoogleAccount, WellFoundedInduction, TLAPS

-----------------------------------------------------------------------------
(* Least and greatest elements.                                            *)

\* A nonempty set of naturals has a least element.
LEMMA LeastDay ==
    ASSUME NEW S, S \subseteq Nat, S # {}
    PROVE  \E m \in S : \A x \in S : m <= x
<1>1. PICK m \in S : \A x \in S : ~ (<<x, m>> \in OpToRel(<, Nat))
  BY NatLessThanWellFounded, WFMin
<1>2. \A x \in S : ~ (x < m)
  BY <1>1 DEF OpToRel
<1> QED
  BY <1>2

\* Min and Max of a nonempty set of days.
LEMMA MinMaxOf ==
    ASSUME NEW N \in Nat, NEW S, S \subseteq 0 .. N, S # {}
    PROVE  /\ Min(S) \in S /\ \A x \in S : Min(S) <= x
           /\ Max(S) \in S /\ \A x \in S : x <= Max(S)
<1>1. PICK m \in S : \A x \in S : m <= x
  <2>1. S \subseteq Nat
    OBVIOUS
  <2> QED
    BY <2>1, LeastDay
<1>2. \E g \in S : \A x \in S : g >= x
  <2>0. \A x \in S : x \in Int
    OBVIOUS
  <2> DEFINE T == {N - x : x \in S}
  <2>1. T \subseteq Nat /\ T # {}
    OBVIOUS
  <2>2. PICK t \in T : \A x \in T : t <= x
    BY <2>1, LeastDay
  <2>3. PICK g \in S : t = N - g
    BY <2>2
  <2> HIDE DEF T
  <2>4. ASSUME NEW x \in S PROVE g >= x
    <3>1. N - g <= N - x
      BY <2>2, <2>3 DEF T
    <3> QED
      BY <2>0, <3>1
  <2> QED
    BY <2>4
<1>3. Min(S) \in S /\ \A x \in S : Min(S) <= x
  BY <1>1 DEF Min
<1>4. Max(S) \in S /\ \A x \in S : Max(S) >= x
  BY <1>2 DEF Max
<1>5. \A x \in S : Max(S) >= x <=> x <= Max(S)
  BY <1>4
<1> QED
  BY <1>3, <1>4, <1>5

-----------------------------------------------------------------------------
(* mergeSyncCoverageInternal.                                              *)

\* CoverageSeparated, of any set of intervals.
Separated(intervals) ==
    \A i, j \in intervals : i # j => i[2] < j[1] \/ j[2] < i[1]

\* A day of a set of intervals is a day of one of them.
LEMMA DayOf ==
    ASSUME NEW I, NEW d
    PROVE  d \in DaysOf(I) <=> \E i \in I : d \in Days /\ i[1] <= d /\ d < i[2]
  BY DEF DaysOf, Within

\* The ends of the interval that a range is merged into: the range's, or those
\* of intervals near it.
LEMMA MergedEnds ==
    ASSUME MaxDay \in Nat, NEW I \in SUBSET Intervals,
           NEW lo \in 0 .. MaxDay, NEW hi \in 0 .. MaxDay
    PROVE  LET near == Touching(I, lo, hi)
               start == Min({lo} \cup {i[1] : i \in near})
               end == Max({hi} \cup {i[2] : i \in near})
           IN  /\ start \in 0 .. MaxDay /\ end \in 0 .. MaxDay
               /\ start <= lo /\ hi <= end
               /\ \A i \in near : start <= i[1] /\ i[2] <= end
               /\ start = lo \/ \E i \in near : start = i[1]
               /\ end = hi \/ \E i \in near : end = i[2]
<1> DEFINE near == Touching(I, lo, hi)
           starts == {lo} \cup {i[1] : i \in near}
           ends == {hi} \cup {i[2] : i \in near}
<1>1. near \subseteq Intervals
  BY DEF Touching
<1>2. \A i \in near : i[1] \in 0 .. MaxDay /\ i[2] \in 0 .. MaxDay
  BY <1>1 DEF Intervals
<1>3. starts \subseteq 0 .. MaxDay /\ lo \in starts /\ \A i \in near : i[1] \in starts
  BY <1>2
<1>4. ends \subseteq 0 .. MaxDay /\ hi \in ends /\ \A i \in near : i[2] \in ends
  BY <1>2
<1>5. \A x \in starts : x = lo \/ \E i \in near : x = i[1]
  OBVIOUS
<1>6. \A x \in ends : x = hi \/ \E i \in near : x = i[2]
  OBVIOUS
<1>7. Min(starts) \in starts /\ \A x \in starts : Min(starts) <= x
  BY <1>3, MinMaxOf
<1>8. Max(ends) \in ends /\ \A x \in ends : x <= Max(ends)
  BY <1>4, MinMaxOf
<1> HIDE DEF near, starts, ends
<1>9. /\ Min(starts) \in 0 .. MaxDay /\ Max(ends) \in 0 .. MaxDay
      /\ Min(starts) <= lo /\ hi <= Max(ends)
      /\ \A i \in near : Min(starts) <= i[1] /\ i[2] <= Max(ends)
      /\ Min(starts) = lo \/ \E i \in near : Min(starts) = i[1]
      /\ Max(ends) = hi \/ \E i \in near : Max(ends) = i[2]
  BY <1>3, <1>4, <1>5, <1>6, <1>7, <1>8
<1> QED
  BY <1>9 DEF near, starts, ends

\* Merging a range into separated intervals leaves separated intervals, which
\* stand for the old days and the range's, and for no others.
LEMMA MergedIs ==
    ASSUME MaxDay \in Nat, NEW I \in SUBSET Intervals, Separated(I),
           NEW lo \in 0 .. MaxDay, NEW hi \in 0 .. MaxDay, lo < hi
    PROVE  /\ Merged(I, lo, hi) \subseteq Intervals
           /\ Separated(Merged(I, lo, hi))
           /\ DaysOf(Merged(I, lo, hi)) = DaysOf(I) \cup Within(lo, hi)
           /\ \A i \in I \cup {<<lo, hi>>} : \E m \in Merged(I, lo, hi) :
                Covers(m, i[1], i[2])
<1> DEFINE near == Touching(I, lo, hi)
           start == Min({lo} \cup {i[1] : i \in near})
           end == Max({hi} \cup {i[2] : i \in near})
           M == (I \ Touching(I, start, end)) \cup {<<start, end>>}
<1>1. /\ start \in 0 .. MaxDay /\ end \in 0 .. MaxDay
      /\ start <= lo /\ hi <= end
      /\ \A i \in near : start <= i[1] /\ i[2] <= end
      /\ start = lo \/ \E i \in near : start = i[1]
      /\ end = hi \/ \E i \in near : end = i[2]
  BY MergedEnds
<1>2. \A i \in I : i \in near <=> i[2] >= lo /\ i[1] <= hi
  BY DEF Touching
<1>3. \A i \in I : i \in Touching(I, start, end) <=> i[2] >= start /\ i[1] <= end
  BY DEF Touching
<1>4. near \subseteq I
  BY DEF Touching
<1>5. \A i \in I : i[1] \in 0 .. MaxDay /\ i[2] \in 0 .. MaxDay /\ i[1] < i[2]
  BY DEF Intervals
<1>6. Merged(I, lo, hi) = M
  BY DEF Merged
<1> HIDE DEF near, start, end
<1> DEFINE new == <<start, end>>
<1>7. new \in Intervals /\ new[1] = start /\ new[2] = end
  BY <1>1 DEF Intervals
<1>8. M \subseteq Intervals
  BY <1>7
<1>9. Separated(M)
  <2>1. ASSUME NEW i \in I \ Touching(I, start, end)
        PROVE  i[2] < start \/ end < i[1]
    BY <1>1, <1>3, <1>5
  <2>2. ASSUME NEW i \in M, NEW j \in M, i # j PROVE i[2] < j[1] \/ j[2] < i[1]
    <3>1. CASE i = new
      BY <1>7, <2>1, <2>2, <3>1
    <3>2. CASE j = new
      BY <1>7, <2>1, <2>2, <3>2
    <3>3. CASE i \in I /\ j \in I
      BY <2>2, <3>3 DEF Separated
    <3> QED
      BY <3>1, <3>2, <3>3
  <2> QED
    BY <2>2 DEF Separated
\* An interval that the wider one touches was near the range.
<1>10. \A i \in Touching(I, start, end) : i \in near
  <2> SUFFICES ASSUME NEW i \in Touching(I, start, end), i \notin near PROVE FALSE
    OBVIOUS
  <2>1. i \in I /\ i[2] >= start /\ i[1] <= end /\ (i[2] < lo \/ i[1] > hi)
    <3>1. i \in I
      BY DEF Touching
    <3> QED
      BY <1>2, <1>3, <1>5, <3>1
  <2>2. CASE i[2] < lo
    <3>1. PICK j \in near : start = j[1]
      BY <1>1, <1>5, <2>1, <2>2
    <3>2. j \in I /\ j[2] >= lo /\ j # i
      BY <1>2, <1>4
    <3> QED
      BY <1>5, <2>1, <2>2, <3>1, <3>2 DEF Separated
  <2>3. CASE i[1] > hi
    <3>1. PICK j \in near : end = j[2]
      BY <1>1, <1>5, <2>1, <2>3
    <3>2. j \in I /\ j[1] <= hi /\ j # i
      BY <1>2, <1>4
    <3> QED
      BY <1>5, <2>1, <2>3, <3>1, <3>2 DEF Separated
  <2> QED
    BY <2>1, <2>2, <2>3
<1>11. ASSUME NEW d \in Days
       PROVE  d \in DaysOf(M) <=> d \in DaysOf(I) \/ d \in Within(lo, hi)
  <2>1. d \in Int /\ d < MaxDay /\ 0 <= d
    BY DEF Days
  <2>2. d \in Within(lo, hi) <=> lo <= d /\ d < hi
    BY DEF Within
  <2>3. d \in DaysOf(M) <=> \E i \in M : i[1] <= d /\ d < i[2]
    BY DayOf
  <2>4. d \in DaysOf(I) <=> \E i \in I : i[1] <= d /\ d < i[2]
    BY DayOf
  <2>5. ASSUME NEW i \in I, i[1] <= d, d < i[2] PROVE d \in DaysOf(M)
    <3>1. CASE i \in Touching(I, start, end)
      <4>1. start <= d /\ d < end
        BY <1>1, <1>5, <1>10, <2>1, <2>5, <3>1
      <4> QED
        BY <1>7, <2>3, <4>1
    <3>2. CASE i \notin Touching(I, start, end)
      BY <2>3, <2>5, <3>2
    <3> QED
      BY <3>1, <3>2
  <2>6. ASSUME lo <= d, d < hi PROVE d \in DaysOf(M)
    <3>1. start <= d /\ d < end
      BY <1>1, <2>1, <2>6
    <3> QED
      BY <1>7, <2>3, <3>1
  <2>7. ASSUME start <= d, d < end, ~(lo <= d /\ d < hi) PROVE d \in DaysOf(I)
    <3>1. CASE d < lo
      <4>1. PICK j \in near : start = j[1]
        BY <1>1, <2>1, <2>7, <3>1
      <4>2. j \in I /\ j[2] >= lo
        BY <1>2, <1>4
      <4> QED
        BY <1>5, <2>1, <2>4, <2>7, <3>1, <4>1, <4>2
    <3>2. CASE d >= hi
      <4>1. PICK j \in near : end = j[2]
        BY <1>1, <2>1, <2>7, <3>2
      <4>2. j \in I /\ j[1] <= hi
        BY <1>2, <1>4
      <4> QED
        BY <1>5, <2>1, <2>4, <2>7, <3>2, <4>1, <4>2
    <3> QED
      BY <2>1, <2>7, <3>1, <3>2
  <2>8. ASSUME NEW i \in M, i[1] <= d, d < i[2]
        PROVE  d \in DaysOf(I) \/ d \in Within(lo, hi)
    BY <1>7, <2>2, <2>4, <2>7, <2>8
  <2> QED
    BY <2>2, <2>3, <2>4, <2>5, <2>6, <2>8
<1>12. DaysOf(M) \subseteq Days /\ DaysOf(I) \subseteq Days /\ Within(lo, hi) \subseteq Days
  BY DEF DaysOf, Within
<1>13. DaysOf(M) = DaysOf(I) \cup Within(lo, hi)
  BY <1>11, <1>12
<1>14. ASSUME NEW i \in I \cup {<<lo, hi>>}
       PROVE  \E m \in M : Covers(m, i[1], i[2])
  <2>1. CASE i \in I \ Touching(I, start, end)
    BY <1>5, <2>1 DEF Covers
  <2>2. CASE i \in I /\ i \in Touching(I, start, end)
    BY <1>1, <1>7, <1>10, <2>2 DEF Covers
  <2>3. CASE i = <<lo, hi>>
    BY <1>1, <1>7, <2>3 DEF Covers
  <2> QED
    BY <2>1, <2>2, <2>3
<1> QED
  BY <1>6, <1>8, <1>9, <1>13, <1>14

-----------------------------------------------------------------------------
(* Types.                                                                  *)

\* The ranges one request may ask for.
Spans == {i \in Intervals : i[2] - i[1] <= MaxSpan}

\* The phases of a listing, and the job in them.
Pulling == {"listing", "paging", "applying"}

PullJobs ==
    [phase : Pulling, full : BOOLEAN, hydration : BOOLEAN,
     reset : BOOLEAN, lo : 0..MaxDay, hi : 0..MaxDay, since : Revisions \cup {NoToken},
     next : Revisions, seen : SUBSET EventIds,
     staged : SUBSET (EventIds \X RemoteEvents), removed : SUBSET EventIds]

\* What a listing under way says of its range.
PullOK(j) == j.phase \in Pulling => j.lo < j.hi /\ (j.hydration => j.full)

\* The inductive invariant of the ranges.
SyncInv ==
    /\ TypeOK
    /\ today + Width <= MaxDay
    /\ PullOK(job)
    /\ \A e \in EventIds : local[e].dirty => local[e].day # Nowhere
    /\ CoverageSeparated

\* A job with a listing has the fields of one.
LEMMA JobShape ==
    /\ \A j \in Jobs : j.phase \in Pulling => j \in PullJobs
    /\ PullJobs \subseteq Jobs
    /\ Idle \in Jobs /\ [phase |-> "hydrating"] \in Jobs /\ [phase |-> "draining"] \in Jobs
    /\ PullOK(Idle) /\ PullOK([phase |-> "hydrating"]) /\ PullOK([phase |-> "draining"])
<1>1. ASSUME NEW j \in Jobs, j.phase \in Pulling PROVE j \in PullJobs
  BY <1>1 DEF Jobs, PullJobs, Pulling
<1>2. PullJobs \subseteq Jobs
  BY DEF Jobs, PullJobs, Pulling
<1>3. Idle \in Jobs /\ [phase |-> "hydrating"] \in Jobs /\ [phase |-> "draining"] \in Jobs
  BY DEF Jobs, Idle
<1>4. PullOK(Idle) /\ PullOK([phase |-> "hydrating"]) /\ PullOK([phase |-> "draining"])
  BY DEF PullOK, Pulling, Idle
<1> QED
  BY <1>1, <1>2, <1>3, <1>4

\* The default window lies within the calendar's days.
LEMMA FirstWindow ==
    FirstToday \in Nat /\ FirstToday + Width <= MaxDay
  BY RangeAssumption DEF RangeAssumption, FirstToday

\* The default window lies within the days that are modelled.
LEMMA TodayIs ==
    ASSUME SyncInv
    PROVE  /\ today \in 0 .. MaxDay /\ today + Width \in 0 .. MaxDay
           /\ today < today + Width
  BY FirstWindow, RangeAssumption DEF SyncInv, TypeOK, RangeAssumption

\* A request, merged into one that waits or put behind them all, keeps the
\* list's type, and no day is asked for less.
LEMMA RequestedOK ==
    ASSUME wanted \in Seq(Spans), NEW lo \in 0 .. MaxDay, NEW hi \in 0 .. MaxDay,
           lo < hi, hi - lo <= MaxSpan
    PROVE  /\ Requested(lo, hi) \in Seq(Spans)
           /\ \A k \in DOMAIN wanted :
                /\ k \in DOMAIN Requested(lo, hi)
                /\ Requested(lo, hi)[k][1] <= wanted[k][1]
                /\ wanted[k][2] <= Requested(lo, hi)[k][2]
<1> DEFINE joining == {k \in DOMAIN wanted : Joins(wanted[k], lo, hi)}
           first == Min(joining)
<1>1. \A k \in DOMAIN wanted :
        /\ wanted[k] \in Intervals
        /\ wanted[k][1] \in 0 .. MaxDay /\ wanted[k][2] \in 0 .. MaxDay
  BY DEF Spans, Intervals
<1>2. CASE joining = {}
  <2>1. Requested(lo, hi) = Append(wanted, <<lo, hi>>)
    BY <1>2 DEF Requested
  <2>2. <<lo, hi>> \in Spans
    BY DEF Spans, Intervals
  <2>3. \A k \in DOMAIN wanted : Append(wanted, <<lo, hi>>)[k] = wanted[k]
                                 /\ k \in DOMAIN Append(wanted, <<lo, hi>>)
    OBVIOUS
  <2> QED
    BY <1>1, <2>1, <2>2, <2>3
<1>3. CASE joining # {}
  <2>1. joining \subseteq 0 .. Len(wanted)
    OBVIOUS
  <2>2. first \in joining
    <3>1. Len(wanted) \in Nat
      OBVIOUS
    <3> QED
      BY <1>3, <2>1, <3>1, MinMaxOf
  <2> DEFINE i == wanted[first]
             start == Min({lo, i[1]})
             end == Max({hi, i[2]})
  <2>3. first \in DOMAIN wanted /\ Joins(i, lo, hi)
    BY <2>2
  <2> HIDE DEF joining, first
  <2>4. start \in 0 .. MaxDay /\ start <= lo /\ start <= i[1]
    <3>1. {lo, i[1]} \subseteq 0 .. MaxDay
      BY <1>1, <2>3
    <3> QED
      BY <3>1, MinMaxOf, RangeAssumption DEF RangeAssumption
  <2>5. end \in 0 .. MaxDay /\ hi <= end /\ i[2] <= end
    <3>1. {hi, i[2]} \subseteq 0 .. MaxDay
      BY <1>1, <2>3
    <3> QED
      BY <3>1, MinMaxOf, RangeAssumption DEF RangeAssumption
  <2>6. end - start <= MaxSpan
    BY <2>3 DEF Joins
  <2>7. Requested(lo, hi) = [wanted EXCEPT ![first] = <<start, end>>]
    BY <1>3 DEF Requested, joining, first
  <2> HIDE DEF start, end
  <2>8. <<start, end>> \in Spans
    <3>1. start < end
      BY <2>4, <2>5
    <3>2. <<start, end>> \in Intervals
      BY <2>4, <2>5, <3>1 DEF Intervals
    <3> QED
      BY <2>6, <3>2 DEF Spans
  <2>9. [wanted EXCEPT ![first] = <<start, end>>] \in Seq(Spans)
    BY <2>3, <2>8
  <2>10. ASSUME NEW k \in DOMAIN wanted
         PROVE  /\ k \in DOMAIN Requested(lo, hi)
                /\ Requested(lo, hi)[k][1] <= wanted[k][1]
                /\ wanted[k][2] <= Requested(lo, hi)[k][2]
    <3>1. CASE k = first
      BY <2>3, <2>4, <2>5, <2>7, <3>1
    <3>2. CASE k # first
      <4>1. Requested(lo, hi)[k] = wanted[k] /\ k \in DOMAIN Requested(lo, hi)
        BY <2>7, <3>2
      <4>2. wanted[k][1] <= wanted[k][1] /\ wanted[k][2] <= wanted[k][2]
        BY <1>1
      <4> QED
        BY <4>1, <4>2
    <3> QED
      BY <3>1, <3>2
  <2> QED
    BY <2>7, <2>9, <2>10
<1> QED
  BY <1>2, <1>3

\* The start of a listing.
LEMMA ListingOK ==
    ASSUME RangeAssumption, NEW hydration \in BOOLEAN, NEW reset \in BOOLEAN,
           NEW lo \in 0 .. MaxDay, NEW hi \in 0 .. MaxDay, lo < hi,
           NEW since \in Revisions \cup {NoToken}
    PROVE  /\ Listing(hydration, reset, lo, hi, since) \in PullJobs
           /\ PullOK(Listing(hydration, reset, lo, hi, since))
<1>1. 0 \in Revisions
  BY DEF Revisions, RangeAssumption
<1> QED
  BY <1>1 DEF Listing, PullJobs, PullOK, Pulling

\* The start of a listing of the default window.
LEMMA CalendarListingOK ==
    ASSUME SyncInv, NEW reset \in BOOLEAN
    PROVE  CalendarListing(reset) \in PullJobs /\ PullOK(CalendarListing(reset))
<1> DEFINE since == IF reset \/ ~Covered(today, today + Width) THEN NoToken ELSE token
<1>1. since \in Revisions \cup {NoToken}
  BY DEF SyncInv, TypeOK
<1>2. CalendarListing(reset) = Listing(FALSE, reset, today, today + Width, since)
  BY DEF CalendarListing
<1> HIDE DEF since
<1> QED
  BY <1>1, <1>2, TodayIs, ListingOK, RangeAssumption

\* A page adds to what is staged and keeps the listing's range.
LEMMA PageOK ==
    ASSUME SyncInv, job.phase \in Pulling, NEW S \in SUBSET EventIds
    PROVE  /\ Page(S) \in PullJobs
           /\ Page(S).lo = job.lo /\ Page(S).hi = job.hi /\ Page(S).full = job.full
           /\ Page(S).hydration = job.hydration /\ Page(S).reset = job.reset
<1> DEFINE seen == job.seen \cup S
           staged == job.staged \cup {<<e, remote[e]>> : e \in
                                     {x \in S : remote[x].day # Nowhere}}
           removed == job.removed \cup {e \in S : remote[e].day = Nowhere}
<1>1. job \in PullJobs
  BY JobShape DEF SyncInv, TypeOK
<1>2. \A e \in S : <<e, remote[e]>> \in EventIds \X RemoteEvents
  BY DEF SyncInv, TypeOK
<1>3. /\ seen \in SUBSET EventIds /\ removed \in SUBSET EventIds
      /\ staged \in SUBSET (EventIds \X RemoteEvents)
  BY <1>1, <1>2 DEF PullJobs
<1>4. Page(S) = [job EXCEPT !.seen = seen, !.staged = staged, !.removed = removed]
  BY DEF Page
<1> HIDE DEF seen, staged, removed
<1> QED
  BY <1>1, <1>3, <1>4 DEF PullJobs

-----------------------------------------------------------------------------
(* SyncInv is inductive.                                                   *)

\* The tables and the counters, and what goes on besides.
TablesOK ==
    /\ remote \in [EventIds -> RemoteEvents]
    /\ local \in [EventIds -> LocalEvents]
    /\ conflict \in [EventIds -> Conflicts]
    /\ \A e \in EventIds : local[e].dirty => local[e].day # Nowhere

\* SyncInv in three parts: the bounds,
CountersOK ==
    /\ changes \in 0..MaxChanges /\ edits \in 0..MaxEdits
    /\ requests \in 0..MaxRequests /\ faults \in 0..MaxFaults

\* the ranges, the requests and the job, and with TablesOK the events.
PullingOK ==
    /\ token \in Revisions \cup {NoToken}
    /\ coverage \subseteq Intervals /\ CoverageSeparated
    /\ wanted \in Seq(Spans)
    /\ today \in FirstToday..(FirstToday + MaxSlides) /\ today + Width <= MaxDay
    /\ job \in Jobs /\ PullOK(job)

\* The three parts are the whole.
LEMMA SyncInvParts == SyncInv <=> TablesOK /\ CountersOK /\ PullingOK
  BY DEF SyncInv, TypeOK, TablesOK, CountersOK, PullingOK, Spans

\* Time, requests and faults.
LEMMA CountersStep ==
    ASSUME RangeAssumption, CountersOK, [Next]_vars
    PROVE  CountersOK'
<1> USE DEF CountersOK, RangeAssumption, counters
<1>1. CASE UNCHANGED vars
  BY <1>1 DEF vars
<1>2. ASSUME NEW e \in EventIds, NEW day, ForeignChange(e, day) \/ EditEvent(e, day)
      PROVE  CountersOK'
  BY <1>2 DEF ForeignChange, EditEvent
<1>3. CASE Slide \/ StartSync \/ LastPage \/ ApplyFinal \/ NextHydration
  BY <1>3 DEF Slide, StartSync, LastPage, ApplyFinal, NextHydration
<1>4. ASSUME NEW lo, NEW hi, EnsureRangeHydrated(lo, hi) PROVE CountersOK'
  BY <1>4 DEF EnsureRangeHydrated
<1>5. CASE OlderHistoryBackfill
  BY <1>5 DEF OlderHistoryBackfill
<1>6. CASE TokenExpired \/ ListFails \/ Crash
  <2>1. faults < MaxFaults /\ faults' = faults + 1
    BY <1>6 DEF TokenExpired, ListFails, Crash, Fault
  <2>2. UNCHANGED <<changes, edits, requests>>
    BY <1>6 DEF TokenExpired, ListFails, Crash
  <2> QED
    BY <2>1, <2>2
<1>7. ASSUME NEW S, FirstPage(S) PROVE CountersOK'
  BY <1>7 DEF FirstPage
<1>8. ASSUME NEW e, NEW row, ApplyEvent(e, row) PROVE CountersOK'
  BY <1>8 DEF ApplyEvent
<1>9. ASSUME NEW e, RemoveEvent(e) \/ Push(e) PROVE CountersOK'
  BY <1>9 DEF RemoveEvent, Push
<1>10. ASSUME NEW mine, NEW theirs, Finish(mine, theirs) PROVE CountersOK'
  BY <1>10 DEF Finish
<1> QED
  BY <1>1, <1>2, <1>3, <1>4, <1>5, <1>6, <1>7, <1>8, <1>9, <1>10 DEF Next

\* Rows, the server's events and conflicts.
LEMMA TablesStep ==
    ASSUME RangeAssumption, CountersOK, TablesOK, PullingOK, [Next]_vars
    PROVE  TablesOK'
<1> USE DEF TablesOK
<1>1. CASE UNCHANGED <<remote, local, conflict>>
  BY <1>1
<1>2. changes < MaxChanges => changes + 1 \in Revisions
  BY DEF CountersOK, Revisions, RangeAssumption
<1>3. ASSUME NEW e \in EventIds, NEW day \in Days \cup {Nowhere}, ForeignChange(e, day)
      PROVE  TablesOK'
  <2>1. [day |-> day, at |-> changes + 1] \in RemoteEvents
    BY <1>2, <1>3 DEF ForeignChange, RemoteEvents
  <2> QED
    BY <1>3, <2>1 DEF ForeignChange
<1>4. ASSUME NEW e \in EventIds, NEW day \in Days, EditEvent(e, day)
      PROVE  TablesOK'
  <2>1. local' = [local EXCEPT ![e] = [local[e] EXCEPT !.day = day, !.dirty = TRUE]]
    BY <1>4 DEF EditEvent
  <2>2. [local[e] EXCEPT !.day = day, !.dirty = TRUE] \in LocalEvents
    BY DEF LocalEvents
  <2>3. [local[e] EXCEPT !.day = day, !.dirty = TRUE].day # Nowhere
    BY DEF LocalEvents, Days, Nowhere
  <2> QED
    BY <1>4, <2>1, <2>2, <2>3 DEF EditEvent
<1>5. ASSUME NEW e \in EventIds, NEW row \in RemoteEvents, ApplyEvent(e, row)
      PROVE  TablesOK'
  <2>1. CASE ~local[e].dirty
    <3> DEFINE new == [day |-> row.day, at |-> row.at, dirty |-> FALSE]
    <3>1. new \in LocalEvents /\ ~new.dirty
      BY DEF RemoteEvents, LocalEvents
    <3>2. local' = [local EXCEPT ![e] = new] /\ UNCHANGED <<remote, conflict>>
      BY <1>5, <2>1 DEF ApplyEvent
    <3> HIDE DEF new
    <3> QED
      BY <3>1, <3>2
  <2>2. CASE local[e].dirty
    <3>1. local[e].day \in Days
      BY <2>2 DEF LocalEvents
    <3>2. [kind |-> "changed", theirs |-> row, mine |-> local[e].day] \in Conflicts
      BY <3>1 DEF Conflicts
    <3> QED
      BY <1>5, <2>2, <3>2 DEF ApplyEvent
  <2> QED
    BY <2>1, <2>2 DEF LocalEvents
<1>6. ASSUME NEW e \in EventIds, RemoveEvent(e)
      PROVE  TablesOK'
  <2>1. [kind |-> "deleted"] \in Conflicts
    BY DEF Conflicts
  <2>2. CASE ~local[e].dirty
    <3>1. [local[e] EXCEPT !.day = Nowhere] \in LocalEvents
          /\ ~[local[e] EXCEPT !.day = Nowhere].dirty
      BY <2>2 DEF LocalEvents
    <3>2. local' = [local EXCEPT ![e] = [local[e] EXCEPT !.day = Nowhere]]
      BY <1>6, <2>2 DEF RemoveEvent
    <3> QED
      BY <1>6, <2>2, <3>1, <3>2 DEF RemoveEvent
  <2>3. CASE local[e].dirty
    BY <1>6, <2>1, <2>3 DEF RemoveEvent
  <2> QED
    BY <2>2, <2>3 DEF LocalEvents
<1>7. ASSUME NEW e \in EventIds, Push(e)
      PROVE  TablesOK'
  <2>1. [day |-> local[e].day, at |-> changes + 1] \in RemoteEvents
    BY <1>2, <1>7 DEF Push, RemoteEvents, LocalEvents
  <2>2. local' = [local EXCEPT ![e] = [local[e] EXCEPT !.at = changes + 1, !.dirty = FALSE]]
    BY <1>7 DEF Push
  <2>3. [local[e] EXCEPT !.at = changes + 1, !.dirty = FALSE] \in LocalEvents
        /\ ~[local[e] EXCEPT !.at = changes + 1, !.dirty = FALSE].dirty
    BY <1>2, <1>7 DEF Push, LocalEvents
  <2> QED
    BY <1>7, <2>1, <2>2, <2>3 DEF Push
<1>8. ASSUME NEW mine \in SUBSET EventIds, NEW theirs \in SUBSET EventIds,
             Finish(mine, theirs)
      PROVE  TablesOK'
  <2>1. NoConflict \in Conflicts
    BY DEF Conflicts
  <2>2. conflict' \in [EventIds -> Conflicts]
    BY <1>8, <2>1 DEF Finish
  <2>3. ASSUME NEW e \in EventIds
        PROVE  local'[e] \in LocalEvents /\ (local'[e].dirty => local'[e].day # Nowhere)
    <3>1. e \in mine \cup theirs =>
            /\ conflict[e].mine \in Days /\ conflict[e].theirs \in RemoteEvents
      BY <1>8 DEF Finish, Conflicts, NoConflict
    <3>2. CASE e \in mine
      <4>1. local'[e] = [day |-> conflict[e].mine, at |-> conflict[e].theirs.at,
                         dirty |-> TRUE]
        BY <1>8, <3>2 DEF Finish
      <4> QED
        BY <3>1, <3>2, <4>1 DEF LocalEvents, RemoteEvents, Days, Nowhere
    <3>3. CASE e \in theirs
      <4>1. local'[e] = [day |-> conflict[e].theirs.day,
                         at |-> conflict[e].theirs.at, dirty |-> FALSE]
        BY <1>8, <3>3 DEF Finish
      <4> QED
        BY <3>1, <3>3, <4>1 DEF LocalEvents, RemoteEvents
    <3>4. CASE e \notin mine \cup theirs
      BY <1>8, <3>4 DEF Finish
    <3> QED
      BY <3>2, <3>3, <3>4
  <2>4. local' \in [EventIds -> LocalEvents]
    <3> DEFINE L == [e \in EventIds |->
         IF e \in mine THEN [day |-> conflict[e].mine, at |-> conflict[e].theirs.at,
                            dirty |-> TRUE]
         ELSE IF e \in theirs THEN [day |-> conflict[e].theirs.day,
                                   at |-> conflict[e].theirs.at, dirty |-> FALSE]
         ELSE local[e]]
    <3>1. local' = L /\ L = [e \in EventIds |-> L[e]]
      BY <1>8 DEF Finish
    <3> HIDE DEF L
    <3> QED
      BY <2>3, <3>1
  <2> QED
    BY <1>8, <2>2, <2>3, <2>4 DEF Finish
<1>9. \/ UNCHANGED <<remote, local, conflict>>
      \/ \E e \in EventIds, day \in Days \cup {Nowhere} : ForeignChange(e, day)
      \/ \E e \in EventIds, day \in Days : EditEvent(e, day)
      \/ \E e \in EventIds, row \in RemoteEvents : ApplyEvent(e, row)
      \/ \E e \in EventIds : RemoveEvent(e) \/ Push(e)
      \/ \E mine, theirs \in SUBSET EventIds : Finish(mine, theirs)
  BY DEF Next, vars, data, Slide, EnsureRangeHydrated, OlderHistoryBackfill,
         StartSync, LastPage, TokenExpired, ListFails, FirstPage, ApplyFinal,
         NextHydration, Crash
<1> QED
  BY <1>1, <1>3, <1>4, <1>5, <1>6, <1>7, <1>8, <1>9

\* The least day that is covered, from which the history is filled.
LEMMA EarliestDay ==
    ASSUME MaxDay \in Nat, coverage \subseteq Intervals, coverage # {}
    PROVE  Min({i[1] : i \in coverage}) \in 0 .. MaxDay
<1>1. {i[1] : i \in coverage} \subseteq 0 .. MaxDay
  BY DEF Intervals
<1>2. {i[1] : i \in coverage} # {}
  OBVIOUS
<1> QED
  BY <1>1, <1>2, MinMaxOf

\* What a request does to the list of requests.
LEMMA RequestStep ==
    ASSUME RangeAssumption, PullingOK,
           \/ \E lo, hi \in 0..MaxDay : EnsureRangeHydrated(lo, hi)
           \/ OlderHistoryBackfill
    PROVE  /\ wanted' \in Seq(Spans)
           /\ \A k \in DOMAIN wanted :
                /\ k \in DOMAIN wanted'
                /\ wanted'[k][1] <= wanted[k][1] /\ wanted[k][2] <= wanted'[k][2]
<1>1. PICK lo \in 0 .. MaxDay, hi \in 0 .. MaxDay : SyncRange(lo, hi)
  <2>1. CASE OlderHistoryBackfill
    <3> DEFINE end == Min({i[1] : i \in coverage})
    <3>1. end \in 0 .. MaxDay
      BY <2>1, EarliestDay DEF OlderHistoryBackfill, PullingOK, RangeAssumption
    <3>2. end > 0 /\ SyncRange(end - 1, end)
      BY <2>1 DEF OlderHistoryBackfill
    <3> HIDE DEF end
    <3>3. end - 1 \in 0 .. MaxDay
      BY <3>1, <3>2
    <3> QED
      BY <3>1, <3>2, <3>3
  <2>2. CASE \E lo, hi \in 0..MaxDay : EnsureRangeHydrated(lo, hi)
    BY <2>2 DEF EnsureRangeHydrated
  <2> QED
    BY <2>1, <2>2
<1> QED
  BY <1>1, RequestedOK DEF SyncRange, PullingOK

\* The range of the listing that is applied, and the intervals after it.
LEMMA NewCoverageOK ==
    ASSUME RangeAssumption, SyncInv, job.phase = "applying"
    PROVE  /\ job \in PullJobs /\ job.lo \in 0 .. MaxDay /\ job.hi \in 0 .. MaxDay
           /\ job.lo < job.hi
           /\ NewCoverage \subseteq Intervals /\ Separated(NewCoverage)
           /\ DaysOf(NewCoverage) =
                (IF job.reset THEN {} ELSE DaysOf(coverage)) \cup Within(job.lo, job.hi)
           /\ \E m \in NewCoverage : Covers(m, job.lo, job.hi)
           /\ ~job.reset => \A i \in coverage : \E m \in NewCoverage : Covers(m, i[1], i[2])
<1>1. job \in PullJobs /\ job.lo < job.hi
  BY JobShape DEF SyncInv, TypeOK, PullOK, Pulling
<1>2. job.lo \in 0 .. MaxDay /\ job.hi \in 0 .. MaxDay
  BY <1>1 DEF PullJobs
<1> DEFINE old == IF job.reset THEN {} ELSE coverage
<1>3. old \in SUBSET Intervals /\ Separated(old)
  BY DEF SyncInv, TypeOK, CoverageSeparated, Separated
<1>4. DaysOf(old) = IF job.reset THEN {} ELSE DaysOf(coverage)
  BY DEF DaysOf
<1>5. NewCoverage = Merged(old, job.lo, job.hi)
  BY DEF NewCoverage
<1>6. ~job.reset => old = coverage
  OBVIOUS
<1> HIDE DEF old
<1>7. \A i \in old \cup {<<job.lo, job.hi>>} :
         \E m \in NewCoverage : Covers(m, i[1], i[2])
  BY <1>1, <1>2, <1>3, <1>5, MergedIs DEF RangeAssumption
<1>8. \E m \in NewCoverage : Covers(m, job.lo, job.hi)
  <2> DEFINE r == <<job.lo, job.hi>>
  <2>1. r \in old \cup {<<job.lo, job.hi>>} /\ r[1] = job.lo /\ r[2] = job.hi
    OBVIOUS
  <2> HIDE DEF r
  <2> QED
    BY <1>7, <2>1
<1> QED
  BY <1>1, <1>2, <1>3, <1>4, <1>5, <1>6, <1>7, <1>8, MergedIs DEF RangeAssumption

\* The token, the intervals, the requests and the job.
LEMMA PullingStep ==
    ASSUME RangeAssumption, SyncInv, [Next]_vars
    PROVE  PullingOK'
<1>1. TablesOK /\ CountersOK /\ PullingOK
  BY SyncInvParts
<1>2. CASE UNCHANGED <<token, coverage, wanted, today, job>>
  BY <1>1, <1>2 DEF PullingOK, CoverageSeparated
<1>3. CASE Slide
  <2>1. UNCHANGED <<token, coverage, wanted, job>> /\ today' = today + 1
        /\ today < FirstToday + MaxSlides /\ today + Width < MaxDay
    BY <1>3 DEF Slide, data
  <2>2. today' \in FirstToday..(FirstToday + MaxSlides) /\ today' + Width <= MaxDay
    BY <1>1, <2>1, FirstWindow DEF PullingOK, RangeAssumption
  <2> QED
    BY <1>1, <2>1, <2>2 DEF PullingOK, CoverageSeparated
<1>4. CASE \/ \E lo, hi \in 0..MaxDay : EnsureRangeHydrated(lo, hi)
           \/ OlderHistoryBackfill
  <2>1. wanted' \in Seq(Spans)
    BY <1>1, <1>4, RequestStep
  <2>2. UNCHANGED <<token, coverage, today, job>>
    BY <1>4 DEF EnsureRangeHydrated, OlderHistoryBackfill, data
  <2> QED
    BY <1>1, <2>1, <2>2 DEF PullingOK, CoverageSeparated
<1>5. CASE /\ UNCHANGED <<token, coverage, today>> /\ wanted' \in {wanted, <<>>}
           /\ \/ job' \in PullJobs /\ PullOK(job')
              \/ job' \in {Idle, [phase |-> "hydrating"], [phase |-> "draining"]}
  <2>1. job' \in Jobs /\ PullOK(job')
    BY <1>5, JobShape
  <2>2. wanted' \in Seq(Spans)
    <3>1. wanted \in Seq(Spans) /\ <<>> \in Seq(Spans)
      BY <1>1 DEF PullingOK
    <3> QED
      BY <1>5, <3>1
  <2> QED
    BY <1>1, <1>5, <2>1, <2>2 DEF PullingOK, CoverageSeparated
<1>6. CASE StartSync \/ TokenExpired
  <2>1. job' \in PullJobs /\ PullOK(job')
    BY <1>6, CalendarListingOK DEF StartSync, TokenExpired
  <2> QED
    BY <1>5, <1>6, <2>1 DEF StartSync, TokenExpired, data
<1>7. CASE ListFails \/ Crash \/ \E mine, theirs \in SUBSET EventIds : Finish(mine, theirs)
  BY <1>5, <1>7 DEF ListFails, Crash, Finish, data
<1>8. ASSUME NEW S \in SUBSET EventIds, FirstPage(S)
      PROVE  PullingOK'
  <2>1. job.phase \in Pulling /\ job' = [Page(S) EXCEPT !.phase = "paging", !.next = changes]
    BY <1>8 DEF FirstPage, Pulling
  <2>2. changes \in Revisions
    BY <1>1 DEF CountersOK, Revisions
  <2> DEFINE page == Page(S)
  <2>5. page \in PullJobs /\ page.lo = job.lo /\ page.hi = job.hi
        /\ page.full = job.full /\ page.hydration = job.hydration
    BY <2>1, PageOK
  <2>6. job' = [page EXCEPT !.phase = "paging", !.next = changes]
    BY <2>1
  <2> HIDE DEF page
  <2>3. job' \in PullJobs /\ job'.lo = job.lo /\ job'.hi = job.hi
        /\ job'.full = job.full /\ job'.hydration = job.hydration
    BY <2>2, <2>5, <2>6 DEF PullJobs, Pulling
  <2>4. PullOK(job')
    BY <2>1, <2>3 DEF SyncInv, PullOK
  <2> QED
    BY <1>5, <1>8, <2>3, <2>4 DEF FirstPage, data
<1>9. CASE LastPage
  <2> DEFINE S == Listed \ job.seen
             page == Page(S)
             more == IF job.full THEN Pruned(page.seen) ELSE {}
  <2>1. job.phase \in Pulling /\ S \in SUBSET EventIds /\ more \in SUBSET EventIds
    BY <1>9 DEF LastPage, Pulling, Listed, Pruned
  <2>2. job' = [page EXCEPT !.phase = "applying", !.removed = @ \cup more]
    BY <1>9 DEF LastPage
  <2>3. page \in PullJobs /\ page.lo = job.lo /\ page.hi = job.hi
        /\ page.full = job.full /\ page.hydration = job.hydration
    BY <2>1, PageOK
  <2> HIDE DEF S, page, more
  <2>4. page.removed \cup more \in SUBSET EventIds
    BY <2>1, <2>3 DEF PullJobs
  <2>5. job' \in PullJobs /\ job'.lo = page.lo /\ job'.hi = page.hi
        /\ job'.full = page.full /\ job'.hydration = page.hydration
    BY <2>2, <2>3, <2>4 DEF PullJobs, Pulling
  <2>6. PullOK(job')
    BY <2>1, <2>3, <2>5 DEF SyncInv, PullOK
  <2> QED
    BY <1>5, <1>9, <2>5, <2>6 DEF LastPage, data
<1>10. ASSUME NEW e \in EventIds,
              RemoveEvent(e) \/ \E row \in RemoteEvents : ApplyEvent(e, row)
       PROVE  PullingOK'
  <2>1. job.phase = "applying" /\ job \in PullJobs
    BY <1>1, <1>10, JobShape DEF RemoveEvent, ApplyEvent, PullingOK, Pulling
  <2>2. /\ job' \in PullJobs
        /\ job'.lo = job.lo /\ job'.hi = job.hi /\ job'.full = job.full
        /\ job'.hydration = job.hydration
    <3>1. CASE RemoveEvent(e)
      <4>1. job' = [job EXCEPT !.removed = @ \ {e}]
        BY <3>1 DEF RemoveEvent
      <4> QED
        BY <2>1, <4>1 DEF PullJobs
    <3>2. ASSUME NEW row \in RemoteEvents, ApplyEvent(e, row)
          PROVE  /\ job' \in PullJobs
                 /\ job'.lo = job.lo /\ job'.hi = job.hi /\ job'.full = job.full
                 /\ job'.hydration = job.hydration
      <4>1. job' = [job EXCEPT !.staged = @ \ {<<e, row>>}]
        BY <3>2 DEF ApplyEvent
      <4> QED
        BY <2>1, <4>1 DEF PullJobs
    <3> QED
      BY <1>10, <3>1, <3>2
  <2>3. PullOK(job')
    BY <2>1, <2>2 DEF SyncInv, PullOK, Pulling
  <2> QED
    BY <1>5, <1>10, <2>2, <2>3 DEF RemoveEvent, ApplyEvent
<1>11. CASE ApplyFinal
  <2>1. job \in PullJobs /\ NewCoverage \subseteq Intervals /\ Separated(NewCoverage)
    BY <1>11, NewCoverageOK DEF ApplyFinal
  <2>2. token' \in Revisions \cup {NoToken}
    BY <1>1, <1>11, <2>1 DEF ApplyFinal, PullingOK, PullJobs
  <2>3. coverage' \subseteq Intervals /\ CoverageSeparated'
    <3>1. coverage' \in {coverage, NewCoverage}
      BY <1>11 DEF ApplyFinal
    <3>2. Separated(coverage')
      BY <1>1, <2>1, <3>1 DEF PullingOK, CoverageSeparated, Separated
    <3> QED
      BY <1>1, <2>1, <3>1, <3>2 DEF PullingOK, CoverageSeparated, Separated
  <2>4. wanted' \in Seq(Spans)
    BY <1>1, <1>11 DEF ApplyFinal, Answered, PullingOK
  <2>5. job' \in Jobs /\ PullOK(job')
    BY <1>11, JobShape DEF ApplyFinal
  <2> QED
    BY <1>1, <1>11, <2>2, <2>3, <2>4, <2>5 DEF ApplyFinal, PullingOK
<1>12. CASE NextHydration
  <2>1. CASE wanted = <<>>
    BY <1>5, <1>12, <2>1 DEF NextHydration, data
  <2>2. CASE wanted # <<>>
    <3> DEFINE r == Head(wanted)
    <3>1. r \in Spans /\ Tail(wanted) \in Seq(Spans)
      BY <1>1, <2>2 DEF PullingOK
    <3>2. r[1] \in 0 .. MaxDay /\ r[2] \in 0 .. MaxDay /\ r[1] < r[2]
      BY <3>1 DEF Spans, Intervals
    <3>3. CASE Covered(r[1], r[2])
      <4>1. wanted' = Tail(wanted) /\ UNCHANGED <<token, coverage, today, job>>
        BY <1>12, <2>2, <3>3 DEF NextHydration, data
      <4> QED
        BY <1>1, <3>1, <4>1 DEF PullingOK, CoverageSeparated
    <3>4. CASE ~Covered(r[1], r[2])
      <4>1. job' = Listing(TRUE, FALSE, r[1], r[2], NoToken) /\ wanted' = wanted
        BY <1>12, <2>2, <3>4 DEF NextHydration
      <4>2. job' \in PullJobs /\ PullOK(job')
        BY <3>2, <4>1, ListingOK
      <4> QED
        BY <1>5, <1>12, <4>1, <4>2 DEF NextHydration, data
    <3> QED
      BY <3>3, <3>4
  <2> QED
    BY <2>1, <2>2
<1>13. \/ UNCHANGED <<token, coverage, wanted, today, job>>
       \/ Slide \/ StartSync \/ TokenExpired \/ LastPage \/ ApplyFinal \/ NextHydration
       \/ \E lo, hi \in 0..MaxDay : EnsureRangeHydrated(lo, hi)
       \/ OlderHistoryBackfill
       \/ ListFails \/ Crash \/ \E mine, theirs \in SUBSET EventIds : Finish(mine, theirs)
       \/ \E S \in SUBSET EventIds : FirstPage(S)
       \/ \E e \in EventIds : RemoveEvent(e) \/ \E row \in RemoteEvents : ApplyEvent(e, row)
  BY DEF Next, vars, data, ForeignChange, EditEvent, Push
<1> QED
  BY <1>2, <1>3, <1>4, <1>6, <1>7, <1>8, <1>9, <1>10, <1>11, <1>12, <1>13

\* Together.
LEMMA SyncStep ==
    ASSUME SyncInv, [Next]_vars
    PROVE  SyncInv'
<1>1. TablesOK /\ CountersOK /\ PullingOK
  BY SyncInvParts
<1>2. TablesOK' /\ CountersOK' /\ PullingOK'
  BY <1>1, TablesStep, CountersStep, PullingStep, RangeAssumption
<1> QED
  BY <1>2 DEF SyncInv, TypeOK, TablesOK, CountersOK, PullingOK, Spans

\* The program begins in SyncInv.
LEMMA SyncInit ==
    ASSUME Init PROVE SyncInv
<1> USE RangeAssumption DEF RangeAssumption
<1>1. TablesOK
  <2>1. 0 \in Revisions /\ NoConflict \in Conflicts
    BY DEF Revisions, Conflicts
  <2>2. [day : Days, at : {0}] \subseteq RemoteEvents
    BY <2>1 DEF RemoteEvents
  <2>3. [day |-> Nowhere, at |-> 0, dirty |-> FALSE] \in LocalEvents
    BY <2>1 DEF LocalEvents
  <2> QED
    BY <2>1, <2>2, <2>3 DEF Init, TablesOK
<1>2. CountersOK
  BY DEF Init, CountersOK
<1>3. PullingOK
  BY FirstWindow, JobShape DEF Init, PullingOK, CoverageSeparated
<1> QED
  BY <1>1, <1>2, <1>3, SyncInvParts

-----------------------------------------------------------------------------
\* The tables, the token, the requests and the job keep their types, whatever
\* is listed, refused, asked for or edited meanwhile.
THEOREM SyncTypeCorrect == Spec => []TypeOK
<1>1. SyncInv => TypeOK
  BY DEF SyncInv
<1> QED
  BY <1>1, SyncInit, SyncStep, PTL DEF Spec

\* mergeSyncCoverageInternal leaves no two intervals that overlap or touch,
\* so isSyncRangeCovered, which looks for one row, misses no covered range.
THEOREM SeparatedCorrect == Spec => []CoverageSeparated
<1>1. SyncInv => CoverageSeparated
  BY DEF SyncInv
<1> QED
  BY <1>1, SyncInit, SyncStep, PTL DEF Spec

-----------------------------------------------------------------------------
(* The intervals implement a set of days.                                  *)

\* What a step does to the set of covered days.
LEMMA CoverageStep ==
    ASSUME SyncInv, [Next]_vars
    PROVE  [Abstract!CoverageNext]_(Abstract!coverageVars)
<1> USE RangeAssumption
<1>1. CASE UNCHANGED coverage
  <2>1. DaysOf(coverage)' = DaysOf(coverage)
    BY <1>1
  <2>2. \/ Replacing /\ ~Replacing'
        \/ ~Replacing /\ Replacing'
        \/ Replacing' = Replacing
    <3>1. Replacing \in BOOLEAN /\ Replacing' \in BOOLEAN
      BY Zenon DEF Replacing
    <3> QED
      BY <3>1
  <2> QED
    BY <2>1, <2>2 DEF Abstract!CoverageNext, Abstract!Refuse, Abstract!GiveUp,
                      Abstract!coverageVars
<1>2. CASE ApplyFinal /\ job.full
  <2>1. /\ job.phase = "applying" /\ coverage' = NewCoverage
        /\ job' = [phase |-> "hydrating"]
    BY <1>2 DEF ApplyFinal
  <2>2. /\ job.lo \in 0 .. MaxDay /\ job.hi \in 0 .. MaxDay /\ job.lo < job.hi
        /\ DaysOf(coverage') =
                (IF job.reset THEN {} ELSE DaysOf(coverage)) \cup Within(job.lo, job.hi)
    BY <2>1, NewCoverageOK
  <2>3. Within(job.lo, job.hi) = Abstract!Range(job.lo, job.hi)
    BY <2>2 DEF Within, Days, Abstract!Range, RangeAssumption
  <2>4. ~Replacing'
    BY <2>1 DEF Replacing
  <2>5. CASE job.reset
    <3>1. Replacing
      BY <2>1, <2>5 DEF Replacing
    <3>2. DaysOf(coverage)' = Abstract!Range(job.lo, job.hi)
      BY <2>2, <2>3, <2>5
    <3>3. Abstract!Replace(job.lo, job.hi)
      BY <2>4, <3>1, <3>2 DEF Abstract!Replace
    <3> QED
      BY <2>2, <3>3 DEF Abstract!CoverageNext
  <2>6. CASE ~job.reset
    <3>1. ~Replacing
      BY <2>6 DEF Replacing
    <3>2. DaysOf(coverage)' = DaysOf(coverage) \cup Abstract!Range(job.lo, job.hi)
      BY <2>2, <2>3, <2>6
    <3>3. Abstract!Complete(job.lo, job.hi)
      BY <2>4, <3>1, <3>2 DEF Abstract!Complete
    <3> QED
      BY <2>2, <3>3 DEF Abstract!CoverageNext
  <2> QED
    BY <2>5, <2>6
<1>3. UNCHANGED coverage \/ (ApplyFinal /\ job.full)
  BY DEF Next, vars, data, ForeignChange, EditEvent, Slide, EnsureRangeHydrated,
         OlderHistoryBackfill, StartSync, LastPage, TokenExpired, ListFails, FirstPage,
         ApplyEvent, RemoveEvent, Push, ApplyFinal, NextHydration, Finish, Crash
<1> QED
  BY <1>1, <1>2, <1>3

\* GoogleRangeSync implements DayCoverage: however the intervals are merged,
\* only a completed pull changes the set of days they stand for, by exactly
\* its range; after a refused token the set is replaced or kept.
THEOREM CoverageRefined == Spec => CoverageRefinement
<1>1. Init => Abstract!CoverageInit
  <2>1. DaysOf({}) = {}
    BY DEF DaysOf
  <2> QED
    BY <2>1 DEF Init, Idle, Replacing, Abstract!CoverageInit
<1> QED
  BY <1>1, SyncInit, SyncStep, CoverageStep, PTL
     DEF Spec, CoverageRefinement, Abstract!CoverageSpec

-----------------------------------------------------------------------------
(* No request is dropped.                                                  *)

\* The days of the requests.
LEMMA WantedDay ==
    ASSUME NEW d
    PROVE  /\ d \in DaysWanted <=> \E k \in DOMAIN wanted :
                                    d \in Days /\ wanted[k][1] <= d /\ d < wanted[k][2]
           /\ d \in DaysWanted' <=> \E k \in DOMAIN wanted' :
                                    d \in Days /\ wanted'[k][1] <= d /\ d < wanted'[k][2]
  BY DEF DaysWanted, DaysOf, Within

\* A request that is taken off the list is covered.
LEMMA HeadCovered ==
    ASSUME RangeAssumption, SyncInv, wanted # <<>>, wanted' = Tail(wanted),
           NEW C, \A d \in Within(Head(wanted)[1], Head(wanted)[2]) : d \in C
    PROVE  DaysWanted \subseteq DaysWanted' \cup C
<1> SUFFICES ASSUME NEW d \in DaysWanted PROVE d \in DaysWanted' \/ d \in C
  OBVIOUS
<1>1. wanted \in Seq(Spans)
  BY DEF SyncInv, TypeOK, Spans
<1>2. PICK k \in DOMAIN wanted : d \in Days /\ wanted[k][1] <= d /\ d < wanted[k][2]
  BY WantedDay
<1>3. CASE k = 1
  BY <1>1, <1>2, <1>3 DEF Within
<1>4. CASE k # 1
  <2>1. k - 1 \in DOMAIN wanted' /\ wanted'[k - 1] = wanted[k]
    BY <1>1, <1>2, <1>4
  <2> QED
    BY <1>2, <2>1, WantedDay
<1> QED
  BY <1>3, <1>4

\* A range that one interval covers has its days among the covered ones.
LEMMA CoveredDays ==
    ASSUME RangeAssumption, coverage \subseteq Intervals,
           NEW lo \in 0 .. MaxDay, NEW hi \in 0 .. MaxDay, Covered(lo, hi)
    PROVE  Within(lo, hi) \subseteq DaysOf(coverage)
<1>1. PICK i \in coverage : i[1] <= lo /\ hi <= i[2]
  BY DEF Covered, Covers
<1>2. i[1] \in 0 .. MaxDay /\ i[2] \in 0 .. MaxDay
  BY <1>1 DEF Intervals
<1>3. ASSUME NEW d \in Within(lo, hi) PROVE d \in DaysOf(coverage)
  <2>1. d \in Days /\ d \in Int /\ i[1] <= d /\ d < i[2]
    BY <1>1, <1>2, <1>3 DEF Within, Days, RangeAssumption
  <2> QED
    BY <1>1, <2>1, DayOf
<1> QED
  BY <1>3

\* Requests are dropped by a restart only, or once they are covered.
LEMMA WantedStep ==
    ASSUME SyncInv, [Next]_vars, ~Crash
    PROVE  DaysWanted \subseteq DaysWanted' \cup DaysOf(coverage')
<1> USE RangeAssumption
<1>1. CASE UNCHANGED wanted
  BY <1>1 DEF DaysWanted
<1>2. wanted \in Seq(Spans) /\ PullingOK
  BY SyncInvParts DEF SyncInv, TypeOK, Spans
<1>3. CASE \/ \E lo, hi \in 0..MaxDay : EnsureRangeHydrated(lo, hi)
           \/ OlderHistoryBackfill
  <2>1. ASSUME NEW d \in DaysWanted PROVE d \in DaysWanted'
    <3>1. PICK k \in DOMAIN wanted : d \in Days /\ wanted[k][1] <= d /\ d < wanted[k][2]
      BY WantedDay
    <3>2. /\ k \in DOMAIN wanted'
          /\ wanted'[k][1] <= wanted[k][1] /\ wanted[k][2] <= wanted'[k][2]
          /\ wanted' \in Seq(Spans)
      BY <1>2, <1>3, RequestStep
    <3>3. wanted[k] \in Intervals /\ wanted'[k] \in Intervals
      BY <1>2, <3>2 DEF Spans
    <3>4. wanted'[k][1] <= d /\ d < wanted'[k][2]
      BY <3>1, <3>2, <3>3 DEF Intervals, Days
    <3> QED
      BY <3>1, <3>2, <3>4, WantedDay
  <2> QED
    BY <2>1
<1>4. CASE ApplyFinal
  <2>1. CASE job.hydration /\ wanted # <<>> /\ Head(wanted) = <<job.lo, job.hi>>
    <3>1. job.phase = "applying" /\ wanted' = Tail(wanted)
      BY <1>4, <2>1 DEF ApplyFinal, Answered
    <3>2. coverage' = NewCoverage
      BY <1>4, <2>1, <3>1 DEF ApplyFinal, SyncInv, PullOK, Pulling
    <3>3. Within(job.lo, job.hi) \subseteq DaysOf(coverage')
      BY <3>1, <3>2, NewCoverageOK
    <3> QED
      BY <2>1, <3>1, <3>3, HeadCovered
  <2>2. CASE ~(job.hydration /\ wanted # <<>> /\ Head(wanted) = <<job.lo, job.hi>>)
    BY <1>1, <1>4, <2>2 DEF ApplyFinal, Answered
  <2> QED
    BY <2>1, <2>2
<1>5. CASE NextHydration
  <2> DEFINE r == Head(wanted)
  <2>1. CASE wanted # <<>> /\ Covered(r[1], r[2])
    <3>1. wanted' = Tail(wanted) /\ coverage' = coverage
      BY <1>5, <2>1 DEF NextHydration, data
    <3>2. r \in Spans
      BY <1>2, <2>1
    <3>3. r[1] \in 0 .. MaxDay /\ r[2] \in 0 .. MaxDay
      BY <3>2 DEF Spans, Intervals
    <3>4. Within(r[1], r[2]) \subseteq DaysOf(coverage')
      BY <1>2, <2>1, <3>1, <3>3, CoveredDays DEF PullingOK
    <3> QED
      BY <2>1, <3>1, <3>4, HeadCovered
  <2>2. CASE ~(wanted # <<>> /\ Covered(r[1], r[2]))
    BY <1>1, <1>5, <2>2 DEF NextHydration
  <2> QED
    BY <2>1, <2>2
<1>6. \/ UNCHANGED wanted
      \/ \E lo, hi \in 0..MaxDay : EnsureRangeHydrated(lo, hi)
      \/ OlderHistoryBackfill \/ ApplyFinal \/ NextHydration
  BY DEF Next, vars, data, ForeignChange, EditEvent, Slide, StartSync, LastPage,
         TokenExpired, ListFails, FirstPage, ApplyEvent, RemoveEvent, Push, Finish
<1> QED
  BY <1>1, <1>3, <1>4, <1>5, <1>6

\* A range that views asked for is forgotten only once it is covered, however
\* requests grow while they are answered; a restart forgets them all.
THEOREM HydrationKept == Spec => HydratedBeforeForgotten
<1>1. SyncInv /\ [Next]_vars =>
        [\/ DaysWanted \subseteq DaysWanted' \cup DaysOf(coverage')
         \/ Crash]_vars
  BY WantedStep
<1> QED
  BY <1>1, SyncInit, SyncStep, PTL DEF Spec, HydratedBeforeForgotten

-----------------------------------------------------------------------------
(* Covered days are fresh.                                                 *)
(*                                                                         *)
(* As long as the window does not move: what the token stands for has been *)
(* applied, a listing under way has read whatever its token will stand     *)
(* for, and what it removes is not at the server under a day it keeps.     *)

\* Versions only grow; an open conflict is about a newer one than the edit's.
VersionsOK ==
    /\ token <= changes
    /\ \A e \in EventIds :
        /\ remote[e].at <= changes /\ local[e].at <= remote[e].at
        /\ conflict[e].kind = "changed" =>
            /\ local[e].dirty
            /\ local[e].at < conflict[e].theirs.at
            /\ conflict[e].theirs.at <= remote[e].at
        /\ edits = 0 => ~local[e].dirty /\ conflict[e] = NoConflict

\* With a token the window is covered, without one nothing is; a listing knows
\* which of the two it started from.
WindowOK ==
    /\ token = NoToken => coverage = {}
    /\ token # NoToken => Covered(today, today + Width)
    /\ job.phase \in {"hydrating", "draining"} => token # NoToken
    /\ job.phase \in Pulling =>
        /\ job.hydration => ~job.reset /\ token # NoToken
        /\ ~job.hydration => job.lo = today /\ job.hi = today + Width
        /\ ~job.hydration /\ job.full /\ ~job.reset => coverage = {}
        /\ ~job.full => ~job.reset /\ job.since = token /\ token # NoToken
    /\ job.phase = "listing" => job.seen = {} /\ job.staged = {} /\ job.removed = {}

\* The provider's side of a conflict is as fresh as a row.
ConflictsFresh ==
    \A e \in EventIds :
        /\ conflict[e].kind = "changed"
        /\ remote[e].at <= token /\ remote[e].day \in DaysOf(coverage)
        => conflict[e].theirs = remote[e]

\* A listing that has read at least its first page.
Reading == job.phase \in {"paging", "applying"}

\* What a listing has read is what the server has, or the server has a change
\* that the listing's token does not stand for.
ReadOK ==
    Reading =>
        /\ token <= job.next /\ job.next <= changes
        /\ \A e \in EventIds, row \in RemoteEvents : <<e, row>> \in job.staged =>
            /\ e \in job.seen
            /\ local[e].at <= row.at /\ row.at <= remote[e].at
            /\ remote[e].at <= job.next => row = remote[e]
        /\ \A e \in EventIds, r1, r2 \in RemoteEvents :
            <<e, r1>> \in job.staged /\ <<e, r2>> \in job.staged => r1 = r2
        /\ ~job.full => \A e \in job.seen \cup job.removed : remote[e].at > token
        /\ ~job.full => \A e \in job.removed :
            remote[e].at <= job.next => remote[e].day = Nowhere

\* Between two pages: what was seen is staged, or removed.
PagingOK ==
    job.phase = "paging" =>
        /\ \A e \in job.seen : remote[e].at <= job.next =>
            /\ IF remote[e].day = Nowhere THEN e \in job.removed
               ELSE <<e, remote[e]>> \in job.staged
            /\ job.full => remote[e].day \in Within(job.lo, job.hi)
        /\ job.full => job.removed = {}

\* A staged event has been applied.
Taken(e) ==
    /\ \/ local[e].dirty
       \/ local[e].day = remote[e].day /\ local[e].at = remote[e].at
    /\ conflict[e].kind = "changed" => conflict[e].theirs = remote[e]

\* After the last page: what the token will stand for is staged or applied,
\* and what the listing did not show is removed or gone from its range.
ApplyingOK ==
    job.phase = "applying" =>
        /\ \A e \in Listed : remote[e].at <= job.next =>
            IF remote[e].day = Nowhere
            THEN e \in job.removed \/ local[e].dirty \/ local[e].day = Nowhere
            ELSE <<e, remote[e]>> \in job.staged \/ Taken(e)
        /\ job.full => \A e \in job.removed :
            /\ e \notin job.seen
            /\ local[e].dirty \/ local[e].day \in Within(job.lo, job.hi)
            /\ remote[e].at <= job.next => remote[e].day \notin Within(job.lo, job.hi)
        /\ job.full /\ edits = 0 => \A e \in EventIds :
            /\ remote[e].at <= job.next
            /\ remote[e].day \notin Within(job.lo, job.hi)
            /\ local[e].day \in Within(job.lo, job.hi)
            => e \in job.removed

\* Stale's negation, with what it says of a row at stake.
Faithful(e) ==
    /\ remote[e].at <= token /\ ~local[e].dirty /\ conflict[e] = NoConflict
    /\ \/ remote[e].day \in DaysOf(coverage)
       \/ edits = 0 /\ local[e].day \in DaysOf(coverage)
    => /\ local[e].day = remote[e].day
       /\ local[e].at = remote[e].at \/ remote[e].day = Nowhere

\* Every event is as fresh as its day is covered.
RowsFresh == \A e \in EventIds : Faithful(e)

\* The invariant behind CoveredIsFresh, while the default window stands where it
\* stood at first.
Fresh ==
    /\ VersionsOK /\ WindowOK /\ ConflictsFresh /\ RowsFresh
    /\ ReadOK /\ PagingOK /\ ApplyingOK

FreshInv == today = FirstToday => Fresh

-----------------------------------------------------------------------------
\* Versions are numbers, days of ranges are days.
LEMMA FreshTypes ==
    ASSUME SyncInv
    PROVE  /\ changes \in Nat /\ token \in Int /\ edits \in Nat
           /\ \A e \in EventIds :
                /\ remote[e] \in RemoteEvents /\ local[e] \in LocalEvents
                /\ remote[e].at \in Nat /\ local[e].at \in Nat
                /\ local[e].dirty \in BOOLEAN
                /\ conflict[e].kind = "changed" =>
                    /\ conflict[e].theirs \in RemoteEvents
                    /\ conflict[e].theirs.at \in Nat
           /\ Reading => job \in PullJobs /\ job.next \in Nat
<1>1. \A e \in EventIds : remote[e] \in RemoteEvents /\ local[e] \in LocalEvents
                          /\ conflict[e] \in Conflicts
  BY DEF SyncInv, TypeOK
<1>2. \A e \in EventIds : remote[e].at \in Nat /\ local[e].at \in Nat
                          /\ local[e].dirty \in BOOLEAN
  BY <1>1, RangeAssumption DEF RemoteEvents, LocalEvents, Revisions, RangeAssumption
<1>3. \A c \in Conflicts : c.kind = "changed" => c.theirs \in RemoteEvents
  BY DEF Conflicts, NoConflict
<1>4. \A r \in RemoteEvents : r.at \in Nat
  BY RangeAssumption DEF RemoteEvents, Revisions, RangeAssumption
<1>5. changes \in Nat /\ token \in Int /\ edits \in Nat
  BY RangeAssumption DEF SyncInv, TypeOK, Revisions, NoToken, RangeAssumption
<1>6. Reading => job \in PullJobs /\ job.next \in Nat
  <2>1. Reading => job \in PullJobs
    BY JobShape DEF SyncInv, TypeOK, Reading, Pulling
  <2>2. \A j \in PullJobs : j.next \in Nat
    BY RangeAssumption DEF PullJobs, Revisions, RangeAssumption
  <2> QED
    BY <2>1, <2>2
<1> QED
  BY <1>1, <1>2, <1>3, <1>4, <1>5, <1>6

\* An event that was removed is on no day of any range.
LEMMA NowhereIsNoDay ==
    /\ Nowhere \notin Days
    /\ \A lo, hi : Nowhere \notin Within(lo, hi)
    /\ \A I : Nowhere \notin DaysOf(I)
  BY DEF Nowhere, Days, Within, DaysOf

\* Requests, and steps that change nothing that matters.
LEMMA FreshKept ==
    ASSUME Fresh, UNCHANGED <<remote, local, conflict, token, coverage, today, job,
                              changes, edits>>
    PROVE  Fresh'
<1>1. VersionsOK' /\ WindowOK' /\ ConflictsFresh'
  BY DEF Fresh, VersionsOK, WindowOK, ConflictsFresh, Covered
<1>2. RowsFresh' /\ ReadOK' /\ PagingOK'
  BY DEF Fresh, RowsFresh, Faithful, ReadOK, Reading, PagingOK
<1>3. ApplyingOK'
  BY DEF Fresh, ApplyingOK, Listed, Taken
<1> QED
  BY <1>1, <1>2, <1>3 DEF Fresh

\* A change by another client is newer than any token.
LEMMA ForeignFresh ==
    ASSUME SyncInv, Fresh, NEW e \in EventIds, NEW day, ForeignChange(e, day)
    PROVE  Fresh'
<1>1. /\ remote' = [remote EXCEPT ![e] = [day |-> day, at |-> changes + 1]]
      /\ changes' = changes + 1
      /\ UNCHANGED <<local, conflict, token, coverage, today, job, edits>>
  BY DEF ForeignChange
<1>2. /\ remote'[e].at = changes + 1
      /\ \A x \in EventIds \ {e} : remote'[x] = remote[x]
  BY <1>1 DEF SyncInv, TypeOK
<1>3. VersionsOK'
  BY <1>1, <1>2, FreshTypes DEF Fresh, VersionsOK
<1>4. WindowOK'
  BY <1>1 DEF Fresh, WindowOK, Covered
<1>5. remote'[e].at > token /\ (Reading => remote'[e].at > job.next)
  BY <1>2, FreshTypes DEF Fresh, VersionsOK, ReadOK
<1>6. ConflictsFresh' /\ RowsFresh'
  BY <1>1, <1>2, <1>5, FreshTypes DEF Fresh, ConflictsFresh, RowsFresh, Faithful
<1>7. \A x \in EventIds : remote[x].at <= remote'[x].at
  BY <1>2, FreshTypes DEF Fresh, VersionsOK
<1>8. ReadOK'
  BY <1>1, <1>2, <1>5, <1>7, FreshTypes DEF Fresh, ReadOK, Reading, PullJobs, RemoteEvents, Revisions
<1>9. PagingOK'
  BY <1>1, <1>2, <1>5, FreshTypes DEF Fresh, PagingOK, Reading, PullJobs
<1>10. ApplyingOK'
  BY <1>1, <1>2, <1>5, FreshTypes DEF Fresh, ApplyingOK, Reading, Listed, Taken, PullJobs
<1> QED
  BY <1>3, <1>4, <1>6, <1>8, <1>9, <1>10 DEF Fresh

\* An edit makes its row one that no pull replaces.
LEMMA EditFresh ==
    ASSUME SyncInv, Fresh, NEW e \in EventIds, NEW day, EditEvent(e, day)
    PROVE  Fresh'
<1>1. /\ local' = [local EXCEPT ![e] = [local[e] EXCEPT !.day = day, !.dirty = TRUE]]
      /\ edits' = edits + 1
      /\ UNCHANGED <<remote, conflict, token, coverage, today, job, changes>>
  BY DEF EditEvent
<1>2. /\ local'[e].dirty /\ local'[e].at = local[e].at
      /\ \A x \in EventIds \ {e} : local'[x] = local[x]
      /\ edits' # 0
  BY <1>1, FreshTypes DEF SyncInv, TypeOK, LocalEvents
<1>3. VersionsOK'
  BY <1>1, <1>2 DEF Fresh, VersionsOK
<1>4. WindowOK' /\ ConflictsFresh' /\ PagingOK'
  BY <1>1 DEF Fresh, WindowOK, Covered, ConflictsFresh, PagingOK
<1>5. RowsFresh'
  BY <1>1, <1>2 DEF Fresh, RowsFresh, Faithful
<1>6. ReadOK'
  BY <1>1, <1>2 DEF Fresh, ReadOK, Reading
<1>7. ApplyingOK'
  BY <1>1, <1>2, FreshTypes DEF Fresh, ApplyingOK, Listed, Taken, Reading, PullJobs
<1> QED
  BY <1>3, <1>4, <1>5, <1>6, <1>7 DEF Fresh

\* A step that changes the job only, outside of a reading, has the window left.
LEMMA JobFresh ==
    ASSUME Fresh, UNCHANGED <<remote, local, conflict, token, coverage, today,
                              changes, edits>>,
           ~Reading', WindowOK'
    PROVE  Fresh'
<1>1. VersionsOK' /\ ConflictsFresh'
  BY DEF Fresh, VersionsOK, ConflictsFresh
<1>2. RowsFresh'
  BY DEF Fresh, RowsFresh, Faithful
<1>3. ReadOK' /\ PagingOK' /\ ApplyingOK'
  BY DEF ReadOK, PagingOK, ApplyingOK, Reading
<1> QED
  BY <1>1, <1>2, <1>3 DEF Fresh

\* A synchronisation that starts, restarts or stops, and the next hydration.
LEMMA ListingFresh ==
    ASSUME SyncInv, Fresh,
           StartSync \/ TokenExpired \/ ListFails \/ Crash \/ NextHydration
    PROVE  Fresh'
<1>1. UNCHANGED <<remote, local, conflict, token, coverage, today, changes, edits>>
  BY DEF StartSync, TokenExpired, ListFails, Crash, NextHydration, data, counters
<1>2. WindowOK
  BY DEF Fresh
<1>3. CASE StartSync \/ TokenExpired
  <2>1. PICK reset \in BOOLEAN : job' = CalendarListing(reset)
    BY <1>3 DEF StartSync, TokenExpired
  <2> DEFINE since == IF reset \/ ~Covered(today, today + Width) THEN NoToken ELSE token
  <2>2. /\ job'.phase = "listing" /\ job'.full = (since = NoToken)
        /\ job'.hydration = FALSE /\ job'.reset = reset
        /\ job'.lo = today /\ job'.hi = today + Width /\ job'.since = since
        /\ job'.seen = {} /\ job'.staged = {} /\ job'.removed = {}
    BY <2>1 DEF CalendarListing, Listing
  <2>3. /\ since = NoToken => reset \/ token = NoToken
        /\ since # NoToken => ~reset /\ since = token
    BY <1>2 DEF WindowOK
  <2> HIDE DEF since
  <2>4. WindowOK'
    BY <1>1, <1>2, <2>2, <2>3 DEF WindowOK, Covered, Pulling
  <2>5. ~Reading'
    BY <2>2 DEF Reading
  <2> QED
    BY <1>1, <2>4, <2>5, JobFresh
<1>4. CASE ListFails \/ Crash
  <2>1. job'.phase = "idle"
    BY <1>4 DEF ListFails, Crash, Idle
  <2>2. WindowOK'
    BY <1>1, <1>2, <2>1 DEF WindowOK, Covered, Pulling
  <2> QED
    BY <1>1, <2>1, <2>2, JobFresh DEF Reading
<1>5. CASE NextHydration
  <2>1. job.phase = "hydrating" /\ token # NoToken
    BY <1>2, <1>5 DEF NextHydration, WindowOK
  <2>2. \/ job' = job
        \/ job' = [phase |-> "draining"]
        \/ \E lo, hi : job' = Listing(TRUE, FALSE, lo, hi, NoToken)
    BY <1>5 DEF NextHydration
  <2>3. CASE job' = job \/ job' = [phase |-> "draining"]
    <3>1. job'.phase \in {"hydrating", "draining"}
      BY <2>1, <2>3
    <3>2. WindowOK'
      BY <1>1, <1>2, <2>1, <3>1 DEF WindowOK, Covered, Pulling
    <3> QED
      BY <1>1, <3>1, <3>2, JobFresh DEF Reading
  <2>4. ASSUME NEW lo, NEW hi, job' = Listing(TRUE, FALSE, lo, hi, NoToken)
        PROVE  Fresh'
    <3>1. /\ job'.phase = "listing" /\ job'.full = TRUE /\ job'.hydration = TRUE
          /\ job'.reset = FALSE
          /\ job'.seen = {} /\ job'.staged = {} /\ job'.removed = {}
      BY <2>4 DEF Listing
    <3>2. WindowOK'
      BY <1>1, <1>2, <2>1, <3>1 DEF WindowOK, Covered, Pulling
    <3> QED
      BY <1>1, <3>1, <3>2, JobFresh DEF Reading
  <2> QED
    BY <2>2, <2>3, <2>4
<1> QED
  BY <1>3, <1>4, <1>5

\* What a page adds to the listing.
LEMMA PageIs ==
    ASSUME SyncInv, job.phase \in Pulling, NEW S \in SUBSET EventIds
    PROVE  /\ Page(S) \in PullJobs
           /\ Page(S).lo = job.lo /\ Page(S).hi = job.hi /\ Page(S).full = job.full
           /\ Page(S).hydration = job.hydration /\ Page(S).reset = job.reset
           /\ Page(S).since = job.since /\ Page(S).next = job.next
           /\ Page(S).seen = job.seen \cup S
           /\ \A e, row : <<e, row>> \in Page(S).staged <=>
                \/ <<e, row>> \in job.staged
                \/ e \in S /\ remote[e].day # Nowhere /\ row = remote[e]
           /\ \A e : e \in Page(S).removed <=>
                \/ e \in job.removed
                \/ e \in S /\ remote[e].day = Nowhere
<1> DEFINE seen == job.seen \cup S
           staged == job.staged \cup {<<e, remote[e]>> : e \in
                                     {x \in S : remote[x].day # Nowhere}}
           removed == job.removed \cup {e \in S : remote[e].day = Nowhere}
<1>1. job \in PullJobs
  BY JobShape DEF SyncInv, TypeOK
<1>2. Page(S) = [job EXCEPT !.seen = seen, !.staged = staged, !.removed = removed]
  BY DEF Page
<1>3. \A e, row : <<e, row>> \in staged <=>
         \/ <<e, row>> \in job.staged
         \/ e \in S /\ remote[e].day # Nowhere /\ row = remote[e]
  OBVIOUS
<1>4. \A e : e \in removed <=>
         \/ e \in job.removed
         \/ e \in S /\ remote[e].day = Nowhere
  OBVIOUS
<1> HIDE DEF seen, staged, removed
<1>5. /\ Page(S).lo = job.lo /\ Page(S).hi = job.hi /\ Page(S).full = job.full
      /\ Page(S).hydration = job.hydration /\ Page(S).reset = job.reset
      /\ Page(S).since = job.since /\ Page(S).next = job.next
      /\ Page(S).seen = seen /\ Page(S).staged = staged /\ Page(S).removed = removed
  BY <1>1, <1>2 DEF PullJobs
<1> QED
  BY <1>3, <1>4, <1>5, PageOK DEF seen

\* A job that goes on with the same range keeps what the window says.
LEMMA WindowKept ==
    ASSUME WindowOK, UNCHANGED <<token, coverage, today>>,
           job.phase \in Pulling, job'.phase \in {"paging", "applying"},
           job'.full = job.full, job'.hydration = job.hydration, job'.reset = job.reset,
           job'.lo = job.lo, job'.hi = job.hi, job'.since = job.since
    PROVE  WindowOK'
  BY DEF WindowOK, Covered, Pulling

\* The listing starts: its token will stand for this moment.
LEMMA FirstPageFresh ==
    ASSUME SyncInv, Fresh, NEW S \in SUBSET EventIds, FirstPage(S)
    PROVE  Fresh'
<1>1. /\ UNCHANGED <<remote, local, conflict, token, coverage, today, changes, edits>>
      /\ job.phase = "listing" /\ S \subseteq Listed
      /\ job' = [Page(S) EXCEPT !.phase = "paging", !.next = changes]
  BY DEF FirstPage, data, counters
<1>2. job.phase \in Pulling /\ job.seen = {} /\ job.staged = {} /\ job.removed = {}
  BY <1>1 DEF Fresh, WindowOK, Pulling
<1> DEFINE page == Page(S)
<1>3. /\ page \in PullJobs
      /\ page.lo = job.lo /\ page.hi = job.hi /\ page.full = job.full
      /\ page.hydration = job.hydration /\ page.reset = job.reset
      /\ page.since = job.since /\ page.seen = S
      /\ \A e, row : <<e, row>> \in page.staged <=>
           e \in S /\ remote[e].day # Nowhere /\ row = remote[e]
      /\ \A e : e \in page.removed <=> e \in S /\ remote[e].day = Nowhere
  BY <1>2, PageIs
<1>4. job' = [page EXCEPT !.phase = "paging", !.next = changes]
  BY <1>1
<1> HIDE DEF page
<1>5. /\ job'.phase = "paging" /\ job'.next = changes
      /\ job'.lo = job.lo /\ job'.hi = job.hi /\ job'.full = job.full
      /\ job'.hydration = job.hydration /\ job'.reset = job.reset
      /\ job'.since = job.since /\ job'.seen = S
      /\ job'.staged = page.staged /\ job'.removed = page.removed
  BY <1>3, <1>4 DEF PullJobs
<1>6. \A e \in S : IF job.full THEN remote[e].day \in Within(job.lo, job.hi)
                              ELSE remote[e].at > job.since
  BY <1>1 DEF Listed
<1>7. WindowOK'
  BY <1>1, <1>2, <1>5, WindowKept DEF Fresh
<1>8. VersionsOK' /\ ConflictsFresh' /\ RowsFresh'
  BY <1>1 DEF Fresh, VersionsOK, ConflictsFresh, RowsFresh, Faithful
<1>9. ReadOK'
  <2>1. changes \in Nat /\ token <= changes /\ \A e \in EventIds : local[e].at <= remote[e].at
    BY FreshTypes DEF Fresh, VersionsOK
  <2>2. ~job.full => job.since = token
    BY <1>2 DEF Fresh, WindowOK
  <2>3. \A e \in S : e \in EventIds /\ remote[e].at <= remote[e].at
    BY FreshTypes
  <2> QED
    BY <1>1, <1>3, <1>5, <1>6, <2>1, <2>2, <2>3 DEF ReadOK
<1>10. PagingOK'
  <2>1. job.full => \A e \in S : remote[e].day # Nowhere
    BY <1>6, NowhereIsNoDay
  <2> QED
    BY <1>1, <1>3, <1>5, <1>6, <2>1 DEF PagingOK
<1>11. ApplyingOK'
  BY <1>5 DEF ApplyingOK
<1> QED
  BY <1>7, <1>8, <1>9, <1>10, <1>11 DEF Fresh

\* The rest of the listing, and what it does not show.
LEMMA LastPageFresh ==
    ASSUME SyncInv, Fresh, LastPage
    PROVE  Fresh'
<1> DEFINE S == Listed \ job.seen
           page == Page(S)
           more == IF job.full THEN Pruned(page.seen) ELSE {}
<1>1. /\ UNCHANGED <<remote, local, conflict, token, coverage, today, changes, edits>>
      /\ job.phase = "paging"
      /\ job' = [page EXCEPT !.phase = "applying", !.removed = @ \cup more]
  BY DEF LastPage, data, counters
<1>2. job.phase \in Pulling /\ Reading /\ job.phase # "applying"
  BY <1>1 DEF Pulling, Reading
<1>3. S \in SUBSET EventIds
  BY DEF Listed
<1>4. /\ page \in PullJobs
      /\ page.lo = job.lo /\ page.hi = job.hi /\ page.full = job.full
      /\ page.hydration = job.hydration /\ page.reset = job.reset
      /\ page.since = job.since /\ page.next = job.next /\ page.seen = job.seen \cup S
      /\ \A e, row : <<e, row>> \in page.staged <=>
           \/ <<e, row>> \in job.staged
           \/ e \in S /\ remote[e].day # Nowhere /\ row = remote[e]
      /\ \A e : e \in page.removed <=>
           \/ e \in job.removed
           \/ e \in S /\ remote[e].day = Nowhere
  BY <1>2, <1>3, PageIs
<1>5. \A e : e \in more <=>
         /\ job.full /\ e \in EventIds /\ e \notin job.seen \cup S
         /\ local[e].day \in Within(job.lo, job.hi)
  BY <1>4 DEF Pruned
<1>6. \A e \in EventIds : e \in Listed <=>
         IF job.full THEN remote[e].day \in Within(job.lo, job.hi)
                     ELSE remote[e].at > job.since
  BY DEF Listed
<1>7. \A e : e \in S <=> e \in Listed /\ e \notin job.seen
  OBVIOUS
<1> HIDE DEF S, page, more
<1>8. /\ job'.phase = "applying" /\ job'.next = job.next
      /\ job'.lo = job.lo /\ job'.hi = job.hi /\ job'.full = job.full
      /\ job'.hydration = job.hydration /\ job'.reset = job.reset
      /\ job'.since = job.since /\ job'.seen = job.seen \cup S
      /\ job'.staged = page.staged /\ job'.removed = page.removed \cup more
  BY <1>1, <1>4 DEF PullJobs
<1>9. WindowOK'
  BY <1>1, <1>2, <1>8, WindowKept DEF Fresh
<1>10. VersionsOK' /\ ConflictsFresh' /\ RowsFresh'
  BY <1>1 DEF Fresh, VersionsOK, ConflictsFresh, RowsFresh, Faithful
<1>11. Listed' = Listed
  BY <1>1, <1>8 DEF Listed
<1>12. ~job.full => job.since = token
  BY <1>2 DEF Fresh, WindowOK
<1>13. ReadOK'
  <2>1. /\ job.next <= changes /\ token <= job.next
        /\ \A e \in EventIds, row \in RemoteEvents : <<e, row>> \in job.staged =>
            /\ e \in job.seen
            /\ local[e].at <= row.at /\ row.at <= remote[e].at
            /\ remote[e].at <= job.next => row = remote[e]
        /\ \A e \in EventIds, r1, r2 \in RemoteEvents :
            <<e, r1>> \in job.staged /\ <<e, r2>> \in job.staged => r1 = r2
        /\ ~job.full => \A e \in job.seen \cup job.removed : remote[e].at > token
        /\ ~job.full => \A e \in job.removed :
            remote[e].at <= job.next => remote[e].day = Nowhere
    BY <1>2 DEF Fresh, ReadOK
  <2>2. \A e \in EventIds : local[e].at <= remote[e].at /\ remote[e].at <= remote[e].at
    BY FreshTypes DEF Fresh, VersionsOK
  <2>3. \A e \in EventIds, row \in RemoteEvents : <<e, row>> \in job'.staged =>
          /\ e \in job'.seen
          /\ local[e].at <= row.at /\ row.at <= remote[e].at
          /\ remote[e].at <= job.next => row = remote[e]
    BY <1>4, <1>8, <2>1, <2>2
  <2>4. \A e \in EventIds, r1, r2 \in RemoteEvents :
          <<e, r1>> \in job'.staged /\ <<e, r2>> \in job'.staged => r1 = r2
    BY <1>4, <1>7, <1>8, <2>1
  <2>5. ~job.full => \A e \in job'.seen \cup job'.removed : remote[e].at > token
    BY <1>3, <1>4, <1>5, <1>6, <1>7, <1>8, <1>12, <2>1
  <2>6. ~job.full => \A e \in job'.removed :
          remote[e].at <= job.next => remote[e].day = Nowhere
    BY <1>4, <1>5, <1>8, <2>1
  <2> QED
    BY <1>1, <1>8, <2>1, <2>3, <2>4, <2>5, <2>6 DEF ReadOK
<1>14. PagingOK'
  BY <1>8 DEF PagingOK
<1>15. /\ \A e \in job.seen : remote[e].at <= job.next =>
            /\ IF remote[e].day = Nowhere THEN e \in job.removed
               ELSE <<e, remote[e]>> \in job.staged
            /\ job.full => remote[e].day \in Within(job.lo, job.hi)
       /\ job.full => job.removed = {}
  BY <1>1 DEF Fresh, PagingOK
<1>16. job.full => \A e \in S : remote[e].day # Nowhere
  BY <1>3, <1>6, <1>7, NowhereIsNoDay
<1>17. ApplyingOK'
  <2>1. \A e \in Listed : remote[e].at <= job.next =>
          IF remote[e].day = Nowhere THEN e \in job'.removed
          ELSE <<e, remote[e]>> \in job'.staged
    BY <1>4, <1>7, <1>8, <1>15
  <2>2. job.full => \A e \in job'.removed :
          /\ e \notin job'.seen
          /\ local[e].day \in Within(job.lo, job.hi)
          /\ remote[e].day \notin Within(job.lo, job.hi)
    BY <1>4, <1>5, <1>6, <1>7, <1>8, <1>15, <1>16
  <2>3. job.full => \A e \in EventIds :
          /\ remote[e].at <= job.next
          /\ remote[e].day \notin Within(job.lo, job.hi)
          /\ local[e].day \in Within(job.lo, job.hi)
          => e \in job'.removed
    BY <1>5, <1>6, <1>7, <1>8, <1>15
  <2> QED
    BY <1>1, <1>8, <1>11, <2>1, <2>2, <2>3 DEF ApplyingOK
<1> QED
  BY <1>9, <1>10, <1>13, <1>14, <1>17 DEF Fresh

\* A staged event: the row is what the listing saw, or the edit stays and the
\* conflict shows what the listing saw.
LEMMA ApplyEventFresh ==
    ASSUME SyncInv, Fresh, NEW e \in EventIds, NEW row \in RemoteEvents,
           ApplyEvent(e, row)
    PROVE  Fresh'
<1>1. /\ UNCHANGED <<remote, token, coverage, today, changes, edits>>
      /\ job.phase = "applying" /\ <<e, row>> \in job.staged
      /\ job' = [job EXCEPT !.staged = @ \ {<<e, row>>}]
  BY DEF ApplyEvent, counters
<1>2. /\ job \in PullJobs /\ job.phase \in Pulling /\ Reading
  BY <1>1, FreshTypes DEF Pulling, Reading
<1>3. /\ job'.phase = "applying" /\ job'.next = job.next
      /\ job'.lo = job.lo /\ job'.hi = job.hi /\ job'.full = job.full
      /\ job'.hydration = job.hydration /\ job'.reset = job.reset
      /\ job'.since = job.since /\ job'.seen = job.seen
      /\ job'.staged = job.staged \ {<<e, row>>} /\ job'.removed = job.removed
  BY <1>1, <1>2 DEF PullJobs
<1>4. /\ job.next <= changes /\ token <= job.next
      /\ \A x \in EventIds, r \in RemoteEvents : <<x, r>> \in job.staged =>
          /\ x \in job.seen
          /\ local[x].at <= r.at /\ r.at <= remote[x].at
          /\ remote[x].at <= job.next => r = remote[x]
      /\ \A x \in EventIds, r1, r2 \in RemoteEvents :
          <<x, r1>> \in job.staged /\ <<x, r2>> \in job.staged => r1 = r2
      /\ ~job.full => \A x \in job.seen \cup job.removed : remote[x].at > token
      /\ ~job.full => \A x \in job.removed :
          remote[x].at <= job.next => remote[x].day = Nowhere
  BY <1>2 DEF Fresh, ReadOK
<1>5. /\ e \in job.seen /\ local[e].at <= row.at /\ row.at <= remote[e].at
      /\ remote[e].at <= job.next => row = remote[e]
  BY <1>1, <1>4
<1>6. \A x \in EventIds \ {e} : local'[x] = local[x] /\ conflict'[x] = conflict[x]
  BY DEF ApplyEvent, SyncInv, TypeOK
\* The row afterwards, and its conflict.
<1>7. /\ local'[e].at <= remote[e].at
      /\ conflict'[e].kind = "changed" =>
          /\ local'[e].dirty
          /\ local'[e].at < conflict'[e].theirs.at
          /\ conflict'[e].theirs.at <= remote[e].at
      /\ edits = 0 => ~local'[e].dirty /\ conflict'[e] = NoConflict
      /\ remote[e].at <= job.next =>
          /\ \/ local'[e].dirty
             \/ local'[e].day = remote[e].day /\ local'[e].at = remote[e].at
          /\ conflict'[e].kind = "changed" => conflict'[e].theirs = remote[e]
  <2>1. /\ local[e].at <= remote[e].at
        /\ conflict[e].kind = "changed" =>
            /\ local[e].dirty
            /\ local[e].at < conflict[e].theirs.at
            /\ conflict[e].theirs.at <= remote[e].at
        /\ edits = 0 => ~local[e].dirty /\ conflict[e] = NoConflict
    BY DEF Fresh, VersionsOK
  <2>2. CASE ~local[e].dirty
    <3>1. /\ local'[e] = [day |-> row.day, at |-> row.at, dirty |-> FALSE]
          /\ conflict' = conflict
      BY <2>2 DEF ApplyEvent, SyncInv, TypeOK
    <3> QED
      BY <1>5, <2>1, <2>2, <3>1
  <2>3. CASE local[e].dirty
    <3>1. /\ local' = local
          /\ \/ row.at = local[e].at /\ conflict' = conflict
             \/ /\ row.at # local[e].at
                /\ conflict'[e] = [kind |-> "changed", theirs |-> row,
                                   mine |-> local[e].day]
      BY <2>3 DEF ApplyEvent, SyncInv, TypeOK
    <3>2. row.at \in Nat /\ local[e].at \in Nat /\ remote[e].at \in Nat
      BY FreshTypes, RangeAssumption DEF RemoteEvents, Revisions, RangeAssumption
    <3>3. CASE row.at = local[e].at /\ conflict' = conflict
      <4>1. remote[e].at <= job.next => conflict[e].kind # "changed"
        <5> SUFFICES ASSUME row = remote[e], conflict[e].kind = "changed" PROVE FALSE
          BY <1>5
        <5>1. conflict[e].theirs.at \in Nat
          BY FreshTypes
        <5> QED
          BY <2>1, <3>2, <3>3, <5>1
      <4> QED
        BY <2>1, <2>3, <3>1, <3>3, <4>1
    <3>4. CASE /\ row.at # local[e].at
               /\ conflict'[e] = [kind |-> "changed", theirs |-> row,
                                  mine |-> local[e].day]
      BY <1>5, <2>1, <2>3, <3>1, <3>2, <3>4
    <3> QED
      BY <3>1, <3>3, <3>4
  <2> QED
    BY <2>2, <2>3
<1>8. remote[e].at <= token => remote[e].at <= job.next
  BY <1>2, <1>4, FreshTypes
<1>9. VersionsOK'
  BY <1>1, <1>6, <1>7 DEF Fresh, VersionsOK
<1>10. WindowOK'
  BY <1>1, <1>2, <1>3, WindowKept DEF Fresh
<1>11. ConflictsFresh'
  BY <1>1, <1>6, <1>7, <1>8 DEF Fresh, ConflictsFresh
<1>12. RowsFresh'
  <2>1. Faithful(e)'
    BY <1>1, <1>7, <1>8 DEF Faithful
  <2>2. \A x \in EventIds \ {e} : Faithful(x)'
    BY <1>1, <1>6 DEF Fresh, RowsFresh, Faithful
  <2> QED
    BY <2>1, <2>2 DEF RowsFresh
<1>13. ReadOK'
  <2>1. \A x \in EventIds, r \in RemoteEvents :
          <<x, r>> \in job'.staged => <<x, r>> \in job.staged /\ x # e
    BY <1>1, <1>3, <1>4
  <2> QED
    BY <1>1, <1>3, <1>4, <1>6, <2>1 DEF ReadOK
<1>14. PagingOK'
  BY <1>3 DEF PagingOK
<1>15. ApplyingOK'
  <2>1. Listed' = Listed
    BY <1>1, <1>3 DEF Listed
  <2>2. /\ \A x \in Listed : remote[x].at <= job.next =>
            IF remote[x].day = Nowhere
            THEN x \in job.removed \/ local[x].dirty \/ local[x].day = Nowhere
            ELSE <<x, remote[x]>> \in job.staged \/ Taken(x)
        /\ job.full => \A x \in job.removed :
            /\ x \notin job.seen
            /\ local[x].dirty \/ local[x].day \in Within(job.lo, job.hi)
            /\ remote[x].at <= job.next => remote[x].day \notin Within(job.lo, job.hi)
        /\ job.full /\ edits = 0 => \A x \in EventIds :
            /\ remote[x].at <= job.next
            /\ remote[x].day \notin Within(job.lo, job.hi)
            /\ local[x].day \in Within(job.lo, job.hi)
            => x \in job.removed
    BY <1>1 DEF Fresh, ApplyingOK
  <2>3. \A x \in Listed : x \in EventIds /\ remote[x] \in RemoteEvents
    BY FreshTypes DEF Listed
  <2>4. \A x \in EventIds \ {e} : Taken(x) => Taken(x)'
    BY <1>1, <1>6 DEF Taken
  <2>5. remote[e].at <= job.next => Taken(e)'
    BY <1>1, <1>7 DEF Taken
  <2>6. \A x \in EventIds \ {e} : <<x, remote[x]>> \in job.staged => <<x, remote[x]>> \in job'.staged
    BY <1>3
  <2>7. \A x \in Listed : remote[x].at <= job.next =>
            IF remote[x].day = Nowhere
            THEN x \in job'.removed \/ local'[x].dirty \/ local'[x].day = Nowhere
            ELSE <<x, remote[x]>> \in job'.staged \/ Taken(x)'
    BY <1>3, <1>6, <1>7, <2>2, <2>3, <2>4, <2>5, <2>6
  <2>8. job.full => \A x \in job.removed :
            /\ x \notin job.seen
            /\ local'[x].dirty \/ local'[x].day \in Within(job.lo, job.hi)
            /\ remote[x].at <= job.next => remote[x].day \notin Within(job.lo, job.hi)
    <3>1. job.removed \subseteq EventIds
      BY <1>2 DEF PullJobs
    <3> QED
      BY <1>5, <1>6, <2>2, <3>1
  <2>9. job.full /\ edits = 0 => \A x \in EventIds :
            /\ remote[x].at <= job.next
            /\ remote[x].day \notin Within(job.lo, job.hi)
            /\ local'[x].day \in Within(job.lo, job.hi)
            => x \in job.removed
    BY <1>6, <1>7, <2>2
  <2> QED
    BY <1>1, <1>3, <2>1, <2>7, <2>8, <2>9 DEF ApplyingOK
<1> QED
  BY <1>9, <1>10, <1>11, <1>12, <1>13, <1>14, <1>15 DEF Fresh

\* What the listing did not show goes, unless it was edited. What it kept from
\* being shown was not on a day it covers, or has changed since.
LEMMA RemoveEventFresh ==
    ASSUME SyncInv, Fresh, NEW e \in EventIds, RemoveEvent(e)
    PROVE  Fresh'
<1>1. /\ UNCHANGED <<remote, token, coverage, today, changes, edits>>
      /\ job.phase = "applying" /\ job.staged = {} /\ e \in job.removed
      /\ job' = [job EXCEPT !.removed = @ \ {e}]
  BY DEF RemoveEvent, counters
<1>2. /\ job \in PullJobs /\ job.phase \in Pulling /\ Reading
  BY <1>1, FreshTypes DEF Pulling, Reading
<1>3. /\ job'.phase = "applying" /\ job'.next = job.next
      /\ job'.lo = job.lo /\ job'.hi = job.hi /\ job'.full = job.full
      /\ job'.hydration = job.hydration /\ job'.reset = job.reset
      /\ job'.since = job.since /\ job'.seen = job.seen
      /\ job'.staged = {} /\ job'.removed = job.removed \ {e}
  BY <1>1, <1>2 DEF PullJobs
<1>4. /\ job.next <= changes /\ token <= job.next
      /\ ~job.full => \A x \in job.seen \cup job.removed : remote[x].at > token
      /\ ~job.full => \A x \in job.removed :
          remote[x].at <= job.next => remote[x].day = Nowhere
  BY <1>2 DEF Fresh, ReadOK
<1>5. \A x \in EventIds \ {e} : local'[x] = local[x] /\ conflict'[x] = conflict[x]
  BY DEF RemoveEvent, SyncInv, TypeOK
<1>6. /\ local'[e].at = local[e].at /\ local'[e].dirty = local[e].dirty
      /\ \/ ~local[e].dirty /\ local'[e].day = Nowhere /\ conflict'[e] = conflict[e]
         \/ local[e].dirty /\ conflict'[e].kind = "deleted"
  <2>1. CASE ~local[e].dirty
    <3>1. local' = [local EXCEPT ![e] = [local[e] EXCEPT !.day = Nowhere]] /\ conflict' = conflict
      BY <2>1 DEF RemoveEvent
    <3> QED
      BY <2>1, <3>1, FreshTypes DEF SyncInv, TypeOK, LocalEvents
  <2>2. CASE local[e].dirty
    <3>1. local' = local /\ conflict' = [conflict EXCEPT ![e] = [kind |-> "deleted"]]
      BY <2>2 DEF RemoveEvent
    <3>2. conflict'[e].kind = "deleted"
      BY <3>1 DEF SyncInv, TypeOK
    <3> QED
      BY <2>2, <3>1, <3>2
  <2> QED
    BY <2>1, <2>2
<1>7. VersionsOK'
  BY <1>1, <1>5, <1>6 DEF Fresh, VersionsOK
<1>8. WindowOK'
  BY <1>1, <1>2, <1>3, WindowKept DEF Fresh
<1>9. ConflictsFresh'
  BY <1>1, <1>5, <1>6 DEF Fresh, ConflictsFresh
<1>10. /\ \A x \in Listed : remote[x].at <= job.next =>
            IF remote[x].day = Nowhere
            THEN x \in job.removed \/ local[x].dirty \/ local[x].day = Nowhere
            ELSE Taken(x)
       /\ job.full => \A x \in job.removed :
            /\ x \notin job.seen
            /\ local[x].dirty \/ local[x].day \in Within(job.lo, job.hi)
            /\ remote[x].at <= job.next => remote[x].day \notin Within(job.lo, job.hi)
       /\ job.full /\ edits = 0 => \A x \in EventIds :
            /\ remote[x].at <= job.next
            /\ remote[x].day \notin Within(job.lo, job.hi)
            /\ local[x].day \in Within(job.lo, job.hi)
            => x \in job.removed
  BY <1>1 DEF Fresh, ApplyingOK
<1>11. remote[e].at <= token => remote[e].at <= job.next
  BY <1>2, <1>4, FreshTypes
<1>12. RowsFresh'
  <2>1. \A x \in EventIds \ {e} : Faithful(x)'
    BY <1>1, <1>5 DEF Fresh, RowsFresh, Faithful
  <2>2. Faithful(e)'
    <3> SUFFICES ASSUME remote[e].at <= token, ~local'[e].dirty, conflict'[e] = NoConflict,
                        \/ remote[e].day \in DaysOf(coverage)
                        \/ local'[e].day \in DaysOf(coverage)
                 PROVE  FALSE
      BY <1>1 DEF Faithful
    <3>1. /\ ~local[e].dirty /\ local'[e].day = Nowhere /\ conflict[e] = NoConflict
          /\ remote[e].day \in DaysOf(coverage)
      BY <1>6, NowhereIsNoDay
    <3>2. local[e].day = remote[e].day
      BY <3>1 DEF Fresh, RowsFresh, Faithful
    <3>3. job.full
      BY <1>1, <1>4, FreshTypes
    <3> QED
      BY <1>1, <1>10, <1>11, <3>1, <3>2, <3>3
  <2> QED
    BY <2>1, <2>2 DEF RowsFresh
<1>13. ReadOK'
  BY <1>1, <1>3, <1>4 DEF ReadOK
<1>14. PagingOK'
  BY <1>3 DEF PagingOK
<1>15. ApplyingOK'
  <2>1. Listed' = Listed /\ Listed \subseteq EventIds
    BY <1>1, <1>3 DEF Listed
  <2>2. \A x \in EventIds \ {e} : Taken(x) => Taken(x)'
    BY <1>1, <1>5 DEF Taken
  <2>3. e \in Listed /\ remote[e].at <= job.next => remote[e].day = Nowhere
    BY <1>1, <1>4, <1>10 DEF Listed
  <2>4. \A x \in Listed : remote[x].at <= job.next =>
            IF remote[x].day = Nowhere
            THEN x \in job'.removed \/ local'[x].dirty \/ local'[x].day = Nowhere
            ELSE Taken(x)'
    BY <1>3, <1>5, <1>6, <1>10, <2>1, <2>2, <2>3
  <2>5. job.removed \subseteq EventIds
    BY <1>2 DEF PullJobs
  <2>6. job.full => \A x \in job'.removed :
            /\ x \notin job.seen
            /\ local'[x].dirty \/ local'[x].day \in Within(job.lo, job.hi)
            /\ remote[x].at <= job.next => remote[x].day \notin Within(job.lo, job.hi)
    BY <1>3, <1>5, <1>10, <2>5
  <2>7. edits = 0 => ~local[e].dirty
    BY DEF Fresh, VersionsOK
  <2>8. job.full /\ edits = 0 => \A x \in EventIds :
            /\ remote[x].at <= job.next
            /\ remote[x].day \notin Within(job.lo, job.hi)
            /\ local'[x].day \in Within(job.lo, job.hi)
            => x \in job'.removed
    BY <1>3, <1>5, <1>6, <1>10, <2>7, NowhereIsNoDay
  <2> QED
    BY <1>1, <1>3, <2>1, <2>4, <2>6, <2>8 DEF ApplyingOK
<1> QED
  BY <1>7, <1>8, <1>9, <1>12, <1>13, <1>14, <1>15 DEF Fresh

\* The days of the new coverage: the token stands for what the listing has
\* read of its range, and of the others for no more than before.
LEMMA ApplyFinalFresh ==
    ASSUME RangeAssumption, SyncInv, Fresh, ApplyFinal
    PROVE  Fresh'
<1>1. /\ UNCHANGED <<remote, local, conflict, today, changes, edits>>
      /\ job.phase = "applying" /\ job.staged = {} /\ job.removed = {}
      /\ token' = IF job.hydration THEN token ELSE job.next
      /\ coverage' = IF job.full THEN NewCoverage ELSE coverage
      /\ job'.phase = "hydrating"
  BY DEF ApplyFinal, counters
<1>2. /\ job \in PullJobs /\ job.phase \in Pulling /\ Reading
      /\ job.hydration \in BOOLEAN /\ job.full \in BOOLEAN /\ job.reset \in BOOLEAN
  <2>1. job \in PullJobs /\ job.phase \in Pulling /\ Reading
    BY <1>1, FreshTypes DEF Pulling, Reading
  <2> QED
    BY <2>1 DEF PullJobs
<1>3. /\ job.next <= changes /\ token <= job.next /\ job.next \in Nat /\ token \in Int
      /\ \A x \in EventIds : remote[x].at \in Nat
  BY <1>2, FreshTypes DEF Fresh, ReadOK
<1>4. /\ job.hydration => job.full /\ ~job.reset /\ token # NoToken
      /\ ~job.hydration => job.lo = today /\ job.hi = today + Width
      /\ ~job.hydration /\ job.full /\ ~job.reset => coverage = {}
      /\ ~job.full => ~job.reset /\ job.since = token /\ token # NoToken
      /\ token # NoToken => Covered(today, today + Width)
  BY <1>2 DEF Fresh, WindowOK, SyncInv, PullOK
<1>5. /\ \A x \in Listed : remote[x].at <= job.next =>
            IF remote[x].day = Nowhere
            THEN local[x].dirty \/ local[x].day = Nowhere
            ELSE Taken(x)
      /\ job.full /\ edits = 0 => \A x \in EventIds :
            /\ remote[x].at <= job.next
            /\ remote[x].day \notin Within(job.lo, job.hi)
            => local[x].day \notin Within(job.lo, job.hi)
  BY <1>1 DEF Fresh, ApplyingOK
\* Where the new coverage has a day.
<1>6. /\ ~job.full => DaysOf(coverage') = DaysOf(coverage)
      /\ job.hydration =>
           DaysOf(coverage') = DaysOf(coverage) \cup Within(job.lo, job.hi)
      /\ job.full /\ ~job.hydration => DaysOf(coverage') = Within(job.lo, job.hi)
  <2>1. DaysOf({}) = {}
    BY DEF DaysOf
  <2> QED
    BY <1>1, <1>2, <1>4, <2>1, NewCoverageOK
<1>7. WindowOK'
  <2>1. token' # NoToken
    BY <1>1, <1>3, <1>4 DEF NoToken
  <2>2. Covered(today, today + Width)'
    <3>1. CASE ~job.full
      BY <1>1, <1>2, <1>4, <3>1 DEF Covered
    <3>2. CASE job.full /\ ~job.hydration
      BY <1>1, <1>4, <3>2, NewCoverageOK DEF Covered
    <3>3. CASE job.hydration
      <4>1. PICK i \in coverage : Covers(i, today, today + Width)
        BY <1>4, <3>3 DEF Covered
      <4>2. PICK m \in NewCoverage : Covers(m, i[1], i[2])
        BY <1>1, <1>4, <3>3, NewCoverageOK
      <4>3. i \in Intervals /\ m \in Intervals
        BY <1>1, NewCoverageOK DEF SyncInv, TypeOK
      <4>4. Covers(m, today, today + Width)
        BY <4>1, <4>2, <4>3, TodayIs DEF Covers, Intervals
      <4> QED
        BY <1>1, <1>4, <3>3, <4>4 DEF Covered
    <3> QED
      BY <1>2, <3>1, <3>2, <3>3
  <2> QED
    BY <1>1, <2>1, <2>2 DEF WindowOK, Pulling
<1>8. VersionsOK'
  BY <1>1, <1>2, <1>3 DEF Fresh, VersionsOK
\* An event of the new days at the server: as before, or as listed.
<1>9. ASSUME NEW e \in EventIds, remote[e].at <= token', remote[e].day \in DaysOf(coverage')
      PROVE  \/ remote[e].at <= token /\ remote[e].day \in DaysOf(coverage)
             \/ Taken(e)
  <2>1. remote[e].at <= job.next /\ remote[e].day # Nowhere
    BY <1>1, <1>2, <1>3, <1>9, NowhereIsNoDay
  <2>2. e \in Listed => Taken(e)
    BY <1>5, <2>1
  <2>3. CASE ~job.full
    BY <1>3, <1>4, <1>6, <1>9, <2>2, <2>3 DEF Listed
  <2>4. CASE job.full /\ ~job.hydration
    BY <1>6, <1>9, <2>2, <2>4 DEF Listed
  <2>5. CASE job.hydration
    BY <1>1, <1>4, <1>6, <1>9, <2>2, <2>5 DEF Listed
  <2> QED
    BY <1>2, <2>3, <2>4, <2>5
<1>10. ConflictsFresh'
  BY <1>1, <1>9 DEF Fresh, ConflictsFresh, Taken
<1>11. RowsFresh'
  <2> SUFFICES ASSUME NEW e \in EventIds,
                      remote[e].at <= token', ~local[e].dirty, conflict[e] = NoConflict,
                      \/ remote[e].day \in DaysOf(coverage')
                      \/ edits = 0 /\ local[e].day \in DaysOf(coverage')
               PROVE  /\ local[e].day = remote[e].day
                      /\ local[e].at = remote[e].at \/ remote[e].day = Nowhere
    BY <1>1 DEF RowsFresh, Faithful
  <2>1. Faithful(e)
    BY DEF Fresh, RowsFresh
  <2>2. Taken(e) => local[e].day = remote[e].day /\ local[e].at = remote[e].at
    BY DEF Taken
  <2>3. CASE remote[e].day \in DaysOf(coverage')
    BY <1>9, <2>1, <2>2, <2>3 DEF Faithful
  <2>4. CASE edits = 0 /\ local[e].day \in DaysOf(coverage') /\ remote[e].day \notin DaysOf(coverage')
    <3>1. remote[e].at <= job.next
      BY <1>1, <1>2, <1>3
    <3>2. job.full => local[e].day \notin Within(job.lo, job.hi)
      BY <1>2, <1>4, <1>5, <1>6, <2>4, <3>1
    <3>3. ~ (job.full /\ ~job.hydration)
      BY <1>6, <2>4, <3>2
    <3>4. CASE job.hydration
      BY <1>1, <1>4, <1>6, <2>1, <2>4, <3>2, <3>4 DEF Faithful
    <3>5. CASE ~job.full
      <4>1. CASE remote[e].at <= token
        BY <1>6, <2>1, <2>4, <3>5, <4>1 DEF Faithful
      <4>2. CASE remote[e].at > token
        <5>1. e \in Listed
          BY <1>4, <3>5, <4>2 DEF Listed
        <5> QED
          BY <1>5, <2>2, <2>4, <3>1, <5>1, NowhereIsNoDay
      <4> QED
        BY <1>3, <4>1, <4>2
    <3> QED
      BY <1>2, <3>3, <3>4, <3>5
  <2> QED
    BY <2>3, <2>4
<1>12. ReadOK' /\ PagingOK' /\ ApplyingOK'
  BY <1>1 DEF ReadOK, PagingOK, ApplyingOK, Reading
<1> QED
  BY <1>7, <1>8, <1>10, <1>11, <1>12 DEF Fresh

\* A sent edit makes a version that no token stands for yet.
LEMMA PushFresh ==
    ASSUME SyncInv, Fresh, NEW e \in EventIds, Push(e)
    PROVE  Fresh'
<1>1. /\ UNCHANGED <<conflict, token, coverage, today, job, edits>>
      /\ job.phase = "draining" /\ changes' = changes + 1
      /\ local[e].dirty /\ remote[e].at = local[e].at
      /\ remote' = [remote EXCEPT ![e] = [day |-> local[e].day, at |-> changes + 1]]
      /\ local' = [local EXCEPT ![e] =
                     [local[e] EXCEPT !.at = changes + 1, !.dirty = FALSE]]
  BY DEF Push
<1>2. /\ remote'[e].at = changes + 1
      /\ local'[e].at = changes + 1
      /\ ~local'[e].dirty
      /\ \A x \in EventIds \ {e} : remote'[x] = remote[x] /\ local'[x] = local[x]
  BY <1>1 DEF SyncInv, TypeOK, LocalEvents
<1>3. conflict[e].kind # "changed"
  <2> SUFFICES ASSUME conflict[e].kind = "changed" PROVE FALSE
    OBVIOUS
  <2>1. local[e].at < conflict[e].theirs.at /\ conflict[e].theirs.at <= remote[e].at
    BY DEF Fresh, VersionsOK
  <2> QED
    BY <1>1, <2>1, FreshTypes
<1>4. changes \in Nat /\ changes + 1 > token
  BY FreshTypes DEF Fresh, VersionsOK
<1>5. VersionsOK'
  BY <1>1, <1>2, <1>3, <1>4, FreshTypes DEF Fresh, VersionsOK
<1>6. WindowOK'
  BY <1>1 DEF Fresh, WindowOK, Covered
<1>7. ConflictsFresh'
  BY <1>1, <1>2, <1>3 DEF Fresh, ConflictsFresh
<1>8. RowsFresh'
  <2>1. ~ (remote'[e].at <= token)
    BY <1>2, <1>4, FreshTypes
  <2>2. Faithful(e)'
    BY <1>1, <2>1 DEF Faithful
  <2>3. \A x \in EventIds \ {e} : Faithful(x)'
    BY <1>1, <1>2 DEF Fresh, RowsFresh, Faithful
  <2> QED
    BY <2>2, <2>3 DEF RowsFresh
<1>9. ReadOK' /\ PagingOK' /\ ApplyingOK'
  BY <1>1 DEF ReadOK, PagingOK, ApplyingOK, Reading
<1> QED
  BY <1>5, <1>6, <1>7, <1>8, <1>9 DEF Fresh

\* A conflict that is decided for the provider brings a row that is as fresh
\* as the conflict; one decided for the user brings an edit.
LEMMA FinishFresh ==
    ASSUME SyncInv, Fresh, NEW mine \in SUBSET EventIds, NEW theirs \in SUBSET EventIds,
           Finish(mine, theirs)
    PROVE  Fresh'
<1>1. /\ UNCHANGED <<remote, token, coverage, today, changes, edits>>
      /\ job.phase = "draining" /\ job'.phase = "idle"
      /\ \A e \in mine \cup theirs : conflict[e].kind = "changed"
  BY DEF Finish, counters, Idle
<1>2. \A e \in EventIds :
        \/ local'[e] = local[e] /\ conflict'[e] = conflict[e]
        \/ /\ conflict[e].kind = "changed" /\ conflict'[e] = NoConflict
           /\ local'[e].at = conflict[e].theirs.at
           /\ \/ local'[e].dirty
              \/ ~local'[e].dirty /\ local'[e].day = conflict[e].theirs.day
  <2> TAKE e \in EventIds
  <2>1. CASE e \in mine
    BY <1>1, <2>1 DEF Finish
  <2>2. CASE e \in theirs /\ e \notin mine
    BY <1>1, <2>2 DEF Finish
  <2>3. CASE e \notin mine \cup theirs
    BY <2>3 DEF Finish
  <2> QED
    BY <2>1, <2>2, <2>3
<1>3. NoConflict.kind # "changed"
  BY DEF NoConflict
<1>4. VersionsOK'
  <2>1. \A e \in EventIds :
          /\ remote[e].at <= changes /\ local[e].at <= remote[e].at
          /\ conflict[e].kind = "changed" =>
              /\ local[e].dirty
              /\ local[e].at < conflict[e].theirs.at
              /\ conflict[e].theirs.at <= remote[e].at
          /\ edits = 0 => ~local[e].dirty /\ conflict[e] = NoConflict
    BY DEF Fresh, VersionsOK
  <2>2. \A e \in EventIds :
          /\ local'[e].at <= remote[e].at
          /\ conflict'[e].kind = "changed" =>
              /\ local'[e].dirty
              /\ local'[e].at < conflict'[e].theirs.at
              /\ conflict'[e].theirs.at <= remote[e].at
          /\ edits = 0 => ~local'[e].dirty /\ conflict'[e] = NoConflict
    BY <1>2, <1>3, <2>1
  <2> QED
    BY <1>1, <2>1, <2>2 DEF Fresh, VersionsOK
<1>5. WindowOK'
  BY <1>1 DEF Fresh, WindowOK, Covered, Pulling
<1>6. ConflictsFresh'
  BY <1>1, <1>2, <1>3 DEF Fresh, ConflictsFresh
<1>7. RowsFresh'
  <2> SUFFICES ASSUME NEW e \in EventIds PROVE Faithful(e)'
    BY DEF RowsFresh
  <2>1. CASE local'[e] = local[e] /\ conflict'[e] = conflict[e]
    BY <1>1, <2>1 DEF Fresh, RowsFresh, Faithful
  <2>2. CASE /\ conflict[e].kind = "changed"
             /\ local'[e].at = conflict[e].theirs.at
             /\ \/ local'[e].dirty
                \/ ~local'[e].dirty /\ local'[e].day = conflict[e].theirs.day
    <3>1. edits # 0
      BY <1>3, <2>2 DEF Fresh, VersionsOK
    <3>2. remote[e].at <= token /\ remote[e].day \in DaysOf(coverage)
          => conflict[e].theirs = remote[e]
      BY <2>2 DEF Fresh, ConflictsFresh
    <3> QED
      BY <1>1, <2>2, <3>1, <3>2 DEF Faithful
  <2> QED
    BY <1>2, <2>1, <2>2
<1>8. ReadOK' /\ PagingOK' /\ ApplyingOK'
  BY <1>1 DEF ReadOK, PagingOK, ApplyingOK, Reading
<1> QED
  BY <1>4, <1>5, <1>6, <1>7, <1>8 DEF Fresh

\* FreshInv is inductive, given SyncInv.
LEMMA FreshStep ==
    ASSUME RangeAssumption, SyncInv, FreshInv, [Next]_vars
    PROVE  FreshInv'
<1> SUFFICES ASSUME today' = FirstToday PROVE Fresh'
  BY DEF FreshInv
<1>1. ~Slide
  <2>1. Slide => today' = today + 1 /\ today \in FirstToday..(FirstToday + MaxSlides)
    BY DEF Slide, SyncInv, TypeOK
  <2>2. today \in FirstToday..(FirstToday + MaxSlides) => today + 1 # FirstToday
    BY FirstWindow
  <2> QED
    BY <2>1, <2>2
<1>2. today' = today
  BY <1>1 DEF Next, vars, data, ForeignChange, EditEvent, EnsureRangeHydrated,
              OlderHistoryBackfill, StartSync, LastPage, TokenExpired, ListFails,
              FirstPage, ApplyEvent, RemoveEvent, Push, ApplyFinal, NextHydration,
              Finish, Crash
<1>3. Fresh
  BY <1>2 DEF FreshInv
<1>4. CASE UNCHANGED vars
  BY <1>3, <1>4, FreshKept DEF vars, data, counters
<1>5. CASE \/ \E lo, hi \in 0..MaxDay : EnsureRangeHydrated(lo, hi)
           \/ OlderHistoryBackfill
  BY <1>3, <1>5, FreshKept DEF EnsureRangeHydrated, OlderHistoryBackfill, data
<1>6. CASE \/ \E e \in EventIds, day \in Days :
                ForeignChange(e, day) \/ EditEvent(e, day)
           \/ \E e \in EventIds : ForeignChange(e, Nowhere)
  BY <1>3, <1>6, ForeignFresh, EditFresh
<1>7. CASE StartSync \/ TokenExpired \/ ListFails \/ Crash \/ NextHydration
  BY <1>3, <1>7, ListingFresh
<1>8. CASE LastPage \/ \E S \in SUBSET EventIds : FirstPage(S)
  BY <1>3, <1>8, FirstPageFresh, LastPageFresh
<1>9. CASE \/ \E e \in EventIds, row \in RemoteEvents : ApplyEvent(e, row)
           \/ \E e \in EventIds : RemoveEvent(e) \/ Push(e)
  BY <1>3, <1>9, ApplyEventFresh, RemoveEventFresh, PushFresh
<1>10. CASE ApplyFinal \/ \E mine, theirs \in SUBSET EventIds : Finish(mine, theirs)
  BY <1>3, <1>10, ApplyFinalFresh, FinishFresh
<1> QED
  BY <1>1, <1>4, <1>5, <1>6, <1>7, <1>8, <1>9, <1>10 DEF Next

\* Nothing is known at first, so nothing is stale.
LEMMA FreshInit ==
    ASSUME RangeAssumption, Init
    PROVE  FreshInv
<1>1. /\ \A e \in EventIds : remote[e].at = 0 /\ local[e].at = 0 /\ ~local[e].dirty
                             /\ conflict[e] = NoConflict
      /\ token = NoToken /\ coverage = {} /\ job.phase = "idle"
      /\ changes = 0 /\ edits = 0
  BY DEF Init, Idle
<1>2. NoConflict.kind # "changed"
  BY DEF NoConflict
<1>3. VersionsOK /\ WindowOK /\ ConflictsFresh
  BY <1>1, <1>2 DEF VersionsOK, WindowOK, ConflictsFresh, Pulling, NoToken
<1>4. RowsFresh
  BY <1>1 DEF RowsFresh, Faithful, NoToken
<1>5. ReadOK /\ PagingOK /\ ApplyingOK
  BY <1>1 DEF ReadOK, PagingOK, ApplyingOK, Reading
<1> QED
  BY <1>3, <1>4, <1>5 DEF FreshInv, Fresh

\* FreshInv says of every row at stake that it is not stale.
LEMMA FreshMeans == SyncInv /\ FreshInv => CoveredIsFresh
<1> SUFFICES ASSUME SyncInv, FreshInv, today = FirstToday, NEW e \in EventIds, Stale(e)
             PROVE  FALSE
  BY DEF CoveredIsFresh
<1>1. Faithful(e)
  BY DEF FreshInv, Fresh, RowsFresh
<1>2. \/ remote[e].day \in DaysOf(coverage)
      \/ edits = 0 /\ local[e].day \in DaysOf(coverage)
  BY DEF Stale, DaysAtStake
<1> QED
  BY <1>1, <1>2 DEF Stale, Faithful

\* As long as the default window does not move, the local copy of a covered
\* day is what the server had when the token was issued: pages read while
\* others write, hydrations beside incremental listings, expired tokens,
\* failures and crashes half-way lose no change and leave no ghost.
THEOREM FreshCorrect == Spec => []CoveredIsFresh
<1>1. Init => SyncInv /\ FreshInv
  BY RangeAssumption, SyncInit, FreshInit
<1>2. SyncInv /\ FreshInv /\ [Next]_vars => SyncInv' /\ FreshInv'
  BY RangeAssumption, SyncStep, FreshStep
<1> QED
  BY <1>1, <1>2, FreshMeans, PTL DEF Spec

-----------------------------------------------------------------------------
(* What holds of the account in every state.                               *)

\* What the keyring may hold.
KeyringValues == Tokens \cup {NoRefresh}

\* The conjuncts of AccountTypeOK that count,
AuthCounters ==
    /\ issued \in 0..MaxTokens /\ revoked \subseteq 1..issued
    /\ clientReady \in BOOLEAN /\ accountFaults \in 0..MaxAccountFaults

\* and those that are about the account, the keyring and what is under way.
AuthTables ==
    /\ account \in Accounts /\ snapshot \in Accounts
    /\ keyring \in KeyringValues
    /\ provisional \in BOOLEAN
    /\ disconnect \in Disconnects \cup {None}
    /\ pending \in Pendings \cup {None}
    /\ session \in Sessions \cup {None}
    /\ syncJob \in SyncJobs \cup {None}

\* An account is enabled unless it is, or is being, disconnected.
Standing(a) == a.enabled <=> a.status \notin {"none", "disconnecting", "disconnected"}

\* The account and the copies of it that are put back when a step fails.
AccountsOK ==
    /\ Standing(account) /\ Standing(snapshot)
    /\ disconnect # None => Standing(disconnect.snapshot)
    /\ snapshot # NoAccount => account.status = "authorizing"

\* Whatever is under way for an account, the account is enabled.
EngagedOK ==
    (session # None \/ pending # None \/ syncJob # None) /\ Exists => account.enabled

\* A session, and what it knows of the keyring.
SessionOK ==
    session # None =>
        /\ pending = None
        /\ session.flow = "refreshing" => session.refresh # NoRefresh
        /\ session.stored = NoRefresh => account.status # "connected"
        /\ session.stored # NoRefresh => keyring # NoRefresh
        /\ session.completed => snapshot = NoAccount

\* An authorization that waits for the OAuth client.
PendingOK ==
    pending # None =>
        /\ pending.interactive => account.status # "connected"
        /\ pending.token # NoRefresh => keyring # NoRefresh

\* While an account is being disconnected nothing else goes on.
DisconnectOK ==
    disconnect # None =>
        /\ session = None /\ pending = None /\ syncJob = None
        /\ ~provisional /\ snapshot = NoAccount
        /\ account.status = "disconnecting"

\* What is under way and what it may assume.
Rules ==
    /\ AccountsOK /\ EngagedOK /\ SessionOK /\ PendingOK /\ DisconnectOK
    /\ JobOnlyWhenAccepted

\* The inductive invariant of the authorization.
AuthInv == AuthCounters /\ AuthTables /\ Rules

-----------------------------------------------------------------------------
(* Shapes.                                                                 *)

\* A session, a lookup, a job and a disconnection are there or are not.
LEMMA Shapes ==
    /\ None \notin Sessions /\ None \notin Pendings /\ None \notin SyncJobs
    /\ None \notin Disconnects
    /\ NoAccount \in Accounts /\ Standing(NoAccount) /\ NoAccount.status = "none"
    /\ \A a \in Accounts : a = NoAccount <=> a.status = "none"
    /\ \A a \in Accounts : a # NoAccount => a \in [enabled : BOOLEAN, status : Statuses]
    /\ \A a \in [enabled : BOOLEAN, status : Statuses] : a \in Accounts /\ a # NoAccount
    /\ \A d \in Disconnects : d.snapshot \in Accounts /\ d.removeData \in BOOLEAN
    /\ NewJob \in SyncJobs
    /\ \A i \in BOOLEAN :
        [kind |-> "pending", interactive |-> i, token |-> NoRefresh] \in Pendings
<1>1. None \notin Sessions /\ None \notin Pendings /\ None \notin SyncJobs /\ None \notin Disconnects
  BY DEF None, Sessions, Pendings, SyncJobs, Disconnects
<1>2. NoAccount \in Accounts /\ Standing(NoAccount) /\ NoAccount.status = "none"
  BY DEF NoAccount, Accounts, Standing
<1>3. \A a \in [enabled : BOOLEAN, status : Statuses] :
         a \in Accounts /\ a # NoAccount /\ a.status # "none"
  BY DEF NoAccount, Accounts, Statuses
<1>4. \A a \in Accounts : a # NoAccount => a \in [enabled : BOOLEAN, status : Statuses]
  BY DEF Accounts
<1>5. \A d \in Disconnects : d.snapshot \in Accounts /\ d.removeData \in BOOLEAN
  BY DEF Disconnects
<1>6. NewJob \in SyncJobs
  BY DEF NewJob, SyncJobs
<1>7. \A i \in BOOLEAN :
        [kind |-> "pending", interactive |-> i, token |-> NoRefresh] \in Pendings
  BY DEF Pendings
<1> QED
  BY <1>1, <1>2, <1>3, <1>4, <1>5, <1>6, <1>7

\* A killed helper leaves the keyring with what it had or with what was to be
\* stored.
LEMMA Killed ==
    ASSUME AuthTables, NEW k \in KeyringAfterKill
    PROVE  k \in KeyringValues /\ (keyring # NoRefresh => k # NoRefresh)
<1>1. session # None => session.storing \in KeyringValues
  BY DEF AuthTables, Sessions, KeyringValues
<1>2. \/ k = keyring
      \/ session # None /\ session.storing # NoRefresh /\ k = session.storing
  BY DEF KeyringAfterKill
<1> QED
  BY <1>1, <1>2 DEF AuthTables

\* A new session.
LEMMA NewSessionIs ==
    ASSUME NEW flow \in {"browser", "refreshing"}, NEW known \in KeyringValues
    PROVE  LET s == NewSession(flow, known)
           IN  /\ s \in Sessions /\ s.flow = flow /\ s.refresh = known
               /\ s.stored = known /\ ~s.completed
  BY DEF NewSession, Sessions, KeyringValues

\* setAccountAuthStatus does not enable or disable an account.
LEMMA WithStatusIs ==
    ASSUME account \in Accounts, Exists => account.enabled,
           NEW status \in {"authorizing", "connected", "error", "reauthorization_required"}
    PROVE  /\ WithStatus(status) \in Accounts /\ Standing(WithStatus(status))
           /\ Exists => /\ WithStatus(status).enabled /\ WithStatus(status).status = status
                        /\ WithStatus(status) # NoAccount
           /\ ~Exists => WithStatus(status) = NoAccount
<1>1. CASE Exists
  <2>1. account \in [enabled : BOOLEAN, status : Statuses] /\ account.enabled
    BY <1>1, Shapes DEF Exists
  <2>2. WithStatus(status) = [account EXCEPT !.status = status]
    BY <1>1 DEF WithStatus
  <2>3. /\ WithStatus(status) \in [enabled : BOOLEAN, status : Statuses]
        /\ WithStatus(status).enabled /\ WithStatus(status).status = status
    BY <2>1, <2>2 DEF Statuses
  <2> QED
    BY <1>1, <2>3, Shapes DEF Standing
<1>2. CASE ~Exists
  BY <1>2, Shapes DEF WithStatus, Exists
<1> QED
  BY <1>1, <1>2

\* The invariant says what the types are.
LEMMA AuthTypes == AuthInv => AccountTypeOK
  BY DEF AuthInv, AuthCounters, AuthTables, KeyringValues, Rules, AccountsOK, Standing,
         AccountTypeOK,
         Accounts, Statuses, NoAccount

\* Counters.
LEMMA AuthCountersStep ==
    ASSUME AccountAssumption, AuthInv, [AccountNext]_accountVars
    PROVE  AuthCounters'
<1>1. AuthCounters /\ MaxTokens \in Nat /\ MaxAccountFaults \in Nat
  BY DEF AuthInv, AccountAssumption
<1>2. issued' \in 0 .. MaxTokens /\ issued <= issued'
  <2>1. \/ issued' = issued
        \/ issued < MaxTokens /\ issued' = issued + 1
    BY DEF AccountNext, accountVars, BeginAuthorization, ReauthorizeAccount,
           CancelAuthorization,
           DisconnectAccount, UserConsents, UserDenies, RefreshAccepted, RefreshFails,
           AccessExpires, AutoRefresh, Revoke, ClientReady, LookupFound, LookupFails,
           StoreDone, StoreFails, ForgetDone, ForgetFails, SyncAccount, JobEnds,
           JobUnauthorized, AccountCrash
  <2> QED
    BY <1>1, <2>1 DEF AuthCounters
<1>3. revoked' \subseteq 1 .. issued'
  <2>1. revoked' = revoked \/ \E t \in 1 .. issued : revoked' = revoked \cup {t}
    BY DEF AccountNext, accountVars, BeginAuthorization, ReauthorizeAccount,
           CancelAuthorization,
           DisconnectAccount, UserConsents, UserDenies, RefreshAccepted, RefreshFails,
           AccessExpires, AutoRefresh, Revoke, ClientReady, LookupFound, LookupFails,
           StoreDone, StoreFails, ForgetDone, ForgetFails, SyncAccount, JobEnds,
           JobUnauthorized, AccountCrash
  <2>2. 1 .. issued \subseteq 1 .. issued'
    BY <1>1, <1>2 DEF AuthCounters
  <2> QED
    BY <1>1, <2>1, <2>2 DEF AuthCounters
<1>4. accountFaults' \in 0 .. MaxAccountFaults
  <2>1. \/ accountFaults' = accountFaults
        \/ accountFaults < MaxAccountFaults /\ accountFaults' = accountFaults + 1
    BY DEF AccountNext, accountVars, BeginAuthorization, ReauthorizeAccount,
           CancelAuthorization,
           DisconnectAccount, UserConsents, UserDenies, RefreshAccepted, RefreshFails,
           AccessExpires, AutoRefresh, Revoke, ClientReady, LookupFound, LookupFails,
           StoreDone, StoreFails, ForgetDone, ForgetFails, SyncAccount, JobEnds,
           JobUnauthorized, AccountCrash, AccountFault
  <2> QED
    BY <1>1, <2>1 DEF AuthCounters
<1>5. clientReady' \in BOOLEAN
  <2>1. clientReady' = clientReady \/ clientReady' = TRUE \/ clientReady' = FALSE
    BY DEF AccountNext, accountVars, BeginAuthorization, ReauthorizeAccount,
           CancelAuthorization,
           DisconnectAccount, UserConsents, UserDenies, RefreshAccepted, RefreshFails,
           AccessExpires, AutoRefresh, Revoke, ClientReady, LookupFound, LookupFails,
           StoreDone, StoreFails, ForgetDone, ForgetFails, SyncAccount, JobEnds,
           JobUnauthorized, AccountCrash
  <2> QED
    BY <1>1, <2>1 DEF AuthCounters
<1> QED
  BY <1>2, <1>3, <1>4, <1>5 DEF AuthCounters

-----------------------------------------------------------------------------
(* What the operations on sessions do.                                     *)

\* queueAuthorization ends what was going on and starts one of two things.
LEMMA QueueIs ==
    ASSUME AuthTables, NEW interactive \in BOOLEAN, QueueAuthorization(interactive)
    PROVE  /\ keyring' \in KeyringValues /\ (keyring # NoRefresh => keyring' # NoRefresh)
           /\ \/ /\ session' = None /\ pending' \in Pendings
                 /\ pending'.interactive = interactive /\ pending'.token = NoRefresh
              \/ /\ interactive /\ pending' = None /\ session' \in Sessions
                 /\ session'.flow = "browser" /\ session'.stored = NoRefresh
                 /\ ~session'.completed
<1>1. keyring' \in KeyringValues /\ (keyring # NoRefresh => keyring' # NoRefresh)
  BY Killed DEF QueueAuthorization
<1>2. CASE interactive /\ clientReady
  <2>1. pending' = None /\ session' = NewSession("browser", NoRefresh)
    BY <1>2 DEF QueueAuthorization
  <2>2. NoRefresh \in KeyringValues
    BY DEF KeyringValues
  <2> QED
    BY <1>1, <1>2, <2>1, <2>2, NewSessionIs
<1>3. CASE ~(interactive /\ clientReady)
  <2>1. /\ pending' = [kind |-> "pending", interactive |-> interactive, token |-> NoRefresh]
        /\ session' = None
    BY <1>3 DEF QueueAuthorization
  <2>2. pending'.interactive = interactive /\ pending'.token = NoRefresh
    BY <2>1
  <2> QED
    BY <1>1, <2>1, <2>2, Shapes
<1> QED
  BY <1>2, <1>3

\* The keyring keeps a token, and only the session's progress changes.
LEMMA SessionStep ==
    ASSUME AuthInv, session # None, session' \in Sessions,
           session'.stored = session.stored, session'.completed = session.completed,
           session'.flow = "refreshing" => session'.refresh # NoRefresh,
           keyring' \in KeyringValues, keyring # NoRefresh => keyring' # NoRefresh,
           UNCHANGED <<account, provisional, snapshot, disconnect, pending, syncJob>>
    PROVE  AuthTables' /\ Rules'
<1>1. AuthTables'
  BY DEF AuthInv, AuthTables
<1>2. AccountsOK' /\ EngagedOK' /\ JobOnlyWhenAccepted'
  BY DEF AuthInv, Rules, AccountsOK, EngagedOK, JobOnlyWhenAccepted, Exists
<1>3. SessionOK' /\ PendingOK' /\ DisconnectOK'
  BY DEF AuthInv, Rules, SessionOK, PendingOK, DisconnectOK
<1> QED
  BY <1>1, <1>2, <1>3 DEF Rules

\* A token is announced only when it is in the keyring.
LEMMA NotifyStep ==
    ASSUME AuthInv, session # None, NEW s \in Sessions,
           s.stored # NoRefresh, s.completed = session.completed,
           s.flow = "refreshing" => s.refresh # NoRefresh,
           keyring' \in KeyringValues, keyring' # NoRefresh,
           Notify(s), UNCHANGED <<disconnect, pending>>
    PROVE  AuthTables' /\ Rules'
<1> DEFINE first == ~s.completed
           resumes == syncJob # None /\ syncJob.waiting
<1>1. /\ disconnect = None /\ pending = None
      /\ Exists => account.enabled
      /\ session.completed => snapshot = NoAccount
      /\ syncJob # None /\ Exists => account.status \in {"connected", "error"}
  BY DEF AuthInv, Rules, SessionOK, DisconnectOK, EngagedOK, JobOnlyWhenAccepted
<1>2. /\ session' = [s EXCEPT !.completed = TRUE]
      /\ account' = account \/ account' = WithStatus("connected")
      /\ provisional' \in BOOLEAN
      /\ snapshot' = NoAccount
  <2>1. /\ session' = [s EXCEPT !.completed = TRUE]
        /\ account' = IF first \/ resumes THEN WithStatus("connected") ELSE account
        /\ provisional' = IF first THEN FALSE ELSE provisional
        /\ snapshot' = IF first THEN NoAccount ELSE snapshot
    BY DEF Notify
  <2>2. s.completed \in BOOLEAN /\ provisional \in BOOLEAN
    BY DEF Sessions, AuthInv, AuthTables
  <2> QED
    BY <1>1, <2>1, <2>2
<1>3. /\ session' \in Sessions /\ session'.stored = s.stored /\ session'.flow = s.flow
      /\ session'.refresh = s.refresh
  BY <1>2 DEF Sessions
<1>4. /\ account' \in Accounts /\ Standing(account')
      /\ Exists' <=> Exists
      /\ Exists' => account'.enabled
      /\ account'.status = account.status \/ account'.status = "connected"
  <2>1. account \in Accounts /\ Standing(account)
    BY DEF AuthInv, AuthTables, Rules, AccountsOK
  <2>2. CASE account' = account
    BY <1>1, <2>1, <2>2 DEF Exists
  <2>3. CASE account' = WithStatus("connected")
    BY <1>1, <2>1, <2>3, WithStatusIs DEF Exists
  <2> QED
    BY <1>2, <2>2, <2>3
<1>5. /\ syncJob' \in SyncJobs \cup {None}
      /\ syncJob' # None => syncJob # None \/ MaySync(account')
  <2>1. syncJob \in SyncJobs \cup {None}
    BY DEF AuthInv, AuthTables
  <2>2. CASE resumes
    <3>1. syncJob' = [syncJob EXCEPT !.waiting = FALSE, !.deserted = FALSE]
      BY <2>2 DEF Notify
    <3>2. syncJob' \in SyncJobs
      BY <2>1, <2>2, <3>1 DEF SyncJobs
    <3> QED
      BY <2>2, <3>2
  <2>3. CASE ~resumes /\ syncJob = None
    <3>1. \/ syncJob' = syncJob
          \/ MaySync(account') /\ syncJob' = NewJob
      BY <2>3 DEF Notify
    <3> QED
      BY <2>1, <3>1, Shapes
  <2>4. CASE ~resumes /\ syncJob # None
    <3>1. syncJob' = syncJob
      BY <2>4 DEF Notify
    <3> QED
      BY <2>1, <2>4, <3>1
  <2> QED
    BY <2>2, <2>3, <2>4
<1>6. JobOnlyWhenAccepted'
  <2> SUFFICES ASSUME syncJob' # None, Exists'
               PROVE  account'.enabled /\ account'.status \in {"connected", "error"}
    BY DEF JobOnlyWhenAccepted
  <2>1. CASE syncJob # None
    BY <1>1, <1>4, <2>1
  <2>2. CASE MaySync(account')
    <3>1. account' \in [enabled : BOOLEAN, status : Statuses]
      BY <1>4, Shapes DEF Exists
    <3> QED
      BY <1>4, <2>2, <3>1 DEF MaySync, Standing, Statuses
  <2> QED
    BY <1>5, <2>1, <2>2
<1>7. AuthTables'
  BY <1>1, <1>2, <1>3, <1>4, <1>5, Shapes DEF AuthTables
<1>8. AccountsOK' /\ EngagedOK'
  BY <1>1, <1>2, <1>4, Shapes DEF AccountsOK, EngagedOK
<1>9. SessionOK' /\ PendingOK' /\ DisconnectOK'
  BY <1>1, <1>2, <1>3 DEF SessionOK, PendingOK, DisconnectOK
<1> QED
  BY <1>6, <1>7, <1>8, <1>9 DEF Rules

\* A failure is told: the account is not connected, and what remains of the
\* session knows no more than before.
LEMMA TroubleStep ==
    ASSUME AuthInv, session # None \/ pending # None \/ syncJob # None,
           NEW status \in {"error", "reauthorization_required"},
           account' = WithStatus(status),
           UNCHANGED <<provisional, disconnect>>,
           syncJob' = None, snapshot' = NoAccount, pending' = None,
           keyring' \in KeyringValues, keyring # NoRefresh => keyring' # NoRefresh,
           \/ session' = None
           \/ /\ session # None /\ session' \in Sessions
              /\ session'.stored = session.stored
              /\ session'.flow = "refreshing" => session'.refresh # NoRefresh
    PROVE  AuthTables' /\ Rules'
<1>1. /\ disconnect = None /\ (Exists => account.enabled) /\ account \in Accounts
  BY DEF AuthInv, Rules, DisconnectOK, EngagedOK, AuthTables
<1>2. /\ account' \in Accounts /\ Standing(account')
      /\ Exists' => account'.enabled
      /\ account'.status # "connected"
  BY <1>1, WithStatusIs, Shapes DEF Exists
<1>3. AuthTables'
  BY <1>1, <1>2, Shapes DEF AuthTables, AuthInv
<1>4. AccountsOK' /\ EngagedOK' /\ JobOnlyWhenAccepted'
  BY <1>1, <1>2, Shapes DEF AccountsOK, EngagedOK, JobOnlyWhenAccepted
<1>5. SessionOK' /\ PendingOK' /\ DisconnectOK'
  BY <1>1, <1>2 DEF AuthInv, Rules, SessionOK, PendingOK, DisconnectOK
<1> QED
  BY <1>3, <1>4, <1>5 DEF Rules

\* authorizationFailed while a session is there.
LEMMA FailStep ==
    ASSUME AuthInv, session # None, NEW s \in Sessions,
           s.stored = session.stored, s.completed = session.completed,
           s.flow # "refreshing",
           Fail(s), UNCHANGED <<provisional, disconnect>>
    PROVE  AuthTables' /\ Rules'
<1>1. AuthTables /\ pending = None
  BY DEF AuthInv, Rules, SessionOK
<1>2. CASE s.failed
  <2>1. session' = s /\ UNCHANGED <<account, syncJob, snapshot, pending, keyring>>
    BY <1>2 DEF Fail
  <2>2. keyring' \in KeyringValues /\ (keyring # NoRefresh => keyring' # NoRefresh)
    BY <1>1, <2>1 DEF AuthTables
  <2> QED
    BY <2>1, <2>2, SessionStep
<1>3. CASE ~s.failed /\ (syncJob # None \/ snapshot # NoAccount)
  <2>1. /\ account' = WithStatus("reauthorization_required")
        /\ syncJob' = None /\ snapshot' = NoAccount /\ pending' = None /\ session' = None
        /\ keyring' \in KeyringAfterKill
    BY <1>3 DEF Fail, Failed, CancelAuth
  <2>2. keyring' \in KeyringValues /\ (keyring # NoRefresh => keyring' # NoRefresh)
    BY <1>1, <2>1, Killed
  <2> QED
    BY <2>1, <2>2, TroubleStep
<1>4. CASE ~s.failed /\ syncJob = None /\ snapshot = NoAccount
  <2>1. /\ account' = WithStatus("error")
        /\ syncJob' = None /\ snapshot' = NoAccount /\ pending' = None
        /\ session' = [s EXCEPT !.failed = TRUE] /\ keyring' = keyring
    BY <1>1, <1>4 DEF Fail, Failed
  <2>2. keyring' \in KeyringValues /\ (keyring # NoRefresh => keyring' # NoRefresh)
    BY <1>1, <2>1 DEF AuthTables
  <2>3. /\ session' \in Sessions /\ session'.stored = session.stored
        /\ session'.flow # "refreshing"
    BY <2>1 DEF Sessions
  <2> QED
    BY <2>1, <2>2, <2>3, TroubleStep
<1> QED
  BY <1>2, <1>3, <1>4

\* A token that is new is stored first; one that is stored is announced.
LEMMA PersistStep ==
    ASSUME AuthInv, session # None, NEW s \in Sessions,
           s.stored = session.stored, s.completed = session.completed,
           s.flow # "refreshing", s.refresh # NoRefresh, s.storing = session.storing,
           PersistRefreshToken(s), UNCHANGED <<disconnect, pending>>
    PROVE  AuthTables' /\ Rules'
<1>1. AuthTables /\ (session.stored # NoRefresh => keyring # NoRefresh)
  BY DEF AuthInv, Rules, SessionOK
<1>2. CASE s.refresh # s.stored
  <2>1. /\ session' = [s EXCEPT !.storing = s.refresh]
        /\ keyring' \in {keyring} \cup KeyringAfterKill
        /\ UNCHANGED <<account, provisional, snapshot, syncJob>>
    BY <1>2 DEF PersistRefreshToken
  <2>2. /\ session' \in Sessions /\ session'.stored = session.stored
        /\ session'.completed = session.completed /\ session'.flow # "refreshing"
    BY <2>1 DEF Sessions
  <2>3. keyring' \in KeyringValues /\ (keyring # NoRefresh => keyring' # NoRefresh)
    BY <1>1, <2>1, Killed DEF AuthTables
  <2> QED
    BY <2>1, <2>2, <2>3, SessionStep
<1>3. CASE s.refresh = s.stored
  <2>1. Notify(s) /\ keyring' = keyring
    BY <1>3 DEF PersistRefreshToken
  <2>2. keyring' \in KeyringValues /\ keyring' # NoRefresh
    BY <1>1, <1>3, <2>1 DEF AuthTables
  <2> QED
    BY <1>3, <2>1, <2>2, NotifyStep
<1> QED
  BY <1>2, <1>3

-----------------------------------------------------------------------------
(* Every step keeps the rules.                                             *)

\* The user's commands.
LEMMA CommandStep ==
    ASSUME AuthInv,
           \/ BeginAuthorization \/ ReauthorizeAccount \/ CancelAuthorization
           \/ \E removeData \in BOOLEAN : DisconnectAccount(removeData)
    PROVE  AuthTables' /\ Rules'
<1>0. AuthTables /\ AccountsOK /\ EngagedOK /\ SessionOK /\ PendingOK /\ DisconnectOK
      /\ JobOnlyWhenAccepted
  BY DEF AuthInv, Rules
<1>1. CASE BeginAuthorization
  <2>1. /\ ~Exists /\ syncJob = None /\ provisional' = TRUE
        /\ account' = [enabled |-> TRUE, status |-> "authorizing"]
        /\ UNCHANGED <<snapshot, disconnect, syncJob>>
        /\ QueueAuthorization(TRUE)
    BY <1>1 DEF BeginAuthorization
  <2>2. /\ keyring' \in KeyringValues
        /\ \/ /\ session' = None /\ pending' \in Pendings /\ pending'.token = NoRefresh
           \/ /\ pending' = None /\ session' \in Sessions
              /\ session'.flow = "browser" /\ session'.stored = NoRefresh
              /\ ~session'.completed
    BY <1>0, <2>1, QueueIs
  <2>3. account' \in [enabled : BOOLEAN, status : Statuses]
    BY <2>1 DEF Statuses
  <2>4. account'.enabled /\ account'.status = "authorizing" /\ Standing(account')
    BY <2>1 DEF Standing
  <2>5. disconnect = None
    BY <1>0, <2>1, Shapes DEF DisconnectOK, Exists
  <2>6. AuthTables'
    BY <1>0, <2>1, <2>2, <2>3, Shapes DEF AuthTables
  <2>7. AccountsOK' /\ EngagedOK' /\ JobOnlyWhenAccepted'
    BY <1>0, <2>1, <2>4, <2>5 DEF AccountsOK, EngagedOK, JobOnlyWhenAccepted
  <2>8. SessionOK' /\ PendingOK' /\ DisconnectOK'
    BY <2>1, <2>2, <2>4, <2>5, Shapes DEF SessionOK, PendingOK, DisconnectOK
  <2> QED
    BY <2>6, <2>7, <2>8 DEF Rules
<1>2. CASE ReauthorizeAccount
  <2>1. /\ snapshot = NoAccount /\ disconnect = None /\ syncJob' = None /\ snapshot' = account
        /\ account' = [enabled |-> TRUE, status |-> "authorizing"]
        /\ UNCHANGED <<provisional, disconnect>>
        /\ QueueAuthorization(TRUE)
    BY <1>2 DEF ReauthorizeAccount
  <2>2. /\ keyring' \in KeyringValues
        /\ \/ /\ session' = None /\ pending' \in Pendings /\ pending'.token = NoRefresh
           \/ /\ pending' = None /\ session' \in Sessions
              /\ session'.flow = "browser" /\ session'.stored = NoRefresh
              /\ ~session'.completed
    BY <1>0, <2>1, QueueIs
  <2>3. account' \in [enabled : BOOLEAN, status : Statuses]
    BY <2>1 DEF Statuses
  <2>4. account'.enabled /\ account'.status = "authorizing" /\ Standing(account')
    BY <2>1 DEF Standing
  <2>5. AuthTables'
    BY <1>0, <2>1, <2>2, <2>3, Shapes DEF AuthTables
  <2>6. AccountsOK' /\ EngagedOK' /\ JobOnlyWhenAccepted'
    BY <1>0, <2>1, <2>4 DEF AccountsOK, EngagedOK, JobOnlyWhenAccepted
  <2>7. SessionOK' /\ PendingOK' /\ DisconnectOK'
    BY <2>1, <2>2, <2>4, Shapes DEF SessionOK, PendingOK, DisconnectOK
  <2> QED
    BY <2>5, <2>6, <2>7 DEF Rules
<1>3. CASE CancelAuthorization
  <2> DEFINE back == /\ ~provisional /\ snapshot # NoAccount
                     /\ snapshot.enabled /\ snapshot.status = "connected"
  <2>1. /\ snapshot' = NoAccount /\ provisional' = FALSE
        /\ UNCHANGED disconnect
    BY <1>3 DEF CancelAuthorization
  <2>j. syncJob' \in SyncJobs \cup {None} /\ (syncJob' = None <=> syncJob = None)
    <3>1. syncJob \in SyncJobs \cup {None}
      BY <1>0 DEF AuthTables
    <3>2. \/ syncJob' = syncJob
          \/ syncJob # None /\ syncJob' = [syncJob EXCEPT !.deserted = TRUE]
      BY <1>3 DEF CancelAuthorization
    <3>3. ASSUME syncJob # None, syncJob' = [syncJob EXCEPT !.deserted = TRUE]
          PROVE  syncJob' \in SyncJobs
      BY <3>1, <3>3 DEF SyncJobs
    <3> QED
      BY <3>1, <3>2, <3>3, Shapes
  <2>2. disconnect # None => /\ ~back /\ ~provisional /\ snapshot = NoAccount
                             /\ syncJob = None
    BY <1>0 DEF DisconnectOK
  <2>3. snapshot # NoAccount => syncJob = None
    BY <1>0, Shapes DEF AccountsOK, JobOnlyWhenAccepted, Exists
  <2>4. /\ keyring' \in KeyringValues
        /\ session' = None
        /\ \/ /\ account' = snapshot /\ account'.enabled /\ snapshot # NoAccount
              /\ pending' \in Pendings /\ ~pending'.interactive /\ pending'.token = NoRefresh
           \/ /\ \/ account' \in {NoAccount, account}
                 \/ account' = snapshot /\ syncJob = None
              /\ pending' = None
        /\ disconnect # None => account' = account /\ pending' = None
    <3>1. CASE back
      <4>1. account' = snapshot /\ QueueAuthorization(FALSE)
        BY <1>3, <3>1 DEF CancelAuthorization
      <4> QED
        BY <1>0, <2>2, <3>1, <4>1, QueueIs
    <3>2. CASE ~back
      <4>1. /\ CancelAuth
            /\ \/ account' \in {NoAccount, account}
               \/ account' = snapshot /\ snapshot # NoAccount
            /\ ~provisional /\ snapshot = NoAccount => account' = account
        BY <1>3, <3>2 DEF CancelAuthorization
      <4>2. session' = None /\ pending' = None /\ keyring' \in KeyringValues
        BY <1>0, <4>1, Killed DEF CancelAuth
      <4> QED
        BY <2>2, <2>3, <4>1, <4>2
    <3> QED
      BY <3>1, <3>2
  <2>5. AuthTables'
    BY <1>0, <2>1, <2>j, <2>4, Shapes DEF AuthTables
  <2>6. AccountsOK'
    BY <1>0, <2>1, <2>2, <2>4, Shapes DEF AccountsOK
  <2>7. EngagedOK' /\ JobOnlyWhenAccepted'
    BY <1>0, <2>1, <2>j, <2>3, <2>4, Shapes DEF EngagedOK, JobOnlyWhenAccepted, Exists
  <2>8. SessionOK' /\ PendingOK'
    BY <2>1, <2>4, Shapes DEF SessionOK, PendingOK
  <2>9. DisconnectOK'
    BY <1>0, <2>1, <2>j, <2>2, <2>4 DEF DisconnectOK
  <2> QED
    BY <2>5, <2>6, <2>7, <2>8, <2>9 DEF Rules
<1>4. ASSUME NEW removeData \in BOOLEAN, DisconnectAccount(removeData)
      PROVE  AuthTables' /\ Rules'
  <2>1. /\ provisional' = FALSE /\ snapshot' = NoAccount /\ syncJob' = None
        /\ disconnect' = [kind |-> "disconnect", snapshot |-> account,
                          removeData |-> removeData]
        /\ account' = [enabled |-> FALSE, status |-> "disconnecting"]
        /\ pending' = None /\ session' = None /\ keyring' \in KeyringAfterKill
    BY <1>4 DEF DisconnectAccount, CancelAuth
  <2>2. account' \in [enabled : BOOLEAN, status : Statuses]
    BY <2>1 DEF Statuses
  <2>3. disconnect' \in Disconnects /\ disconnect'.snapshot = account
    BY <1>0, <2>1 DEF Disconnects, AuthTables
  <2>4. AuthTables'
    BY <1>0, <2>1, <2>2, <2>3, Killed, Shapes DEF AuthTables
  <2>5. account'.status = "disconnecting" /\ Standing(account')
    BY <2>1 DEF Standing
  <2>6. AccountsOK' /\ EngagedOK' /\ JobOnlyWhenAccepted'
    BY <1>0, <2>1, <2>3, <2>5, Shapes DEF AccountsOK, EngagedOK, JobOnlyWhenAccepted
  <2>7. SessionOK' /\ PendingOK' /\ DisconnectOK'
    BY <2>1, <2>5 DEF SessionOK, PendingOK, DisconnectOK
  <2> QED
    BY <2>4, <2>6, <2>7 DEF Rules
<1> QED
  BY <1>1, <1>2, <1>3, <1>4

\* The browser and Google.
LEMMA FlowStep ==
    ASSUME AccountAssumption, AuthInv,
           \/ UserConsents \/ UserDenies \/ RefreshAccepted \/ RefreshFails
           \/ AccessExpires \/ AutoRefresh
    PROVE  AuthTables' /\ Rules'
<1>0. AuthTables /\ SessionOK
  BY DEF AuthInv, Rules
<1>1. session # None /\ session \in Sessions
  BY <1>0 DEF AuthTables, UserConsents, UserDenies, RefreshAccepted, RefreshFails,
              AccessExpires, AutoRefresh
<1>2. issued < MaxTokens => issued + 1 \in Tokens /\ issued + 1 # NoRefresh
  BY DEF AuthInv, AuthCounters, AccountAssumption, Tokens, NoRefresh
<1>3. ASSUME NEW fresh \in Tokens, fresh # NoRefresh,
             PersistRefreshToken([session EXCEPT !.flow = "idle", !.access = "good",
                                                 !.refresh = fresh]),
             UNCHANGED <<disconnect, pending>>
      PROVE  AuthTables' /\ Rules'
  <2> DEFINE s == [session EXCEPT !.flow = "idle", !.access = "good", !.refresh = fresh]
  <2>1. /\ s \in Sessions /\ s.stored = session.stored /\ s.completed = session.completed
        /\ s.flow = "idle" /\ s.refresh = fresh /\ s.storing = session.storing
    BY <1>1 DEF Sessions
  <2>2. PersistRefreshToken(s)
    BY <1>3
  <2> HIDE DEF s
  <2> QED
    BY <1>1, <1>3, <2>1, <2>2, PersistStep
<1>4. CASE UserConsents
  BY <1>2, <1>3, <1>4 DEF UserConsents
<1>5. CASE UserDenies \/ RefreshFails
  <2> DEFINE s == [session EXCEPT !.flow = "idle"]
  <2>1. /\ s \in Sessions /\ s.stored = session.stored /\ s.completed = session.completed
        /\ s.flow = "idle"
    BY <1>1 DEF Sessions
  <2>2. Fail(s) /\ UNCHANGED <<provisional, disconnect>>
    BY <1>5 DEF UserDenies, RefreshFails
  <2> HIDE DEF s
  <2> QED
    BY <1>1, <2>1, <2>2, FailStep
<1>6. CASE RefreshAccepted
  <2>1. CASE issued < MaxTokens /\ PersistRefreshToken([session EXCEPT !.flow = "idle",
                                        !.access = "good", !.refresh = issued + 1])
    BY <1>2, <1>3, <1>6, <2>1 DEF RefreshAccepted
  <2>2. CASE PersistRefreshToken([session EXCEPT !.flow = "idle", !.access = "good"])
    <3> DEFINE s == [session EXCEPT !.flow = "idle", !.access = "good"]
    <3>1. /\ s \in Sessions /\ s.stored = session.stored /\ s.completed = session.completed
          /\ s.flow = "idle" /\ s.refresh = session.refresh /\ s.storing = session.storing
      BY <1>1 DEF Sessions
    <3>2. session.refresh # NoRefresh /\ UNCHANGED <<disconnect, pending>>
      BY <1>0, <1>1, <1>6 DEF RefreshAccepted, SessionOK
    <3> HIDE DEF s
    <3> QED
      BY <1>1, <2>2, <3>1, <3>2, PersistStep DEF s
  <2> QED
    BY <1>6, <2>1, <2>2 DEF RefreshAccepted
<1>7. CASE AccessExpires \/ AutoRefresh
  <2>1. /\ \/ session' = [session EXCEPT !.access = "expired"]
           \/ /\ session.refresh # NoRefresh
              /\ session' = [session EXCEPT !.flow = "refreshing"]
        /\ UNCHANGED <<account, keyring, provisional, snapshot, disconnect, pending, syncJob>>
    BY <1>7 DEF AccessExpires, AutoRefresh
  <2>2. /\ session' \in Sessions /\ session'.stored = session.stored
        /\ session'.completed = session.completed
        /\ session'.flow = "refreshing" => session'.refresh # NoRefresh
    BY <1>0, <1>1, <2>1 DEF Sessions, SessionOK
  <2>3. keyring' \in KeyringValues /\ (keyring # NoRefresh => keyring' # NoRefresh)
    BY <1>0, <2>1 DEF AuthTables
  <2> QED
    BY <1>1, <2>1, <2>2, <2>3, SessionStep
<1> QED
  BY <1>4, <1>5, <1>6, <1>7

\* The helpers' results, but for a removal's.
LEMMA HelperStep ==
    ASSUME AuthInv,
           ClientReady \/ LookupFound \/ LookupFails \/ StoreDone \/ StoreFails
    PROVE  AuthTables' /\ Rules'
<1>0. AuthTables /\ AccountsOK /\ EngagedOK /\ SessionOK /\ PendingOK /\ DisconnectOK
      /\ JobOnlyWhenAccepted
  BY DEF AuthInv, Rules
<1>1. NoRefresh \in KeyringValues
  BY DEF KeyringValues
<1>2. \A p \in Pendings : p.token \in KeyringValues /\ p.interactive \in BOOLEAN
  BY DEF Pendings, KeyringValues
\* An authorization goes on, in a session of its own.
<1>3. ASSUME pending # None, pending' = None, session' \in Sessions,
             UNCHANGED <<account, keyring, provisional, snapshot, disconnect, syncJob>>,
             ~session'.completed,
             session'.flow = "refreshing" => session'.refresh # NoRefresh,
             session'.stored = NoRefresh => account.status # "connected",
             session'.stored # NoRefresh => keyring # NoRefresh
      PROVE  AuthTables' /\ Rules'
  <2>1. AuthTables'
    BY <1>0, <1>3 DEF AuthTables
  <2>2. AccountsOK' /\ EngagedOK' /\ JobOnlyWhenAccepted'
    BY <1>0, <1>3 DEF AccountsOK, EngagedOK, JobOnlyWhenAccepted, Exists
  <2>3. SessionOK' /\ PendingOK' /\ DisconnectOK'
    BY <1>0, <1>3 DEF SessionOK, PendingOK, DisconnectOK
  <2> QED
    BY <2>1, <2>2, <2>3 DEF Rules
<1>4. CASE UNCHANGED <<account, keyring, provisional, snapshot, disconnect, pending,
                       session, syncJob>>
  BY <1>0, <1>4 DEF Rules, AuthTables, AccountsOK, EngagedOK, JobOnlyWhenAccepted, Exists,
     SessionOK, PendingOK, DisconnectOK
<1>5. CASE ClientReady
  <2>1. CASE pending # None /\ (pending.interactive \/ pending.token # NoRefresh)
    <3>1. /\ pending' = None
          /\ session' = IF pending.interactive THEN NewSession("browser", NoRefresh)
                        ELSE NewSession("refreshing", pending.token)
          /\ UNCHANGED <<account, keyring, provisional, snapshot, disconnect, syncJob>>
      BY <1>5, <2>1 DEF ClientReady
    <3>2. pending \in Pendings
      BY <1>0, <2>1 DEF AuthTables
    <3>3. CASE pending.interactive
      <4>1. /\ session' \in Sessions /\ session'.flow = "browser"
            /\ session'.stored = NoRefresh /\ ~session'.completed
        BY <1>1, <3>1, <3>3, NewSessionIs
      <4>2. account.status # "connected"
        BY <1>0, <2>1, <3>3 DEF PendingOK
      <4> QED
        BY <1>3, <2>1, <3>1, <4>1, <4>2
    <3>4. CASE ~pending.interactive
      <4>1. pending.token # NoRefresh /\ pending.token \in KeyringValues /\ keyring # NoRefresh
        BY <1>0, <1>2, <2>1, <3>2, <3>4 DEF PendingOK
      <4>2. /\ session' \in Sessions /\ session'.refresh = pending.token
            /\ session'.stored = pending.token /\ ~session'.completed
        BY <3>1, <3>4, <4>1, NewSessionIs
      <4> QED
        BY <1>3, <2>1, <3>1, <4>1, <4>2
    <3> QED
      BY <3>3, <3>4
  <2>2. CASE ~(pending # None /\ (pending.interactive \/ pending.token # NoRefresh))
    BY <1>4, <1>5, <2>2 DEF ClientReady
  <2> QED
    BY <2>1, <2>2
<1>6. CASE LookupFound
  <2>1. /\ pending # None /\ keyring # NoRefresh /\ keyring \in KeyringValues
        /\ ~pending.interactive
        /\ UNCHANGED <<account, keyring, provisional, snapshot, disconnect, syncJob>>
    BY <1>0, <1>6 DEF LookupFound, LookingUp, AuthTables
  <2>2. CASE clientReady
    <3>1. pending' = None /\ session' = NewSession("refreshing", keyring)
      BY <1>6, <2>2 DEF LookupFound
    <3>2. /\ session' \in Sessions /\ session'.refresh = keyring
          /\ session'.stored = keyring /\ ~session'.completed
      BY <2>1, <3>1, NewSessionIs
    <3> QED
      BY <1>3, <2>1, <3>1, <3>2
  <2>3. CASE ~clientReady
    <3>1. pending' = [pending EXCEPT !.token = keyring] /\ session' = session
      BY <1>6, <2>3 DEF LookupFound
    <3>2. pending \in Pendings /\ session = None
      BY <1>0, <2>1 DEF AuthTables, SessionOK
    <3>3. pending' \in Pendings /\ pending'.interactive = pending.interactive
      BY <2>1, <3>1, <3>2 DEF Pendings, KeyringValues
    <3>4. AuthTables'
      BY <1>0, <2>1, <3>1, <3>3 DEF AuthTables
    <3>5. AccountsOK' /\ EngagedOK' /\ JobOnlyWhenAccepted'
      BY <1>0, <2>1, <3>1 DEF AccountsOK, EngagedOK, JobOnlyWhenAccepted, Exists
    <3>6. SessionOK' /\ PendingOK' /\ DisconnectOK'
      BY <1>0, <2>1, <3>1, <3>2, <3>3 DEF SessionOK, PendingOK, DisconnectOK
    <3> QED
      BY <3>4, <3>5, <3>6 DEF Rules
  <2> QED
    BY <2>2, <2>3
<1>7. CASE LookupFails
  <2>1. pending # None /\ session = None /\ pending' = None
        /\ UNCHANGED <<provisional, disconnect>>
    BY <1>0, <1>7 DEF LookupFails, LookingUp, SessionOK
  <2>2. Failed(TRUE) /\ ((syncJob = None /\ snapshot = NoAccount) => session' = session)
    BY <1>7 DEF LookupFails
  <2>3. /\ account' = WithStatus("reauthorization_required")
        /\ syncJob' = None /\ snapshot' = NoAccount /\ session' = None
        /\ keyring' \in {keyring} \cup KeyringAfterKill
    BY <2>1, <2>2 DEF Failed, CancelAuth
  <2>4. keyring' \in KeyringValues /\ (keyring # NoRefresh => keyring' # NoRefresh)
    BY <1>0, <2>3, Killed DEF AuthTables
  <2> QED
    BY <2>1, <2>3, <2>4, TroubleStep
<1>8. CASE StoreDone
  <2> DEFINE s == [session EXCEPT !.stored = session.storing, !.storing = NoRefresh]
  <2>1. /\ session # None /\ session \in Sessions /\ session.storing # NoRefresh
        /\ keyring' = session.storing /\ Notify(s)
        /\ UNCHANGED <<disconnect, pending>>
    BY <1>0, <1>8 DEF StoreDone, Storing, AuthTables
  <2>2. /\ s \in Sessions /\ s.stored = session.storing /\ s.completed = session.completed
        /\ s.flow = session.flow /\ s.refresh = session.refresh
        /\ session.storing \in KeyringValues
    BY <2>1 DEF Sessions, KeyringValues
  <2>3. s.flow = "refreshing" => s.refresh # NoRefresh
    BY <1>0, <2>1, <2>2 DEF SessionOK
  <2> HIDE DEF s
  <2> QED
    BY <2>1, <2>2, <2>3, NotifyStep
<1>9. CASE StoreFails
  <2> DEFINE s == [session EXCEPT !.storing = NoRefresh]
  <2>1. /\ session # None /\ session \in Sessions /\ pending = None
        /\ UNCHANGED <<provisional, disconnect>>
    BY <1>0, <1>9 DEF StoreFails, Storing, AuthTables, SessionOK
  <2>2. IF s.failed \/ (syncJob = None /\ snapshot = NoAccount)
        THEN /\ keyring' \in KeyringAfterKill
             /\ session' = [s EXCEPT !.failed = TRUE]
             /\ account' = IF s.failed THEN account ELSE WithStatus("error")
             /\ UNCHANGED <<syncJob, snapshot, pending>>
        ELSE Failed(FALSE)
    BY <1>9 DEF StoreFails
  <2>3. /\ [s EXCEPT !.failed = TRUE] \in Sessions
        /\ [s EXCEPT !.failed = TRUE].stored = session.stored
        /\ [s EXCEPT !.failed = TRUE].completed = session.completed
        /\ [s EXCEPT !.failed = TRUE].flow = session.flow
        /\ [s EXCEPT !.failed = TRUE].refresh = session.refresh
    BY <2>1 DEF Sessions
  <2>4. session.flow = "refreshing" => session.refresh # NoRefresh
    BY <1>0, <2>1 DEF SessionOK
  <2> HIDE DEF s
  <2>5. CASE s.failed
    <3>1. keyring' \in KeyringValues /\ (keyring # NoRefresh => keyring' # NoRefresh)
      BY <1>0, <2>2, <2>5, Killed
    <3> QED
      BY <2>1, <2>2, <2>3, <2>4, <2>5, <3>1, SessionStep
  <2>6. CASE ~s.failed /\ syncJob = None /\ snapshot = NoAccount
    <3>1. keyring' \in KeyringValues /\ (keyring # NoRefresh => keyring' # NoRefresh)
      BY <1>0, <2>2, <2>6, Killed
    <3>2. account' = WithStatus("error") /\ syncJob' = None /\ snapshot' = NoAccount /\ pending' = None
      BY <2>1, <2>2, <2>6
    <3>3. /\ session' \in Sessions /\ session'.stored = session.stored
          /\ session'.flow = "refreshing" => session'.refresh # NoRefresh
      BY <2>2, <2>3, <2>4, <2>6
    <3> QED
      BY <2>1, <3>1, <3>2, <3>3, TroubleStep
  <2>7. CASE ~s.failed /\ (syncJob # None \/ snapshot # NoAccount)
    <3>1. /\ account' = WithStatus("reauthorization_required")
          /\ syncJob' = None /\ snapshot' = NoAccount /\ session' = None /\ pending' = None
          /\ keyring' \in KeyringAfterKill
      BY <2>2, <2>7 DEF Failed, CancelAuth
    <3>2. keyring' \in KeyringValues /\ (keyring # NoRefresh => keyring' # NoRefresh)
      BY <1>0, <3>1, Killed
    <3> QED
      BY <2>1, <3>1, <3>2, TroubleStep
  <2> QED
    BY <2>5, <2>6, <2>7
<1> QED
  BY <1>5, <1>6, <1>7, <1>8, <1>9

\* The end of a removal, and of the daemon.
LEMMA EndStep ==
    ASSUME AuthInv, ForgetDone \/ ForgetFails \/ AccountCrash
    PROVE  AuthTables' /\ Rules'
<1>0. AuthTables /\ AccountsOK /\ EngagedOK /\ SessionOK /\ PendingOK /\ DisconnectOK
      /\ JobOnlyWhenAccepted
  BY DEF AuthInv, Rules
<1>1. NoRefresh \in KeyringValues
  BY DEF KeyringValues
<1> DEFINE lookup == [kind |-> "pending", interactive |-> FALSE, token |-> NoRefresh]
<1>2. lookup \in Pendings /\ ~lookup.interactive /\ lookup.token = NoRefresh
  BY Shapes
<1> HIDE DEF lookup
\* Afterwards nothing goes on but a lookup, for an account that is enabled.
<1>3. ASSUME account' \in Accounts, Standing(account'), keyring' \in KeyringValues,
             provisional' = FALSE, snapshot' = NoAccount, disconnect' = None,
             session' = None, syncJob' = None,
             \/ pending' = None
             \/ pending' = lookup /\ account'.enabled
      PROVE  AuthTables' /\ Rules'
  <2>1. AuthTables'
    BY <1>2, <1>3, Shapes DEF AuthTables
  <2>2. AccountsOK' /\ EngagedOK' /\ JobOnlyWhenAccepted'
    BY <1>3, Shapes DEF AccountsOK, EngagedOK, JobOnlyWhenAccepted
  <2>3. SessionOK' /\ PendingOK' /\ DisconnectOK'
    BY <1>2, <1>3 DEF SessionOK, PendingOK, DisconnectOK
  <2> QED
    BY <2>1, <2>2, <2>3 DEF Rules
<1>4. CASE ForgetDone
  <2>1. /\ disconnect # None /\ keyring' = NoRefresh /\ disconnect' = None
        /\ \/ account' = NoAccount
           \/ account' = [enabled |-> FALSE, status |-> "disconnected"]
        /\ UNCHANGED <<provisional, snapshot, pending, session, syncJob>>
    BY <1>4 DEF ForgetDone
  <2>2. /\ session' = None /\ syncJob' = None /\ pending' = None /\ provisional' = FALSE
        /\ snapshot' = NoAccount
    BY <1>0, <2>1 DEF DisconnectOK, AuthTables
  <2>3. account' \in Accounts /\ Standing(account')
    <3>1. CASE account' = NoAccount
      BY <3>1, Shapes
    <3>2. CASE account' = [enabled |-> FALSE, status |-> "disconnected"]
      <4>1. account' \in [enabled : BOOLEAN, status : Statuses]
        BY <3>2 DEF Statuses
      <4> QED
        BY <3>2, <4>1, Shapes DEF Standing
    <3> QED
      BY <2>1, <3>1, <3>2
  <2> QED
    BY <1>1, <1>3, <2>1, <2>2, <2>3
<1>5. CASE ForgetFails
  <2>1. /\ disconnect # None /\ keyring' \in {keyring, NoRefresh} /\ disconnect' = None
        /\ account' = disconnect.snapshot
        /\ \/ /\ account'.enabled /\ pending' = lookup /\ session' = None
           \/ UNCHANGED <<pending, session>>
        /\ UNCHANGED <<provisional, snapshot, syncJob>>
    BY <1>5 DEF ForgetFails, lookup
  <2>2. /\ session' = None /\ syncJob' = None /\ provisional' = FALSE /\ snapshot' = NoAccount
        /\ \/ pending' = None
           \/ pending' = lookup /\ account'.enabled
    BY <1>0, <2>1 DEF DisconnectOK, AuthTables
  <2>3. account' \in Accounts /\ Standing(account')
    BY <1>0, <2>1, Shapes DEF AuthTables, AccountsOK
  <2> QED
    BY <1>0, <1>1, <1>3, <2>1, <2>2, <2>3 DEF AuthTables
<1>6. CASE AccountCrash
  <2>1. /\ keyring' \in {NoRefresh, keyring} \cup KeyringAfterKill
        /\ provisional' = FALSE /\ snapshot' = NoAccount /\ disconnect' = None
        /\ session' = None /\ syncJob' = None /\ account' = account
        /\ pending' = IF account.enabled THEN lookup ELSE None
    BY <1>6 DEF AccountCrash, lookup
  <2>2. keyring' \in KeyringValues
    BY <1>0, <1>1, <2>1, Killed DEF AuthTables
  <2>3. account' \in Accounts /\ Standing(account')
    BY <1>0, <2>1 DEF AuthTables, AccountsOK
  <2> QED
    BY <1>3, <2>1, <2>2, <2>3
<1> QED
  BY <1>4, <1>5, <1>6

\* refresh, of a session or by a lookup.
LEMMA RefreshStep ==
    ASSUME AuthInv, CanRefresh, Refresh, syncJob # None \/ MaySync(account),
           syncJob' \in SyncJobs \cup {None}, syncJob' # None => syncJob # None,
           UNCHANGED <<account, provisional, snapshot, disconnect>>
    PROVE  AuthTables' /\ Rules'
<1>0. AuthTables /\ AccountsOK /\ EngagedOK /\ SessionOK /\ PendingOK /\ DisconnectOK
      /\ JobOnlyWhenAccepted
  BY DEF AuthInv, Rules
<1>1. (Exists => account.enabled) /\ disconnect = None
  BY <1>0 DEF EngagedOK, DisconnectOK, MaySync
<1>2. /\ keyring' \in KeyringValues /\ (keyring # NoRefresh => keyring' # NoRefresh)
      /\ pending' \in Pendings \cup {None} /\ session' \in Sessions \cup {None}
      /\ \/ /\ session # None /\ session' # None /\ pending' = pending
            /\ session'.stored = session.stored /\ session'.completed = session.completed
            /\ session'.flow = "refreshing" => session'.refresh # NoRefresh
         \/ session' = None /\ pending' = pending
         \/ session' = None /\ ~pending'.interactive /\ pending'.token = NoRefresh
  <2>1. CASE session # None
    <3>1. /\ session' = [session EXCEPT !.flow = "refreshing"]
          /\ UNCHANGED <<pending, keyring>> /\ session.refresh # NoRefresh
      BY <2>1 DEF Refresh, CanRefresh
    <3>2. session \in Sessions
      BY <1>0, <2>1 DEF AuthTables
    <3>3. /\ session' \in Sessions /\ session'.stored = session.stored
          /\ session'.completed = session.completed /\ session'.refresh # NoRefresh
      BY <3>1, <3>2 DEF Sessions
    <3> QED
      BY <1>0, <2>1, <3>1, <3>3, Shapes DEF AuthTables
  <2>2. CASE session = None
    <3>1. CASE pending # None /\ ~pending.interactive
      <4>1. UNCHANGED <<pending, session, keyring>>
        BY <2>2, <3>1 DEF Refresh, RestoreAuthorization
      <4> QED
        BY <1>0, <2>2, <4>1 DEF AuthTables
    <3>2. CASE ~(pending # None /\ ~pending.interactive)
      <4>1. QueueAuthorization(FALSE)
        BY <2>2, <3>2 DEF Refresh, RestoreAuthorization
      <4> QED
        BY <1>0, <4>1, QueueIs
    <3> QED
      BY <3>1, <3>2
  <2> QED
    BY <2>1, <2>2
<1>3. AuthTables'
  BY <1>0, <1>2 DEF AuthTables
<1>4. AccountsOK' /\ EngagedOK' /\ JobOnlyWhenAccepted'
  BY <1>0, <1>1 DEF AccountsOK, EngagedOK, JobOnlyWhenAccepted, Exists
<1>5. SessionOK' /\ PendingOK' /\ DisconnectOK'
  BY <1>0, <1>1, <1>2 DEF SessionOK, PendingOK, DisconnectOK
<1> QED
  BY <1>3, <1>4, <1>5 DEF Rules

\* The job.
LEMMA JobStep ==
    ASSUME AuthInv, SyncAccount \/ JobEnds \/ JobUnauthorized
    PROVE  AuthTables' /\ Rules'
<1>0. AuthTables /\ AccountsOK /\ EngagedOK /\ SessionOK /\ PendingOK /\ DisconnectOK
      /\ JobOnlyWhenAccepted
  BY DEF AuthInv, Rules
\* Only the job, or its end, changes.
<1>1. ASSUME syncJob' \in SyncJobs \cup {None},
             syncJob' # None => Exists /\ MaySync(account),
             UNCHANGED <<account, keyring, provisional, snapshot, disconnect, pending, session>>
      PROVE  AuthTables' /\ Rules'
  <2>1. MaySync(account) /\ Exists => /\ account.enabled
                                      /\ account.status \in {"connected", "error"}
    <3>1. Exists => account \in [enabled : BOOLEAN, status : Statuses]
      BY <1>0, Shapes DEF AuthTables, Exists
    <3> QED
      BY <1>0, <3>1 DEF MaySync, AccountsOK, Standing, Statuses
  <2>2. AuthTables'
    BY <1>0, <1>1 DEF AuthTables
  <2>3. AccountsOK' /\ EngagedOK' /\ JobOnlyWhenAccepted'
    BY <1>0, <1>1, <2>1 DEF AccountsOK, EngagedOK, JobOnlyWhenAccepted, Exists
  <2>4. SessionOK' /\ PendingOK'
    BY <1>0, <1>1 DEF SessionOK, PendingOK
  <2>5. DisconnectOK'
    <3>1. disconnect # None => account.status = "disconnecting"
      BY <1>0 DEF DisconnectOK
    <3> QED
      BY <1>0, <1>1, <2>1, <3>1 DEF DisconnectOK
  <2> QED
    BY <2>2, <2>3, <2>4, <2>5 DEF Rules
<1>2. CASE JobEnds
  BY <1>1, <1>2 DEF JobEnds
<1>3. CASE SyncAccount
  <2>1. /\ syncJob = None /\ Exists /\ MaySync(account)
        /\ UNCHANGED <<provisional, snapshot, disconnect>>
    BY <1>3 DEF SyncAccount
  <2>2. CASE session # None /\ session.access # "none"
    BY <1>1, <1>3, <2>1, <2>2, Shapes DEF SyncAccount
  <2>3. CASE ~(session # None /\ session.access # "none") /\ CanRefresh
    <3>1. Refresh /\ UNCHANGED <<account, syncJob>>
      BY <1>3, <2>3 DEF SyncAccount
    <3> QED
      BY <2>1, <2>3, <3>1, RefreshStep
  <2>4. CASE ~(session # None /\ session.access # "none") /\ ~CanRefresh
    <3>1. /\ account' = WithStatus("reauthorization_required")
          /\ UNCHANGED <<pending, session, keyring, syncJob>>
      BY <1>3, <2>4 DEF SyncAccount
    <3>2. session # None
      <4> SUFFICES ASSUME session = None PROVE FALSE
        OBVIOUS
      <4>1. disconnect # None
        BY <2>4 DEF CanRefresh
      <4>2. account.status = "disconnecting"
        BY <1>0, <4>1 DEF DisconnectOK
      <4> QED
        BY <2>1, <4>2 DEF MaySync
    <3>3. pending = None /\ session \in Sessions
          /\ (session.flow = "refreshing" => session.refresh # NoRefresh)
      BY <1>0, <3>2 DEF SessionOK, AuthTables
    <3>4. snapshot = NoAccount
      BY <1>0, <2>1 DEF AccountsOK, MaySync
    <3>5. keyring' \in KeyringValues /\ (keyring # NoRefresh => keyring' # NoRefresh)
      BY <1>0, <3>1 DEF AuthTables
    <3> QED
      BY <2>1, <3>1, <3>2, <3>3, <3>4, <3>5, TroubleStep
  <2> QED
    BY <2>2, <2>3, <2>4
<1>4. CASE JobUnauthorized
  <2>1. syncJob # None /\ UNCHANGED <<provisional, snapshot, disconnect>>
    BY <1>4 DEF JobUnauthorized
  <2>2. CASE ~syncJob.refreshed /\ CanRefresh
    <3>1. /\ syncJob' = [syncJob EXCEPT !.refreshed = TRUE, !.waiting = TRUE]
          /\ Refresh /\ account' = account
      BY <1>4, <2>2 DEF JobUnauthorized
    <3>2. syncJob' \in SyncJobs
      BY <1>0, <2>1, <3>1 DEF AuthTables, SyncJobs
    <3> QED
      BY <2>1, <2>2, <3>1, <3>2, RefreshStep
  <2>3. CASE ~(~syncJob.refreshed /\ CanRefresh)
    <3>1. /\ account' = WithStatus("reauthorization_required")
          /\ syncJob' = None /\ pending' = None /\ session' = None
          /\ keyring' \in KeyringAfterKill
      BY <1>4, <2>3 DEF JobUnauthorized, CancelAuth
    <3>2. keyring' \in KeyringValues /\ (keyring # NoRefresh => keyring' # NoRefresh)
      BY <1>0, <3>1, Killed
    <3>3. snapshot' = NoAccount
      BY <1>0, <2>1, Shapes DEF AccountsOK, JobOnlyWhenAccepted, Exists
    <3> QED
      BY <2>1, <3>1, <3>2, <3>3, TroubleStep
  <2> QED
    BY <2>2, <2>3
<1> QED
  BY <1>2, <1>3, <1>4

\* AuthInv is inductive.
LEMMA AuthStep ==
    ASSUME AccountAssumption, AuthInv, [AccountNext]_accountVars
    PROVE  AuthInv'
<1>1. CASE Revoke \/ UNCHANGED accountVars
  <2>1. UNCHANGED <<account, keyring, provisional, snapshot, disconnect, pending,
                    session, syncJob>>
    BY <1>1 DEF Revoke, accountVars
  <2>2. AuthTables' /\ Rules'
    BY <2>1 DEF AuthInv, Rules, AuthTables, AccountsOK, EngagedOK, JobOnlyWhenAccepted,
                Exists, SessionOK, PendingOK, DisconnectOK
  <2> QED
    BY <2>2, AuthCountersStep DEF AuthInv
<1>2. CASE ~(Revoke \/ UNCHANGED accountVars)
  <2>1. AuthTables' /\ Rules'
    BY <1>2, CommandStep, FlowStep, HelperStep, EndStep, JobStep DEF AccountNext
  <2> QED
    BY <2>1, AuthCountersStep DEF AuthInv
<1> QED
  BY <1>1, <1>2

\* Before the first authorization nothing goes on.
LEMMA AuthInit ==
    ASSUME AccountAssumption, AccountInit
    PROVE  AuthInv
<1>1. AuthCounters
  <2>1. 0 \in 0 .. MaxTokens /\ 0 \in 0 .. MaxAccountFaults /\ {} \subseteq 1 .. 0
    BY DEF AccountAssumption
  <2> QED
    BY <2>1 DEF AccountInit, AuthCounters
<1>2. AuthTables
  BY Shapes DEF AccountInit, AuthTables, KeyringValues
<1>3. AccountsOK /\ EngagedOK
  BY Shapes DEF AccountInit, AccountsOK, EngagedOK
<1>4. SessionOK /\ PendingOK /\ DisconnectOK /\ JobOnlyWhenAccepted
  BY DEF AccountInit, SessionOK, PendingOK, DisconnectOK, JobOnlyWhenAccepted
<1> QED
  BY <1>1, <1>2, <1>3, <1>4 DEF AuthInv, Rules

-----------------------------------------------------------------------------
\* The state keeps its types; only a disconnection disables an account, and
\* only a reauthorization keeps a copy of it.
THEOREM AuthTypeCorrect == AccountSpec => []AccountTypeOK
  BY AccountAssumption, AuthInit, AuthStep, AuthTypes, PTL DEF AccountSpec

\* An account that says it is connected and has a session can be restored
\* after a restart: the refresh token is in the keyring before anyone hears of
\* it, whatever helpers were killed or reported late.
THEOREM TokenSavedCorrect == AccountSpec => []TokenSavedBeforeConnected
<1>1. AuthInv => TokenSavedBeforeConnected
  BY DEF AuthInv, Rules, SessionOK, TokenSavedBeforeConnected
<1> QED
  BY <1>1, AccountAssumption, AuthInit, AuthStep, PTL DEF AccountSpec

\* A job never runs for an account that is being authorized or disconnected or
\* waits for the user.
THEOREM JobAcceptedCorrect == AccountSpec => []JobOnlyWhenAccepted
<1>1. AuthInv => JobOnlyWhenAccepted
  BY DEF AuthInv, Rules
<1> QED
  BY <1>1, AccountAssumption, AuthInit, AuthStep, PTL DEF AccountSpec

\* What a step that leaves a disconnected account as it is does to its token.
LEMMA ForgottenStep ==
    ASSUME AuthInv, [AccountNext]_accountVars, account.status = "disconnected", account' = account
    PROVE  keyring' = keyring /\ session' = None
<1>1. /\ Exists /\ ~account.enabled
      /\ session = None /\ pending = None /\ syncJob = None /\ disconnect = None
      /\ snapshot = NoAccount
  <2>1. Exists /\ ~account.enabled
    BY Shapes DEF AuthInv, Rules, AccountsOK, Standing, Exists
  <2> QED
    BY <2>1 DEF AuthInv, Rules, AccountsOK, EngagedOK, DisconnectOK
<1>2. KeyringAfterKill = {keyring}
  BY <1>1 DEF KeyringAfterKill
<1>3. ~ (\/ BeginAuthorization \/ ReauthorizeAccount
         \/ \E removeData \in BOOLEAN : DisconnectAccount(removeData))
  <2>1. ~BeginAuthorization
    BY <1>1 DEF BeginAuthorization
  <2>2. ~ReauthorizeAccount
    <3> SUFFICES ASSUME account' = [enabled |-> TRUE, status |-> "authorizing"] PROVE FALSE
      BY DEF ReauthorizeAccount
    <3>1. account'.status = "authorizing"
      OBVIOUS
    <3> QED
      BY <3>1
  <2>3. \A removeData \in BOOLEAN : ~DisconnectAccount(removeData)
    <3> SUFFICES ASSUME account' = [enabled |-> FALSE, status |-> "disconnecting"] PROVE FALSE
      BY DEF DisconnectAccount
    <3>1. account'.status = "disconnecting"
      OBVIOUS
    <3> QED
      BY <3>1
  <2> QED
    BY <2>1, <2>2, <2>3
<1>4. CASE CancelAuthorization
  BY <1>1, <1>2, <1>4 DEF CancelAuthorization, CancelAuth
<1>5. ~ (\/ UserConsents \/ UserDenies \/ RefreshAccepted \/ RefreshFails
         \/ AccessExpires \/ AutoRefresh)
  BY <1>1 DEF UserConsents, UserDenies, RefreshAccepted, RefreshFails, AccessExpires,
              AutoRefresh
<1>6. ~ (LookupFound \/ LookupFails \/ StoreDone \/ StoreFails \/ ForgetDone \/ ForgetFails)
  BY <1>1 DEF LookupFound, LookupFails, LookingUp, StoreDone, StoreFails, Storing,
              ForgetDone, ForgetFails
<1>7. ~ (SyncAccount \/ JobEnds \/ JobUnauthorized)
  BY <1>1 DEF SyncAccount, MaySync, JobEnds, JobUnauthorized
<1>8. CASE AccountCrash
  BY <1>1, <1>2, <1>8 DEF AccountCrash
<1>9. CASE ClientReady \/ Revoke \/ UNCHANGED accountVars
  BY <1>1, <1>9 DEF ClientReady, Revoke, accountVars
<1> QED
  BY <1>3, <1>4, <1>5, <1>6, <1>7, <1>8, <1>9 DEF AccountNext

\* Once an account is disconnected no late reply of a helper or of Google
\* brings a token or a session back; only the user, authorizing it again, does.
THEOREM ForgottenCorrect == AccountSpec => DisconnectedStaysForgotten
<1>1. AuthInv /\ [AccountNext]_accountVars =>
        [account.status = "disconnected" /\ account' = account
            => keyring' = keyring /\ session' = None]_accountVars
  BY ForgottenStep
<1> QED
  BY <1>1, AccountAssumption, AuthInit, AuthStep, PTL DEF AccountSpec, DisconnectedStaysForgotten
==============================================================================
