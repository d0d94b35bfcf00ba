---------------------------- MODULE IcsFeedProofs ----------------------------
(***************************************************************************)
(* Proofs about a subscribed feed, for every number of events, versions of *)
(* the feed, requests, credentials and faults.                             *)
(*                                                                         *)
(*   FeedInv is inductive.  Its core is what the saved validator may be    *)
(*   trusted to say: when it, or the copy of it a request was sent with,   *)
(*   or a 304 repeats, is the version of the feed, the cache is the feed   *)
(*   (TrustedOK).  An answer that is being applied breaks that in between, *)
(*   unless nobody trusts the present version while it does (OvertakenOK), *)
(*   and it must leave the cache as the feed when it is done (ProgressOK). *)
(*   Only the newest request is as good as that: there is at most one      *)
(*   request after which no other was started.                             *)
(***************************************************************************)
EXTENDS IcsFeed, TLAPS, WellFoundedInduction

\* A request that has no answer yet, one that was answered, and one after which
\* no other was started.
Waiting(f) == fetches[f].kind \in {"username", "password", "sent"}
Answer(f, code) == fetches[f].kind = "answered" /\ fetches[f].code = code
Newest(f) == fetches[f].kind # "none" /\ ~fetches[f].late

\* A credential is stored for a subscription that is there.
SubscriptionOK == RemovedLeavesNothing /\ (secret.kind = "store" => Exists)

\* Before the first command there is no subscription and no request for it.
FirstOK == commands = 0 => ~Exists /\ \A f \in Slots : fetches[f] = None

\* No validator is newer than the feed.
VersionsOK ==
    /\ version # 0 /\ validator <= version
    /\ \A f \in Slots : fetches[f].kind # "none" =>
         fetches[f].sent <= version /\ fetches[f].etag <= version

\* At most one request is the newest.
OneNewest == \A f, g \in Slots : Newest(f) /\ Newest(g) => f = g

\* The answer of the present version is the feed.
AnswersOK ==
    \A f \in Slots : Answer(f, "200") /\ fetches[f].etag = version =>
        fetches[f].body = feed

\* The validators somebody relies on: the saved one and those of the requests.
Relied ==
    {validator} \cup {fetches[f].sent : f \in {g \in Slots : Waiting(g)}}
                \cup {fetches[f].etag : f \in {g \in Slots : Answer(g, "304")}}

\* When somebody relies on the present version, the cache is the feed.
TrustedOK == version \in Relied => cache = feed

\* What is left of the newest answer is what the cache still lacks.
ProgressOK ==
    \A f \in Slots :
        Newest(f) /\ fetches[f].kind = "apply" /\ fetches[f].etag = version =>
        \A e \in Events :
            /\ e \in fetches[f].events => fetches[f].body[e] = feed[e]
            /\ e \in fetches[f].pruned => feed[e] = 0
            /\ e \notin fetches[f].events \cup fetches[f].pruned => cache[e] = feed[e]

\* While the newest answer is an old one, nobody relies on the present version.
OvertakenOK ==
    \A f \in Slots :
        /\ Newest(f) /\ (Answer(f, "200") \/ fetches[f].kind = "apply")
        /\ fetches[f].etag # version
        => version \notin Relied

\* The cache of a subscription into which no superseded answer was written.
CacheOK == Exists /\ ~lateWrote => TrustedOK /\ ProgressOK /\ OvertakenOK

\* The inductive invariant of a feed.
FeedInv ==
    /\ TypeOK /\ SubscriptionOK /\ FirstOK
    /\ VersionsOK /\ OneNewest /\ AnswersOK
    /\ CacheOK

\* The shapes of the records that stand for what is under way.
FetchKinds == {"username", "password", "sent", "answered", "apply"}
FetchRecords ==
    [kind : FetchKinds, username : 0..MaxEntered, password : 0..MaxEntered,
     sent : Versions, code : {"", "200", "304", "401", "failed"}, etag : Versions,
     body : Contents, events : SUBSET Events, pruned : SUBSET Events, late : BOOLEAN]
StoreRecords == [kind : {"store"}, of : Kinds, value : 1..MaxEntered, done : BOOLEAN]
RemoveRecords == [kind : {"remove"}, of : SUBSET Kinds]
Statuses == {"credential_storage_pending", "connected", "reauthorization_required",
             "disconnected"}
AccountRecords == [enabled : BOOLEAN, status : Statuses]

-----------------------------------------------------------------------------
\* A request, a subscription and an operation of the helper are there or not.
LEMMA Shapes ==
    /\ None.kind = "none" /\ None \in Fetches /\ None \in Secrets
    /\ \A x \in Fetches : x = None \/ x \in FetchRecords
    /\ \A x \in FetchRecords : x \in Fetches /\ x # None /\ x.kind # "none"
    /\ \A s \in Secrets : s = None \/ s \in StoreRecords \/ s \in RemoveRecords
    /\ \A s \in StoreRecords \cup RemoveRecords : s \in Secrets /\ s.kind # "none"
    /\ NoAccount \in Accounts
    /\ \A a \in Accounts : a = NoAccount \/ a \in AccountRecords
    /\ \A a \in AccountRecords : a \in Accounts /\ a # NoAccount
<1>1. None.kind = "none" /\ None \in Fetches /\ None \in Secrets
  BY DEF None, Fetches, Secrets
<1>2. \A x \in Fetches : x = None \/ x \in FetchRecords
  BY DEF Fetches, FetchRecords, FetchKinds
<1>3. \A x \in FetchRecords : x \in Fetches /\ x.kind # "none"
  BY DEF Fetches, FetchRecords, FetchKinds
<1>4. \A s \in Secrets : s = None \/ s \in StoreRecords \/ s \in RemoveRecords
  BY DEF Secrets, StoreRecords, RemoveRecords
<1>5. \A s \in StoreRecords \cup RemoveRecords : s \in Secrets /\ s.kind # "none"
  BY DEF Secrets, StoreRecords, RemoveRecords
<1>6. NoAccount \in Accounts
  BY DEF Accounts
<1>7. \A a \in Accounts : a = NoAccount \/ a \in AccountRecords
  BY DEF Accounts, AccountRecords, Statuses
<1>8. \A a \in AccountRecords : a \in Accounts /\ a.status # "none"
  BY DEF Accounts, AccountRecords, Statuses
<1>9. NoAccount.status = "none"
  BY DEF NoAccount
<1> QED
  BY <1>1, <1>2, <1>3, <1>4, <1>5, <1>6, <1>7, <1>8, <1>9

\* What a slot holds.
LEMMA SlotIs ==
    ASSUME TypeOK, NEW f \in Slots
    PROVE  /\ fetches[f] = None \/ fetches[f] \in FetchRecords
           /\ fetches[f] = None <=> fetches[f].kind = "none"
<1>1. fetches[f] \in Fetches
  BY DEF TypeOK
<1> QED
  BY <1>1, Shapes

\* setAccountAuthStatus neither makes nor removes the account.
LEMMA WithStatusIs ==
    ASSUME account \in Accounts, NEW status \in Statuses
    PROVE  /\ WithStatus(status) \in Accounts
           /\ WithStatus(status) = NoAccount <=> account = NoAccount
<1>1. CASE account = NoAccount
  BY <1>1 DEF WithStatus, Exists
<1>2. CASE account # NoAccount
  <2>1. account \in AccountRecords
    BY <1>2, Shapes
  <2>2. WithStatus(status) = [account EXCEPT !.status = status]
    BY <1>2 DEF WithStatus, Exists
  <2>3. WithStatus(status) \in AccountRecords
    BY <2>1, <2>2 DEF AccountRecords
  <2> QED
    BY <1>2, <2>3, Shapes
<1> QED
  BY <1>1, <1>2

\* The removal of what the keyring holds stores nothing.
LEMMA RemovingIs ==
    /\ Removing \in Secrets
    /\ Removing.kind # "store"
<1> DEFINE of == {kind \in Kinds : keyring[kind] # 0}
           removal == [kind |-> "remove", of |-> of]
<1>1. of \in SUBSET Kinds
  OBVIOUS
<1> HIDE DEF of
<1>2. removal \in RemoveRecords /\ removal.kind = "remove"
  BY <1>1 DEF RemoveRecords
<1>3. Removing = None \/ Removing = removal
  BY DEF Removing, of
<1> QED
  BY <1>2, <1>3, Shapes

\* The bound on faults.
LEMMA FaultBound ==
    ASSUME FeedAssumption, TypeOK, UNCHANGED faults \/ \E kind : Fault(kind)
    PROVE  faults' \in 0 .. MaxFaults
<1>1. faults \in 0 .. MaxFaults /\ MaxFaults \in Nat
  BY DEF TypeOK, FeedAssumption
<1>2. \/ faults' = faults
      \/ faults < MaxFaults /\ faults' = faults + 1
  BY DEF Fault
<1> QED
  BY <1>1, <1>2

\* The bounds on commands and credentials.
LEMMA CommandBound ==
    ASSUME FeedAssumption, TypeOK, Command
    PROVE  commands' \in 0 .. MaxCommands /\ commands' # 0
<1>1. commands \in 0 .. MaxCommands /\ MaxCommands \in Nat
  BY DEF TypeOK, FeedAssumption
<1> QED
  BY <1>1 DEF Command

\* Credentials that are entered are new ones.
LEMMA EnteredBound ==
    ASSUME FeedAssumption, TypeOK, NEW with \in BOOLEAN, Entered(with)
    PROVE  /\ entered' \in 0 .. MaxEntered
           /\ with => entered' \in 1 .. MaxEntered
<1>1. entered \in 0 .. MaxEntered /\ MaxEntered \in Nat
  BY DEF TypeOK, FeedAssumption
<1> QED
  BY <1>1 DEF Entered

\* What the subscription or an operation begun for it is about, a command began.
LEMMA Begun ==
    ASSUME FeedInv,
           Exists \/ secret.kind = "store" \/ \E f \in Slots : fetches[f].kind # "none"
    PROVE  commands # 0
  BY Shapes DEF FeedInv, FirstOK, SubscriptionOK

\* The numbers that stand for versions.
LEMMA VersionNumbers ==
    ASSUME FeedAssumption
    PROVE  /\ Versions \subseteq Nat /\ 0 \in Versions /\ 1 \in Versions
           /\ Nothing \in Contents /\ 0 \in 0 .. MaxEntered
  BY DEF FeedAssumption, Versions, Nothing, Contents

\* A free slot, the first of them, is there when there is room.
LEMMA FirstFree ==
    ASSUME FeedAssumption, NEW free, free \subseteq Slots, free # {}
    PROVE  (CHOOSE f \in free : \A g \in free : f <= g) \in free
<1>1. free \subseteq Nat
  BY DEF FeedAssumption, Slots
<1>2. PICK f \in free : \A g \in free : ~ (<<g, f>> \in OpToRel(<, Nat))
  BY <1>1, NatLessThanWellFounded, WFMin
<1>3. \A g \in free : f <= g
  <2> TAKE g \in free
  <2>1. f \in Nat /\ g \in Nat
    BY <1>1
  <2>2. ~(g < f)
    BY <1>2, <2>1 DEF OpToRel
  <2> QED
    BY <2>1, <2>2
<1> QED
  BY <1>3
-----------------------------------------------------------------------------
(* What the requests and their answers mean, through each kind of step.     *)

\* The part of FeedInv that is about requests and validators.
TableOK == VersionsOK /\ OneNewest /\ AnswersOK /\ CacheOK

\* Nothing new is learnt of a request that goes on.
GoesOn(f) ==
    /\ fetches[f].kind # "none"
    /\ \/ fetches'[f].kind = fetches[f].kind
       \/ fetches[f].kind \in Kinds /\ fetches'[f].kind \in {"password", "sent"}
    /\ fetches'[f].sent = fetches[f].sent /\ fetches'[f].code = fetches[f].code
    /\ fetches'[f].etag = fetches[f].etag /\ fetches'[f].body = fetches[f].body
    /\ fetches'[f].events = fetches[f].events /\ fetches'[f].pruned = fetches[f].pruned
    /\ fetches'[f].late = fetches[f].late

\* The validators that are relied on are not newer than the feed.
LEMMA ReliedIsKnown ==
    ASSUME FeedAssumption, FeedInv, NEW v \in Relied
    PROVE  v \in Versions /\ v <= version
<1>1. CASE v = validator
  BY <1>1 DEF FeedInv, TypeOK, VersionsOK
<1>2. ASSUME NEW f \in Slots, fetches[f].kind # "none",
             v = fetches[f].sent \/ v = fetches[f].etag
      PROVE  v \in Versions /\ v <= version
  <2>1. fetches[f] \in FetchRecords
    BY <1>2, SlotIs DEF FeedInv
  <2>2. fetches[f].sent \in Versions /\ fetches[f].etag \in Versions
    BY <2>1 DEF FetchRecords
  <2> QED
    BY <1>2, <2>2 DEF FeedInv, VersionsOK
<1>3. \A f \in Slots : Waiting(f) \/ Answer(f, "304") => fetches[f].kind # "none"
  BY DEF Waiting, Answer
<1>4. \/ v = validator
      \/ \E f \in Slots : Waiting(f) /\ v = fetches[f].sent
      \/ \E f \in Slots : Answer(f, "304") /\ v = fetches[f].etag
  BY DEF Relied
<1> QED
  BY <1>1, <1>2, <1>3, <1>4

\* Requests that go on or end, and a validator that was relied on already.
LEMMA GoingOnKeeps ==
    ASSUME FeedAssumption, FeedInv,
           UNCHANGED <<feed, version, lateWrote>>,
           \A f \in Slots : fetches'[f].kind = "none" \/ GoesOn(f),
           validator' = 0 \/ validator' \in Relied,
           Exists' => Exists /\ cache' = cache /\ validator' \in Relied
    PROVE  TableOK'
<1> USE DEF FeedInv
<1>1. \A f \in Slots : fetches'[f].kind # "none" => GoesOn(f) /\ fetches[f].kind # "none"
  BY DEF GoesOn
<1>2. \A f \in Slots : /\ Waiting(f)' => Waiting(f)
                       /\ Answer(f, "304")' => Answer(f, "304")
                       /\ Answer(f, "200")' => Answer(f, "200")
                       /\ (fetches'[f].kind = "apply" => fetches[f].kind = "apply")
                       /\ Newest(f)' => Newest(f)
  BY <1>1 DEF GoesOn, Waiting, Answer, Newest, Kinds
<1>3. VersionsOK'
  <2>1. validator' <= version
    <3>1. CASE validator' = 0
      BY <3>1, VersionNumbers DEF TypeOK
    <3> QED
      BY <3>1, ReliedIsKnown
  <2> QED
    BY <2>1, <1>1 DEF VersionsOK, GoesOn
<1>4. OneNewest'
  BY <1>2 DEF OneNewest
<1>5. AnswersOK'
  <2> SUFFICES ASSUME NEW f \in Slots, Answer(f, "200")', fetches'[f].etag = version
               PROVE  fetches'[f].body = feed
    BY DEF AnswersOK
  <2>1. GoesOn(f) /\ Answer(f, "200")
    BY <1>1, <1>2 DEF Answer
  <2> QED
    BY <2>1 DEF AnswersOK, GoesOn
<1>6. ASSUME Exists', ~lateWrote'
      PROVE  (TrustedOK /\ ProgressOK /\ OvertakenOK)'
  <2>1. TrustedOK /\ ProgressOK /\ OvertakenOK /\ cache' = cache
    BY <1>6 DEF CacheOK
  <2>2. \A v : v \in Relied' => v \in Relied
    <3> SUFFICES ASSUME NEW v \in Relied' PROVE v \in Relied
      OBVIOUS
    <3>1. \/ v = validator'
          \/ \E f \in Slots : Waiting(f)' /\ v = fetches'[f].sent
          \/ \E f \in Slots : Answer(f, "304")' /\ v = fetches'[f].etag
      BY DEF Relied
    <3>2. CASE v = validator'
      BY <3>2, <1>6
    <3>3. ASSUME NEW f \in Slots, Waiting(f)', v = fetches'[f].sent
          PROVE  v \in Relied
      <4>1. Waiting(f) /\ GoesOn(f)
        BY <3>3, <1>1, <1>2 DEF Waiting
      <4> QED
        BY <4>1, <3>3 DEF Relied, GoesOn
    <3>4. ASSUME NEW f \in Slots, Answer(f, "304")', v = fetches'[f].etag
          PROVE  v \in Relied
      <4>1. Answer(f, "304") /\ GoesOn(f)
        BY <3>4, <1>1, <1>2 DEF Answer
      <4> QED
        BY <4>1, <3>4 DEF Relied, GoesOn
    <3> QED
      BY <3>1, <3>2, <3>3, <3>4
  <2>3. TrustedOK'
    BY <2>1, <2>2 DEF TrustedOK
  <2>4. ProgressOK'
    <3> SUFFICES ASSUME NEW f \in Slots, Newest(f)', fetches'[f].kind = "apply",
                        fetches'[f].etag = version, NEW e \in Events
                 PROVE  /\ e \in fetches'[f].events => fetches'[f].body[e] = feed[e]
                        /\ e \in fetches'[f].pruned => feed[e] = 0
                        /\ e \notin fetches'[f].events \cup fetches'[f].pruned
                            => cache[e] = feed[e]
      BY <2>1 DEF ProgressOK
    <3>1. Newest(f) /\ fetches[f].kind = "apply" /\ GoesOn(f)
      BY <1>1, <1>2
    <3> QED
      BY <3>1, <2>1 DEF ProgressOK, GoesOn
  <2>5. OvertakenOK'
    <3> SUFFICES ASSUME NEW f \in Slots, Newest(f)',
                        Answer(f, "200")' \/ fetches'[f].kind = "apply",
                        fetches'[f].etag # version
                 PROVE  version \notin Relied'
      BY DEF OvertakenOK
    <3>1. /\ Newest(f) /\ (Answer(f, "200") \/ fetches[f].kind = "apply")
          /\ fetches[f].etag # version
      BY <1>1, <1>2 DEF GoesOn, Newest
    <3>2. version \notin Relied
      BY <3>1, <2>1 DEF OvertakenOK
    <3> QED
      BY <3>2, <2>2
  <2> QED
    BY <2>3, <2>4, <2>5
<1>7. CacheOK'
  BY <1>6 DEF CacheOK
<1> QED
  BY <1>3, <1>4, <1>5, <1>7 DEF TableOK

\* refresh: a new request in a free slot; each other one is not the newest now.
LEMMA StartedIs ==
    ASSUME FeedAssumption, TypeOK, Room, NEW c \in BOOLEAN
    PROVE  \E slot \in Slots :
        /\ fetches[slot] = None
        /\ Started(c)[slot] \in FetchRecords /\ ~Started(c)[slot].late
        /\ Started(c)[slot].kind \in {"username", "sent"}
        /\ Started(c)[slot].sent = validator /\ Started(c)[slot].etag = 0
        /\ DOMAIN Started(c) = Slots /\ Started(c) = [f \in Slots |-> Started(c)[f]]
        /\ \A f \in Slots \ {slot} :
             \/ fetches[f] = None /\ Started(c)[f] = None
             \/ /\ fetches[f] \in FetchRecords
                /\ Started(c)[f] = [fetches[f] EXCEPT !.late = TRUE]
<1> DEFINE free == {f \in Slots : fetches[f] = None}
           slot == CHOOSE f \in free : \A g \in free : f <= g
           fetch == [kind |-> IF c THEN "username" ELSE "sent",
                     username |-> 0, password |-> 0, sent |-> validator, code |-> "",
                     etag |-> 0, body |-> Nothing, events |-> {}, pruned |-> {},
                     late |-> FALSE]
<1>1. slot \in free
  <2>1. free # {} /\ free \subseteq Slots
    BY DEF Room
  <2> QED
    BY <2>1, FirstFree
<1>2. slot \in Slots /\ fetches[slot] = None
  BY <1>1
<1>3. /\ fetch \in FetchRecords /\ ~fetch.late /\ fetch.kind \in {"username", "sent"}
      /\ fetch.sent = validator /\ fetch.etag = 0
  <2>1. validator \in Versions
    BY DEF TypeOK
  <2> QED
    BY <2>1, VersionNumbers DEF FetchRecords, FetchKinds
<1> HIDE DEF fetch, slot
<1>4. Started(c) = [f \in Slots |->
                      IF f = slot THEN fetch
                      ELSE IF fetches[f] = None THEN None
                      ELSE [fetches[f] EXCEPT !.late = TRUE]]
  BY DEF Started, slot, fetch
<1>5. Started(c)[slot] = fetch
  BY <1>2, <1>4
<1>6. \A f \in Slots \ {slot} :
        \/ fetches[f] = None /\ Started(c)[f] = None
        \/ /\ fetches[f] \in FetchRecords
           /\ Started(c)[f] = [fetches[f] EXCEPT !.late = TRUE]
  <2> TAKE f \in Slots \ {slot}
  <2>1. CASE fetches[f] = None
    BY <1>4, <2>1
  <2>2. CASE fetches[f] # None
    <3>1. fetches[f] \in FetchRecords
      BY <2>2, SlotIs
    <3> HIDE DEF free
    <3>2. Started(c)[f] = [fetches[f] EXCEPT !.late = TRUE]
      BY <1>4, <2>2
    <3> QED
      BY <3>1, <3>2
  <2> QED
    BY <2>1, <2>2
<1>7. DOMAIN Started(c) = Slots /\ Started(c) = [f \in Slots |-> Started(c)[f]]
  BY <1>4
<1> QED
  BY <1>2, <1>3, <1>5, <1>6, <1>7

\* A new request relies on what is relied on; it is the only newest one.
LEMMA StartingKeeps ==
    ASSUME FeedAssumption, FeedInv, Room, NEW c \in BOOLEAN, fetches' = Started(c),
           UNCHANGED <<validator, cache, feed, version, lateWrote>>, Exists' => Exists
    PROVE  /\ TableOK'
           /\ fetches' \in [Slots -> Fetches]
           /\ applying # 0 => fetches'[applying].kind = "apply"
<1> USE DEF FeedInv
<1>1. PICK slot \in Slots :
        /\ fetches[slot] = None
        /\ fetches'[slot] \in FetchRecords /\ ~fetches'[slot].late
        /\ fetches'[slot].kind \in {"username", "sent"}
        /\ fetches'[slot].sent = validator /\ fetches'[slot].etag = 0
        /\ DOMAIN fetches' = Slots /\ fetches' = [f \in Slots |-> fetches'[f]]
        /\ \A f \in Slots \ {slot} :
             \/ fetches[f] = None /\ fetches'[f] = None
             \/ /\ fetches[f] \in FetchRecords
                /\ fetches'[f] = [fetches[f] EXCEPT !.late = TRUE]
  BY StartedIs
<1>2. fetches'[slot].kind # "none" /\ ~Answer(slot, "304")' /\ ~Answer(slot, "200")'
      /\ fetches'[slot].kind # "apply" /\ Waiting(slot)'
  BY <1>1 DEF Answer, Waiting
<1>3. \A f \in Slots \ {slot} :
        /\ fetches'[f] \in Fetches
        /\ fetches'[f].kind = fetches[f].kind
        /\ fetches'[f].kind # "none" =>
             /\ fetches'[f].late /\ fetches'[f].code = fetches[f].code
             /\ fetches'[f].sent = fetches[f].sent /\ fetches'[f].etag = fetches[f].etag
             /\ fetches'[f].body = fetches[f].body
  <2> TAKE f \in Slots \ {slot}
  <2>1. CASE fetches[f] = None /\ fetches'[f] = None
    BY <2>1, Shapes
  <2>2. CASE /\ fetches[f] \in FetchRecords
             /\ fetches'[f] = [fetches[f] EXCEPT !.late = TRUE]
    <3>1. fetches'[f] \in FetchRecords
      BY <2>2 DEF FetchRecords
    <3>2. fetches'[f] \in Fetches
      BY <3>1, Shapes
    <3> QED
      BY <2>2, <3>2 DEF FetchRecords
  <2> QED
    BY <1>1, <2>1, <2>2
<1>4. \A f \in Slots \ {slot} : /\ ~Newest(f)'
                                /\ Waiting(f)' => Waiting(f)
                                /\ Answer(f, "304")' => Answer(f, "304")
                                /\ Answer(f, "200")' => Answer(f, "200")
  BY <1>3 DEF Newest, Waiting, Answer
<1>5. fetches' \in [Slots -> Fetches]
  <2>1. \A f \in Slots : fetches'[f] \in Fetches
    BY <1>1, <1>3, Shapes
  <2> QED
    BY <1>1, <2>1
<1>6. applying # 0 => fetches'[applying].kind = "apply"
  <2> SUFFICES ASSUME applying # 0 PROVE fetches'[applying].kind = "apply"
    OBVIOUS
  <2>1. applying \in Slots /\ fetches[applying].kind = "apply"
    BY DEF TypeOK
  <2>2. applying # slot
    BY <2>1, <1>1, Shapes
  <2> QED
    BY <2>1, <2>2, <1>3
<1>7. VersionsOK'
  <2>1. validator \in Relied /\ 0 <= version
    BY VersionNumbers DEF Relied, TypeOK
  <2>2. fetches'[slot].sent <= version /\ fetches'[slot].etag <= version
    BY <1>1, <2>1 DEF VersionsOK
  <2> QED
    BY <2>2, <1>3 DEF VersionsOK
<1>8. OneNewest'
  BY <1>4 DEF OneNewest
<1>9. AnswersOK'
  <2> SUFFICES ASSUME NEW f \in Slots, Answer(f, "200")', fetches'[f].etag = version
               PROVE  fetches'[f].body = feed
    BY DEF AnswersOK
  <2>1. f # slot
    BY <1>2
  <2>2. Answer(f, "200") /\ fetches'[f].kind # "none"
    BY <2>1, <1>4 DEF Answer
  <2> QED
    BY <2>1, <2>2, <1>3 DEF AnswersOK
<1>10. ASSUME Exists', ~lateWrote'
       PROVE  (TrustedOK /\ ProgressOK /\ OvertakenOK)'
  <2>1. TrustedOK
    BY <1>10 DEF CacheOK
  <2>2. \A v : v \in Relied' => v \in Relied
    <3> SUFFICES ASSUME NEW v \in Relied' PROVE v \in Relied
      OBVIOUS
    <3>1. \/ v = validator
          \/ \E f \in Slots : Waiting(f)' /\ v = fetches'[f].sent
          \/ \E f \in Slots : Answer(f, "304")' /\ v = fetches'[f].etag
      BY DEF Relied
    <3>2. CASE v = validator
      BY <3>2 DEF Relied
    <3>3. ASSUME NEW f \in Slots, Waiting(f)', v = fetches'[f].sent
          PROVE  v \in Relied
      <4>1. CASE f = slot
        BY <4>1, <3>3, <1>1 DEF Relied
      <4>2. CASE f # slot
        <5>1. Waiting(f) /\ fetches'[f].kind # "none"
          BY <4>2, <3>3, <1>4 DEF Waiting
        <5> QED
          BY <5>1, <4>2, <3>3, <1>3 DEF Relied
      <4> QED
        BY <4>1, <4>2
    <3>4. ASSUME NEW f \in Slots, Answer(f, "304")', v = fetches'[f].etag
          PROVE  v \in Relied
      <4>1. f # slot
        BY <3>4, <1>2
      <4>2. Answer(f, "304") /\ fetches'[f].kind # "none"
        BY <4>1, <3>4, <1>4 DEF Answer
      <4> QED
        BY <4>1, <4>2, <3>4, <1>3 DEF Relied
    <3> QED
      BY <3>1, <3>2, <3>3, <3>4
  <2>3. TrustedOK'
    BY <2>1, <2>2 DEF TrustedOK
  <2>4. ProgressOK' /\ OvertakenOK'
    BY <1>2, <1>4 DEF ProgressOK, OvertakenOK
  <2> QED
    BY <2>3, <2>4
<1>11. CacheOK'
  BY <1>10 DEF CacheOK
<1> QED
  BY <1>5, <1>6, <1>7, <1>8, <1>9, <1>11 DEF TableOK

\* An answer says no more of the present version than the request knew, and
\* brings the feed when it says that the cache is out of date.
LEMMA AnsweringKeeps ==
    ASSUME FeedAssumption, FeedInv, NEW f \in Slots, fetches[f].kind = "sent",
           NEW code \in {"200", "304", "401", "failed"}, NEW etag \in {0, version},
           NEW body \in Contents,
           code = "200" => etag = version /\ body = feed,
           code = "304" => etag = version /\ fetches[f].sent = version,
           fetches' = [fetches EXCEPT ![f] = Answered(fetches[f], code, etag, body)],
           UNCHANGED <<account, validator, cache, feed, version, lateWrote>>
    PROVE  /\ TableOK'
           /\ fetches' \in [Slots -> Fetches]
           /\ applying # 0 => fetches'[applying].kind = "apply"
<1> DEFINE new == Answered(fetches[f], code, etag, body)
<1> USE DEF FeedInv
<1>1. version \in Versions /\ 0 \in Versions /\ Versions \subseteq Nat
  BY VersionNumbers DEF TypeOK
<1>2. /\ new \in FetchRecords /\ new.kind = "answered" /\ new.code = code
      /\ new.etag = etag /\ new.body = body /\ new.sent = 0
      /\ new.late = fetches[f].late
  <2>1. fetches[f] \in FetchRecords
    BY SlotIs
  <2>2. etag \in Versions /\ 0 \in 0 .. MaxEntered
    BY <1>1, VersionNumbers
  <2> QED
    BY <2>1, <2>2, <1>1 DEF Answered, FetchRecords, FetchKinds
<1> HIDE DEF new
<1>3. /\ fetches'[f] = new /\ \A g \in Slots \ {f} : fetches'[g] = fetches[g]
      /\ DOMAIN fetches' = Slots /\ fetches' = [g \in Slots |-> fetches'[g]]
  BY DEF TypeOK, new
<1>4. /\ \A g \in Slots : Newest(g)' => Newest(g)
      /\ \A g \in Slots \ {f} : /\ Waiting(g)' => Waiting(g)
                                /\ Answer(g, "304")' => Answer(g, "304")
                                /\ Answer(g, "200")' => Answer(g, "200")
      /\ ~Waiting(f)' /\ fetches'[f].kind # "apply" /\ Waiting(f)
      /\ Answer(f, "304")' => code = "304"
      /\ Answer(f, "200")' => code = "200"
  BY <1>2, <1>3 DEF Newest, Waiting, Answer
<1>5. fetches' \in [Slots -> Fetches]
  <2>1. \A g \in Slots : fetches'[g] \in Fetches
    BY <1>2, <1>3, Shapes DEF TypeOK
  <2> QED
    BY <1>3, <2>1
<1>6. applying # 0 => fetches'[applying].kind = "apply"
  BY <1>3 DEF TypeOK
<1>7. VersionsOK'
  <2>1. 0 <= version
    BY <1>1
  <2>2. fetches'[f].sent <= version /\ fetches'[f].etag <= version
    BY <1>1, <1>2, <1>3, <2>1
  <2> QED
    BY <2>2, <1>3 DEF VersionsOK
<1>8. OneNewest'
  BY <1>4 DEF OneNewest
<1>9. AnswersOK'
  <2> SUFFICES ASSUME NEW g \in Slots, Answer(g, "200")', fetches'[g].etag = version
               PROVE  fetches'[g].body = feed
    BY DEF AnswersOK
  <2>1. CASE g = f
    BY <2>1, <1>2, <1>3, <1>4
  <2>2. CASE g # f
    BY <2>2, <1>3, <1>4 DEF AnswersOK
  <2> QED
    BY <2>1, <2>2
<1>10. ASSUME Exists', ~lateWrote'
       PROVE  (TrustedOK /\ ProgressOK /\ OvertakenOK)'
  <2>1. TrustedOK /\ ProgressOK /\ OvertakenOK
    BY <1>10 DEF CacheOK, Exists
  <2>2. \A v : v \in Relied' => v \in Relied
    <3> SUFFICES ASSUME NEW v \in Relied' PROVE v \in Relied
      OBVIOUS
    <3>1. \/ v = validator
          \/ \E g \in Slots : Waiting(g)' /\ v = fetches'[g].sent
          \/ \E g \in Slots : Answer(g, "304")' /\ v = fetches'[g].etag
      BY DEF Relied
    <3>2. CASE v = validator
      BY <3>2 DEF Relied
    <3>3. ASSUME NEW g \in Slots, Waiting(g)', v = fetches'[g].sent
          PROVE  v \in Relied
      BY <3>3, <1>3, <1>4 DEF Relied
    <3>4. ASSUME NEW g \in Slots, Answer(g, "304")', v = fetches'[g].etag
          PROVE  v \in Relied
      <4>1. CASE g = f
        BY <4>1, <3>4, <1>2, <1>3, <1>4 DEF Relied
      <4>2. CASE g # f
        BY <4>2, <3>4, <1>3, <1>4 DEF Relied
      <4> QED
        BY <4>1, <4>2
    <3> QED
      BY <3>1, <3>2, <3>3, <3>4
  <2>3. TrustedOK'
    BY <2>1, <2>2 DEF TrustedOK
  <2>4. ProgressOK'
    <3> SUFFICES ASSUME NEW g \in Slots, Newest(g)', fetches'[g].kind = "apply",
                        fetches'[g].etag = version, NEW e \in Events
                 PROVE  /\ e \in fetches'[g].events => fetches'[g].body[e] = feed[e]
                        /\ e \in fetches'[g].pruned => feed[e] = 0
                        /\ e \notin fetches'[g].events \cup fetches'[g].pruned
                            => cache[e] = feed[e]
      BY DEF ProgressOK
    <3>1. g # f /\ Newest(g) /\ fetches'[g] = fetches[g]
      BY <1>3, <1>4
    <3> QED
      BY <3>1, <2>1 DEF ProgressOK
  <2>5. OvertakenOK'
    <3> SUFFICES ASSUME NEW g \in Slots, Newest(g)',
                        Answer(g, "200")' \/ fetches'[g].kind = "apply",
                        fetches'[g].etag # version
                 PROVE  version \notin Relied'
      BY DEF OvertakenOK
    <3>1. g # f /\ Newest(g) /\ fetches'[g] = fetches[g]
      BY <1>2, <1>3, <1>4
    <3>2. version \notin Relied
      BY <3>1, <1>4, <2>1 DEF OvertakenOK
    <3> QED
      BY <3>2, <2>2
  <2> QED
    BY <2>3, <2>4, <2>5
<1>11. CacheOK'
  BY <1>10 DEF CacheOK
<1> QED
  BY <1>5, <1>6, <1>7, <1>8, <1>9, <1>11 DEF TableOK

\* prepareFeed of an answer, for a subscription that is still there.
LEMMA PreparingKeeps ==
    ASSUME FeedAssumption, FeedInv, NEW f \in Slots, Modified(f), Exists
    PROVE  /\ TableOK'
           /\ fetches' \in [Slots -> Fetches]
           /\ applying' \in Slots /\ fetches'[applying'].kind = "apply"
<1> DEFINE shown == {e \in Events : fetches[f].body[e] # 0}
           gone == {e \in Events : cache[e] # 0 /\ fetches[f].body[e] = 0}
           new == [fetches[f] EXCEPT !.kind = "apply", !.code = "",
                                     !.events = shown, !.pruned = gone]
<1> USE DEF FeedInv
<1>1. /\ fetches' = [fetches EXCEPT ![f] = new] /\ applying' = f
      /\ UNCHANGED <<account, validator, cache, feed, version, lateWrote>>
      /\ Answer(f, "200")
  BY DEF Modified, Answer, served
<1>2. fetches[f] \in FetchRecords
  BY <1>1, SlotIs DEF Answer
<1>3. /\ new \in FetchRecords /\ new.kind = "apply" /\ new.code = ""
      /\ new.sent = fetches[f].sent /\ new.etag = fetches[f].etag
      /\ new.body = fetches[f].body /\ new.late = fetches[f].late
      /\ new.events = shown /\ new.pruned = gone
  <2>1. shown \in SUBSET Events /\ gone \in SUBSET Events
    OBVIOUS
  <2> HIDE DEF shown, gone
  <2> QED
    BY <1>2, <2>1 DEF FetchRecords, FetchKinds
<1> HIDE DEF new
<1>4. /\ fetches'[f] = new /\ \A g \in Slots \ {f} : fetches'[g] = fetches[g]
      /\ DOMAIN fetches' = Slots /\ fetches' = [g \in Slots |-> fetches'[g]]
  BY <1>1 DEF TypeOK
<1>5. /\ \A g \in Slots : /\ Newest(g)' => Newest(g)
                          /\ Waiting(g)' => Waiting(g) /\ g # f
                          /\ Answer(g, "304")' => Answer(g, "304") /\ g # f
                          /\ Answer(g, "200")' => Answer(g, "200") /\ g # f
  BY <1>1, <1>3, <1>4 DEF Newest, Waiting, Answer
<1>6. fetches' \in [Slots -> Fetches]
  <2>1. \A g \in Slots : fetches'[g] \in Fetches
    BY <1>3, <1>4, Shapes DEF TypeOK
  <2> QED
    BY <1>4, <2>1
<1>7. applying' \in Slots /\ fetches'[applying'].kind = "apply"
  BY <1>1, <1>3, <1>4
<1>8. VersionsOK'
  <2>1. fetches[f].kind # "none"
    BY <1>1 DEF Answer
  <2> QED
    BY <2>1, <1>1, <1>3, <1>4 DEF VersionsOK
<1>9. OneNewest'
  BY <1>5 DEF OneNewest
<1>10. AnswersOK'
  BY <1>1, <1>4, <1>5 DEF AnswersOK
<1>11. ASSUME ~lateWrote
       PROVE  (TrustedOK /\ ProgressOK /\ OvertakenOK)'
  <2>1. TrustedOK /\ ProgressOK /\ OvertakenOK
    BY <1>11 DEF CacheOK
  <2>2. \A v : v \in Relied' => v \in Relied
    BY <1>1, <1>4, <1>5 DEF Relied
  <2>3. TrustedOK'
    BY <1>1, <2>1, <2>2 DEF TrustedOK
  <2>4. ProgressOK'
    <3> SUFFICES ASSUME NEW g \in Slots, Newest(g)', fetches'[g].kind = "apply",
                        fetches'[g].etag = version, NEW e \in Events
                 PROVE  /\ e \in fetches'[g].events => fetches'[g].body[e] = feed[e]
                        /\ e \in fetches'[g].pruned => feed[e] = 0
                        /\ e \notin fetches'[g].events \cup fetches'[g].pruned
                            => cache[e] = feed[e]
      BY <1>1 DEF ProgressOK
    <3>1. CASE g = f
      <4>1. fetches[f].body = feed /\ fetches'[f] = new
        BY <1>1, <1>3, <1>4, <3>1 DEF AnswersOK
      <4> QED
        BY <4>1, <3>1, <1>3
    <3>2. CASE g # f
      BY <3>2, <1>4, <1>5, <2>1 DEF ProgressOK
    <3> QED
      BY <3>1, <3>2
  <2>5. OvertakenOK'
    <3> SUFFICES ASSUME NEW g \in Slots, Newest(g)',
                        Answer(g, "200")' \/ fetches'[g].kind = "apply",
                        fetches'[g].etag # version
                 PROVE  version \notin Relied'
      BY <1>1 DEF OvertakenOK
    <3>1. Newest(g) /\ (Answer(g, "200") \/ fetches[g].kind = "apply")
          /\ fetches[g].etag # version
      BY <1>1, <1>3, <1>4, <1>5
    <3>2. version \notin Relied
      BY <3>1, <2>1 DEF OvertakenOK
    <3> QED
      BY <3>2, <2>2
  <2> QED
    BY <2>3, <2>4, <2>5
<1>12. CacheOK'
  BY <1>1, <1>11 DEF CacheOK, Exists
<1> QED
  BY <1>6, <1>7, <1>8, <1>9, <1>10, <1>12 DEF TableOK

\* A turn of the newest answer brings the cache nearer to the feed, or nobody
\* relies on what it leaves; a turn of another one is remembered in lateWrote.
LEMMA ApplyingKeeps ==
    ASSUME FeedAssumption, FeedInv, NEW f \in Slots, Apply(f)
    PROVE  /\ TableOK'
           /\ fetches' \in [Slots -> Fetches]
           /\ applying' \in {0} \cup Slots
           /\ applying' # 0 => fetches'[applying'].kind = "apply"
           /\ validator' \in Versions /\ cache' \in Contents
           /\ account' \in Accounts /\ Exists'
<1> USE DEF FeedInv
<1>1. fetches[f].kind = "apply" /\ Exists
  BY DEF Apply
<1>2. fetches[f] \in FetchRecords
  BY <1>1, SlotIs
<1>3. PICK saved \in Chosen(fetches[f].events), removed \in Chosen(fetches[f].pruned) :
         LET events == fetches[f].events \ saved
             pruned == fetches[f].pruned \ removed
             final == events = {} /\ pruned = {}
         IN /\ cache' = [e \in Events |-> IF e \in saved THEN fetches[f].body[e]
                                     ELSE IF e \in removed THEN 0 ELSE cache[e]]
            /\ validator' = IF final THEN fetches[f].etag ELSE validator
            /\ applying' = IF final /\ applying = f THEN 0 ELSE applying
            /\ CASE final /\ applying = f -> Finish(f, "connected")
                 [] final /\ applying # f -> Drop(f)
                 [] OTHER ->
                      /\ fetches' = [fetches EXCEPT ![f].events = events,
                           ![f].pruned = pruned,
                           ![f].body = [e \in Events |-> IF e \in saved THEN 0 ELSE @[e]]]
                      /\ UNCHANGED <<account, refreshing>>
  BY DEF Apply
<1> saved \subseteq fetches[f].events /\ removed \subseteq fetches[f].pruned
  BY DEF Chosen
<1> DEFINE events == fetches[f].events \ saved
           pruned == fetches[f].pruned \ removed
           final == events = {} /\ pruned = {}
           body == [e \in Events |-> IF e \in saved THEN 0 ELSE fetches[f].body[e]]
           new == [fetches[f] EXCEPT !.events = events, !.pruned = pruned, !.body = body]
<1>4. /\ lateWrote' = (lateWrote \/ fetches[f].late)
      /\ UNCHANGED <<feed, version>>
  BY DEF Apply, served
<1>5. /\ validator \in Versions /\ cache \in Contents /\ fetches[f].etag \in Versions
      /\ fetches[f].body \in Contents /\ 0 \in Versions
  BY <1>2, VersionNumbers DEF TypeOK, FetchRecords
<1>6. /\ new \in FetchRecords /\ new.kind = "apply" /\ new.etag = fetches[f].etag
      /\ new.sent = fetches[f].sent /\ new.late = fetches[f].late
      /\ new.events = events /\ new.pruned = pruned /\ new.body = body
  <2>1. body \in Contents
    BY <1>5 DEF Contents
  <2>2. events \in SUBSET Events /\ pruned \in SUBSET Events
    BY <1>2 DEF FetchRecords
  <2> HIDE DEF body, events, pruned
  <2> QED
    BY <1>1, <1>2, <2>1, <2>2 DEF FetchRecords
<1>7. /\ cache' = [e \in Events |-> IF e \in saved THEN fetches[f].body[e]
                                     ELSE IF e \in removed THEN 0 ELSE cache[e]]
      /\ validator' = IF final THEN fetches[f].etag ELSE validator
      /\ applying' = IF final /\ applying = f THEN 0 ELSE applying
  BY <1>3
<1>8. \/ final /\ fetches' = [fetches EXCEPT ![f] = None]
      \/ ~final /\ fetches' = [fetches EXCEPT ![f] = new]
  <2>1. [fetches EXCEPT ![f].events = events, ![f].pruned = pruned,
           ![f].body = [e \in Events |-> IF e \in saved THEN 0 ELSE @[e]]]
        = [fetches EXCEPT ![f] = new]
    BY DEF TypeOK
  <2> HIDE DEF new
  <2>2. CASE final /\ applying = f
    BY <2>2, <1>3 DEF Finish
  <2>3. CASE final /\ applying # f
    BY <2>3, <1>3 DEF Drop
  <2>4. CASE ~final
    BY <2>4, <1>3, <2>1
  <2> QED
    BY <2>2, <2>3, <2>4
<1>9. account' = account \/ account' = WithStatus("connected")
  BY <1>3 DEF Finish, Drop
<1>10. account' \in Accounts /\ Exists'
  BY <1>1, <1>9, WithStatusIs DEF Exists, TypeOK, Statuses
<1> HIDE DEF new, final, events, pruned, body
<1>11. /\ (fetches'[f] = None /\ final) \/ (fetches'[f] = new /\ ~final)
       /\ \A g \in Slots \ {f} : fetches'[g] = fetches[g]
       /\ DOMAIN fetches' = Slots /\ fetches' = [g \in Slots |-> fetches'[g]]
  BY <1>8 DEF TypeOK
<1>12. \A g \in Slots : /\ Newest(g)' => Newest(g)
                        /\ Waiting(g)' => Waiting(g) /\ g # f
                        /\ Answer(g, "304")' => Answer(g, "304") /\ g # f
                        /\ Answer(g, "200")' => Answer(g, "200") /\ g # f
  BY <1>1, <1>6, <1>11, Shapes DEF Newest, Waiting, Answer
<1>13. fetches' \in [Slots -> Fetches]
  <2>1. \A g \in Slots : fetches'[g] \in Fetches
    BY <1>6, <1>11, Shapes DEF TypeOK
  <2> QED
    BY <1>11, <2>1
<1>14. applying' \in {0} \cup Slots
       /\ (applying' # 0 => fetches'[applying'].kind = "apply")
  <2>1. applying \in {0} \cup Slots /\ (applying # 0 => fetches[applying].kind = "apply")
    BY DEF TypeOK
  <2>2. applying' = 0 \/ (applying' = applying /\ (applying = f => ~final))
    BY <1>7
  <2>3. CASE applying' = 0
    BY <2>3
  <2>4. CASE applying' = applying /\ applying = f /\ ~final
    BY <2>4, <1>6, <1>11
  <2>5. CASE applying' = applying /\ applying # f
    BY <2>5, <2>1, <1>11
  <2> QED
    BY <2>2, <2>3, <2>4, <2>5
<1>15. validator' \in Versions /\ cache' \in Contents
  <2>1. validator' \in Versions
    BY <1>5, <1>7
  <2>2. \A e \in Events : cache'[e] \in Versions
    BY <1>5, <1>7 DEF Contents
  <2>3. cache' = [e \in Events |-> cache'[e]]
    BY <1>7
  <2> QED
    BY <2>1, <2>2, <2>3 DEF Contents
<1>16. VersionsOK'
  <2>1. fetches[f].etag <= version /\ fetches[f].sent <= version
    BY <1>1 DEF VersionsOK
  <2>2. validator' <= version
    BY <2>1, <1>7 DEF VersionsOK
  <2>3. \A g \in Slots : fetches'[g].kind # "none" =>
           fetches'[g].sent <= version /\ fetches'[g].etag <= version
    <3> TAKE g \in Slots
    <3>1. CASE g = f
      BY <3>1, <2>1, <1>6, <1>11, Shapes
    <3>2. CASE g # f
      BY <3>2, <1>11 DEF VersionsOK
    <3> QED
      BY <3>1, <3>2
  <2> QED
    BY <2>2, <2>3, <1>4 DEF VersionsOK
<1>17. OneNewest'
  BY <1>12 DEF OneNewest
<1>18. AnswersOK'
  BY <1>4, <1>11, <1>12 DEF AnswersOK
<1>19. ASSUME ~lateWrote'
       PROVE  (TrustedOK /\ ProgressOK /\ OvertakenOK)'
  <2>1. /\ TrustedOK /\ ProgressOK /\ OvertakenOK
        /\ Newest(f)
    BY <1>1, <1>4, <1>19 DEF CacheOK, Newest
  <2>2. \A g \in Slots : Newest(g)' => g = f
    BY <2>1, <1>12 DEF OneNewest
  <2>3. \A v : v \in Relied' => v \in Relied \/ v = validator'
    BY <1>11, <1>12 DEF Relied
  <2>4. validator' \in Relied \/ (final /\ validator' = fetches[f].etag)
    BY <1>7 DEF Relied
  <2>5. CASE fetches[f].etag # version
    <3>1. version \notin Relied
      BY <2>1, <2>5, <1>1 DEF OvertakenOK
    <3>2. version \notin Relied'
      BY <3>1, <2>3, <2>4, <2>5
    <3>3. TrustedOK' /\ OvertakenOK'
      BY <3>2, <1>4 DEF TrustedOK, OvertakenOK
    <3>4. ProgressOK'
      <4>1. \A g \in Slots : ~(Newest(g)' /\ fetches'[g].etag = version)
        BY <2>2, <2>5, <1>6, <1>11, Shapes DEF Newest
      <4> QED
        BY <4>1, <1>4 DEF ProgressOK
    <3> QED
      BY <3>3, <3>4
  <2>6. CASE fetches[f].etag = version
    <3>1. \A e \in Events :
            /\ e \in fetches[f].events => fetches[f].body[e] = feed[e]
            /\ e \in fetches[f].pruned => feed[e] = 0
            /\ e \notin fetches[f].events \cup fetches[f].pruned => cache[e] = feed[e]
      BY <1>1, <2>1, <2>6 DEF ProgressOK
    <3>2. \A e \in Events : cache'[e] = IF e \in saved THEN fetches[f].body[e]
                                        ELSE IF e \in removed THEN 0 ELSE cache[e]
      BY <1>7
    <3>3. \A e \in Events : cache'[e] = feed[e] \/ cache'[e] = cache[e]
      BY <3>1, <3>2
    <3>4. \A e \in Events : e \notin events \cup pruned => cache'[e] = feed[e]
      BY <3>1, <3>2 DEF events, pruned
    <3>5. (\A e \in Events : cache'[e] = feed[e]) => cache' = feed
      <4>1. feed \in [Events -> Versions] /\ cache' \in [Events -> Versions]
        BY <1>15 DEF TypeOK, Contents
      <4> QED
        BY <4>1
    <3>6. TrustedOK'
      <4> SUFFICES ASSUME version \in Relied' PROVE cache' = feed
        BY <1>4 DEF TrustedOK
      <4>1. CASE version \in Relied
        <5>1. cache = feed
          BY <4>1, <2>1 DEF TrustedOK
        <5> QED
          BY <5>1, <3>3, <3>5
      <4>2. CASE final
        BY <4>2, <3>4, <3>5 DEF final
      <4> QED
        BY <4>1, <4>2, <2>3, <2>4
    <3>7. ProgressOK'
      <4> SUFFICES ASSUME Newest(f)', fetches'[f].kind = "apply",
                          fetches'[f].etag = version, NEW e \in Events
                   PROVE  /\ e \in fetches'[f].events => fetches'[f].body[e] = feed[e]
                          /\ e \in fetches'[f].pruned => feed[e] = 0
                          /\ e \notin fetches'[f].events \cup fetches'[f].pruned
                              => cache'[e] = feed[e]
        BY <2>2, <1>4 DEF ProgressOK
      <4>1. /\ fetches'[f].events = events /\ fetches'[f].pruned = pruned
            /\ fetches'[f].body = body
        BY <1>6, <1>11, Shapes
      <4>2. e \in events => body[e] = feed[e]
        BY <3>1 DEF events, body
      <4>3. e \in pruned => feed[e] = 0
        BY <3>1 DEF pruned
      <4> QED
        BY <3>4, <4>1, <4>2, <4>3
    <3>8. OvertakenOK'
      <4>1. \A g \in Slots : Newest(g)' => fetches'[g].etag = version
        BY <2>2, <2>6, <1>6, <1>11, Shapes DEF Newest
      <4> QED
        BY <4>1, <1>4 DEF OvertakenOK
    <3> QED
      BY <3>6, <3>7, <3>8
  <2> QED
    BY <2>5, <2>6
<1>20. CacheOK'
  BY <1>19 DEF CacheOK
<1> QED
  BY <1>10, <1>13, <1>14, <1>15, <1>16, <1>17, <1>18, <1>20 DEF TableOK

\* Nobody relies on a version of the feed that has only just appeared.
LEMMA ChangingKeeps ==
    ASSUME FeedAssumption, FeedInv, FeedChanges
    PROVE  TableOK' /\ version' \in Versions /\ feed' \in Contents
<1> USE DEF FeedInv
<1>1. /\ version < MaxVersion /\ version' = version + 1
      /\ UNCHANGED <<account, validator, cache, fetches, lateWrote>>
  BY DEF FeedChanges
<1>2. version \in Nat /\ MaxVersion \in Nat /\ version' \in Versions
  BY <1>1, VersionNumbers DEF TypeOK, FeedAssumption, Versions
<1>3. feed' \in Contents
  <2>1. 0 \in Versions
    BY VersionNumbers
  <2> QED
    BY <2>1, <1>2 DEF FeedChanges, Contents
<1>4. validator <= version /\ validator \in Nat
  BY VersionNumbers DEF VersionsOK, TypeOK
<1>5. \A f \in Slots : fetches[f].kind # "none" =>
         /\ fetches[f].sent <= version /\ fetches[f].etag <= version
         /\ fetches[f].sent \in Nat /\ fetches[f].etag \in Nat
  <2> SUFFICES ASSUME NEW f \in Slots, fetches[f].kind # "none"
               PROVE  /\ fetches[f].sent <= version /\ fetches[f].etag <= version
                      /\ fetches[f].sent \in Nat /\ fetches[f].etag \in Nat
    OBVIOUS
  <2>1. fetches[f] \in FetchRecords
    BY SlotIs
  <2>2. fetches[f].sent \in Versions /\ fetches[f].etag \in Versions
    BY <2>1 DEF FetchRecords
  <2> QED
    BY <2>2, VersionNumbers DEF VersionsOK
<1>6. VersionsOK'
  <2>1. validator <= version' /\ version' # 0
    BY <1>1, <1>2, <1>4
  <2>2. \A f \in Slots : fetches[f].kind # "none" =>
           fetches[f].sent <= version' /\ fetches[f].etag <= version'
    BY <1>1, <1>2, <1>5
  <2> QED
    BY <2>1, <2>2, <1>1 DEF VersionsOK
<1>7. OneNewest'
  BY <1>1 DEF OneNewest, Newest
<1>8. \A f \in Slots : fetches[f].kind # "none" =>
         fetches[f].sent # version' /\ fetches[f].etag # version'
  BY <1>1, <1>2, <1>5
<1>9. AnswersOK'
  BY <1>1, <1>8 DEF AnswersOK, Answer
<1>10. version' \notin Relied'
  <2>1. validator # version'
    BY <1>1, <1>2, <1>4
  <2> QED
    BY <2>1, <1>1, <1>8 DEF Relied, Waiting, Answer
<1>11. TrustedOK' /\ OvertakenOK'
  BY <1>10 DEF TrustedOK, OvertakenOK
<1>12. ProgressOK'
  BY <1>1, <1>8 DEF ProgressOK, Newest
<1> QED
  BY <1>2, <1>3, <1>6, <1>7, <1>9, <1>11, <1>12 DEF TableOK, CacheOK
-----------------------------------------------------------------------------
(* The invariant through each step of a request.                            *)

\* A request that ends leaves its slot, and the others as they are.
LEMMA EndingIs ==
    ASSUME TypeOK, NEW f \in Slots, fetches' = [fetches EXCEPT ![f] = None]
    PROVE  /\ fetches' \in [Slots -> Fetches]
           /\ fetches'[f] = None /\ \A g \in Slots \ {f} : fetches'[g] = fetches[g]
           /\ \A g \in Slots : fetches'[g].kind = "none" \/ GoesOn(g)
<1>1. fetches' \in [Slots -> Fetches]
  BY Shapes DEF TypeOK
<1>2. fetches'[f] = None /\ \A g \in Slots \ {f} : fetches'[g] = fetches[g]
  BY DEF TypeOK
<1>3. fetches'[f].kind = "none"
  BY <1>2, Shapes
<1>4. \A g \in Slots \ {f} : fetches'[g].kind = "none" \/ GoesOn(g)
  BY <1>2 DEF GoesOn
<1> QED
  BY <1>1, <1>2, <1>3, <1>4

\* What the handlers of a request leave alone, and what they must see to.
LEMMA RequestStep ==
    ASSUME FeedAssumption, FeedInv, NEW f \in Slots, fetches[f].kind # "none",
           UNCHANGED <<hasCredentials, keyring, secret, served, entered, commands>>,
           faults' \in 0 .. MaxFaults, account' \in Accounts, Exists' <=> Exists,
           refreshing' \in BOOLEAN, lateWrote' \in BOOLEAN,
           validator' \in Versions, cache' \in Contents,
           Exists \/ UNCHANGED <<validator, cache>>,
           fetches' \in [Slots -> Fetches], applying' \in {0} \cup Slots,
           applying' # 0 => fetches'[applying'].kind = "apply",
           TableOK'
    PROVE  FeedInv'
<1>1. TypeOK'
  BY DEF FeedInv, TypeOK, served
<1>2. SubscriptionOK'
  BY DEF FeedInv, SubscriptionOK, RemovedLeavesNothing, Exists
<1>3. FirstOK'
  BY Begun DEF FirstOK
<1> QED
  BY <1>1, <1>2, <1>3 DEF FeedInv, TableOK

\* A request ends; a validator that is saved with that is one relied on.
LEMMA RequestEnds ==
    ASSUME FeedAssumption, FeedInv, NEW f \in Slots, fetches[f].kind # "none",
           UNCHANGED <<hasCredentials, keyring, secret, served, entered, commands,
                       cache, lateWrote>>,
           faults' \in 0 .. MaxFaults,
           validator' \in Relied, Exists \/ validator' = validator,
           NEW status \in Statuses \cup {""}, Finish(f, status) \/ Drop(f),
           applying' = (IF applying = f THEN 0 ELSE applying)
    PROVE  FeedInv'
<1>1. fetches' = [fetches EXCEPT ![f] = None]
  BY DEF Finish, Drop
<1>2. /\ fetches' \in [Slots -> Fetches]
      /\ fetches'[f] = None /\ \A g \in Slots \ {f} : fetches'[g] = fetches[g]
      /\ \A g \in Slots : fetches'[g].kind = "none" \/ GoesOn(g)
  BY <1>1, EndingIs DEF FeedInv
<1>3. account' \in Accounts /\ (Exists' <=> Exists) /\ refreshing' \in BOOLEAN
  <2>1. account \in Accounts /\ refreshing \in BOOLEAN
    BY DEF FeedInv, TypeOK
  <2>2. CASE Finish(f, status)
    BY <2>1, <2>2, WithStatusIs DEF Finish, Exists
  <2>3. CASE Drop(f)
    BY <2>1, <2>3 DEF Drop, Exists
  <2> QED
    BY <2>2, <2>3
<1>4. TableOK'
  <2>1. UNCHANGED <<feed, version, lateWrote>>
    BY DEF served
  <2> QED
    BY <1>2, <1>3, <2>1, GoingOnKeeps
<1>5. /\ applying' \in {0} \cup Slots
      /\ applying' # 0 => fetches'[applying'].kind = "apply"
  BY <1>2 DEF FeedInv, TypeOK
<1>6. validator' \in Versions /\ cache' \in Contents /\ lateWrote' \in BOOLEAN
  BY ReliedIsKnown DEF FeedInv, TypeOK
<1> QED
  BY <1>2, <1>3, <1>4, <1>5, <1>6, RequestStep

\* The saved validator is one of those relied on.
LEMMA SavedIsRelied ==
    validator \in Relied
  BY DEF Relied

\* The lookups of refresh.
LEMMA LookupStep ==
    ASSUME FeedAssumption, FeedInv, NEW f \in Slots,
           Lookup(f) \/ LookupFails(f)
    PROVE  FeedInv'
<1> DEFINE kind == fetches[f].kind
           value == keyring[kind]
           next == IF kind = "username" THEN "password" ELSE "sent"
           new == [fetches[f] EXCEPT !.kind = next, ![kind] = value]
<1>1. /\ kind \in Kinds /\ kind # "none" /\ kind # "apply"
      /\ UNCHANGED <<hasCredentials, validator, cache, keyring, secret, applying,
                     served, entered, commands, lateWrote>>
  BY DEF Lookup, LookupFails, Kinds, bounds
<1>2. faults' \in 0 .. MaxFaults
  BY FaultBound DEF FeedInv, Lookup, LookupFails, bounds
<1>3. applying # f
  BY <1>1 DEF FeedInv, TypeOK, Slots
<1>4. ASSUME Finish(f, "reauthorization_required") \/ Drop(f)
      PROVE  FeedInv'
  <2>1. "reauthorization_required" \in Statuses \cup {""}
    BY DEF Statuses
  <2>2. validator' \in Relied
    BY <1>1, SavedIsRelied
  <2> HIDE DEF kind
  <2> QED
    BY <1>1, <1>2, <1>3, <1>4, <2>1, <2>2, RequestEnds DEF kind
<1>5. ASSUME fetches' = [fetches EXCEPT ![f].kind = next, ![f][kind] = value],
             UNCHANGED <<account, refreshing>>
      PROVE  FeedInv'
  <2>1. fetches[f] \in FetchRecords
    BY <1>1, SlotIs DEF FeedInv
  <2>2. value \in 0 .. MaxEntered
    BY <1>1 DEF FeedInv, TypeOK
  <2>3. /\ fetches'[f] \in FetchRecords /\ fetches'[f].kind = next
        /\ fetches'[f].sent = fetches[f].sent /\ fetches'[f].code = fetches[f].code
        /\ fetches'[f].etag = fetches[f].etag /\ fetches'[f].body = fetches[f].body
        /\ fetches'[f].events = fetches[f].events
        /\ fetches'[f].pruned = fetches[f].pruned /\ fetches'[f].late = fetches[f].late
    <3>1. CASE kind = "username"
      <4>1. fetches'[f] = [fetches[f] EXCEPT !.kind = "password", !.username = value]
        BY <1>5, <3>1 DEF FeedInv, TypeOK
      <4> HIDE DEF value
      <4> QED
        BY <2>1, <2>2, <3>1, <4>1 DEF FetchRecords, FetchKinds
    <3>2. CASE kind = "password"
      <4>1. fetches'[f] = [fetches[f] EXCEPT !.kind = "sent", !.password = value]
        BY <1>5, <3>2 DEF FeedInv, TypeOK
      <4> HIDE DEF value
      <4> QED
        BY <2>1, <2>2, <3>2, <4>1 DEF FetchRecords, FetchKinds
    <3> QED
      BY <1>1, <3>1, <3>2 DEF Kinds
  <2>4. /\ \A g \in Slots \ {f} : fetches'[g] = fetches[g]
        /\ DOMAIN fetches' = Slots /\ fetches' = [g \in Slots |-> fetches'[g]]
    BY <1>5 DEF FeedInv, TypeOK
  <2>5. fetches' \in [Slots -> Fetches]
    <3>1. \A g \in Slots : fetches'[g] \in Fetches
      BY <2>3, <2>4, Shapes DEF FeedInv, TypeOK
    <3> QED
      BY <2>4, <3>1
  <2>6. \A g \in Slots : fetches'[g].kind = "none" \/ GoesOn(g)
    BY <1>1, <2>3, <2>4 DEF GoesOn
  <2>7. applying' # 0 => fetches'[applying'].kind = "apply"
    BY <1>1, <1>3, <2>4 DEF FeedInv, TypeOK
  <2>8. Exists' <=> Exists
    BY <1>5 DEF Exists
  <2>9. UNCHANGED <<feed, version, lateWrote, validator, cache>> /\ validator \in Relied
    BY <1>1, SavedIsRelied DEF served
  <2>10. TableOK'
    BY <2>6, <2>8, <2>9, GoingOnKeeps
  <2>11. /\ account' \in Accounts /\ refreshing' \in BOOLEAN /\ lateWrote' \in BOOLEAN
         /\ validator' \in Versions /\ cache' \in Contents /\ applying' \in {0} \cup Slots
    BY <1>1, <1>5 DEF FeedInv, TypeOK
  <2> QED
    BY <1>1, <1>2, <2>5, <2>7, <2>8, <2>10, <2>11, RequestStep
<1>6. CASE Lookup(f)
  <2> HIDE DEF next
  <2>1. CASE ~refreshing
    BY <1>4, <1>6, <2>1 DEF Lookup
  <2>2. CASE refreshing /\ value = 0
    BY <1>4, <1>6, <2>2 DEF Lookup
  <2>3. CASE refreshing /\ value # 0
    BY <1>5, <1>6, <2>3 DEF Lookup, next
  <2> QED
    BY <2>1, <2>2, <2>3
<1>7. CASE LookupFails(f)
  BY <1>4, <1>7 DEF LookupFails
<1> QED
  BY <1>6, <1>7

\* The server's answer, or none.
LEMMA AnswerStep ==
    ASSUME FeedAssumption, FeedInv, NEW f \in Slots, Serve(f) \/ RequestFails(f)
    PROVE  FeedInv'
<1>1. /\ fetches[f].kind = "sent" /\ fetches[f].kind # "none"
      /\ UNCHANGED <<account, hasCredentials, validator, cache, keyring, secret,
                     refreshing, applying, served, entered, commands, lateWrote>>
  BY DEF Serve, RequestFails, bounds
<1>2. faults' \in 0 .. MaxFaults
  BY FaultBound DEF FeedInv, Serve, RequestFails, bounds
<1>3. \E code \in {"200", "304", "401", "failed"}, etag \in {0, version},
         body \in Contents :
        /\ code = "200" => etag = version /\ body = feed
        /\ code = "304" => etag = version /\ fetches[f].sent = version
        /\ fetches' = [fetches EXCEPT ![f] = Answered(fetches[f], code, etag, body)]
  <2>1. feed \in Contents /\ Nothing \in Contents
    BY VersionNumbers DEF FeedInv, TypeOK
  <2>2. CASE RequestFails(f)
    BY <2>1, <2>2 DEF RequestFails
  <2>3. CASE Serve(f)
    <3> DEFINE accepted == Accepts(fetches[f].username, fetches[f].password)
    <3>1. CASE ~accepted
      <4>1. fetches' = [fetches EXCEPT ![f] = Answered(fetches[f], "401", 0, Nothing)]
        BY <2>3, <3>1 DEF Serve
      <4> QED
        BY <4>1, <2>1
    <3>2. CASE accepted /\ fetches[f].sent = version
      <4>1. fetches' =
              [fetches EXCEPT ![f] = Answered(fetches[f], "304", version, Nothing)]
        BY <2>3, <3>2 DEF Serve
      <4> QED
        BY <4>1, <2>1, <3>2
    <3>3. CASE accepted /\ fetches[f].sent # version
      <4>1. fetches' = [fetches EXCEPT ![f] = Answered(fetches[f], "200", version, feed)]
        BY <2>3, <3>3 DEF Serve
      <4> QED
        BY <4>1, <2>1
    <3> QED
      BY <3>1, <3>2, <3>3
  <2> QED
    BY <2>2, <2>3
<1>4. UNCHANGED <<account, validator, cache, feed, version, lateWrote>>
  BY <1>1 DEF served
<1>5. /\ TableOK'
      /\ fetches' \in [Slots -> Fetches]
      /\ applying # 0 => fetches'[applying].kind = "apply"
  BY <1>1, <1>3, <1>4, AnsweringKeeps
<1>6. /\ account' \in Accounts /\ refreshing' \in BOOLEAN /\ lateWrote' \in BOOLEAN
      /\ validator' \in Versions /\ cache' \in Contents /\ applying' \in {0} \cup Slots
      /\ (Exists' <=> Exists)
  BY <1>1 DEF FeedInv, TypeOK, Exists
<1> QED
  BY <1>1, <1>2, <1>4, <1>5, <1>6, RequestStep

\* The finished handler of beginFetch, and the timer of ChunkedSyncApply.
LEMMA HandleStep ==
    ASSUME FeedAssumption, FeedInv, NEW f \in Slots,
           \/ Rejected(f) \/ NotModified(f) \/ Modified(f)
           \/ Apply(f) \/ CalendarGone(f) \/ ApplyFails(f)
    PROVE  FeedInv'
<1> USE DEF FeedInv
<1>1. /\ UNCHANGED <<hasCredentials, keyring, secret, served, entered, commands>>
      /\ fetches[f].kind # "none"
  BY DEF Rejected, NotModified, Modified, Apply, CalendarGone, ApplyFails, Abandoned,
         bounds
<1>2. faults' \in 0 .. MaxFaults
  <2>1. UNCHANGED faults \/ \E kind : Fault(kind)
    BY DEF Rejected, NotModified, Modified, Apply, CalendarGone, ApplyFails, bounds
  <2> QED
    BY <2>1, FaultBound
<1>3. fetches[f].kind # "apply" => applying # f
  BY DEF TypeOK, Slots
<1>4. "" \in Statuses \cup {""} /\ "connected" \in Statuses \cup {""}
      /\ "reauthorization_required" \in Statuses \cup {""}
  BY DEF Statuses
<1>5. CASE Rejected(f)
  <2>1. /\ fetches[f].kind # "apply"
        /\ UNCHANGED <<applying, cache, lateWrote, validator>>
        /\ \E status \in Statuses \cup {""} : Finish(f, status)
    BY <1>4, <1>5 DEF Rejected
  <2> QED
    BY <1>1, <1>2, <1>3, <2>1, SavedIsRelied, RequestEnds
<1>6. CASE NotModified(f)
  <2>1. /\ fetches[f].kind # "apply" /\ Answer(f, "304")
        /\ UNCHANGED <<applying, cache, lateWrote>> /\ Finish(f, "connected")
        /\ validator' = IF Exists THEN fetches[f].etag ELSE validator
    BY <1>6 DEF NotModified, Answer
  <2>2. validator' \in Relied /\ (Exists \/ validator' = validator)
    BY <2>1, SavedIsRelied DEF Relied
  <2> QED
    BY <1>1, <1>2, <1>3, <1>4, <2>1, <2>2, RequestEnds
<1>7. CASE Modified(f) /\ ~Exists
  <2>1. /\ fetches[f].kind # "apply" /\ Finish(f, "")
        /\ UNCHANGED <<applying, cache, lateWrote, validator>>
    BY <1>7 DEF Modified
  <2> QED
    BY <1>1, <1>2, <1>3, <1>4, <2>1, SavedIsRelied, RequestEnds
<1>8. CASE Modified(f) /\ Exists
  <2>1. /\ UNCHANGED <<account, refreshing, validator, cache, lateWrote>>
    BY <1>8 DEF Modified
  <2>2. /\ TableOK' /\ fetches' \in [Slots -> Fetches]
        /\ applying' \in Slots /\ fetches'[applying'].kind = "apply"
    BY <1>8, PreparingKeeps
  <2>3. /\ account' \in Accounts /\ refreshing' \in BOOLEAN /\ lateWrote' \in BOOLEAN
        /\ validator' \in Versions /\ cache' \in Contents /\ (Exists' <=> Exists)
    BY <2>1 DEF TypeOK, Exists
  <2> QED
    BY <1>1, <1>2, <2>1, <2>2, <2>3, RequestStep
<1>9. CASE Apply(f)
  <2>1. Exists /\ lateWrote' = (lateWrote \/ fetches[f].late)
    BY <1>9 DEF Apply
  <2>2. fetches[f] \in FetchRecords
    BY <1>1, SlotIs
  <2>3. lateWrote' \in BOOLEAN
    BY <2>1
  <2>4. refreshing' \in BOOLEAN
    <3>1. refreshing' = FALSE \/ refreshing' = refreshing
      BY <1>9 DEF Apply, Finish, Drop
    <3> QED
      BY <3>1 DEF TypeOK
  <2> QED
    BY <1>1, <1>2, <1>9, <2>1, <2>3, <2>4, ApplyingKeeps, RequestStep
<1>10. CASE CalendarGone(f) \/ ApplyFails(f)
  <2>1. /\ UNCHANGED <<cache, lateWrote, validator>>
        /\ applying' = (IF applying = f THEN 0 ELSE applying)
        /\ Finish(f, "") \/ Drop(f)
    BY <1>10 DEF CalendarGone, ApplyFails, Abandoned
  <2> QED
    BY <1>1, <1>2, <1>4, <2>1, SavedIsRelied, RequestEnds
<1> QED
  BY <1>5, <1>6, <1>7, <1>8, <1>9, <1>10
-----------------------------------------------------------------------------
(* The invariant through the steps of the credentials, the user and time.   *)

\* Steps that touch no request.
LEMMA QuietKeeps ==
    ASSUME FeedAssumption, FeedInv,
           UNCHANGED <<validator, cache, fetches, feed, version, lateWrote>>,
           Exists' => Exists
    PROVE  TableOK'
<1>1. \A f \in Slots : fetches'[f].kind = "none" \/ GoesOn(f)
  BY DEF GoesOn
<1> QED
  BY <1>1, SavedIsRelied, GoingOnKeeps

\* refresh, of a feed that is not being requested.
LEMMA RefreshStep ==
    ASSUME FeedAssumption, FeedInv, Refresh
    PROVE  FeedInv'
<1>1. /\ Exists /\ Room /\ fetches' = Started(hasCredentials) /\ refreshing' = TRUE
      /\ UNCHANGED <<account, hasCredentials, validator, cache, keyring, secret,
                     applying, served, bounds, lateWrote>>
  BY DEF Refresh
<1>2. hasCredentials \in BOOLEAN
  BY DEF FeedInv, TypeOK
<1>3. UNCHANGED <<feed, version>> /\ (Exists' <=> Exists)
  BY <1>1 DEF served, Exists
<1>4. /\ TableOK'
      /\ fetches' \in [Slots -> Fetches]
      /\ applying # 0 => fetches'[applying].kind = "apply"
  BY <1>1, <1>2, <1>3, StartingKeeps
<1>5. TypeOK'
  BY <1>1, <1>4 DEF FeedInv, TypeOK, served, bounds
<1>6. SubscriptionOK'
  BY <1>1, <1>3 DEF FeedInv, SubscriptionOK, RemovedLeavesNothing
<1>7. FirstOK'
  BY <1>1, Begun DEF FirstOK, bounds
<1> QED
  BY <1>4, <1>5, <1>6, <1>7 DEF FeedInv, TableOK

\* What the operations at the keyring leave alone, and what they must see to.
LEMMA SecretStep ==
    ASSUME FeedAssumption, FeedInv,
           UNCHANGED <<validator, cache, refreshing, applying, fetches, served,
                       entered, commands, lateWrote>>,
           faults' \in 0 .. MaxFaults, keyring' \in [Kinds -> 0..MaxEntered],
           secret' \in Secrets, hasCredentials' \in BOOLEAN, account' \in Accounts,
           Exists' <=> Exists,
           hasCredentials' => hasCredentials /\ secret'.kind = "none",
           secret'.kind = "store" => secret.kind = "store"
    PROVE  FeedInv'
<1>1. TableOK'
  BY QuietKeeps DEF served
<1>2. TypeOK'
  BY DEF FeedInv, TypeOK, served
<1>3. SubscriptionOK'
  BY DEF FeedInv, SubscriptionOK, RemovedLeavesNothing
<1>4. FirstOK'
  BY DEF FeedInv, FirstOK
<1> QED
  BY <1>1, <1>2, <1>3, <1>4 DEF FeedInv, TableOK

\* storeSubscriptionCredentials, removeSubscriptionCredentials and the helper.
LEMMA HelperStep ==
    ASSUME FeedAssumption, FeedInv,
           HelperWorks \/ UsernameStored \/ StoreFails \/ RemovalFails
    PROVE  FeedInv'
<1> USE DEF FeedInv
<1>1. UNCHANGED <<validator, cache, refreshing, applying, fetches, served,
                  entered, commands, lateWrote>>
  BY DEF HelperWorks, UsernameStored, StoreFails, RemovalFails, bounds
<1>2. faults' \in 0 .. MaxFaults
  <2>1. UNCHANGED faults \/ \E kind : Fault(kind)
    BY DEF HelperWorks, UsernameStored, StoreFails, RemovalFails, bounds
  <2> QED
    BY <2>1, FaultBound
<1>3. /\ account \in Accounts /\ keyring \in [Kinds -> 0..MaxEntered]
      /\ hasCredentials \in BOOLEAN /\ (secret.kind # "none" => ~hasCredentials)
      /\ secret = None \/ secret \in StoreRecords \/ secret \in RemoveRecords
  BY Shapes DEF TypeOK
<1>4. /\ \A s \in StoreRecords : s.kind = "store" /\ s.of \in Kinds
                                 /\ s.value \in 1..MaxEntered
                                 /\ [s EXCEPT !.done = TRUE] \in StoreRecords
      /\ \A s \in RemoveRecords : s.kind = "remove" /\ s.of \in SUBSET Kinds
      /\ \A s \in RemoveRecords, of \in SUBSET Kinds :
            [s EXCEPT !.of = of] \in RemoveRecords
  BY DEF StoreRecords, RemoveRecords
<1>5. 0 \in 0..MaxEntered /\ 1..MaxEntered \subseteq 0..MaxEntered
  BY VersionNumbers
<1>6. CASE HelperWorks /\ secret.kind = "store"
  <2>1. secret \in StoreRecords
    BY <1>3, <1>4, <1>6, Shapes
  <2>2. /\ keyring' = [keyring EXCEPT ![secret.of] = secret.value]
        /\ secret' = [secret EXCEPT !.done = TRUE]
        /\ UNCHANGED <<account, hasCredentials>>
    BY <1>6 DEF HelperWorks
  <2>3. keyring' \in [Kinds -> 0..MaxEntered]
    BY <1>3, <1>4, <1>5, <2>1, <2>2
  <2>4. secret' \in Secrets /\ secret'.kind = "store"
    BY <1>4, <2>1, <2>2, Shapes
  <2> QED
    BY <1>1, <1>2, <1>3, <1>6, <2>2, <2>3, <2>4, SecretStep DEF Exists
<1>7. CASE HelperWorks /\ secret.kind = "remove"
  <2>1. secret \in RemoveRecords
    BY <1>3, <1>4, <1>7, Shapes
  <2>2. PICK kind \in secret.of :
          /\ keyring' = [keyring EXCEPT ![kind] = 0]
          /\ secret' = IF secret.of = {kind} THEN None
                       ELSE [secret EXCEPT !.of = secret.of \ {kind}]
          /\ UNCHANGED <<account, hasCredentials>>
    BY <1>7 DEF HelperWorks
  <2>3. keyring' \in [Kinds -> 0..MaxEntered]
    BY <1>3, <1>4, <1>5, <2>1, <2>2
  <2>4. secret' \in Secrets /\ secret'.kind # "store"
    <3>1. secret.of \ {kind} \in SUBSET Kinds
      BY <1>4, <2>1
    <3>2. [secret EXCEPT !.of = secret.of \ {kind}] \in RemoveRecords
      BY <1>4, <2>1, <3>1
    <3> QED
      BY <1>4, <2>2, <3>2, Shapes
  <2> QED
    BY <1>1, <1>2, <1>3, <1>7, <2>2, <2>3, <2>4, SecretStep DEF Exists
<1>8. CASE UsernameStored
  <2>1. secret.kind = "store" /\ secret \in StoreRecords
    BY <1>3, <1>4, <1>8, Shapes DEF UsernameStored
  <2>2. /\ secret' = Storing("password", secret.value)
        /\ UNCHANGED <<account, hasCredentials, keyring>>
    BY <1>8 DEF UsernameStored
  <2>3. secret' \in Secrets /\ secret'.kind = "store"
    <3>1. secret' \in StoreRecords
      BY <1>4, <2>1, <2>2 DEF Storing, StoreRecords, Kinds
    <3> QED
      BY <3>1, <1>4, Shapes
  <2> QED
    BY <1>1, <1>2, <1>3, <2>1, <2>2, <2>3, SecretStep DEF Exists
<1>9. CASE StoreFails
  <2>1. /\ secret' = Removing \/ secret' = None
        /\ hasCredentials' = FALSE /\ account' = WithStatus("reauthorization_required")
        /\ UNCHANGED keyring
    BY <1>9 DEF StoreFails
  <2>2. secret' \in Secrets /\ secret'.kind # "store"
    BY <2>1, RemovingIs, Shapes
  <2>3. account' \in Accounts /\ (Exists' <=> Exists)
    BY <1>3, <2>1, WithStatusIs DEF Exists, Statuses
  <2> QED
    BY <1>1, <1>2, <1>3, <2>1, <2>2, <2>3, SecretStep
<1>10. CASE RemovalFails
  <2>1. secret.kind = "remove" /\ secret \in RemoveRecords
    BY <1>3, <1>4, <1>10, Shapes DEF RemovalFails
  <2>2. PICK kind \in secret.of :
          /\ secret' = IF secret.of = {kind} THEN None
                       ELSE [secret EXCEPT !.of = secret.of \ {kind}]
          /\ UNCHANGED <<account, hasCredentials, keyring>>
    BY <1>10 DEF RemovalFails
  <2>3. secret' \in Secrets /\ secret'.kind # "store"
    <3>1. secret.of \ {kind} \in SUBSET Kinds
      BY <1>4, <2>1
    <3>2. [secret EXCEPT !.of = secret.of \ {kind}] \in RemoveRecords
      BY <1>4, <2>1, <3>1
    <3> QED
      BY <1>4, <2>2, <3>2, Shapes
  <2> QED
    BY <1>1, <1>2, <1>3, <2>1, <2>2, <2>3, SecretStep DEF Exists
<1>11. HelperWorks => secret.kind \in {"store", "remove"}
  BY DEF HelperWorks
<1> QED
  BY <1>6, <1>7, <1>8, <1>9, <1>10, <1>11

\* Both credentials are there: the subscription may have been requested already.
LEMMA StoredStep ==
    ASSUME FeedAssumption, FeedInv, PasswordStored
    PROVE  FeedInv'
<1> USE DEF FeedInv
<1>1. /\ secret.kind = "store" /\ (refreshing \/ Room)
      /\ secret' = None /\ hasCredentials' = TRUE
      /\ account' = WithStatus("connected") /\ refreshing' = TRUE
      /\ fetches' = IF refreshing THEN fetches ELSE Started(TRUE)
      /\ UNCHANGED <<validator, cache, keyring, applying, served, bounds, lateWrote>>
  BY DEF PasswordStored
<1>2. Exists
  BY <1>1 DEF SubscriptionOK
<1>3. account' \in Accounts /\ Exists'
  BY <1>1, <1>2, WithStatusIs DEF TypeOK, Exists, Statuses
<1>4. UNCHANGED <<feed, version>>
  BY <1>1 DEF served
<1>5. /\ TableOK'
      /\ fetches' \in [Slots -> Fetches]
      /\ applying # 0 => fetches'[applying].kind = "apply"
  <2>1. CASE refreshing
    BY <1>1, <1>2, <1>4, <2>1, QuietKeeps DEF TypeOK
  <2>2. CASE ~refreshing
    BY <1>1, <1>2, <1>4, <2>2, StartingKeeps
  <2> QED
    BY <2>1, <2>2
<1>6. TypeOK'
  BY <1>1, <1>3, <1>5, Shapes DEF TypeOK, served, bounds
<1>7. SubscriptionOK'
  BY <1>1, <1>3, Shapes DEF SubscriptionOK, RemovedLeavesNothing
<1>8. FirstOK'
  BY <1>1, <1>2, Begun DEF FirstOK, bounds
<1> QED
  BY <1>5, <1>6, <1>7, <1>8 DEF TableOK

\* The state of an account the user has just written.
LEMMA StatusIs ==
    ASSUME NEW enabled \in BOOLEAN, NEW status \in Statuses
    PROVE  /\ [enabled |-> enabled, status |-> status] \in Accounts
           /\ [enabled |-> enabled, status |-> status] # NoAccount
<1>1. [enabled |-> enabled, status |-> status] \in AccountRecords
  BY DEF AccountRecords
<1> QED
  BY <1>1, Shapes

\* A store operation begins with the credentials just entered.
LEMMA StoringIs ==
    ASSUME NEW value \in 1..MaxEntered
    PROVE  Storing("username", value) \in Secrets
<1>1. Storing("username", value) \in StoreRecords
  BY DEF Storing, StoreRecords, Kinds
<1> QED
  BY <1>1, Shapes

\* addSubscription: nothing was asked for before.
LEMMA AddStep ==
    ASSUME FeedAssumption, FeedInv, NEW with \in BOOLEAN, AddSubscription(with)
    PROVE  FeedInv'
<1> USE DEF FeedInv
<1>1. /\ commands = 0 /\ Command /\ Entered(with)
      /\ account' = [enabled |-> TRUE, status |-> StatusOf(with)]
      /\ secret' = IF with THEN Storing("username", entered') ELSE None
      /\ UNCHANGED <<hasCredentials, validator, cache, keyring, refreshing, applying,
                     fetches, served, faults, lateWrote>>
  BY DEF AddSubscription
<1>2. /\ \A f \in Slots : fetches[f] = None
      /\ cache = Nothing /\ validator = 0 /\ ~hasCredentials
  BY <1>1 DEF FirstOK, SubscriptionOK, RemovedLeavesNothing
<1>3. /\ commands' \in 0 .. MaxCommands /\ commands' # 0
      /\ entered' \in 0 .. MaxEntered
      /\ with => entered' \in 1 .. MaxEntered
  BY <1>1, CommandBound, EnteredBound
<1>4. account' \in Accounts /\ Exists'
  <2>1. StatusOf(with) \in Statuses
    BY DEF StatusOf, Statuses
  <2> QED
    BY <1>1, <2>1, StatusIs DEF Exists
<1>5. secret' \in Secrets
  BY <1>1, <1>3, StoringIs, Shapes
<1>6. TypeOK'
  BY <1>1, <1>2, <1>3, <1>4, <1>5 DEF TypeOK, served
<1>7. SubscriptionOK'
  BY <1>4 DEF SubscriptionOK, RemovedLeavesNothing
<1>8. FirstOK'
  BY <1>3 DEF FirstOK
<1>9. TableOK'
  <2>1. UNCHANGED <<validator, fetches, feed, version, lateWrote>>
    BY <1>1 DEF served
  <2>2. \A f \in Slots : /\ fetches[f].kind = "none" /\ ~Newest(f) /\ ~Waiting(f)
                         /\ ~Answer(f, "304") /\ ~Answer(f, "200")
    BY <1>2, Shapes DEF Newest, Waiting, Answer
  <2>3. VersionsOK' /\ OneNewest' /\ AnswersOK'
    BY <2>1, <2>2 DEF VersionsOK, OneNewest, AnswersOK, Newest, Answer
  <2>4. version \notin Relied'
    BY <1>2, <2>1, <2>2 DEF Relied, VersionsOK, Waiting, Answer
  <2>5. TrustedOK' /\ OvertakenOK'
    BY <2>1, <2>4 DEF TrustedOK, OvertakenOK
  <2>6. ProgressOK'
    BY <2>1, <2>2 DEF ProgressOK, Newest
  <2> QED
    BY <2>3, <2>5, <2>6 DEF TableOK, CacheOK
<1> QED
  BY <1>6, <1>7, <1>8, <1>9 DEF TableOK

\* m_applies.take, cancel: what is being applied is ended, the rest goes on.
LEMMA CancelledIs ==
    ASSUME FeedInv, fetches' = Cancelled
    PROVE  /\ fetches' \in [Slots -> Fetches]
           /\ \A f \in Slots : fetches'[f].kind = "none" \/ GoesOn(f)
<1>1. \A f \in Slots : fetches'[f] = None \/ fetches'[f] = fetches[f]
  BY DEF Cancelled
<1>2. \A f \in Slots : fetches'[f] \in Fetches
  BY <1>1, Shapes DEF FeedInv, TypeOK
<1>3. fetches' \in [Slots -> Fetches]
  <2>1. fetches' = [f \in Slots |-> fetches'[f]]
    BY DEF Cancelled
  <2> QED
    BY <1>2, <2>1
<1>4. \A f \in Slots : fetches'[f].kind = "none" \/ GoesOn(f)
  BY <1>1, Shapes DEF GoesOn
<1> QED
  BY <1>3, <1>4

\* updateCredentials and disconnectAccount.
LEMMA CommandStep ==
    ASSUME FeedAssumption, FeedInv,
           \/ \E with \in BOOLEAN : UpdateCredentials(with)
           \/ \E removeData \in BOOLEAN : DisconnectAccount(removeData)
    PROVE  FeedInv'
<1> USE DEF FeedInv
<1>1. /\ Exists /\ Command /\ hasCredentials' = FALSE
      /\ fetches' = Cancelled /\ applying' = 0 /\ refreshing' = FALSE
      /\ UNCHANGED <<keyring, served, faults, lateWrote>>
  BY DEF UpdateCredentials, DisconnectAccount
<1>2. commands' \in 0 .. MaxCommands /\ commands' # 0
  BY <1>1, CommandBound
<1>3. /\ fetches' \in [Slots -> Fetches]
      /\ \A f \in Slots : fetches'[f].kind = "none" \/ GoesOn(f)
  BY <1>1, CancelledIs
<1>4. /\ entered' \in 0 .. MaxEntered /\ account' \in Accounts /\ secret' \in Secrets
      /\ secret'.kind = "store" => Exists'
      /\ \/ Exists' /\ UNCHANGED <<validator, cache>>
         \/ ~Exists' /\ validator' = 0 /\ cache' = Nothing
  <2>1. ASSUME NEW with \in BOOLEAN, UpdateCredentials(with)
        PROVE  /\ entered' \in 0 .. MaxEntered
               /\ account' \in Accounts /\ secret' \in Secrets
               /\ Exists' /\ UNCHANGED <<validator, cache>>
    <3>1. /\ Entered(with) /\ UNCHANGED <<validator, cache>>
          /\ account' = [enabled |-> TRUE, status |-> StatusOf(with)]
          /\ secret' = IF with THEN Storing("username", entered') ELSE Removing
      BY <2>1 DEF UpdateCredentials
    <3>2. /\ entered' \in 0 .. MaxEntered
          /\ with => entered' \in 1 .. MaxEntered
      BY <3>1, EnteredBound
    <3>3. StatusOf(with) \in Statuses
      BY DEF StatusOf, Statuses
    <3>4. account' \in Accounts /\ Exists'
      BY <3>1, <3>3, StatusIs DEF Exists
    <3>5. secret' \in Secrets
      BY <3>1, <3>2, StoringIs, RemovingIs
    <3> QED
      BY <3>1, <3>2, <3>4, <3>5
  <2>2. ASSUME NEW removeData \in BOOLEAN, DisconnectAccount(removeData)
        PROVE  /\ entered' \in 0 .. MaxEntered
               /\ account' \in Accounts /\ secret' \in Secrets
               /\ secret'.kind # "store"
               /\ \/ Exists' /\ UNCHANGED <<validator, cache>>
                  \/ ~Exists' /\ validator' = 0 /\ cache' = Nothing
    <3>1. /\ secret' = Removing /\ UNCHANGED entered
          /\ account' = IF removeData THEN NoAccount
                        ELSE [enabled |-> FALSE, status |-> "disconnected"]
          /\ cache' = IF removeData THEN Nothing ELSE cache
          /\ validator' = IF removeData THEN 0 ELSE validator
      BY <2>2 DEF DisconnectAccount
    <3>2. secret' \in Secrets /\ secret'.kind # "store"
      BY <3>1, RemovingIs
    <3>3. CASE removeData
      BY <3>1, <3>2, <3>3, Shapes DEF TypeOK, Exists
    <3>4. CASE ~removeData
      <4>1. account' \in Accounts /\ account' # NoAccount
        BY <3>1, <3>4, StatusIs DEF Statuses
      <4> QED
        BY <3>1, <3>2, <3>4, <4>1 DEF TypeOK, Exists
    <3> QED
      BY <3>3, <3>4
  <2> QED
    BY <2>1, <2>2
<1>5. TypeOK'
  <2>1. validator' \in Versions /\ cache' \in Contents
    BY <1>4, VersionNumbers DEF TypeOK
  <2> QED
    BY <1>1, <1>2, <1>3, <1>4, <2>1 DEF TypeOK, served
<1>6. SubscriptionOK'
  BY <1>1, <1>4 DEF SubscriptionOK, RemovedLeavesNothing
<1>7. FirstOK'
  BY <1>2 DEF FirstOK
<1>8. TableOK'
  <2>1. UNCHANGED <<feed, version, lateWrote>>
    BY <1>1 DEF served
  <2>2. /\ validator' = 0 \/ validator' \in Relied
        /\ Exists' => Exists /\ cache' = cache /\ validator' \in Relied
    BY <1>1, <1>4, SavedIsRelied
  <2> QED
    BY <1>3, <2>1, <2>2, GoingOnKeeps
<1> QED
  BY <1>5, <1>6, <1>7, <1>8 DEF TableOK

\* The feed changes, or the daemon dies.
LEMMA OutsideStep ==
    ASSUME FeedAssumption, FeedInv, FeedChanges \/ Crash
    PROVE  FeedInv'
<1> USE DEF FeedInv
<1>1. CASE FeedChanges
  <2>1. /\ UNCHANGED <<account, hasCredentials, validator, cache, keyring, secret,
                       refreshing, applying, fetches, private, bounds, lateWrote>>
        /\ UNCHANGED commands
    BY <1>1 DEF FeedChanges, bounds
  <2>2. TableOK' /\ version' \in Versions /\ feed' \in Contents
    BY <1>1, ChangingKeeps
  <2>3. TypeOK'
    BY <2>1, <2>2 DEF TypeOK, bounds
  <2>4. SubscriptionOK'
    BY <2>1 DEF SubscriptionOK, RemovedLeavesNothing, Exists
  <2>5. FirstOK'
    BY <2>1 DEF FirstOK, Exists
  <2> QED
    BY <2>2, <2>3, <2>4, <2>5 DEF TableOK
<1>2. CASE Crash
  <2>1. /\ Exists /\ secret' = None /\ refreshing' = FALSE /\ applying' = 0
        /\ fetches' = [f \in Slots |-> None]
        /\ UNCHANGED <<account, hasCredentials, validator, cache, keyring, served,
                       entered, commands, lateWrote>>
    BY <1>2 DEF Crash
  <2>2. faults' \in 0 .. MaxFaults
    BY <1>2, FaultBound DEF Crash
  <2>3. /\ fetches' \in [Slots -> Fetches]
        /\ \A f \in Slots : fetches'[f].kind = "none" \/ GoesOn(f)
    BY <2>1, Shapes
  <2>4. TableOK'
    <3>1. UNCHANGED <<feed, version, lateWrote>> /\ (Exists' <=> Exists)
      BY <2>1 DEF served, Exists
    <3> QED
      BY <2>1, <2>3, <3>1, SavedIsRelied, GoingOnKeeps
  <2>5. TypeOK'
    BY <2>1, <2>2, <2>3, Shapes DEF TypeOK, served
  <2>6. SubscriptionOK'
    BY <2>1, Shapes DEF SubscriptionOK, RemovedLeavesNothing, Exists
  <2>7. FirstOK'
    BY <2>1, Begun DEF FirstOK
  <2> QED
    BY <2>4, <2>5, <2>6, <2>7 DEF TableOK
<1> QED
  BY <1>1, <1>2
-----------------------------------------------------------------------------
(* The theorems.                                                            *)

\* No subscription, no request, and a feed that says something.
LEMMA FeedInit ==
    ASSUME FeedAssumption, Init
    PROVE  FeedInv
<1>1. \A f \in Slots : /\ fetches[f] = None /\ fetches[f].kind = "none"
                       /\ ~Newest(f) /\ ~Waiting(f)
                       /\ ~Answer(f, "304") /\ ~Answer(f, "200")
  BY Shapes DEF Init, Newest, Waiting, Answer
<1>2. TypeOK
  <2>1. fetches \in [Slots -> Fetches] /\ secret \in Secrets /\ account \in Accounts
    BY Shapes DEF Init
  <2>2. /\ validator \in Versions /\ cache \in Contents /\ version \in Versions
        /\ feed \in Contents /\ keyring \in [Kinds -> 0..MaxEntered]
    BY VersionNumbers DEF Init, Contents
  <2>3. entered \in 0..MaxEntered /\ commands \in 0..MaxCommands /\ faults \in 0..MaxFaults
    BY DEF Init, FeedAssumption
  <2> QED
    BY <2>1, <2>2, <2>3, Shapes DEF Init, TypeOK
<1>3. SubscriptionOK /\ FirstOK
  BY <1>1, Shapes DEF Init, SubscriptionOK, RemovedLeavesNothing, FirstOK, Exists
<1>4. VersionsOK /\ OneNewest /\ AnswersOK
  BY <1>1 DEF Init, VersionsOK, OneNewest, AnswersOK
<1>5. CacheOK
  BY DEF Init, CacheOK, Exists
<1> QED
  BY <1>2, <1>3, <1>4, <1>5 DEF FeedInv

\* No step leaves the invariant.
LEMMA FeedNext ==
    ASSUME FeedAssumption, FeedInv, [Next]_vars
    PROVE  FeedInv'
<1>1. CASE UNCHANGED vars
  <2>1. UNCHANGED <<validator, cache, fetches, feed, version, lateWrote>>
        /\ (Exists' <=> Exists)
    BY <1>1 DEF vars, served, Exists
  <2>2. TableOK'
    BY <2>1, QuietKeeps
  <2>3. TypeOK'
    BY <1>1 DEF vars, served, bounds, FeedInv, TypeOK
  <2>4. SubscriptionOK' /\ FirstOK'
    BY <1>1, <2>1 DEF vars, bounds, FeedInv, SubscriptionOK, RemovedLeavesNothing,
                      FirstOK
  <2> QED
    BY <2>2, <2>3, <2>4 DEF FeedInv, TableOK
<1>2. CASE Refresh
  BY <1>2, RefreshStep
<1>3. ASSUME NEW f \in Slots,
             \/ Handle(f) \/ Serve(f) \/ LookupFails(f) \/ RequestFails(f)
             \/ ApplyFails(f)
      PROVE  FeedInv'
  BY <1>3, LookupStep, AnswerStep, HandleStep DEF Handle
<1>4. CASE HelperWorks \/ UsernameStored \/ PasswordStored \/ StoreFails \/ RemovalFails
  BY <1>4, HelperStep, StoredStep
<1>5. CASE \E with \in BOOLEAN : AddSubscription(with) \/ UpdateCredentials(with)
  BY <1>5, AddStep, CommandStep
<1>6. CASE \E removeData \in BOOLEAN : DisconnectAccount(removeData)
  BY <1>6, CommandStep
<1>7. CASE FeedChanges \/ Crash
  BY <1>7, OutsideStep
<1> QED
  BY <1>1, <1>2, <1>3, <1>4, <1>5, <1>6, <1>7 DEF Next

\* In every state of the feed, its requests and its helper the invariant holds.
LEMMA FeedCorrect == Spec => []FeedInv
<1>1. Init => FeedInv
  BY FeedAssumption, FeedInit
<1>2. FeedInv /\ [Next]_vars => FeedInv'
  BY FeedAssumption, FeedNext
<1> QED
  BY <1>1, <1>2, PTL DEF Spec

\* IcsService keeps its tables, its requests and m_applies consistent: what is
\* being applied is a request that is under way.
THEOREM FeedTypeCorrect == Spec => []TypeOK
<1>1. FeedInv => TypeOK
  BY DEF FeedInv
<1> QED
  BY <1>1, FeedCorrect, PTL

\* A saved validator that is the feed's is never a lie about the cache: a 304
\* leaves nothing out, whatever was interrupted, failed, or was answered late,
\* as long as no overtaken answer was applied beside a newer one.
THEOREM NotModifiedCorrect == Spec => []NotModifiedIsTrue
<1>1. FeedInv => NotModifiedIsTrue
  <2> SUFFICES ASSUME FeedInv, validator = version, validator # 0, ~lateWrote
               PROVE  cache = feed
    BY DEF NotModifiedIsTrue
  <2>1. Exists
    BY DEF FeedInv, SubscriptionOK, RemovedLeavesNothing
  <2>2. TrustedOK /\ version \in Relied
    BY <2>1, SavedIsRelied DEF FeedInv, CacheOK
  <2> QED
    BY <2>2 DEF TrustedOK
<1> QED
  BY <1>1, FeedCorrect, PTL

\* Of a subscription removed with its data nothing comes back with an answer or
\* a credential that was under way.
THEOREM RemovedCorrect == Spec => []RemovedLeavesNothing
<1>1. FeedInv => RemovedLeavesNothing
  BY DEF FeedInv, SubscriptionOK
<1> QED
  BY <1>1, FeedCorrect, PTL
=============================================================================
