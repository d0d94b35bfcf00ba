----------------------------- MODULE TaskProofs -----------------------------
(***************************************************************************)
(* Theorems about TaskSync: a task of the user is one task at the server,  *)
(* and no step of the synchronisation changes a title of the user, takes   *)
(* notes of another client back, or drops a tombstone before its resource. *)
(*                                                                         *)
(* The invariant relates four things that are changed at different times:  *)
(* the rows of the table, the copies of rows a job holds, the resources at *)
(* the server, and the history of what was not heard of.  Its parts are operators  *)
(* of those, because a command of the user and the job it starts are one   *)
(* step: the lemmas about one apply to the table the other leaves.         *)
(***************************************************************************)
EXTENDS TaskSync, TLAPS

\* The arguments: p the provider, s the server, t the table, H the copies the job holds,
\* lo, un, ov the histories lost, unheard and overtaken, n the newest id, k the commands
\* and f the writes of other clients so far, col whether the collection is there.

Known(k, f) == [title : 0..k, notes : 0..(f + 1)]
TasksOf(k, f) == [rid : Nat, etag : Known(k, f), raw : Known(k, f), c : Known(k, f),
                  op : {"", "create", "update", "remove"}, rev : Nat]
WritesOf(k, f) == [id : RowIds, row : TasksOf(k, f)]
ResourcesOf(k, f) == [c : Known(k, f) \ {NoContent}, by : RowIds]

\* The copies of rows the job holds: those to be sent, and the one being sent.
Copies(j) == j.writes \cup {w \in {j.cur} : w.id # None}
Held == Copies(job)

-----------------------------------------------------------------------------
\* What the data looks like.

ServerOK(p, s, n, k, f) ==
    /\ s \in [DOMAIN s -> ResourcesOf(k, f)]
    /\ \A j \in DOMAIN s : j \in 1..n /\ s[j].by \in (-n)..n
    /\ p = "caldav" => \A j \in DOMAIN s : s[j].by \in {j, -j}

\* An owed create has no remote id, a task without a remote id is the user's, and what
\* the user wrote has a title.
TaskOK(p, i, r) ==
    /\ r.op \in {"", "update"} => r.rid # None
    /\ r.op = "create" => r.rid = None
    /\ r.rid = None => i > 0
    /\ r.c.title = 0 => r.rid # None /\ r.op # "create" /\ r.op # "update"
    /\ p = "caldav" => r.rid \in {None, i, -i}

RowsOK(p, t, n, k, f) ==
    /\ t \in [DOMAIN t -> TasksOf(k, f)]
    /\ \A i \in DOMAIN t : i \in RowIds /\ i \in (-n)..n /\ t[i].rid <= n /\ TaskOK(p, i, t[i])

CopiesOK(p, H, n, k, f) ==
    /\ H \subseteq WritesOf(k, f)
    /\ \A w \in H : w.id \in (-n)..n /\ w.row.rid <= n /\ TaskOK(p, w.id, w.row)
    /\ \A w \in H : w.row.op # ""
    /\ \A w, v \in H : w.id = v.id => w = v

\* No two rows have one remote id, and at CalDAV no row of the user is there with the row
\* a pull would insert for its resource.
RowsDistinct(t) == \A i, j \in DOMAIN t : t[i].rid = t[j].rid => i = j \/ t[i].rid = None
NoTwin(p, t) == p = "caldav" => \A i \in DOMAIN t : -i \notin DOMAIN t

-----------------------------------------------------------------------------
\* The copies a job holds and the rows they were taken of.

\* The row still owes a write; it is as it was copied, or was edited or removed since.
Follows(p, r, w) ==
    /\ r.op # "" /\ r.rev >= w.row.rev
    /\ r.rev = w.row.rev => /\ r.c.title = w.row.c.title
                            /\ r.op = "remove" <=> w.row.op = "remove"
    /\ r.rev = w.row.rev \/ r.op = "remove" \/ r.c.title # w.row.c.title
    /\ w.row.op = "remove" => r.op = "remove" /\ r.rev = w.row.rev
    /\ r.rid = w.row.rid \/ (r.rid = None /\ p = "google")

CopiesFollow(p, t, H) == \A w \in H : w.id \in DOMAIN t => Follows(p, t[w.id], w)

\* While the collection is there the rows are, and no two copies speak of one resource.
CopiesHaveRows(t, H, col) == col => \A w \in H : w.id \in DOMAIN t
CopiesDistinct(t, H, col) ==
    col => /\ \A w \in H : \A i \in DOMAIN t :
                t[i].rid = w.row.rid => i = w.id \/ t[i].rid = None
           /\ \A w, v \in H : w.row.rid = v.row.rid => w = v \/ w.row.rid = None

-----------------------------------------------------------------------------
\* Rows and resources.

\* A task that owes nothing has the title its resource has.
SameTitle(p, s, t, lo) ==
    \A i \in DOMAIN t : t[i].op = "" /\ t[i].rid \in DOMAIN s =>
        \/ p = "caldav" /\ i \in lo
        \/ s[t[i].rid].c.title = t[i].c.title

OneEach(p, s, lo) ==
    \A j, i \in DOMAIN s : s[j].by = s[i].by => j = i \/ (p = "google" /\ s[j].by \in lo)

\* The content c is what was sent for the task r of the row i: by it Google's resource is
\* recognised.  At CalDAV the name is enough, and the title is the same unless edited.
Resembles(p, i, r, c, lo) ==
    \/ p = "caldav" /\ (i \in lo \/ c.title = r.c.title)
    \/ p = "google" /\ c = r.c

\* A row knows the resource made for it, or could recognise it: it was not heard of.
RowKnows(p, s, t, lo, un) ==
    \A j \in DOMAIN s : s[j].by \in DOMAIN t =>
       \/ p = "google" /\ s[j].by \in lo
       \/ t[s[j].by].rid = j
       \/ /\ t[s[j].by].rid = None /\ s[j].by \in un
          /\ Resembles(p, s[j].by, t[s[j].by], s[j].c, lo)

\* A resource whose row does not know it is not known to another row, nor to a copy.
Unclaimed(s, t) ==
    \A j \in DOMAIN s : s[j].by \in DOMAIN t /\ t[s[j].by].rid = None =>
       \A i \in DOMAIN t : t[i].rid # j
CopiesUnclaimed(s, t, H) ==
    \A j \in DOMAIN s : s[j].by \in DOMAIN t /\ t[s[j].by].rid = None =>
       \A w \in H : w.row.rid = j => w.id = s[j].by

\* The job that is under way is about to deal with it.
Attended(s, t, H) ==
    \A j \in DOMAIN s : s[j].by \in DOMAIN t /\ t[s[j].by].rid = None =>
       \E w \in H : w.id = s[j].by

\* At CalDAV the resource has the name of the row.
OwnName(p, s, t) ==
    p = "caldav" => \A i \in DOMAIN t : t[i].rid = None /\ i \in DOMAIN s => s[i].by = i

\* The id of a resource that is there was never given to the row of another.
PulledKnows(s, t, H) ==
    \A j \in DOMAIN s :
       /\ \A i \in DOMAIN s : s[i].by = Pulled(j) => i = j
       /\ Pulled(j) \in DOMAIN t => t[Pulled(j)].rid = j
       /\ \A w \in H : w.id = Pulled(j) => w.row.rid = j

\* A write that is about to be sent knows the resource made for its row; before the
\* reconciliation it could recognise it.
CopyKnows(p, s, H, lo) ==
    \A w \in H : \A j \in DOMAIN s : s[j].by = w.id =>
       \/ j = w.row.rid
       \/ p = "google" /\ w.id \in lo
       \/ p = "caldav" /\ w.row.rid = None /\ Resembles(p, w.id, w.row, s[j].c, lo)
CopyRecognises(p, s, H, lo) ==
    \A w \in H : \A j \in DOMAIN s : s[j].by = w.id =>
       \/ j = w.row.rid
       \/ p = "google" /\ w.id \in lo
       \/ w.row.rid = None /\ Resembles(p, w.id, w.row, s[j].c, lo)

\* A recognised resource is the row's own.
CopyMatched(p, s, t, H, lo) ==
    \A w \in H : /\ p = "google" /\ w.row.rid \in DOMAIN s
                 /\ w.id \in DOMAIN t /\ t[w.id].rid = None
       => /\ s[w.row.rid].by = w.id
          /\ w.id \in lo \/ s[w.row.rid].c = w.row.c

\* At Google a title of a task that has no remote id yet is nowhere but in that task, its
\* copies and the resources made for it: what is recognised by it is its own.
TitleOwned(s, t, H, i, title) ==
    /\ \A j \in DOMAIN s : s[j].c.title = title => s[j].by = i
    /\ \A j \in DOMAIN t : t[j].c.title = title => j = i
    /\ \A w \in H : w.row.c.title = title => w.id = i
TitlesOwned(p, s, t, H) ==
    p = "google" =>
      /\ \A i \in DOMAIN t : t[i].rid = None => TitleOwned(s, t, H, i, t[i].c.title)
      /\ \A w \in H : w.row.rid = None => TitleOwned(s, t, H, w.id, w.row.c.title)

-----------------------------------------------------------------------------
\* The notes, which other clients write (CalDAV).

\* The notes are those of the copy the task is based on, and an edit knows its ETag.
NotesOK(r) ==
    /\ r.c.notes = r.raw.notes
    /\ r.etag \in {r.raw, NoContent}
    /\ r.op = "update" => r.etag = r.raw /\ r.etag # NoContent
RowNotes(p, t, ov) ==
    p = "caldav" => \A i \in DOMAIN t : i \in ov \/ t[i].op = "remove" \/ NotesOK(t[i])
CopyNotes(p, H, ov) ==
    p = "caldav" => \A w \in H : w.id \in ov \/ w.row.op = "remove" \/ NotesOK(w.row)

\* A copy that is not what the row is any more was overtaken.
OvertakenSeen(p, t, H, ov) ==
    p = "caldav" => \A w \in H : w.id \in DOMAIN t =>
       t[w.id].rev = w.row.rev \/ t[w.id].op = "remove" \/ w.id \in ov

\* What is to be uploaded has a new title.
Changes(r) == r.op = "update" => r.c.title # r.raw.title
RowsChange(p, t) == p = "caldav" => \A i \in DOMAIN t : Changes(t[i])

-----------------------------------------------------------------------------
\* All of it but what depends on the phase of the job.
World(p, s, t, H, lo, un, ov, n, k, f, col) ==
    /\ p \in {"caldav", "google"} /\ n \in Nat /\ k \in Nat /\ f \in Nat
    /\ ~col => s = Empty
    /\ ServerOK(p, s, n, k, f) /\ RowsOK(p, t, n, k, f) /\ CopiesOK(p, H, n, k, f)
    /\ RowsDistinct(t) /\ NoTwin(p, t)
    /\ CopiesFollow(p, t, H) /\ CopiesHaveRows(t, H, col) /\ CopiesDistinct(t, H, col)
    /\ SameTitle(p, s, t, lo) /\ OneEach(p, s, lo) /\ RowKnows(p, s, t, lo, un)
    /\ Unclaimed(s, t) /\ CopiesUnclaimed(s, t, H)
    /\ OwnName(p, s, t) /\ PulledKnows(s, t, H)
    /\ CopyRecognises(p, s, H, lo) /\ CopyMatched(p, s, t, H, lo) /\ TitlesOwned(p, s, t, H)
    /\ RowNotes(p, t, ov) /\ CopyNotes(p, H, ov) /\ OvertakenSeen(p, t, H, ov)
    /\ RowsChange(p, t)

-----------------------------------------------------------------------------
\* Tables, and what the World says of its parts.

LEMMA WithIs ==
    ASSUME NEW g, NEW x, NEW v
    PROVE  /\ DOMAIN With(g, x, v) = DOMAIN g \cup {x}
           /\ With(g, x, v)[x] = v
           /\ \A y \in DOMAIN g \ {x} : With(g, x, v)[y] = g[y]
  BY DEF With

LEMMA WithoutIs ==
    ASSUME NEW g, NEW S
    PROVE  /\ DOMAIN Without(g, S) = DOMAIN g \ S
           /\ \A y \in DOMAIN g \ S : Without(g, S)[y] = g[y]
  BY DEF Without

\* The job forgets copies.
LEMMA CopiesDropped ==
    ASSUME NEW p, NEW s, NEW t, NEW H, NEW lo, NEW un, NEW ov, NEW n, NEW k, NEW f, NEW col,
           World(p, s, t, H, lo, un, ov, n, k, f, col), NEW G, G \subseteq H
    PROVE  World(p, s, t, G, lo, un, ov, n, k, f, col)
  <1>1. CopiesOK(p, G, n, k, f)
    BY DEF World, CopiesOK
  <1>2. CopiesFollow(p, t, G) /\ CopiesHaveRows(t, G, col) /\ CopiesDistinct(t, G, col)
    BY DEF World, CopiesFollow, CopiesHaveRows, CopiesDistinct
  <1>3. /\ CopiesUnclaimed(s, t, G) /\ CopyRecognises(p, s, G, lo)
        /\ CopyMatched(p, s, t, G, lo)
    BY DEF World, CopiesUnclaimed, CopyRecognises, CopyMatched
  <1>4. PulledKnows(s, t, G)
    BY DEF World, PulledKnows
  <1>5. TitlesOwned(p, s, t, G)
    BY DEF World, TitlesOwned, TitleOwned
  <1>6. CopyNotes(p, G, ov) /\ OvertakenSeen(p, t, G, ov)
    BY DEF World, CopyNotes, OvertakenSeen
  <1> QED
    BY <1>1, <1>2, <1>3, <1>4, <1>5, <1>6 DEF World

\* Rows leave the table.
LEMMA RowsDropped ==
    ASSUME NEW p, NEW s, NEW t, NEW H, NEW lo, NEW un, NEW ov, NEW n, NEW k, NEW f, NEW col,
           World(p, s, t, H, lo, un, ov, n, k, f, col), NEW S,
           col => \A w \in H : w.id \notin S
    PROVE  World(p, s, Without(t, S), H, lo, un, ov, n, k, f, col)
  <1> DEFINE u == Without(t, S)
  <1>0. /\ DOMAIN u \subseteq DOMAIN t /\ DOMAIN u = DOMAIN t \ S
        /\ \A i \in DOMAIN u : u[i] = t[i]
    BY DEF Without, u
  <1>1. RowsOK(p, u, n, k, f)
    <2>1. t \in [DOMAIN t -> TasksOf(k, f)]
      BY DEF World, RowsOK
    <2>2. u \in [DOMAIN u -> TasksOf(k, f)]
      BY <2>1 DEF Without
    <2> QED
      BY <2>2, <1>0 DEF World, RowsOK
  <1> HIDE DEF u
  <1>2. RowsDistinct(u) /\ NoTwin(p, u)
    BY <1>0 DEF World, RowsDistinct, NoTwin
  <1>3. CopiesFollow(p, u, H) /\ CopiesHaveRows(u, H, col) /\ CopiesDistinct(u, H, col)
    BY <1>0 DEF World, CopiesFollow, CopiesHaveRows, CopiesDistinct
  <1>4. SameTitle(p, s, u, lo) /\ RowKnows(p, s, u, lo, un)
    BY <1>0 DEF World, SameTitle, RowKnows
  <1>5. Unclaimed(s, u) /\ CopiesUnclaimed(s, u, H)
    BY <1>0 DEF World, Unclaimed, CopiesUnclaimed
  <1>6. OwnName(p, s, u) /\ PulledKnows(s, u, H) /\ CopyMatched(p, s, u, H, lo)
    BY <1>0 DEF World, OwnName, PulledKnows, CopyMatched
  <1>7. TitlesOwned(p, s, u, H)
    BY <1>0 DEF World, TitlesOwned, TitleOwned
  <1>8. RowNotes(p, u, ov) /\ OvertakenSeen(p, u, H, ov) /\ RowsChange(p, u)
    BY <1>0 DEF World, RowNotes, OvertakenSeen, RowsChange
  <1> QED
    BY <1>1, <1>2, <1>3, <1>4, <1>5, <1>6, <1>7, <1>8 DEF World, u

\* Resources leave the server.
LEMMA ResourcesDropped ==
    ASSUME NEW p, NEW s, NEW t, NEW H, NEW lo, NEW un, NEW ov, NEW n, NEW k, NEW f, NEW col,
           World(p, s, t, H, lo, un, ov, n, k, f, col), NEW S
    PROVE  World(p, Without(s, S), t, H, lo, un, ov, n, k, f, col)
  <1> DEFINE r == Without(s, S)
  <1>0. /\ DOMAIN r \subseteq DOMAIN s
        /\ \A j \in DOMAIN r : r[j] = s[j]
    BY DEF Without, r
  <1>1. ServerOK(p, r, n, k, f)
    <2>1. s \in [DOMAIN s -> ResourcesOf(k, f)]
      BY DEF World, ServerOK
    <2>2. r \in [DOMAIN r -> ResourcesOf(k, f)]
      BY <2>1 DEF Without
    <2> QED
      BY <2>2, <1>0 DEF World, ServerOK
  <1>2. ~col => r = Empty
    BY DEF World, Without, Empty
  <1> HIDE DEF r
  <1>3. SameTitle(p, r, t, lo) /\ OneEach(p, r, lo) /\ RowKnows(p, r, t, lo, un)
    BY <1>0 DEF World, SameTitle, OneEach, RowKnows
  <1>4. Unclaimed(r, t) /\ CopiesUnclaimed(r, t, H)
    BY <1>0 DEF World, Unclaimed, CopiesUnclaimed
  <1>5. OwnName(p, r, t) /\ PulledKnows(r, t, H)
    BY <1>0 DEF World, OwnName, PulledKnows
  <1>6. CopyRecognises(p, r, H, lo) /\ CopyMatched(p, r, t, H, lo)
    BY <1>0 DEF World, CopyRecognises, CopyMatched
  <1>7. TitlesOwned(p, r, t, H)
    BY <1>0 DEF World, TitlesOwned, TitleOwned
  <1> QED
    BY <1>1, <1>2, <1>3, <1>4, <1>5, <1>6, <1>7 DEF World, r

\* Ids, titles, notes and the histories only grow.
LEMMA WorldGrows ==
    ASSUME NEW p, NEW s, NEW t, NEW H, NEW lo, NEW un, NEW ov, NEW n, NEW k, NEW f, NEW col,
           World(p, s, t, H, lo, un, ov, n, k, f, col),
           NEW lo2, NEW un2, NEW ov2, NEW n2 \in Nat, NEW k2 \in Nat, NEW f2 \in Nat,
           lo \subseteq lo2, un \subseteq un2, ov \subseteq ov2, n2 >= n, k2 >= k, f2 >= f
    PROVE  World(p, s, t, H, lo2, un2, ov2, n2, k2, f2, col)
  <1>0. n \in Nat /\ k \in Nat /\ f \in Nat
    BY DEF World
  <1>1. /\ Known(k, f) \subseteq Known(k2, f2)
        /\ TasksOf(k, f) \subseteq TasksOf(k2, f2)
        /\ WritesOf(k, f) \subseteq WritesOf(k2, f2)
        /\ ResourcesOf(k, f) \subseteq ResourcesOf(k2, f2)
    <2>1. 0..k \subseteq 0..k2 /\ 0..(f + 1) \subseteq 0..(f2 + 1)
      BY <1>0
    <2>2. Known(k, f) \subseteq Known(k2, f2)
      BY <2>1 DEF Known
    <2>3. TasksOf(k, f) \subseteq TasksOf(k2, f2)
      BY <2>2 DEF TasksOf
    <2> QED
      BY <2>2, <2>3 DEF WritesOf, ResourcesOf
  <1>2. ServerOK(p, s, n2, k2, f2)
    <2>1. s \in [DOMAIN s -> ResourcesOf(k, f)] /\ DOMAIN s \subseteq 1..n
      BY DEF World, ServerOK
    <2>2. s \in [DOMAIN s -> ResourcesOf(k2, f2)]
      BY <2>1, <1>1
    <2> QED
      BY <2>1, <2>2, <1>0 DEF World, ServerOK
  <1>3. RowsOK(p, t, n2, k2, f2)
    <2>1. t \in [DOMAIN t -> TasksOf(k, f)]
      BY DEF World, RowsOK
    <2>2. t \in [DOMAIN t -> TasksOf(k2, f2)] /\ \A i \in DOMAIN t : t[i].rid \in Nat
      BY <2>1, <1>1 DEF TasksOf
    <2> QED
      BY <2>2, <1>0 DEF World, RowsOK
  <1>4. CopiesOK(p, H, n2, k2, f2)
    <2>1. H \subseteq WritesOf(k2, f2) /\ \A w \in H : w.row.rid \in Nat /\ w.id \in Int
      BY <1>1 DEF World, CopiesOK, WritesOf, TasksOf, RowIds
    <2>2. \A w \in H : w.id \in (-n)..n /\ w.row.rid <= n
      BY DEF World, CopiesOK
    <2>3. \A w \in H : w.id \in (-n2)..n2 /\ w.row.rid <= n2
      BY <2>1, <2>2, <1>0
    <2> QED
      BY <2>1, <2>3 DEF World, CopiesOK
  <1>5. SameTitle(p, s, t, lo2) /\ OneEach(p, s, lo2) /\ RowKnows(p, s, t, lo2, un2)
    BY DEF World, SameTitle, OneEach, RowKnows, Resembles
  <1>6. CopyRecognises(p, s, H, lo2) /\ CopyMatched(p, s, t, H, lo2)
    BY DEF World, CopyRecognises, CopyMatched, Resembles
  <1>7. RowNotes(p, t, ov2) /\ CopyNotes(p, H, ov2) /\ OvertakenSeen(p, t, H, ov2)
    BY DEF World, RowNotes, CopyNotes, OvertakenSeen
  <1> QED
    BY <1>2, <1>3, <1>4, <1>5, <1>6, <1>7 DEF World

-----------------------------------------------------------------------------
\* The user's commands on the table.

\* Types, in the form the steps need.
LEMMA WorldTypes ==
    ASSUME NEW p, NEW s, NEW t, NEW H, NEW lo, NEW un, NEW ov, NEW n, NEW k, NEW f, NEW col,
           World(p, s, t, H, lo, un, ov, n, k, f, col)
    PROVE  /\ \A i \in DOMAIN t : /\ t[i] \in TasksOf(k, f) /\ t[i].rid \in Nat
                                  /\ t[i].rid <= n /\ t[i].rev \in Nat
                                  /\ t[i].op \in {"", "create", "update", "remove"}
                                  /\ t[i].c \in Known(k, f) /\ t[i].raw \in Known(k, f)
                                  /\ t[i].c.title \in 0..k /\ t[i].raw.title \in 0..k
                                  /\ i \in Int /\ i # 0 /\ -n <= i /\ i <= n
           /\ \A j \in DOMAIN s : /\ s[j].c \in Known(k, f) /\ s[j].c.title \in 0..k
                                  /\ s[j].by \in Int /\ s[j].by # 0
                                  /\ -n <= s[j].by /\ s[j].by <= n
                                  /\ j \in Nat /\ 1 <= j /\ j <= n
           /\ \A w \in H : /\ w.row \in TasksOf(k, f) /\ w.row.rid \in Nat /\ w.row.rid <= n
                           /\ w.row.op \in {"create", "update", "remove"}
                           /\ w.row.rev \in Nat /\ w.row.c \in Known(k, f)
                           /\ w.row.raw \in Known(k, f)
                           /\ w.row.c.title \in 0..k /\ w.row.raw.title \in 0..k
                           /\ w.id \in Int /\ w.id # 0 /\ -n <= w.id /\ w.id <= n
           /\ n \in Nat /\ k \in Nat /\ f \in Nat /\ p \in {"caldav", "google"}
  <1>0. n \in Nat /\ k \in Nat /\ f \in Nat /\ p \in {"caldav", "google"}
    BY DEF World
  <1>1. /\ \A x \in Known(k, f) : x.title \in 0..k
        /\ \A x \in TasksOf(k, f) : /\ x.rid \in Nat /\ x.rev \in Nat
                                    /\ x.c \in Known(k, f) /\ x.raw \in Known(k, f)
                                    /\ x.op \in {"", "create", "update", "remove"}
        /\ \A x \in WritesOf(k, f) : x.row \in TasksOf(k, f) /\ x.id \in Int /\ x.id # 0
        /\ \A x \in ResourcesOf(k, f) : x.c \in Known(k, f) /\ x.by \in Int /\ x.by # 0
    BY DEF Known, TasksOf, WritesOf, ResourcesOf, RowIds
  <1>2. /\ \A i \in DOMAIN t : t[i] \in TasksOf(k, f) /\ t[i].rid <= n
        /\ \A i \in DOMAIN t : i \in Int /\ i # 0 /\ i \in (-n)..n
    BY DEF World, RowsOK, RowIds
  <1>3. \A i \in DOMAIN t : -n <= i /\ i <= n
    BY <1>2, <1>0
  <1>4. /\ \A j \in DOMAIN s : s[j] \in ResourcesOf(k, f)
        /\ \A j \in DOMAIN s : j \in 1..n /\ s[j].by \in (-n)..n
    BY DEF World, ServerOK
  <1>5. /\ H \subseteq WritesOf(k, f)
        /\ \A w \in H : w.row.op # "" /\ w.id \in (-n)..n /\ w.row.rid <= n
    BY DEF World, CopiesOK
  <1>6. \A i \in DOMAIN t : /\ t[i].rid \in Nat /\ t[i].rev \in Nat
                            /\ t[i].op \in {"", "create", "update", "remove"}
                            /\ t[i].c \in Known(k, f) /\ t[i].raw \in Known(k, f)
                            /\ t[i].c.title \in 0..k /\ t[i].raw.title \in 0..k
    BY <1>1, <1>2
  <1>7. \A j \in DOMAIN s : /\ s[j].c \in Known(k, f) /\ s[j].c.title \in 0..k
                            /\ s[j].by \in Int /\ s[j].by # 0
                            /\ -n <= s[j].by /\ s[j].by <= n
                            /\ j \in Nat /\ 1 <= j /\ j <= n
    <2> SUFFICES ASSUME NEW j \in DOMAIN s
                 PROVE  /\ s[j].c \in Known(k, f) /\ s[j].c.title \in 0..k
                        /\ s[j].by \in Int /\ s[j].by # 0
                        /\ -n <= s[j].by /\ s[j].by <= n
                        /\ j \in Nat /\ 1 <= j /\ j <= n
      OBVIOUS
    <2>1. /\ s[j] \in ResourcesOf(k, f)
          /\ j \in 1..n /\ s[j].by \in (-n)..n
      BY <1>4
    <2>2. s[j].c \in Known(k, f) /\ s[j].by \in Int /\ s[j].by # 0
      BY <2>1, <1>1
    <2>3. -n <= s[j].by /\ s[j].by <= n /\ j \in Nat /\ 1 <= j /\ j <= n
      BY <1>0, <2>1, <2>2
    <2> QED
      BY <1>1, <2>2, <2>3
  <1>8. \A w \in H : /\ w.row \in TasksOf(k, f) /\ w.row.rid \in Nat /\ w.row.rid <= n
                     /\ w.row.op \in {"create", "update", "remove"}
                     /\ w.row.rev \in Nat /\ w.row.c \in Known(k, f)
                     /\ w.row.raw \in Known(k, f)
                     /\ w.row.c.title \in 0..k /\ w.row.raw.title \in 0..k
                     /\ w.id \in Int /\ w.id # 0 /\ -n <= w.id /\ w.id <= n
    <2> SUFFICES ASSUME NEW w \in H
                 PROVE  /\ w.row \in TasksOf(k, f) /\ w.row.rid \in Nat /\ w.row.rid <= n
                        /\ w.row.op \in {"create", "update", "remove"}
                        /\ w.row.rev \in Nat /\ w.row.c \in Known(k, f)
                        /\ w.row.raw \in Known(k, f)
                        /\ w.row.c.title \in 0..k /\ w.row.raw.title \in 0..k
                        /\ w.id \in Int /\ w.id # 0 /\ -n <= w.id /\ w.id <= n
      OBVIOUS
    <2>1. w.row \in TasksOf(k, f) /\ w.id \in Int /\ w.id # 0
      BY <1>1, <1>5
    <2>2. w.row.op # "" /\ w.id \in (-n)..n /\ w.row.rid <= n
      BY <1>5
    <2>3. -n <= w.id /\ w.id <= n
      <3> DEFINE x == w.id
      <3>1. x \in Int /\ x \in (-n)..n
        BY <2>1, <2>2
      <3> HIDE DEF x
      <3>2. -n <= x /\ x <= n
        BY <3>1, <1>0
      <3> QED
        BY <3>2 DEF x
    <2> QED
      BY <1>1, <2>1, <2>2, <2>3
  <1> QED
    BY <1>0, <1>2, <1>3, <1>6, <1>7, <1>8

EditOf(task, r, title) ==
    /\ r.rid = task.rid /\ r.raw = task.raw /\ r.etag = task.etag
    /\ r.rev = task.rev + 1
    /\ r.c.title = title /\ r.c.notes = task.c.notes
    /\ r.op \in {"create", "update"}
    /\ r.op = "create" <=> task.op = "create"

\* A row is edited: the title is new.  A resource the row does not know is lost with that.
LEMMA RowEdited ==
    ASSUME NEW p, NEW s, NEW t, NEW H, NEW lo, NEW un, NEW ov, NEW n, NEW k, NEW f, NEW col,
           World(p, s, t, H, lo, un, ov, n, k, f, col),
           NEW i \in DOMAIN t, t[i].op # "remove", NEW r \in TasksOf(k + 1, f),
           EditOf(t[i], r, k + 1),
           t[i].rid = None /\ i \in un => i \in lo,
           (\E w \in H : w.id = i) => i \in ov,
           t[i].rid # None /\ t[i].etag = NoContent => i \in ov
    PROVE  World(p, s, With(t, i, r), H, lo, un, ov, n, k + 1, f, col)
  <1> DEFINE u == With(t, i, r)
  <1>0. /\ DOMAIN u = DOMAIN t /\ u[i] = r
        /\ \A x \in DOMAIN t : x # i => u[x] = t[x]
    BY DEF With
  <1>g. World(p, s, t, H, lo, un, ov, n, k + 1, f, col)
    <2>1. n \in Nat /\ k \in Nat /\ f \in Nat
      BY DEF World
    <2>2. \A m \in Nat : m >= n => World(p, s, t, H, lo, un, ov, m, k + 1, f, col)
      BY <2>1, WorldGrows
    <2> QED
      BY <2>1, <2>2
  <1>t. /\ \A x \in DOMAIN t : /\ t[x].c.title \in 0..k /\ t[x].rev \in Nat
                               /\ t[x].rid \in Nat /\ t[x].raw.title \in 0..k
                               /\ x \in Int
        /\ \A j \in DOMAIN s : s[j].c.title \in 0..k
        /\ \A w \in H : w.row.c.title \in 0..k /\ w.row.rev \in Nat
        /\ k \in Nat
    BY WorldTypes
  <1>p. t[i].op \in {"", "create", "update", "remove"}
    BY WorldTypes
  <1>e. r.rid = t[i].rid /\ r.raw = t[i].raw /\ r.etag = t[i].etag
    BY DEF EditOf
  <1>o. r.op \in {"create", "update"} /\ (r.op = "create" <=> t[i].op = "create")
    BY DEF EditOf
  <1>c. r.c.notes = t[i].c.notes
    BY DEF EditOf
  <1>k. r.c.title = k + 1 /\ k \in Nat
    BY <1>t DEF EditOf
  <1>v. r.rev = t[i].rev + 1 /\ t[i].rev \in Nat
    BY <1>t DEF EditOf
  <1>n. \A title \in 0..k : r.c.title # title
    BY <1>k
  <1>1. RowsOK(p, u, n, k + 1, f)
    <2>1. u \in [DOMAIN u -> TasksOf(k + 1, f)]
      BY <1>g DEF With, World, RowsOK
    <2>2. TaskOK(p, i, t[i]) /\ i \in RowIds /\ i \in (-n)..n /\ t[i].rid <= n
      BY DEF World, RowsOK
    <2>3. TaskOK(p, i, r)
      <3>1. r.c.title # 0
        BY <1>k
      <3> QED
        BY <2>2, <3>1, <1>p, <1>e, <1>o DEF TaskOK
    <2> HIDE DEF u
    <2> QED
      BY <2>1, <2>2, <2>3, <1>0, <1>e DEF World, RowsOK
  <1> HIDE DEF u
  <1>2. RowsDistinct(u) /\ NoTwin(p, u)
    BY <1>0, <1>e DEF World, RowsDistinct, NoTwin
  <1>3. CopiesFollow(p, u, H)
    <2> SUFFICES ASSUME NEW w \in H, w.id \in DOMAIN t
                 PROVE  Follows(p, u[w.id], w)
      BY <1>0 DEF CopiesFollow
    <2>1. Follows(p, t[w.id], w)
      BY DEF World, CopiesFollow
    <2>2. CASE w.id # i
      BY <2>1, <2>2, <1>0
    <2>3. CASE w.id = i
      <3>1. r.c.title # w.row.c.title
        BY <1>t, <1>n
      <3>2. t[i].rev >= w.row.rev /\ w.row.rev \in Nat
        BY <2>1, <2>3, <1>t DEF Follows
      <3>3. r.rev > w.row.rev
        BY <3>2, <1>v
      <3>5. w.row.op # "remove"
        BY <2>1, <2>3 DEF Follows
      <3>6. r.rev >= w.row.rev /\ r.rev # w.row.rev
        BY <3>2, <3>3, <1>v
      <3>4. r.op # "" /\ r.op # "remove"
        BY <1>o
      <3> QED
        BY <2>1, <2>3, <3>1, <3>4, <3>5, <3>6, <1>0, <1>e DEF Follows
    <2> QED
      BY <2>2, <2>3
  <1>4. CopiesHaveRows(u, H, col) /\ CopiesDistinct(u, H, col)
    BY <1>0, <1>e DEF World, CopiesHaveRows, CopiesDistinct
  <1>5. SameTitle(p, s, u, lo)
    BY <1>0, <1>o DEF World, SameTitle
  <1>6. RowKnows(p, s, u, lo, un)
    BY <1>0, <1>e DEF World, RowKnows, Resembles
  <1>7. Unclaimed(s, u) /\ CopiesUnclaimed(s, u, H)
    BY <1>0, <1>e DEF World, Unclaimed, CopiesUnclaimed
  <1>8. OwnName(p, s, u) /\ PulledKnows(s, u, H) /\ CopyMatched(p, s, u, H, lo)
    BY <1>0, <1>e DEF World, OwnName, PulledKnows, CopyMatched
  <1>9. TitlesOwned(p, s, u, H)
    <2> SUFFICES ASSUME p = "google"
                 PROVE  /\ \A x \in DOMAIN u : u[x].rid = None =>
                             TitleOwned(s, u, H, x, u[x].c.title)
                        /\ \A w \in H : w.row.rid = None =>
                             TitleOwned(s, u, H, w.id, w.row.c.title)
      BY DEF TitlesOwned
    <2>1. ASSUME NEW title \in 0..k, NEW x, TitleOwned(s, t, H, x, title)
          PROVE  TitleOwned(s, u, H, x, title)
      BY <2>1, <1>0, <1>n DEF TitleOwned
    <2>2. TitleOwned(s, u, H, i, r.c.title)
      BY <1>0, <1>n, <1>t DEF TitleOwned
    <2>3. /\ \A x \in DOMAIN t : t[x].rid = None => TitleOwned(s, t, H, x, t[x].c.title)
          /\ \A w \in H : w.row.rid = None => TitleOwned(s, t, H, w.id, w.row.c.title)
      BY DEF World, TitlesOwned
    <2> QED
      BY <2>1, <2>2, <2>3, <1>0, <1>t, <1>e
  <1>10. RowNotes(p, u, ov)
    <2> SUFFICES ASSUME p = "caldav", i \notin ov
                 PROVE  NotesOK(r)
      BY <1>0 DEF World, RowNotes
    <2>1. NotesOK(t[i]) /\ TaskOK(p, i, t[i])
      BY DEF World, RowNotes, RowsOK
    <2>3. r.op = "update" => r.etag = r.raw /\ r.etag # NoContent
      BY <2>1, <1>p, <1>e, <1>o DEF NotesOK, TaskOK
    <2> QED
      BY <2>1, <2>3, <1>e, <1>c DEF NotesOK
  <1>11. OvertakenSeen(p, u, H, ov)
    BY <1>0 DEF World, OvertakenSeen
  <1>12. RowsChange(p, u)
    <2>1. t[i].raw.title \in 0..k
      BY <1>t
    <2>2. Changes(r)
      BY <2>1, <1>e, <1>n DEF Changes
    <2> QED
      BY <2>2, <1>0 DEF World, RowsChange
  <1> QED
    BY <1>g, <1>1, <1>2, <1>3, <1>4, <1>5, <1>6, <1>7, <1>8, <1>9, <1>10, <1>11, <1>12
    DEF World, u

RemovalOf(task, r) ==
    r.rid = task.rid /\ r.c = task.c /\ r.rev = task.rev + 1 /\ r.op = "remove"

\* A row is removed: it stays as a tombstone.
LEMMA RowRemoved ==
    ASSUME NEW p, NEW s, NEW t, NEW H, NEW lo, NEW un, NEW ov, NEW n, NEW k, NEW f, NEW col,
           World(p, s, t, H, lo, un, ov, n, k, f, col),
           NEW i \in DOMAIN t, t[i].op # "remove", NEW r \in TasksOf(k, f),
           RemovalOf(t[i], r)
    PROVE  World(p, s, With(t, i, r), H, lo, un, ov, n, k, f, col)
  <1> DEFINE u == With(t, i, r)
  <1>0. /\ DOMAIN u = DOMAIN t /\ u[i] = r
        /\ \A x \in DOMAIN t : x # i => u[x] = t[x]
    BY DEF With
  <1>t. /\ \A x \in DOMAIN t : t[x].rev \in Nat
        /\ \A w \in H : w.row.rev \in Nat
    BY WorldTypes
  <1>e. r.rid = t[i].rid
    BY DEF RemovalOf
  <1>o. r.op = "remove"
    BY DEF RemovalOf
  <1>c. r.c = t[i].c
    BY DEF RemovalOf
  <1>v. r.rev = t[i].rev + 1 /\ t[i].rev \in Nat
    BY <1>t DEF RemovalOf
  <1>1. RowsOK(p, u, n, k, f)
    <2>1. u \in [DOMAIN u -> TasksOf(k, f)]
      BY DEF With, World, RowsOK
    <2>2. TaskOK(p, i, t[i]) /\ i \in RowIds /\ i \in (-n)..n /\ t[i].rid <= n
      BY DEF World, RowsOK
    <2>3. TaskOK(p, i, r)
      BY <2>2, <1>e, <1>o, <1>c DEF TaskOK
    <2> HIDE DEF u
    <2> QED
      BY <2>1, <2>2, <2>3, <1>0, <1>e DEF World, RowsOK
  <1> HIDE DEF u
  <1>2. RowsDistinct(u) /\ NoTwin(p, u)
    BY <1>0, <1>e DEF World, RowsDistinct, NoTwin
  <1>3. CopiesFollow(p, u, H)
    <2> SUFFICES ASSUME NEW w \in H, w.id \in DOMAIN t
                 PROVE  Follows(p, u[w.id], w)
      BY <1>0 DEF CopiesFollow
    <2>1. Follows(p, t[w.id], w)
      BY DEF World, CopiesFollow
    <2>2. CASE w.id # i
      BY <2>1, <2>2, <1>0
    <2>3. CASE w.id = i
      <3>1. t[i].rev >= w.row.rev /\ w.row.rev \in Nat
        BY <2>1, <2>3, <1>t DEF Follows
      <3>2. r.rev >= w.row.rev /\ r.rev # w.row.rev
        BY <3>1, <1>v
      <3>3. w.row.op # "remove"
        BY <2>1, <2>3 DEF Follows
      <3> QED
        BY <2>1, <2>3, <3>2, <3>3, <1>0, <1>e, <1>o DEF Follows
    <2> QED
      BY <2>2, <2>3
  <1>4. CopiesHaveRows(u, H, col) /\ CopiesDistinct(u, H, col)
    BY <1>0, <1>e DEF World, CopiesHaveRows, CopiesDistinct
  <1>5. SameTitle(p, s, u, lo)
    <2>1. \A x \in DOMAIN u : u[x].op = "" => x # i /\ u[x] = t[x]
      BY <1>0, <1>o
    <2> QED
      BY <2>1, <1>0 DEF World, SameTitle
  <1>10. RowKnows(p, s, u, lo, un)
    BY <1>0, <1>e, <1>c DEF World, RowKnows, Resembles
  <1>6. Unclaimed(s, u) /\ CopiesUnclaimed(s, u, H)
    BY <1>0, <1>e DEF World, Unclaimed, CopiesUnclaimed
  <1>7. OwnName(p, s, u) /\ PulledKnows(s, u, H) /\ CopyMatched(p, s, u, H, lo)
    BY <1>0, <1>e DEF World, OwnName, PulledKnows, CopyMatched
  <1>8. TitlesOwned(p, s, u, H)
    <2>1. ASSUME NEW title, NEW x, TitleOwned(s, t, H, x, title)
          PROVE  TitleOwned(s, u, H, x, title)
      BY <2>1, <1>0, <1>c DEF TitleOwned
    <2> QED
      BY <2>1, <1>0, <1>e, <1>c DEF World, TitlesOwned
  <1>9. RowNotes(p, u, ov) /\ OvertakenSeen(p, u, H, ov) /\ RowsChange(p, u)
    BY <1>0, <1>o DEF World, RowNotes, OvertakenSeen, RowsChange, Changes
  <1> QED
    BY <1>1, <1>2, <1>3, <1>4, <1>5, <1>6, <1>7, <1>8, <1>9, <1>10 DEF World, u

\* The user creates a task: its id and its title are new.
LEMMA RowCreated ==
    ASSUME NEW p, NEW s, NEW t, NEW H, NEW lo, NEW un, NEW ov, NEW n, NEW k, NEW f, NEW col,
           World(p, s, t, H, lo, un, ov, n, k, f, col),
           NEW r \in TasksOf(k + 1, f), r.rid = None, r.raw = NoContent, r.etag = NoContent,
           r.c = [title |-> k + 1, notes |-> 0], r.op = "create"
    PROVE  World(p, s, With(t, n + 1, r), H, lo, un, ov, n + 1, k + 1, f, col)
  <1> DEFINE u == With(t, n + 1, r)
  <1>t. /\ \A x \in DOMAIN t : /\ t[x].c.title \in 0..k /\ t[x].rid \in Nat
                               /\ t[x].rid <= n /\ x \in Int /\ x # 0 /\ -n <= x /\ x <= n
        /\ \A j \in DOMAIN s : /\ s[j].c.title \in 0..k /\ s[j].by \in Int
                               /\ s[j].by <= n /\ j \in Nat /\ j <= n /\ 1 <= j
        /\ \A w \in H : /\ w.row.c.title \in 0..k /\ w.row.rid \in Nat
                        /\ w.id \in Int /\ w.id <= n
        /\ k \in Nat /\ n \in Nat
    BY WorldTypes
  <1>g. World(p, s, t, H, lo, un, ov, n + 1, k + 1, f, col)
    <2>1. n \in Nat /\ k \in Nat /\ f \in Nat
      BY DEF World
    <2>2. \A m \in Nat : m >= n => World(p, s, t, H, lo, un, ov, m, k + 1, f, col)
      BY <2>1, WorldGrows
    <2> QED
      BY <2>1, <2>2
  <1>0. /\ DOMAIN u = DOMAIN t \cup {n + 1} /\ u[n + 1] = r
        /\ n + 1 \notin DOMAIN t /\ n + 1 \notin DOMAIN s
        /\ \A x \in DOMAIN t : x # n + 1 /\ u[x] = t[x]
        /\ \A j \in DOMAIN s : s[j].by # n + 1
        /\ \A w \in H : w.id # n + 1
    BY <1>t DEF With
  <1>1. RowsOK(p, u, n + 1, k + 1, f)
    <2>1. u \in [DOMAIN u -> TasksOf(k + 1, f)]
      BY <1>g DEF With, World, RowsOK
    <2>2. n + 1 \in RowIds /\ n + 1 \in (-(n + 1))..(n + 1) /\ r.rid <= n + 1
      BY <1>t DEF RowIds, None
    <2>3. TaskOK(p, n + 1, r)
      BY <1>t DEF TaskOK, None
    <2> HIDE DEF u
    <2> QED
      BY <2>1, <2>2, <2>3, <1>0, <1>g DEF World, RowsOK
  <1> HIDE DEF u
  <1>2. RowsDistinct(u)
    BY <1>0 DEF World, RowsDistinct
  <1>3. NoTwin(p, u)
    BY <1>0, <1>t DEF World, NoTwin
  <1>4. CopiesFollow(p, u, H) /\ CopiesHaveRows(u, H, col) /\ CopiesDistinct(u, H, col)
    BY <1>0 DEF World, CopiesFollow, CopiesHaveRows, CopiesDistinct
  <1>5. SameTitle(p, s, u, lo) /\ RowKnows(p, s, u, lo, un)
    BY <1>0 DEF World, SameTitle, RowKnows
  <1>6. Unclaimed(s, u) /\ CopiesUnclaimed(s, u, H)
    BY <1>0, <1>t DEF World, Unclaimed, CopiesUnclaimed, None
  <1>7. OwnName(p, s, u) /\ CopyMatched(p, s, u, H, lo)
    BY <1>0 DEF World, OwnName, CopyMatched
  <1>8. PulledKnows(s, u, H)
    BY <1>0, <1>t DEF World, PulledKnows, Pulled
  <1>9. TitlesOwned(p, s, u, H)
    <2>1. ASSUME NEW title \in 0..k, NEW x, TitleOwned(s, t, H, x, title)
          PROVE  TitleOwned(s, u, H, x, title)
      BY <2>1, <1>0, <1>t DEF TitleOwned
    <2>2. TitleOwned(s, u, H, n + 1, k + 1)
      BY <1>0, <1>t DEF TitleOwned
    <2> QED
      BY <2>1, <2>2, <1>0, <1>t DEF World, TitlesOwned
  <1>10. RowNotes(p, u, ov) /\ OvertakenSeen(p, u, H, ov) /\ RowsChange(p, u)
    BY <1>0 DEF World, RowNotes, NotesOK, NoContent, OvertakenSeen, RowsChange, Changes
  <1> QED
    BY <1>g, <1>1, <1>2, <1>3, <1>4, <1>5, <1>6, <1>7, <1>8, <1>9, <1>10 DEF World, u

-----------------------------------------------------------------------------
\* What the job does with the copies before it sends them.

\* The job starts: it takes copies of what is owed.
LEMMA CopiesTaken ==
    ASSUME NEW p, NEW s, NEW t, NEW lo, NEW un, NEW ov, NEW n, NEW k, NEW f, NEW col,
           World(p, s, t, {}, lo, un, ov, n, k, f, col)
    PROVE  /\ World(p, s, t, Owed(t), lo, un, ov, n, k, f, col)
           /\ Attended(s, t, Owed(t))
           /\ p = "caldav" => CopyKnows(p, s, Owed(t), lo)
           /\ (\A w \in Owed(t) : w.row.rid # None) => CopyKnows(p, s, Owed(t), lo)
           /\ p = "caldav" => \A w \in Owed(t) : Changes(w.row)
  <1> DEFINE H == Owed(t)
  <1>r. \A w \in H : \E i \in DOMAIN t : t[i].op # "" /\ w = Snapshot(t, i)
    BY DEF Owed
  <1>s. \A i : Snapshot(t, i).id = i /\ Snapshot(t, i).row = t[i]
    BY DEF Snapshot
  <1>0. \A w \in H : w.id \in DOMAIN t /\ w.row = t[w.id] /\ w.row.op # ""
    BY <1>r, <1>s
  <1>d. ASSUME NEW w \in H, NEW v \in H, w.id = v.id
        PROVE  w = v
    <2>1. PICK i \in DOMAIN t : w = Snapshot(t, i)
      BY <1>r
    <2>2. PICK j \in DOMAIN t : v = Snapshot(t, j)
      BY <1>r
    <2>3. i = j
      BY <2>1, <2>2, <1>s, <1>d
    <2> QED
      BY <2>1, <2>2, <2>3
  <1>w. \A i \in DOMAIN t : t[i].op # "" => \E w \in H : w.id = i
    <2> SUFFICES ASSUME NEW i \in DOMAIN t, t[i].op # ""
                 PROVE  \E w \in H : w.id = i
      OBVIOUS
    <2>1. Snapshot(t, i) \in H
      BY DEF Owed, H
    <2> QED
      BY <2>1, <1>s
  <1> HIDE DEF H
  <1>1. CopiesOK(p, H, n, k, f)
    <2>1. /\ t \in [DOMAIN t -> TasksOf(k, f)]
          /\ \A i \in DOMAIN t : i \in RowIds /\ i \in (-n)..n /\ t[i].rid <= n
                                 /\ TaskOK(p, i, t[i])
      BY DEF World, RowsOK
    <2>2. \A i \in DOMAIN t : Snapshot(t, i) \in WritesOf(k, f)
      BY <2>1 DEF WritesOf, Snapshot
    <2>3. \A w, v \in H : w.id = v.id => w = v
      BY <1>d
    <2> QED
      BY <2>1, <2>2, <2>3, <1>0, <1>r DEF CopiesOK
  <1>2. CopiesFollow(p, t, H)
    <2>1. \A i \in DOMAIN t : t[i].rev \in Nat
      BY WorldTypes
    <2>2. ASSUME NEW w \in H
          PROVE  Follows(p, t[w.id], w)
      <3>1. t[w.id] = w.row /\ w.row.op # ""
        BY <1>0
      <3>2. w.row.rev \in Nat
        BY <1>0, <2>1
      <3>3. w.row.rev >= w.row.rev
        BY <3>2
      <3> QED
        BY <3>1, <3>3 DEF Follows
    <2> QED
      BY <2>2 DEF CopiesFollow
  <1>3. CopiesHaveRows(t, H, col) /\ CopiesDistinct(t, H, col)
    <2>1. \A w, v \in H : w.row.rid = v.row.rid => w = v \/ w.row.rid = None
      <3> SUFFICES ASSUME NEW w \in H, NEW v \in H, w.row.rid = v.row.rid, w.row.rid # None
                   PROVE  w = v
        OBVIOUS
      <3>1. w.id = v.id
        BY <1>0 DEF World, RowsDistinct
      <3> QED
        BY <3>1, <1>d
    <2>2. \A w \in H : \A i \in DOMAIN t :
            t[i].rid = w.row.rid => i = w.id \/ t[i].rid = None
      BY <1>0 DEF World, RowsDistinct
    <2> QED
      BY <2>1, <2>2, <1>0 DEF CopiesHaveRows, CopiesDistinct
  <1>4. CopiesUnclaimed(s, t, H)
    BY <1>0 DEF World, Unclaimed, CopiesUnclaimed
  <1>5. PulledKnows(s, t, H)
    BY <1>0 DEF World, PulledKnows
  <1>6. CopyRecognises(p, s, H, lo)
    BY <1>0 DEF World, CopyRecognises, RowKnows
  <1>7. CopyMatched(p, s, t, H, lo)
    <2>1. None \notin DOMAIN s
      BY DEF World, ServerOK, None
    <2> QED
      BY <2>1, <1>0 DEF CopyMatched
  <1>8. TitlesOwned(p, s, t, H)
    <2>1. ASSUME NEW i, NEW title, TitleOwned(s, t, {}, i, title)
          PROVE  TitleOwned(s, t, H, i, title)
      BY <2>1, <1>0 DEF TitleOwned
    <2> QED
      BY <2>1, <1>0 DEF World, TitlesOwned
  <1>9. CopyNotes(p, H, ov) /\ OvertakenSeen(p, t, H, ov)
    BY <1>0 DEF World, CopyNotes, RowNotes, OvertakenSeen
  <1>10. Attended(s, t, H)
    <2>1. \A i \in DOMAIN t : t[i].rid = None => t[i].op # ""
      BY DEF World, RowsOK, TaskOK
    <2> QED
      BY <2>1, <1>w DEF Attended
  <1>11. p = "caldav" => CopyKnows(p, s, H, lo)
    BY <1>0 DEF World, CopyKnows, RowKnows
  <1>12. (\A w \in H : w.row.rid # None) => CopyKnows(p, s, H, lo)
    BY <1>0 DEF World, CopyKnows, RowKnows
  <1>13. p = "caldav" => \A w \in H : Changes(w.row)
    BY <1>0 DEF World, RowsChange
  <1>14. World(p, s, t, H, lo, un, ov, n, k, f, col)
    BY <1>1, <1>2, <1>3, <1>4, <1>5, <1>6, <1>7, <1>8, <1>9 DEF World
  <1> QED
    BY <1>10, <1>11, <1>12, <1>13, <1>14 DEF H

\* g is what the copy w becomes when it is looked for at the server.
MatchOf(s, t, w, g) ==
    /\ g.id = w.id /\ g.row.c = w.row.c /\ g.row.raw = w.row.raw /\ g.row.rev = w.row.rev
    /\ \/ /\ g = w
          /\ \/ w.row.rid # None
             \/ \A j \in DOMAIN s : s[j].c = w.row.c => \E i \in DOMAIN t : t[i].rid = j
       \/ /\ w.row.rid = None /\ g.row.rid \in DOMAIN s /\ g.row.rid # None
          /\ s[g.row.rid].c = w.row.c
          /\ \A i \in DOMAIN t : t[i].rid # g.row.rid
          /\ w.row.op = "create" => g.row.op = "update"
          /\ w.row.op # "create" => g.row.op = w.row.op

LEMMA CopiesMatched ==
    ASSUME NEW s, NEW t, NEW H, NEW lo, NEW un, NEW ov, NEW n, NEW k, NEW f, NEW G,
           NEW p, NEW col, p = "google", col = TRUE,
           World(p, s, t, H, lo, un, ov, n, k, f, col), Attended(s, t, H),
           G \subseteq WritesOf(k, f),
           \A g \in G : \E w \in H : MatchOf(s, t, w, g),
           \A w \in H : \E g \in G : g.id = w.id,
           \A g, h \in G : g.id = h.id => g = h
    PROVE  /\ World(p, s, t, G, lo, un, ov, n, k, f, col)
           /\ Attended(s, t, G) /\ CopyKnows(p, s, G, lo)
  <1>t. /\ \A i \in DOMAIN t : t[i].rid \in Nat
        /\ \A w \in H : w.row.rid \in Nat
        /\ \A j \in DOMAIN s : j \in Nat /\ 1 <= j /\ j <= n
        /\ n \in Nat
    <2>1. \A i \in DOMAIN t : t[i].rid \in Nat
      BY WorldTypes
    <2>2. \A w \in H : w.row.rid \in Nat
      BY WorldTypes
    <2>4. \A j \in DOMAIN s : j \in Nat /\ 1 <= j /\ j <= n
      BY DEF World, ServerOK
    <2>5. n \in Nat
      BY DEF World
    <2> QED
      BY <2>1, <2>2, <2>4, <2>5
  <1>a. \A w \in H : w.id \in DOMAIN t
    BY DEF World, CopiesHaveRows
  <1>m. ASSUME NEW g \in G
        PROVE  \E w \in H :
                 /\ MatchOf(s, t, w, g) /\ g.id = w.id
                 /\ g = w \/ /\ w.row.rid = None /\ t[w.id].rid = None
                             /\ g.row.rid \in DOMAIN s
                             /\ s[g.row.rid].by = w.id /\ s[g.row.rid].c = w.row.c
                             /\ \A i \in DOMAIN t : t[i].rid # g.row.rid
    <2>1. PICK w \in H : MatchOf(s, t, w, g)
      OBVIOUS
    <2>2. g.id = w.id
      BY <2>1 DEF MatchOf
    <2>3. CASE g = w
      BY <2>1, <2>2, <2>3
    <2>4. CASE g # w
      <3>1. /\ w.row.rid = None /\ g.row.rid \in DOMAIN s /\ s[g.row.rid].c = w.row.c
            /\ \A i \in DOMAIN t : t[i].rid # g.row.rid
        BY <2>1, <2>4 DEF MatchOf
      <3>2. TitleOwned(s, t, H, w.id, w.row.c.title)
        BY <3>1 DEF World, TitlesOwned
      <3>3. s[g.row.rid].by = w.id
        BY <3>1, <3>2 DEF TitleOwned
      <3>4. t[w.id].rid = None
        BY <3>1, <1>a DEF World, CopiesFollow, Follows
      <3> QED
        BY <2>1, <2>2, <3>1, <3>3, <3>4
    <2> QED
      BY <2>3, <2>4
  <1>u. \A w, v \in H : w.id = v.id => w = v
    BY DEF World, CopiesOK
  <1>1. CopiesOK(p, G, n, k, f)
    <2>1. ASSUME NEW g \in G
          PROVE  g.id \in (-n)..n /\ g.row.rid <= n /\ TaskOK(p, g.id, g.row) /\ g.row.op # ""
      <3>1. PICK w \in H :
              /\ MatchOf(s, t, w, g) /\ g.id = w.id
              /\ g = w \/ (w.row.rid = None /\ g.row.rid \in DOMAIN s)
        BY <1>m
      <3>2. w.id \in (-n)..n /\ w.row.rid <= n /\ TaskOK(p, w.id, w.row) /\ w.row.op # ""
        BY DEF World, CopiesOK
      <3>3. CASE g = w
        BY <3>2, <3>3
      <3>4. CASE g # w
        <4>1. g.row.rid <= n
          BY <3>1, <3>4, <1>t
        <4>2. /\ g.row.rid # None /\ w.row.rid = None
              /\ w.row.op = "create" => g.row.op = "update"
              /\ w.row.op # "create" => g.row.op = w.row.op
              /\ g.row.c = w.row.c /\ g.id = w.id
          BY <3>1, <3>4 DEF MatchOf
        <4>3. TaskOK(p, g.id, g.row) /\ g.row.op # ""
          BY <4>2, <3>2 DEF TaskOK
        <4> QED
          BY <4>1, <4>3, <3>1, <3>2
      <3> QED
        BY <3>3, <3>4
    <2> QED
      BY <2>1 DEF CopiesOK
  <1>2. CopiesFollow(p, t, G)
    <2> SUFFICES ASSUME NEW g \in G
                 PROVE  Follows(p, t[g.id], g)
      BY DEF CopiesFollow
    <2>1. PICK w \in H : /\ MatchOf(s, t, w, g) /\ g.id = w.id
                         /\ g = w \/ t[w.id].rid = None
      BY <1>m
    <2>2. Follows(p, t[w.id], w)
      BY <1>a DEF World, CopiesFollow
    <2>3. CASE g = w
      BY <2>2, <2>3
    <2>4. CASE g # w
      <3>1. g.row.c = w.row.c /\ g.row.rev = w.row.rev
        BY <2>1 DEF MatchOf
      <3>2. g.row.op = "remove" <=> w.row.op = "remove"
        BY <2>1, <2>4 DEF MatchOf
      <3>3. t[w.id].rev >= g.row.rev /\ t[w.id].op # ""
        BY <2>2, <3>1 DEF Follows
      <3>4. t[w.id].rid = None
        BY <2>1, <2>4
      <3>5. t[w.id].rev = g.row.rev =>
              /\ t[w.id].c.title = g.row.c.title
              /\ t[w.id].op = "remove" <=> g.row.op = "remove"
        BY <2>2, <3>1, <3>2 DEF Follows
      <3>6. \/ t[w.id].rev = g.row.rev \/ t[w.id].op = "remove"
            \/ t[w.id].c.title # g.row.c.title
        BY <2>2, <3>1 DEF Follows
      <3>7. g.row.op = "remove" => t[w.id].op = "remove" /\ t[w.id].rev = g.row.rev
        BY <2>2, <3>1, <3>2 DEF Follows
      <3>8. t[w.id].rid = g.row.rid \/ (t[w.id].rid = None /\ p = "google")
        BY <3>4
      <3>9. Follows(p, t[w.id], g)
        BY ONLY <3>3, <3>5, <3>6, <3>7, <3>8 DEF Follows
      <3> QED
        BY <2>1, <3>9
    <2> QED
      BY <2>3, <2>4
  <1>3. CopiesHaveRows(t, G, col)
    BY <1>m, <1>a DEF CopiesHaveRows
  <1>4. CopiesDistinct(t, G, col)
    <2>1. ASSUME NEW g \in G, NEW i \in DOMAIN t, t[i].rid = g.row.rid
          PROVE  i = g.id \/ t[i].rid = None
      <3>1. PICK w \in H : /\ g.id = w.id
                           /\ g = w \/ \A x \in DOMAIN t : t[x].rid # g.row.rid
        BY <1>m
      <3> QED
        BY <3>1, <2>1 DEF World, CopiesDistinct
    <2>2. ASSUME NEW g \in G, NEW h \in G, g.row.rid = h.row.rid, g.row.rid # None
          PROVE  g.id = h.id
      <3>1. PICK w \in H :
              /\ g.id = w.id
              /\ g = w \/ /\ g.row.rid \in DOMAIN s /\ s[g.row.rid].by = w.id
                          /\ \A i \in DOMAIN t : t[i].rid # g.row.rid
        BY <1>m
      <3>2. PICK v \in H :
              /\ h.id = v.id
              /\ h = v \/ /\ h.row.rid \in DOMAIN s /\ s[h.row.rid].by = v.id
                          /\ \A i \in DOMAIN t : t[i].rid # h.row.rid
        BY <1>m
      <3>3. ASSUME NEW x \in H, x.row.rid \in DOMAIN s,
                   \A i \in DOMAIN t : t[i].rid # x.row.rid
            PROVE  s[x.row.rid].by = x.id
        BY <3>3, <1>a DEF World, CopiesFollow, Follows, CopyMatched
      <3>4. CASE g = w /\ h = v
        BY <3>4, <2>2 DEF World, CopiesDistinct
      <3>5. CASE g # w /\ h = v
        BY <3>1, <3>2, <3>5, <3>3, <2>2
      <3>6. CASE g = w /\ h # v
        BY <3>1, <3>2, <3>6, <3>3, <2>2
      <3>7. CASE g # w /\ h # v
        BY <3>1, <3>2, <3>7, <2>2
      <3> QED
        BY <3>4, <3>5, <3>6, <3>7
    <2> QED
      BY <2>1, <2>2 DEF CopiesDistinct
  <1>5. CopiesUnclaimed(s, t, G)
    <2> SUFFICES ASSUME NEW j \in DOMAIN s, s[j].by \in DOMAIN t, t[s[j].by].rid = None,
                        NEW g \in G, g.row.rid = j
                 PROVE  g.id = s[j].by
      BY DEF CopiesUnclaimed
    <2>1. PICK w \in H : g.id = w.id /\ (g = w \/ s[g.row.rid].by = w.id)
      BY <1>m
    <2> QED
      BY <2>1 DEF World, CopiesUnclaimed
  <1>6. PulledKnows(s, t, G)
    <2> SUFFICES ASSUME NEW j \in DOMAIN s, NEW g \in G, g.id = Pulled(j)
                 PROVE  g.row.rid = j
      BY DEF World, PulledKnows
    <2>1. PICK w \in H : g.id = w.id /\ (g = w \/ w.row.rid = None)
      BY <1>m
    <2>2. w.row.rid = j
      BY <2>1 DEF World, PulledKnows
    <2> QED
      BY <2>1, <2>2, <1>t DEF None
  <1>7. CopyKnows(p, s, G, lo)
    <2> SUFFICES ASSUME NEW g \in G, NEW j \in DOMAIN s, s[j].by = g.id, g.id \notin lo
                 PROVE  j = g.row.rid
      BY DEF CopyKnows
    <2>1. PICK w \in H : MatchOf(s, t, w, g) /\ g.id = w.id
                         /\ (g = w \/ (w.row.rid = None /\ g.row.rid \in DOMAIN s
                                       /\ s[g.row.rid].by = w.id))
      BY <1>m
    <2>2. j = w.row.rid \/ (w.row.rid = None /\ s[j].c = w.row.c)
      BY <2>1 DEF World, CopyRecognises, Resembles
    <2>3. CASE w.row.rid # None
      BY <2>1, <2>2, <2>3
    <2>4. CASE w.row.rid = None
      <3>1. s[j].c = w.row.c
        BY <2>2, <2>4, <1>t DEF None
      <3>2. t[w.id].rid = None
        BY <2>4, <1>a DEF World, CopiesFollow, Follows
      <3>3. \A i \in DOMAIN t : t[i].rid # j
        BY <2>1, <3>2, <1>a DEF World, Unclaimed
      <3>4. g # w
        BY <2>1, <2>4, <3>1, <3>3 DEF MatchOf
      <3>5. s[g.row.rid].by = w.id /\ g.row.rid \in DOMAIN s
        BY <2>1, <3>4
      <3> QED
        BY <2>1, <3>5 DEF World, OneEach
    <2> QED
      BY <2>3, <2>4
  <1>8. CopyRecognises(p, s, G, lo)
    BY <1>7 DEF CopyKnows, CopyRecognises
  <1>9. CopyMatched(p, s, t, G, lo)
    <2> SUFFICES ASSUME NEW g \in G, g.row.rid \in DOMAIN s, t[g.id].rid = None
                 PROVE  s[g.row.rid].by = g.id /\ (g.id \in lo \/ s[g.row.rid].c = g.row.c)
      BY DEF CopyMatched
    <2>1. PICK w \in H : MatchOf(s, t, w, g) /\ g.id = w.id
                         /\ (g = w \/ (s[g.row.rid].by = w.id /\ s[g.row.rid].c = w.row.c))
      BY <1>m
    <2>2. g.row.c = w.row.c
      BY <2>1 DEF MatchOf
    <2> QED
      BY <2>1, <2>2, <1>a DEF World, CopyMatched
  <1>10. TitlesOwned(p, s, t, G)
    <2>1. ASSUME NEW i, NEW title, TitleOwned(s, t, H, i, title)
          PROVE  TitleOwned(s, t, G, i, title)
      <3>1. \A g \in G : \E w \in H : g.id = w.id /\ g.row.c = w.row.c
        BY <1>m DEF MatchOf
      <3> QED
        BY <2>1, <3>1 DEF TitleOwned
    <2>2. ASSUME NEW g \in G, g.row.rid = None
          PROVE  g \in H
      <3>1. PICK w \in H : g = w \/ g.row.rid \in DOMAIN s
        BY <1>m
      <3> QED
        BY <3>1, <2>2, <1>t DEF None
    <2> QED
      BY <2>1, <2>2 DEF World, TitlesOwned
  <1>11. CopyNotes(p, G, ov) /\ OvertakenSeen(p, t, G, ov)
    BY DEF CopyNotes, OvertakenSeen
  <1>12. Attended(s, t, G)
    BY DEF Attended
  <1>13. World(p, s, t, G, lo, un, ov, n, k, f, col)
    BY <1>1, <1>2, <1>3, <1>4, <1>5, <1>6, <1>8, <1>9, <1>10, <1>11 DEF World
  <1> QED
    BY <1>7, <1>12, <1>13

\* Tombstones of what was never uploaded leave with their copies.
LEMMA CopiesAndRowsDropped ==
    ASSUME NEW p, NEW s, NEW t, NEW H, NEW lo, NEW un, NEW ov, NEW n, NEW k, NEW f, NEW col,
           World(p, s, t, H, lo, un, ov, n, k, f, col), NEW D, D \subseteq H,
           Attended(s, t, H), CopyKnows(p, s, H, lo)
    PROVE  /\ World(p, s, Without(t, {w.id : w \in D}), H \ D, lo, un, ov, n, k, f, col)
           /\ Attended(s, Without(t, {w.id : w \in D}), H \ D)
           /\ CopyKnows(p, s, H \ D, lo)
  <1> DEFINE S == {w.id : w \in D}
             u == Without(t, S)
             G == H \ D
  <1>0. DOMAIN u = DOMAIN t \ S /\ \A i \in DOMAIN u : u[i] = t[i]
    BY DEF Without
  <1>1. World(p, s, t, G, lo, un, ov, n, k, f, col)
    BY CopiesDropped
  <1>2. \A w \in G : w.id \notin S
    BY DEF World, CopiesOK
  <1>3. World(p, s, u, G, lo, un, ov, n, k, f, col)
    <2> HIDE DEF S, G
    <2>1. col => \A w \in G : w.id \notin S
      BY <1>2
    <2> QED
      BY <1>1, <2>1, RowsDropped
  <1>4. Attended(s, u, G)
    <2> SUFFICES ASSUME NEW j \in DOMAIN s, s[j].by \in DOMAIN u, u[s[j].by].rid = None
                 PROVE  \E w \in G : w.id = s[j].by
      BY DEF Attended
    <2>1. s[j].by \in DOMAIN t /\ t[s[j].by].rid = None /\ s[j].by \notin S
      <3> HIDE DEF u, S
      <3> QED
        BY <1>0
    <2>2. PICK w \in H : w.id = s[j].by
      BY <2>1 DEF Attended
    <2> QED
      BY <2>1, <2>2
  <1>5. CopyKnows(p, s, G, lo)
    BY DEF CopyKnows
  <1> QED
    BY <1>3, <1>4, <1>5

-----------------------------------------------------------------------------
\* A write at the server.

\* j is the resource that w is written to: no other row or copy knows it, and there is no
\* other resource of the row.
Target(p, s, t, H, lo, n, w, j) ==
    /\ j \in Nat /\ 1 <= j /\ j <= n
    /\ p = "caldav" => j \in {w.id, -w.id}
    /\ \A x \in DOMAIN t : t[x].rid = j => x = w.id
    /\ \A v \in H : v.row.rid = j => v = w
    /\ -j \in DOMAIN t => -j = w.id /\ t[w.id].rid = j
    /\ \A x \in DOMAIN s : /\ s[x].by = w.id => x = j \/ (p = "google" /\ w.id \in lo)
                           /\ x = w.row.rid => x = j
                           /\ s[x].by = -j => x = j
    /\ j \in DOMAIN s /\ s[j].by # w.id /\ s[j].by \in DOMAIN t =>
         p = "google" /\ s[j].by \in lo /\ t[s[j].by].rid # None

\* The resource the copy knows.
LEMMA TargetKnown ==
    ASSUME NEW p, NEW s, NEW t, NEW H, NEW lo, NEW un, NEW ov, NEW n, NEW k, NEW f, NEW col,
           col = TRUE, World(p, s, t, H, lo, un, ov, n, k, f, col), CopyKnows(p, s, H, lo),
           NEW w \in H, w.row.rid # None, p = "caldav" \/ w.row.rid \in DOMAIN s
    PROVE  Target(p, s, t, H, lo, n, w, w.row.rid)
  <1> DEFINE j == w.row.rid
  <1>t. /\ \A x \in DOMAIN s : x \in Nat /\ 1 <= x /\ s[x].by \in Int
        /\ w.row.rid \in Nat /\ w.row.rid <= n /\ w.id \in Int
        /\ p \in {"caldav", "google"}
    BY WorldTypes
  <1>1. j \in Nat /\ 1 <= j /\ j <= n
    BY <1>t DEF None
  <1>2. p = "caldav" => j \in {w.id, -w.id}
    BY DEF World, CopiesOK, TaskOK
  <1>3. w.id \in DOMAIN t
    BY DEF World, CopiesHaveRows
  <1>4. \A x \in DOMAIN t : t[x].rid = j => x = w.id
    BY DEF World, CopiesDistinct
  <1>5. \A v \in H : v.row.rid = j => v = w
    BY DEF World, CopiesDistinct
  <1>6. ASSUME -j \in DOMAIN t
        PROVE  -j = w.id /\ t[w.id].rid = j
    <2>1. CASE j \in DOMAIN s
      <3>1. t[-j].rid = j
        BY <1>6, <2>1 DEF World, PulledKnows, Pulled
      <3> QED
        BY <1>6, <3>1, <1>4
    <2>2. CASE p = "caldav"
      <3>1. -j = w.id
        <4>1. NoTwin(p, t)
          BY DEF World
        <4>2. -w.id \notin DOMAIN t
          BY <4>1, <1>3, <2>2 DEF NoTwin
        <4> HIDE DEF j
        <4>3. j = w.id \/ -j = w.id
          BY <1>2, <2>2, <1>1, <1>t
        <4> QED
          BY <4>2, <4>3, <1>6
      <3>2. t[w.id].rid = j
        BY <1>3, <2>2 DEF World, CopiesFollow, Follows
      <3> QED
        BY <3>1, <3>2
    <2> QED
      BY <2>1, <2>2
  <1>7. \A x \in DOMAIN s : s[x].by = w.id => x = j \/ (p = "google" /\ w.id \in lo)
    BY DEF CopyKnows
  <1>8. ASSUME NEW x \in DOMAIN s, s[x].by = -j
        PROVE  x = j
    <2>1. CASE j \in DOMAIN s
      BY <1>8, <2>1 DEF World, PulledKnows, Pulled
    <2>2. CASE p = "caldav"
      <3>1. s[x].by \in {x, -x}
        BY <2>2 DEF World, ServerOK
      <3> HIDE DEF j
      <3> QED
        BY <3>1, <1>8, <1>1, <1>t
    <2> QED
      BY <2>1, <2>2
  <1>9. ASSUME j \in DOMAIN s, s[j].by # w.id, s[j].by \in DOMAIN t
        PROVE  p = "google" /\ s[j].by \in lo /\ t[s[j].by].rid # None
    <2>1. t[s[j].by].rid # None
      BY <1>9 DEF World, CopiesUnclaimed
    <2>2. t[s[j].by].rid # j
      BY <1>4, <1>9
    <2> QED
      BY <1>9, <2>1, <2>2 DEF World, RowKnows
  <1> QED
    BY <1>1, <1>2, <1>4, <1>5, <1>6, <1>7, <1>8, <1>9 DEF Target

\* At CalDAV a task without a remote id is written to the resource of its own name.
LEMMA TargetNamed ==
    ASSUME NEW p, NEW s, NEW t, NEW H, NEW lo, NEW un, NEW ov, NEW n, NEW k, NEW f, NEW col,
           col = TRUE, p = "caldav",
           World(p, s, t, H, lo, un, ov, n, k, f, col), CopyKnows(p, s, H, lo),
           NEW w \in H, w.row.rid = None
    PROVE  Target(p, s, t, H, lo, n, w, w.id)
  <1> DEFINE j == w.id
  <1>t. /\ \A x \in DOMAIN s : x \in Nat /\ 1 <= x /\ s[x].by \in Int
        /\ \A x \in DOMAIN t : t[x].rid \in Nat /\ x \in Int
        /\ \A v \in H : v.row.rid \in Nat /\ v.id \in Int
        /\ w.id \in Int /\ w.id <= n
    BY WorldTypes
  <1>1. j \in Nat /\ 1 <= j /\ j <= n
    <2>1. w.id > 0
      BY DEF World, CopiesOK, TaskOK
    <2> QED
      BY <2>1, <1>t
  <1>3. j \in DOMAIN t /\ t[j].rid = None
    <2>1. w.id \in DOMAIN t
      BY DEF World, CopiesHaveRows
    <2>2. Follows(p, t[w.id], w)
      BY <2>1 DEF World, CopiesFollow
    <2> QED
      BY <2>1, <2>2 DEF Follows
  <1>n. -j \notin DOMAIN t
    BY <1>3 DEF World, NoTwin
  <1>4. ASSUME NEW x \in DOMAIN t, t[x].rid = j
        PROVE  x = w.id
    <2>1. t[x].rid \in {None, x, -x}
      BY DEF World, RowsOK, TaskOK
    <2> HIDE DEF j
    <2>2. x = j \/ x = -j
      BY <1>1, <1>4, <2>1, <1>t DEF None
    <2> QED
      BY <1>n, <2>2 DEF j
  <1>5. ASSUME NEW v \in H, v.row.rid = j
        PROVE  v = w
    <2>1. v.row.rid \in {None, v.id, -v.id}
      BY DEF World, CopiesOK, TaskOK
    <2>2. v.id \in DOMAIN t
      BY DEF World, CopiesHaveRows
    <2>3. v.id = w.id
      <3> HIDE DEF j
      <3>1. v.id = j \/ v.id = -j
        BY <1>1, <1>5, <2>1, <1>t DEF None
      <3> QED
        BY <1>n, <2>2, <3>1 DEF j
    <2> QED
      BY <2>3 DEF World, CopiesOK
  <1>7. ASSUME NEW x \in DOMAIN s
        PROVE  /\ s[x].by = w.id => x = j
               /\ x # w.row.rid
    <2>1. s[x].by \in {x, -x}
      BY DEF World, ServerOK
    <2> QED
      BY <2>1, <1>1, <1>t DEF None
  <1>8. ASSUME NEW x \in DOMAIN s, s[x].by = -j
        PROVE  x = j
    <2>1. s[x].by \in {x, -x}
      BY DEF World, ServerOK
    <2> HIDE DEF j
    <2> QED
      BY <2>1, <1>8, <1>1, <1>t
  <1>9. j \in DOMAIN s => s[j].by = w.id
    BY <1>3 DEF World, OwnName
  <1> QED
    BY <1>1, <1>n, <1>4, <1>5, <1>7, <1>8, <1>9 DEF Target

\* At Google a new one.
LEMMA TargetNew ==
    ASSUME NEW p, NEW s, NEW t, NEW H, NEW lo, NEW un, NEW ov, NEW n, NEW k, NEW f, NEW col,
           p = "google",
           World(p, s, t, H, lo, un, ov, n, k, f, col), CopyKnows(p, s, H, lo),
           NEW w \in H, w.row.rid \notin DOMAIN s
    PROVE  /\ Target(p, s, t, H, lo, n + 1, w, n + 1)
           /\ n + 1 \notin DOMAIN s
  <1>t. /\ \A x \in DOMAIN s : /\ x \in Nat /\ x <= n
                               /\ s[x].by \in Int /\ -n <= s[x].by
        /\ \A x \in DOMAIN t : /\ t[x].rid \in Nat /\ t[x].rid <= n
                               /\ x \in Int /\ -n <= x
        /\ \A v \in H : v.row.rid \in Nat /\ v.row.rid <= n
        /\ n \in Nat
    BY WorldTypes
  <1>1. /\ n + 1 \notin DOMAIN s /\ -(n + 1) \notin DOMAIN t
        /\ \A x \in DOMAIN t : t[x].rid # n + 1
        /\ \A v \in H : v.row.rid # n + 1
        /\ \A x \in DOMAIN s : s[x].by # -(n + 1)
    BY <1>t
  <1>2. \A x \in DOMAIN s : s[x].by = w.id => w.id \in lo
    BY DEF CopyKnows
  <1> QED
    BY <1>t, <1>1, <1>2 DEF Target

\* The resource j becomes what w holds, or is found as it is by a create sent again.
WrittenTo(p, s, lo, w, j, z) ==
    /\ DOMAIN z = DOMAIN s \cup {j}
    /\ \A x \in DOMAIN s : x # j => z[x] = s[x]
    /\ z[j].by = IF j \in DOMAIN s THEN s[j].by ELSE w.id
    /\ \/ z[j].c = w.row.c
       \/ /\ p = "caldav" /\ j \in DOMAIN s /\ z = s
          /\ w.id \in lo \/ s[j].c.title = w.row.c.title

\* What is left of a row when its write is recorded.
RecordOf(task, w, j, r) ==
    /\ r.rid = j /\ r.raw = w.row.c /\ r.etag \in {NoContent, w.row.c}
    /\ r.rev = task.rev
    /\ r.op \in {"", "update", "remove"}
    /\ r.op = "" <=> task.rev = w.row.rev
    /\ r.op = "remove" <=> task.rev # w.row.rev /\ task.op = "remove"
    /\ task.rev = w.row.rev => r.c = w.row.c
    /\ task.rev # w.row.rev => r.c = task.c

\* The write is answered and recorded.
LEMMA Answered ==
    ASSUME NEW p, NEW s, NEW t, NEW H, NEW lo, NEW un, NEW ov, NEW n, NEW k, NEW f, NEW col,
           col = TRUE, World(p, s, t, H, lo, un, ov, n, k, f, col),
           Attended(s, t, H), CopyKnows(p, s, H, lo),
           NEW w \in H, w.row.op # "remove", NEW j, Target(p, s, t, H, lo, n, w, j),
           NEW z, z \in [DOMAIN z -> ResourcesOf(k, f)], WrittenTo(p, s, lo, w, j, z),
           NEW r \in TasksOf(k, f), RecordOf(t[w.id], w, j, r)
    PROVE  /\ World(p, z, With(t, w.id, r), H \ {w}, lo, un, ov, n, k, f, col)
           /\ Attended(z, With(t, w.id, r), H \ {w}) /\ CopyKnows(p, z, H \ {w}, lo)
  <1> DEFINE i == w.id
             u == With(t, i, r)
             G == H \ {w}
  <1>i. i \in DOMAIN t
    BY DEF World, CopiesHaveRows
  <1>0. /\ DOMAIN u = DOMAIN t /\ u[i] = r
        /\ \A x \in DOMAIN t : x # i => u[x] = t[x]
    BY <1>i DEF With
  <1>t. /\ \A x \in DOMAIN s : x \in Nat /\ 1 <= x /\ s[x].by \in Int
        /\ \A x \in DOMAIN t : t[x].rid \in Nat /\ x \in Int
        /\ n \in Nat /\ i \in Int
    <2>1. \A x \in DOMAIN s : x \in Nat /\ 1 <= x /\ s[x].by \in Int
      BY WorldTypes
    <2>2. \A x \in DOMAIN t : t[x].rid \in Nat /\ x \in Int
      BY WorldTypes
    <2>3. n \in Nat /\ i \in Int
      BY WorldTypes
    <2> QED
      BY <2>1, <2>2, <2>3
  <1>p. t[i].op \in {"", "create", "update", "remove"}
    BY <1>i, WorldTypes
  <1>j. /\ j \in Nat /\ 1 <= j /\ j <= n
        /\ p = "caldav" => j \in {i, -i}
    BY DEF Target
  <1>a. /\ \A x \in DOMAIN t : t[x].rid = j => x = i
        /\ \A v \in G : v.row.rid # j
        /\ -j \in DOMAIN t => -j = i
    BY DEF Target
  <1>b. \A x \in DOMAIN s : /\ s[x].by = i => x = j \/ (p = "google" /\ i \in lo)
                            /\ x = w.row.rid => x = j
                            /\ s[x].by = -j => x = j
    BY DEF Target
  <1>z. /\ DOMAIN z = DOMAIN s \cup {j}
        /\ \A x \in DOMAIN s : x # j => z[x] = s[x]
        /\ z[j].by = i \/ (j \in DOMAIN s /\ z[j].by = s[j].by)
        /\ j \in DOMAIN s => z[j].by = s[j].by
    BY DEF WrittenTo
  <1>c. \/ z[j].c = w.row.c
        \/ p = "caldav" /\ (i \in lo \/ z[j].c.title = w.row.c.title)
    BY DEF WrittenTo
  <1>d. z[j].by = i \/ z[j].by \notin DOMAIN t
        \/ (p = "google" /\ z[j].by \in lo /\ t[z[j].by].rid # None)
    BY <1>z DEF Target
  <1>g. \A v \in G : v \in H /\ v.id # i
    BY DEF World, CopiesOK
  <1>e. r.rid = j /\ r.rid # None
    <2>1. r.rid = j
      BY DEF RecordOf
    <2> QED
      BY <2>1, <1>j DEF None
  <1>f. Follows(p, t[i], w)
    BY <1>i DEF World, CopiesFollow
  <1>h. r.c.title = t[i].c.title
    BY <1>f DEF Follows, RecordOf
  <1>o. r.op \in {"", "update", "remove"}
    BY DEF RecordOf
  <1>s. r.op = "" => r.c = w.row.c
    BY DEF RecordOf
  <1>r. r.op = "remove" <=> t[i].op = "remove"
    <2>1. r.op = "remove" <=> t[i].rev # w.row.rev /\ t[i].op = "remove"
      BY DEF RecordOf
    <2>2. t[i].rev = w.row.rev => t[i].op # "remove"
      BY <1>f DEF Follows
    <2> QED
      BY <2>1, <2>2
  <1> HIDE DEF i, G
  <1>1. ServerOK(p, z, n, k, f)
    <2>1. \A x \in DOMAIN z : x \in 1..n
      BY <1>z, <1>t, <1>j DEF World, ServerOK
    <2>2. i \in (-n)..n
      BY DEF World, CopiesOK, i
    <2>3. \A x \in DOMAIN z : z[x].by \in (-n)..n
      BY <2>2, <1>z DEF World, ServerOK
    <2>4. ASSUME p = "caldav", NEW x \in DOMAIN z
          PROVE  z[x].by \in {x, -x}
      <3>1. i \in {j, -j}
        BY <2>4, <1>j, <1>t
      <3> QED
        BY <3>1, <2>4, <1>z DEF World, ServerOK
    <2> QED
      BY <2>1, <2>3, <2>4 DEF ServerOK
  <1>2. RowsOK(p, u, n, k, f)
    <2>1. u \in [DOMAIN u -> TasksOf(k, f)]
      BY <1>i DEF With, World, RowsOK
    <2>2. i \in RowIds /\ i \in (-n)..n /\ TaskOK(p, i, t[i])
      BY <1>i DEF World, RowsOK
    <2>3. TaskOK(p, i, r)
      <3>1. p = "caldav" => r.rid \in {i, -i}
        BY <1>j, <1>e
      <3>2. ASSUME r.op = "update"
            PROVE  r.c.title # 0
        <4>1. t[i].op # "" /\ t[i].op # "remove"
          BY <3>2, <1>f, <1>r DEF Follows
        <4>2. t[i].op \in {"create", "update"}
          BY <4>1, <1>p
        <4>3. t[i].c.title # 0
          BY <4>2, <2>2 DEF TaskOK
        <4> QED
          BY <4>3, <1>h
      <3> QED
        BY <3>1, <3>2, <1>e, <1>o DEF TaskOK
    <2> HIDE DEF u
    <2> QED
      BY <2>1, <2>2, <2>3, <1>0, <1>e, <1>j DEF World, RowsOK
  <1> HIDE DEF u
  <1>3. CopiesOK(p, G, n, k, f)
    BY <1>g DEF World, CopiesOK
  <1>4. RowsDistinct(u) /\ NoTwin(p, u)
    BY <1>0, <1>e, <1>a DEF World, RowsDistinct, NoTwin
  <1>5. CopiesFollow(p, u, G)
    BY <1>0, <1>g DEF World, CopiesFollow
  <1>6. CopiesHaveRows(u, G, col)
    BY <1>0, <1>g DEF World, CopiesHaveRows
  <1>7. CopiesDistinct(u, G, col)
    BY <1>0, <1>g, <1>e, <1>a DEF World, CopiesDistinct
  <1>8. SameTitle(p, z, u, lo)
    <2> SUFFICES ASSUME NEW x \in DOMAIN u, u[x].op = "", u[x].rid \in DOMAIN z
                 PROVE  (p = "caldav" /\ x \in lo) \/ z[u[x].rid].c.title = u[x].c.title
      BY DEF SameTitle
    <2>1. CASE x = i
      BY <2>1, <1>0, <1>e, <1>c, <1>s
    <2>2. CASE x # i
      BY <2>2, <1>0, <1>a, <1>z DEF World, SameTitle
    <2> QED
      BY <2>1, <2>2
  <1>9. OneEach(p, z, lo)
    <2> SUFFICES ASSUME NEW x \in DOMAIN z, NEW y \in DOMAIN z, z[x].by = z[y].by, x # y
                 PROVE  p = "google" /\ z[x].by \in lo
      BY DEF OneEach
    <2>1. CASE j \in DOMAIN s
      BY <2>1, <1>z DEF World, OneEach
    <2>2. CASE j \notin DOMAIN s
      BY <2>2, <1>z, <1>b DEF World, OneEach
    <2> QED
      BY <2>1, <2>2
  <1>10. RowKnows(p, z, u, lo, un)
    <2> SUFFICES ASSUME NEW y \in DOMAIN z, z[y].by \in DOMAIN t
                 PROVE  \/ p = "google" /\ z[y].by \in lo
                        \/ u[z[y].by].rid = y
                        \/ /\ u[z[y].by].rid = None /\ z[y].by \in un
                           /\ Resembles(p, z[y].by, u[z[y].by], z[y].c, lo)
      BY <1>0 DEF RowKnows
    <2>1. CASE y = j
      BY <2>1, <1>d, <1>0, <1>e
    <2>2. CASE y # j /\ z[y].by = i
      BY <2>2, <1>z, <1>b
    <2>3. CASE y # j /\ z[y].by # i
      BY <2>3, <1>z, <1>0 DEF World, RowKnows
    <2> QED
      BY <2>1, <2>2, <2>3
  <1>11. \A y \in DOMAIN z : z[y].by \in DOMAIN u /\ u[z[y].by].rid = None =>
           y # j /\ y \in DOMAIN s /\ z[y] = s[y] /\ z[y].by # i /\ t[s[y].by].rid = None
    BY <1>0, <1>z, <1>d, <1>e
  <1>12. Unclaimed(z, u) /\ CopiesUnclaimed(z, u, G)
    BY <1>11, <1>0, <1>e, <1>g DEF World, Unclaimed, CopiesUnclaimed
  <1>13. Attended(z, u, G)
    <2> SUFFICES ASSUME NEW y \in DOMAIN z, z[y].by \in DOMAIN u, u[z[y].by].rid = None
                 PROVE  \E v \in G : v.id = z[y].by
      BY DEF Attended
    <2>1. y \in DOMAIN s /\ z[y] = s[y] /\ s[y].by # i /\ t[s[y].by].rid = None
      BY <1>11
    <2>2. PICK v \in H : v.id = s[y].by
      BY <2>1, <1>0 DEF Attended
    <2>3. v \in G
      BY <2>1, <2>2 DEF G, i
    <2> QED
      BY <2>1, <2>2, <2>3
  <1>14. OwnName(p, z, u)
    <2> SUFFICES ASSUME p = "caldav", NEW x \in DOMAIN t, u[x].rid = None, x \in DOMAIN z
                 PROVE  z[x].by = x
      BY <1>0 DEF OwnName
    <2>1. x # i
      BY <1>0, <1>e
    <2>2. x # j
      <3>1. -i \notin DOMAIN t
        BY <1>i DEF World, NoTwin
      <3> QED
        BY <3>1, <2>1, <1>j
    <2> QED
      BY <2>1, <2>2, <1>0, <1>z DEF World, OwnName
  <1>15. PulledKnows(z, u, G)
    <2>1. ASSUME NEW y \in DOMAIN z, NEW x \in DOMAIN z, z[x].by = Pulled(y)
          PROVE  x = y
      <3>1. CASE j \in DOMAIN s
        BY <2>1, <3>1, <1>z DEF World, PulledKnows
      <3>2. CASE j \notin DOMAIN s
        <4>1. CASE x # j /\ y # j
          BY <2>1, <4>1, <1>z DEF World, PulledKnows
        <4>2. CASE x = j /\ y # j
          <5>1. y \in DOMAIN s /\ w.id = Pulled(y)
            BY <2>1, <3>2, <4>2, <1>z DEF i
          <5>2. w.row.rid = y
            BY <5>1 DEF World, PulledKnows
          <5> QED
            BY <5>1, <5>2, <4>2, <1>b
        <4>3. CASE x # j /\ y = j
          BY <2>1, <4>3, <1>z, <1>b DEF Pulled
        <4> QED
          BY <4>1, <4>2, <4>3
      <3> QED
        BY <3>1, <3>2
    <2>2. ASSUME NEW y \in DOMAIN z, Pulled(y) \in DOMAIN t
          PROVE  u[Pulled(y)].rid = y
      <3>1. CASE y = j
        BY <2>2, <3>1, <1>a, <1>0, <1>e DEF Pulled
      <3>2. CASE y # j /\ Pulled(y) = i
        <4>1. w.row.rid = y
          BY <3>2, <1>z DEF World, PulledKnows, i
        <4> QED
          BY <4>1, <3>2, <1>b, <1>z
      <3>3. CASE y # j /\ Pulled(y) # i
        BY <2>2, <3>3, <1>0, <1>z DEF World, PulledKnows
      <3> QED
        BY <3>1, <3>2, <3>3
    <2>3. ASSUME NEW y \in DOMAIN z, NEW v \in G, v.id = Pulled(y)
          PROVE  v.row.rid = y
      <3>1. CASE y = j
        <4>1. v.id \in DOMAIN t
          BY <1>g DEF World, CopiesHaveRows
        <4> QED
          BY <2>3, <3>1, <4>1, <1>a, <1>g DEF Pulled
      <3>2. CASE y # j
        BY <2>3, <3>2, <1>z, <1>g DEF World, PulledKnows
      <3> QED
        BY <3>1, <3>2
    <2> QED
      BY <2>1, <2>2, <2>3, <1>0 DEF PulledKnows
  <1>16. CopyKnows(p, z, G, lo)
    <2> SUFFICES ASSUME NEW v \in G, NEW y \in DOMAIN z, z[y].by = v.id
                 PROVE  \/ y = v.row.rid
                        \/ p = "google" /\ v.id \in lo
                        \/ /\ p = "caldav" /\ v.row.rid = None
                           /\ Resembles(p, v.id, v.row, z[y].c, lo)
      BY DEF CopyKnows
    <2>1. v.id \in DOMAIN t
      BY <1>g DEF World, CopiesHaveRows
    <2>2. CASE y = j
      BY <2>1, <2>2, <1>d, <1>g
    <2>3. CASE y # j
      BY <2>3, <1>z, <1>g DEF CopyKnows
    <2> QED
      BY <2>2, <2>3
  <1>17. CopyRecognises(p, z, G, lo)
    BY <1>16 DEF CopyKnows, CopyRecognises
  <1>18. CopyMatched(p, z, u, G, lo)
    BY <1>0, <1>z, <1>g, <1>a DEF World, CopyMatched
  <1>19. TitlesOwned(p, z, u, G)
    <2> SUFFICES ASSUME p = "google"
                 PROVE  /\ \A x \in DOMAIN u : u[x].rid = None =>
                             TitleOwned(z, u, G, x, u[x].c.title)
                        /\ \A v \in G : v.row.rid = None =>
                             TitleOwned(z, u, G, v.id, v.row.c.title)
      BY DEF TitlesOwned
    <2>1. ASSUME NEW title, NEW x, TitleOwned(s, t, H, x, title), x # i
          PROVE  TitleOwned(z, u, G, x, title)
      <3>1. w.row.c.title # title
        BY <2>1 DEF TitleOwned, i
      <3>2. \A y \in DOMAIN z : z[y].c.title = title => z[y].by = x
        BY <2>1, <3>1, <1>c, <1>z DEF TitleOwned
      <3>3. \A y \in DOMAIN u : u[y].c.title = title => y = x
        BY <2>1, <1>0, <1>h, <1>i DEF TitleOwned
      <3> QED
        BY <2>1, <3>2, <3>3, <1>g DEF TitleOwned
    <2>2. /\ \A x \in DOMAIN t : t[x].rid = None => TitleOwned(s, t, H, x, t[x].c.title)
          /\ \A v \in H : v.row.rid = None => TitleOwned(s, t, H, v.id, v.row.c.title)
      BY DEF World, TitlesOwned
    <2> QED
      BY <2>1, <2>2, <1>0, <1>e, <1>g
  <1>20. RowNotes(p, u, ov)
    <2> SUFFICES ASSUME p = "caldav", i \notin ov, r.op # "remove"
                 PROVE  NotesOK(r)
      BY <1>0 DEF World, RowNotes
    <2>1. t[i].rev = w.row.rev \/ t[i].op = "remove"
      BY <1>i DEF World, OvertakenSeen, i
    <2>2. t[i].rev = w.row.rev
      BY <2>1, <1>r
    <2>3. r.op = "" /\ r.c = w.row.c /\ r.raw = w.row.c /\ r.etag \in {NoContent, w.row.c}
      BY <2>2 DEF RecordOf, i
    <2> QED
      BY <2>3 DEF NotesOK
  <1>21. CopyNotes(p, G, ov) /\ OvertakenSeen(p, u, G, ov)
    BY <1>0, <1>g DEF World, CopyNotes, OvertakenSeen
  <1>22. RowsChange(p, u)
    <2>1. Changes(r)
      <3> SUFFICES ASSUME r.op = "update"
                   PROVE  r.c.title # r.raw.title
        BY DEF Changes
      <3>1. t[i].rev # w.row.rev /\ r.raw = w.row.c
        BY DEF RecordOf, i
      <3> QED
        BY <3>1, <1>f, <1>h, <1>r DEF Follows
    <2> QED
      BY <2>1, <1>0 DEF World, RowsChange
  <1>23. World(p, z, u, G, lo, un, ov, n, k, f, col)
    BY <1>1, <1>2, <1>3, <1>4, <1>5, <1>6, <1>7, <1>8, <1>9, <1>10, <1>12, <1>14, <1>15,
       <1>17, <1>18, <1>19, <1>20, <1>21, <1>22 DEF World
  <1> QED
    BY <1>13, <1>16, <1>23 DEF u, G, i

\* The server carries the write out and the job ends without its answer.  A row that was
\* not told of its resource is recognised by it or lost.
LEMMA Unanswered ==
    ASSUME NEW p, NEW s, NEW t, NEW H, NEW lo, NEW un, NEW ov, NEW n, NEW k, NEW f, NEW col,
           col = TRUE, World(p, s, t, H, lo, un, ov, n, k, f, col),
           NEW w \in H, w.row.op # "remove", NEW j, Target(p, s, t, H, lo, n, w, j),
           j \in DOMAIN s => j = w.row.rid,
           NEW z, z \in [DOMAIN z -> ResourcesOf(k, f)], WrittenTo(p, s, lo, w, j, z),
           z[j].c = w.row.c,
           NEW lo2, NEW un2, lo \subseteq lo2, un \subseteq un2,
           \/ j \in DOMAIN s \/ t[w.id].rid = j \/ (p = "google" /\ w.id \in lo2)
           \/ /\ t[w.id].rid = None /\ w.id \in un2
              /\ Resembles(p, w.id, t[w.id], w.row.c, lo2)
    PROVE  World(p, z, t, {}, lo2, un2, ov, n, k, f, col)
  <1> DEFINE i == w.id
  <1>i. i \in DOMAIN t
    BY DEF World, CopiesHaveRows
  <1>w. World(p, s, t, {}, lo2, un2, ov, n, k, f, col)
    <2>1. World(p, s, t, {}, lo, un, ov, n, k, f, col)
      BY CopiesDropped
    <2>2. n \in Nat /\ k \in Nat /\ f \in Nat
      BY DEF World
    <2>3. n >= n /\ k >= k /\ f >= f
      BY <2>2
    <2> QED
      BY <2>1, <2>2, <2>3, WorldGrows
  <1>t. /\ \A x \in DOMAIN s : x \in Nat /\ 1 <= x /\ s[x].by \in Int
        /\ \A x \in DOMAIN t : t[x].rid \in Nat /\ x \in Int
        /\ n \in Nat /\ i \in Int
    <2>1. \A x \in DOMAIN s : x \in Nat /\ 1 <= x /\ s[x].by \in Int
      BY WorldTypes
    <2>2. \A x \in DOMAIN t : t[x].rid \in Nat /\ x \in Int
      BY WorldTypes
    <2>3. n \in Nat /\ i \in Int
      BY WorldTypes
    <2> QED
      BY <2>1, <2>2, <2>3
  <1>j. /\ j \in Nat /\ 1 <= j /\ j <= n
        /\ p = "caldav" => j \in {i, -i}
    BY DEF Target
  <1>a. /\ \A x \in DOMAIN t : t[x].rid = j => x = i
        /\ -j \in DOMAIN t => -j = i /\ t[i].rid = j
    BY DEF Target
  <1>b. \A x \in DOMAIN s : /\ s[x].by = i => x = j \/ (p = "google" /\ i \in lo)
                            /\ x = w.row.rid => x = j
                            /\ s[x].by = -j => x = j
    BY DEF Target
  <1>z. /\ DOMAIN z = DOMAIN s \cup {j}
        /\ \A x \in DOMAIN s : x # j => z[x] = s[x]
        /\ z[j].by = i \/ (j \in DOMAIN s /\ z[j].by = s[j].by)
        /\ j \in DOMAIN s => z[j].by = s[j].by
    BY DEF WrittenTo
  <1>d. z[j].by = i \/ z[j].by \notin DOMAIN t
        \/ (p = "google" /\ z[j].by \in lo /\ t[z[j].by].rid # None)
    BY <1>z DEF Target
  <1>f. Follows(p, t[i], w)
    BY <1>i DEF World, CopiesFollow
  <1>o. t[i].op # ""
    BY <1>f DEF Follows
  <1>l. lo \subseteq lo2 /\ un \subseteq un2
    OBVIOUS
  <1>1. ServerOK(p, z, n, k, f)
    <2>1. \A x \in DOMAIN z : x \in 1..n
      BY <1>z, <1>t, <1>j DEF World, ServerOK
    <2>2. i \in (-n)..n
      BY DEF World, CopiesOK, i
    <2> HIDE DEF i
    <2>3. \A x \in DOMAIN z : z[x].by \in (-n)..n
      BY <2>2, <1>z DEF World, ServerOK
    <2>4. ASSUME p = "caldav", NEW x \in DOMAIN z
          PROVE  z[x].by \in {x, -x}
      <3>1. i \in {j, -j}
        BY <2>4, <1>j, <1>t
      <3> QED
        BY <3>1, <2>4, <1>z DEF World, ServerOK
    <2> QED
      BY <2>1, <2>3, <2>4 DEF ServerOK
  <1>m. /\ p = "google" /\ t[i].rid = None /\ j \in DOMAIN s =>
             z[j].by = i /\ (i \in lo \/ s[j].c = w.row.c)
    BY <1>z, <1>i DEF World, CopyMatched
  <1> HIDE DEF i
  <1>8. SameTitle(p, z, t, lo2)
    <2> SUFFICES ASSUME NEW x \in DOMAIN t, t[x].op = "", t[x].rid \in DOMAIN z
                 PROVE  (p = "caldav" /\ x \in lo) \/ z[t[x].rid].c.title = t[x].c.title
      BY <1>l DEF SameTitle
    <2>1. t[x].rid # j
      BY <1>a, <1>o
    <2> QED
      BY <2>1, <1>z DEF World, SameTitle
  <1>9. OneEach(p, z, lo2)
    <2> SUFFICES ASSUME NEW x \in DOMAIN z, NEW y \in DOMAIN z, z[x].by = z[y].by, x # y
                 PROVE  p = "google" /\ z[x].by \in lo
      BY <1>l DEF OneEach
    <2>1. CASE j \in DOMAIN s
      BY <2>1, <1>z DEF World, OneEach
    <2>2. CASE j \notin DOMAIN s
      BY <2>2, <1>z, <1>b DEF World, OneEach
    <2> QED
      BY <2>1, <2>2
  <1>10. RowKnows(p, z, t, lo2, un2)
    <2> SUFFICES ASSUME NEW y \in DOMAIN z, z[y].by \in DOMAIN t,
                        ~(p = "google" /\ z[y].by \in lo2)
                 PROVE  \/ t[z[y].by].rid = y
                        \/ /\ t[z[y].by].rid = None /\ z[y].by \in un2
                           /\ Resembles(p, z[y].by, t[z[y].by], z[y].c, lo2)
      BY DEF RowKnows
    <2>1. CASE y # j
      BY <2>1, <1>z, <1>w DEF World, RowKnows
    <2>2. CASE y = j
      <3>1. z[y].by = i /\ ~(p = "google" /\ (i \in lo2 \/ i \in lo))
        BY <2>2, <1>d, <1>l
      <3>2. CASE j \in DOMAIN s /\ p = "google"
        <4>1. \/ t[i].rid = j
              \/ /\ t[i].rid = None /\ i \in un2
                 /\ Resembles(p, i, t[i], s[j].c, lo2)
          BY <2>2, <3>1, <3>2, <1>z, <1>w DEF World, RowKnows
        <4> QED
          BY <2>2, <3>1, <3>2, <4>1, <1>m DEF Resembles
      <3>3. CASE j \in DOMAIN s /\ p # "google"
        <4>1. j = w.row.rid /\ t[i].rid = w.row.rid
          BY <3>3, <1>f DEF Follows
        <4> QED
          BY <2>2, <3>1, <4>1
      <3>4. CASE j \notin DOMAIN s
        <4>1. \/ t[i].rid = j
              \/ /\ t[i].rid = None /\ i \in un2
                 /\ Resembles(p, i, t[i], w.row.c, lo2)
          BY <3>1, <3>4 DEF i
        <4> QED
          BY <2>2, <3>1, <4>1
      <3> QED
        BY <3>2, <3>3, <3>4
    <2> QED
      BY <2>1, <2>2
  <1>12. Unclaimed(z, t)
    <2> SUFFICES ASSUME NEW y \in DOMAIN z, z[y].by \in DOMAIN t, t[z[y].by].rid = None,
                        NEW x \in DOMAIN t, t[x].rid = y
                 PROVE  FALSE
      BY DEF Unclaimed
    <2>1. CASE y # j
      BY <2>1, <1>z DEF World, Unclaimed
    <2>2. CASE y = j
      <3>1. x = i
        BY <2>2, <1>a
      <3>2. z[j].by = i
        BY <2>2, <1>d
      <3> QED
        BY <2>2, <3>1, <3>2, <1>j DEF None
    <2> QED
      BY <2>1, <2>2
  <1>13. CopiesUnclaimed(z, t, {}) /\ CopyRecognises(p, z, {}, lo2) /\ CopyMatched(p, z, t, {}, lo2)
    BY DEF CopiesUnclaimed, CopyRecognises, CopyMatched
  <1>14. OwnName(p, z, t)
    <2> SUFFICES ASSUME p = "caldav", NEW x \in DOMAIN t, t[x].rid = None, x \in DOMAIN z
                 PROVE  z[x].by = x
      BY DEF OwnName
    <2>1. CASE x # j
      BY <2>1, <1>z DEF World, OwnName
    <2>2. CASE x = j
      <3>1. -i \notin DOMAIN t
        BY <1>i DEF World, NoTwin
      <3>2. j = i
        BY <3>1, <2>2, <1>j
      <3> QED
        BY <2>2, <3>2, <1>z DEF World, OwnName
    <2> QED
      BY <2>1, <2>2
  <1>15. PulledKnows(z, t, {})
    <2>1. ASSUME NEW y \in DOMAIN z, NEW x \in DOMAIN z, z[x].by = Pulled(y)
          PROVE  x = y
      <3>1. CASE j \in DOMAIN s
        BY <2>1, <3>1, <1>z DEF World, PulledKnows
      <3>2. CASE j \notin DOMAIN s
        <4>1. CASE x # j /\ y # j
          BY <2>1, <4>1, <1>z DEF World, PulledKnows
        <4>2. CASE x = j /\ y # j
          <5>1. y \in DOMAIN s /\ w.id = Pulled(y)
            BY <2>1, <3>2, <4>2, <1>z DEF i
          <5>2. w.row.rid = y
            BY <5>1 DEF World, PulledKnows
          <5> QED
            BY <5>1, <5>2, <4>2, <1>b
        <4>3. CASE x # j /\ y = j
          BY <2>1, <4>3, <1>z, <1>b DEF Pulled
        <4> QED
          BY <4>1, <4>2, <4>3
      <3> QED
        BY <3>1, <3>2
    <2>2. ASSUME NEW y \in DOMAIN z, Pulled(y) \in DOMAIN t
          PROVE  t[Pulled(y)].rid = y
      <3>1. CASE y = j
        BY <2>2, <3>1, <1>a DEF Pulled
      <3>3. CASE y # j
        BY <2>2, <3>3, <1>z DEF World, PulledKnows
      <3> QED
        BY <3>1, <3>3
    <2> QED
      BY <2>1, <2>2 DEF PulledKnows
  <1>19. TitlesOwned(p, z, t, {})
    <2> SUFFICES ASSUME p = "google", NEW x \in DOMAIN t, t[x].rid = None
                 PROVE  TitleOwned(z, t, {}, x, t[x].c.title)
      BY DEF TitlesOwned
    <2>1. TitleOwned(s, t, H, x, t[x].c.title)
      BY DEF World, TitlesOwned
    <2>2. ASSUME w.row.c.title = t[x].c.title
          PROVE  z[j].by = x
      <3>1. x = i
        BY <2>1, <2>2 DEF TitleOwned, i
      <3> QED
        BY <3>1, <1>m, <1>z
    <2> QED
      BY <2>1, <2>2, <1>z DEF TitleOwned
  <1> QED
    BY <1>w, <1>1, <1>8, <1>9, <1>10, <1>12, <1>13, <1>14, <1>15, <1>19 DEF World

-----------------------------------------------------------------------------
\* CalDAV reads what others wrote before it writes again.

\* g is the copy w with the notes and the ETag of the server.
RebasedOf(w, g) ==
    /\ g.id = w.id /\ g.row.rid = w.row.rid /\ g.row.op = w.row.op
    /\ g.row.rev = w.row.rev /\ g.row.c.title = w.row.c.title

LEMMA CopyRebased ==
    ASSUME NEW p, NEW s, NEW t, NEW H, NEW lo, NEW un, NEW ov, NEW n, NEW k, NEW f, NEW col,
           p = "caldav", World(p, s, t, H, lo, un, ov, n, k, f, col),
           Attended(s, t, H), CopyKnows(p, s, H, lo),
           NEW w \in H, NEW g \in WritesOf(k, f), RebasedOf(w, g),
           w.id \in ov \/ w.row.op = "remove" \/ NotesOK(g.row)
    PROVE  /\ World(p, s, t, (H \ {w}) \cup {g}, lo, un, ov, n, k, f, col)
           /\ Attended(s, t, (H \ {w}) \cup {g}) /\ CopyKnows(p, s, (H \ {w}) \cup {g}, lo)
  <1> DEFINE G == (H \ {w}) \cup {g}
  <1>e. g.id = w.id /\ g.row.rid = w.row.rid
    BY DEF RebasedOf
  <1>o. g.row.op = w.row.op
    BY DEF RebasedOf
  <1>v. g.row.rev = w.row.rev
    BY DEF RebasedOf
  <1>c. g.row.c.title = w.row.c.title
    BY DEF RebasedOf
  <1>g. \A v \in G : v = g \/ (v \in H /\ v # w)
    OBVIOUS
  <1>u. \A v \in H : v # w => v.id # w.id
    BY DEF World, CopiesOK
  <1>h. \A v \in H : \E x \in G : x.id = v.id
    BY <1>e
  <1>s. G \subseteq WritesOf(k, f)
    BY DEF World, CopiesOK
  <1> HIDE DEF G
  <1>1. CopiesOK(p, G, n, k, f)
    <2>1. /\ w.id \in (-n)..n /\ w.row.rid <= n /\ TaskOK(p, w.id, w.row)
          /\ w.row.op # ""
      BY DEF World, CopiesOK
    <2>2. TaskOK(p, g.id, g.row)
      BY <2>1, <1>e, <1>o, <1>c DEF TaskOK
    <2>3. \A v \in H : /\ v.id \in (-n)..n /\ v.row.rid <= n /\ TaskOK(p, v.id, v.row)
                       /\ v.row.op # ""
      BY DEF World, CopiesOK
    <2>4. \A v, x \in H : v.id = x.id => v = x
      BY DEF World, CopiesOK
    <2>5. \A v, x \in G : v.id = x.id => v = x
      BY <2>4, <1>g, <1>u, <1>e
    <2>6. \A v \in G : /\ v.id \in (-n)..n /\ v.row.rid <= n /\ TaskOK(p, v.id, v.row)
                       /\ v.row.op # ""
      BY <2>1, <2>2, <2>3, <1>g, <1>e, <1>o
    <2> QED
      BY <2>5, <2>6, <1>s DEF CopiesOK
  <1>2. CopiesFollow(p, t, G)
    <2>1. w.id \in DOMAIN t => Follows(p, t[w.id], w)
      BY DEF World, CopiesFollow
    <2>2. w.id \in DOMAIN t => Follows(p, t[w.id], g)
      BY <2>1, <1>e, <1>o, <1>v, <1>c DEF Follows
    <2> QED
      BY <2>2, <1>g, <1>e DEF World, CopiesFollow
  <1>3. CopiesHaveRows(t, G, col)
    BY <1>g, <1>e DEF World, CopiesHaveRows
  <1>4. CopiesDistinct(t, G, col)
    <2>1. col => \A v \in G : \A x \in DOMAIN t :
                   t[x].rid = v.row.rid => x = v.id \/ t[x].rid = None
      BY <1>g, <1>e DEF World, CopiesDistinct
    <2>2. col => \A v, x \in G : v.row.rid = x.row.rid => v = x \/ v.row.rid = None
      BY <1>g, <1>e DEF World, CopiesDistinct
    <2> QED
      BY <2>1, <2>2 DEF CopiesDistinct
  <1>5. CopiesUnclaimed(s, t, G) /\ CopyKnows(p, s, G, lo)
    BY <1>g, <1>e DEF World, CopiesUnclaimed, CopyKnows, Resembles, RebasedOf
  <1>6. PulledKnows(s, t, G)
    BY <1>g, <1>e DEF World, PulledKnows
  <1>7. CopyRecognises(p, s, G, lo)
    BY <1>5 DEF CopyKnows, CopyRecognises
  <1>8. CopyMatched(p, s, t, G, lo) /\ TitlesOwned(p, s, t, G)
    BY DEF CopyMatched, TitlesOwned
  <1>9. CopyNotes(p, G, ov)
    BY <1>g, <1>e, <1>o DEF World, CopyNotes
  <1>10. OvertakenSeen(p, t, G, ov)
    BY <1>g, <1>e, <1>v DEF World, OvertakenSeen
  <1>11. Attended(s, t, G)
    BY <1>h DEF Attended
  <1>12. World(p, s, t, G, lo, un, ov, n, k, f, col)
    BY <1>1, <1>2, <1>3, <1>4, <1>5, <1>6, <1>7, <1>8, <1>9, <1>10 DEF World
  <1> QED
    BY <1>5, <1>11, <1>12 DEF G

-----------------------------------------------------------------------------
\* The list is read and applied.

\* The row r has taken the resource over, and the row was inserted for the resource j.
TakenOf(s, task, r) ==
    /\ task.op = "" /\ r.op = "" /\ r.rid = task.rid /\ r.rid \in DOMAIN s
    /\ r.c = s[r.rid].c /\ r.raw = r.c /\ r.etag = r.c
InsertedOf(s, t, j, r) ==
    /\ j \in DOMAIN s /\ \A x \in DOMAIN t : t[x].rid # j
    /\ r.op = "" /\ r.rid = j /\ r.c = s[j].c /\ r.raw = r.c /\ r.etag = r.c

\* u is the table t after the resources s were applied to it.
PulledTable(s, t, u) ==
    /\ \A x \in DOMAIN u \cap DOMAIN t : u[x] = t[x] \/ TakenOf(s, t[x], u[x])
    /\ \A x \in DOMAIN u \ DOMAIN t : \E j \in DOMAIN s :
         x = Pulled(j) /\ InsertedOf(s, t, j, u[x])

LEMMA TakenIs ==
    ASSUME NEW B, NEW O, NEW c \in B,
           NEW r \in [rid : Nat, etag : B, raw : B, c : B, op : O, rev : Nat]
    PROVE  /\ Taken(r, c) \in [rid : Nat, etag : B, raw : B, c : B, op : O, rev : Nat]
           /\ Taken(r, c).op = r.op /\ Taken(r, c).rid = r.rid
           /\ Taken(r, c).c = c /\ Taken(r, c).raw = c /\ Taken(r, c).etag = c
  <1> DEFINE v == r.rev + 1
             e == [r EXCEPT !.c = c, !.etag = c, !.raw = c, !.rev = v]
  <1>1. v \in Nat /\ Taken(r, c) = e
    BY DEF Taken
  <1> HIDE DEF v
  <1>2. e \in [rid : Nat, etag : B, raw : B, c : B, op : O, rev : Nat]
    BY <1>1
  <1>3. e.op = r.op /\ e.rid = r.rid /\ e.c = c /\ e.raw = c /\ e.etag = c
    OBVIOUS
  <1> QED
    BY <1>1, <1>2, <1>3

LEMMA RemoteApplied ==
    ASSUME NEW p, NEW s, NEW t, NEW H, NEW lo, NEW un, NEW ov, NEW n, NEW k, NEW f, NEW col,
           World(p, s, t, H, lo, un, ov, n, k, f, col), NEW hidden, NEW complete
    PROVE  /\ LET u == ApplyRemoteTasks(t, Without(s, hidden), complete)
              IN u \in [DOMAIN u -> TasksOf(k, f)] /\ PulledTable(s, t, u)
           /\ \A x \in DOMAIN t \ DOMAIN ApplyRemoteTasks(t, Without(s, hidden), complete) :
                complete /\ t[x].rid \notin DOMAIN Without(s, hidden) \cup {None}
  <1> DEFINE m == Without(s, hidden)
             fresh == {j \in DOMAIN m : RowOf(t, j) = {}}
             stale == {i \in DOMAIN t : /\ complete /\ t[i].op = ""
                                        /\ t[i].rid \notin DOMAIN m \cup {None}}
             v(i) == IF i \notin DOMAIN t
                     THEN [rid |-> -i, etag |-> m[-i].c,
                           raw |-> m[-i].c, c |-> m[-i].c, op |-> "", rev |-> 1]
                     ELSE IF \/ t[i].rid \notin DOMAIN m \/ t[i].op # ""
                             \/ t[i].etag = m[t[i].rid].c THEN t[i]
                     ELSE Taken(t[i], m[t[i].rid].c)
             D == (DOMAIN t \ stale) \cup {Pulled(j) : j \in fresh}
             u == [i \in D |-> v(i)]
  <1>1. u = ApplyRemoteTasks(t, m, complete)
    BY DEF ApplyRemoteTasks
  <1>m. DOMAIN m \subseteq DOMAIN s /\ \A j \in DOMAIN m : m[j] = s[j]
    BY DEF Without
  <1>t. /\ \A x \in DOMAIN t : t[x] \in TasksOf(k, f)
        /\ \A j \in DOMAIN s : s[j].c \in Known(k, f) /\ j \in Nat
    BY WorldTypes
  <1>f. \A j \in fresh : j \in DOMAIN m /\ \A x \in DOMAIN t : t[x].rid # j
    BY DEF RowOf
  <1>k. ASSUME NEW task \in TasksOf(k, f), NEW c \in Known(k, f)
        PROVE  /\ Taken(task, c) \in TasksOf(k, f)
               /\ Taken(task, c).op = task.op /\ Taken(task, c).rid = task.rid
               /\ Taken(task, c).c = c /\ Taken(task, c).raw = c /\ Taken(task, c).etag = c
    <2> DEFINE B == Known(k, f)
               O == {"", "create", "update", "remove"}
    <2>1. TasksOf(k, f) = [rid : Nat, etag : B, raw : B, c : B, op : O, rev : Nat]
      BY DEF TasksOf
    <2>2. c \in B
      OBVIOUS
    <2> HIDE DEF B, O
    <2> QED
      BY <2>1, <2>2, TakenIs
  <1>r. ASSUME NEW j \in Nat, NEW c \in Known(k, f)
        PROVE  [rid |-> j, etag |-> c, raw |-> c, c |-> c, op |-> "", rev |-> 1]
                    \in TasksOf(k, f)
    <2>1. ASSUME NEW B, NEW O, NEW b \in B, NEW o \in O
          PROVE  [rid |-> j, etag |-> b, raw |-> b, c |-> b, op |-> o, rev |-> 1]
                    \in [rid : Nat, etag : B, raw : B, c : B, op : O, rev : Nat]
      OBVIOUS
    <2> QED
      BY <2>1 DEF TasksOf
  <1> HIDE DEF m, fresh
  <1>2. ASSUME NEW x \in DOMAIN t
        PROVE  v(x) \in TasksOf(k, f) /\ (v(x) = t[x] \/ TakenOf(s, t[x], v(x)))
    <2>1. CASE t[x].rid \in DOMAIN m /\ t[x].op = "" /\ t[x].etag # m[t[x].rid].c
      <3> DEFINE c == m[t[x].rid].c
      <3>1. v(x) = Taken(t[x], c)
        BY <2>1
      <3>2. c \in Known(k, f) /\ t[x].rid \in DOMAIN s /\ c = s[t[x].rid].c
        BY <2>1, <1>m, <1>t
      <3> HIDE DEF c, v
      <3>3. /\ v(x) \in TasksOf(k, f) /\ v(x).op = t[x].op /\ v(x).rid = t[x].rid
            /\ v(x).c = c /\ v(x).raw = c /\ v(x).etag = c
        BY <3>1, <3>2, <1>t, <1>k
      <3> QED
        BY <2>1, <3>2, <3>3 DEF TakenOf
    <2>2. CASE t[x].rid \notin DOMAIN m \/ t[x].op # "" \/ t[x].etag = m[t[x].rid].c
      BY <2>2, <1>t
    <2> QED
      BY <2>1, <2>2
  <1>3. ASSUME NEW j \in fresh, Pulled(j) \notin DOMAIN t
        PROVE  v(Pulled(j)) \in TasksOf(k, f) /\ InsertedOf(s, t, j, v(Pulled(j)))
    <2>1. j \in DOMAIN s /\ m[j] = s[j] /\ j \in Nat
      BY <1>f, <1>m, <1>t
    <2>2. -Pulled(j) = j
      BY <2>1 DEF Pulled
    <2>3. v(Pulled(j)) = [rid |-> j, etag |-> s[j].c, raw |-> s[j].c, c |-> s[j].c,
                          op |-> "", rev |-> 1]
      BY <1>3, <2>1, <2>2
    <2> HIDE DEF v
    <2>4. v(Pulled(j)) \in TasksOf(k, f)
      BY <2>1, <2>3, <1>t, <1>r
    <2> QED
      <3> DEFINE r == v(Pulled(j))
                 c == s[j].c
      <3>1. r = [rid |-> j, etag |-> c, raw |-> c, c |-> c, op |-> "", rev |-> 1]
        BY <2>3
      <3> HIDE DEF r, c
      <3>2. r.op = "" /\ r.rid = j /\ r.c = c /\ r.raw = c /\ r.etag = c
        BY <3>1
      <3> USE DEF r, c
      <3> QED
        BY <2>1, <2>4, <3>2, <1>f DEF InsertedOf
  <1>d. DOMAIN u = D /\ \A x \in D : u[x] = v(x)
    OBVIOUS
  <1>e. \A x \in D : x \in DOMAIN t \/ \E j \in fresh : x = Pulled(j)
    OBVIOUS
  <1>4. \A x \in DOMAIN t \ D : complete /\ t[x].rid \notin DOMAIN m \cup {None}
    OBVIOUS
  <1> HIDE DEF u, v, D, stale
  <1>5. \A x \in D : u[x] \in TasksOf(k, f)
    BY <1>2, <1>3, <1>d, <1>e
  <1>6. u \in [DOMAIN u -> TasksOf(k, f)]
    BY <1>5, <1>d DEF u
  <1>7. PulledTable(s, t, u)
    <2>1. \A x \in DOMAIN u \cap DOMAIN t : u[x] = t[x] \/ TakenOf(s, t[x], u[x])
      BY <1>2, <1>d
    <2>2. ASSUME NEW x \in DOMAIN u \ DOMAIN t
          PROVE  \E j \in DOMAIN s : x = Pulled(j) /\ InsertedOf(s, t, j, u[x])
      <3>1. PICK j \in fresh : x = Pulled(j)
        BY <1>d, <1>e
      <3>2. j \in DOMAIN s
        BY <1>f, <1>m
      <3> QED
        BY <3>1, <3>2, <1>3, <1>d
    <2> QED
      BY <2>1, <2>2 DEF PulledTable
  <1> QED
    BY <1>1, <1>4, <1>6, <1>7, <1>d DEF m

LEMMA RowsPulled ==
    ASSUME NEW p, NEW s, NEW t, NEW lo, NEW un, NEW ov, NEW n, NEW k, NEW f, NEW col,
           World(p, s, t, {}, lo, un, ov, n, k, f, col), Attended(s, t, {}),
           NEW u, u \in [DOMAIN u -> TasksOf(k, f)], PulledTable(s, t, u)
    PROVE  World(p, s, u, {}, lo, un, ov, n, k, f, col)
  <1>t. /\ \A x \in DOMAIN s : /\ x \in Nat /\ 1 <= x /\ x <= n /\ s[x].by \in Int
        /\ \A x \in DOMAIN t : t[x].rid \in Nat /\ x \in Int
        /\ n \in Nat
    BY WorldTypes
  <1>a. \A x \in DOMAIN s : s[x].by \in DOMAIN t => t[s[x].by].rid # None
    BY DEF Attended
  \* A row of u is one of t, or was inserted for a resource no row knew.
  <1>0. /\ \A x \in DOMAIN u \cap DOMAIN t : u[x].rid = t[x].rid
        /\ \A x \in DOMAIN u \ DOMAIN t : /\ -x \in DOMAIN s /\ u[x].rid = -x
                                          /\ InsertedOf(s, t, -x, u[x])
    <2>1. \A x \in DOMAIN u \cap DOMAIN t : u[x].rid = t[x].rid
      BY DEF PulledTable, TakenOf
    <2>2. ASSUME NEW x \in DOMAIN u \ DOMAIN t
          PROVE  -x \in DOMAIN s /\ u[x].rid = -x /\ InsertedOf(s, t, -x, u[x])
      <3>1. PICK j \in DOMAIN s : x = Pulled(j) /\ InsertedOf(s, t, j, u[x])
        BY DEF PulledTable
      <3>2. j = -x
        BY <3>1, <1>t DEF Pulled
      <3> QED
        BY <3>1, <3>2 DEF InsertedOf
    <2> QED
      BY <2>1, <2>2
  <1>i. \A x \in DOMAIN u \ DOMAIN t : /\ x \in Int /\ 1 <= -x /\ -x <= n
                                       /\ \A y \in DOMAIN t : t[y].rid # -x
                                       /\ u[x].rid # None
    <2> SUFFICES ASSUME NEW x \in DOMAIN u \ DOMAIN t
                 PROVE  /\ x \in Int /\ 1 <= -x /\ -x <= n
                        /\ \A y \in DOMAIN t : t[y].rid # -x
                        /\ u[x].rid # None
      OBVIOUS
    <2>1. PICK j \in DOMAIN s : x = Pulled(j)
      BY DEF PulledTable
    <2>2. x \in Int /\ 1 <= -x /\ -x <= n
      BY <2>1, <1>t DEF Pulled
    <2>3. \A y \in DOMAIN t : t[y].rid # -x
      BY <1>0 DEF InsertedOf
    <2> QED
      BY <2>2, <2>3, <1>0 DEF None
  <1>c. \A x \in DOMAIN u : \/ x \in DOMAIN t /\ u[x] = t[x]
                            \/ /\ u[x].op = "" /\ u[x].rid \in DOMAIN s
                               /\ u[x].c = s[u[x].rid].c /\ u[x].raw = u[x].c
                               /\ u[x].etag = u[x].c
    BY <1>0 DEF PulledTable, TakenOf, InsertedOf
  <1>n. \A x \in DOMAIN u : u[x].rid = None => x \in DOMAIN t /\ u[x] = t[x] /\ t[x].rid = None
    <2>1. \A x \in DOMAIN s : x # None
      BY <1>t DEF None
    <2> QED
      BY <2>1, <1>c
  <1>1. RowsOK(p, u, n, k, f)
    <2>1. ASSUME NEW x \in DOMAIN u
          PROVE  x \in RowIds /\ x \in (-n)..n /\ u[x].rid <= n /\ TaskOK(p, x, u[x])
      <3>1. CASE x \in DOMAIN t
        <4>1. x \in RowIds /\ x \in (-n)..n /\ t[x].rid <= n /\ TaskOK(p, x, t[x])
          BY <3>1 DEF World, RowsOK
        <4>2. CASE u[x] = t[x]
          BY <4>1, <4>2
        <4>3. CASE u[x] # t[x]
          <5>1. u[x].rid = t[x].rid /\ u[x].op = "" /\ t[x].op = ""
            BY <3>1, <4>3 DEF PulledTable, TakenOf
          <5>2. TaskOK(p, x, u[x])
            BY <4>1, <5>1 DEF TaskOK
          <5> QED
            BY <4>1, <5>1, <5>2
        <4> QED
          BY <4>2, <4>3
      <3>2. CASE x \notin DOMAIN t
        <4>1. x \in Int /\ 1 <= -x /\ -x <= n /\ u[x].rid = -x /\ u[x].rid # None
          BY <3>2, <1>0, <1>i
        <4>2. u[x].op = ""
          BY <3>2, <1>0 DEF InsertedOf
        <4>3. x \in RowIds /\ x \in (-n)..n /\ u[x].rid <= n
          BY <4>1, <1>t DEF RowIds
        <4>4. TaskOK(p, x, u[x])
          BY <4>1, <4>2 DEF TaskOK
        <4> QED
          BY <4>3, <4>4
      <3> QED
        BY <3>1, <3>2
    <2> QED
      BY <2>1 DEF RowsOK
  <1>2. RowsDistinct(u)
    <2> SUFFICES ASSUME NEW x \in DOMAIN u, NEW y \in DOMAIN u, u[x].rid = u[y].rid,
                        u[x].rid # None
                 PROVE  x = y
      BY DEF RowsDistinct
    <2>1. CASE x \in DOMAIN t /\ y \in DOMAIN t
      BY <2>1, <1>0 DEF World, RowsDistinct
    <2>2. CASE x \in DOMAIN t /\ y \notin DOMAIN t
      BY <2>2, <1>0, <1>i
    <2>3. CASE x \notin DOMAIN t /\ y \in DOMAIN t
      BY <2>3, <1>0, <1>i
    <2>4. CASE x \notin DOMAIN t /\ y \notin DOMAIN t
      <3>1. -x = -y /\ x \in Int /\ y \in Int
        BY <2>4, <1>0, <1>i
      <3> QED
        BY <3>1
    <2> QED
      BY <2>1, <2>2, <2>3, <2>4
  <1>3. NoTwin(p, u)
    <2> SUFFICES ASSUME p = "caldav", NEW x \in DOMAIN u, -x \in DOMAIN u
                 PROVE  FALSE
      BY DEF NoTwin
    <2>1. ASSUME NEW y \in DOMAIN u \ DOMAIN t, -y \in DOMAIN u
          PROVE  FALSE
      <3>1. y \in Int /\ 1 <= -y /\ -y \in DOMAIN s
        BY <1>0, <1>i
      <3>2. -y \in DOMAIN t
        <4>1. ~(1 <= -(-y))
          BY <3>1
        <4> QED
          BY <4>1, <2>1, <1>i
      <3>3. t[-y].rid \in {None, -y, -(-y)}
        BY <3>2 DEF World, RowsOK, TaskOK
      <3>4. t[-y].rid \in Nat /\ t[-y].rid # -y
        BY <3>2, <1>t, <1>i
      <3>5. t[-y].rid = None
        BY <3>1, <3>3, <3>4
      <3>6. s[-y].by = -y
        BY <3>1, <3>2, <3>5 DEF World, OwnName
      <3> QED
        BY <3>1, <3>2, <3>5, <3>6, <1>a
    <2>2. x \in DOMAIN t
      BY <2>1
    <2>3. -x \in DOMAIN t
      <3>1. x \in Int
        BY <2>2, <1>t
      <3>2. -(-x) = x
        BY <3>1
      <3> QED
        BY <2>1, <3>2
    <2> QED
      BY <2>2, <2>3 DEF World, NoTwin
  <1>4. SameTitle(p, s, u, lo)
    <2> SUFFICES ASSUME NEW x \in DOMAIN u, u[x].op = "", u[x].rid \in DOMAIN s
                 PROVE  (p = "caldav" /\ x \in lo) \/ s[u[x].rid].c.title = u[x].c.title
      BY DEF SameTitle
    <2>1. CASE x \in DOMAIN t /\ u[x] = t[x]
      BY <2>1 DEF World, SameTitle
    <2>2. CASE u[x].c = s[u[x].rid].c
      BY <2>2
    <2> QED
      BY <2>1, <2>2, <1>c
  <1>5. RowKnows(p, s, u, lo, un)
    <2> SUFFICES ASSUME NEW y \in DOMAIN s, s[y].by \in DOMAIN u,
                        ~(p = "google" /\ s[y].by \in lo)
                 PROVE  u[s[y].by].rid = y
      BY DEF RowKnows
    <2>1. CASE s[y].by \in DOMAIN t
      BY <2>1, <1>a, <1>0 DEF World, RowKnows
    <2>2. CASE s[y].by \notin DOMAIN t
      <3> DEFINE x == s[y].by
      <3>1. -x \in DOMAIN s /\ u[x].rid = -x /\ x \in Int
        BY <2>2, <1>0, <1>i
      <3>2. s[y].by = Pulled(-x)
        BY <3>1 DEF Pulled
      <3>3. y = -x
        BY <3>1, <3>2 DEF World, PulledKnows
      <3> QED
        BY <3>1, <3>3
    <2> QED
      BY <2>1, <2>2
  <1>6. \A y \in DOMAIN s : s[y].by \in DOMAIN u => u[s[y].by].rid # None
    BY <1>a, <1>n
  <1>7. Unclaimed(s, u) /\ CopiesUnclaimed(s, u, {}) /\ CopyMatched(p, s, u, {}, lo)
    BY <1>6 DEF Unclaimed, CopiesUnclaimed, CopyMatched
  <1>8. OwnName(p, s, u)
    BY <1>n DEF World, OwnName
  <1>9. PulledKnows(s, u, {})
    <2>1. ASSUME NEW y \in DOMAIN s, Pulled(y) \in DOMAIN u
          PROVE  u[Pulled(y)].rid = y
      <3>1. CASE Pulled(y) \in DOMAIN t
        BY <2>1, <3>1, <1>0 DEF World, PulledKnows
      <3>2. CASE Pulled(y) \notin DOMAIN t
        <4>1. u[Pulled(y)].rid = -Pulled(y)
          BY <2>1, <3>2, <1>0
        <4> QED
          BY <4>1, <1>t DEF Pulled
      <3> QED
        BY <3>1, <3>2
    <2> QED
      BY <2>1 DEF World, PulledKnows
  <1>10. TitlesOwned(p, s, u, {})
    <2> SUFFICES ASSUME p = "google", NEW x \in DOMAIN u, u[x].rid = None
                 PROVE  TitleOwned(s, u, {}, x, u[x].c.title)
      BY DEF TitlesOwned
    <2>1. x \in DOMAIN t /\ u[x] = t[x] /\ t[x].rid = None
      BY <1>n
    <2>2. TitleOwned(s, t, {}, x, t[x].c.title)
      BY <2>1 DEF World, TitlesOwned
    <2>3. \A y \in DOMAIN s : s[y].c.title # t[x].c.title
      BY <2>1, <2>2, <1>a DEF TitleOwned
    <2> QED
      BY <2>1, <2>2, <2>3, <1>c DEF TitleOwned
  <1>11. RowNotes(p, u, ov)
    <2>1. ASSUME NEW x \in DOMAIN u, u[x].op = "", u[x].raw = u[x].c, u[x].etag = u[x].c
          PROVE  NotesOK(u[x])
      BY <2>1 DEF NotesOK
    <2> QED
      BY <2>1, <1>c DEF World, RowNotes
  <1>12. RowsChange(p, u)
    BY <1>c DEF World, RowsChange, Changes
  <1>13. /\ CopiesFollow(p, u, {}) /\ CopiesHaveRows(u, {}, col) /\ CopiesDistinct(u, {}, col)
         /\ OvertakenSeen(p, u, {}, ov)
    BY DEF CopiesFollow, CopiesHaveRows, CopiesDistinct, OvertakenSeen
  <1> QED
    BY <1>1, <1>2, <1>3, <1>4, <1>5, <1>7, <1>8, <1>9, <1>10, <1>11, <1>12, <1>13 DEF World

-----------------------------------------------------------------------------
\* Other clients.

\* A resource is made: its id is new and so is the row a pull inserts for it.
LEMMA ResourceMade ==
    ASSUME NEW p, NEW s, NEW t, NEW H, NEW lo, NEW un, NEW ov, NEW n, NEW k, NEW f, NEW col,
           col = TRUE, World(p, s, t, H, lo, un, ov, n, k, f, col),
           NEW c \in Known(k, f + 1), c # NoContent, c.title = 0
    PROVE  LET z == With(s, n + 1, [c |-> c, by |-> Pulled(n + 1)]) IN
           /\ World(p, z, t, H, lo, un, ov, n + 1, k, f + 1, col)
           /\ Attended(s, t, H) => Attended(z, t, H)
           /\ CopyKnows(p, s, H, lo) => CopyKnows(p, z, H, lo)
  <1> DEFINE z == With(s, n + 1, [c |-> c, by |-> Pulled(n + 1)])
  <1>t. /\ \A x \in DOMAIN t : t[x].rid \in Nat /\ t[x].rid <= n /\ x \in Int /\ -n <= x
        /\ \A x \in DOMAIN s : /\ x \in Nat /\ x <= n
                               /\ s[x].by \in Int /\ -n <= s[x].by
        /\ \A w \in H : /\ w.row.rid \in Nat /\ w.row.rid <= n /\ w.id \in Int /\ -n <= w.id
        /\ n \in Nat /\ k \in Nat /\ f \in Nat
    BY WorldTypes
  <1>g. World(p, s, t, H, lo, un, ov, n + 1, k, f + 1, col)
    <2>1. n + 1 \in Nat /\ f + 1 \in Nat /\ k >= k /\ n + 1 >= n /\ f + 1 >= f
      BY <1>t
    <2> QED
      BY <2>1, <1>t, WorldGrows
  <1>b. Pulled(n + 1) = -(n + 1) /\ Pulled(n + 1) \in RowIds
    BY <1>t DEF Pulled, RowIds
  <1>0. /\ DOMAIN z = DOMAIN s \cup {n + 1}
        /\ z[n + 1].c = c /\ z[n + 1].by = -(n + 1)
        /\ \A x \in DOMAIN s : x # n + 1 /\ z[x] = s[x]
    BY <1>t, <1>b DEF With
  <1>n. /\ n + 1 \notin DOMAIN s /\ -(n + 1) \notin DOMAIN t
        /\ \A x \in DOMAIN t : t[x].rid # n + 1
        /\ \A w \in H : w.row.rid # n + 1 /\ w.id # -(n + 1)
        /\ \A x \in DOMAIN s : s[x].by # -(n + 1) /\ -x # -(n + 1)
    BY <1>t
  <1>1. ServerOK(p, z, n + 1, k, f + 1)
    <2>1. z \in [DOMAIN z -> ResourcesOf(k, f + 1)]
      <3>1. [c |-> c, by |-> Pulled(n + 1)] \in ResourcesOf(k, f + 1)
        BY <1>b DEF ResourcesOf
      <3>2. s \in [DOMAIN s -> ResourcesOf(k, f + 1)]
        BY <1>g DEF World, ServerOK
      <3> QED
        BY <3>1, <3>2 DEF With
    <2> HIDE DEF z
    <2>2. n + 1 \in 1..(n + 1) /\ -(n + 1) \in (-(n + 1))..(n + 1)
      BY <1>t
    <2>3. \A x \in DOMAIN z : x \in 1..(n + 1) /\ z[x].by \in (-(n + 1))..(n + 1)
      BY <1>g, <1>0, <2>2 DEF World, ServerOK
    <2>4. p = "caldav" => \A x \in DOMAIN z : z[x].by \in {x, -x}
      BY <1>g, <1>0 DEF World, ServerOK
    <2> QED
      BY <2>1, <2>3, <2>4 DEF ServerOK
  <1> HIDE DEF z
  <1>2. SameTitle(p, z, t, lo) /\ OneEach(p, z, lo)
    BY <1>0, <1>n DEF World, SameTitle, OneEach
  <1>3. RowKnows(p, z, t, lo, un) /\ Unclaimed(z, t) /\ CopiesUnclaimed(z, t, H)
    BY <1>0, <1>n DEF World, RowKnows, Unclaimed, CopiesUnclaimed
  <1>4. OwnName(p, z, t)
    <2> SUFFICES ASSUME p = "caldav", NEW x \in DOMAIN t, t[x].rid = None, x = n + 1
                 PROVE  FALSE
      BY <1>0 DEF World, OwnName
    <2>1. x <= n
      BY WorldTypes
    <2> QED
      BY <2>1, <1>t
  <1>5. PulledKnows(z, t, H)
    BY <1>0, <1>n DEF World, PulledKnows, Pulled
  <1>6. CopyRecognises(p, z, H, lo) /\ CopyMatched(p, z, t, H, lo)
    BY <1>0, <1>n DEF World, CopyRecognises, CopyMatched
  <1>7. TitlesOwned(p, z, t, H)
    <2>1. ASSUME NEW title, title # 0, NEW x, TitleOwned(s, t, H, x, title)
          PROVE  TitleOwned(z, t, H, x, title)
      BY <2>1, <1>0 DEF TitleOwned
    <2>2. \A x \in DOMAIN t : t[x].rid = None => t[x].c.title # 0
      BY DEF World, RowsOK, TaskOK
    <2>3. \A w \in H : w.row.rid = None => w.row.c.title # 0
      BY DEF World, CopiesOK, TaskOK
    <2> QED
      BY <2>1, <2>2, <2>3 DEF World, TitlesOwned
  <1>8. World(p, z, t, H, lo, un, ov, n + 1, k, f + 1, col)
    BY <1>g, <1>1, <1>2, <1>3, <1>4, <1>5, <1>6, <1>7 DEF World
  <1>9. Attended(s, t, H) => Attended(z, t, H)
    BY <1>0, <1>n DEF Attended
  <1>10. CopyKnows(p, s, H, lo) => CopyKnows(p, z, H, lo)
    BY <1>0, <1>n DEF CopyKnows
  <1> QED
    BY <1>8, <1>9, <1>10 DEF z

\* The notes of a resource are edited.  A row that could recognise it is lost.
LEMMA ResourceEdited ==
    ASSUME NEW p, NEW s, NEW t, NEW H, NEW lo, NEW un, NEW ov, NEW n, NEW k, NEW f, NEW col,
           World(p, s, t, H, lo, un, ov, n, k, f, col), NEW j \in DOMAIN s,
           NEW z, z \in [DOMAIN s -> ResourcesOf(k, f + 1)],
           \A x \in DOMAIN s : x # j => z[x] = s[x],
           z[j].by = s[j].by, z[j].c.title = s[j].c.title,
           NEW lo2, lo \subseteq lo2,
           p = "google" /\ s[j].by \in un /\ s[j].by \in DOMAIN t /\ t[s[j].by].rid = None
             => s[j].by \in lo2
    PROVE  /\ World(p, z, t, H, lo2, un, ov, n, k, f + 1, col)
           /\ Attended(s, t, H) => Attended(z, t, H)
           /\ CopyKnows(p, s, H, lo) => CopyKnows(p, z, H, lo2)
  <1>g. World(p, s, t, H, lo2, un, ov, n, k, f + 1, col)
    <2>1. n \in Nat /\ k \in Nat /\ f \in Nat
      BY DEF World
    <2>2. f + 1 \in Nat /\ k >= k /\ n >= n /\ f + 1 >= f
      BY <2>1
    <2> QED
      BY <2>1, <2>2, WorldGrows
  <1>0. /\ DOMAIN z = DOMAIN s
        /\ \A x \in DOMAIN s : z[x].by = s[x].by /\ z[x].c.title = s[x].c.title
        /\ \A x \in DOMAIN s : x # j => z[x] = s[x]
    OBVIOUS
  <1>k. p = "google" /\ s[j].by \in DOMAIN t /\ t[s[j].by].rid = None => s[j].by \in lo2
    <2>1. j \in Nat /\ 1 <= j
      BY WorldTypes
    <2>2. j # None
      BY <2>1 DEF None
    <2> QED
      BY <2>2 DEF World, RowKnows
  <1>c. col
    <2>1. DOMAIN Empty = {}
      BY DEF Empty
    <2> QED
      BY <2>1 DEF World
  <1>1. ServerOK(p, z, n, k, f + 1)
    BY <1>g, <1>0 DEF World, ServerOK
  <1>2. ~col => z = Empty
    BY <1>c
  <1>3. SameTitle(p, z, t, lo2) /\ OneEach(p, z, lo2)
    BY <1>g, <1>0 DEF World, SameTitle, OneEach
  <1>4. RowKnows(p, z, t, lo2, un)
    BY <1>g, <1>0, <1>k DEF World, RowKnows, Resembles
  <1>5. Unclaimed(z, t) /\ CopiesUnclaimed(z, t, H) /\ OwnName(p, z, t)
    BY <1>0 DEF World, Unclaimed, CopiesUnclaimed, OwnName
  <1>6. PulledKnows(z, t, H)
    BY <1>0 DEF World, PulledKnows
  <1>7. CopyRecognises(p, z, H, lo2)
    <2> SUFFICES ASSUME NEW w \in H, NEW x \in DOMAIN s, s[x].by = w.id, x # w.row.rid,
                        ~(p = "google" /\ w.id \in lo2)
                 PROVE  w.row.rid = None /\ Resembles(p, w.id, w.row, z[x].c, lo2)
      BY <1>0 DEF CopyRecognises
    <2>1. w.row.rid = None /\ Resembles(p, w.id, w.row, s[x].c, lo2)
      BY <1>g DEF World, CopyRecognises
    <2>2. p = "google" => x # j
      <3>1. w.id \in DOMAIN t
        BY <1>c DEF World, CopiesHaveRows
      <3>2. t[w.id].rid = None
        BY <2>1, <3>1 DEF World, CopiesFollow, Follows
      <3> QED
        BY <3>1, <3>2, <1>k
    <2> QED
      BY <2>1, <2>2, <1>0 DEF Resembles
  <1>8. CopyMatched(p, z, t, H, lo2)
    <2> SUFFICES ASSUME NEW w \in H, p = "google", w.row.rid \in DOMAIN s,
                        w.id \in DOMAIN t, t[w.id].rid = None
                 PROVE  /\ z[w.row.rid].by = w.id
                        /\ w.id \in lo2 \/ z[w.row.rid].c = w.row.c
      BY <1>0 DEF CopyMatched
    <2>1. s[w.row.rid].by = w.id /\ (w.id \in lo2 \/ s[w.row.rid].c = w.row.c)
      BY <1>g DEF World, CopyMatched
    <2>2. w.row.rid = j => w.id \in lo2
      BY <2>1, <1>k
    <2> QED
      BY <2>1, <2>2, <1>0
  <1>9. TitlesOwned(p, z, t, H)
    BY <1>0 DEF World, TitlesOwned, TitleOwned
  <1>10. World(p, z, t, H, lo2, un, ov, n, k, f + 1, col)
    BY <1>g, <1>1, <1>2, <1>3, <1>4, <1>5, <1>6, <1>7, <1>8, <1>9 DEF World
  <1>11. Attended(s, t, H) => Attended(z, t, H)
    BY <1>0 DEF Attended
  <1>12. CopyKnows(p, s, H, lo) => CopyKnows(p, z, H, lo2)
    BY <1>0 DEF CopyKnows, Resembles
  <1> QED
    BY <1>10, <1>11, <1>12

\* The list is deleted.
LEMMA CollectionRemoved ==
    ASSUME NEW p, NEW s, NEW t, NEW H, NEW lo, NEW un, NEW ov, NEW n, NEW k, NEW f, NEW col,
           World(p, s, t, H, lo, un, ov, n, k, f, col), NEW gone, gone = FALSE
    PROVE  /\ World(p, Empty, t, H, lo, un, ov, n, k, f, gone)
           /\ Attended(Empty, t, H) /\ CopyKnows(p, Empty, H, lo)
  <1>0. DOMAIN Empty = {}
    BY DEF Empty
  <1>1. World(p, Without(s, DOMAIN s), t, H, lo, un, ov, n, k, f, col)
    BY ResourcesDropped
  <1>2. Without(s, DOMAIN s) = Empty
    BY DEF Without, Empty
  <1>3. World(p, Empty, t, H, lo, un, ov, n, k, f, col)
    BY <1>1, <1>2
  <1>4. CopiesHaveRows(t, H, gone) /\ CopiesDistinct(t, H, gone)
    BY DEF CopiesHaveRows, CopiesDistinct
  <1>5. World(p, Empty, t, H, lo, un, ov, n, k, f, gone)
    BY <1>3, <1>4 DEF World
  <1>6. Attended(Empty, t, H) /\ CopyKnows(p, Empty, H, lo)
    BY <1>0 DEF Attended, CopyKnows
  <1> QED
    BY <1>5, <1>6

\* What the table and its copies still have when a resource is gone.
LEMMA StillAttended ==
    ASSUME NEW p, NEW s, NEW t, NEW H, NEW lo, NEW S
    PROVE  /\ Attended(s, t, H) => Attended(Without(s, S), t, H)
           /\ CopyKnows(p, s, H, lo) => CopyKnows(p, Without(s, S), H, lo)
  <1>1. /\ DOMAIN Without(s, S) \subseteq DOMAIN s
        /\ \A x \in DOMAIN Without(s, S) : Without(s, S)[x] = s[x]
    BY DEF Without
  <1> QED
    BY <1>1 DEF Attended, CopyKnows

-----------------------------------------------------------------------------
\* The job.

\* Its fields.
IsJob(j) ==
    DOMAIN j = {"phase", "writes", "cur", "ctag", "token", "enabled", "wrote"}

\* The copies were taken; the removals among them are to be sent.
Working(j) == j.phase \notin {"idle", "lists"}
Sending(j) == j.phase \notin {"idle", "lists", "reconcile"}

\* What the phase says of the write that is being sent.
CurOK(p, s, j) ==
    /\ j.phase \in {"put", "putAgain", "merge", "recreate"} => j.cur.row.op = "update"
    /\ j.phase \in {"delete", "deleteAgain", "reread"} => j.cur.row.op = "remove"
    /\ j.phase = "create" => j.cur.row.op # "remove" /\ j.cur.row.rid \notin DOMAIN s
    /\ j.phase = "create" /\ p = "google" => j.cur.row.rid = None
    /\ j.phase = "recreate" => j.cur.row.rid \notin DOMAIN s
    /\ j.phase \in {"put", "merge"} /\ p = "caldav" => Changes(j.cur.row)

\* What is still to be sent, and what may not be sent as a removal.
ToSendOK(p, j) ==
    /\ p = "caldav" => \A w \in j.writes : Changes(w.row)
    /\ Sending(j) => \A w \in Copies(j) : w.row.op = "remove" => w.row.rid # None

JobOK(p, s, j) ==
    /\ IsJob(j) /\ j.phase \in Phases
    /\ j.cur \notin j.writes
    /\ j.phase \in {"idle", "lists", "reconcile", "pull"} <=> j.cur.id = None
    /\ j.phase \in {"idle", "lists", "pull"} => j.writes = {}
    /\ p = "google" => j.phase \notin {"putAgain", "merge", "deleteAgain", "reread"}
    /\ p = "caldav" => j.phase \notin {"lists", "reconcile", "recreate"}
    /\ CurOK(p, s, j) /\ ToSendOK(p, j)

JobWorld(p, s, t, j, lo, un, ov, n, k, f, col) ==
    /\ World(p, s, t, Copies(j), lo, un, ov, n, k, f, col)
    /\ JobOK(p, s, j)
    /\ Working(j) => Attended(s, t, Copies(j))
    /\ Sending(j) => CopyKnows(p, s, Copies(j), lo)

LEMMA CopyIds ==
    ASSUME NEW p, NEW s, NEW t, NEW H, NEW lo, NEW un, NEW ov, NEW n, NEW k, NEW f, NEW col,
           World(p, s, t, H, lo, un, ov, n, k, f, col)
    PROVE  \A w \in H : w.id # None /\ w.row.op # ""
  <1>1. H \subseteq WritesOf(k, f) /\ \A w \in H : w.row.op # ""
    BY DEF World, CopiesOK
  <1>2. \A w \in WritesOf(k, f) : w.id \in RowIds
    BY DEF WritesOf
  <1> QED
    BY <1>1, <1>2 DEF RowIds, None

LEMMA IdleIs ==
    /\ IsJob(IdleJob) /\ Copies(IdleJob) = {} /\ IdleJob.writes = {} /\ IdleJob.cur = NoWrite
    /\ IdleJob.phase = "idle" /\ NoWrite.id = None
  BY DEF IdleJob, IsJob, Copies, NoWrite

LEMMA NoCopies ==
    ASSUME NEW j, j.writes = {}, j.cur = NoWrite
    PROVE  Copies(j) = {}
  BY DEF Copies, NoWrite

\* No job, or one that has no copies yet.
LEMMA WithoutCopies ==
    ASSUME NEW p, NEW s, NEW t, NEW H, NEW lo, NEW un, NEW ov, NEW n, NEW k, NEW f, NEW col,
           World(p, s, t, H, lo, un, ov, n, k, f, col),
           NEW j, IsJob(j), j.writes = {}, j.cur = NoWrite,
           \/ j.phase = "idle" \/ (j.phase = "lists" /\ p = "google")
           \/ (j.phase = "pull" /\ H = {} /\ Attended(s, t, H))
    PROVE  JobWorld(p, s, t, j, lo, un, ov, n, k, f, col)
  <1>1. Copies(j) = {} /\ j.cur.id = None
    BY NoCopies DEF NoWrite
  <1>2. World(p, s, t, Copies(j), lo, un, ov, n, k, f, col)
    BY <1>1, CopiesDropped
  <1>3. JobOK(p, s, j)
    <2>1. j.phase \in Phases
      BY DEF Phases
    <2>2. CurOK(p, s, j)
      BY DEF CurOK
    <2>3. ToSendOK(p, j)
      BY <1>1 DEF ToSendOK
    <2> QED
      BY <1>1, <2>1, <2>2, <2>3 DEF JobOK
  <1>4. Working(j) => Attended(s, t, Copies(j))
    BY <1>1 DEF Working
  <1>5. CopyKnows(p, s, Copies(j), lo)
    BY <1>1 DEF CopyKnows
  <1> QED
    BY <1>2, <1>3, <1>4, <1>5 DEF JobWorld

\* The next write is taken up.
LEMMA TakenUp ==
    ASSUME NEW p, NEW s, NEW t, NEW H, NEW lo, NEW un, NEW ov, NEW n, NEW k, NEW f, NEW col,
           World(p, s, t, H, lo, un, ov, n, k, f, col), Attended(s, t, H), CopyKnows(p, s, H, lo),
           p = "caldav" => \A w \in H : Changes(w.row),
           \A w \in H : w.row.op = "remove" => w.row.rid # None,
           NEW j, IsJob(j), NEW w \in H, j.writes = H \ {w}, j.cur = w,
           j.phase = DavPhaseOf(w)
    PROVE  JobWorld(p, s, t, j, lo, un, ov, n, k, f, col)
  <1>w. World(p, s, t, H, lo, un, ov, n, k, f, col) /\ w \in H
    OBVIOUS
  <1>t. w.row.op \in {"create", "update", "remove"}
    BY ONLY <1>w, WorldTypes
  <1>i. w.id # None
    BY ONLY <1>w, CopyIds
  <1>1. Copies(j) = H /\ j.cur.id # None
    BY <1>i DEF Copies
  <1>2. j.phase \in {"delete", "create", "put"}
    BY DEF DavPhaseOf
  <1>3. CurOK(p, s, j)
    <2>1. TaskOK(p, w.id, w.row)
      BY DEF World, CopiesOK
    <2>2. CASE w.row.op = "remove"
      BY <2>2 DEF CurOK, DavPhaseOf
    <2>3. CASE w.row.op # "remove" /\ w.row.rid = None
      <3>1. j.phase = "create"
        BY <2>3 DEF DavPhaseOf
      <3>2. None \notin DOMAIN s
        <4>1. \A x \in DOMAIN s : 1 <= x
          BY WorldTypes
        <4> QED
          BY <4>1 DEF None
      <3> QED
        BY <2>3, <3>1, <3>2 DEF CurOK
    <2>4. CASE w.row.op # "remove" /\ w.row.rid # None
      <3>1. w.row.op = "update"
        BY <2>1, <2>4, <1>t DEF TaskOK
      <3>2. j.phase = "put"
        BY <2>4, <3>1 DEF DavPhaseOf
      <3> QED
        BY <3>1, <3>2 DEF CurOK
    <2> QED
      BY <2>2, <2>3, <2>4
  <1>4. ToSendOK(p, j)
    BY <1>1 DEF ToSendOK
  <1>5. JobOK(p, s, j)
    BY <1>1, <1>2, <1>3, <1>4 DEF JobOK, Phases
  <1> QED
    BY <1>1, <1>5 DEF JobWorld

\* CalDAV goes on with what is left to be sent.
LEMMA DavProceeds ==
    ASSUME NEW p, NEW s, NEW t, NEW lo, NEW un, NEW ov, NEW n, NEW k, NEW f, NEW col,
           NEW j, NEW timer, IsJob(j),
           World(p, s, t, j.writes, lo, un, ov, n, k, f, col),
           Attended(s, t, j.writes), CopyKnows(p, s, j.writes, lo),
           \A w \in j.writes : Changes(w.row),
           \A w \in j.writes : w.row.op = "remove" => w.row.rid # None,
           DavProceed(t, j, timer)
    PROVE  rows' = t /\ JobWorld(p, s, t, job', lo, un, ov, n, k, f, col)
  <1>1. rows' = t
    BY DEF DavProceed
  <1>2. CASE job' = IdleJob
    <2>1. IsJob(job') /\ job'.phase = "idle" /\ job'.cur = NoWrite /\ job'.writes = {}
      BY <1>2, IdleIs
    <2>2. World(p, s, t, j.writes, lo, un, ov, n, k, f, col)
      OBVIOUS
    <2> QED
      BY <1>1, <2>1, <2>2, WithoutCopies
  <1>3. CASE j.writes = {} /\ job' = [j EXCEPT !.phase = "pull", !.cur = NoWrite]
    <2>0. IsJob(j)
      OBVIOUS
    <2>1. IsJob(job') /\ job'.phase = "pull" /\ job'.cur = NoWrite /\ job'.writes = {}
      BY ONLY <2>0, <1>3 DEF IsJob
    <2> QED
      <3>1. World(p, s, t, {}, lo, un, ov, n, k, f, col) /\ Attended(s, t, {})
        BY <1>3
      <3> QED
        BY <1>1, <2>1, <3>1, WithoutCopies
  <1>4. ASSUME NEW w \in j.writes,
               job' = [j EXCEPT !.writes = @ \ {w}, !.cur = w, !.phase = DavPhaseOf(w)]
        PROVE  JobWorld(p, s, t, job', lo, un, ov, n, k, f, col)
    <2>1. /\ IsJob(job') /\ job'.phase = DavPhaseOf(w) /\ job'.cur = w
          /\ job'.writes = j.writes \ {w}
      BY <1>4 DEF IsJob
    <2> QED
      BY <2>1, TakenUp DEF DavPhaseOf
  <1> QED
    BY <1>1, <1>2, <1>3, <1>4 DEF DavProceed, Finished

\* So does Google; it drops the removals of what was never uploaded.
LEMMA GoogleProceeds ==
    ASSUME NEW p, NEW s, NEW t, NEW lo, NEW un, NEW ov, NEW n, NEW k, NEW f, NEW col,
           NEW j, IsJob(j), p = "google",
           World(p, s, t, j.writes, lo, un, ov, n, k, f, col),
           Attended(s, t, j.writes), CopyKnows(p, s, j.writes, lo),
           GoogleProceed(t, j)
    PROVE  /\ JobWorld(p, s, rows', job', lo, un, ov, n, k, f, col)
           /\ \E D \in SUBSET j.writes :
                /\ rows' = Without(t, {w.id : w \in D})
                /\ \A w \in D : w.row.op = "remove" /\ w.row.rid = None
           /\ again' = again /\ rerun' = rerun
  <1> DEFINE D == {w \in j.writes : w.row.op = "remove" /\ w.row.rid = None}
             left == j.writes \ D
             u == Without(t, {w.id : w \in D})
  <1>1. rows' = u /\ again' = again /\ rerun' = rerun
    BY DEF GoogleProceed
  <1>d. D \subseteq j.writes
    OBVIOUS
  <1>r. \A w \in left : w.row.op = "remove" => w.row.rid # None
    OBVIOUS
  <1>2. /\ World(p, s, u, left, lo, un, ov, n, k, f, col)
        /\ Attended(s, u, left) /\ CopyKnows(p, s, left, lo)
    <2> HIDE DEF D
    <2> QED
      BY <1>d, CopiesAndRowsDropped
  <1>3. \/ left = {} /\ job' = [j EXCEPT !.writes = {}, !.cur = NoWrite, !.phase = "pull"]
        \/ \E w \in left : job' = [j EXCEPT !.writes = left \ {w}, !.cur = w,
                                            !.phase = GooglePhaseOf(w)]
    BY DEF GoogleProceed
  <1> HIDE DEF D, u, left
  <1>4. ASSUME left = {}, job' = [j EXCEPT !.writes = {}, !.cur = NoWrite, !.phase = "pull"]
        PROVE  JobWorld(p, s, u, job', lo, un, ov, n, k, f, col)
    <2>1. IsJob(job') /\ job'.phase = "pull" /\ job'.cur = NoWrite /\ job'.writes = {}
      BY <1>4 DEF IsJob
    <2>2. World(p, s, u, {}, lo, un, ov, n, k, f, col) /\ Attended(s, u, {})
      BY <1>2, <1>4
    <2> QED
      BY <2>1, <2>2, WithoutCopies
  <1>5. ASSUME NEW w \in left,
               job' = [j EXCEPT !.writes = left \ {w}, !.cur = w, !.phase = GooglePhaseOf(w)]
        PROVE  JobWorld(p, s, u, job', lo, un, ov, n, k, f, col)
    <2>1. /\ IsJob(job') /\ job'.phase = GooglePhaseOf(w) /\ job'.cur = w
          /\ job'.writes = left \ {w}
      BY <1>5 DEF IsJob
    <2>2. job'.phase = DavPhaseOf(w)
      BY <2>1 DEF GooglePhaseOf, DavPhaseOf
    <2>3. p = "caldav" => \A v \in left : Changes(v.row)
      OBVIOUS
    <2>4. w \in left
      OBVIOUS
    <2> QED
      BY ONLY <2>1, <2>2, <2>3, <2>4, <1>2, <1>r, TakenUp
  <1>6. JobWorld(p, s, u, job', lo, un, ov, n, k, f, col)
    BY <1>3, <1>4, <1>5
  <1>7. rows' = Without(t, {w.id : w \in D}) /\ \A w \in D : w.row.op = "remove" /\ w.row.rid = None
    BY <1>1 DEF D, u
  <1> QED
    BY <1>1, <1>6, <1>7, <1>d

\* The copies of a job that is not busy, or at the end of its writes.
LEMMA QuietIs ==
    ASSUME NEW p, NEW s, NEW j, JobOK(p, s, j), j.phase \in {"idle", "lists", "pull"}
    PROVE  Copies(j) = {}
  BY DEF JobOK, Copies

\* Rows that were never uploaded left the table t.
OnlyUnsentLeft(t, u) ==
    /\ DOMAIN u \subseteq DOMAIN t /\ \A i \in DOMAIN u : u[i] = t[i]
    /\ \A i \in DOMAIN t \ DOMAIN u : t[i].rid = None

\* A CalDAV job starts.
LEMMA DavBegins ==
    ASSUME NEW p, NEW s, NEW t, NEW lo, NEW un, NEW ov, NEW n, NEW k, NEW f, NEW col,
           NEW ctag, NEW timer, p = "caldav",
           World(p, s, t, {}, lo, un, ov, n, k, f, col), DavBegin(t, ctag, timer)
    PROVE  /\ JobWorld(p, s, rows', job', lo, un, ov, n, k, f, col)
           /\ OnlyUnsentLeft(t, rows')
  <1> DEFINE S == NeverUploaded(t)
             u == Without(t, S)
             j == [IdleJob EXCEPT !.writes = Owed(u), !.wrote = S # {}, !.ctag = ctag,
                                  !.token = list.token, !.enabled = list.enabled]
  <1>1. World(p, s, u, {}, lo, un, ov, n, k, f, col)
    BY RowsDropped
  <1>u. DOMAIN u = DOMAIN t \ S /\ \A i \in DOMAIN u : u[i] = t[i]
    BY DEF Without
  <1>s. \A i \in DOMAIN t : i \in S <=> t[i].op = "remove" /\ t[i].rid = None
    BY DEF NeverUploaded
  <1>d. DavProceed(u, j, timer)
    BY DEF DavBegin
  <1>j. IsJob(j) /\ j.writes = Owed(u)
    BY DEF IsJob, IdleJob
  <1> HIDE DEF u, j, S
  <1>2. /\ World(p, s, u, Owed(u), lo, un, ov, n, k, f, col)
        /\ Attended(s, u, Owed(u)) /\ CopyKnows(p, s, Owed(u), lo)
        /\ \A w \in Owed(u) : Changes(w.row)
    BY <1>1, CopiesTaken
  <1>3. \A w \in Owed(u) : w.row.op = "remove" => w.row.rid # None
    <2>1. \A i \in DOMAIN u : u[i].op = "remove" => u[i].rid # None
      BY <1>u, <1>s
    <2>2. \A i : Snapshot(u, i).row = u[i]
      BY DEF Snapshot
    <2> QED
      BY <2>1, <2>2 DEF Owed
  <1>4. rows' = u /\ JobWorld(p, s, u, job', lo, un, ov, n, k, f, col)
    BY <1>2, <1>3, <1>d, <1>j, DavProceeds
  <1>5. OnlyUnsentLeft(t, u)
    BY <1>u, <1>s DEF OnlyUnsentLeft
  <1> QED
    BY <1>4, <1>5

\* A command of the user has changed the table to t and asks for a job.
LEMMA Synced ==
    ASSUME NEW s, NEW t, NEW lo, NEW un, NEW ov, NEW n, NEW k, NEW f, NEW col,
           JobWorld(provider, s, t, job, lo, un, ov, n, k, f, col), SyncTaskList(t)
    PROVE  /\ JobWorld(provider, s, rows', job', lo, un, ov, n, k, f, col)
           /\ OnlyUnsentLeft(t, rows') /\ (provider = "caldav" \/ rows' = t)
  <1>w. /\ World(provider, s, t, Copies(job), lo, un, ov, n, k, f, col)
        /\ JobOK(provider, s, job)
    BY DEF JobWorld
  <1>s. OnlyUnsentLeft(t, t)
    BY DEF OnlyUnsentLeft
  <1>i. ~Busy => World(provider, s, t, {}, lo, un, ov, n, k, f, col)
    <2>1. ~Busy => job.phase \in {"idle", "lists", "pull"}
      BY DEF Busy
    <2>2. ~Busy => Copies(job) = {}
      BY <2>1, <1>w, QuietIs
    <2> QED
      BY <2>2, <1>w
  <1>1. CASE rows' = t /\ job' = job
    BY <1>1, <1>s
  <1>2. CASE provider = "caldav" /\ ~Busy /\ DavBegin(t, {}, FALSE)
    BY <1>2, <1>i, DavBegins
  <1>3. CASE provider = "google" /\ ~Busy /\ rows' = t
             /\ job' = [IdleJob EXCEPT !.phase = "lists"]
    <2>1. IsJob(job') /\ job'.phase = "lists" /\ job'.cur = NoWrite /\ job'.writes = {}
      BY <1>3 DEF IsJob, IdleJob
    <2>2. World(provider, s, t, {}, lo, un, ov, n, k, f, col)
      BY <1>3, <1>i
    <2>3. JobWorld(provider, s, t, job', lo, un, ov, n, k, f, col)
      BY <1>3, <2>1, <2>2, WithoutCopies
    <2> QED
      BY <2>3, <1>3, <1>s
  <1> QED
    BY <1>1, <1>2, <1>3 DEF SyncTaskList, DavSyncStored, GoogleSyncAccount

-----------------------------------------------------------------------------
\* The invariant.

\* What no part of the World speaks of.
TagsOK ==
    /\ tag \in Nat
    /\ list \in [stored : BOOLEAN, enabled : BOOLEAN, token : SUBSET (0..tag)]
    /\ job.ctag \subseteq 0..tag /\ job.token \subseteq 0..tag /\ job.enabled \in BOOLEAN
    /\ again \in BOOLEAN /\ rerun \in BOOLEAN /\ (again => Busy)
    /\ collection \in BOOLEAN
    /\ commands \in 0..MaxCommands /\ foreign \in 0..MaxForeign /\ faults \in 0..MaxFaults

\* The rows whose resource, made unheard, is not what the row is any more.  At CalDAV the
\* title may differ; at Google the resource is not recognised.
lost == IF provider = "caldav" THEN edited ELSE edited \cup altered \cup recreated

JobWorldInv ==
    JobWorld(provider, server, rows, job, lost, unheard, overtaken, newId, commands, foreign,
             collection)
TaskInv == TagsOK /\ JobWorldInv

LEMMA InvPrime ==
    JobWorldInv' <=> JobWorld(provider', server', rows', job', lost', unheard', overtaken',
                              newId', commands', foreign', collection')
  BY DEF JobWorldInv

-----------------------------------------------------------------------------
\* What a step does to the tasks and the server, and the properties say it may not.

TitlesKept(p, t, u, lo) ==
    \A i \in DOMAIN t \cap DOMAIN u :
        (p = "caldav" /\ i \in lo) \/ u[i].c.title = t[i].c.title
RemovalsReached(p, z, t, u, lo, un) ==
    \A i \in DOMAIN t \ DOMAIN u :
        \/ \A j \in DOMAIN z : z[j].by # i /\ j # t[i].rid
        \/ p = "caldav" /\ i \in un /\ t[i].rid = None
        \/ p = "google" /\ i \in lo
NotesKept(p, s, t, z, ov) ==
    p = "caldav" => \A j \in DOMAIN s \cap DOMAIN z :
       \/ z[j].c.notes >= s[j].c.notes \/ s[j].by \in ov
       \/ \E i \in ov : i \in DOMAIN t /\ t[i].rid = j

\* The titles, except at a command, the tombstones and the notes.
StepOK ==
    /\ commands' # commands \/ TitlesKept(provider, rows, rows', lost)
    /\ RemovalsReached(provider, server', rows, rows', lost, unheard)
    /\ NotesKept(provider, server, rows, server', overtaken)

\* The parts of the state, as the steps cite them.
LEMMA InvHas ==
    ASSUME JobWorldInv
    PROVE  /\ World(provider, server, rows, Held, lost, unheard, overtaken, newId, commands,
                    foreign, collection)
           /\ JobOK(provider, server, job)
           /\ Working(job) => Attended(server, rows, Held)
           /\ Sending(job) => CopyKnows(provider, server, Held, lost)
           /\ newId \in Nat /\ commands \in Nat /\ foreign \in Nat
           /\ provider \in {"caldav", "google"}
  BY DEF JobWorldInv, JobWorld, World, Held

\* Without a removal among the resources only the rows matter, and the other way round.
LEMMA ServerStays ==
    ASSUME JobWorldInv, server' = server
    PROVE  NotesKept(provider, server, rows, server', overtaken)
  <1> SUFFICES ASSUME NEW j \in DOMAIN server
               PROVE  server[j].c.notes >= server[j].c.notes
    BY DEF NotesKept
  <1>1. server[j].c \in Known(commands, foreign) /\ foreign \in Nat
    BY InvHas, WorldTypes
  <1>2. server[j].c.notes \in Int
    BY <1>1 DEF Known
  <1> QED
    BY <1>2

LEMMA RowsStay ==
    ASSUME rows' = rows
    PROVE  /\ TitlesKept(provider, rows, rows', lost)
           /\ RemovalsReached(provider, server', rows, rows', lost, unheard)
  BY DEF TitlesKept, RemovalsReached

\* A tombstone that never had a remote id leaves while no resource is its own.
LEMMA UnsentReached ==
    ASSUME NEW p, NEW s, NEW t, NEW H, NEW lo, NEW un, NEW ov, NEW n, NEW k, NEW f, NEW col,
           World(p, s, t, H, lo, un, ov, n, k, f, col), NEW u,
           \A i \in DOMAIN t \ DOMAIN u :
              /\ t[i].rid = None
              /\ p = "caldav" \/ \E w \in H : w.id = i /\ w.row.rid = None /\ CopyKnows(p, s, H, lo)
    PROVE  RemovalsReached(p, s, t, u, lo, un)
  <1> SUFFICES ASSUME NEW i \in DOMAIN t \ DOMAIN u, NEW j \in DOMAIN s,
                      ~(p = "caldav" /\ i \in un), ~(p = "google" /\ i \in lo)
               PROVE  s[j].by # i /\ j # t[i].rid
    BY DEF RemovalsReached
  <1>1. j # None
    <2>1. j \in Nat /\ 1 <= j
      BY WorldTypes
    <2> QED
      BY <2>1 DEF None
  <1>2. t[i].rid = None
    OBVIOUS
  <1>3. CASE p = "caldav"
    BY <1>1, <1>2, <1>3 DEF World, RowKnows
  <1>4. CASE p = "google" /\ \E w \in H : w.id = i /\ w.row.rid = None /\ CopyKnows(p, s, H, lo)
    BY <1>1, <1>2, <1>4 DEF CopyKnows
  <1> QED
    BY <1>3, <1>4 DEF World

-----------------------------------------------------------------------------
\* The user's steps.

LEMMA EditedIs ==
    ASSUME NEW task \in TasksOf(commands, foreign), commands \in Nat, foreign \in Nat,
           task.op # "remove"
    PROVE  /\ EditedTask(task) \in TasksOf(commands + 1, foreign)
           /\ EditOf(task, EditedTask(task), commands + 1)
  <1> DEFINE y == [task.c EXCEPT !.title = commands + 1]
             o == IF task.op = "create" THEN "create" ELSE "update"
             v == task.rev + 1
             e == [task EXCEPT !.c = y, !.op = o, !.rev = v]
             B == Known(commands + 1, foreign)
             O == {"", "create", "update", "remove"}
  <1>1. EditedTask(task) = e
    BY DEF EditedTask
  <1>2. task.c \in Known(commands, foreign)
    BY DEF TasksOf
  <1>3. y \in B /\ y.title = commands + 1 /\ y.notes = task.c.notes
    BY <1>2 DEF Known
  <1>4. o \in O /\ o \in {"create", "update"} /\ (o = "create" <=> task.op = "create")
    OBVIOUS
  <1>5. v \in Nat
    <2>1. task.rev \in Nat
      BY DEF TasksOf
    <2> QED
      BY <2>1
  <1>6. task \in [rid : Nat, etag : B, raw : B, c : B, op : O, rev : Nat]
    <2>1. Known(commands, foreign) \subseteq B
      BY DEF Known
    <2> HIDE DEF B
    <2> QED
      BY <2>1 DEF TasksOf
  <1>7. TasksOf(commands + 1, foreign) = [rid : Nat, etag : B, raw : B, c : B, op : O, rev : Nat]
    BY DEF TasksOf
  <1> HIDE DEF y, o, v, B, O
  <1>8. e \in [rid : Nat, etag : B, raw : B, c : B, op : O, rev : Nat]
    BY <1>3, <1>4, <1>5, <1>6
  <1>9. /\ e.rid = task.rid /\ e.raw = task.raw /\ e.etag = task.etag
        /\ e.c = y /\ e.op = o /\ e.rev = v
    BY <1>6
  <1>10. e.rev = task.rev + 1
    BY <1>9 DEF v
  <1> HIDE DEF e
  <1>11. EditOf(task, e, commands + 1)
    BY <1>3, <1>4, <1>9, <1>10 DEF EditOf
  <1> QED
    BY <1>1, <1>7, <1>8, <1>11

LEMMA RemovedIs ==
    ASSUME NEW k, NEW f, NEW task \in TasksOf(k, f)
    PROVE  LET r == [task EXCEPT !.op = "remove", !.rev = @ + 1]
           IN r \in TasksOf(k, f) /\ RemovalOf(task, r)
  <1> DEFINE o == "remove"
             v == task.rev + 1
             e == [task EXCEPT !.op = o, !.rev = v]
             B == Known(k, f)
             O == {"", "create", "update", "remove"}
  <1>1. v \in Nat /\ o \in O
    <2>1. task.rev \in Nat
      BY DEF TasksOf
    <2> QED
      BY <2>1
  <1>2. TasksOf(k, f) = [rid : Nat, etag : B, raw : B, c : B, op : O, rev : Nat]
    BY DEF TasksOf
  <1>3. [task EXCEPT !.op = "remove", !.rev = @ + 1] = e
    OBVIOUS
  <1> HIDE DEF o, v, B, O
  <1>x. task \in [rid : Nat, etag : B, raw : B, c : B, op : O, rev : Nat]
    BY <1>2
  <1>4. e \in [rid : Nat, etag : B, raw : B, c : B, op : O, rev : Nat]
    BY <1>1, <1>x
  <1>5. e.rid = task.rid /\ e.c = task.c /\ e.op = o /\ e.rev = v
    BY <1>x
  <1>6. RemovalOf(task, e)
    BY <1>5 DEF RemovalOf, o, v
  <1> QED
    BY <1>2, <1>3, <1>4, <1>6

\* The job is as it was: it goes on with the table and the histories as they are now.
LEMMA JobGoesOn ==
    ASSUME NEW p, NEW s, NEW t, NEW lo, NEW H, NEW j, H = Copies(j), JobOK(p, s, j),
           Working(j) => Attended(s, t, H), Sending(j) => CopyKnows(p, s, H, lo),
           NEW u, NEW lo2, lo \subseteq lo2, NEW un, NEW ov, NEW n, NEW k, NEW f, NEW col,
           World(p, s, u, H, lo2, un, ov, n, k, f, col),
           \A i \in DOMAIN u : (i \in DOMAIN t /\ u[i].rid = t[i].rid)
                               \/ \A x \in DOMAIN s : s[x].by # i
    PROVE  JobWorld(p, s, u, j, lo2, un, ov, n, k, f, col)
  <1>1. Working(j) => Attended(s, u, H)
    BY DEF Attended
  <1>2. Sending(j) => CopyKnows(p, s, H, lo2)
    BY DEF CopyKnows, Resembles
  <1> QED
    BY <1>1, <1>2 DEF JobWorld

LEMMA CommandReached ==
    ASSUME JobWorldInv, NEW t, DOMAIN rows \subseteq DOMAIN t,
           \A i \in DOMAIN rows : t[i].rid = rows[i].rid,
           OnlyUnsentLeft(t, rows'), provider = "caldav" \/ rows' = t
    PROVE  RemovalsReached(provider, server, rows, rows', lost, unheard)
  <1>1. World(provider, server, rows, Held, lost, unheard, overtaken, newId, commands,
              foreign, collection)
    BY InvHas
  <1>2. CASE provider = "caldav"
    <2>1. \A i \in DOMAIN rows \ DOMAIN rows' : rows[i].rid = None
      BY DEF OnlyUnsentLeft
    <2> QED
      BY <1>1, <1>2, <2>1, UnsentReached
  <1>3. CASE rows' = t
    BY <1>3 DEF RemovalsReached
  <1> QED
    BY <1>2, <1>3

LEMMA CreateStep ==
    ASSUME JobWorldInv, TasksCreate
    PROVE  JobWorldInv' /\ StepOK
  <1> DEFINE n == newId + 1
             t == SaveLocalTask(n)
  <1>a. /\ commands' = commands + 1 /\ newId' = n /\ SyncTaskList(t)
        /\ UNCHANGED <<provider, server, collection, foreign, lost, unheard, overtaken>>
    BY DEF TasksCreate, Command, atServer, history, creates, lost
  <1>h. /\ World(provider, server, rows, Held, lost, unheard, overtaken, newId, commands,
                 foreign, collection)
        /\ newId \in Nat /\ commands \in Nat /\ foreign \in Nat
    BY InvHas
  <1>n. n \notin DOMAIN rows
    <2>1. \A i \in DOMAIN rows : i <= newId
      BY <1>h, WorldTypes
    <2> QED
      BY <2>1, <1>h
  <1>1. t = With(rows, n, CreatedTask)
    BY <1>n DEF SaveLocalTask
  <1>2. CreatedTask \in TasksOf(commands + 1, foreign)
    <2>1. [title |-> commands + 1, notes |-> 0] \in Known(commands + 1, foreign)
      BY <1>h DEF Known
    <2>2. NoContent \in Known(commands + 1, foreign)
      BY <1>h DEF Known, NoContent
    <2>3. ASSUME NEW B, NEW O, NEW b \in B, NEW c \in B, NEW o \in O
          PROVE  [rid |-> None, etag |-> b, raw |-> b, c |-> c, op |-> o, rev |-> 1]
                    \in [rid : Nat, etag : B, raw : B, c : B, op : O, rev : Nat]
      BY DEF None
    <2> QED
      BY <2>1, <2>2, <2>3 DEF CreatedTask, TasksOf
  <1>3. /\ CreatedTask.rid = None /\ CreatedTask.raw = NoContent
        /\ CreatedTask.etag = NoContent /\ CreatedTask.op = "create"
        /\ CreatedTask.c = [title |-> commands + 1, notes |-> 0]
    BY DEF CreatedTask
  <1> HIDE DEF t
  <1>4. World(provider, server, t, Held, lost, unheard, overtaken, n, commands + 1, foreign,
              collection)
    BY <1>h, <1>1, <1>2, <1>3, RowCreated
  <1>t. DOMAIN t = DOMAIN rows \cup {n} /\ \A i \in DOMAIN rows : t[i] = rows[i]
    BY <1>1, <1>n DEF With
  <1>5. JobWorld(provider, server, t, job, lost, unheard, overtaken, n, commands + 1, foreign,
                 collection)
    <2>1. \A x \in DOMAIN server : server[x].by # n
      <3>1. \A x \in DOMAIN server : server[x].by \in Int /\ server[x].by <= newId
        BY <1>h, WorldTypes
      <3> QED
        BY <3>1, <1>h
    <2> HIDE DEF n
    <2>2. \A i \in DOMAIN t : (i \in DOMAIN rows /\ t[i].rid = rows[i].rid)
                              \/ \A x \in DOMAIN server : server[x].by # i
      BY <2>1, <1>t
    <2> QED
      BY <2>2, <1>4, InvHas, JobGoesOn DEF Held
  <1> HIDE DEF n
  <1>6. /\ JobWorld(provider, server, rows', job', lost, unheard, overtaken, n, commands + 1,
                    foreign, collection)
        /\ OnlyUnsentLeft(t, rows') /\ (provider = "caldav" \/ rows' = t)
    BY <1>5, <1>a, Synced
  <1>7. JobWorldInv'
    BY <1>6, <1>a, InvPrime
  <1>8. commands' # commands
    BY <1>a, <1>h
  <1>9. RemovalsReached(provider, server', rows, rows', lost, unheard)
    BY <1>6, <1>a, <1>t, CommandReached
  <1>10. NotesKept(provider, server, rows, server', overtaken)
    BY <1>a, ServerStays
  <1> QED
    BY <1>7, <1>8, <1>9, <1>10 DEF StepOK

LEMMA UpdateStep ==
    ASSUME JobWorldInv, NEW i \in DOMAIN rows, TasksUpdate(i)
    PROVE  JobWorldInv' /\ StepOK
  <1> DEFINE t == SaveLocalTask(i)
             r == EditedTask(rows[i])
  <1>a. /\ commands' = commands + 1 /\ SyncTaskList(t) /\ rows[i].op # "remove" /\ Edited(i)
        /\ UNCHANGED <<provider, server, collection, foreign, newId, unheard>>
    BY DEF TasksUpdate, Command, atServer, Edited
  <1>h. /\ World(provider, server, rows, Held, lost, unheard, overtaken, newId, commands,
                 foreign, collection)
        /\ newId \in Nat /\ commands \in Nat /\ foreign \in Nat
    BY InvHas
  <1>1. t = With(rows, i, r)
    BY DEF SaveLocalTask
  <1>2. r \in TasksOf(commands + 1, foreign) /\ EditOf(rows[i], r, commands + 1)
    <2>1. rows[i] \in TasksOf(commands, foreign)
      BY <1>h, WorldTypes
    <2> QED
      BY <2>1, <1>a, <1>h, EditedIs
  <1> HIDE DEF t, r
  <1>l. /\ lost \subseteq lost' /\ overtaken \subseteq overtaken'
        /\ rows[i].rid = None /\ i \in unheard => i \in lost'
        /\ rows[i].rid # None /\ rows[i].etag = NoContent => i \in overtaken'
    BY <1>a DEF Edited, Missing, lost
  <1>o. (\E w \in Held : w.id = i) => i \in overtaken'
    <2>1. \A w \in Held : w = job.cur \/ w \in job.writes
      BY DEF Held, Copies
    <2> QED
      BY <2>1, <1>a DEF Edited
  <1>w. World(provider, server, rows, Held, lost', unheard, overtaken', newId, commands,
              foreign, collection)
    <2>1. newId >= newId /\ commands >= commands /\ foreign >= foreign
      BY <1>h
    <2> QED
      BY <2>1, <1>h, <1>l, WorldGrows
  <1>4. World(provider, server, t, Held, lost', unheard, overtaken', newId, commands + 1,
              foreign, collection)
    BY <1>w, <1>1, <1>2, <1>a, <1>l, <1>o, RowEdited
  <1>t. /\ DOMAIN t = DOMAIN rows /\ \A x \in DOMAIN rows : t[x].rid = rows[x].rid
    <2>1. r.rid = rows[i].rid
      BY <1>2 DEF EditOf
    <2>2. DOMAIN t = DOMAIN rows /\ t[i] = r /\ \A x \in DOMAIN rows \ {i} : t[x] = rows[x]
      BY <1>1, WithIs
    <2> QED
      BY <2>1, <2>2
  <1>5. JobWorld(provider, server, t, job, lost', unheard, overtaken', newId, commands + 1,
                 foreign, collection)
    BY <1>t, <1>4, <1>l, InvHas, JobGoesOn DEF Held
  <1>6. /\ JobWorld(provider, server, rows', job', lost', unheard, overtaken', newId,
                    commands + 1, foreign, collection)
        /\ OnlyUnsentLeft(t, rows') /\ (provider = "caldav" \/ rows' = t)
    BY <1>5, <1>a, Synced
  <1>7. JobWorldInv'
    BY <1>6, <1>a, InvPrime
  <1>8. commands' # commands
    BY <1>a, <1>h
  <1>9. RemovalsReached(provider, server', rows, rows', lost, unheard)
    BY <1>6, <1>a, <1>t, CommandReached
  <1>10. NotesKept(provider, server, rows, server', overtaken)
    BY <1>a, ServerStays
  <1> QED
    BY <1>7, <1>8, <1>9, <1>10 DEF StepOK

LEMMA RemoveStep ==
    ASSUME JobWorldInv, NEW i \in DOMAIN rows, TasksRemove(i)
    PROVE  JobWorldInv' /\ StepOK
  <1> DEFINE t == RemoveLocalTask(i)
             r == [rows[i] EXCEPT !.op = "remove", !.rev = @ + 1]
  <1>a. /\ commands' = commands + 1 /\ SyncTaskList(t) /\ rows[i].op # "remove"
        /\ UNCHANGED <<provider, server, collection, foreign, newId, unheard, lost, overtaken>>
    BY DEF TasksRemove, Command, atServer, history, creates, lost
  <1>h. /\ World(provider, server, rows, Held, lost, unheard, overtaken, newId, commands,
                 foreign, collection)
        /\ newId \in Nat /\ commands \in Nat /\ foreign \in Nat
    BY InvHas
  <1>f. rows = [x \in DOMAIN rows |-> rows[x]]
    BY <1>h DEF World, RowsOK
  <1>1. t = With(rows, i, r)
    <2>1. t = [x \in DOMAIN rows |-> IF x = i THEN r ELSE rows[x]]
      BY <1>f DEF RemoveLocalTask
    <2>2. With(rows, i, r) = [x \in DOMAIN rows |-> IF x = i THEN r ELSE rows[x]]
      <3>1. DOMAIN rows \cup {i} = DOMAIN rows
        OBVIOUS
      <3> HIDE DEF r
      <3> QED
        BY <3>1 DEF With
    <2> QED
      BY <2>1, <2>2
  <1>2. r \in TasksOf(commands, foreign) /\ RemovalOf(rows[i], r)
    <2>1. rows[i] \in TasksOf(commands, foreign)
      BY <1>h, WorldTypes
    <2> QED
      BY <2>1, RemovedIs
  <1> HIDE DEF t, r
  <1>3. World(provider, server, t, Held, lost, unheard, overtaken, newId, commands,
              foreign, collection)
    BY <1>h, <1>1, <1>2, <1>a, RowRemoved
  <1>4. World(provider, server, t, Held, lost, unheard, overtaken, newId, commands + 1,
              foreign, collection)
    <2>1. newId >= newId /\ commands + 1 >= commands /\ foreign >= foreign
          /\ commands + 1 \in Nat
      BY <1>h
    <2> QED
      BY <2>1, <1>h, <1>3, WorldGrows
  <1>t. /\ DOMAIN t = DOMAIN rows /\ \A x \in DOMAIN rows : t[x].rid = rows[x].rid
    <2>1. r.rid = rows[i].rid
      BY <1>2 DEF RemovalOf
    <2>2. DOMAIN t = DOMAIN rows /\ t[i] = r /\ \A x \in DOMAIN rows \ {i} : t[x] = rows[x]
      BY <1>1, WithIs
    <2> QED
      BY <2>1, <2>2
  <1>5. JobWorld(provider, server, t, job, lost, unheard, overtaken, newId, commands + 1,
                 foreign, collection)
    BY <1>t, <1>4, InvHas, JobGoesOn DEF Held
  <1>6. /\ JobWorld(provider, server, rows', job', lost, unheard, overtaken, newId,
                    commands + 1, foreign, collection)
        /\ OnlyUnsentLeft(t, rows') /\ (provider = "caldav" \/ rows' = t)
    BY <1>5, <1>a, Synced
  <1>7. JobWorldInv'
    BY <1>6, <1>a, InvPrime
  <1>8. commands' # commands
    BY <1>a, <1>h
  <1>9. RemovalsReached(provider, server', rows, rows', lost, unheard)
    BY <1>6, <1>a, <1>t, CommandReached
  <1>10. NotesKept(provider, server, rows, server', overtaken)
    BY <1>a, ServerStays
  <1> QED
    BY <1>7, <1>8, <1>9, <1>10 DEF StepOK

LEMMA EnabledStep ==
    ASSUME JobWorldInv, TaskListsSetEnabled
    PROVE  JobWorldInv' /\ StepOK
  <1>a. /\ commands' = commands + 1
        /\ UNCHANGED <<provider, server, collection, rows, job, foreign, newId, unheard, lost,
                       overtaken>>
    BY DEF TaskListsSetEnabled, Command, atServer, history, creates, lost
  <1>h. /\ World(provider, server, rows, Held, lost, unheard, overtaken, newId, commands,
                 foreign, collection)
        /\ newId \in Nat /\ commands \in Nat /\ foreign \in Nat
    BY InvHas
  <1>4. World(provider, server, rows, Held, lost, unheard, overtaken, newId, commands + 1,
              foreign, collection)
    <2>1. newId >= newId /\ commands + 1 >= commands /\ foreign >= foreign
          /\ commands + 1 \in Nat
      BY <1>h
    <2> QED
      BY <2>1, <1>h, WorldGrows
  <1>5. JobWorld(provider, server, rows, job, lost, unheard, overtaken, newId, commands + 1,
                 foreign, collection)
    BY <1>4, InvHas, JobGoesOn DEF Held
  <1>7. JobWorldInv'
    BY <1>5, <1>a, InvPrime
  <1>8. StepOK
    BY <1>a, ServerStays, RowsStay DEF StepOK
  <1> QED
    BY <1>7, <1>8

-----------------------------------------------------------------------------
\* The steps that read the server and change only the table and the job.

StillThere ==
    UNCHANGED <<provider, server, collection, newId, commands, foreign, unheard, lost,
                overtaken>>

LEMMA StillWorld ==
    ASSUME StillThere,
           JobWorld(provider, server, rows', job', lost, unheard, overtaken, newId, commands,
                    foreign, collection)
    PROVE  JobWorldInv'
  BY InvPrime DEF StillThere

LEMMA NothingChanges ==
    ASSUME JobWorldInv, StillThere, rows' = rows, job' = job
    PROVE  JobWorldInv' /\ StepOK
  <1>1. JobWorldInv'
    BY StillWorld DEF JobWorldInv
  <1>2. StepOK
    BY ServerStays, RowsStay DEF StepOK, StillThere
  <1> QED
    BY <1>1, <1>2

\* Only rows that were never uploaded leave the table.
LEMMA UnsentLeave ==
    ASSUME JobWorldInv, StillThere, OnlyUnsentLeft(rows, rows'),
           provider = "caldav" \/ rows' = rows
    PROVE  StepOK
  <1>1. TitlesKept(provider, rows, rows', lost)
    BY DEF TitlesKept, OnlyUnsentLeft
  <1>2. RemovalsReached(provider, server, rows, rows', lost, unheard)
    BY CommandReached
  <1> QED
    BY <1>1, <1>2, ServerStays DEF StepOK, StillThere

LEMMA NoJobNoCopies ==
    ASSUME JobWorldInv, ~Busy
    PROVE  World(provider, server, rows, {}, lost, unheard, overtaken, newId, commands,
                 foreign, collection)
  <1>1. job.phase \in {"idle", "lists", "pull"}
    BY DEF Busy
  <1>2. Held = {}
    BY <1>1, InvHas, QuietIs DEF Held
  <1> QED
    BY <1>2, InvHas

\* The poll, a discovery that lacks the list, or the timer starts a CalDAV job.
LEMMA DavBeginStep ==
    ASSUME JobWorldInv, StillThere, provider = "caldav", ~Busy, NEW ctag, NEW timer,
           DavBegin(rows, ctag, timer)
    PROVE  JobWorldInv' /\ StepOK
  <1>1. /\ JobWorld(provider, server, rows', job', lost, unheard, overtaken, newId, commands,
                    foreign, collection)
        /\ OnlyUnsentLeft(rows, rows')
    BY NoJobNoCopies, DavBegins
  <1> QED
    BY <1>1, StillWorld, UnsentLeave

LEMMA DavPollStep ==
    ASSUME JobWorldInv, provider = "caldav",
           DavSyncDiscovered \/ DavSyncUnreported \/ DavRerun
    PROVE  JobWorldInv' /\ StepOK
  <1>1. CASE DavSyncDiscovered
    <2>1. StillThere
      BY <1>1 DEF DavSyncDiscovered, StillThere, atServer, bounds, history, creates, lost
    <2>2. CASE Busy
      BY <1>1, <2>1, <2>2, NothingChanges DEF DavSyncDiscovered
    <2>3. CASE ~Busy
      <3>1. DavBegin(rows, {tag}, rerun)
        BY <1>1, <2>3 DEF DavSyncDiscovered
      <3> QED
        BY <3>1, <2>1, <2>3, DavBeginStep
    <2> QED
      BY <2>2, <2>3
  <1>2. CASE DavSyncUnreported
    <2>1. StillThere
      BY <1>2 DEF DavSyncUnreported, StillThere, atServer, history, creates, lost
    <2>2. CASE rows' = rows /\ job' = job
      BY <2>1, <2>2, NothingChanges
    <2>3. CASE ~Busy /\ DavBegin(rows, {}, rerun)
      BY <2>1, <2>3, DavBeginStep
    <2> QED
      BY <1>2, <2>2, <2>3 DEF DavSyncUnreported
  <1>3. CASE DavRerun
    <2>1. StillThere
      BY <1>3 DEF DavRerun, StillThere, atServer, bounds, history, creates, lost
    <2>2. CASE rows' = rows /\ job' = job
      BY <2>1, <2>2, NothingChanges
    <2>3. CASE ~Busy /\ DavBegin(rows, {}, FALSE)
      BY <2>1, <2>3, DavBeginStep
    <2> QED
      BY <1>3, <2>2, <2>3 DEF DavRerun, DavSyncStored
  <1> QED
    BY <1>1, <1>2, <1>3

\* Without the collection the list and its tasks go.
LEMMA ListGone ==
    ASSUME JobWorldInv, StillThere, collection = FALSE, rows' = Empty,
           \/ job' = job
           \/ job' = IdleJob
    PROVE  JobWorldInv' /\ StepOK
  <1>h. World(provider, server, rows, Held, lost, unheard, overtaken, newId, commands,
              foreign, collection)
    BY InvHas
  <1>0. server = Empty /\ DOMAIN Empty = {}
    BY <1>h DEF World, Empty
  <1>1. Without(rows, DOMAIN rows) = Empty
    BY DEF Without, Empty
  <1>2. World(provider, server, Empty, Held, lost, unheard, overtaken, newId, commands,
              foreign, collection)
    <2>1. World(provider, server, Without(rows, DOMAIN rows), Held, lost, unheard, overtaken,
                newId, commands, foreign, collection)
      BY <1>h, RowsDropped
    <2> QED
      BY <1>1, <2>1
  <1>3. ASSUME job' = job
        PROVE  JobWorldInv'
    <2>1. JobWorld(provider, server, Empty, job, lost, unheard, overtaken, newId, commands,
                   foreign, collection)
      BY <1>0, <1>2, InvHas, JobGoesOn DEF Held
    <2> QED
      BY <1>3, <2>1, StillWorld
  <1>4. ASSUME job' = IdleJob
        PROVE  JobWorldInv'
    <2>1. JobWorld(provider, server, Empty, IdleJob, lost, unheard, overtaken, newId,
                   commands, foreign, collection)
      BY <1>2, IdleIs, WithoutCopies
    <2> QED
      BY <1>4, <2>1, StillWorld
  <1>5. TitlesKept(provider, rows, rows', lost)
    BY <1>0 DEF TitlesKept
  <1>6. RemovalsReached(provider, server', rows, rows', lost, unheard)
    BY <1>0 DEF RemovalsReached, StillThere
  <1>7. StepOK
    BY <1>5, <1>6, ServerStays DEF StepOK, StillThere
  <1>8. JobWorldInv'
    BY <1>3, <1>4
  <1> QED
    BY <1>7, <1>8

LEMMA DavListGoneStep ==
    ASSUME TagsOK, JobWorldInv, DavListGone
    PROVE  JobWorldInv' /\ StepOK
  <1>1. StillThere /\ collection = FALSE /\ rows' = Empty /\ job' = job
    BY DEF DavListGone, StillThere, atServer, bounds, history, creates, lost, TagsOK
  <1> QED
    BY <1>1, ListGone

LEMMA GooglePollStep ==
    ASSUME JobWorldInv, provider = "google", GoogleSync \/ GoogleRerun
    PROVE  JobWorldInv' /\ StepOK
  <1>0. StillThere /\ rows' = rows
    BY DEF GoogleRerun, GoogleSync, GoogleSyncAccount, StillThere, atServer, bounds, history, creates, lost
  <1>1. CASE job' = job
    BY <1>0, <1>1, NothingChanges
  <1>2. CASE ~Busy /\ job' = [IdleJob EXCEPT !.phase = "lists"]
    <2>1. IsJob(job') /\ job'.phase = "lists" /\ job'.cur = NoWrite /\ job'.writes = {}
      BY <1>2 DEF IsJob, IdleJob
    <2>2. World(provider, server, rows, {}, lost, unheard, overtaken, newId, commands,
                foreign, collection)
      BY <1>2, NoJobNoCopies
    <2>3. JobWorld(provider, server, rows, job', lost, unheard, overtaken, newId, commands,
                   foreign, collection)
      BY <2>1, <2>2, WithoutCopies
    <2>4. JobWorldInv'
      BY <1>0, <2>3, StillWorld
    <2>5. OnlyUnsentLeft(rows, rows')
      BY <1>0 DEF OnlyUnsentLeft
    <2> QED
      BY <1>0, <2>4, <2>5, UnsentLeave
  <1> QED
    BY <1>1, <1>2 DEF GoogleRerun, GoogleSync, GoogleSyncAccount

-----------------------------------------------------------------------------
\* The steps of other clients.

LEMMA JobAtServer ==
    ASSUME NEW p, NEW s, NEW z, NEW j, JobOK(p, s, j),
           j.phase \in {"create", "recreate"} => j.cur.row.rid \notin DOMAIN z
    PROVE  JobOK(p, z, j)
  <1>1. CurOK(p, z, j)
    BY DEF JobOK, CurOK
  <1> QED
    BY <1>1 DEF JobOK

\* The server is another, the rows and the job are not.
LEMMA OtherWrote ==
    ASSUME JobWorldInv, UNCHANGED <<provider, rows, job, unheard, overtaken, commands>>,
           World(provider, server', rows, Held, lost', unheard, overtaken, newId', commands,
                 foreign', collection'),
           Attended(server, rows, Held) => Attended(server', rows, Held),
           CopyKnows(provider, server, Held, lost) => CopyKnows(provider, server', Held, lost'),
           \A j \in DOMAIN server' : j \in DOMAIN server \/ j = newId + 1
    PROVE  JobWorldInv'
  <1>1. job.phase \in {"create", "recreate"} =>
          job.cur \in Held /\ job.cur.row.rid \notin DOMAIN server
    BY InvHas DEF JobOK, CurOK, Held, Copies, None
  <1>2. job.phase \in {"create", "recreate"} => job.cur.row.rid \notin DOMAIN server'
    <2>1. \A w \in Held : w.row.rid \in Nat /\ w.row.rid <= newId
      BY InvHas, WorldTypes
    <2>2. newId \in Nat
      BY InvHas
    <2>3. \A w \in Held : w.row.rid # newId + 1
      BY <2>1, <2>2
    <2> QED
      BY <1>1, <2>3
  <1>3. JobOK(provider, server', job)
    BY <1>2, InvHas, JobAtServer
  <1>4. JobWorld(provider, server', rows, job, lost', unheard, overtaken, newId', commands,
                 foreign', collection')
    BY <1>3, InvHas DEF JobWorld, Held
  <1> QED
    BY <1>4, InvPrime

LEMMA ForeignCreateStep ==
    ASSUME TagsOK, JobWorldInv, ForeignCreate
    PROVE  JobWorldInv' /\ StepOK
  <1> DEFINE c == [title |-> 0, notes |-> NextNotes]
             z == With(server, newId + 1, [c |-> c, by |-> Pulled(newId + 1)])
  <1>a. /\ collection = TRUE /\ foreign' = foreign + 1 /\ newId' = newId + 1 /\ server' = z
        /\ UNCHANGED <<provider, rows, job, lost, unheard, overtaken, commands, collection>>
    BY DEF ForeignCreate, Foreign, history, creates, lost, TagsOK
  <1>h. /\ World(provider, server, rows, Held, lost, unheard, overtaken, newId, commands,
                 foreign, collection)
        /\ newId \in Nat /\ commands \in Nat /\ foreign \in Nat
    BY InvHas
  <1>1. c \in Known(commands, foreign + 1) /\ c # NoContent /\ c.title = 0
    <2>1. NextNotes \in 0..((foreign + 1) + 1) /\ 0 \in 0..commands
      BY <1>h DEF NextNotes
    <2>2. NextNotes # 0
      BY <1>h DEF NextNotes
    <2>3. c.notes = NextNotes /\ NoContent.notes = 0
      BY DEF NoContent
    <2> QED
      BY <2>1, <2>2, <2>3 DEF Known
  <1> HIDE DEF c
  <1>2. /\ World(provider, z, rows, Held, lost, unheard, overtaken, newId + 1, commands,
                 foreign + 1, collection)
        /\ Attended(server, rows, Held) => Attended(z, rows, Held)
        /\ CopyKnows(provider, server, Held, lost) => CopyKnows(provider, z, Held, lost)
    BY <1>1, <1>a, <1>h, ResourceMade
  <1>3. DOMAIN z = DOMAIN server \cup {newId + 1} /\ newId + 1 \notin DOMAIN server
        /\ \A j \in DOMAIN server : z[j] = server[j]
    <2>1. \A j \in DOMAIN server : j \in Nat /\ j <= newId
      BY <1>h, WorldTypes
    <2>2. newId + 1 \notin DOMAIN server
      BY <2>1, <1>h
    <2> DEFINE n == newId + 1
               v == [c |-> c, by |-> Pulled(newId + 1)]
    <2>3. z = With(server, n, v) /\ n \notin DOMAIN server
      BY <2>2
    <2> HIDE DEF n, v, z
    <2>4. DOMAIN z = DOMAIN server \cup {n} /\ \A j \in DOMAIN server \ {n} : z[j] = server[j]
      BY ONLY <2>3 DEF With
    <2> QED
      BY <2>3, <2>4 DEF n
  <1> HIDE DEF z
  <1>4. JobWorldInv'
    BY <1>2, <1>3, <1>a, OtherWrote
  <1>5. NotesKept(provider, server, rows, server', overtaken)
    <2> SUFFICES ASSUME NEW j \in DOMAIN server
                 PROVE  server'[j].c.notes >= server[j].c.notes
      BY DEF NotesKept
    <2>1. server'[j] = server[j]
      BY <1>3, <1>a
    <2>2. server[j].c \in Known(commands, foreign)
      BY <1>h, WorldTypes
    <2>3. server[j].c.notes \in Int
      BY <2>2, <1>h DEF Known
    <2> QED
      BY <2>1, <2>3
  <1> QED
    BY <1>4, <1>5, <1>a, RowsStay DEF StepOK

LEMMA ForeignEditStep ==
    ASSUME TagsOK, JobWorldInv, NEW j \in DOMAIN server, ForeignEdit(j)
    PROVE  JobWorldInv' /\ StepOK
  <1>a. /\ foreign' = foreign + 1 /\ server' = [server EXCEPT ![j].c.notes = NextNotes]
        /\ altered' = IF Missing(server[j].by) THEN altered \cup {server[j].by} ELSE altered
        /\ UNCHANGED <<edited, recreated>>
        /\ UNCHANGED <<provider, rows, job, unheard, overtaken, commands, newId, collection>>
    BY DEF ForeignEdit, Foreign
  <1>h. /\ World(provider, server, rows, Held, lost, unheard, overtaken, newId, commands,
                 foreign, collection)
        /\ newId \in Nat /\ commands \in Nat /\ foreign \in Nat
    BY InvHas
  <1>s. server \in [DOMAIN server -> ResourcesOf(commands, foreign)]
    BY <1>h DEF World, ServerOK
  <1>l. /\ lost \subseteq lost'
        /\ /\ provider = "google" /\ server[j].by \in unheard
           /\ server[j].by \in DOMAIN rows /\ rows[server[j].by].rid = None
           => server[j].by \in lost'
    BY <1>a DEF Missing, lost
  <1> DEFINE d == [server[j].c EXCEPT !.notes = NextNotes]
             v == [server[j] EXCEPT !.c = d]
  <1>1. server' = [server EXCEPT ![j] = v]
    BY <1>a
  <1>2. /\ v \in ResourcesOf(commands, foreign + 1) /\ v.by = server[j].by
        /\ v.c.title = server[j].c.title /\ v.c.notes = NextNotes
    <2>1. server[j].c \in Known(commands, foreign) /\ server[j].by \in RowIds
      BY <1>s DEF ResourcesOf
    <2>2. NextNotes \in 0..((foreign + 1) + 1) /\ NextNotes # 0
      BY <1>h DEF NextNotes
    <2>3. /\ d \in Known(commands, foreign + 1) /\ d.title = server[j].c.title
          /\ d.notes = NextNotes
      BY <2>1, <2>2 DEF Known
    <2>4. d # NoContent
      <3>1. NoContent.notes = 0
        BY DEF NoContent
      <3> HIDE DEF d
      <3> QED
        BY <2>2, <2>3, <3>1
    <2>5. server[j] \in [c : Known(commands, foreign) \ {NoContent}, by : RowIds]
      BY <1>s DEF ResourcesOf
    <2> HIDE DEF d
    <2>6. v = [c |-> d, by |-> server[j].by]
      BY <2>5
    <2> QED
      BY <2>1, <2>3, <2>4, <2>6 DEF ResourcesOf
  <1>k. ResourcesOf(commands, foreign) \subseteq ResourcesOf(commands, foreign + 1)
    <2>1. 0..(foreign + 1) \subseteq 0..((foreign + 1) + 1)
      BY <1>h
    <2>2. Known(commands, foreign) \subseteq Known(commands, foreign + 1)
      BY <2>1 DEF Known
    <2> QED
      BY <2>2 DEF ResourcesOf
  <1> HIDE DEF v, d
  <1>3. /\ server' \in [DOMAIN server -> ResourcesOf(commands, foreign + 1)]
        /\ server'[j] = v /\ \A x \in DOMAIN server : x # j => server'[x] = server[x]
        /\ DOMAIN server' = DOMAIN server
    BY <1>1, <1>2, <1>k, <1>s
  <1>4. /\ World(provider, server', rows, Held, lost', unheard, overtaken, newId, commands,
                 foreign + 1, collection)
        /\ Attended(server, rows, Held) => Attended(server', rows, Held)
        /\ CopyKnows(provider, server, Held, lost) => CopyKnows(provider, server', Held, lost')
    BY <1>2, <1>3, <1>h, <1>l, ResourceEdited
  <1>5. JobWorldInv'
    BY <1>3, <1>4, <1>a, OtherWrote
  <1>6. NotesKept(provider, server, rows, server', overtaken)
    <2> SUFFICES ASSUME NEW x \in DOMAIN server
                 PROVE  server'[x].c.notes >= server[x].c.notes
      BY DEF NotesKept
    <2>2. server[x].c \in Known(commands, foreign)
      BY <1>h, WorldTypes
    <2>3. server[x].c.notes \in Int /\ server[x].c.notes <= foreign + 1
      BY <2>2, <1>h DEF Known
    <2>4. CASE x # j
      BY <2>3, <2>4, <1>3
    <2>5. CASE x = j
      <3>1. server'[x].c.notes = foreign + 2
        BY <2>5, <1>3, <1>2 DEF NextNotes
      <3> QED
        BY <2>3, <3>1, <1>h
    <2> QED
      BY <2>4, <2>5
  <1> QED
    BY <1>5, <1>6, <1>a, RowsStay DEF StepOK

\* Resources are removed, by another client or by the job.
LEMMA FewerNotes ==
    ASSUME JobWorldInv, NEW S, server' = Without(server, S)
    PROVE  NotesKept(provider, server, rows, server', overtaken)
  <1> SUFFICES ASSUME NEW j \in DOMAIN server \cap DOMAIN server'
               PROVE  server'[j].c.notes >= server[j].c.notes
    BY DEF NotesKept
  <1>1. server'[j] = server[j]
    BY DEF Without
  <1>2. server[j].c \in Known(commands, foreign) /\ foreign \in Nat
    BY InvHas, WorldTypes
  <1>3. server[j].c.notes \in Int
    BY <1>2 DEF Known
  <1> QED
    BY <1>1, <1>3

LEMMA ForeignRemoveStep ==
    ASSUME TagsOK, JobWorldInv, NEW j \in DOMAIN server, ForeignRemove(j)
    PROVE  JobWorldInv' /\ StepOK
  <1>a. /\ foreign' = foreign + 1 /\ server' = Without(server, {j})
        /\ UNCHANGED <<provider, rows, job, lost, unheard, overtaken, commands, newId,
                       collection>>
    BY DEF ForeignRemove, Foreign, history, creates, lost
  <1>h. /\ World(provider, server, rows, Held, lost, unheard, overtaken, newId, commands,
                 foreign, collection)
        /\ newId \in Nat /\ commands \in Nat /\ foreign \in Nat
    BY InvHas
  <1>1. World(provider, server, rows, Held, lost, unheard, overtaken, newId, commands,
              foreign + 1, collection)
    <2>1. newId >= newId /\ commands >= commands /\ foreign + 1 >= foreign
          /\ foreign + 1 \in Nat
      BY <1>h
    <2> QED
      BY <2>1, <1>h, WorldGrows
  <1>2. World(provider, server', rows, Held, lost, unheard, overtaken, newId, commands,
              foreign + 1, collection)
    BY <1>1, <1>a, ResourcesDropped
  <1>s. server' = Without(server, {j})
    BY <1>a
  <1>3. /\ Attended(server, rows, Held) => Attended(server', rows, Held)
        /\ CopyKnows(provider, server, Held, lost) => CopyKnows(provider, server', Held, lost)
    BY ONLY <1>s, StillAttended
  <1>4. DOMAIN server' \subseteq DOMAIN server
    BY ONLY <1>s DEF Without
  <1>5. JobWorldInv'
    BY <1>2, <1>3, <1>4, <1>a, OtherWrote
  <1> QED
    BY <1>5, <1>a, FewerNotes, RowsStay DEF StepOK

LEMMA ForeignRemoveListStep ==
    ASSUME TagsOK, JobWorldInv, ForeignRemoveList
    PROVE  JobWorldInv' /\ StepOK
  <1>a. /\ foreign' = foreign + 1 /\ server' = Empty /\ collection' = FALSE
        /\ UNCHANGED <<provider, rows, job, lost, unheard, overtaken, commands, newId>>
    BY DEF ForeignRemoveList, Foreign, history, creates, lost
  <1>h. /\ World(provider, server, rows, Held, lost, unheard, overtaken, newId, commands,
                 foreign, collection)
        /\ newId \in Nat /\ commands \in Nat /\ foreign \in Nat
    BY InvHas
  <1>1. World(provider, server, rows, Held, lost, unheard, overtaken, newId, commands,
              foreign + 1, collection)
    <2>1. newId >= newId /\ commands >= commands /\ foreign + 1 >= foreign
          /\ foreign + 1 \in Nat
      BY <1>h
    <2> QED
      BY <2>1, <1>h, WorldGrows
  <1>2. /\ World(provider, Empty, rows, Held, lost, unheard, overtaken, newId, commands,
                 foreign + 1, FALSE)
        /\ Attended(Empty, rows, Held) /\ CopyKnows(provider, Empty, Held, lost)
    BY <1>1, CollectionRemoved
  <1>4. DOMAIN server' = {}
    BY <1>a DEF Empty
  <1>5. JobWorldInv'
    BY <1>2, <1>4, <1>a, OtherWrote
  <1>6. NotesKept(provider, server, rows, server', overtaken)
    BY <1>4 DEF NotesKept
  <1> QED
    BY <1>5, <1>6, <1>a, RowsStay DEF StepOK

LEMMA OthersStep ==
    ASSUME TagsOK, JobWorldInv, Others
    PROVE  JobWorldInv' /\ StepOK
  BY ForeignCreateStep, ForeignEditStep, ForeignRemoveStep, ForeignRemoveListStep DEF Others

-----------------------------------------------------------------------------
\* The write a job is sending.

Writing(j) == j.phase \notin {"idle", "lists", "reconcile", "pull"}

LEMMA CurIs ==
    ASSUME JobWorldInv, Writing(job)
    PROVE  /\ job.cur \in Held /\ Held \ {job.cur} = job.writes /\ job.writes \subseteq Held
           /\ job.cur.id # None /\ IsJob(job)
           /\ Attended(server, rows, Held) /\ CopyKnows(provider, server, Held, lost)
           /\ \A w \in Held : w.row.op = "remove" => w.row.rid # None
           /\ provider = "caldav" => \A w \in job.writes : Changes(w.row)
           /\ CurOK(provider, server, job)
           /\ TaskOK(provider, job.cur.id, job.cur.row)
           /\ job.cur.row.op \in {"create", "update", "remove"}
  <1>1. JobOK(provider, server, job) /\ Working(job) /\ Sending(job)
    BY InvHas DEF Writing, Working, Sending
  <1>2. job.cur.id # None /\ job.cur \notin job.writes /\ IsJob(job)
    BY <1>1 DEF JobOK, Writing
  <1>3. job.cur \in Held /\ Held \ {job.cur} = job.writes /\ job.writes \subseteq Held
    BY <1>2 DEF Held, Copies
  <1>4. Attended(server, rows, Held) /\ CopyKnows(provider, server, Held, lost)
    BY <1>1, InvHas
  <1>5. ToSendOK(provider, job) /\ CurOK(provider, server, job)
    BY <1>1 DEF JobOK
  <1>6. TaskOK(provider, job.cur.id, job.cur.row)
    BY <1>3, InvHas DEF World, CopiesOK
  <1>7. job.cur.row.op \in {"create", "update", "remove"}
    <2>1. \A w \in Held : w.row.op \in {"create", "update", "remove"}
      BY InvHas, WorldTypes
    <2> QED
      BY <1>3, <2>1
  <1> QED
    BY <1>1, <1>2, <1>3, <1>4, <1>5, <1>6, <1>7 DEF ToSendOK, Held

TitleStays(task, r) == r.c.title = task.c.title

\* The row of a write that is not a removal, when it is answered.
LEMMA WriteRecorded ==
    ASSUME NEW p, NEW s, NEW t, NEW H, NEW lo, NEW un, NEW ov, NEW n, NEW k, NEW f, NEW col,
           World(p, s, t, H, lo, un, ov, n, k, f, col), col = TRUE,
           NEW w \in H, w.row.op # "remove", NEW j \in Nat,
           NEW etag \in {NoContent, w.row.c}
    PROVE  /\ w.id \in DOMAIN t
           /\ \E r \in TasksOf(k, f) :
                /\ CompleteTaskWrite(t, w, j, etag, w.row.c, w.row.c) = With(t, w.id, r)
                /\ RecordOf(t[w.id], w, j, r)
                /\ TitleStays(t[w.id], r)
  <1>1. w.id \in DOMAIN t
    BY DEF World, CopiesHaveRows
  <1>2. Follows(p, t[w.id], w)
    BY <1>1 DEF World, CopiesFollow
  <1> DEFINE task == t[w.id]
             c == w.row.c
             since == task.rev # w.row.rev
             o == IF ~since THEN "" ELSE IF task.op = "remove" THEN "remove" ELSE "update"
             y == IF since THEN task.c ELSE c
             r == [task EXCEPT !.rid = j, !.etag = etag, !.raw = c, !.op = o, !.c = y]
             B == Known(k, f)
             O == {"", "create", "update", "remove"}
  <1>3. ~(task.op = "remove" /\ ~since)
    BY <1>2 DEF Follows
  <1>4. CompleteTaskWrite(t, w, j, etag, c, c) = With(t, w.id, r)
    BY <1>1, <1>3 DEF CompleteTaskWrite
  <1>5. task \in [rid : Nat, etag : B, raw : B, c : B, op : O, rev : Nat]
    <2>1. task \in TasksOf(k, f)
      BY <1>1, WorldTypes
    <2> QED
      BY <2>1 DEF TasksOf
  <1>6. c \in B /\ etag \in B
    <2>1. c \in B
      BY WorldTypes
    <2>2. NoContent \in B
      <3>1. k \in Nat /\ f \in Nat
        BY DEF World
      <3> QED
        BY <3>1 DEF NoContent, Known
    <2> QED
      BY <2>1, <2>2
  <1>7. o \in O /\ (o = "" <=> ~since) /\ (o = "remove" <=> since /\ task.op = "remove")
        /\ o \in {"", "update", "remove"}
    OBVIOUS
  <1>8. y \in B
    BY <1>5, <1>6
  <1>9. ~since => y = c
    OBVIOUS
  <1>10. since => y = task.c
    OBVIOUS
  <1>11. y.title = task.c.title
    <2>1. ~since => c.title = task.c.title
      BY <1>2 DEF Follows
    <2> HIDE DEF since
    <2> QED
      BY <2>1, <1>9, <1>10
  <1>12. TasksOf(k, f) = [rid : Nat, etag : B, raw : B, c : B, op : O, rev : Nat]
    BY DEF TasksOf
  <1>e. etag \in {NoContent, c}
    OBVIOUS
  <1>s. since <=> task.rev # w.row.rev
    OBVIOUS
  <1> HIDE DEF task, c, since, o, y, B, O
  <1>13. r \in [rid : Nat, etag : B, raw : B, c : B, op : O, rev : Nat]
    BY <1>5, <1>6, <1>7, <1>8
  <1>14. /\ r.rid = j /\ r.etag = etag /\ r.raw = c /\ r.op = o /\ r.c = y
         /\ r.rev = task.rev
    BY <1>5
  <1> HIDE DEF r
  <1>15. RecordOf(task, w, j, r)
    BY <1>14, <1>7, <1>9, <1>10, <1>e, <1>s DEF RecordOf, c
  <1>16. r.c.title = task.c.title
    BY <1>14, <1>11
  <1> QED
    BY <1>1, <1>4, <1>12, <1>13, <1>15, <1>16 DEF c, task, TitleStays

\* What it holds can be the content of a resource.
LEMMA Uploadable ==
    ASSUME NEW p, NEW s, NEW t, NEW H, NEW lo, NEW un, NEW ov, NEW n, NEW k, NEW f, NEW col,
           World(p, s, t, H, lo, un, ov, n, k, f, col), NEW w \in H, w.row.op # "remove"
    PROVE  w.row.c \in Known(k, f) \ {NoContent} /\ w.id \in RowIds
  <1>1. w.row.c \in Known(k, f)
    BY WorldTypes
  <1>2. w.row.op \in {"create", "update", "remove"}
    BY WorldTypes
  <1>3. w.row.c.title # 0
    <2>1. TaskOK(p, w.id, w.row)
      BY DEF World, CopiesOK
    <2> QED
      BY <1>2, <2>1 DEF TaskOK
  <1>4. w.row.c # NoContent
    <2>1. NoContent.title = 0
      BY DEF NoContent
    <2> QED
      BY <1>3, <2>1
  <1>5. w.id \in RowIds
    BY DEF World, CopiesOK, WritesOf
  <1> QED
    BY <1>1, <1>4, <1>5

\* The server after a resource was written.
LEMMA ResourceWritten ==
    ASSUME NEW p, NEW s, NEW t, NEW H, NEW lo, NEW un, NEW ov, NEW n, NEW k, NEW f, NEW col,
           World(p, s, t, H, lo, un, ov, n, k, f, col), NEW w \in H, w.row.op # "remove",
           NEW j, NEW by, by = IF j \in DOMAIN s THEN s[j].by ELSE w.id
    PROVE  LET z == With(s, j, [c |-> w.row.c, by |-> by])
           IN /\ z \in [DOMAIN z -> ResourcesOf(k, f)] /\ WrittenTo(p, s, lo, w, j, z)
              /\ z[j].c = w.row.c
  <1> DEFINE v == [c |-> w.row.c, by |-> by]
             z == With(s, j, v)
  <1>1. w.row.c \in Known(k, f) \ {NoContent} /\ w.id \in RowIds
    BY Uploadable
  <1>2. s \in [DOMAIN s -> ResourcesOf(k, f)]
    BY DEF World, ServerOK
  <1>3. by \in RowIds
    BY <1>1, <1>2 DEF ResourcesOf
  <1>4. v \in ResourcesOf(k, f) /\ v.c = w.row.c /\ v.by = by
    BY <1>1, <1>3 DEF ResourcesOf
  <1> HIDE DEF v
  <1>5. /\ DOMAIN z = DOMAIN s \cup {j} /\ z[j] = v /\ \A x \in DOMAIN s : x # j => z[x] = s[x]
    BY DEF With
  <1>6. z \in [DOMAIN z -> ResourcesOf(k, f)]
    BY <1>2, <1>4 DEF With
  <1> HIDE DEF z
  <1>7. WrittenTo(p, s, lo, w, j, z) /\ z[j].c = w.row.c
    BY <1>4, <1>5 DEF WrittenTo
  <1> QED
    BY <1>6, <1>7 DEF z, v

-----------------------------------------------------------------------------
\* The writes of a CalDAV job.

\* The server accepts an upload.
LEMMA DavStored ==
    ASSUME TagsOK, JobWorldInv, provider = "caldav", NEW ph, ph = job.phase,
           ph \in {"create", "put", "putAgain"}, DavAccepts(ph, job.cur)
    PROVE  LET w == job.cur
               j == Address(w)
               z == Stored(w)
           IN /\ collection = TRUE /\ w \in Held /\ w.row.op # "remove"
              /\ Target(provider, server, rows, Held, lost, newId, w, j)
              /\ j \in DOMAIN server => j = w.row.rid
              /\ z \in [DOMAIN z -> ResourcesOf(commands, foreign)]
              /\ WrittenTo(provider, server, lost, w, j, z) /\ z[j].c = w.row.c
              /\ NotesKept(provider, server, rows, z, overtaken)
  <1> DEFINE w == job.cur
             j == Address(w)
             z == Stored(w)
             by == IF j \in DOMAIN server THEN server[j].by ELSE w.id
  <1>c. collection = TRUE
    BY DEF DavAccepts, TagsOK
  <1>h. /\ World(provider, server, rows, Held, lost, unheard, overtaken, newId, commands,
                 foreign, collection)
        /\ newId \in Nat /\ commands \in Nat /\ foreign \in Nat
    BY InvHas
  <1>w. /\ w \in Held /\ CopyKnows(provider, server, Held, lost) /\ CurOK(provider, server, job)
        /\ TaskOK(provider, w.id, w.row) /\ w.row.op \in {"create", "update", "remove"}
    BY CurIs DEF Writing
  <1>o. w.row.op # "remove"
    BY <1>w DEF CurOK
  <1>1. /\ Target(provider, server, rows, Held, lost, newId, w, j)
        /\ j \in DOMAIN server => j = w.row.rid
    <2>1. CASE w.row.rid # None
      <3>1. j = w.row.rid
        BY <2>1 DEF Address
      <3>2. Target(provider, server, rows, Held, lost, newId, w, w.row.rid)
        BY <2>1, <1>c, <1>h, <1>w, TargetKnown
      <3> QED
        BY <3>1, <3>2
    <2>2. CASE w.row.rid = None
      <3>1. j = w.id
        BY <2>2 DEF Address
      <3>2. Target(provider, server, rows, Held, lost, newId, w, w.id)
        BY <2>2, <1>c, <1>h, <1>w, TargetNamed
      <3>3. ph = "create"
        <4>1. w.row.op # "update"
          BY <2>2, <1>w DEF TaskOK
        <4> QED
          BY <4>1, <1>w DEF CurOK
      <3>4. j \notin DOMAIN server
        BY <3>3 DEF DavAccepts, Present
      <3> QED
        BY <3>1, <3>2, <3>4
    <2> QED
      BY <2>1, <2>2
  <1>2. z = With(server, j, [c |-> w.row.c, by |-> by])
    BY DEF Stored, Present
  <1> HIDE DEF z
  <1>3. /\ z \in [DOMAIN z -> ResourcesOf(commands, foreign)]
        /\ WrittenTo(provider, server, lost, w, j, z) /\ z[j].c = w.row.c
    <2> HIDE DEF j, w
    <2>1. by = IF j \in DOMAIN server THEN server[j].by ELSE w.id
      OBVIOUS
    <2> HIDE DEF by
    <2> QED
      BY <2>1, <1>h, <1>w, <1>o, <1>2, ResourceWritten
  <1>4. NotesKept(provider, server, rows, z, overtaken)
    <2> SUFFICES ASSUME NEW x \in DOMAIN server
                 PROVE  \/ z[x].c.notes >= server[x].c.notes
                        \/ \E i \in overtaken : i \in DOMAIN rows /\ rows[i].rid = x
      BY DEF NotesKept
    <2>n. server[x].c.notes \in Int
      <3>1. server[x].c \in Known(commands, foreign)
        BY <1>h, WorldTypes
      <3> QED
        BY <3>1, <1>h DEF Known
    <2>1. CASE x # j
      <3>1. z[x] = server[x]
        BY <2>1, <1>3 DEF WrittenTo
      <3> QED
        BY <3>1, <2>n
    <2>2. CASE x = j
      <3>1. Present(w)
        BY <2>2 DEF Present
      <3>2. ph \in {"put", "putAgain"} /\ Matches(w)
        BY <3>1 DEF DavAccepts
      <3>3. w.row.op = "update"
        BY <3>2, <1>w DEF CurOK
      <3>4. x = w.row.rid
        BY <2>2, <1>1
      <3>5. CASE w.id \in overtaken
        <4>1. w.id \in DOMAIN rows
          BY <1>h, <1>w, <1>c DEF World, CopiesHaveRows
        <4>2. Follows(provider, rows[w.id], w)
          BY <4>1, <1>h, <1>w DEF World, CopiesFollow
        <4>3. rows[w.id].rid = x
          BY <4>2, <3>4 DEF Follows
        <4> QED
          BY <3>5, <4>1, <4>3
      <3>6. CASE w.id \notin overtaken
        <4>1. NotesOK(w.row)
          BY <3>3, <3>6, <1>h, <1>w DEF World, CopyNotes
        <4>2. w.row.etag = server[x].c
          <5>1. w.row.etag # NoContent
            BY <4>1, <3>3 DEF NotesOK
          <5> QED
            BY <5>1, <3>2, <2>2 DEF Matches
        <4>3. w.row.c.notes = server[x].c.notes
          BY <4>1, <4>2, <3>3 DEF NotesOK
        <4>4. z[x].c = w.row.c
          BY <2>2, <1>3
        <4> QED
          BY <4>3, <4>4, <2>n
      <3> QED
        BY <3>5, <3>6
    <2> QED
      BY <2>1, <2>2
  <1> QED
    BY <1>c, <1>w, <1>o, <1>1, <1>3, <1>4 DEF z

\* The answer of an upload is recorded and the job goes on.
LEMMA DavAnswered ==
    ASSUME TagsOK, JobWorldInv, provider = "caldav", collection = TRUE, Writing(job),
           job.cur.row.op # "remove",
           NEW j, j = Address(job.cur),
           Target(provider, server, rows, Held, lost, newId, job.cur, j),
           NEW z, z \in [DOMAIN z -> ResourcesOf(commands, foreign)],
           WrittenTo(provider, server, lost, job.cur, j, z),
           NEW etag \in {NoContent, job.cur.row.c}, DavRecord(etag)
    PROVE  /\ JobWorld(provider, z, rows', job', lost, unheard, overtaken, newId, commands,
                       foreign, collection)
           /\ TitlesKept(provider, rows, rows', lost)
           /\ RemovalsReached(provider, server', rows, rows', lost, unheard)
  <1> DEFINE w == job.cur
             G == [job EXCEPT !.wrote = TRUE, !.cur = NoWrite]
  <1>h. World(provider, server, rows, Held, lost, unheard, overtaken, newId, commands,
              foreign, collection)
    BY InvHas
  <1>w. /\ w \in Held /\ Held \ {w} = job.writes /\ job.writes \subseteq Held /\ IsJob(job)
        /\ Attended(server, rows, Held) /\ CopyKnows(provider, server, Held, lost)
        /\ \A v \in Held : v.row.op = "remove" => v.row.rid # None
        /\ \A v \in job.writes : Changes(v.row)
    BY CurIs
  <1>j. j \in Nat
    BY DEF Target
  <1>1. /\ w.id \in DOMAIN rows
        /\ \E r \in TasksOf(commands, foreign) :
             /\ CompleteTaskWrite(rows, w, j, etag, w.row.c, w.row.c) = With(rows, w.id, r)
             /\ RecordOf(rows[w.id], w, j, r)
             /\ TitleStays(rows[w.id], r)
    <2>1. /\ w \in Held /\ w.row.op # "remove" /\ collection = TRUE
          /\ etag \in {NoContent, w.row.c}
      BY <1>w
    <2> HIDE DEF w
    <2> QED
      BY ONLY <2>1, <1>h, <1>j, WriteRecorded
  <1>2. PICK r \in TasksOf(commands, foreign) :
             /\ CompleteTaskWrite(rows, w, j, etag, w.row.c, w.row.c) = With(rows, w.id, r)
             /\ RecordOf(rows[w.id], w, j, r)
             /\ TitleStays(rows[w.id], r)
    BY <1>1
  <1> DEFINE u == With(rows, w.id, r)
  <1>3. DavProceed(u, G, rerun)
    BY <1>2 DEF DavRecord, DavRecorded
  <1>u. DOMAIN u = DOMAIN rows /\ u[w.id] = r /\ \A i \in DOMAIN rows : i # w.id => u[i] = rows[i]
    BY <1>1 DEF With
  <1> HIDE DEF u
  <1>4. /\ World(provider, z, u, Held \ {w}, lost, unheard, overtaken, newId, commands,
                 foreign, collection)
        /\ Attended(z, u, Held \ {w}) /\ CopyKnows(provider, z, Held \ {w}, lost)
    BY <1>h, <1>w, <1>2, Answered DEF u
  <1>5. IsJob(G) /\ G.writes = job.writes
    BY <1>w DEF IsJob
  <1> HIDE DEF G
  <1>6. rows' = u /\ JobWorld(provider, z, u, job', lost, unheard, overtaken, newId, commands,
                              foreign, collection)
    <2>1. \A v \in job.writes : v.row.op = "remove" => v.row.rid # None
      BY <1>w
    <2>2. G.writes = Held \ {w} /\ IsJob(G)
      BY <1>5, <1>w
    <2>3. /\ World(provider, z, u, G.writes, lost, unheard, overtaken, newId, commands,
                   foreign, collection)
          /\ Attended(z, u, G.writes) /\ CopyKnows(provider, z, G.writes, lost)
      BY <2>2, <1>4
    <2>4. /\ \A v \in G.writes : Changes(v.row)
          /\ \A v \in G.writes : v.row.op = "remove" => v.row.rid # None
      BY <1>5, <1>w, <2>1
    <2> QED
      BY ONLY <2>2, <2>3, <2>4, <1>3, DavProceeds
  <1>7. TitlesKept(provider, rows, rows', lost)
    <2>1. \A i \in DOMAIN rows : u[i].c.title = rows[i].c.title
      BY <1>u, <1>2 DEF TitleStays
    <2> QED
      BY <2>1, <1>6 DEF TitlesKept
  <1>8. RemovalsReached(provider, server', rows, rows', lost, unheard)
    BY <1>6, <1>u DEF RemovalsReached
  <1> QED
    BY <1>6, <1>7, <1>8

\* The job goes on with its write in another phase.
LEMMA PhaseChanges ==
    ASSUME JobWorldInv, StillThere, rows' = rows, Writing(job), NEW ph, Writing(job'),
           job' = [job EXCEPT !.phase = ph], ph \in Phases,
           provider = "google" => ph \notin {"putAgain", "merge", "deleteAgain", "reread"},
           provider = "caldav" => ph # "recreate",
           CurOK(provider, server, job')
    PROVE  JobWorldInv' /\ StepOK
  <1>c. /\ job.cur.id # None /\ IsJob(job) /\ Attended(server, rows, Held)
        /\ CopyKnows(provider, server, Held, lost)
        /\ \A w \in Held : w.row.op = "remove" => w.row.rid # None
        /\ provider = "caldav" => \A w \in job.writes : Changes(w.row)
    BY CurIs
  <1>1. /\ IsJob(job') /\ job'.phase = ph /\ job'.cur = job.cur /\ job'.writes = job.writes
    BY <1>c DEF IsJob
  <1>2. Copies(job') = Held
    BY <1>1 DEF Copies, Held
  <1>3. JobOK(provider, server, job')
    <2>1. job.cur \notin job.writes
      BY InvHas DEF JobOK
    <2>2. ToSendOK(provider, job')
      BY <1>c, <1>1, <1>2 DEF ToSendOK
    <2>3. ph \notin {"idle", "lists", "reconcile", "pull"}
      BY <1>1 DEF Writing
    <2> QED
      BY <1>1, <1>c, <2>1, <2>2, <2>3 DEF JobOK
  <1>4. JobWorld(provider, server, rows, job', lost, unheard, overtaken, newId, commands,
                 foreign, collection)
    BY <1>2, <1>3, <1>c, InvHas DEF JobWorld
  <1>5. JobWorldInv'
    BY <1>4, StillWorld
  <1> QED
    BY <1>5, ServerStays, RowsStay DEF StepOK, StillThere

LEMMA ListFailed ==
    ASSUME JobWorldInv, StillThere, rows' = rows, job' = IdleJob
    PROVE  JobWorldInv' /\ StepOK
  <1>1. JobWorld(provider, server, rows, IdleJob, lost, unheard, overtaken, newId, commands,
                 foreign, collection)
    BY InvHas, IdleIs, WithoutCopies
  <1>2. JobWorldInv'
    BY <1>1, StillWorld
  <1> QED
    BY <1>2, ServerStays, RowsStay DEF StepOK, StillThere

LEMMA DavCreateStep ==
    ASSUME TagsOK, JobWorldInv, provider = "caldav", DavCreate
    PROVE  JobWorldInv' /\ StepOK
  <1> DEFINE w == job.cur
             j == Address(w)
  <1>a. /\ job.phase = "create" /\ server' = DavAfter("create", w)
        /\ UNCHANGED <<provider, collection, newId, commands, foreign, unheard, lost,
                       overtaken>>
    BY DEF DavCreate, bounds, history, creates, lost
  <1>p. Writing(job)
    BY <1>a DEF Writing
  <1>h. /\ World(provider, server, rows, Held, lost, unheard, overtaken, newId, commands,
                 foreign, collection)
    BY InvHas
  <1>w. /\ w \in Held /\ CopyKnows(provider, server, Held, lost) /\ w.row.op # "remove"
        /\ w.row.rid \notin DOMAIN server
    <2>1. CurOK(provider, server, job)
      BY <1>p, CurIs
    <2> QED
      BY <2>1, <1>p, <1>a, CurIs DEF CurOK
  <1>1. ASSUME collection # TRUE
        PROVE  JobWorldInv' /\ StepOK
    <2>1. ~collection
      BY <1>1 DEF TagsOK
    <2>2. server' = server
      BY <2>1, <1>a DEF DavAfter, DavAccepts
    <2>3. rows' = rows /\ job' = IdleJob
      BY <2>1 DEF DavCreate, DavFailList, Finished
    <2>4. StillThere
      BY <1>a, <2>2 DEF StillThere
    <2> QED
      BY <2>3, <2>4, ListFailed
  <1>2. ASSUME collection = TRUE, ~Present(w)
        PROVE  JobWorldInv' /\ StepOK
    <2>1. DavAccepts("create", w)
      BY <1>2 DEF DavAccepts
    <2>2. server' = Stored(w)
      BY <2>1, <1>a DEF DavAfter
    <2>3. PICK etag \in {NoContent, w.row.c} : DavRecord(etag)
      BY <1>2 DEF DavCreate
    <2>s. /\ Target(provider, server, rows, Held, lost, newId, w, j)
          /\ Stored(w) \in [DOMAIN Stored(w) -> ResourcesOf(commands, foreign)]
          /\ WrittenTo(provider, server, lost, w, j, Stored(w))
          /\ NotesKept(provider, server, rows, Stored(w), overtaken)
      BY <2>1, <1>a, DavStored
    <2>4. /\ JobWorld(provider, server', rows', job', lost, unheard, overtaken, newId,
                      commands, foreign, collection)
          /\ TitlesKept(provider, rows, rows', lost)
          /\ RemovalsReached(provider, server', rows, rows', lost, unheard)
      BY <2>2, <2>3, <2>s, <1>2, <1>p, <1>w, DavAnswered
    <2>5. JobWorldInv'
      BY <2>4, <1>a, InvPrime
    <2> QED
      BY <2>2, <2>s, <2>4, <2>5 DEF StepOK
  <1>3. ASSUME collection = TRUE, Present(w)
        PROVE  JobWorldInv' /\ StepOK
    <2>1. server' = server
      BY <1>3, <1>a DEF DavAfter, DavAccepts
    <2>2. w.row.rid = None /\ j = w.id /\ j \in DOMAIN server
      BY <1>3, <1>w DEF Present, Address
    <2>3. DavRecord(NoContent)
      BY <1>3 DEF DavCreate
    <2>s. /\ Target(provider, server, rows, Held, lost, newId, w, j)
          /\ w.id \in lost \/ server[j].c.title = w.row.c.title
      <3>1. Target(provider, server, rows, Held, lost, newId, w, w.id)
        BY <1>3, <2>2, <1>h, <1>w, TargetNamed
      <3>2. w.id \in lost \/ server[w.id].c.title = w.row.c.title
        <4>1. w.id \in DOMAIN rows
          BY <1>3, <1>h, <1>w DEF World, CopiesHaveRows
        <4>2. Follows(provider, rows[w.id], w)
          BY <4>1, <1>h, <1>w DEF World, CopiesFollow
        <4>3. server[w.id].by = w.id
          BY <2>2, <4>1, <4>2, <1>h DEF World, OwnName, Follows
        <4>4. w.id # w.row.rid
          <5>1. \A x \in DOMAIN server : x \in Nat /\ 1 <= x
            BY <1>h, WorldTypes
          <5> QED
            BY <5>1, <2>2 DEF None
        <4>5. Resembles(provider, w.id, w.row, server[w.id].c, lost)
          BY <2>2, <4>3, <4>4, <1>w DEF CopyKnows
        <4> QED
          BY <4>5 DEF Resembles
      <3> QED
        BY <3>1, <3>2, <2>2
    <2>z. WrittenTo(provider, server, lost, w, j, server)
      <3> HIDE DEF j, w
      <3>1. DOMAIN server = DOMAIN server \cup {j}
        BY <2>2
      <3> QED
        BY <3>1, <2>2, <2>s DEF WrittenTo
    <2>t. server \in [DOMAIN server -> ResourcesOf(commands, foreign)]
      BY <1>h DEF World, ServerOK
    <2>4. /\ JobWorld(provider, server, rows', job', lost, unheard, overtaken, newId,
                      commands, foreign, collection)
          /\ TitlesKept(provider, rows, rows', lost)
          /\ RemovalsReached(provider, server', rows, rows', lost, unheard)
      BY <2>3, <2>s, <2>z, <2>t, <1>3, <1>p, <1>w, DavAnswered
    <2>5. JobWorldInv'
      BY <2>1, <2>4, <1>a, InvPrime
    <2> QED
      BY <2>1, <2>4, <2>5, ServerStays DEF StepOK
  <1> QED
    BY <1>1, <1>2, <1>3

LEMMA DavPutStep ==
    ASSUME TagsOK, JobWorldInv, provider = "caldav", DavPut
    PROVE  JobWorldInv' /\ StepOK
  <1> DEFINE w == job.cur
             j == Address(w)
             ph == job.phase
  <1>a. /\ ph \in {"put", "putAgain"} /\ server' = DavAfter(ph, w)
        /\ UNCHANGED <<provider, collection, newId, commands, foreign, unheard, lost,
                       overtaken>>
    BY DEF DavPut, bounds, history, creates, lost
  <1>p. Writing(job)
    BY <1>a DEF Writing
  <1>w. /\ w \in Held /\ CurOK(provider, server, job) /\ IsJob(job)
        /\ TaskOK(provider, w.id, w.row) /\ w.row.op = "update" /\ w.row.rid # None
    <2>1. CurOK(provider, server, job) /\ TaskOK(provider, w.id, w.row)
      BY <1>p, CurIs
    <2>2. w.row.op = "update"
      BY <2>1, <1>a DEF CurOK
    <2> QED
      BY <2>1, <2>2, <1>p, CurIs DEF TaskOK
  <1>1. ASSUME DavAccepts(ph, w)
        PROVE  JobWorldInv' /\ StepOK
    <2>2. server' = Stored(w)
      BY <1>1, <1>a DEF DavAfter
    <2>3. PICK etag \in {NoContent, w.row.c} : DavRecord(etag)
      BY <1>1 DEF DavPut
    <2>s. /\ Target(provider, server, rows, Held, lost, newId, w, j)
          /\ Stored(w) \in [DOMAIN Stored(w) -> ResourcesOf(commands, foreign)]
          /\ WrittenTo(provider, server, lost, w, j, Stored(w))
          /\ NotesKept(provider, server, rows, Stored(w), overtaken)
          /\ collection = TRUE
      BY <1>1, <1>a, DavStored
    <2>4. /\ JobWorld(provider, server', rows', job', lost, unheard, overtaken, newId,
                      commands, foreign, collection)
          /\ TitlesKept(provider, rows, rows', lost)
          /\ RemovalsReached(provider, server', rows, rows', lost, unheard)
      BY <2>2, <2>3, <2>s, <1>p, <1>w, DavAnswered
    <2>5. JobWorldInv'
      BY <2>4, <1>a, InvPrime
    <2> QED
      BY <2>2, <2>s, <2>4, <2>5 DEF StepOK
  <1>2. ASSUME ~DavAccepts(ph, w)
        PROVE  StillThere
    BY <1>2, <1>a DEF DavAfter, StillThere
  <1>3. ASSUME ~DavAccepts(ph, w), ~Present(w), rows' = rows,
               job' = [job EXCEPT !.phase = "create"]
        PROVE  JobWorldInv' /\ StepOK
    <2>1. job'.phase = "create" /\ job'.cur = w
      BY <1>3, <1>w DEF IsJob
    <2>2. w.row.rid \notin DOMAIN server
      BY <1>3, <1>w DEF Present, Address
    <2>3. CurOK(provider, server, job')
      BY <2>1, <2>2, <1>w DEF CurOK
    <2>4. Writing(job') /\ "create" \in Phases
      BY <2>1 DEF Writing, Phases
    <2> QED
      BY <1>2, <1>3, <1>p, <2>3, <2>4, PhaseChanges
  <1>4. ASSUME ~DavAccepts(ph, w), rows' = rows, job' = IdleJob
        PROVE  JobWorldInv' /\ StepOK
    BY <1>2, <1>4, ListFailed
  <1>5. ASSUME ~DavAccepts(ph, w), ph # "putAgain", rows' = rows,
               job' = [job EXCEPT !.phase = "merge"]
        PROVE  JobWorldInv' /\ StepOK
    <2>1. job'.phase = "merge" /\ job'.cur = w
      BY <1>5, <1>w DEF IsJob
    <2>2. Changes(w.row)
      BY <1>5, <1>a, <1>w DEF CurOK
    <2>3. CurOK(provider, server, job')
      BY <2>1, <2>2, <1>w DEF CurOK
    <2>4. Writing(job') /\ "merge" \in Phases
      BY <2>1 DEF Writing, Phases
    <2> QED
      BY <1>2, <1>5, <1>p, <2>3, <2>4, PhaseChanges
  <1> QED
    BY <1>1, <1>3, <1>4, <1>5 DEF DavPut, DavFailList, Finished

\* The write is merged into what was read, or takes its ETag.
LEMMA CurRebased ==
    ASSUME JobWorldInv, StillThere, rows' = rows, provider = "caldav", Writing(job),
           NEW g \in WritesOf(commands, foreign), RebasedOf(job.cur, g),
           job.cur.id \in overtaken \/ job.cur.row.op = "remove" \/ NotesOK(g.row),
           IsJob(job'), job'.cur = g, job'.writes = job.writes,
           \/ job'.phase = "putAgain" /\ g.row.op = "update"
           \/ job'.phase = "deleteAgain" /\ g.row.op = "remove"
    PROVE  JobWorldInv' /\ StepOK
  <1> DEFINE w == job.cur
             G == (Held \ {w}) \cup {g}
  <1>h. World(provider, server, rows, Held, lost, unheard, overtaken, newId, commands,
              foreign, collection)
    BY InvHas
  <1>w. /\ w \in Held /\ Held \ {w} = job.writes /\ job.writes \subseteq Held
        /\ Attended(server, rows, Held) /\ CopyKnows(provider, server, Held, lost) /\ w.id # None
        /\ \A v \in Held : v.row.op = "remove" => v.row.rid # None
        /\ \A v \in job.writes : Changes(v.row)
    BY CurIs
  <1>1. /\ World(provider, server, rows, G, lost, unheard, overtaken, newId, commands,
                 foreign, collection)
        /\ Attended(server, rows, G) /\ CopyKnows(provider, server, G, lost)
    <2>1. /\ w \in Held /\ RebasedOf(w, g)
          /\ w.id \in overtaken \/ w.row.op = "remove" \/ NotesOK(g.row)
          /\ provider = "caldav" /\ g \in WritesOf(commands, foreign)
      BY <1>w
    <2> HIDE DEF w
    <2> QED
      BY ONLY <2>1, <1>h, <1>w, CopyRebased
  <1>2. g.id = w.id /\ g.row.op = w.row.op /\ g.row.rid = w.row.rid
    BY DEF RebasedOf
  <1>3. Copies(job') = G
    BY <1>2, <1>w DEF Copies
  <1>4. g \notin job.writes
    <2>1. \A v \in Held : v.id = w.id => v = w
      BY <1>h, <1>w DEF World, CopiesOK
    <2> QED
      BY <2>1, <1>2, <1>w
  <1>5. JobOK(provider, server, job')
    <2>1. CurOK(provider, server, job')
      BY DEF CurOK
    <2>2. ToSendOK(provider, job')
      BY <1>2, <1>3, <1>w DEF ToSendOK
    <2>3. job'.phase \in Phases
      BY DEF Phases
    <2> QED
      BY <1>2, <1>4, <1>w, <2>1, <2>2, <2>3 DEF JobOK
  <1>6. JobWorld(provider, server, rows, job', lost, unheard, overtaken, newId, commands,
                 foreign, collection)
    BY <1>1, <1>3, <1>5 DEF JobWorld
  <1>7. JobWorldInv'
    BY <1>6, StillWorld
  <1> QED
    BY <1>7, ServerStays, RowsStay DEF StepOK, StillThere

\* A removal reached the server, or found nothing there: the row goes.
LEMMA RowGoes ==
    ASSUME JobWorldInv, Writing(job), job.cur.row.op = "remove",
           NEW z, z = Without(server, {job.cur.row.rid})
    PROVE  LET u == Without(rows, {job.cur.id})
           IN /\ RecordRemoval(rows, job.cur) = u
              /\ World(provider, z, u, job.writes, lost, unheard, overtaken, newId, commands,
                       foreign, collection)
              /\ Attended(z, u, job.writes) /\ CopyKnows(provider, z, job.writes, lost)
              /\ TitlesKept(provider, rows, u, lost)
              /\ RemovalsReached(provider, z, rows, u, lost, unheard)
  <1> DEFINE w == job.cur
             u == Without(rows, {w.id})
  <1>h. World(provider, server, rows, Held, lost, unheard, overtaken, newId, commands,
              foreign, collection)
    BY InvHas
  <1>w. /\ w \in Held /\ Held \ {w} = job.writes
        /\ Attended(server, rows, Held) /\ CopyKnows(provider, server, Held, lost)
        /\ \A v \in Held : v.row.op = "remove" => v.row.rid # None
    BY CurIs
  <1>1. RecordRemoval(rows, w) = u
    <2>1. CASE w.id \notin DOMAIN rows
      <3>1. rows = [x \in DOMAIN rows |-> rows[x]]
        BY <1>h DEF World, RowsOK
      <3>2. DOMAIN rows \ {w.id} = DOMAIN rows
        BY <2>1
      <3>3. u = rows
        BY <3>1, <3>2 DEF Without
      <3> QED
        BY <2>1, <3>3 DEF RecordRemoval, CompleteTaskWrite
    <2>2. CASE w.id \in DOMAIN rows
      <3>1. Follows(provider, rows[w.id], w)
        BY <2>2, <1>h, <1>w DEF World, CopiesFollow
      <3>2. rows[w.id].op = "remove" /\ rows[w.id].rev = w.row.rev
        BY <3>1 DEF Follows
      <3> QED
        BY <2>2, <3>2 DEF RecordRemoval, CompleteTaskWrite
    <2> QED
      BY <2>1, <2>2
  <1>2. /\ World(provider, server, u, job.writes, lost, unheard, overtaken, newId, commands,
                 foreign, collection)
        /\ Attended(server, u, job.writes) /\ CopyKnows(provider, server, job.writes, lost)
    <2>1. {v.id : v \in {w}} = {w.id}
      OBVIOUS
    <2>2. {w} \subseteq Held
      BY <1>w
    <2>3. /\ World(provider, server, Without(rows, {v.id : v \in {w}}), Held \ {w}, lost,
                   unheard, overtaken, newId, commands, foreign, collection)
          /\ Attended(server, Without(rows, {v.id : v \in {w}}), Held \ {w})
          /\ CopyKnows(provider, server, Held \ {w}, lost)
      BY ONLY <2>2, <1>h, <1>w, CopiesAndRowsDropped
    <2> QED
      BY <2>1, <2>3, <1>w
  <1>3. /\ World(provider, z, u, job.writes, lost, unheard, overtaken, newId, commands,
                 foreign, collection)
        /\ Attended(z, u, job.writes) /\ CopyKnows(provider, z, job.writes, lost)
    BY <1>2, ResourcesDropped, StillAttended
  <1>4. TitlesKept(provider, rows, u, lost)
    BY DEF TitlesKept, Without
  <1>5. RemovalsReached(provider, z, rows, u, lost, unheard)
    <2> SUFFICES ASSUME w.id \in DOMAIN rows, ~(provider = "google" /\ w.id \in lost),
                        NEW j \in DOMAIN z
                 PROVE  z[j].by # w.id /\ j # rows[w.id].rid
      BY DEF RemovalsReached, Without
    <2>1. j \in DOMAIN server /\ j # w.row.rid /\ z[j] = server[j]
      BY DEF Without
    <2>2. z[j].by # w.id
      BY <2>1, <1>w DEF CopyKnows
    <2>3. Follows(provider, rows[w.id], w)
      BY <1>h, <1>w DEF World, CopiesFollow
    <2>4. j # None
      <3>1. j \in Nat /\ 1 <= j
        BY <2>1, <1>h, WorldTypes
      <3> QED
        BY <3>1 DEF None
    <2> QED
      BY <2>1, <2>2, <2>3, <2>4 DEF Follows
  <1> QED
    BY <1>1, <1>3, <1>4, <1>5

LEMMA DavRemoved ==
    ASSUME JobWorldInv, provider = "caldav", Writing(job), job.cur.row.op = "remove",
           server' = Without(server, {job.cur.row.rid}),
           DavRecorded(RecordRemoval(rows, job.cur)),
           UNCHANGED <<provider, collection, newId, commands, foreign, unheard, lost,
                       overtaken>>
    PROVE  JobWorldInv' /\ StepOK
  <1> DEFINE u == Without(rows, {job.cur.id})
             G == [job EXCEPT !.wrote = TRUE, !.cur = NoWrite]
  <1>w. /\ IsJob(job) /\ \A v \in job.writes : Changes(v.row)
        /\ \A v \in job.writes : v.row.op = "remove" => v.row.rid # None
    BY CurIs
  <1>1. /\ RecordRemoval(rows, job.cur) = u
        /\ World(provider, server', u, job.writes, lost, unheard, overtaken, newId, commands,
                 foreign, collection)
        /\ Attended(server', u, job.writes) /\ CopyKnows(provider, server', job.writes, lost)
        /\ TitlesKept(provider, rows, u, lost)
        /\ RemovalsReached(provider, server', rows, u, lost, unheard)
    BY RowGoes
  <1>2. DavProceed(u, G, rerun)
    BY <1>1 DEF DavRecorded
  <1>3. IsJob(G) /\ G.writes = job.writes
    BY <1>w DEF IsJob
  <1> HIDE DEF u, G
  <1>4. rows' = u /\ JobWorld(provider, server', u, job', lost, unheard, overtaken, newId,
                              commands, foreign, collection)
    <2>1. /\ World(provider, server', u, G.writes, lost, unheard, overtaken, newId, commands,
                   foreign, collection)
          /\ Attended(server', u, G.writes) /\ CopyKnows(provider, server', G.writes, lost)
          /\ \A v \in G.writes : Changes(v.row)
          /\ \A v \in G.writes : v.row.op = "remove" => v.row.rid # None
      BY <1>1, <1>3, <1>w
    <2> QED
      BY ONLY <2>1, <1>2, <1>3, DavProceeds
  <1>5. JobWorldInv'
    BY <1>4, InvPrime
  <1> QED
    BY <1>1, <1>4, <1>5, FewerNotes DEF StepOK

\* The fields of a task a copy takes over from the server.
Rebased(w, c, etag, raw) == [w EXCEPT !.row.c = c, !.row.etag = etag, !.row.raw = raw]
RebasedAs(w, g, c, etag, raw) ==
    /\ g.id = w.id /\ g.row.rid = w.row.rid /\ g.row.op = w.row.op /\ g.row.rev = w.row.rev
    /\ g.row.c = c /\ g.row.etag = etag /\ g.row.raw = raw

LEMMA RebasedIs ==
    ASSUME NEW k, NEW f, NEW w \in WritesOf(k, f),
           NEW c \in Known(k, f), NEW etag \in Known(k, f), NEW raw \in Known(k, f)
    PROVE  /\ Rebased(w, c, etag, raw) \in WritesOf(k, f)
           /\ RebasedAs(w, Rebased(w, c, etag, raw), c, etag, raw)
  <1> DEFINE B == Known(k, f)
             O == {"", "create", "update", "remove"}
             T == [rid : Nat, etag : B, raw : B, c : B, op : O, rev : Nat]
             q == w.row
             r == [q EXCEPT !.c = c, !.etag = etag, !.raw = raw]
             g == Rebased(w, c, etag, raw)
  <1>1. w \in [id : RowIds, row : T]
    BY DEF WritesOf, TasksOf
  <1>2. WritesOf(k, f) = [id : RowIds, row : T]
    BY DEF WritesOf, TasksOf
  <1>3. q \in T
    BY <1>1
  <1>4. c \in B /\ etag \in B /\ raw \in B
    OBVIOUS
  <1>g. g = [w EXCEPT !.row = r]
    BY <1>1 DEF Rebased
  <1> HIDE DEF B, O
  <1>5. /\ r \in T /\ r.rid = q.rid /\ r.op = q.op /\ r.rev = q.rev
        /\ r.c = c /\ r.etag = etag /\ r.raw = raw
    BY <1>3, <1>4
  <1> HIDE DEF r, T, g
  <1>6. g \in [id : RowIds, row : T] /\ g.id = w.id /\ g.row = r
    BY <1>1, <1>5, <1>g
  <1> QED
    BY <1>2, <1>5, <1>6 DEF g, q, RebasedAs

LEMMA DavMergeStep ==
    ASSUME TagsOK, JobWorldInv, provider = "caldav", DavMerge
    PROVE  JobWorldInv' /\ StepOK
  <1> DEFINE w == job.cur
             j == Address(w)
             R == server[j].c
  <1>a. StillThere /\ job.phase = "merge"
    BY DEF DavMerge, StillThere, atServer, bounds, history, creates, lost
  <1>p. Writing(job)
    BY <1>a DEF Writing
  <1>h. World(provider, server, rows, Held, lost, unheard, overtaken, newId, commands,
              foreign, collection)
    BY InvHas
  <1>w. /\ w \in Held /\ CurOK(provider, server, job) /\ IsJob(job)
        /\ TaskOK(provider, w.id, w.row) /\ w.row.op = "update" /\ w.row.rid # None
        /\ Changes(w.row)
    <2>1. CurOK(provider, server, job) /\ TaskOK(provider, w.id, w.row)
      BY <1>p, CurIs
    <2>2. w.row.op = "update" /\ Changes(w.row)
      BY <2>1, <1>a DEF CurOK
    <2> QED
      BY <2>1, <2>2, <1>p, CurIs DEF TaskOK
  <1>1. ASSUME ~collection
        PROVE  JobWorldInv' /\ StepOK
    <2>1. rows' = rows /\ job' = IdleJob
      BY <1>1 DEF DavMerge, DavFailList, Finished
    <2> QED
      BY <2>1, <1>a, ListFailed
  <1>2. ASSUME collection, ~Present(w)
        PROVE  JobWorldInv' /\ StepOK
    <2>0. rows' = rows /\ job' = [job EXCEPT !.phase = "create"]
      BY <1>2 DEF DavMerge
    <2>1. job'.phase = "create" /\ job'.cur = w
      BY <2>0, <1>w DEF IsJob
    <2>2. w.row.rid \notin DOMAIN server
      BY <1>2, <1>w DEF Present, Address
    <2>3. CurOK(provider, server, job')
      BY <2>1, <2>2, <1>w DEF CurOK
    <2>4. Writing(job') /\ "create" \in Phases
      BY <2>1 DEF Writing, Phases
    <2> QED
      BY <2>0, <1>a, <1>p, <2>3, <2>4, PhaseChanges
  <1>3. ASSUME collection, Present(w)
        PROVE  JobWorldInv' /\ StepOK
    <2> DEFINE g == Merged(w)
               kept(mine, base, theirs) == IF mine # base THEN mine ELSE theirs
               c == [title |-> kept(w.row.c.title, w.row.raw.title, R.title),
                     notes |-> kept(w.row.c.notes, w.row.raw.notes, R.notes)]
    <2>0. rows' = rows /\ job' = [job EXCEPT !.cur = g, !.phase = "putAgain"]
      BY <1>3 DEF DavMerge
    <2>r. /\ R \in Known(commands, foreign) /\ R # NoContent
          /\ w.row.c \in Known(commands, foreign) /\ w.row.raw \in Known(commands, foreign)
      <3>1. server[j] \in ResourcesOf(commands, foreign)
        BY <1>3, <1>h DEF World, ServerOK, Present
      <3>2. w.row.c \in Known(commands, foreign) /\ w.row.raw \in Known(commands, foreign)
        <4>1. \A v \in Held : /\ v.row.c \in Known(commands, foreign)
                              /\ v.row.raw \in Known(commands, foreign)
          BY ONLY <1>h, WorldTypes
        <4> QED
          BY <4>1, <1>w
      <3> QED
        BY <3>1, <3>2 DEF ResourcesOf
    <2>c. /\ c \in Known(commands, foreign) /\ c.title = w.row.c.title
          /\ w.row.c.notes = w.row.raw.notes => c.notes = R.notes
      <3>1. w.row.c.title # w.row.raw.title
        BY <1>w DEF Changes
      <3>2. /\ R.title \in 0..commands /\ R.notes \in 0..(foreign + 1)
            /\ w.row.c.title \in 0..commands /\ w.row.c.notes \in 0..(foreign + 1)
        BY <2>r DEF Known
      <3> HIDE DEF w, R
      <3> QED
        BY <3>1, <3>2 DEF Known
    <2>1. g = Rebased(w, c, R, R)
      BY DEF Merged, Rebased
    <2>w. w \in WritesOf(commands, foreign)
      BY <1>h, <1>w DEF World, CopiesOK
    <2> HIDE DEF g, c, R, j
    <2>2. /\ g \in WritesOf(commands, foreign) /\ g.id = w.id
          /\ g.row.rid = w.row.rid /\ g.row.op = w.row.op /\ g.row.rev = w.row.rev
          /\ g.row.c = c /\ g.row.etag = R /\ g.row.raw = R
      <3> HIDE DEF w
      <3>1. g \in WritesOf(commands, foreign) /\ RebasedAs(w, g, c, R, R)
        BY <2>1, <2>w, <2>c, <2>r, RebasedIs
      <3> QED
        BY <3>1 DEF RebasedAs
    <2>3. RebasedOf(w, g)
      BY <2>2, <2>c DEF RebasedOf
    <2>4. w.id \in overtaken \/ w.row.op = "remove" \/ NotesOK(g.row)
      <3>1. w.id \in overtaken \/ NotesOK(w.row)
        BY <1>h, <1>w DEF World, CopyNotes
      <3> QED
        BY <3>1, <2>2, <2>c, <2>r DEF NotesOK
    <2>5. IsJob(job') /\ job'.cur = g /\ job'.writes = job.writes /\ job'.phase = "putAgain"
      BY <2>0, <1>w DEF IsJob
    <2> QED
      BY <2>0, <2>2, <2>3, <2>4, <2>5, <1>a, <1>p, <1>w, CurRebased
  <1> QED
    BY <1>1, <1>2, <1>3

LEMMA NothingThere ==
    ASSUME JobWorldInv, NEW j, j \notin DOMAIN server
    PROVE  Without(server, {j}) = server
  <1>1. server = [x \in DOMAIN server |-> server[x]]
    BY InvHas DEF World, ServerOK
  <1>2. DOMAIN server \ {j} = DOMAIN server
    OBVIOUS
  <1> QED
    BY <1>1, <1>2 DEF Without

\* The write is a removal of a known resource.
LEMMA CurRemoves ==
    ASSUME JobWorldInv, job.phase \in {"delete", "deleteAgain", "reread"}
    PROVE  /\ Writing(job) /\ job.cur.row.op = "remove" /\ IsJob(job) /\ job.cur \in Held
           /\ Address(job.cur) = job.cur.row.rid /\ job.cur.row.rid # None
  <1>1. Writing(job)
    BY DEF Writing
  <1>2. job.cur.row.op = "remove"
    BY <1>1, CurIs DEF CurOK
  <1> QED
    BY <1>1, <1>2, CurIs DEF Address

LEMMA DavDeleteStep ==
    ASSUME TagsOK, JobWorldInv, provider = "caldav", DavDelete
    PROVE  JobWorldInv' /\ StepOK
  <1> DEFINE w == job.cur
             ph == job.phase
  <1>a. /\ ph \in {"delete", "deleteAgain"} /\ server' = DavAfter(ph, w)
        /\ UNCHANGED <<provider, collection, newId, commands, foreign, unheard, lost,
                       overtaken>>
    BY DEF DavDelete, bounds, history, creates, lost
  <1>w. /\ Writing(job) /\ w.row.op = "remove" /\ IsJob(job)
        /\ Address(w) = w.row.rid
    BY <1>a, CurRemoves
  <1>1. ASSUME ~Present(w) \/ DavAccepts(ph, w)
        PROVE  JobWorldInv' /\ StepOK
    <2>1. server' = Without(server, {w.row.rid})
      <3>1. CASE DavAccepts(ph, w)
        BY <3>1, <1>a, <1>w DEF DavAfter
      <3>2. CASE ~DavAccepts(ph, w)
        <4>1. server' = server
          BY <3>2, <1>a DEF DavAfter
        <4>2. w.row.rid \notin DOMAIN server
          BY <3>2, <1>1, <1>w DEF Present
        <4> QED
          BY <4>1, <4>2, NothingThere
      <3> QED
        BY <3>1, <3>2
    <2>2. DavRecorded(RecordRemoval(rows, w))
      BY <1>1 DEF DavDelete
    <2> QED
      BY <2>1, <2>2, <1>a, <1>w, DavRemoved
  <1>2. ASSUME ~(~Present(w) \/ DavAccepts(ph, w))
        PROVE  JobWorldInv' /\ StepOK
    <2>1. StillThere
      BY <1>2, <1>a DEF StillThere, DavAfter
    <2>2. ASSUME rows' = rows, job' = IdleJob
          PROVE  JobWorldInv' /\ StepOK
      BY <2>1, <2>2, ListFailed
    <2>3. ASSUME rows' = rows, job' = [job EXCEPT !.phase = "reread"]
          PROVE  JobWorldInv' /\ StepOK
      <3>1. job'.phase = "reread" /\ job'.cur = w
        BY <2>3, <1>w DEF IsJob
      <3>2. CurOK(provider, server, job')
        BY <3>1, <1>w DEF CurOK
      <3>3. Writing(job') /\ "reread" \in Phases
        BY <3>1 DEF Writing, Phases
      <3> QED
        BY <2>1, <2>3, <3>2, <3>3, <1>w, PhaseChanges
    <2> QED
      BY <1>2, <2>2, <2>3 DEF DavDelete, DavFailList, Finished
  <1> QED
    BY <1>1, <1>2

LEMMA DavRereadStep ==
    ASSUME TagsOK, JobWorldInv, provider = "caldav", DavReread
    PROVE  JobWorldInv' /\ StepOK
  <1> DEFINE w == job.cur
  <1>a. StillThere /\ job.phase = "reread"
    BY DEF DavReread, StillThere, atServer, bounds, history, creates, lost
  <1>w. /\ Writing(job) /\ w.row.op = "remove" /\ IsJob(job) /\ w \in Held
        /\ Address(w) = w.row.rid /\ w.row.rid # None
    BY <1>a, CurRemoves
  <1>h. World(provider, server, rows, Held, lost, unheard, overtaken, newId, commands,
              foreign, collection)
    BY InvHas
  <1>1. ASSUME ~collection
        PROVE  JobWorldInv' /\ StepOK
    <2>1. rows' = rows /\ job' = IdleJob
      BY <1>1 DEF DavReread, DavFailList, Finished
    <2> QED
      BY <2>1, <1>a, ListFailed
  <1>2. ASSUME collection, ~Present(w)
        PROVE  JobWorldInv' /\ StepOK
    <2>1. server' = Without(server, {w.row.rid})
      <3>1. w.row.rid \notin DOMAIN server
        BY <1>2, <1>w DEF Present
      <3> QED
        BY <3>1, <1>a, NothingThere DEF StillThere
    <2>2. DavRecorded(RecordRemoval(rows, w))
      BY <1>2 DEF DavReread
    <2> QED
      BY <2>1, <2>2, <1>a, <1>w, DavRemoved DEF StillThere
  <1>3. ASSUME collection, Present(w)
        PROVE  JobWorldInv' /\ StepOK
    <2> DEFINE R == server[Address(w)].c
               g == Rebased(w, w.row.c, R, w.row.raw)
    <2>0. rows' = rows /\ job' = [job EXCEPT !.cur.row.etag = R, !.phase = "deleteAgain"]
      BY <1>3 DEF DavReread
    <2>w. w \in WritesOf(commands, foreign)
      BY <1>h, <1>w DEF World, CopiesOK
    <2>r. /\ R \in Known(commands, foreign)
          /\ w.row.c \in Known(commands, foreign) /\ w.row.raw \in Known(commands, foreign)
      <3>1. server[Address(w)] \in ResourcesOf(commands, foreign)
        BY <1>3, <1>h DEF World, ServerOK, Present
      <3>2. w.row.c \in Known(commands, foreign) /\ w.row.raw \in Known(commands, foreign)
        <4>1. \A v \in Held : /\ v.row.c \in Known(commands, foreign)
                              /\ v.row.raw \in Known(commands, foreign)
          BY ONLY <1>h, WorldTypes
        <4> QED
          BY <4>1, <1>w
      <3> QED
        BY <3>1, <3>2 DEF ResourcesOf
    <2>g. [w EXCEPT !.row.etag = R] = g
      <3>1. w \in [id : RowIds, row : [rid : Nat, etag : Known(commands, foreign),
                    raw : Known(commands, foreign), c : Known(commands, foreign),
                    op : {"", "create", "update", "remove"}, rev : Nat]]
        BY <2>w DEF WritesOf, TasksOf
      <3> HIDE DEF w, R
      <3> QED
        BY <3>1 DEF Rebased
    <2>1. IsJob(job') /\ job'.cur = g /\ job'.writes = job.writes /\ job'.phase = "deleteAgain"
      <3>1. job' = [job EXCEPT !.cur = [w EXCEPT !.row.etag = R], !.phase = "deleteAgain"]
        BY <2>0, <1>w DEF IsJob
      <3> HIDE DEF g, R
      <3> QED
        BY <3>1, <2>g, <1>w DEF IsJob
    <2>2. /\ g \in WritesOf(commands, foreign) /\ g.id = w.id
          /\ g.row.rid = w.row.rid /\ g.row.op = w.row.op /\ g.row.rev = w.row.rev
          /\ g.row.c = w.row.c
      <3> HIDE DEF w, R
      <3>1. g \in WritesOf(commands, foreign) /\ RebasedAs(w, g, w.row.c, R, w.row.raw)
        BY <2>w, <2>r, RebasedIs
      <3> HIDE DEF g
      <3> QED
        BY <3>1 DEF RebasedAs
    <2> HIDE DEF g, R
    <2>3. RebasedOf(w, g)
      BY <2>2 DEF RebasedOf
    <2> QED
      BY <2>0, <2>1, <2>2, <2>3, <1>a, <1>w, CurRebased
  <1> QED
    BY <1>1, <1>2, <1>3

-----------------------------------------------------------------------------
\* The reading of the list.

LEMMA PullStep ==
    ASSUME JobWorldInv, StillThere, job.phase = "pull", NEW hidden, NEW complete,
           complete => hidden = {},
           rows' = ApplyRemoteTasks(rows, Without(server, hidden), complete), job' = IdleJob
    PROVE  JobWorldInv' /\ StepOK
  <1> DEFINE u == ApplyRemoteTasks(rows, Without(server, hidden), complete)
             shown == Without(server, hidden)
  <1>1. Held = {} /\ Attended(server, rows, Held)
    <2>1. JobOK(provider, server, job) /\ Working(job)
      BY InvHas DEF Working
    <2> QED
      BY <2>1, QuietIs, InvHas DEF Held
  <1>h. World(provider, server, rows, {}, lost, unheard, overtaken, newId, commands,
              foreign, collection)
    BY <1>1, InvHas
  <1>2. /\ u \in [DOMAIN u -> TasksOf(commands, foreign)] /\ PulledTable(server, rows, u)
        /\ \A x \in DOMAIN rows \ DOMAIN u :
             complete /\ rows[x].rid \notin DOMAIN shown \cup {None}
    BY <1>h, RemoteApplied
  <1>s. hidden = {} => DOMAIN shown = DOMAIN server
    BY DEF Without
  <1>r. rows' = u
    OBVIOUS
  <1> HIDE DEF u, shown
  <1>3. World(provider, server, u, {}, lost, unheard, overtaken, newId, commands, foreign,
              collection)
    BY <1>h, <1>1, <1>2, RowsPulled
  <1>4. JobWorld(provider, server, u, IdleJob, lost, unheard, overtaken, newId, commands,
                 foreign, collection)
    BY <1>3, IdleIs, WithoutCopies
  <1>5. JobWorldInv'
    BY <1>4, <1>r, StillWorld
  <1>6. TitlesKept(provider, rows, u, lost)
    <2> SUFFICES ASSUME NEW i \in DOMAIN rows \cap DOMAIN u,
                        ~(provider = "caldav" /\ i \in lost)
                 PROVE  u[i].c.title = rows[i].c.title
      BY DEF TitlesKept
    <2>1. CASE u[i] = rows[i]
      BY <2>1
    <2>2. CASE TakenOf(server, rows[i], u[i])
      BY <2>2, <1>h DEF TakenOf, World, SameTitle
    <2> QED
      BY <2>1, <2>2, <1>2 DEF PulledTable
  <1>7. RemovalsReached(provider, server, rows, u, lost, unheard)
    <2> SUFFICES ASSUME NEW i \in DOMAIN rows \ DOMAIN u,
                        ~(provider = "google" /\ i \in lost), NEW j \in DOMAIN server
                 PROVE  server[j].by # i /\ j # rows[i].rid
      BY DEF RemovalsReached
    <2>1. rows[i].rid \notin DOMAIN server /\ rows[i].rid # None
      BY <1>2, <1>s
    <2>2. server[j].by # i
      BY <2>1, <1>h DEF World, RowKnows
    <2> QED
      BY <2>1, <2>2
  <1>8. StepOK
    BY <1>6, <1>7, <1>r, ServerStays DEF StepOK, StillThere
  <1> QED
    BY <1>5, <1>8

LEMMA DavPullStep ==
    ASSUME JobWorldInv, DavPull \/ DavPullPartly
    PROVE  JobWorldInv' /\ StepOK
  <1>0. StillThere /\ job.phase = "pull"
    BY DEF DavPull, DavPullPartly, StillThere, atServer, bounds, history, creates, lost
  <1>1. ASSUME NEW hidden, DavPulled(hidden)
        PROVE  JobWorldInv' /\ StepOK
    BY <1>0, <1>1, PullStep DEF DavPulled, Finished
  <1>2. ASSUME DavFailList
        PROVE  JobWorldInv' /\ StepOK
    BY <1>0, <1>2, ListFailed DEF DavFailList, Finished
  <1> QED
    BY <1>1, <1>2 DEF DavPull, DavPullPartly

-----------------------------------------------------------------------------
\* Requests of a CalDAV job that go wrong.

LEMMA DavLost ==
    ASSUME TagsOK, JobWorldInv, provider = "caldav", NEW carriedOut \in BOOLEAN,
           DavUnanswered(carriedOut), rows' = rows, job' = IdleJob,
           UNCHANGED <<provider, collection, newId, commands, foreign, overtaken>>
    PROVE  JobWorldInv' /\ StepOK
  <1> DEFINE w == job.cur
             j == Address(w)
             ph == job.phase
  <1>h. /\ World(provider, server, rows, Held, lost, unheard, overtaken, newId, commands,
                 foreign, collection)
        /\ newId \in Nat /\ commands \in Nat /\ foreign \in Nat
    BY InvHas
  <1>1. ASSUME UNCHANGED <<server, unheard, lost>>
        PROVE  JobWorldInv' /\ StepOK
    BY <1>1, ListFailed DEF StillThere
  <1>2. ASSUME DavAccepts(ph, w), ph \in {"delete", "deleteAgain"}, server' = DavAfter(ph, w),
               UNCHANGED <<unheard, lost>>
        PROVE  JobWorldInv' /\ StepOK
    <2>1. server' = Without(server, {j})
      BY <1>2 DEF DavAfter
    <2>2. World(provider, server', rows, Held, lost, unheard, overtaken, newId, commands,
                foreign, collection)
      BY <2>1, <1>h, ResourcesDropped
    <2>3. JobWorld(provider, server', rows, IdleJob, lost, unheard, overtaken, newId,
                   commands, foreign, collection)
      BY <2>2, IdleIs, WithoutCopies
    <2>4. JobWorldInv'
      BY <2>3, <1>2, InvPrime
    <2> QED
      BY <2>1, <2>4, FewerNotes, RowsStay DEF StepOK
  <1>3. ASSUME DavAccepts(ph, w), ph \notin {"delete", "deleteAgain"},
               server' = DavAfter(ph, w),
               IF Present(w) THEN UNCHANGED <<unheard, lost>> ELSE Unheard(w)
        PROVE  JobWorldInv' /\ StepOK
    <2>0. ph \in {"create", "put", "putAgain"}
      BY <1>3 DEF DavAccepts
    <2>1. server' = Stored(w)
      BY <1>3 DEF DavAfter
    <2>s. /\ collection = TRUE /\ w \in Held /\ w.row.op # "remove"
          /\ Target(provider, server, rows, Held, lost, newId, w, j)
          /\ j \in DOMAIN server => j = w.row.rid
          /\ Stored(w) \in [DOMAIN Stored(w) -> ResourcesOf(commands, foreign)]
          /\ WrittenTo(provider, server, lost, w, j, Stored(w)) /\ Stored(w)[j].c = w.row.c
          /\ NotesKept(provider, server, rows, Stored(w), overtaken)
      BY <1>3, <2>0, DavStored
    <2>l. /\ lost \subseteq lost' /\ unheard \subseteq unheard'
          /\ \/ j \in DOMAIN server \/ rows[w.id].rid = j
             \/ /\ rows[w.id].rid = None /\ w.id \in unheard'
                /\ Resembles(provider, w.id, rows[w.id], w.row.c, lost')
      <3>1. lost \subseteq lost' /\ unheard \subseteq unheard'
        BY <1>3 DEF Unheard, lost
      <3>2. w.id \in DOMAIN rows /\ rows[w.id].rid = w.row.rid
        <4> HIDE DEF w
        <4>1. w.id \in DOMAIN rows
          BY <1>h, <2>s DEF World, CopiesHaveRows
        <4>2. Follows(provider, rows[w.id], w)
          BY <4>1, <1>h, <2>s DEF World, CopiesFollow
        <4> QED
          BY <4>1, <4>2 DEF Follows
      <3>3. CASE w.row.rid # None
        BY <3>1, <3>2, <3>3 DEF Address
      <3>4. CASE w.row.rid = None /\ ~Present(w)
        <4>1. /\ w.id \in unheard'
              /\ rows[w.id].c = w.row.c \/ w.id \in edited'
          BY <3>4, <3>2, <1>3 DEF Unheard
        <4>2. lost' = edited'
          BY DEF lost
        <4> QED
          BY <3>1, <3>2, <3>4, <4>1, <4>2 DEF Resembles
      <3> QED
        BY <3>1, <3>3, <3>4 DEF Present
    <2>2. World(provider, server', rows, {}, lost', unheard', overtaken, newId, commands,
                foreign, collection)
      <3>1. /\ server' \in [DOMAIN server' -> ResourcesOf(commands, foreign)]
            /\ WrittenTo(provider, server, lost, w, j, server') /\ server'[j].c = w.row.c
        BY <2>1, <2>s
      <3>2. \/ j \in DOMAIN server \/ rows[w.id].rid = j
            \/ /\ rows[w.id].rid = None /\ w.id \in unheard'
               /\ Resembles(provider, w.id, rows[w.id], w.row.c, lost')
        BY <2>l
      <3>3. lost \subseteq lost' /\ unheard \subseteq unheard'
        BY <2>l
      <3> HIDE DEF w, j
      <3> QED
        BY ONLY <3>1, <3>2, <3>3, <2>s, <1>h, Unanswered
    <2>3. JobWorld(provider, server', rows, IdleJob, lost', unheard', overtaken, newId,
                   commands, foreign, collection)
      BY <2>2, IdleIs, WithoutCopies
    <2>4. JobWorldInv'
      BY <2>3, <1>3, InvPrime
    <2> QED
      BY <2>1, <2>s, <2>4, RowsStay DEF StepOK
  <1>4. UNCHANGED creates => UNCHANGED <<unheard, lost>>
    BY DEF creates, lost
  <1> QED
    BY <1>1, <1>2, <1>3, <1>4 DEF DavUnanswered

LEMMA DavTroubleStep ==
    ASSUME TagsOK, JobWorldInv, provider = "caldav", DavRequestFails \/ DavStop
    PROVE  JobWorldInv' /\ StepOK
  <1>1. /\ rows' = rows /\ job' = IdleJob
        /\ UNCHANGED <<provider, collection, newId, commands, foreign, overtaken>>
    BY DEF DavRequestFails, DavStop, DavFailList, Finished, Forget
  <1>2. \E carriedOut \in BOOLEAN : DavUnanswered(carriedOut)
    BY DEF DavRequestFails, DavStop
  <1> QED
    BY <1>1, <1>2, DavLost

-----------------------------------------------------------------------------
\* The writes of a Google job.

LEMMA NoNotes ==
    ASSUME NEW p, p = "google", NEW s, NEW t, NEW z, NEW ov
    PROVE  NotesKept(p, s, t, z, ov)
  BY DEF NotesKept

\* No tombstone that is to be sent was never uploaded.
RemovalsKnown(H) == \A w \in H : w.row.op = "remove" => w.row.rid # None

\* The job goes on with the table t, which it may still drop tombstones from.
LEMMA GoogleGoesOn ==
    ASSUME NEW p, NEW s, NEW t, NEW lo, NEW un, NEW ov, NEW n, NEW k, NEW f, NEW col,
           NEW j, IsJob(j), p = "google",
           World(p, s, t, j.writes, lo, un, ov, n, k, f, col),
           Attended(s, t, j.writes), CopyKnows(p, s, j.writes, lo),
           GoogleProceed(t, j)
    PROVE  /\ JobWorld(p, s, rows', job', lo, un, ov, n, k, f, col)
           /\ RemovalsReached(p, s, t, rows', lo, un) /\ TitlesKept(p, t, rows', lo)
           /\ RemovalsKnown(j.writes) => rows' = t
  <1>1. /\ JobWorld(p, s, rows', job', lo, un, ov, n, k, f, col)
        /\ \E D \in SUBSET j.writes :
             /\ rows' = Without(t, {w.id : w \in D})
             /\ \A w \in D : w.row.op = "remove" /\ w.row.rid = None
    BY GoogleProceeds
  <1>2. PICK D \in SUBSET j.writes :
             /\ rows' = Without(t, {w.id : w \in D})
             /\ \A w \in D : w.row.op = "remove" /\ w.row.rid = None
    BY <1>1
  <1>3. /\ DOMAIN rows' \subseteq DOMAIN t /\ \A i \in DOMAIN rows' : rows'[i] = t[i]
        /\ \A i \in DOMAIN t \ DOMAIN rows' : \E w \in D : w.id = i
    BY <1>2 DEF Without
  <1>4. TitlesKept(p, t, rows', lo)
    BY <1>3 DEF TitlesKept
  <1>5. \A i \in DOMAIN t \ DOMAIN rows' : \E w \in j.writes : w.id = i /\ w.row.rid = None
    BY <1>2, <1>3
  <1>6. \A i \in DOMAIN t \ DOMAIN rows' : t[i].rid = None
    <2> SUFFICES ASSUME NEW i \in DOMAIN t \ DOMAIN rows'
                 PROVE  t[i].rid = None
      OBVIOUS
    <2>1. PICK w \in j.writes : w.id = i /\ w.row.rid = None
      BY <1>5
    <2>2. Follows(p, t[i], w)
      BY <2>1 DEF World, CopiesFollow
    <2> QED
      BY <2>1, <2>2 DEF Follows
  <1>7. RemovalsReached(p, s, t, rows', lo, un)
    <2>1. \A i \in DOMAIN t \ DOMAIN rows' :
             /\ t[i].rid = None
             /\ p = "caldav" \/ \E w \in j.writes : w.id = i /\ w.row.rid = None
                                                    /\ CopyKnows(p, s, j.writes, lo)
      BY <1>5, <1>6
    <2> QED
      BY <2>1, UnsentReached
  <1>8. ASSUME RemovalsKnown(j.writes)
        PROVE  rows' = t
    <2>1. D = {}
      BY <1>2, <1>8 DEF RemovalsKnown
    <2>2. t = [i \in DOMAIN t |-> t[i]]
      BY DEF World, RowsOK
    <2> QED
      BY <1>2, <2>1, <2>2 DEF Without
  <1> QED
    BY <1>1, <1>4, <1>7, <1>8

LEMMA GoogleListsStep ==
    ASSUME TagsOK, JobWorldInv, provider = "google", GoogleLists
    PROVE  JobWorldInv' /\ StepOK
  <1> DEFINE j == [job EXCEPT !.writes = Owed(rows), !.enabled = list.enabled]
  <1>a. StillThere /\ job.phase = "lists"
    BY DEF GoogleLists, StillThere, atServer, bounds, history, creates, lost
  <1>j. /\ JobOK(provider, server, job) /\ IsJob(job) /\ job.cur.id = None
        /\ Held = {}
    <2>1. JobOK(provider, server, job)
      BY InvHas
    <2> QED
      BY <2>1, <1>a, QuietIs DEF JobOK, Held
  <1>h. World(provider, server, rows, {}, lost, unheard, overtaken, newId, commands, foreign,
              collection)
    BY <1>j, InvHas
  <1>1. ASSUME ~collection
        PROVE  JobWorldInv' /\ StepOK
    <2>1. rows' = Empty /\ job' = IdleJob
      BY <1>1 DEF GoogleLists, Finished
    <2>2. collection = FALSE
      BY <1>1 DEF TagsOK
    <2> QED
      BY <2>1, <2>2, <1>a, ListGone
  <1>w. /\ World(provider, server, rows, Owed(rows), lost, unheard, overtaken, newId,
                 commands, foreign, collection)
        /\ Attended(server, rows, Owed(rows))
        /\ (\A w \in Owed(rows) : w.row.rid # None) => CopyKnows(provider, server, Owed(rows), lost)
    BY <1>h, CopiesTaken
  <1>2. IsJob(j) /\ j.writes = Owed(rows) /\ j.cur = job.cur
    BY <1>j DEF IsJob
  <1>3. ASSUME collection, \E w \in j.writes : Unconfirmed(w)
        PROVE  JobWorldInv' /\ StepOK
    <2>1. rows' = rows /\ job' = [j EXCEPT !.phase = "reconcile"]
      BY <1>3 DEF GoogleLists
    <2> HIDE DEF j
    <2>2. /\ IsJob(job') /\ job'.phase = "reconcile" /\ job'.cur = job.cur
          /\ job'.writes = Owed(rows)
      BY <2>1, <1>2 DEF IsJob
    <2>3. Copies(job') = Owed(rows)
      BY <2>2, <1>j DEF Copies
    <2>4. job.cur \notin Owed(rows)
      BY <1>w, <1>j, CopyIds
    <2>5. JobOK(provider, server, job')
      <3>1. CurOK(provider, server, job') /\ ToSendOK(provider, job')
        BY <2>2 DEF CurOK, ToSendOK, Sending
      <3>2. "reconcile" \in Phases
        BY DEF Phases
      <3> QED
        BY <2>2, <2>4, <1>j, <3>1, <3>2 DEF JobOK
    <2>6. JobWorld(provider, server, rows, job', lost, unheard, overtaken, newId, commands,
                   foreign, collection)
      BY <2>2, <2>3, <2>5, <1>w DEF JobWorld, Sending
    <2>7. JobWorldInv'
      BY <2>1, <2>6, <1>a, StillWorld
    <2> QED
      BY <2>1, <2>7, <1>a, ServerStays, RowsStay DEF StepOK, StillThere
  <1>4. ASSUME collection, ~\E w \in j.writes : Unconfirmed(w)
        PROVE  JobWorldInv' /\ StepOK
    <2>1. GoogleProceed(rows, j)
      BY <1>4 DEF GoogleLists
    <2>2. \A w \in Owed(rows) : w.row.rid # None
      <3> SUFFICES ASSUME NEW w \in Owed(rows), w.row.rid = None
                   PROVE  FALSE
        OBVIOUS
      <3>1. w.row.op \notin {"create", "remove"}
        BY <1>2, <1>4 DEF Unconfirmed
      <3>2. w.row.op \in {"create", "update", "remove"}
        BY <1>w, WorldTypes
      <3>3. TaskOK(provider, w.id, w.row)
        BY <1>w DEF World, CopiesOK
      <3> QED
        BY <3>1, <3>2, <3>3 DEF TaskOK
    <2> HIDE DEF j
    <2>3. /\ JobWorld(provider, server, rows', job', lost, unheard, overtaken, newId,
                      commands, foreign, collection)
          /\ RemovalsReached(provider, server, rows, rows', lost, unheard)
          /\ TitlesKept(provider, rows, rows', lost)
      <3>1. /\ World(provider, server, rows, j.writes, lost, unheard, overtaken, newId,
                     commands, foreign, collection)
            /\ Attended(server, rows, j.writes) /\ CopyKnows(provider, server, j.writes, lost)
        BY <1>2, <1>w, <2>2
      <3> QED
        BY <3>1, <2>1, <1>2, GoogleGoesOn
    <2>4. JobWorldInv'
      BY <2>3, <1>a, StillWorld
    <2> QED
      BY <2>3, <2>4, <1>a, NoNotes DEF StepOK, StillThere
  <1> QED
    BY <1>1, <1>3, <1>4

\* What a copy is matched to.
MatchedTo(w, j, op) == [w EXCEPT !.row.rid = j, !.row.op = op]
MatchedAs(w, g, j, op) ==
    /\ g.id = w.id /\ g.row.rid = j /\ g.row.op = op /\ g.row.rev = w.row.rev
    /\ g.row.c = w.row.c /\ g.row.raw = w.row.raw

LEMMA MatchedToIs ==
    ASSUME NEW k, NEW f, NEW w \in WritesOf(k, f), NEW j \in Nat, NEW op,
           op \in {"", "create", "update", "remove"}
    PROVE  /\ MatchedTo(w, j, op) \in WritesOf(k, f)
           /\ MatchedAs(w, MatchedTo(w, j, op), j, op)
  <1> DEFINE B == Known(k, f)
             O == {"", "create", "update", "remove"}
             T == [rid : Nat, etag : B, raw : B, c : B, op : O, rev : Nat]
             q == w.row
             r == [q EXCEPT !.rid = j, !.op = op]
             g == MatchedTo(w, j, op)
  <1>1. w \in [id : RowIds, row : T]
    BY DEF WritesOf, TasksOf
  <1>2. WritesOf(k, f) = [id : RowIds, row : T]
    BY DEF WritesOf, TasksOf
  <1>3. q \in T
    BY <1>1
  <1>4. op \in O
    OBVIOUS
  <1>g. g = [w EXCEPT !.row = r]
    BY <1>1 DEF MatchedTo
  <1> HIDE DEF B, O
  <1>5. /\ r \in T /\ r.rid = j /\ r.op = op /\ r.rev = q.rev
        /\ r.c = q.c /\ r.raw = q.raw
    BY <1>3, <1>4
  <1> HIDE DEF r, T, g
  <1>6. g \in [id : RowIds, row : T] /\ g.id = w.id /\ g.row = r
    BY <1>1, <1>5, <1>g
  <1> QED
    BY <1>2, <1>5, <1>6 DEF g, q, MatchedAs

\* An unclaimed task of the same content, if there is one.
LEMMA MatchedIs ==
    ASSUME NEW p, NEW H, NEW lo, NEW un, NEW ov, NEW n, NEW k, NEW f, NEW col,
           World(p, server, rows, H, lo, un, ov, n, k, f, col), NEW w \in H
    PROVE  /\ Matched(w) \in WritesOf(k, f) /\ Matched(w).id = w.id
           /\ MatchOf(server, rows, w, Matched(w))
  <1> DEFINE known == {rows[i].rid : i \in DOMAIN rows}
             same == {j \in DOMAIN server \ known : server[j].c = w.row.c}
             j == CHOOSE j \in same : TRUE
             op == IF w.row.op = "create" THEN "update" ELSE w.row.op
             g == Matched(w)
  <1>w. w \in WritesOf(k, f) /\ TaskOK(p, w.id, w.row)
    BY DEF World, CopiesOK
  <1>o. w.row.op \in {"create", "update", "remove"}
    BY WorldTypes
  <1>1. CASE ~Unconfirmed(w)
    <2>1. g = w
      BY <1>1 DEF Matched
    <2>2. w.row.rid # None
      BY <1>1, <1>o, <1>w DEF Unconfirmed, TaskOK
    <2> HIDE DEF g
    <2>3. MatchOf(server, rows, w, g)
      BY <2>1, <2>2 DEF MatchOf
    <2> QED
      BY <1>w, <2>1, <2>3 DEF g
  <1>2. CASE Unconfirmed(w) /\ same = {}
    <2>1. g = w
      BY <1>2 DEF Matched
    <2>2. \A x \in DOMAIN server : server[x].c = w.row.c => \E i \in DOMAIN rows : rows[i].rid = x
      BY <1>2
    <2> HIDE DEF g
    <2>3. MatchOf(server, rows, w, g)
      BY <2>1, <2>2 DEF MatchOf
    <2> QED
      BY <1>w, <2>1, <2>3 DEF g
  <1>3. CASE Unconfirmed(w) /\ same # {}
    <2>1. j \in same
      BY <1>3
    <2>2. /\ j \in DOMAIN server /\ server[j].c = w.row.c
          /\ \A i \in DOMAIN rows : rows[i].rid # j
      BY <2>1
    <2>3. j \in Nat /\ j # None
      <3>1. \A x \in DOMAIN server : x \in Nat /\ 1 <= x
        BY WorldTypes
      <3> QED
        BY <2>2, <3>1 DEF None
    <2>4. g = [w EXCEPT !.row.rid = j, !.row.op = IF @ = "create" THEN "update" ELSE @]
      BY <1>3 DEF Matched
    <2>5. op \in {"", "create", "update", "remove"}
      BY <1>o
    <2>6. w.row.rid = None
      BY <1>3 DEF Unconfirmed
    <2>7. (w.row.op = "create" => op = "update") /\ (w.row.op # "create" => op = w.row.op)
      OBVIOUS
    <2> HIDE DEF j
    <2>8. g = MatchedTo(w, j, op)
      <3>1. w \in [id : RowIds, row : [rid : Nat, etag : Known(k, f), raw : Known(k, f),
                    c : Known(k, f), op : {"", "create", "update", "remove"}, rev : Nat]]
        BY <1>w DEF WritesOf, TasksOf
      <3> HIDE DEF g
      <3> QED
        BY <2>4, <3>1 DEF MatchedTo
    <2> HIDE DEF g, op
    <2>9. g \in WritesOf(k, f) /\ MatchedAs(w, g, j, op)
      BY <1>w, <2>3, <2>5, <2>8, MatchedToIs
    <2>10. MatchOf(server, rows, w, g)
      BY <2>2, <2>3, <2>6, <2>7, <2>9 DEF MatchOf, MatchedAs
    <2> QED
      BY <2>9, <2>10 DEF MatchedAs, g
  <1> QED
    BY <1>1, <1>2, <1>3

LEMMA GoogleReconcileStep ==
    ASSUME TagsOK, JobWorldInv, provider = "google", GoogleReconcile
    PROVE  JobWorldInv' /\ StepOK
  <1> DEFINE G == {Matched(w) : w \in job.writes}
             j == [job EXCEPT !.writes = G]
  <1>a. StillThere /\ job.phase = "reconcile"
    BY DEF GoogleReconcile, StillThere, atServer, bounds, history, creates, lost
  <1>j. /\ IsJob(job) /\ Held = job.writes /\ Attended(server, rows, Held)
    <2>1. JobOK(provider, server, job) /\ Working(job)
      BY <1>a, InvHas DEF Working
    <2> QED
      BY <2>1, <1>a, InvHas DEF JobOK, Held, Copies
  <1>h. World(provider, server, rows, Held, lost, unheard, overtaken, newId, commands,
              foreign, collection)
    BY InvHas
  <1>1. ASSUME ~collection
        PROVE  JobWorldInv' /\ StepOK
    <2>1. rows' = rows /\ job' = IdleJob
      BY <1>1 DEF GoogleReconcile, GoogleFailList, Finished
    <2> QED
      BY <2>1, <1>a, ListFailed
  <1>2. ASSUME collection
        PROVE  JobWorldInv' /\ StepOK
    <2>c. collection = TRUE
      BY <1>2 DEF TagsOK
    <2>1. GoogleProceed(rows, j)
      BY <1>2 DEF GoogleReconcile
    <2>2. \A w \in Held : /\ Matched(w) \in WritesOf(commands, foreign)
                          /\ Matched(w).id = w.id
                          /\ MatchOf(server, rows, w, Matched(w))
      BY <1>h, MatchedIs
    <2>3. /\ G \subseteq WritesOf(commands, foreign)
          /\ \A g \in G : \E w \in Held : MatchOf(server, rows, w, g)
          /\ \A w \in Held : \E g \in G : g.id = w.id
      BY <1>j, <2>2
    <2>4. \A g, h \in G : g.id = h.id => g = h
      <3>1. \A w, v \in Held : w.id = v.id => w = v
        BY <1>h DEF World, CopiesOK
      <3> QED
        BY <3>1, <1>j, <2>2
    <2>5. IsJob(j) /\ j.writes = G
      BY <1>j DEF IsJob
    <2> HIDE DEF G, j
    <2>6. /\ World(provider, server, rows, G, lost, unheard, overtaken, newId, commands,
                   foreign, collection)
          /\ Attended(server, rows, G) /\ CopyKnows(provider, server, G, lost)
      BY <2>c, <2>3, <2>4, <1>h, <1>j, CopiesMatched
    <2>7. /\ JobWorld(provider, server, rows', job', lost, unheard, overtaken, newId,
                      commands, foreign, collection)
          /\ RemovalsReached(provider, server, rows, rows', lost, unheard)
          /\ TitlesKept(provider, rows, rows', lost)
      <3>1. /\ World(provider, server, rows, j.writes, lost, unheard, overtaken, newId,
                     commands, foreign, collection)
            /\ Attended(server, rows, j.writes) /\ CopyKnows(provider, server, j.writes, lost)
        BY <2>5, <2>6
      <3> QED
        BY <3>1, <2>1, <2>5, GoogleGoesOn
    <2>8. JobWorldInv'
      BY <2>7, <1>a, StillWorld
    <2> QED
      BY <2>7, <2>8, <1>a, NoNotes DEF StepOK, StillThere
  <1> QED
    BY <1>1, <1>2

\* The answer of an upload is recorded and the job goes on.
LEMMA GoogleAnswered ==
    ASSUME JobWorldInv, provider = "google", collection = TRUE, Writing(job),
           job.cur.row.op # "remove", NEW n,
           World(provider, server, rows, Held, lost, unheard, overtaken, n, commands, foreign,
                 collection),
           NEW j, Target(provider, server, rows, Held, lost, n, job.cur, j),
           NEW z, z \in [DOMAIN z -> ResourcesOf(commands, foreign)],
           WrittenTo(provider, server, lost, job.cur, j, z), GoogleRecord(j)
    PROVE  /\ JobWorld(provider, z, rows', job', lost, unheard, overtaken, n, commands,
                       foreign, collection)
           /\ TitlesKept(provider, rows, rows', lost)
           /\ RemovalsReached(provider, server', rows, rows', lost, unheard)
  <1> DEFINE w == job.cur
             G == [job EXCEPT !.cur = NoWrite]
  <1>h. World(provider, server, rows, Held, lost, unheard, overtaken, n, commands, foreign,
              collection)
    OBVIOUS
  <1>w. /\ w \in Held /\ Held \ {w} = job.writes /\ job.writes \subseteq Held /\ IsJob(job)
        /\ Attended(server, rows, Held) /\ CopyKnows(provider, server, Held, lost)
        /\ \A v \in Held : v.row.op = "remove" => v.row.rid # None
    BY CurIs
  <1>j. j \in Nat
    BY DEF Target
  <1>1. /\ w.id \in DOMAIN rows
        /\ \E r \in TasksOf(commands, foreign) :
             /\ CompleteTaskWrite(rows, w, j, w.row.c, w.row.c, w.row.c) = With(rows, w.id, r)
             /\ RecordOf(rows[w.id], w, j, r)
             /\ TitleStays(rows[w.id], r)
    <2>1. /\ w \in Held /\ w.row.op # "remove" /\ collection = TRUE
          /\ w.row.c \in {NoContent, w.row.c}
      BY <1>w
    <2> HIDE DEF w
    <2> QED
      BY ONLY <2>1, <1>h, <1>j, WriteRecorded
  <1>2. PICK r \in TasksOf(commands, foreign) :
             /\ CompleteTaskWrite(rows, w, j, w.row.c, w.row.c, w.row.c) = With(rows, w.id, r)
             /\ RecordOf(rows[w.id], w, j, r)
             /\ TitleStays(rows[w.id], r)
    BY <1>1
  <1> DEFINE u == With(rows, w.id, r)
  <1>3. GoogleProceed(u, G)
    BY <1>2 DEF GoogleRecord
  <1>u. DOMAIN u = DOMAIN rows /\ u[w.id] = r /\ \A i \in DOMAIN rows : i # w.id => u[i] = rows[i]
    BY <1>1 DEF With
  <1> HIDE DEF u
  <1>4. /\ World(provider, z, u, Held \ {w}, lost, unheard, overtaken, n, commands,
                 foreign, collection)
        /\ Attended(z, u, Held \ {w}) /\ CopyKnows(provider, z, Held \ {w}, lost)
    BY <1>h, <1>w, <1>2, Answered DEF u
  <1>5. IsJob(G) /\ G.writes = job.writes
    BY <1>w DEF IsJob
  <1> HIDE DEF G
  <1>6. rows' = u /\ JobWorld(provider, z, rows', job', lost, unheard, overtaken, n, commands,
                              foreign, collection)
    <2>2. G.writes = Held \ {w} /\ IsJob(G)
      BY <1>5, <1>w
    <2>3. /\ World(provider, z, u, G.writes, lost, unheard, overtaken, n, commands, foreign,
                   collection)
          /\ Attended(z, u, G.writes) /\ CopyKnows(provider, z, G.writes, lost)
      BY <2>2, <1>4
    <2>4. \A v \in G.writes : v.row.op = "remove" => v.row.rid # None
      BY <1>5, <1>w
    <2>5. provider = "google"
      OBVIOUS
    <2> QED
      <3>1. /\ JobWorld(provider, z, rows', job', lost, unheard, overtaken, n, commands,
                        foreign, collection)
            /\ RemovalsKnown(G.writes) => rows' = u
        BY ONLY <2>2, <2>3, <2>5, <1>3, GoogleGoesOn
      <3> QED
        BY <3>1, <2>4 DEF RemovalsKnown
  <1>7. TitlesKept(provider, rows, rows', lost)
    <2>1. \A i \in DOMAIN rows : u[i].c.title = rows[i].c.title
      BY <1>u, <1>2 DEF TitleStays
    <2> QED
      BY <2>1, <1>6 DEF TitlesKept
  <1>8. RemovalsReached(provider, server', rows, rows', lost, unheard)
    BY <1>6, <1>u DEF RemovalsReached
  <1> QED
    BY <1>6, <1>7, <1>8

\* Google carries out an insert: newId + 1 is a new task.
LEMMA InsertedIs ==
    ASSUME TagsOK, JobWorldInv, provider = "google", job.phase \in {"create", "recreate"}
    PROVE  LET w == job.cur
               n == newId + 1
           IN /\ Writing(job) /\ w \in Held /\ w.row.op # "remove" /\ n \notin DOMAIN server
              /\ job.phase = "create" => w.row.rid = None
              /\ World(provider, server, rows, Held, lost, unheard, overtaken, n, commands,
                       foreign, collection)
              /\ Target(provider, server, rows, Held, lost, n, w, n)
              /\ Inserted \in [DOMAIN Inserted -> ResourcesOf(commands, foreign)]
              /\ WrittenTo(provider, server, lost, w, n, Inserted) /\ Inserted[n].c = w.row.c
  <1> DEFINE w == job.cur
             n == newId + 1
  <1>p. Writing(job)
    BY DEF Writing
  <1>h. /\ World(provider, server, rows, Held, lost, unheard, overtaken, newId, commands,
                 foreign, collection)
        /\ newId \in Nat /\ commands \in Nat /\ foreign \in Nat
    BY InvHas
  <1>w. /\ w \in Held /\ CopyKnows(provider, server, Held, lost) /\ CurOK(provider, server, job)
    BY <1>p, CurIs
  <1>o. /\ w.row.op # "remove" /\ w.row.rid \notin DOMAIN server
        /\ job.phase = "create" => w.row.rid = None
    BY <1>w DEF CurOK
  <1>1. World(provider, server, rows, Held, lost, unheard, overtaken, n, commands, foreign,
              collection)
    <2>1. n >= newId /\ commands >= commands /\ foreign >= foreign /\ n \in Nat
      BY <1>h
    <2> HIDE DEF n
    <2> QED
      BY <2>1, <1>h, WorldGrows
  <1>2. Target(provider, server, rows, Held, lost, n, w, n) /\ n \notin DOMAIN server
    <2>1. w \in Held /\ w.row.rid \notin DOMAIN server /\ provider = "google"
      BY <1>w, <1>o
    <2> HIDE DEF w
    <2> QED
      BY ONLY <2>1, <1>h, <1>w, TargetNew
  <1>3. Inserted = With(server, n, [c |-> w.row.c, by |-> w.id])
    BY DEF Inserted
  <1>4. w.id = IF n \in DOMAIN server THEN server[n].by ELSE w.id
    BY <1>2
  <1>5. /\ Inserted \in [DOMAIN Inserted -> ResourcesOf(commands, foreign)]
        /\ WrittenTo(provider, server, lost, w, n, Inserted) /\ Inserted[n].c = w.row.c
    <2>1. w \in Held /\ w.row.op # "remove"
      BY <1>w, <1>o
    <2> HIDE DEF w, n
    <2> QED
      BY ONLY <2>1, <1>h, <1>3, <1>4, ResourceWritten
  <1> QED
    BY <1>p, <1>w, <1>o, <1>1, <1>2, <1>5

LEMMA GoogleCreateStep ==
    ASSUME TagsOK, JobWorldInv, provider = "google", GoogleCreate
    PROVE  JobWorldInv' /\ StepOK
  <1> DEFINE w == job.cur
             n == newId + 1
  <1>a. /\ job.phase \in {"create", "recreate"}
        /\ UNCHANGED <<provider, collection, commands, foreign, unheard, lost, overtaken>>
    BY DEF GoogleCreate, history, creates, lost
  <1>1. ASSUME ~collection
        PROVE  JobWorldInv' /\ StepOK
    <2>1. rows' = rows /\ job' = IdleJob /\ UNCHANGED <<server, newId>>
      BY <1>1 DEF GoogleCreate, GoogleFailList, Finished
    <2> QED
      BY <2>1, <1>a, ListFailed DEF StillThere
  <1>2. ASSUME collection
        PROVE  JobWorldInv' /\ StepOK
    <2>c. collection = TRUE
      BY <1>2 DEF TagsOK
    <2>1. newId' = n /\ server' = Inserted /\ GoogleRecord(n)
      BY <1>2 DEF GoogleCreate
    <2>2. /\ Writing(job) /\ w.row.op # "remove"
          /\ World(provider, server, rows, Held, lost, unheard, overtaken, n, commands,
                   foreign, collection)
          /\ Target(provider, server, rows, Held, lost, n, w, n)
          /\ Inserted \in [DOMAIN Inserted -> ResourcesOf(commands, foreign)]
          /\ WrittenTo(provider, server, lost, w, n, Inserted)
      BY <1>a, InsertedIs
    <2> HIDE DEF n
    <2>3. /\ JobWorld(provider, server', rows', job', lost, unheard, overtaken, n, commands,
                      foreign, collection)
          /\ TitlesKept(provider, rows, rows', lost)
          /\ RemovalsReached(provider, server', rows, rows', lost, unheard)
      BY <2>c, <2>1, <2>2, GoogleAnswered
    <2>4. JobWorldInv'
      BY <2>1, <2>3, <1>a, InvPrime
    <2> QED
      BY <2>3, <2>4, NoNotes DEF StepOK
  <1> QED
    BY <1>1, <1>2

\* Google carries out a patch.
LEMMA PatchedIs ==
    ASSUME TagsOK, JobWorldInv, provider = "google", job.phase = "put", GoogleThere
    PROVE  LET w == job.cur
               j == w.row.rid
           IN /\ collection = TRUE /\ Writing(job) /\ w \in Held /\ w.row.op # "remove"
              /\ j \in DOMAIN server
              /\ Target(provider, server, rows, Held, lost, newId, w, j)
              /\ Patched \in [DOMAIN Patched -> ResourcesOf(commands, foreign)]
              /\ WrittenTo(provider, server, lost, w, j, Patched) /\ Patched[j].c = w.row.c
  <1> DEFINE w == job.cur
             j == w.row.rid
             v == [c |-> w.row.c, by |-> server[j].by]
  <1>p. Writing(job)
    BY DEF Writing
  <1>h. World(provider, server, rows, Held, lost, unheard, overtaken, newId, commands,
              foreign, collection)
    BY InvHas
  <1>w. /\ w \in Held /\ CopyKnows(provider, server, Held, lost) /\ CurOK(provider, server, job)
        /\ TaskOK(provider, w.id, w.row)
    BY <1>p, CurIs
  <1>o. /\ w.row.op = "update" /\ j # None /\ j \in DOMAIN server
    BY <1>w DEF CurOK, TaskOK, GoogleThere
  <1>c. collection = TRUE
    <2>1. DOMAIN Empty = {}
      BY DEF Empty
    <2> QED
      BY <2>1, <1>o, <1>h DEF World, TagsOK
  <1>1. Target(provider, server, rows, Held, lost, newId, w, j)
    <2>1. w \in Held /\ w.row.rid # None /\ w.row.rid \in DOMAIN server /\ collection = TRUE
      BY <1>w, <1>o, <1>c
    <2> HIDE DEF w
    <2> QED
      BY ONLY <2>1, <1>h, <1>w, TargetKnown
  <1>3. Patched = With(server, j, v)
    <2>1. server \in [DOMAIN server -> ResourcesOf(commands, foreign)]
      BY <1>h DEF World, ServerOK
    <2>2. server[j] \in [c : Known(commands, foreign) \ {NoContent}, by : RowIds]
      BY <2>1, <1>o DEF ResourcesOf
    <2>3. [server[j] EXCEPT !.c = w.row.c] = v
      BY <2>2
    <2>4. Patched = [server EXCEPT ![j] = [server[j] EXCEPT !.c = w.row.c]]
      BY DEF Patched
    <2>5. Patched = [server EXCEPT ![j] = v]
      BY <2>3, <2>4
    <2>6. DOMAIN server \cup {j} = DOMAIN server
      BY <1>o
    <2> HIDE DEF v, j
    <2> QED
      BY <2>1, <2>5, <2>6 DEF With
  <1>4. server[j].by = IF j \in DOMAIN server THEN server[j].by ELSE w.id
    BY <1>o
  <1>5. /\ Patched \in [DOMAIN Patched -> ResourcesOf(commands, foreign)]
        /\ WrittenTo(provider, server, lost, w, j, Patched) /\ Patched[j].c = w.row.c
    <2>1. w \in Held /\ w.row.op # "remove"
      BY <1>w, <1>o
    <2> DEFINE b == server[j].by
    <2>2. /\ Patched = With(server, j, [c |-> w.row.c, by |-> b])
          /\ b = IF j \in DOMAIN server THEN server[j].by ELSE w.id
      BY <1>3, <1>4
    <2> HIDE DEF w, j, b
    <2> QED
      BY ONLY <2>1, <2>2, <1>h, ResourceWritten
  <1> QED
    BY <1>p, <1>w, <1>o, <1>c, <1>1, <1>5

LEMMA GooglePatchStep ==
    ASSUME TagsOK, JobWorldInv, provider = "google", GooglePatch
    PROVE  JobWorldInv' /\ StepOK
  <1> DEFINE w == job.cur
             j == w.row.rid
  <1>a. /\ job.phase = "put"
        /\ UNCHANGED <<provider, collection, newId, commands, foreign, unheard, lost,
                       overtaken>>
    BY DEF GooglePatch, bounds, history, creates, lost
  <1>p. Writing(job)
    BY <1>a DEF Writing
  <1>1. ASSUME ~GoogleThere
        PROVE  JobWorldInv' /\ StepOK
    <2>1. /\ rows' = rows /\ job' = [job EXCEPT !.phase = "recreate"] /\ StillThere
      BY <1>1, <1>a DEF GooglePatch, StillThere
    <2>w. CurOK(provider, server, job) /\ IsJob(job)
      BY <1>p, CurIs
    <2>2. job'.phase = "recreate" /\ job'.cur = w
      BY <2>1, <2>w DEF IsJob
    <2>3. CurOK(provider, server, job')
      BY <2>2, <2>w, <1>a, <1>1 DEF CurOK, GoogleThere
    <2>4. Writing(job') /\ "recreate" \in Phases
      BY <2>2 DEF Writing, Phases
    <2> QED
      BY <2>1, <2>3, <2>4, <1>p, PhaseChanges
  <1>2. ASSUME GoogleThere
        PROVE  JobWorldInv' /\ StepOK
    <2>1. server' = Patched /\ GoogleRecord(j)
      BY <1>2 DEF GooglePatch
    <2>2. /\ collection = TRUE /\ w.row.op # "remove"
          /\ Target(provider, server, rows, Held, lost, newId, w, j)
          /\ Patched \in [DOMAIN Patched -> ResourcesOf(commands, foreign)]
          /\ WrittenTo(provider, server, lost, w, j, Patched)
      BY <1>a, <1>2, PatchedIs
    <2>h. World(provider, server, rows, Held, lost, unheard, overtaken, newId, commands,
                foreign, collection)
      BY InvHas
    <2>3. /\ JobWorld(provider, server', rows', job', lost, unheard, overtaken, newId,
                      commands, foreign, collection)
          /\ TitlesKept(provider, rows, rows', lost)
          /\ RemovalsReached(provider, server', rows, rows', lost, unheard)
      <3> HIDE DEF j
      <3> QED
        BY <2>h, <2>1, <2>2, <1>p, GoogleAnswered
    <2>4. JobWorldInv'
      BY <2>3, <1>a, InvPrime
    <2> QED
      BY <2>3, <2>4, NoNotes DEF StepOK
  <1> QED
    BY <1>1, <1>2

LEMMA GoogleDeleteStep ==
    ASSUME TagsOK, JobWorldInv, provider = "google", GoogleDelete
    PROVE  JobWorldInv' /\ StepOK
  <1> DEFINE w == job.cur
             u == Without(rows, {w.id})
             G == [job EXCEPT !.cur = NoWrite]
  <1>a. /\ job.phase = "delete" /\ server' = Without(server, {w.row.rid})
        /\ UNCHANGED <<provider, collection, newId, commands, foreign, unheard, lost,
                       overtaken>>
        /\ GoogleProceed(RecordRemoval(rows, w), G)
    BY DEF GoogleDelete, bounds, history, creates, lost
  <1>w. /\ Writing(job) /\ w.row.op = "remove" /\ IsJob(job)
        /\ \A v \in job.writes : v.row.op = "remove" => v.row.rid # None
    <2>1. Writing(job) /\ w.row.op = "remove" /\ IsJob(job)
      BY <1>a, CurRemoves
    <2> QED
      BY <2>1, CurIs
  <1>1. /\ RecordRemoval(rows, w) = u
        /\ World(provider, server', u, job.writes, lost, unheard, overtaken, newId, commands,
                 foreign, collection)
        /\ Attended(server', u, job.writes) /\ CopyKnows(provider, server', job.writes, lost)
        /\ TitlesKept(provider, rows, u, lost)
        /\ RemovalsReached(provider, server', rows, u, lost, unheard)
    BY <1>a, <1>w, RowGoes
  <1>3. IsJob(G) /\ G.writes = job.writes
    BY <1>w DEF IsJob
  <1> HIDE DEF u, G
  <1>4. /\ JobWorld(provider, server', rows', job', lost, unheard, overtaken, newId, commands,
                    foreign, collection)
        /\ rows' = u
    <2>1. /\ World(provider, server', u, G.writes, lost, unheard, overtaken, newId, commands,
                   foreign, collection)
          /\ Attended(server', u, G.writes) /\ CopyKnows(provider, server', G.writes, lost)
      BY <1>1, <1>3
    <2>2. GoogleProceed(u, G) /\ provider = "google"
      BY <1>1, <1>a
    <2>3. /\ JobWorld(provider, server', rows', job', lost, unheard, overtaken, newId,
                      commands, foreign, collection)
          /\ RemovalsKnown(G.writes) => rows' = u
      BY ONLY <2>1, <2>2, <1>3, GoogleGoesOn
    <2> QED
      BY <2>3, <1>3, <1>w DEF RemovalsKnown
  <1>5. JobWorldInv'
    BY <1>4, <1>a, InvPrime
  <1> QED
    BY <1>1, <1>4, <1>5, NoNotes DEF StepOK

LEMMA GooglePullStep ==
    ASSUME JobWorldInv, GooglePull
    PROVE  JobWorldInv' /\ StepOK
  <1>0. StillThere /\ job.phase = "pull"
    BY DEF GooglePull, StillThere, atServer, bounds, history, creates, lost
  <1>1. ASSUME rows' = ApplyRemoteTasks(rows, server, TRUE), job' = IdleJob
        PROVE  JobWorldInv' /\ StepOK
    <2>1. server = [x \in DOMAIN server |-> server[x]]
      BY InvHas DEF World, ServerOK
    <2>2. Without(server, {}) = server
      BY <2>1 DEF Without
    <2>3. rows' = ApplyRemoteTasks(rows, Without(server, {}), TRUE)
      BY <1>1, <2>2
    <2> QED
      BY <1>0, <1>1, <2>3, PullStep
  <1>2. ASSUME GoogleFailList
        PROVE  JobWorldInv' /\ StepOK
    BY <1>0, <1>2, ListFailed DEF GoogleFailList, Finished
  <1> QED
    BY <1>1, <1>2 DEF GooglePull, Finished

-----------------------------------------------------------------------------
\* Requests of a Google job that go wrong.

LEMMA GoogleLost ==
    ASSUME TagsOK, JobWorldInv, provider = "google", NEW carriedOut \in BOOLEAN,
           GoogleUnanswered(carriedOut), rows' = rows, job' = IdleJob,
           UNCHANGED <<provider, collection, commands, foreign, overtaken>>
    PROVE  JobWorldInv' /\ StepOK
  <1> DEFINE w == job.cur
             n == newId + 1
  <1>h. World(provider, server, rows, Held, lost, unheard, overtaken, newId, commands,
              foreign, collection)
    BY InvHas
  <1>s. ASSUME JobWorldInv'
        PROVE  JobWorldInv' /\ StepOK
    BY <1>s, NoNotes, RowsStay DEF StepOK
  <1>1. ASSUME UNCHANGED <<server, newId, unheard, lost>>
        PROVE  JobWorldInv' /\ StepOK
    BY <1>1, ListFailed DEF StillThere
  <1>2. ASSUME collection, job.phase \in {"create", "recreate"}, newId' = n,
               server' = Inserted, Unheard(w)
        PROVE  JobWorldInv'
    <2>1. /\ w \in Held /\ w.row.op # "remove" /\ n \notin DOMAIN server
          /\ job.phase = "create" => w.row.rid = None
          /\ World(provider, server, rows, Held, lost, unheard, overtaken, n, commands,
                   foreign, collection)
          /\ Target(provider, server, rows, Held, lost, n, w, n)
          /\ server' \in [DOMAIN server' -> ResourcesOf(commands, foreign)]
          /\ WrittenTo(provider, server, lost, w, n, server') /\ server'[n].c = w.row.c
      BY <1>2, InsertedIs
    <2>c. collection = TRUE
      BY <1>2 DEF TagsOK
    <2>2. lost \subseteq lost' /\ unheard \subseteq unheard'
      BY <1>2 DEF Unheard, lost
    <2>3. \/ provider = "google" /\ w.id \in lost'
          \/ /\ rows[w.id].rid = None /\ w.id \in unheard'
             /\ Resembles(provider, w.id, rows[w.id], w.row.c, lost')
      <3>1. w.id \in DOMAIN rows
        <4> HIDE DEF w
        <4> QED
          BY <2>1, <2>c DEF World, CopiesHaveRows
      <3>2. /\ w.id \in unheard'
            /\ rows[w.id].c = w.row.c \/ w.id \in edited'
            /\ rows[w.id].rid = None \/ w.id \in recreated'
        BY <3>1, <1>2 DEF Unheard
      <3>3. lost' = edited' \cup altered' \cup recreated'
        BY DEF lost
      <3> QED
        BY <3>2, <3>3 DEF Resembles
    <2>4. World(provider, server', rows, {}, lost', unheard', overtaken, n, commands,
                foreign, collection)
      <3>1. n \in DOMAIN server => n = w.row.rid
        BY <2>1
      <3>2. \/ provider = "google" /\ w.id \in lost'
            \/ /\ rows[w.id].rid = None /\ w.id \in unheard'
               /\ Resembles(provider, w.id, rows[w.id], w.row.c, lost')
        BY <2>3
      <3> HIDE DEF w, n
      <3> QED
        BY ONLY <3>1, <3>2, <2>1, <2>2, <2>c, Unanswered
    <2>5. JobWorld(provider, server', rows, IdleJob, lost', unheard', overtaken, n,
                   commands, foreign, collection)
      BY <2>4, IdleIs, WithoutCopies
    <2> QED
      BY <2>5, <1>2, InvPrime
  <1>3. ASSUME job.phase = "put", GoogleThere, server' = Patched,
               UNCHANGED <<newId, unheard, lost>>
        PROVE  JobWorldInv'
    <2> DEFINE j == w.row.rid
    <2>1. /\ collection = TRUE /\ w \in Held /\ w.row.op # "remove" /\ j \in DOMAIN server
          /\ Target(provider, server, rows, Held, lost, newId, w, j)
          /\ server' \in [DOMAIN server' -> ResourcesOf(commands, foreign)]
          /\ WrittenTo(provider, server, lost, w, j, server') /\ server'[j].c = w.row.c
      BY <1>3, PatchedIs
    <2>2. j = w.row.rid /\ lost \subseteq lost /\ unheard \subseteq unheard
      OBVIOUS
    <2>4. World(provider, server', rows, {}, lost, unheard, overtaken, newId, commands,
                foreign, collection)
      <3> HIDE DEF w, j
      <3> QED
        BY ONLY <2>1, <2>2, <1>h, Unanswered
    <2>5. JobWorld(provider, server', rows, IdleJob, lost, unheard, overtaken, newId,
                   commands, foreign, collection)
      BY <2>4, IdleIs, WithoutCopies
    <2> QED
      BY <2>5, <1>3, InvPrime
  <1>4. ASSUME server' = Without(server, {w.row.rid}), UNCHANGED <<newId, unheard, lost>>
        PROVE  JobWorldInv'
    <2>2. World(provider, server', rows, Held, lost, unheard, overtaken, newId, commands,
                foreign, collection)
      BY <1>4, <1>h, ResourcesDropped
    <2>3. JobWorld(provider, server', rows, IdleJob, lost, unheard, overtaken, newId,
                   commands, foreign, collection)
      BY <2>2, IdleIs, WithoutCopies
    <2> QED
      BY <2>3, <1>4, InvPrime
  <1> DEFINE C1 == UNCHANGED <<server, newId, unheard, lost>>
             C2 == /\ collection /\ job.phase \in {"create", "recreate"} /\ newId' = n
                   /\ server' = Inserted /\ Unheard(w)
             C3 == /\ job.phase = "put" /\ GoogleThere /\ server' = Patched
                   /\ UNCHANGED <<newId, unheard, lost>>
             C4 == server' = Without(server, {w.row.rid}) /\ UNCHANGED <<newId, unheard, lost>>
  <1>5. C1 \/ C2 \/ C3 \/ C4
    <2>1. CASE ~carriedOut \/ ~collection
      BY <2>1 DEF GoogleUnanswered, creates, lost
    <2>2. CASE carriedOut /\ collection /\ job.phase \in {"create", "recreate"}
      BY <2>2 DEF GoogleUnanswered, creates, lost
    <2>3. CASE carriedOut /\ collection /\ job.phase = "put" /\ GoogleThere
      BY <2>3 DEF GoogleUnanswered, creates, lost
    <2>4. CASE carriedOut /\ collection /\ job.phase = "delete"
      BY <2>4 DEF GoogleUnanswered, creates, lost
    <2>5. CASE /\ carriedOut /\ collection /\ job.phase \notin {"create", "recreate", "delete"}
               /\ ~(job.phase = "put" /\ GoogleThere)
      BY <2>5 DEF GoogleUnanswered, creates, lost
    <2> QED
      BY <2>1, <2>2, <2>3, <2>4, <2>5
  <1> QED
    BY <1>s, <1>1, <1>2, <1>3, <1>4, <1>5

LEMMA GoogleTroubleStep ==
    ASSUME TagsOK, JobWorldInv, provider = "google", GoogleRequestFails \/ GoogleStop
    PROVE  JobWorldInv' /\ StepOK
  <1>1. /\ rows' = rows /\ job' = IdleJob
        /\ UNCHANGED <<provider, collection, commands, foreign, overtaken>>
    BY DEF GoogleRequestFails, GoogleStop, GoogleFailList, Finished, Forget
  <1>2. \E carriedOut \in BOOLEAN : GoogleUnanswered(carriedOut)
    BY DEF GoogleRequestFails, GoogleStop
  <1> QED
    BY <1>1, <1>2, GoogleLost

-----------------------------------------------------------------------------
\* Tags, timers and counters.

JobTags(j, tg) == j.ctag \subseteq 0..tg /\ j.token \subseteq 0..tg /\ j.enabled \in BOOLEAN

\* The job and the timers after a step.
JobEnds ==
    /\ JobTags(job', tag) /\ rerun' \in BOOLEAN /\ again' \in BOOLEAN
    /\ again' => job'.phase # "idle"

CountersOK ==
    /\ collection \in BOOLEAN /\ tag \in Nat
    /\ commands \in 0..MaxCommands /\ foreign \in 0..MaxForeign /\ faults \in 0..MaxFaults
Lists(tg) == [stored : BOOLEAN, enabled : BOOLEAN, token : SUBSET (0..tg)]

LEMMA TagsHas ==
    ASSUME TagsOK
    PROVE  /\ JobTags(job, tag) /\ rerun \in BOOLEAN /\ again \in BOOLEAN
           /\ again => job.phase # "idle"
           /\ list \in Lists(tag) /\ CountersOK
  BY DEF TagsOK, JobTags, Lists, CountersOK, Busy

LEMMA TagsAgain ==
    ASSUME TagsOK, JobEnds, CountersOK', tag' >= tag, list' \in Lists(tag)
    PROVE  TagsOK'
  <1>1. tag \in Nat /\ tag' \in Nat
    BY DEF TagsOK, CountersOK
  <1>2. 0..tag \subseteq 0..tag'
    BY <1>1
  <1>3. list' \in [stored : BOOLEAN, enabled : BOOLEAN, token : SUBSET (0..tag')]
    BY <1>2 DEF Lists
  <1>4. job'.ctag \subseteq 0..tag' /\ job'.token \subseteq 0..tag' /\ job'.enabled \in BOOLEAN
    BY <1>2 DEF JobEnds, JobTags
  <1> QED
    BY <1>3, <1>4 DEF TagsOK, JobEnds, CountersOK, Busy

LEMMA TagGrows ==
    ASSUME TagsOK, Tagged \/ tag' = tag
    PROVE  tag' \in Nat /\ tag' >= tag
  <1>1. tag \in Nat
    BY DEF TagsOK
  <1>2. tag' = tag \/ tag' = tag + 1
    BY DEF Tagged
  <1> QED
    BY <1>1, <1>2

LEMMA IdleTags ==
    ASSUME TagsOK, NEW timer \in BOOLEAN
    PROVE  /\ Finished(timer) => JobEnds
           /\ Forget => JobEnds
  <1>1. JobTags(IdleJob, tag)
    BY DEF IdleJob, JobTags
  <1> QED
    BY <1>1, TagsHas DEF Finished, Forget, JobEnds

LEMMA SameJobTags ==
    ASSUME TagsOK, job' = job, rerun' \in BOOLEAN, again' \in BOOLEAN,
           again' => again \/ job.phase # "idle"
    PROVE  JobEnds
  BY TagsHas DEF JobEnds

LEMMA ProceedTags ==
    ASSUME TagsOK, NEW t, NEW j, NEW timer \in BOOLEAN, IsJob(j), JobTags(j, tag),
           DavProceed(t, j, timer) \/ GoogleProceed(t, j)
    PROVE  JobEnds
  <1>p. \A w : DavPhaseOf(w) # "idle" /\ GooglePhaseOf(w) # "idle"
    BY DEF DavPhaseOf, GooglePhaseOf
  <1>1. ASSUME NEW ph, NEW w, NEW S, ph # "idle", again' = again, rerun' \in BOOLEAN,
               job' = [j EXCEPT !.writes = S, !.cur = w, !.phase = ph]
        PROVE  JobEnds
    <2>1. /\ job'.phase = ph /\ job'.ctag = j.ctag /\ job'.token = j.token
          /\ job'.enabled = j.enabled
      BY <1>1 DEF IsJob
    <2> QED
      BY <1>1, <2>1, TagsHas DEF JobEnds, JobTags
  <1>2. ASSUME again' = again, rerun' \in BOOLEAN,
               job' = [j EXCEPT !.phase = "pull", !.cur = NoWrite]
        PROVE  JobEnds
    <2>1. /\ job'.phase = "pull" /\ job'.ctag = j.ctag /\ job'.token = j.token
          /\ job'.enabled = j.enabled
      BY <1>2 DEF IsJob
    <2> QED
      BY <1>2, <2>1, TagsHas DEF JobEnds, JobTags
  <1>3. CASE DavProceed(t, j, timer)
    <2>1. \/ Finished(timer)
          \/ /\ again' = again /\ rerun' = timer
             /\ \/ job' = [j EXCEPT !.phase = "pull", !.cur = NoWrite]
                \/ \E w \in j.writes : job' = [j EXCEPT !.writes = @ \ {w}, !.cur = w,
                                                        !.phase = DavPhaseOf(w)]
      BY <1>3 DEF DavProceed
    <2>2. ASSUME NEW w \in j.writes, again' = again, rerun' = timer,
                 job' = [j EXCEPT !.writes = @ \ {w}, !.cur = w, !.phase = DavPhaseOf(w)]
          PROVE  JobEnds
      <3>1. job' = [j EXCEPT !.writes = j.writes \ {w}, !.cur = w, !.phase = DavPhaseOf(w)]
        BY <2>2 DEF IsJob
      <3> QED
        BY <1>1, <1>p, <2>2, <3>1
    <2> QED
      BY <1>2, <2>1, <2>2, IdleTags
  <1>4. CASE GoogleProceed(t, j)
    <2> DEFINE drops == {w \in j.writes : w.row.op = "remove" /\ w.row.rid = None}
               left == j.writes \ drops
    <2>1. /\ again' = again /\ rerun' = rerun
          /\ \/ job' = [j EXCEPT !.writes = {}, !.cur = NoWrite, !.phase = "pull"]
             \/ \E w \in left : job' = [j EXCEPT !.writes = left \ {w}, !.cur = w,
                                                 !.phase = GooglePhaseOf(w)]
      BY <1>4 DEF GoogleProceed
    <2> HIDE DEF drops, left
    <2> QED
      BY <1>1, <1>p, <2>1, TagsHas
  <1> QED
    BY <1>3, <1>4

LEMMA BeginTags ==
    ASSUME TagsOK, NEW t, NEW ctag, ctag \subseteq 0..tag, NEW timer \in BOOLEAN,
           DavBegin(t, ctag, timer)
    PROVE  JobEnds
  <1> DEFINE j == [IdleJob EXCEPT !.writes = Owed(Without(t, NeverUploaded(t))),
                                  !.wrote = NeverUploaded(t) # {}, !.ctag = ctag,
                                  !.token = list.token, !.enabled = list.enabled]
  <1>1. DavProceed(Without(t, NeverUploaded(t)), j, timer)
    BY DEF DavBegin
  <1>2. IsJob(j) /\ j.ctag = ctag /\ j.token = list.token /\ j.enabled = list.enabled
    BY DEF IsJob, IdleJob
  <1>3. list.token \subseteq 0..tag /\ list.enabled \in BOOLEAN
    BY TagsHas DEF Lists
  <1> HIDE DEF j
  <1>4. JobTags(j, tag)
    BY <1>2, <1>3 DEF JobTags
  <1> QED
    BY <1>1, <1>2, <1>4, ProceedTags

\* One field of the job changes with its phase.
LEMMA PhaseTags ==
    ASSUME TagsOK, IsJob(job), UNCHANGED <<again, rerun>>, job'.phase # "idle",
           job'.ctag = job.ctag, job'.token = job.token, job'.enabled = job.enabled
    PROVE  JobEnds
  BY TagsHas DEF JobEnds, JobTags

LEMMA SyncTags ==
    ASSUME TagsOK, NEW t, SyncTaskList(t)
    PROVE  JobEnds
  <1>0. FALSE \in BOOLEAN /\ {} \subseteq 0..tag
    OBVIOUS
  <1>1. CASE provider = "caldav" /\ DavSyncStored(t)
    <2>1. ASSUME Busy, again' = TRUE, UNCHANGED <<job, rerun>>
          PROVE  JobEnds
      BY <2>1, SameJobTags, TagsHas DEF Busy
    <2>2. ASSUME DavBegin(t, {}, FALSE)
          PROVE  JobEnds
      BY <2>2, <1>0, BeginTags
    <2>3. ASSUME rerun' = FALSE, UNCHANGED <<job, again>>
          PROVE  JobEnds
      BY <2>3, SameJobTags, TagsHas
    <2> QED
      BY <1>1, <2>1, <2>2, <2>3 DEF DavSyncStored
  <1>2. CASE provider = "google" /\ GoogleSyncAccount(t)
    <2>1. ASSUME Busy, again' = TRUE, UNCHANGED <<job, rerun>>
          PROVE  JobEnds
      BY <2>1, SameJobTags, TagsHas DEF Busy
    <2>2. ASSUME job' = [IdleJob EXCEPT !.phase = "lists"], rerun' = FALSE, again' = again
          PROVE  JobEnds
      <3>1. job'.phase = "lists" /\ JobTags(job', tag)
        BY <2>2 DEF IdleJob, JobTags
      <3> QED
        BY <2>2, <3>1, TagsHas DEF JobEnds
    <2> QED
      BY <1>2, <2>1, <2>2 DEF GoogleSyncAccount
  <1> QED
    BY <1>1, <1>2 DEF SyncTaskList

\* What the steps of the user leave.
LEMMA UserTags ==
    ASSUME TagsOK, User
    PROVE  TagsOK'
  <1>c. commands \in 0..MaxCommands /\ foreign \in 0..MaxForeign /\ faults \in 0..MaxFaults
        /\ MaxCommands \in Nat /\ list \in Lists(tag) /\ tag \in Nat /\ collection \in BOOLEAN
    BY TagsHas, TaskAssumption DEF CountersOK
  <1>k. commands < MaxCommands /\ commands' = commands + 1 => commands' \in 0..MaxCommands
    BY <1>c
  <1>1. ASSUME JobEnds, Command, UNCHANGED <<collection, tag, foreign, faults>>,
               list' \in Lists(tag)
        PROVE  TagsOK'
    <2>1. CountersOK'
      BY <1>1, <1>c, <1>k DEF CountersOK, Command
    <2>2. tag' >= tag
      BY <1>1, <1>c
    <2> QED
      BY <1>1, <2>1, <2>2, TagsAgain
  <1>2. ASSUME TasksCreate
        PROVE  TagsOK'
    BY <1>1, <1>2, <1>c, SyncTags DEF TasksCreate, atServer
  <1>3. ASSUME NEW i \in DOMAIN rows, TasksUpdate(i)
        PROVE  TagsOK'
    BY <1>1, <1>3, <1>c, SyncTags DEF TasksUpdate, atServer
  <1>4. ASSUME NEW i \in DOMAIN rows, TasksRemove(i)
        PROVE  TagsOK'
    BY <1>1, <1>4, <1>c, SyncTags DEF TasksRemove, atServer
  <1>5. ASSUME TaskListsSetEnabled
        PROVE  TagsOK'
    <2>1. list' \in Lists(tag)
      BY <1>5, <1>c DEF TaskListsSetEnabled, Lists
    <2>2. JobEnds
      BY <1>5, SameJobTags, TagsHas DEF TaskListsSetEnabled
    <2> QED
      BY <1>1, <1>5, <2>1, <2>2 DEF TaskListsSetEnabled, atServer
  <1> QED
    BY <1>2, <1>3, <1>4, <1>5 DEF User

\* Those of the job, the poll and the timers, without a fault.
LEMMA QuietTags ==
    ASSUME TagsOK, JobEnds, Tagged \/ tag' = tag, list' \in Lists(tag),
           UNCHANGED <<collection, commands, foreign>>, faults' = faults \/ \E kd : Fault(kd)
    PROVE  TagsOK'
  <1>1. tag' \in Nat /\ tag' >= tag
    BY TagGrows
  <1>2. faults' \in 0..MaxFaults
    <2>1. faults \in 0..MaxFaults /\ MaxFaults \in Nat
      BY TagsHas, TaskAssumption DEF CountersOK
    <2>2. faults' = faults \/ (faults < MaxFaults /\ faults' = faults + 1)
      BY DEF Fault
    <2> QED
      BY <2>1, <2>2
  <1>3. CountersOK'
    BY <1>1, <1>2, TagsHas DEF CountersOK
  <1> QED
    BY <1>1, <1>3, TagsAgain

LEMMA PollTags ==
    ASSUME TagsOK, Poll \/ Rerun \/ (provider = "caldav" /\ DavSyncUnreported)
    PROVE  TagsOK'
  <1>c. /\ list \in Lists(tag) /\ tag \in Nat /\ {tag} \subseteq 0..tag /\ {} \subseteq 0..tag
        /\ rerun \in BOOLEAN /\ again \in BOOLEAN /\ FALSE \in BOOLEAN
    BY TagsHas DEF CountersOK
  <1>1. ASSUME DavSyncDiscovered
        PROVE  TagsOK'
    <2>1. JobEnds
      <3>1. CASE Busy
        BY <1>1, <3>1, SameJobTags, TagsHas DEF DavSyncDiscovered, Busy
      <3>2. CASE ~Busy
        BY <1>1, <3>2, <1>c, BeginTags DEF DavSyncDiscovered
      <3> QED
        BY <3>1, <3>2
    <2> QED
      BY <1>1, <1>c, <2>1, QuietTags DEF DavSyncDiscovered, atServer, bounds
  <1>2. ASSUME DavListGone
        PROVE  TagsOK'
    <2>1. JobEnds
      BY <1>2, SameJobTags, TagsHas DEF DavListGone, Busy
    <2>2. list' \in Lists(tag)
      BY <1>2, <1>c DEF DavListGone, Lists
    <2> QED
      BY <1>2, <1>c, <2>1, <2>2, QuietTags DEF DavListGone, atServer, bounds
  <1>3. ASSUME DavSyncUnreported
        PROVE  TagsOK'
    <2>1. JobEnds
      <3>1. CASE Busy
        BY <1>3, <3>1, SameJobTags, TagsHas DEF DavSyncUnreported, Busy
      <3>2. CASE ~Busy /\ list.stored
        BY <1>3, <3>2, <1>c, BeginTags DEF DavSyncUnreported
      <3>3. CASE ~Busy /\ ~list.stored
        BY <1>3, <3>3, SameJobTags, TagsHas DEF DavSyncUnreported
      <3> QED
        BY <3>1, <3>2, <3>3
    <2> QED
      BY <1>3, <1>c, <2>1, QuietTags DEF DavSyncUnreported, atServer
  <1>4. ASSUME provider = "caldav", DavRerun
        PROVE  TagsOK'
    <2>1. JobEnds
      BY <1>4, SyncTags DEF DavRerun, SyncTaskList
    <2> QED
      BY <1>4, <1>c, <2>1, QuietTags DEF DavRerun, atServer, bounds
  <1>5. ASSUME provider = "google", GoogleSync
        PROVE  TagsOK'
    <2>1. JobEnds
      BY <1>5, SyncTags DEF GoogleSync, SyncTaskList
    <2> QED
      BY <1>5, <1>c, <2>1, QuietTags DEF GoogleSync, atServer, bounds
  <1> QED
    BY <1>1, <1>2, <1>3, <1>4, <1>5 DEF Poll, Rerun, GoogleRerun

LEMMA PulledListTags ==
    ASSUME TagsOK
    PROVE  /\ SyncedList(job.ctag) \in Lists(tag) /\ SyncedList(job.token) \in Lists(tag)
           /\ SyncedList(list.token) \in Lists(tag)
  BY TagsHas DEF SyncedList, Lists, JobTags

LEMMA RecordedTags ==
    ASSUME TagsOK, IsJob(job), NEW t, DavRecorded(t) \/ GoogleProceed(t, [job EXCEPT !.cur = NoWrite])
    PROVE  JobEnds
  <1> DEFINE j == [job EXCEPT !.wrote = TRUE, !.cur = NoWrite]
             g == [job EXCEPT !.cur = NoWrite]
  <1>1. /\ IsJob(j) /\ j.ctag = job.ctag /\ j.token = job.token /\ j.enabled = job.enabled
        /\ IsJob(g) /\ g.ctag = job.ctag /\ g.token = job.token /\ g.enabled = job.enabled
    BY DEF IsJob
  <1>2. DavProceed(t, j, rerun) \/ GoogleProceed(t, g)
    BY DEF DavRecorded
  <1>3. JobTags(job, tag) /\ rerun \in BOOLEAN
    BY TagsHas
  <1> HIDE DEF j, g
  <1>4. JobTags(j, tag) /\ JobTags(g, tag)
    BY <1>1, <1>3 DEF JobTags
  <1> QED
    BY <1>1, <1>2, <1>3, <1>4, ProceedTags

LEMMA DavJobTags ==
    ASSUME TagsOK, JobWorldInv, DavJob
    PROVE  TagsOK'
  <1>j. IsJob(job)
    BY InvHas DEF JobOK
  <1>c. list \in Lists(tag) /\ rerun \in BOOLEAN
    BY TagsHas
  <1>f. DavFailList => JobEnds
    BY <1>c, IdleTags DEF DavFailList
  <1>r. \A etag : DavRecord(etag) => JobEnds
    BY <1>j, RecordedTags DEF DavRecord
  <1>p. ASSUME NEW ph, ph # "idle", job' = [job EXCEPT !.phase = ph], UNCHANGED <<again, rerun>>
        PROVE  JobEnds
    BY <1>j, <1>p, PhaseTags DEF IsJob
  <1>1. ASSUME DavCreate
        PROVE  TagsOK'
    <2>1. JobEnds
      BY <1>1, <1>f, <1>r DEF DavCreate
    <2> QED
      BY <1>1, <1>c, <2>1, QuietTags DEF DavCreate, bounds
  <1>2. ASSUME DavPut
        PROVE  TagsOK'
    <2>1. JobEnds
      <3>1. ASSUME job' = [job EXCEPT !.phase = "create"], UNCHANGED <<again, rerun>>
            PROVE  JobEnds
        BY <1>p, <3>1
      <3>2. ASSUME job' = [job EXCEPT !.phase = "merge"], UNCHANGED <<again, rerun>>
            PROVE  JobEnds
        BY <1>p, <3>2
      <3> QED
        BY <1>2, <1>f, <1>r, <3>1, <3>2 DEF DavPut
    <2> QED
      BY <1>2, <1>c, <2>1, QuietTags DEF DavPut, bounds
  <1>3. ASSUME DavMerge
        PROVE  TagsOK'
    <2>1. JobEnds
      <3>1. ASSUME job' = [job EXCEPT !.phase = "create"], UNCHANGED <<again, rerun>>
            PROVE  JobEnds
        BY <1>p, <3>1
      <3>2. ASSUME job' = [job EXCEPT !.cur = Merged(job.cur), !.phase = "putAgain"],
                   UNCHANGED <<again, rerun>>
            PROVE  JobEnds
        BY <1>j, <3>2, PhaseTags DEF IsJob
      <3> QED
        BY <1>3, <1>f, <3>1, <3>2 DEF DavMerge
    <2> QED
      BY <1>3, <1>c, <2>1, QuietTags DEF DavMerge, atServer, bounds
  <1>4. ASSUME DavDelete
        PROVE  TagsOK'
    <2>1. JobEnds
      <3>1. ASSUME job' = [job EXCEPT !.phase = "reread"], UNCHANGED <<again, rerun>>
            PROVE  JobEnds
        BY <1>p, <3>1
      <3> QED
        BY <1>4, <1>f, <1>j, RecordedTags, <3>1 DEF DavDelete
    <2> QED
      BY <1>4, <1>c, <2>1, QuietTags DEF DavDelete, bounds
  <1>5. ASSUME DavReread
        PROVE  TagsOK'
    <2>1. JobEnds
      <3>1. ASSUME job' = [job EXCEPT !.cur.row.etag = server[Address(job.cur)].c,
                                      !.phase = "deleteAgain"],
                   UNCHANGED <<again, rerun>>
            PROVE  JobEnds
        BY <1>j, <3>1, PhaseTags DEF IsJob
      <3> QED
        BY <1>5, <1>f, <1>j, RecordedTags, <3>1 DEF DavReread
    <2> QED
      BY <1>5, <1>c, <2>1, QuietTags DEF DavReread, atServer, bounds
  <1>6. ASSUME DavPull
        PROVE  TagsOK'
    <2>1. JobEnds
      BY <1>6, <1>f, <1>c, IdleTags DEF DavPull, DavPulled
    <2>2. list' \in Lists(tag)
      BY <1>6, <1>c, PulledListTags DEF DavPull, DavPulled
    <2> QED
      BY <1>6, <1>c, <2>1, <2>2, QuietTags DEF DavPull, atServer, bounds
  <1> QED
    BY <1>1, <1>2, <1>3, <1>4, <1>5, <1>6 DEF DavJob

LEMMA GoogleJobTags ==
    ASSUME TagsOK, JobWorldInv, GoogleJob
    PROVE  TagsOK'
  <1>j. IsJob(job)
    BY InvHas DEF JobOK
  <1>c. list \in Lists(tag) /\ rerun \in BOOLEAN /\ JobTags(job, tag)
    BY TagsHas
  <1>l. list.stored \in BOOLEAN /\ list.enabled \in BOOLEAN
    BY <1>c DEF Lists
  <1>f. GoogleFailList => JobEnds
    BY <1>c, IdleTags DEF GoogleFailList
  <1>r. \A rid : GoogleRecord(rid) => JobEnds
    BY <1>j, RecordedTags DEF GoogleRecord
  <1>1. ASSUME GoogleLists
        PROVE  TagsOK'
    <2> DEFINE j == [job EXCEPT !.writes = Owed(rows), !.enabled = list.enabled]
    <2>1. IsJob(j) /\ j.ctag = job.ctag /\ j.token = job.token /\ j.enabled = list.enabled
      BY <1>j DEF IsJob
    <2>2. \/ Finished(rerun)
          \/ job' = [j EXCEPT !.phase = "reconcile"] /\ UNCHANGED <<again, rerun>>
          \/ GoogleProceed(rows, j)
      BY <1>1 DEF GoogleLists
    <2>3. list' \in Lists(tag)
      <3>1. list' = [list EXCEPT !.stored = FALSE] \/ list' = [list EXCEPT !.stored = TRUE]
        BY <1>1 DEF GoogleLists
      <3> QED
        BY <3>1, <1>c DEF Lists
    <2> HIDE DEF j
    <2>4. JobTags(j, tag)
      BY <2>1, <1>c, <1>l DEF JobTags
    <2>5. JobEnds
      <3>1. ASSUME job' = [j EXCEPT !.phase = "reconcile"], UNCHANGED <<again, rerun>>
            PROVE  JobEnds
        <4>1. /\ job'.phase = "reconcile" /\ job'.ctag = j.ctag /\ job'.token = j.token
              /\ job'.enabled = j.enabled
          BY <3>1, <2>1 DEF IsJob
        <4> QED
          BY <4>1, <2>4, <3>1, TagsHas DEF JobEnds, JobTags
      <3>2. ASSUME GoogleProceed(rows, j)
            PROVE  JobEnds
        BY <3>2, <2>1, <2>4, <1>c, ProceedTags
      <3> QED
        BY <2>2, <3>1, <3>2, <1>c, IdleTags
    <2> QED
      BY <1>1, <2>3, <2>5, QuietTags DEF GoogleLists, atServer, bounds
  <1>2. ASSUME GoogleReconcile
        PROVE  TagsOK'
    <2> DEFINE j == [job EXCEPT !.writes = {Matched(w) : w \in @}]
    <2>1. IsJob(j) /\ j.ctag = job.ctag /\ j.token = job.token /\ j.enabled = job.enabled
      BY <1>j DEF IsJob
    <2>2. GoogleProceed(rows, j) \/ GoogleFailList
      BY <1>2 DEF GoogleReconcile
    <2> HIDE DEF j
    <2>3. JobTags(j, tag)
      BY <2>1, <1>c DEF JobTags
    <2>4. JobEnds
      BY <2>1, <2>2, <2>3, <1>c, <1>f, ProceedTags
    <2> QED
      BY <1>2, <1>c, <2>4, QuietTags DEF GoogleReconcile, atServer, bounds
  <1>3. ASSUME GoogleCreate
        PROVE  TagsOK'
    <2>1. JobEnds
      BY <1>3, <1>f, <1>r DEF GoogleCreate
    <2> QED
      BY <1>3, <1>c, <2>1, QuietTags DEF GoogleCreate
  <1>4. ASSUME GooglePatch
        PROVE  TagsOK'
    <2>1. JobEnds
      <3>1. ASSUME job' = [job EXCEPT !.phase = "recreate"], UNCHANGED <<again, rerun>>
            PROVE  JobEnds
        BY <1>j, <3>1, PhaseTags DEF IsJob
      <3> QED
        BY <1>4, <1>r, <3>1 DEF GooglePatch
    <2> QED
      BY <1>4, <1>c, <2>1, QuietTags DEF GooglePatch, bounds
  <1>5. ASSUME GoogleDelete
        PROVE  TagsOK'
    <2>1. JobEnds
      BY <1>5, <1>j, RecordedTags DEF GoogleDelete
    <2> QED
      BY <1>5, <1>c, <2>1, QuietTags DEF GoogleDelete, bounds
  <1>6. ASSUME GooglePull
        PROVE  TagsOK'
    <2>1. JobEnds
      BY <1>6, <1>f, <1>c, IdleTags DEF GooglePull
    <2>2. list' \in Lists(tag)
      BY <1>6, <1>c, PulledListTags DEF GooglePull
    <2> QED
      BY <1>6, <2>1, <2>2, QuietTags DEF GooglePull, atServer, bounds
  <1> QED
    BY <1>1, <1>2, <1>3, <1>4, <1>5, <1>6 DEF GoogleJob

LEMMA TroubleTags ==
    ASSUME TagsOK, Troubles
    PROVE  TagsOK'
  <1>c. list \in Lists(tag) /\ rerun \in BOOLEAN
    BY TagsHas
  <1>1. ASSUME DavPullPartly
        PROVE  TagsOK'
    <2>1. JobEnds
      BY <1>1, <1>c, IdleTags DEF DavPullPartly, DavPulled
    <2>2. list' \in Lists(tag)
      BY <1>1, PulledListTags DEF DavPullPartly, DavPulled
    <2> QED
      BY <1>1, <2>1, <2>2, QuietTags DEF DavPullPartly, atServer
  <1>2. ASSUME DavRequestFails \/ GoogleRequestFails
        PROVE  TagsOK'
    <2>1. JobEnds
      BY <1>2, <1>c, IdleTags
         DEF DavRequestFails, DavFailList, GoogleRequestFails, GoogleFailList
    <2> QED
      BY <1>2, <1>c, <2>1, QuietTags DEF DavRequestFails, GoogleRequestFails
  <1>3. ASSUME DavStop \/ GoogleStop
        PROVE  TagsOK'
    <2>1. JobEnds
      BY <1>3, <1>c, IdleTags DEF DavStop, GoogleStop
    <2> QED
      BY <1>3, <1>c, <2>1, QuietTags DEF DavStop, GoogleStop
  <1> QED
    BY <1>1, <1>2, <1>3, PollTags DEF Troubles, DavFaults, GoogleFaults

LEMMA OthersTags ==
    ASSUME TagsOK, Others
    PROVE  TagsOK'
  <1>c. /\ foreign \in 0..MaxForeign /\ MaxForeign \in Nat /\ commands \in 0..MaxCommands
        /\ faults \in 0..MaxFaults /\ collection \in BOOLEAN /\ list \in Lists(tag)
    BY TagsHas, TaskAssumption DEF CountersOK
  <1>1. /\ Foreign /\ Tagged /\ UNCHANGED <<list, job, again, rerun, commands, faults>>
        /\ collection' = collection \/ collection' = FALSE
    BY DEF Others, ForeignCreate, ForeignRemoveList, ForeignEdit, ForeignRemove
  <1>2. foreign' \in 0..MaxForeign
    BY <1>1, <1>c DEF Foreign
  <1>3. tag' \in Nat /\ tag' >= tag
    BY <1>1, TagGrows
  <1>4. CountersOK'
    BY <1>1, <1>2, <1>3, <1>c DEF CountersOK
  <1>5. JobEnds
    BY <1>1, SameJobTags, TagsHas
  <1> QED
    BY <1>1, <1>3, <1>4, <1>5, <1>c, TagsAgain

-----------------------------------------------------------------------------
\* The theorems.

LEMMA Types ==
    ASSUME TaskInv
    PROVE  TypeOK
  <1>w. /\ World(provider, server, rows, Held, lost, unheard, overtaken, newId, commands,
                 foreign, collection)
        /\ newId \in Nat /\ commands \in Nat /\ foreign \in Nat
        /\ provider \in {"caldav", "google"} /\ job.phase \in Phases
    BY InvHas DEF TaskInv, JobOK
  <1>t. /\ TagsOK /\ commands <= MaxCommands /\ foreign <= MaxForeign
        /\ MaxCommands \in Nat /\ MaxForeign \in Nat
    BY TaskAssumption, <1>w DEF TaskInv, TagsOK
  <1>1. Known(commands, foreign) \subseteq Contents
    <2>1. 0..commands \subseteq 0..MaxCommands /\ 0..(foreign + 1) \subseteq 0..(MaxForeign + 1)
      BY <1>w, <1>t
    <2> QED
      BY <2>1 DEF Known, Contents
  <1>2. /\ DOMAIN server \subseteq 1..newId
        /\ \A j \in DOMAIN server : server[j].c \in Contents /\ server[j].by \in RowIds
    <2>1. server \in [DOMAIN server -> ResourcesOf(commands, foreign)]
      BY <1>w DEF World, ServerOK
    <2>2. DOMAIN server \subseteq 1..newId
      BY <1>w DEF World, ServerOK
    <2> QED
      BY <2>1, <2>2, <1>1 DEF ResourcesOf
  <1>3. DOMAIN rows \subseteq RowIds /\ \A i \in DOMAIN rows : rows[i] \in Tasks
    <2>1. TasksOf(commands, foreign) \subseteq Tasks
      BY <1>1 DEF TasksOf, Tasks
    <2>2. rows \in [DOMAIN rows -> TasksOf(commands, foreign)] /\ DOMAIN rows \subseteq RowIds
      BY <1>w DEF World, RowsOK
    <2> QED
      BY <2>1, <2>2
  <1>4. \A i, k \in DOMAIN rows : rows[i].rid = rows[k].rid => i = k \/ rows[i].rid = None
    BY <1>w DEF World, RowsDistinct
  <1>5. list.token \subseteq 0..tag /\ list.stored \in BOOLEAN /\ list.enabled \in BOOLEAN
    BY <1>t DEF TagsOK
  <1> QED
    BY <1>w, <1>t, <1>2, <1>3, <1>4, <1>5 DEF TypeOK, TagsOK

LEMMA Minus ==
    ASSUME NEW n \in Int, n > 0, NEW q \in Int, q = -n
    PROVE  q \in RowIds /\ q \in (-n)..n /\ q # 0 /\ -q = n /\ q # n
  <1>1. q <= n /\ -n <= q /\ q # 0 /\ -q = n /\ q # n
    OBVIOUS
  <1> QED
    BY <1>1 DEF RowIds

LEMMA FirstTask ==
    ASSUME NEW p \in {"caldav", "google"}, NEW n \in Int, n = 1, NEW q \in Int, q = -n,
           NEW s, s = [j \in {1} |-> [c |-> FirstContent, by |-> q]],
           NEW t, t = [i \in {q} |-> [rid |-> 1, etag |-> FirstContent, raw |-> FirstContent,
                                      c |-> FirstContent, op |-> "", rev |-> 1]]
    PROVE  World(p, s, t, {}, {}, {}, {}, n, 0, 0, TRUE)
  <1> DEFINE r == [rid |-> 1, etag |-> FirstContent, raw |-> FirstContent,
                   c |-> FirstContent, op |-> "", rev |-> 1]
             d == [c |-> FirstContent, by |-> q]
  <1>0. FirstContent \in Known(0, 0) /\ FirstContent # NoContent /\ FirstContent.title = 0
    BY ONLY TRUE DEF FirstContent, Known, NoContent
  <1>m. q = -n /\ n = 1
    OBVIOUS
  <1>q. q \in RowIds /\ q \in (-n)..n /\ q # 0 /\ -q = n /\ q # n
    <2>1. n \in Int /\ q \in Int
      OBVIOUS
    <2>2. n > 0
      BY ONLY <1>m
    <2> QED
      BY ONLY <2>1, <2>2, <1>m, Minus
  <1>1. /\ DOMAIN s = {1} /\ s[1] = d /\ DOMAIN t = {q} /\ t[q] = r
    OBVIOUS
  <1>2. d \in ResourcesOf(0, 0) /\ r \in TasksOf(0, 0)
    BY <1>0, <1>q DEF ResourcesOf, TasksOf
  <1>3. s \in [DOMAIN s -> ResourcesOf(0, 0)] /\ t \in [DOMAIN t -> TasksOf(0, 0)]
    <2>1. s = [j \in {1} |-> d] /\ t = [i \in {q} |-> r]
      OBVIOUS
    <2> HIDE DEF r, d
    <2> QED
      BY ONLY <2>1, <1>1, <1>2
  <1>4. /\ r.rid = 1 /\ r.op = "" /\ r.c = FirstContent /\ r.raw = FirstContent
        /\ r.etag = FirstContent /\ d.c = FirstContent /\ d.by = q
    OBVIOUS
  <1>n. r.rid = 1
    OBVIOUS
  <1> HIDE DEF r, d
  <1>5. ServerOK(p, s, n, 0, 0)
    <2>1. \A j \in DOMAIN s : j = 1 /\ s[j].by = q
      BY ONLY <1>1, <1>4
    <2>2. \A j \in DOMAIN s : j \in 1..n /\ s[j].by \in (-n)..n /\ s[j].by \in {j, -j}
      BY ONLY <2>1, <1>q, <1>m
    <2> QED
      BY ONLY <2>2, <1>3 DEF ServerOK
  <1>6. RowsOK(p, t, n, 0, 0)
    <2>1. TaskOK(p, q, r)
      <3>1. r.rid # None /\ r.rid = -q
        BY ONLY <1>n, <1>q, <1>m DEF None
      <3> QED
        BY <3>1, <1>4 DEF TaskOK
    <2>2. \A i \in DOMAIN t : i = q /\ t[i] = r
      BY ONLY <1>1
    <2>3. r.rid <= n
      BY ONLY <1>n, <1>m
    <2> QED
      BY ONLY <2>1, <2>2, <2>3, <1>q, <1>3 DEF RowsOK
  <1>7. \A i \in DOMAIN t : i = q /\ t[i].rid = 1 /\ t[i].rid # None
    BY ONLY <1>1, <1>n DEF None
  <1>8. \A j \in DOMAIN s : j = 1 /\ s[j].by = q
    BY ONLY <1>1, <1>4
  <1>9. RowsDistinct(t) /\ NoTwin(p, t)
    <2>1. -q # q
      BY ONLY <1>q
    <2> QED
      BY ONLY <2>1, <1>7 DEF RowsDistinct, NoTwin
  <1>10. SameTitle(p, s, t, {}) /\ OneEach(p, s, {})
    BY ONLY <1>1, <1>4, <1>7, <1>8 DEF SameTitle, OneEach
  <1>11. RowKnows(p, s, t, {}, {}) /\ Unclaimed(s, t)
    BY ONLY <1>7, <1>8 DEF RowKnows, Unclaimed
  <1>12. OwnName(p, s, t) /\ PulledKnows(s, t, {})
    BY ONLY <1>7, <1>8 DEF OwnName, PulledKnows
  <1>13. TitlesOwned(p, s, t, {})
    BY ONLY <1>7 DEF TitlesOwned
  <1>14. RowNotes(p, t, {}) /\ RowsChange(p, t)
    BY ONLY <1>1, <1>4 DEF RowNotes, RowsChange, NotesOK, Changes
  <1>15. /\ CopiesOK(p, {}, n, 0, 0) /\ CopiesFollow(p, t, {}) /\ CopiesHaveRows(t, {}, TRUE)
         /\ CopiesDistinct(t, {}, TRUE) /\ CopiesUnclaimed(s, t, {})
         /\ CopyRecognises(p, s, {}, {}) /\ CopyMatched(p, s, t, {}, {})
         /\ CopyNotes(p, {}, {}) /\ OvertakenSeen(p, t, {}, {})
    BY DEF CopiesOK, CopiesFollow, CopiesHaveRows, CopiesDistinct, CopiesUnclaimed,
           CopyRecognises, CopyMatched, CopyNotes, OvertakenSeen
  <1>16. n \in Nat /\ 0 \in Nat
    BY ONLY <1>m
  <1> QED
    BY <1>5, <1>6, <1>9, <1>10, <1>11, <1>12, <1>13, <1>14, <1>15, <1>16 DEF World

LEMMA TasksBegin == Init => TaskInv
  <1> SUFFICES ASSUME Init
               PROVE  TaskInv
    OBVIOUS
  <1>1. TagsOK
    <2>0. /\ tag = 0 /\ collection = TRUE /\ again = FALSE /\ rerun = FALSE
          /\ commands = 0 /\ foreign = 0 /\ faults = 0
          /\ list = [stored |-> TRUE, enabled |-> TRUE, token |-> {tag}]
      BY DEF Init
    <2>1. commands \in 0..MaxCommands /\ foreign \in 0..MaxForeign /\ faults \in 0..MaxFaults
      BY <2>0, TaskAssumption
    <2>2. job.ctag = {} /\ job.token = {} /\ job.enabled = TRUE
      BY DEF Init, IdleJob
    <2>3. {tag} \in SUBSET (0..tag) /\ tag \in Nat
      BY <2>0
    <2>4. list \in [stored : BOOLEAN, enabled : BOOLEAN, token : SUBSET (0..tag)]
      BY <2>0, <2>3
    <2> QED
      BY <2>0, <2>1, <2>2, <2>3, <2>4 DEF TagsOK
  <1>j. /\ IsJob(job) /\ job.writes = {} /\ job.cur = NoWrite /\ job.phase = "idle"
    BY DEF Init, IsJob, IdleJob
  <1>2. World(provider, server, rows, {}, lost, unheard, overtaken, newId, commands, foreign,
              collection)
    <2>h. provider \in {"caldav", "google"} /\ lost = {} /\ unheard = {} /\ overtaken = {}
          /\ commands = 0 /\ foreign = 0 /\ collection = TRUE
      BY DEF Init, lost
    <2>c. /\ CopiesOK(provider, {}, newId, commands, foreign)
          /\ CopiesFollow(provider, rows, {}) /\ CopiesHaveRows(rows, {}, collection)
          /\ CopiesDistinct(rows, {}, collection) /\ CopiesUnclaimed(server, rows, {})
          /\ CopyRecognises(provider, server, {}, lost) /\ CopyMatched(provider, server, rows, {}, lost)
          /\ CopyNotes(provider, {}, overtaken) /\ OvertakenSeen(provider, rows, {}, overtaken)
      BY DEF CopiesOK, CopiesFollow, CopiesHaveRows, CopiesDistinct, CopiesUnclaimed,
             CopyRecognises, CopyMatched, CopyNotes, OvertakenSeen
    <2>1. ASSUME server = Empty, rows = Empty, newId = 0
          PROVE  World(provider, server, rows, {}, lost, unheard, overtaken, newId, commands,
                       foreign, collection)
      <3>1. DOMAIN server = {} /\ DOMAIN rows = {}
        BY <2>1 DEF Empty
      <3>2. /\ server \in [DOMAIN server -> ResourcesOf(commands, foreign)]
            /\ rows \in [DOMAIN rows -> TasksOf(commands, foreign)]
        BY <2>1 DEF Empty
      <3>3. /\ ServerOK(provider, server, newId, commands, foreign)
            /\ RowsOK(provider, rows, newId, commands, foreign)
        BY <3>1, <3>2 DEF ServerOK, RowsOK
      <3>4. RowsDistinct(rows) /\ NoTwin(provider, rows) /\ SameTitle(provider, server, rows, lost)
            /\ OneEach(provider, server, lost) /\ RowKnows(provider, server, rows, lost, unheard)
            /\ Unclaimed(server, rows) /\ OwnName(provider, server, rows)
            /\ PulledKnows(server, rows, {}) /\ TitlesOwned(provider, server, rows, {})
            /\ RowNotes(provider, rows, overtaken) /\ RowsChange(provider, rows)
        BY <3>1 DEF RowsDistinct, NoTwin, SameTitle, OneEach, RowKnows, Unclaimed, OwnName,
                    PulledKnows, TitlesOwned, RowNotes, RowsChange
      <3>5. newId \in Nat /\ commands \in Nat /\ foreign \in Nat
        BY <2>1, <2>h
      <3> QED
        BY <2>h, <2>c, <2>1, <3>3, <3>4, <3>5 DEF World
    <2>2. ASSUME server = [j \in {1} |-> [c |-> FirstContent, by |-> Pulled(1)]],
                 rows = [i \in {Pulled(1)} |->
                           [rid |-> 1, etag |-> FirstContent, raw |-> FirstContent,
                            c |-> FirstContent, op |-> "", rev |-> 1]],
                 newId = 1
          PROVE  World(provider, server, rows, {}, lost, unheard, overtaken, newId, commands,
                       foreign, collection)
      <3>2. World(provider, server, rows, {}, {}, {}, {}, newId, 0, 0, TRUE)
        <4>0. newId = 1
          BY <2>2
        <4>1. newId = 1 /\ newId \in Int
          BY ONLY <4>0
        <4>2. Pulled(1) \in Int
          BY ONLY TRUE DEF Pulled
        <4>3. Pulled(1) = -newId
          BY ONLY <4>1, <4>2 DEF Pulled
        <4> QED
          BY <2>2, <2>h, <4>1, <4>2, <4>3, FirstTask
      <3> QED
        BY ONLY <3>2, <2>2, <2>h
    <2> QED
      BY <2>1, <2>2 DEF Init
  <1>3. JobWorld(provider, server, rows, job, lost, unheard, overtaken, newId, commands,
                 foreign, collection)
    BY ONLY <1>j, <1>2, WithoutCopies
  <1> QED
    BY <1>1, <1>3 DEF TaskInv, JobWorldInv

LEMMA TasksStutter == TaskInv /\ UNCHANGED vars => TaskInv'
  <1> SUFFICES ASSUME TaskInv, UNCHANGED vars
               PROVE  TaskInv'
    OBVIOUS
  <1>1. TagsOK'
    BY DEF TaskInv, TagsOK, vars, Busy
  <1>2. JobWorldInv'
    BY InvPrime DEF TaskInv, JobWorldInv, vars, lost
  <1> QED
    BY <1>1, <1>2 DEF TaskInv

\* Every step keeps the invariant, and with it what the actions promise.
LEMMA TasksStep == TaskInv /\ Next => TaskInv' /\ StepOK
  <1> SUFFICES ASSUME TaskInv, Next
               PROVE  TaskInv' /\ StepOK
    OBVIOUS
  <1>i. TagsOK /\ JobWorldInv
    BY DEF TaskInv
  <1>1. CASE User
    <2>1. JobWorldInv' /\ StepOK
      BY <1>1, <1>i, CreateStep, UpdateStep, RemoveStep, EnabledStep DEF User
    <2> QED
      BY <1>1, <1>i, <2>1, UserTags DEF TaskInv
  <1>2. CASE Poll
    <2>1. JobWorldInv' /\ StepOK
      BY <1>2, <1>i, DavPollStep, DavListGoneStep, GooglePollStep DEF Poll
    <2> QED
      BY <1>2, <1>i, <2>1, PollTags DEF TaskInv
  <1>3. CASE JobStep
    <2>1. CASE provider = "caldav" /\ DavJob
      <3>1. JobWorldInv' /\ StepOK
        BY <2>1, <1>i, DavCreateStep, DavPutStep, DavMergeStep, DavDeleteStep, DavRereadStep,
           DavPullStep DEF DavJob
      <3> QED
        BY <2>1, <1>i, <3>1, DavJobTags DEF TaskInv
    <2>2. CASE provider = "google" /\ GoogleJob
      <3>1. JobWorldInv' /\ StepOK
        BY <2>2, <1>i, GoogleListsStep, GoogleReconcileStep, GoogleCreateStep,
           GooglePatchStep, GoogleDeleteStep, GooglePullStep DEF GoogleJob
      <3> QED
        BY <2>2, <1>i, <3>1, GoogleJobTags DEF TaskInv
    <2> QED
      BY <1>3, <2>1, <2>2 DEF JobStep
  <1>4. CASE Rerun
    <2>1. JobWorldInv' /\ StepOK
      BY <1>4, <1>i, DavPollStep, GooglePollStep DEF Rerun
    <2> QED
      BY <1>4, <1>i, <2>1, PollTags DEF TaskInv
  <1>5. CASE Troubles
    <2>1. JobWorldInv' /\ StepOK
      BY <1>5, <1>i, DavPullStep, DavTroubleStep, DavPollStep, GoogleTroubleStep
         DEF Troubles, DavFaults, GoogleFaults
    <2> QED
      BY <1>5, <1>i, <2>1, TroubleTags DEF TaskInv
  <1>6. CASE Others
    BY <1>6, <1>i, OthersStep, OthersTags DEF TaskInv
  <1> QED
    BY <1>1, <1>2, <1>3, <1>4, <1>5, <1>6 DEF Next

THEOREM TaskInvCorrect == Spec => []TaskInv
  <1>1. TaskInv /\ [Next]_vars => TaskInv'
    BY TasksStutter, TasksStep
  <1> QED
    BY <1>1, TasksBegin, PTL DEF Spec

\* The tables, the job and the timers have their types, and no two rows have one remote id
\* (the unique index of the tasks table, databasetasks.cpp).
THEOREM TaskTypeCorrect == Spec => []TypeOK
  <1>1. TaskInv => TypeOK
    BY Types
  <1> QED
    BY <1>1, TaskInvCorrect, PTL

\* A task of the user is one task at the server, for every number of commands, of writes
\* of other clients and of faults: a create that was not heard of is recognised by its name
\* (CalDAV) or its content (Google, reconcileCreates).  At Google this leaves out the tasks
\* that were changed since, by the user or another client, and those created a second time
\* because their first resource was gone, which are not looked for.
THEOREM OneResourcePerTaskCorrect == Spec => []OneResourcePerTask
  <1>1. TaskInv => OneResourcePerTask
    <2> SUFFICES ASSUME TaskInv
                 PROVE  OneResourcePerTask
      OBVIOUS
    <2>1. OneEach(provider, server, lost)
      BY InvHas DEF TaskInv, World
    <2> QED
      BY <2>1 DEF OneResourcePerTask, OneEach, lost
  <1> QED
    BY <1>1, TaskInvCorrect, PTL

\* No step of the synchronisation changes the title the user gave a task
\* (completeTaskWrite, applyRemoteTasks), but for a CalDAV task that was edited after its
\* create was carried out unheard.
THEOREM EditKeptCorrect == Spec => EditKept
  <1> DEFINE Kept == \A i \in DOMAIN rows \cap DOMAIN rows' :
                       \/ rows'[i].c.title = rows[i].c.title \/ commands' # commands
                       \/ provider = "caldav" /\ i \in edited
  <1>1. TaskInv /\ [Next]_vars => [Kept]_vars
    <2>1. StepOK => Kept
      BY DEF StepOK, TitlesKept, lost
    <2> QED
      BY <2>1, TasksStep
  <1>2. Spec => [][Kept]_vars
    <2> HIDE DEF Kept
    <2> QED
      BY <1>1, TaskInvCorrect, PTL DEF Spec
  <1> QED
    BY <1>2 DEF EditKept

\* No write of a CalDAV job puts older notes over those of another client, unless an edit
\* overtook the upload (mergeEdit).
THEOREM OtherFieldKeptCorrect == Spec => OtherFieldKept
  <1> DEFINE Kept == \A j \in DOMAIN server \cap DOMAIN server' :
                       \/ server'[j].c.notes >= server[j].c.notes
                       \/ provider = "google" \/ server[j].by \in overtaken
                       \/ \E i \in overtaken : i \in RowOf(rows, j)
  <1>1. TaskInv /\ [Next]_vars => [Kept]_vars
    <2>1. ASSUME TaskInv, StepOK
          PROVE  Kept
      <3>1. provider = "caldav" \/ provider = "google"
        BY <2>1, InvHas DEF TaskInv
      <3> QED
        BY <2>1, <3>1 DEF StepOK, NotesKept, RowOf
    <2> QED
      BY <2>1, TasksStep
  <1>2. Spec => [][Kept]_vars
    <2> HIDE DEF Kept
    <2> QED
      BY <1>1, TaskInvCorrect, PTL DEF Spec
  <1> QED
    BY <1>2 DEF OtherFieldKept

\* A row leaves the table only when no resource of its task is at the server
\* (removeLocalTask), but for a task whose create was carried out unheard: at CalDAV if it
\* was not told of it yet, at Google if it was changed since or created a second time.
THEOREM RemovalReachesServerCorrect == Spec => RemovalReachesServer
  <1> DEFINE Reached == \A i \in DOMAIN rows \ DOMAIN rows' :
                \/ ~\E j \in DOMAIN server' : server'[j].by = i \/ j = rows[i].rid
                \/ provider = "caldav" /\ Missing(i)
                \/ provider = "google" /\ i \in edited \cup altered \cup recreated
  <1>1. TaskInv /\ [Next]_vars => [Reached]_vars
    <2>1. StepOK => Reached
      BY DEF StepOK, RemovalsReached, Missing, lost
    <2> QED
      BY <2>1, TasksStep
  <1>2. Spec => [][Reached]_vars
    <2> HIDE DEF Reached
    <2> QED
      BY <1>1, TaskInvCorrect, PTL DEF Spec
  <1> QED
    BY <1>2 DEF RemovalReachesServer
==============================================================================
