-------------------------- MODULE AccountMoveProofs --------------------------
(***************************************************************************)
(* Proofs about the move of an event between two accounts, for every       *)
(* number of operations, edits, commands, faults and restarts.             *)
(*                                                                         *)
(*   MoveInv is inductive.  What a removal waits for is not enough to say  *)
(*   that it waits: a discard of its prerequisite satisfies DependencyMet, *)
(*   and it is the blocked state given to the removal with the discard     *)
(*   that holds it back until the user decides (SourceOK).  That an event  *)
(*   never stays hidden rests on the shape of its queue (ChainOK): a row   *)
(*   behind an unfinished one has not been sent and waits for it, so the   *)
(*   newest row is the removal (HiddenOK) and is finished last.            *)
(***************************************************************************)
EXTENDS AccountMove, OutboxProofs

\* What an engine remembers of its request.
FlightRecords == [op : OpIds, removal : BOOLEAN, outcome : Outcomes]

\* A request is about the row it was sent for, as long as that row is there.
FlightOK ==
    \A e \in DOMAIN flight :
        /\ flight[e].op < nextOp
        /\ flight[e].op \in DOMAIN outbox =>
             /\ outbox[flight[e].op].event = e
             /\ outbox[flight[e].op].state = "sending"
             /\ flight[e].removal = (outbox[flight[e].op].op = "remove")

\* A row behind an unfinished one of its event was not sent, and waits for it.
ChainOK ==
    \A o, p \in DOMAIN outbox :
        /\ p < o /\ outbox[o].event = outbox[p].event
        /\ outbox[o].state \in ActiveStates /\ outbox[p].state \in ActiveStates
        => outbox[o].state \in QueuedStates /\ outbox[o].dep = p

\* The newest unfinished row of a hidden event removes it.
HiddenOK ==
    \A e \in DOMAIN events : events[e].deleted =>
        \E o \in ActiveOps(e) : IsNewest(o, ActiveOps(e)) /\ outbox[o].op = "remove"

\* The removal of the source waits for the unfinished creation of the copy, or is
\* blocked, or was discarded; the creation is the copy's first row.
SourceRowOK(o) ==
    /\ outbox[o].state # "sending"
    /\ outbox[o].dep \in DOMAIN outbox
    /\ outbox[outbox[o].dep].event = Target
    /\ outbox[outbox[o].dep].state = "done" => outbox[o].state \in {"blocked", "done"}

\* A row of the copy creates it, or at a provider edits it.
TargetRowOK(o) ==
    /\ outbox[o].op # "remove"
    /\ Target \notin remote => outbox[o].op = "create"

\* The copy has not arrived and the user has not given it up.
Undecided == ~arrived /\ released = {}

\* Until the copy is there or the user gives it up, nothing is sent for the
\* source, and no request for the copy was carried out.
SourceOK ==
    Undecided =>
        /\ Source \in DOMAIN events
        /\ Source \in remote => Source \in held
        /\ Source \notin DOMAIN flight
        /\ \A e \in DOMAIN flight : ~flight[e].removal /\ flight[e].outcome # "applied"
        /\ \A o \in DOMAIN outbox :
              /\ outbox[o].event = Source => SourceRowOK(o)
              /\ outbox[o].event = Target => TargetRowOK(o)

\* The inductive invariant of a move.
MoveInv ==
    /\ MoveTypeOK /\ DependencyOrder /\ FlightOK
    /\ ChainOK /\ HiddenOK /\ SourceOK

-----------------------------------------------------------------------------
\* What the rows, the events and the requests are.
LEMMA RowIs ==
    ASSUME TypeOK, NEW o \in DOMAIN outbox
    PROVE  /\ o \in OpIds /\ o \in Nat /\ o # None
           /\ outbox[o] \in OutboxRows /\ outbox[o].event \in DOMAIN events
           /\ outbox[o].state \in ActiveStates \cup {"done"}
           /\ outbox[o].op \in Operations
           /\ outbox[o].dep \in Nat
           /\ outbox[o].event = Source \/ outbox[o].event = Target
<1>1. o \in OpIds /\ outbox[o] \in OutboxRows /\ outbox[o].event \in DOMAIN events
  BY DEF TypeOK, OutboxOK
<1>2. OpIds \subseteq Nat /\ None \in Nat /\ None \notin OpIds
  BY StoreAssumption DEF OpIds, None
<1>3. outbox[o].event \in {Source, Target}
  BY <1>1, MoveAssumption DEF OutboxRows
<1> QED
  BY <1>1, <1>2, <1>3 DEF OutboxRows

\* What the states are that the store tells apart.
LEMMA StatesAre ==
    /\ "done" \notin ActiveStates /\ QueuedStates \subseteq ActiveStates
    /\ "sending" \in ActiveStates /\ "sending" \notin QueuedStates
    /\ "blocked" \in ActiveStates /\ "blocked" \notin QueuedStates
    /\ "pending" \in QueuedStates /\ "retry_wait" \in QueuedStates
    /\ \A state \in ActiveStates : state \in QueuedStates \cup {"sending", "blocked"}
  BY DEF ActiveStates, QueuedStates

\* No row is new or finished no more, and none that is behind an unfinished one
\* leaves the queue for another state.
LEMMA ChainKept ==
    ASSUME TypeOK, ChainOK, DOMAIN outbox' \subseteq DOMAIN outbox,
           \A o \in DOMAIN outbox' :
              /\ outbox'[o].event = outbox[o].event /\ outbox'[o].dep = outbox[o].dep
              /\ outbox'[o].state \in ActiveStates => outbox[o].state \in ActiveStates
              /\ \/ outbox[o].state \notin QueuedStates
                 \/ outbox'[o].state \in QueuedStates
                 \/ outbox'[o].state \notin ActiveStates
                 \/ \A p \in DOMAIN outbox' :
                       p < o /\ outbox[p].event = outbox[o].event
                       => outbox'[p].state \notin ActiveStates
    PROVE  ChainOK'
  BY DEF ChainOK

\* A hidden event was hidden before, and its removal stays.
LEMMA HiddenKept ==
    ASSUME TypeOK, HiddenOK, DOMAIN outbox' \subseteq DOMAIN outbox,
           \A o \in DOMAIN outbox' :
              /\ outbox'[o].event = outbox[o].event
              /\ outbox'[o].state \in ActiveStates => outbox[o].state \in ActiveStates,
           \A e \in DOMAIN events' : events'[e].deleted =>
              /\ e \in DOMAIN events /\ events[e].deleted
              /\ \A o \in ActiveOps(e) :
                    IsNewest(o, ActiveOps(e)) /\ outbox[o].op = "remove" =>
                       /\ o \in DOMAIN outbox' /\ outbox'[o].state \in ActiveStates
                       /\ outbox'[o].op = "remove"
    PROVE  HiddenOK'
<1> SUFFICES ASSUME NEW e \in DOMAIN events', events'[e].deleted
             PROVE  \E o \in ActiveOps(e)' :
                      IsNewest(o, ActiveOps(e)') /\ outbox'[o].op = "remove"
  BY DEF HiddenOK, IsNewest
<1>1. PICK o \in ActiveOps(e) : IsNewest(o, ActiveOps(e)) /\ outbox[o].op = "remove"
  BY DEF HiddenOK
<1>2. /\ o \in DOMAIN outbox' /\ outbox'[o].state \in ActiveStates
      /\ outbox'[o].op = "remove"
  BY <1>1
<1>3. ActiveOps(e)' \subseteq ActiveOps(e)
  BY DEF ActiveOps, OpsOf
<1>4. o \in ActiveOps(e)'
  BY <1>1, <1>2 DEF ActiveOps, OpsOf
<1> QED
  BY <1>1, <1>2, <1>3, <1>4 DEF IsNewest
-----------------------------------------------------------------------------
(* The queue through each transaction of the store.                        *)

\* The part of it that every transaction of the store keeps by itself.
StoreInv == TypeOK /\ DependencyOrder /\ ChainOK /\ HiddenOK

\* No unfinished row of its event was queued before row o.
First(o) ==
    \A p \in DOMAIN outbox :
        p < o /\ outbox[p].event = outbox[o].event => outbox[p].state \notin ActiveStates

\* A row that was sent, is blocked, or may be sent is the first one.
LEMMA FirstIs ==
    ASSUME StoreInv, NEW o \in DOMAIN outbox, outbox[o].state \in ActiveStates,
           outbox[o].state \notin QueuedStates \/ DependencyMet(o)
    PROVE  First(o)
<1> SUFFICES ASSUME NEW p \in DOMAIN outbox, p < o, outbox[p].event = outbox[o].event,
                    outbox[p].state \in ActiveStates
             PROVE  FALSE
  BY DEF First
<1>1. outbox[o].state \in QueuedStates /\ outbox[o].dep = p
  BY DEF StoreInv, ChainOK
<1>2. p # None /\ outbox[p].state # "done"
  BY RowIs, StatesAre DEF StoreInv
<1> QED
  BY <1>1, <1>2 DEF DependencyMet

\* A row keeps everything but its state, its deadlines and its payload.
SameRow(p) ==
    /\ outbox'[p].event = outbox[p].event /\ outbox'[p].dep = outbox[p].dep
    /\ outbox'[p].op = outbox[p].op

\* What updateOutboxState does to the rows.
LEMMA SetStateIs ==
    ASSUME TypeOK, NEW o, NEW state, SetState(o, state), NEW p \in DOMAIN outbox
    PROVE  /\ SameRow(p)
           /\ outbox'[p].state = IF p = o THEN state ELSE outbox[p].state
<1>1. outbox[p] \in OutboxRows
  BY DEF TypeOK, OutboxOK
<1> QED
  BY <1>1 DEF SetState, SameRow, OutboxRows

\* What discardOutbox does to the rows.
LEMMA DiscardIs ==
    ASSUME TypeOK, NEW o, Discard(o), NEW p \in DOMAIN outbox
    PROVE  /\ SameRow(p)
           /\ outbox'[p].state =
                IF p = o THEN "done"
                ELSE IF outbox[p].dep = o
                        /\ outbox[p].state \in QueuedStates \cup {"blocked"}
                THEN "blocked" ELSE outbox[p].state
<1>1. outbox[p] \in OutboxRows
  BY DEF TypeOK, OutboxOK
<1> QED
  BY <1>1 DEF Discard, SameRow, OutboxRows

\* What a deadline or a restart does to the rows.
LEMMA QueueIs ==
    ASSUME TypeOK, Recover \/ \E o : GraceOver(o) \/ BackoffOver(o),
           NEW p \in DOMAIN outbox
    PROVE  /\ SameRow(p)
           /\ \/ outbox'[p].state = outbox[p].state
              \/ outbox[p].state = "sending" /\ outbox'[p].state = "pending"
<1>1. outbox[p] \in OutboxRows
  BY DEF TypeOK, OutboxOK
<1>2. CASE Recover
  BY <1>1, <1>2 DEF Recover, SameRow, OutboxRows
<1>3. ASSUME NEW o, GraceOver(o) \/ BackoffOver(o)
      PROVE  SameRow(p) /\ outbox'[p].state = outbox[p].state
  BY <1>1, <1>3 DEF GraceOver, BackoffOver, SameRow, OutboxRows
<1> QED
  BY <1>2, <1>3

\* What is folded into a row that was not sent.
LEMMA CoalesceIs ==
    ASSUME NEW e, NEW o, NEW row, NEW op, Coalesce(e, o, row, op)
    PROVE  /\ o \in DOMAIN outbox /\ outbox[o].event = e
           /\ outbox[o].state \in QueuedStates
           /\ DOMAIN outbox' = DOMAIN outbox
           /\ \A p \in DOMAIN outbox \ {o} : outbox'[p] = outbox[p]
           /\ outbox'[o].event = e /\ outbox'[o].dep = outbox[o].dep
           /\ outbox'[o].state = "pending"
           /\ outbox'[o].op = IF outbox[o].op = "create" THEN "create" ELSE op
<1>1. /\ IsNewest(o, QueuedOps(e))
      /\ outbox' =
            [outbox EXCEPT ![o] =
                [QueueRow(e, op, row, outbox[o].dep)
                    EXCEPT !.op = IF outbox[o].op = "create" THEN "create" ELSE op]]
  BY DEF Coalesce
<1>2. /\ o \in DOMAIN outbox /\ outbox[o].event = e
      /\ outbox[o].state \in QueuedStates
  BY <1>1 DEF IsNewest, QueuedOps, OpsOf
<1> QED
  BY <1>1, <1>2 DEF QueueRow

\* What is queued behind the rows of an event.
LEMMA EnqueueIs ==
    ASSUME TypeOK, DependencyOrder, NEW e, NEW dep, NEW row, NEW op,
           Enqueue(e, dep, row, op)
    PROVE  /\ nextOp \in Nat /\ nextOp \notin DOMAIN outbox
           /\ DOMAIN outbox' = DOMAIN outbox \cup {nextOp}
           /\ \A p \in DOMAIN outbox : outbox'[p] = outbox[p]
           /\ outbox'[nextOp].event = e /\ outbox'[nextOp].dep = dep
           /\ outbox'[nextOp].state = "pending" /\ outbox'[nextOp].op = op
<1>1. nextOp \in Nat /\ nextOp \notin DOMAIN outbox
  BY RowIs DEF DependencyOrder, TypeOK, CountersOK
<1>2. /\ DOMAIN outbox' = DOMAIN outbox \cup {nextOp}
      /\ \A p \in DOMAIN outbox : outbox'[p] = outbox[p]
      /\ outbox'[nextOp] = QueueRow(e, op, row, dep)
  BY <1>1 DEF Enqueue, Put
<1> QED
  BY <1>1, <1>2 DEF QueueRow

\* An event goes with its rows.
LEMMA DeleteEventKeeps ==
    ASSUME StoreInv, NEW e, DeleteEvent(e), UNCHANGED <<nextOp, edits>>
    PROVE  StoreInv'
<1> USE DEF StoreInv
<1>1. TypeOK'
  BY DeleteEventParts DEF TypeOK, CountersOK
<1>2. DependencyOrder'
  BY DeleteEventOrder, NoNewDependencyOrder
<1>3. /\ DOMAIN outbox' = DOMAIN outbox \ OpsOf(e)
      /\ \A o \in DOMAIN outbox' : outbox'[o] = outbox[o]
      /\ DOMAIN events' = DOMAIN events \ {e}
      /\ \A f \in DOMAIN events' : events'[f] = events[f]
  BY DEF DeleteEvent, Restrict
<1>4. ChainOK'
  BY <1>3, ChainKept
<1>5. HiddenOK'
  <2>1. ASSUME NEW f \in DOMAIN events', events'[f].deleted,
               NEW o \in ActiveOps(f), outbox[o].op = "remove"
        PROVE  /\ o \in DOMAIN outbox' /\ outbox'[o].state \in ActiveStates
               /\ outbox'[o].op = "remove"
    BY <2>1, <1>3 DEF ActiveOps, OpsOf
  <2> QED
    BY <1>3, <2>1, HiddenKept
<1> QED
  BY <1>1, <1>2, <1>4, <1>5

\* updateOutboxState of an unfinished row; only a first row leaves the queue.
LEMMA SetStateKeeps ==
    ASSUME StoreInv, NEW o \in DOMAIN outbox, outbox[o].state \in ActiveStates,
           NEW state \in ActiveStates, state \in QueuedStates \/ First(o),
           SetState(o, state)
    PROVE  StoreInv'
<1> USE DEF StoreInv
<1>1. TypeOK'
  BY SetStateType
<1>2. UNCHANGED <<events, nextOp>> /\ DOMAIN outbox' = DOMAIN outbox
  BY DEF SetState
<1>3. \A p \in DOMAIN outbox :
        /\ SameRow(p)
        /\ outbox'[p].state = IF p = o THEN state ELSE outbox[p].state
  BY SetStateIs
<1> USE DEF SameRow
<1>4. DependencyOrder'
  BY <1>2, <1>3, NoNewDependencyOrder DEF NoNewDependency
<1>5. ChainOK'
  BY <1>2, <1>3, ChainKept DEF First
<1>6. HiddenOK'
  BY <1>2, <1>3, HiddenKept DEF ActiveOps, OpsOf
<1> QED
  BY <1>1, <1>4, <1>5, <1>6

\* discardOutbox: a discarded removal shows its event again, any other row is
\* not the newest one of a hidden event.
LEMMA DiscardKeeps ==
    ASSUME StoreInv, NEW o, Discard(o)
    PROVE  StoreInv'
<1> USE DEF StoreInv
<1>1. TypeOK'
  BY DiscardType
<1>2. /\ o \in DOMAIN outbox /\ UNCHANGED nextOp /\ DOMAIN outbox' = DOMAIN outbox
      /\ outbox[o].event \in DOMAIN events /\ events[outbox[o].event] \in EventRows
  BY DEF Discard, TypeOK, OutboxOK, EventsOK
<1>3. \A p \in DOMAIN outbox :
        /\ SameRow(p)
        /\ outbox'[p].state =
             IF p = o THEN "done"
             ELSE IF outbox[p].dep = o /\ outbox[p].state \in QueuedStates \cup {"blocked"}
             THEN "blocked" ELSE outbox[p].state
  BY DiscardIs
<1> USE DEF SameRow
<1>4. DependencyOrder'
  BY <1>2, <1>3, NoNewDependencyOrder DEF NoNewDependency
<1>5. ChainOK'
  <2> SUFFICES ASSUME NEW p \in DOMAIN outbox, NEW q \in DOMAIN outbox,
                      q < p, outbox[p].event = outbox[q].event,
                      outbox'[p].state \in ActiveStates, outbox'[q].state \in ActiveStates
               PROVE  outbox'[p].state \in QueuedStates /\ outbox[p].dep = q
    BY <1>2, <1>3 DEF ChainOK
  <2>1. p # o /\ q # o
    BY <1>3, StatesAre
  <2>2. outbox[p].state \in ActiveStates /\ outbox[q].state \in ActiveStates
    BY <1>3, <2>1, StatesAre
  <2>3. outbox[p].state \in QueuedStates /\ outbox[p].dep = q
    BY <2>2 DEF ChainOK
  <2> QED
    BY <1>3, <2>1, <2>3
<1>6. HiddenOK'
  <2>1. CASE outbox[o].op = "remove"
    <3>1. /\ DOMAIN events' = DOMAIN events /\ ~events'[outbox[o].event].deleted
          /\ \A e \in DOMAIN events \ {outbox[o].event} : events'[e] = events[e]
      BY <1>2, <2>1 DEF Discard, EventRows
    <3>2. ASSUME NEW e \in DOMAIN events', events'[e].deleted, NEW p \in ActiveOps(e),
                 outbox[p].op = "remove"
          PROVE  /\ p \in DOMAIN outbox' /\ outbox'[p].state \in ActiveStates
                 /\ outbox'[p].op = "remove"
      <4>1. p # o /\ p \in DOMAIN outbox /\ outbox[p].state \in ActiveStates
        BY <3>1, <3>2 DEF ActiveOps, OpsOf
      <4> QED
        BY <1>2, <1>3, <3>2, <4>1, StatesAre
    <3>3. \A e \in DOMAIN events' : events'[e].deleted =>
             e \in DOMAIN events /\ events[e].deleted
      BY <3>1
    <3>4. \A p \in DOMAIN outbox' :
            /\ outbox'[p].event = outbox[p].event
            /\ outbox'[p].state \in ActiveStates => outbox[p].state \in ActiveStates
      BY <1>2, <1>3, StatesAre
    <3> QED
      BY <1>2, <3>2, <3>3, <3>4, HiddenKept
  <2>2. CASE outbox[o].op # "remove"
    <3>1. events' = events
      BY <2>2 DEF Discard
    <3>2. ASSUME NEW e \in DOMAIN events, NEW p \in ActiveOps(e),
                 outbox[p].op = "remove"
          PROVE  /\ p \in DOMAIN outbox' /\ outbox'[p].state \in ActiveStates
                 /\ outbox'[p].op = "remove"
      <4>1. p # o /\ p \in DOMAIN outbox /\ outbox[p].state \in ActiveStates
        BY <2>2, <3>2 DEF ActiveOps, OpsOf
      <4> QED
        BY <1>2, <1>3, <3>2, <4>1, StatesAre
    <3>3. \A p \in DOMAIN outbox' :
            /\ outbox'[p].event = outbox[p].event
            /\ outbox'[p].state \in ActiveStates => outbox[p].state \in ActiveStates
      BY <1>2, <1>3, StatesAre
    <3> QED
      BY <1>2, <3>1, <3>2, <3>3, HiddenKept
  <2> QED
    BY <2>1, <2>2
<1> QED
  BY <1>1, <1>4, <1>5, <1>6

\* completeOutbox of the first row: of a hidden event another row is the newest,
\* or the row is the removal, and takes the event with it.
LEMMA AcknowledgeKeeps ==
    ASSUME StoreInv, NEW o \in DOMAIN outbox, outbox[o].state \in ActiveStates, First(o),
           \/ AcknowledgeRemoval(o)
           \/ \E v \in Versions : Acknowledge(o, v)
    PROVE  StoreInv'
<1> USE DEF StoreInv
<1> DEFINE e == outbox[o].event
<1>1. TypeOK'
  BY AcknowledgeType, AcknowledgeRemovalType
<1>2. UNCHANGED <<nextOp, edits>>
  BY DEF Acknowledge, AcknowledgeRemoval
<1>3. CASE Purges(o)
  <2>1. DeleteEvent(e)
    BY <1>3 DEF Acknowledge, AcknowledgeRemoval
  <2> QED
    BY <1>2, <2>1, DeleteEventKeeps
<1>4. CASE ~Purges(o)
  <2>1. /\ e \in DOMAIN events /\ events[e] \in EventRows
        /\ \A p \in DOMAIN outbox : outbox[p] \in OutboxRows
    BY DEF TypeOK, EventsOK, OutboxOK
  <2>2. /\ DOMAIN outbox' = DOMAIN outbox
        /\ \A p \in DOMAIN outbox :
             /\ outbox'[p].event = outbox[p].event /\ outbox'[p].dep = outbox[p].dep
             /\ outbox'[p].op = outbox[p].op
             /\ outbox'[p].state = IF p = o THEN "done" ELSE outbox[p].state
    <3>1. CASE AcknowledgeRemoval(o)
      BY <1>4, <2>1, <3>1 DEF AcknowledgeRemoval, OutboxRows
    <3>2. ASSUME NEW v \in Versions, Acknowledge(o, v)
          PROVE  /\ DOMAIN outbox' = DOMAIN outbox
                 /\ \A p \in DOMAIN outbox :
                      /\ outbox'[p].event = outbox[p].event
                      /\ outbox'[p].dep = outbox[p].dep
                      /\ outbox'[p].op = outbox[p].op
                      /\ outbox'[p].state = IF p = o THEN "done" ELSE outbox[p].state
      <4>1. outbox' =
              [p \in DOMAIN outbox |->
                  IF p = o THEN [outbox[p] EXCEPT !.state = "done"]
                  ELSE IF p \in LaterOps(o) /\ outbox[p].state \in QueuedStates
                  THEN [outbox[p] EXCEPT !.expected = v.etag]
                  ELSE outbox[p]]
        BY <1>4, <3>2 DEF Acknowledge
      <4>2. \A p \in DOMAIN outbox :
              outbox'[p] = IF p = o THEN [outbox[p] EXCEPT !.state = "done"]
                           ELSE IF p \in LaterOps(o) /\ outbox[p].state \in QueuedStates
                           THEN [outbox[p] EXCEPT !.expected = v.etag]
                           ELSE outbox[p]
        BY <4>1
      <4>3. DOMAIN outbox' = DOMAIN outbox
        BY <4>1
      <4> QED
        BY <2>1, <4>2, <4>3 DEF OutboxRows
    <3> QED
      BY <3>1, <3>2
  <2>3. /\ DOMAIN events' = DOMAIN events
        /\ \A f \in DOMAIN events \ {e} : events'[f] = events[f]
        /\ events'[e].deleted => events[e].deleted
    <3>1. CASE AcknowledgeRemoval(o)
      BY <1>4, <2>1, <3>1 DEF AcknowledgeRemoval, EventRows
    <3>2. ASSUME NEW v \in Versions, Acknowledge(o, v)
          PROVE  /\ DOMAIN events' = DOMAIN events
                 /\ \A f \in DOMAIN events \ {e} : events'[f] = events[f]
                 /\ events'[e].deleted => events[e].deleted
      <4> DEFINE later == [events[e] EXCEPT !.rid = v.rid, !.etag = v.etag, !.dirty = TRUE]
                 last == [rid |-> v.rid, etag |-> v.etag, content |-> v.content,
                          dirty |-> FALSE, deleted |-> FALSE]
      <4>1. events' = [events EXCEPT ![e] = IF LaterOps(o) # {} THEN later ELSE last]
        BY <1>4, <3>2 DEF Acknowledge
      <4>2. later.deleted = events[e].deleted /\ ~last.deleted
        BY <2>1 DEF EventRows
      <4> HIDE DEF later, last
      <4> QED
        BY <2>1, <4>1, <4>2
    <3> QED
      BY <3>1, <3>2
  <2>4. DependencyOrder'
    BY <1>2, <2>2, NoNewDependencyOrder DEF NoNewDependency
  <2>5. ChainOK'
    BY <2>2, StatesAre, ChainKept
  <2>6. HiddenOK'
    <3>1. ASSUME NEW f \in DOMAIN events, events[f].deleted, NEW p \in ActiveOps(f),
                 IsNewest(p, ActiveOps(f)), outbox[p].op = "remove"
          PROVE  /\ p \in DOMAIN outbox' /\ outbox'[p].state \in ActiveStates
                 /\ outbox'[p].op = "remove"
      <4>1. p \in DOMAIN outbox /\ outbox[p].state \in ActiveStates /\ outbox[p].event = f
        BY <3>1 DEF ActiveOps, OpsOf
      <4>2. CASE p # o
        BY <2>2, <3>1, <4>1, <4>2
      <4>3. CASE p = o
        <5>1. PICK q \in LaterOps(o) : TRUE
          BY <1>4, <3>1, <4>3 DEF Purges
        <5>2. /\ q \in DOMAIN outbox /\ outbox[q].event = e /\ q # o
              /\ outbox[q].state \in ActiveStates /\ q \in ActiveOps(f)
          BY <4>1, <4>3, <5>1 DEF LaterOps, ActiveOps, OpsOf
        <5>3. q < o
          BY <3>1, <4>3, <5>2, RowIs DEF IsNewest
        <5> QED
          BY <5>2, <5>3 DEF First
      <4> QED
        BY <4>2, <4>3
    <3>2. \A f \in DOMAIN events' : events'[f].deleted =>
             f \in DOMAIN events /\ events[f].deleted
      BY <2>3
    <3>3. \A p \in DOMAIN outbox' :
            /\ outbox'[p].event = outbox[p].event
            /\ outbox'[p].state \in ActiveStates => outbox[p].state \in ActiveStates
      BY <2>2, StatesAre
    <3> QED
      BY <2>2, <3>1, <3>2, <3>3, HiddenKept
  <2> QED
    BY <1>1, <2>4, <2>5, <2>6
<1> QED
  BY <1>3, <1>4

\* A deadline passes, or the daemon starts again: rows go back to the queue.
LEMMA QueueKeeps ==
    ASSUME StoreInv, Recover \/ \E o : GraceOver(o) \/ BackoffOver(o)
    PROVE  StoreInv'
<1> USE DEF StoreInv
<1>1. TypeOK'
  BY TimeType, RecoverType
<1>2. UNCHANGED <<events, nextOp>> /\ DOMAIN outbox' = DOMAIN outbox
  BY DEF GraceOver, BackoffOver, Recover
<1>3. \A p \in DOMAIN outbox :
        /\ SameRow(p)
        /\ \/ outbox'[p].state = outbox[p].state
           \/ outbox[p].state = "sending" /\ outbox'[p].state = "pending"
  BY QueueIs
<1> USE DEF SameRow
<1>4. DependencyOrder'
  BY <1>2, <1>3, NoNewDependencyOrder DEF NoNewDependency
<1>5. ChainOK'
  BY <1>2, <1>3, StatesAre, ChainKept
<1>6. HiddenOK'
  <2>1. \A e \in DOMAIN events : \A p \in ActiveOps(e) :
          /\ p \in DOMAIN outbox' /\ outbox'[p].state \in ActiveStates
          /\ outbox'[p].op = outbox[p].op
    BY <1>2, <1>3, StatesAre DEF ActiveOps, OpsOf
  <2> QED
    BY <1>2, <1>3, <2>1, StatesAre, HiddenKept
<1> QED
  BY <1>1, <1>4, <1>5, <1>6

\* saveLocalEvent: what is folded into the newest row or queued behind it is the
\* newest row afterwards.
LEMMA SaveLocalEventKeeps ==
    ASSUME StoreInv, NEW e \in EventIds, NEW row \in EventRows,
           NEW op \in {"update", "remove"}, row.deleted => op = "remove",
           EditAllowed, SaveLocalEvent(e, row, op)
    PROVE  StoreInv'
<1> USE DEF StoreInv
<1>1. TypeOK' /\ DependencyOrder'
  BY StoreAssumption, SaveLocalEventType, SaveLocalEventOrder DEF Operations
<1>2. \A o \in DOMAIN outbox : outbox[o] \in OutboxRows /\ o < nextOp /\ o \in Nat
  BY RowIs DEF DependencyOrder
<1>3. ASSUME NEW o, CancelUnsynced(e, o, op) PROVE ChainOK' /\ HiddenOK'
  <2>1. DeleteEvent(e)
    BY <1>3 DEF CancelUnsynced
  <2>2. /\ DOMAIN outbox' = DOMAIN outbox \ OpsOf(e)
        /\ \A p \in DOMAIN outbox' : outbox'[p] = outbox[p]
        /\ DOMAIN events' = DOMAIN events \ {e}
        /\ \A f \in DOMAIN events' : events'[f] = events[f]
    BY <2>1 DEF DeleteEvent, Restrict
  <2>3. ASSUME NEW f \in DOMAIN events', events'[f].deleted,
               NEW p \in ActiveOps(f), outbox[p].op = "remove"
        PROVE  /\ p \in DOMAIN outbox' /\ outbox'[p].state \in ActiveStates
               /\ outbox'[p].op = "remove"
    BY <2>3, <2>2 DEF ActiveOps, OpsOf
  <2> QED
    BY <2>2, <2>3, ChainKept, HiddenKept
<1>4. ASSUME NEW o, Coalesce(e, o, row, op) PROVE ChainOK' /\ HiddenOK'
  <2>1. /\ IsNewest(o, QueuedOps(e)) /\ events' = Put(events, e, row)
        /\ ~(outbox[o].op = "create" /\ op = "remove")
        /\ outbox' =
            [outbox EXCEPT ![o] =
                [QueueRow(e, op, row, outbox[o].dep)
                    EXCEPT !.op = IF outbox[o].op = "create" THEN "create" ELSE op]]
    BY <1>4 DEF Coalesce
  <2>2. /\ o \in DOMAIN outbox /\ outbox[o].event = e /\ outbox[o].state \in QueuedStates
        /\ \A p \in DOMAIN outbox : outbox[p].event = e
              /\ outbox[p].state \in QueuedStates => p <= o
    BY <2>1 DEF IsNewest, QueuedOps, OpsOf
  <2>3. /\ DOMAIN outbox' = DOMAIN outbox
        /\ \A p \in DOMAIN outbox \ {o} : outbox'[p] = outbox[p]
        /\ outbox'[o].event = e /\ outbox'[o].dep = outbox[o].dep
        /\ outbox'[o].state = "pending"
        /\ outbox'[o].op = IF outbox[o].op = "create" THEN "create" ELSE op
    BY <1>4, CoalesceIs
  <2>4. ChainOK'
    BY <2>2, <2>3, StatesAre, ChainKept
  <2>5. \A f : ActiveOps(f)' = ActiveOps(f)
    BY <2>2, <2>3, StatesAre DEF ActiveOps, OpsOf
  <2>6. IsNewest(o, ActiveOps(e))
    <3>1. o \in ActiveOps(e)
      BY <2>2, StatesAre DEF ActiveOps, OpsOf
    <3>2. ASSUME NEW p \in ActiveOps(e) PROVE p <= o
      <4>1. /\ p \in DOMAIN outbox /\ outbox[p].event = e
            /\ outbox[p].state \in ActiveStates
        BY <3>2 DEF ActiveOps, OpsOf
      <4>2. o < p => outbox[p].state \in QueuedStates
        BY <2>2, <4>1, StatesAre DEF ChainOK
      <4> QED
        BY <1>2, <2>2, <4>1, <4>2
    <3> QED
      BY <3>1, <3>2 DEF IsNewest
  <2>7. HiddenOK'
    <3> SUFFICES ASSUME NEW f \in DOMAIN events', events'[f].deleted
                 PROVE  \E p \in ActiveOps(f) : IsNewest(p, ActiveOps(f))
                                                /\ outbox'[p].op = "remove"
      BY <2>5 DEF HiddenOK, IsNewest
    <3>1. CASE f = e
      <4>1. op = "remove"
        BY <2>1, <3>1 DEF Put
      <4>2. outbox'[o].op = "remove"
        BY <2>1, <2>3, <4>1
      <4> QED
        BY <2>6, <3>1, <4>2 DEF IsNewest
    <3>2. CASE f # e
      <4>1. f \in DOMAIN events /\ events[f].deleted
        BY <2>1, <3>2 DEF Put
      <4>2. PICK p \in ActiveOps(f) : IsNewest(p, ActiveOps(f)) /\ outbox[p].op = "remove"
        BY <4>1 DEF HiddenOK
      <4>3. p # o /\ p \in DOMAIN outbox
        BY <2>2, <3>2, <4>2 DEF ActiveOps, OpsOf
      <4> QED
        BY <2>3, <4>2, <4>3
    <3> QED
      BY <3>1, <3>2
  <2> QED
    BY <2>4, <2>7
<1>5. ASSUME NEW dep, Enqueue(e, dep, row, op) PROVE ChainOK' /\ HiddenOK'
  <2>1. /\ QueuedOps(e) = {} /\ IsNewestOrNone(dep, ActiveOps(e))
        /\ events' = Put(events, e, row)
        /\ outbox' = Put(outbox, nextOp, QueueRow(e, op, row, dep))
    BY <1>5 DEF Enqueue
  <2>2. nextOp \in Nat /\ nextOp \notin DOMAIN outbox
    BY <1>5, EnqueueIs
  <2>3. /\ DOMAIN outbox' = DOMAIN outbox \cup {nextOp}
        /\ \A p \in DOMAIN outbox : outbox'[p] = outbox[p]
    BY <1>5, EnqueueIs
  <2>4. /\ outbox'[nextOp].event = e /\ outbox'[nextOp].dep = dep
        /\ outbox'[nextOp].state = "pending" /\ outbox'[nextOp].op = op
    BY <1>5, EnqueueIs
  <2>5. \A p \in ActiveOps(e) : dep = p
    <3> SUFFICES ASSUME NEW p \in ActiveOps(e) PROVE dep = p
      OBVIOUS
    <3>1. dep \in ActiveOps(e) /\ p <= dep
      BY <2>1 DEF IsNewestOrNone, IsNewest
    <3>2. /\ p \in DOMAIN outbox /\ dep \in DOMAIN outbox
          /\ outbox[p].event = e /\ outbox[dep].event = e
          /\ outbox[p].state \in ActiveStates /\ outbox[dep].state \in ActiveStates
      BY <3>1 DEF ActiveOps, OpsOf
    <3>3. ~(p < dep)
      BY <2>1, <3>2 DEF ChainOK, QueuedOps, OpsOf
    <3> QED
      BY <1>2, <3>1, <3>2, <3>3
  <2>6. ChainOK'
    <3> SUFFICES ASSUME NEW q \in DOMAIN outbox', NEW p \in DOMAIN outbox',
                        p < q, outbox'[q].event = outbox'[p].event,
                        outbox'[q].state \in ActiveStates,
                        outbox'[p].state \in ActiveStates
                 PROVE  outbox'[q].state \in QueuedStates /\ outbox'[q].dep = p
      BY DEF ChainOK
    <3>1. CASE q = nextOp
      <4>1. p \in DOMAIN outbox /\ p \in ActiveOps(e)
        BY <2>2, <2>3, <2>4, <3>1 DEF ActiveOps, OpsOf
      <4> QED
        BY <2>4, <2>5, <3>1, <4>1, StatesAre
    <3>2. CASE q # nextOp
      <4>1. q \in DOMAIN outbox /\ p \in DOMAIN outbox
        BY <1>2, <2>2, <2>3, <3>2
      <4> QED
        BY <2>3, <4>1 DEF ChainOK
    <3> QED
      BY <3>1, <3>2
  <2>7. HiddenOK'
    <3> SUFFICES ASSUME NEW f \in DOMAIN events', events'[f].deleted
                 PROVE  \E p \in ActiveOps(f)' : IsNewest(p, ActiveOps(f)')
                                                 /\ outbox'[p].op = "remove"
      BY DEF HiddenOK, IsNewest
    <3>1. CASE f = e
      <4>1. op = "remove"
        BY <2>1, <3>1 DEF Put
      <4>2. nextOp \in ActiveOps(e)'
        BY <2>3, <2>4, StatesAre DEF ActiveOps, OpsOf
      <4>3. \A p \in ActiveOps(e)' : p <= nextOp
        BY <1>2, <2>2, <2>3 DEF ActiveOps, OpsOf
      <4> QED
        BY <2>4, <3>1, <4>1, <4>2, <4>3 DEF IsNewest
    <3>2. CASE f # e
      <4>1. f \in DOMAIN events /\ events[f].deleted
        BY <2>1, <3>2 DEF Put
      <4>2. PICK p \in ActiveOps(f) : IsNewest(p, ActiveOps(f)) /\ outbox[p].op = "remove"
        BY <4>1 DEF HiddenOK
      <4>3. ActiveOps(f)' = ActiveOps(f)
        BY <2>2, <2>3, <2>4, <3>2 DEF ActiveOps, OpsOf
      <4>4. p \in DOMAIN outbox
        BY <4>2 DEF ActiveOps, OpsOf
      <4> QED
        BY <2>3, <4>2, <4>3, <4>4 DEF IsNewest
    <3> QED
      BY <3>1, <3>2
  <2> QED
    BY <2>6, <2>7
<1>6. ChainOK' /\ HiddenOK'
  BY <1>3, <1>4, <1>5 DEF SaveLocalEvent
<1> QED
  BY <1>1, <1>6
-----------------------------------------------------------------------------
(* The invariant through each step.                                        *)

\* A request goes on with the row it was sent for, or the row is gone.
LEMMA FlightKept ==
    ASSUME MoveInv, nextOp' \in Nat, nextOp <= nextOp',
           DOMAIN flight' \subseteq DOMAIN flight,
           \A e \in DOMAIN flight' :
              /\ flight'[e].op = flight[e].op /\ flight'[e].removal = flight[e].removal
              /\ flight[e].op \in DOMAIN outbox' =>
                   /\ flight[e].op \in DOMAIN outbox /\ SameRow(flight[e].op)
                   /\ outbox'[flight[e].op].state = outbox[flight[e].op].state
    PROVE  FlightOK'
<1> SUFFICES ASSUME NEW e \in DOMAIN flight'
             PROVE  /\ flight'[e].op < nextOp'
                    /\ flight'[e].op \in DOMAIN outbox' =>
                         /\ outbox'[flight'[e].op].event = e
                         /\ outbox'[flight'[e].op].state = "sending"
                         /\ flight'[e].removal = (outbox'[flight'[e].op].op = "remove")
  BY DEF FlightOK
<1>1. e \in DOMAIN flight /\ flight'[e].op = flight[e].op
  OBVIOUS
<1>2. flight[e].op < nextOp /\ flight[e].op \in Nat /\ nextOp \in Nat
  BY <1>1 DEF MoveInv, MoveTypeOK, FlightOK, OpIds, TypeOK, CountersOK
<1>3. flight'[e].op < nextOp'
  BY <1>1, <1>2
<1>4. ASSUME flight[e].op \in DOMAIN outbox'
      PROVE  /\ outbox'[flight[e].op].event = e
             /\ outbox'[flight[e].op].state = "sending"
             /\ flight'[e].removal = (outbox'[flight[e].op].op = "remove")
  <2>1. /\ flight[e].op \in DOMAIN outbox /\ SameRow(flight[e].op)
        /\ outbox'[flight[e].op].state = outbox[flight[e].op].state
        /\ flight'[e].removal = flight[e].removal
    BY <1>4
  <2> QED
    BY <1>1, <2>1 DEF MoveInv, FlightOK, SameRow
<1> QED
  BY <1>1, <1>3, <1>4

\* The state of a row of the queue, and of the copy's and the source's own.
LEMMA Undecideds ==
    ASSUME MoveInv, Undecided
    PROVE  /\ Source \in DOMAIN events
           /\ Source \in remote => Source \in held
           /\ Source \notin DOMAIN flight
           /\ \A e \in DOMAIN flight : ~flight[e].removal /\ flight[e].outcome # "applied"
           /\ \A o \in DOMAIN outbox :
                /\ outbox[o].event = Source => SourceRowOK(o)
                /\ outbox[o].event = Target => TargetRowOK(o)
  BY DEF MoveInv, SourceOK

\* Of the rows of the source none may be sent.
LEMMA SourceNotReady ==
    ASSUME MoveInv, Undecided, NEW o \in DOMAIN outbox, outbox[o].event = Source
    PROVE  ~Ready(o) /\ (DependencyMet(o) => outbox[o].state \in {"blocked", "done"})
<1>1. SourceRowOK(o)
  BY Undecideds
<1>2. outbox[o].dep # None
  BY <1>1, RowIs DEF SourceRowOK, MoveInv, MoveTypeOK
<1>3. DependencyMet(o) => outbox[o].state \in {"blocked", "done"}
  BY <1>1, <1>2 DEF DependencyMet, SourceRowOK
<1> QED
  BY <1>3, StatesAre DEF Ready

\* What is left of the invariant when the rows keep what SourceOK is about.
LEMMA SourceKept ==
    ASSUME MoveInv, UNCHANGED remote,
           Undecided' =>
             /\ Undecided
             /\ Source \in DOMAIN events'
             /\ Source \in held => Source \in held'
             /\ Source \notin DOMAIN flight'
             /\ \A e \in DOMAIN flight' : ~flight'[e].removal
                                          /\ flight'[e].outcome # "applied"
             /\ DOMAIN outbox' = DOMAIN outbox
             /\ \A o \in DOMAIN outbox :
                  /\ SameRow(o)
                  /\ outbox[o].event = Source =>
                       /\ outbox'[o].state # "sending"
                       /\ outbox'[outbox[o].dep].state = "done"
                            => outbox'[o].state \in {"blocked", "done"}
    PROVE  SourceOK'
<1> SUFFICES ASSUME Undecided'
             PROVE  /\ Source \in DOMAIN events'
                    /\ Source \in remote' => Source \in held'
                    /\ Source \notin DOMAIN flight'
                    /\ \A e \in DOMAIN flight' : ~flight'[e].removal
                                                 /\ flight'[e].outcome # "applied"
                    /\ \A o \in DOMAIN outbox' :
                         /\ outbox'[o].event = Source => SourceRowOK(o)'
                         /\ outbox'[o].event = Target => TargetRowOK(o)'
  BY DEF SourceOK
<1>1. \A o \in DOMAIN outbox : /\ outbox[o].event = Source => SourceRowOK(o)
                               /\ outbox[o].event = Target => TargetRowOK(o)
  BY Undecideds
<1>2. ASSUME NEW o \in DOMAIN outbox, outbox'[o].event = Source PROVE SourceRowOK(o)'
  BY <1>1, <1>2 DEF SameRow, SourceRowOK
<1>3. ASSUME NEW o \in DOMAIN outbox, outbox'[o].event = Target PROVE TargetRowOK(o)'
  BY <1>1, <1>3 DEF SameRow, TargetRowOK
<1> QED
  BY <1>2, <1>3, Undecideds

\* What the invariant says of the store.
LEMMA StorePart ==
    ASSUME MoveInv
    PROVE  StoreInv /\ TypeOK
  BY DEF MoveInv, StoreInv, MoveTypeOK

\* What is queued by a move.
LEMMA MovedIs ==
    ASSUME MoveInv, MoveEventAcrossAccounts, MoveAccepted
    PROVE  /\ nextOp \in Nat /\ nextOp + 1 <= MaxOps /\ nextOp' = nextOp + 2
           /\ DOMAIN events' = {Source, Target} /\ Source \in DOMAIN events
           /\ Target \notin DOMAIN events
           /\ events'[Target] = Copy /\ events'[Source] = Leaving
           /\ Copy \in EventRows /\ Leaving \in EventRows /\ ~Copy.deleted
           /\ nextOp \notin DOMAIN outbox /\ nextOp + 1 \notin DOMAIN outbox
           /\ DOMAIN outbox' = DOMAIN outbox \cup {nextOp, nextOp + 1}
           /\ \A o \in DOMAIN outbox : outbox'[o] = outbox[o]
           /\ outbox'[nextOp] \in OutboxRows /\ outbox'[nextOp + 1] \in OutboxRows
           /\ outbox'[nextOp].event = Target /\ outbox'[nextOp].op = "create"
           /\ outbox'[nextOp].state = "pending" /\ outbox'[nextOp].dep = None
           /\ outbox'[nextOp + 1].event = Source /\ outbox'[nextOp + 1].op = "remove"
           /\ outbox'[nextOp + 1].state = "pending" /\ outbox'[nextOp + 1].dep = nextOp
<1> USE DEF MoveInv, MoveTypeOK
<1> DEFINE create == QueueRow(Target, "create", Copy, None)
           remove == [QueueRow(Source, "remove", Leaving, nextOp) EXCEPT !.grace = FALSE]
<1>1. /\ Target \notin DOMAIN events /\ nextOp + 1 <= MaxOps /\ nextOp' = nextOp + 2
      /\ events' = Put(Put(events, Target, Copy), Source, Leaving)
      /\ outbox' = Put(Put(outbox, nextOp, create), nextOp + 1, remove)
  BY DEF MoveEventAcrossAccounts, MoveRows
<1>2. /\ nextOp \in Nat /\ 1 <= nextOp /\ MaxOps \in Nat
      /\ \A o \in DOMAIN outbox : o \in Nat /\ o < nextOp
  BY StoreAssumption, RowIs DEF TypeOK, CountersOK, DependencyOrder
<1>3. Source \in DOMAIN events /\ events[Source] \in EventRows
      /\ DOMAIN events \subseteq {Source, Target} /\ Source # Target
  BY MoveAssumption DEF MoveAccepted, TypeOK, EventsOK
<1>4. Copy \in EventRows /\ ~Copy.deleted
  BY <1>3 DEF Copy, EventRows
<1>5. Leaving \in EventRows
  BY <1>3 DEF Leaving, EventRows
<1>6. /\ DOMAIN events' = {Source, Target}
      /\ events'[Target] = Copy /\ events'[Source] = Leaving
  <2> HIDE DEF MoveInv, MoveTypeOK
  <2> QED
    BY <1>1, <1>3 DEF Put
<1>7. nextOp \in OpIds /\ nextOp + 1 \in OpIds
  BY <1>1, <1>2 DEF OpIds
<1>8. /\ create \in OutboxRows /\ create.event = Target /\ create.op = "create"
      /\ create.state = "pending" /\ create.dep = None
  BY <1>4, MoveAssumption DEF QueueRow, OutboxRows, Operations, ActiveStates, EventRows
<1>9. /\ remove \in OutboxRows /\ remove.event = Source /\ remove.op = "remove"
      /\ remove.state = "pending" /\ remove.dep = nextOp
  BY <1>5, <1>7, MoveAssumption
     DEF QueueRow, OutboxRows, Operations, ActiveStates, EventRows
<1>10. nextOp \notin DOMAIN outbox /\ nextOp + 1 \notin DOMAIN outbox
       /\ nextOp # nextOp + 1
  BY <1>2
<1> HIDE DEF create, remove
<1>11. /\ DOMAIN outbox' = DOMAIN outbox \cup {nextOp, nextOp + 1}
       /\ \A o \in DOMAIN outbox : outbox'[o] = outbox[o]
       /\ outbox'[nextOp] = create /\ outbox'[nextOp + 1] = remove
  BY <1>1, <1>10 DEF Put
<1> QED
  BY <1>1, <1>2, <1>3, <1>4, <1>5, <1>6, <1>8, <1>9, <1>10, <1>11

\* The move: the copy is new, and no unfinished row of the source is left, so
\* each queued row is the only unfinished one of its event.  While the move is
\* undecided the queue was empty.
LEMMA MoveStep ==
    ASSUME MoveInv, Move
    PROVE  MoveInv'
<1> USE MovedIs, StorePart DEF Move
<1>1. UNCHANGED moveVars /\ edits' = edits + 1 /\ edits < MaxEdits
  BY DEF EditAllowed
<1>2. /\ ActiveOps(Source) = {} /\ UNCHANGED conflicts
      /\ \A o \in DOMAIN outbox :
            /\ o \in Nat /\ o < nextOp /\ outbox[o] \in OutboxRows
            /\ outbox[o].event = Source /\ outbox[o].event \in DOMAIN events
            /\ outbox[o].state \notin ActiveStates
  <2>1. ActiveOps(Source) = {} /\ UNCHANGED conflicts
    BY DEF MoveEventAcrossAccounts, MoveRows
  <2>2. ASSUME NEW o \in DOMAIN outbox
        PROVE  /\ o \in Nat /\ o < nextOp /\ outbox[o] \in OutboxRows
               /\ outbox[o].event = Source /\ outbox[o].event \in DOMAIN events
    BY RowIs DEF StoreInv, DependencyOrder
  <2> QED
    BY <2>1, <2>2 DEF ActiveOps, OpsOf
<1>3. TypeOK'
  <2>1. EventsOK'
    BY MoveAssumption DEF EventsOK
  <2>2. nextOp \in OpIds /\ nextOp + 1 \in OpIds /\ nextOp' \in 1 .. (MaxOps + 1)
    BY StoreAssumption DEF OpIds, TypeOK, CountersOK
  <2>3. OutboxOK'
    BY <1>2, <2>2 DEF OutboxOK, TypeOK
  <2>4. ConflictsOK'
    BY <1>2, MoveAssumption DEF ConflictsOK, TypeOK, EventsOK
  <2>5. CountersOK'
    BY <1>1, <2>2, StoreAssumption DEF CountersOK, TypeOK
  <2> QED
    BY <2>1, <2>3, <2>4, <2>5 DEF TypeOK
<1>4. DependencyOrder'
  <2>1. nextOp \in Nat /\ 0 < nextOp /\ \A o \in DOMAIN outbox : outbox[o].dep < o
    BY DEF TypeOK, CountersOK, StoreInv, DependencyOrder
  <2>2. ASSUME NEW o \in DOMAIN outbox' PROVE o < nextOp' /\ outbox'[o].dep < o
    <3>1. CASE o \in DOMAIN outbox
      BY <1>2, <2>1, <3>1
    <3>2. CASE o = nextOp \/ o = nextOp + 1
      BY <2>1, <3>2 DEF None
    <3> QED
      BY <2>2, <3>1, <3>2
  <2> QED
    BY <2>2 DEF DependencyOrder
<1>5. ChainOK'
  BY <1>2, MoveAssumption DEF ChainOK
<1>6. HiddenOK'
  <2>1. nextOp + 1 \in ActiveOps(Source)'
    BY DEF ActiveOps, OpsOf, ActiveStates
  <2>2. \A o \in ActiveOps(Source)' : o <= nextOp + 1
    BY <1>2 DEF ActiveOps, OpsOf
  <2> QED
    BY <2>1, <2>2 DEF HiddenOK, IsNewest
<1>7. MoveTypeOK'
  BY <1>1, <1>3 DEF MoveInv, MoveTypeOK, moveVars
<1>8. FlightOK'
  <2>1. UNCHANGED flight
    BY <1>1 DEF moveVars
  <2>2. ASSUME NEW e \in DOMAIN flight PROVE flight[e].op # nextOp /\ flight[e].op # nextOp + 1
    BY DEF MoveInv, FlightOK, MoveTypeOK, OpIds
  <2>3. \A e \in DOMAIN flight : flight[e].op \in DOMAIN outbox' =>
           /\ flight[e].op \in DOMAIN outbox /\ SameRow(flight[e].op)
           /\ outbox'[flight[e].op].state = outbox[flight[e].op].state
    BY <2>2 DEF SameRow
  <2> QED
    BY <2>1, <2>3, FlightKept
<1>9. SourceOK'
  <2> SUFFICES ASSUME Undecided'
               PROVE  /\ Source \in DOMAIN events'
                      /\ Source \in remote' => Source \in held'
                      /\ Source \notin DOMAIN flight'
                      /\ \A e \in DOMAIN flight' : ~flight'[e].removal
                                                   /\ flight'[e].outcome # "applied"
                      /\ \A o \in DOMAIN outbox' :
                           /\ outbox'[o].event = Source => SourceRowOK(o)'
                           /\ outbox'[o].event = Target => TargetRowOK(o)'
    BY DEF SourceOK
  <2>1. Undecided
    BY <1>1 DEF Undecided, moveVars
  <2>2. DOMAIN outbox = {}
    <3> SUFFICES ASSUME NEW o \in DOMAIN outbox PROVE FALSE
      OBVIOUS
    <3>1. SourceRowOK(o)
      BY <1>2, <2>1, Undecideds
    <3> QED
      BY <1>2, <3>1, MoveAssumption DEF SourceRowOK
  <2>3. ASSUME NEW o \in DOMAIN outbox'
        PROVE  /\ outbox'[o].event = Source => SourceRowOK(o)'
               /\ outbox'[o].event = Target => TargetRowOK(o)'
    <3>1. CASE o = nextOp
      BY <3>1, MoveAssumption DEF TargetRowOK
    <3>2. CASE o = nextOp + 1
      BY <3>2, MoveAssumption DEF SourceRowOK
    <3> QED
      BY <2>2, <2>3, <3>1, <3>2
  <2> QED
    BY <1>1, <2>1, <2>3, Undecideds DEF moveVars
<1> QED
  BY <1>3, <1>4, <1>5, <1>6, <1>7, <1>8, <1>9 DEF MoveInv

\* A saved event leaves every row as it is but the one that is folded into and
\* the new one, neither of which was sent.
LEMMA SavedRows ==
    ASSUME StoreInv, NEW e, NEW row, NEW op, SaveLocalEvent(e, row, op)
    PROVE  /\ nextOp \in Nat /\ nextOp' \in Nat /\ nextOp <= nextOp'
           /\ \A p \in DOMAIN outbox' :
                \/ p \in DOMAIN outbox /\ outbox'[p] = outbox[p]
                \/ /\ p \in DOMAIN outbox /\ outbox[p].event = e
                   /\ outbox[p].state \in QueuedStates
                   /\ outbox'[p].event = e /\ outbox'[p].state = "pending"
                   /\ outbox'[p].op \in {op, "create"}
                \/ /\ p = nextOp /\ p \notin DOMAIN outbox
                   /\ outbox'[p].event = e /\ outbox'[p].state = "pending"
                   /\ outbox'[p].op = op
           /\ op # "remove" => /\ DOMAIN outbox \subseteq DOMAIN outbox'
                               /\ events' = Put(events, e, row)
<1> USE DEF StoreInv
<1>1. nextOp \in Nat
  BY DEF TypeOK, CountersOK
<1>2. ASSUME NEW o, CancelUnsynced(e, o, op)
      PROVE  /\ nextOp' = nextOp /\ op = "remove"
             /\ \A p \in DOMAIN outbox' : p \in DOMAIN outbox /\ outbox'[p] = outbox[p]
  BY <1>2 DEF CancelUnsynced, DeleteEvent, Restrict
<1>3. ASSUME NEW o, Coalesce(e, o, row, op)
      PROVE  /\ nextOp' = nextOp /\ events' = Put(events, e, row)
             /\ DOMAIN outbox' = DOMAIN outbox
             /\ \A p \in DOMAIN outbox' :
                  \/ outbox'[p] = outbox[p]
                  \/ /\ outbox[p].event = e /\ outbox[p].state \in QueuedStates
                     /\ outbox'[p].event = e /\ outbox'[p].state = "pending"
                     /\ outbox'[p].op \in {op, "create"}
  <2>1. nextOp' = nextOp /\ events' = Put(events, e, row)
    BY <1>3 DEF Coalesce
  <2> QED
    BY <1>3, <2>1, CoalesceIs
<1>4. ASSUME NEW dep, Enqueue(e, dep, row, op)
      PROVE  /\ nextOp' = nextOp + 1 /\ events' = Put(events, e, row)
             /\ DOMAIN outbox \subseteq DOMAIN outbox'
             /\ \A p \in DOMAIN outbox' :
                  \/ p \in DOMAIN outbox /\ outbox'[p] = outbox[p]
                  \/ /\ p = nextOp /\ p \notin DOMAIN outbox
                     /\ outbox'[p].event = e /\ outbox'[p].state = "pending"
                     /\ outbox'[p].op = op
  <2>1. nextOp' = nextOp + 1 /\ events' = Put(events, e, row)
    BY <1>4 DEF Enqueue
  <2>2. /\ nextOp \notin DOMAIN outbox /\ DOMAIN outbox' = DOMAIN outbox \cup {nextOp}
        /\ \A p \in DOMAIN outbox : outbox'[p] = outbox[p]
        /\ outbox'[nextOp].event = e /\ outbox'[nextOp].state = "pending"
        /\ outbox'[nextOp].op = op
    BY <1>4, EnqueueIs
  <2> QED
    BY <2>1, <2>2
<1>5. CASE \E o \in OpIds : CancelUnsynced(e, o, op)
  BY <1>1, <1>2, <1>5
<1>6. CASE \E o \in OpIds : Coalesce(e, o, row, op)
  BY <1>1, <1>3, <1>6
<1>7. CASE \E dep \in OpIds \cup {None} : Enqueue(e, dep, row, op)
  BY <1>1, <1>4, <1>7
<1> QED
  BY <1>5, <1>6, <1>7 DEF SaveLocalEvent

\* The requests go on while an event is saved.
LEMMA SavedFlight ==
    ASSUME MoveInv, NEW e, NEW row, NEW op, SaveLocalEvent(e, row, op), UNCHANGED flight
    PROVE  FlightOK'
<1>1. ASSUME NEW f \in DOMAIN flight, flight[f].op \in DOMAIN outbox'
      PROVE  flight[f].op \in DOMAIN outbox /\ outbox'[flight[f].op] = outbox[flight[f].op]
  <2>1. flight[f].op \in Nat /\ flight[f].op < nextOp /\ nextOp \in Nat
    BY StorePart, SavedRows DEF MoveInv, FlightOK, MoveTypeOK, OpIds
  <2>2. flight[f].op \in DOMAIN outbox => outbox[flight[f].op].state = "sending"
    BY DEF MoveInv, FlightOK
  <2> QED
    BY <1>1, <2>1, <2>2, StorePart, SavedRows, StatesAre
<1> QED
  BY <1>1, StorePart, SavedRows, FlightKept DEF SameRow

\* The copy is edited: at a provider with an operation that is not a removal, on
\* the device without one.
LEMMA EditCopyStep ==
    ASSUME MoveInv, EditCopy
    PROVE  MoveInv'
<1> USE StorePart
<1>1. /\ UNCHANGED moveVars /\ EditAllowed
      /\ Target \in DOMAIN events /\ ~events[Target].deleted
  BY DEF EditCopy
<1>2. PICK c \in Contents :
        LET row == [events[Target] EXCEPT !.content = c, !.dirty = Target \in remote]
        IN  IF Target \in remote
            THEN SaveLocalEvent(Target, row, "update")
            ELSE /\ events' = Put(events, Target, row)
                 /\ UNCHANGED <<outbox, conflicts, nextOp>>
  BY DEF EditCopy
<1> DEFINE row == [events[Target] EXCEPT !.content = c, !.dirty = Target \in remote]
<1>3. row \in EventRows /\ ~row.deleted
  <2>1. ASSUME NEW b \in BOOLEAN
        PROVE  LET r == [events[Target] EXCEPT !.content = c, !.dirty = b]
               IN  r \in EventRows /\ ~r.deleted
    BY <1>1 DEF TypeOK, EventsOK, EventRows
  <2>2. (Target \in remote) \in BOOLEAN
    OBVIOUS
  <2> QED
    BY <2>1, <2>2, Zenon
<1>4. MoveTypeOK' <=> TypeOK'
  BY <1>1 DEF MoveInv, MoveTypeOK, moveVars
<1>5. UNCHANGED <<remote, held, flight, arrived, released>>
  BY <1>1 DEF moveVars
<1>6. CASE Target \in remote
  <2>1. SaveLocalEvent(Target, row, "update")
    BY <1>2, <1>6
  <2> HIDE DEF row
  <2>2. StoreInv'
    BY <1>1, <1>3, <2>1, MoveAssumption, SaveLocalEventKeeps
  <2>3. FlightOK'
    BY <1>5, <2>1, SavedFlight
  <2>4. SourceOK'
    <3> SUFFICES ASSUME Undecided'
                 PROVE  /\ Source \in DOMAIN events'
                        /\ Source \in remote' => Source \in held'
                        /\ Source \notin DOMAIN flight'
                        /\ \A f \in DOMAIN flight' : ~flight'[f].removal
                                                     /\ flight'[f].outcome # "applied"
                        /\ \A o \in DOMAIN outbox' :
                             /\ outbox'[o].event = Source => SourceRowOK(o)'
                             /\ outbox'[o].event = Target => TargetRowOK(o)'
      BY DEF SourceOK
    <3>1. Undecided
      BY <1>5 DEF Undecided
    <3>2. /\ DOMAIN outbox \subseteq DOMAIN outbox'
          /\ events' = Put(events, Target, row)
          /\ \A p \in DOMAIN outbox' :
               \/ p \in DOMAIN outbox /\ outbox'[p] = outbox[p]
               \/ /\ outbox'[p].event = Target /\ outbox'[p].state = "pending"
                  /\ outbox'[p].op \in {"update", "create"}
      BY <2>1, SavedRows
    <3>3. ASSUME NEW o \in DOMAIN outbox', outbox'[o].event = Source
          PROVE  SourceRowOK(o)'
      <4>1. o \in DOMAIN outbox /\ outbox'[o] = outbox[o] /\ SourceRowOK(o)
        BY <3>1, <3>2, <3>3, MoveAssumption, Undecideds
      <4>2. /\ outbox[o].dep \in DOMAIN outbox'
            /\ outbox'[outbox[o].dep].event = Target
            /\ \/ outbox'[outbox[o].dep] = outbox[outbox[o].dep]
               \/ outbox'[outbox[o].dep].state = "pending"
        BY <3>2, <4>1 DEF SourceRowOK
      <4> QED
        BY <4>1, <4>2 DEF SourceRowOK
    <3>4. ASSUME NEW o \in DOMAIN outbox', outbox'[o].event = Target
          PROVE  TargetRowOK(o)'
      BY <1>5, <1>6, <3>1, <3>2, <3>4, Undecideds DEF TargetRowOK
    <3>5. Source \in DOMAIN events'
      BY <3>1, <3>2, Undecideds DEF Put
    <3> QED
      BY <1>5, <3>1, <3>3, <3>4, <3>5, Undecideds
  <2> QED
    BY <1>4, <2>2, <2>3, <2>4 DEF StoreInv, MoveInv
<1>7. CASE Target \notin remote
  <2>1. events' = Put(events, Target, row) /\ UNCHANGED <<outbox, conflicts, nextOp>>
    BY <1>2, <1>7
  <2> HIDE DEF row
  <2>2. /\ DOMAIN events' = DOMAIN events /\ events'[Target] = row
        /\ \A e \in DOMAIN events \ {Target} : events'[e] = events[e]
    BY <1>1, <2>1 DEF Put
  <2>3. TypeOK'
    <3>1. edits' \in 0 .. MaxEdits
      BY <1>1, StoreAssumption DEF EditAllowed, TypeOK, CountersOK
    <3> QED
      BY <1>3, <2>1, <2>2, <3>1
         DEF TypeOK, EventsOK, OutboxOK, ConflictsOK, CountersOK
  <2>4. DependencyOrder' /\ ChainOK'
    BY <2>1 DEF StoreInv, DependencyOrder, ChainOK
  <2>5. HiddenOK'
    <3>1. \A e : ActiveOps(e) \subseteq DOMAIN outbox
                 /\ \A o \in ActiveOps(e) : outbox[o].state \in ActiveStates
      BY DEF ActiveOps, OpsOf
    <3> QED
      BY <1>1, <1>3, <2>1, <2>2, <3>1, HiddenKept DEF StoreInv
  <2>6. FlightOK'
    BY <1>5, <2>1 DEF MoveInv, FlightOK
  <2>7. SourceOK'
    <3>1. ASSUME NEW o \in DOMAIN outbox, Undecided, outbox[o].event = Source
          PROVE  outbox[o].state # "sending"
                 /\ (outbox[outbox[o].dep].state = "done" => outbox[o].state \in {"blocked", "done"})
      BY <3>1, Undecideds DEF SourceRowOK
    <3>2. Undecided' <=> Undecided
      BY <1>5 DEF Undecided
    <3> QED
      BY <1>5, <2>1, <2>2, <3>1, <3>2, Undecideds, SourceKept DEF SameRow
  <2> QED
    BY <1>4, <2>3, <2>4, <2>5, <2>6, <2>7 DEF StoreInv, MoveInv
<1> QED
  BY <1>6, <1>7

\* With the removal of the copy the user gives it up.
LEMMA DeleteCopyStep ==
    ASSUME MoveInv, DeleteCopy
    PROVE  MoveInv'
<1> USE StorePart
<1> DEFINE row == [events[Target] EXCEPT !.dirty = Target \in remote, !.deleted = TRUE]
<1>1. /\ Target \in DOMAIN events /\ EditAllowed
      /\ SaveLocalEvent(Target, row, "remove")
      /\ released' = released \cup {"deleted"}
      /\ UNCHANGED <<remote, target, held, flight, arrived, faults, commands>>
  BY DEF DeleteCopy
<1>2. row \in EventRows
  <2>1. ASSUME NEW b \in BOOLEAN
        PROVE  [events[Target] EXCEPT !.dirty = b, !.deleted = TRUE] \in EventRows
    BY <1>1 DEF TypeOK, EventsOK, EventRows
  <2>2. (Target \in remote) \in BOOLEAN
    OBVIOUS
  <2> QED
    BY <2>1, <2>2, Zenon
<1> HIDE DEF row
<1>3. StoreInv'
  BY <1>1, <1>2, MoveAssumption, SaveLocalEventKeeps
<1>4. FlightOK'
  BY <1>1, SavedFlight
<1>5. SourceOK'
  BY <1>1 DEF SourceOK, Undecided
<1>6. MoveTypeOK'
  BY <1>1, <1>3 DEF MoveInv, MoveTypeOK, StoreInv
<1> QED
  BY <1>3, <1>4, <1>5, <1>6 DEF StoreInv, MoveInv

\* The rows of a request keep their state while another row is changed.
LEMMA OthersFlight ==
    ASSUME MoveInv, UNCHANGED <<nextOp, flight>>, DOMAIN outbox' \subseteq DOMAIN outbox,
           \A p \in DOMAIN outbox' :
              SameRow(p) /\ (outbox[p].state = "sending" => outbox'[p].state = "sending")
    PROVE  FlightOK'
<1>1. nextOp' \in Nat /\ nextOp <= nextOp'
  BY StorePart DEF TypeOK, CountersOK
<1>2. \A e \in DOMAIN flight : flight[e].op \in DOMAIN outbox =>
         outbox[flight[e].op].state = "sending"
  BY DEF MoveInv, FlightOK
<1> QED
  BY <1>1, <1>2, FlightKept

\* A discarded creation blocks the removal that waits for it.
LEMMA DiscardMovedStep ==
    ASSUME MoveInv, NEW o, DiscardMoved(o)
    PROVE  MoveInv'
<1> USE StorePart
<1>1. /\ Discard(o) /\ CommandAllowed
      /\ UNCHANGED <<remote, target, held, flight, arrived, released, faults>>
  BY DEF DiscardMoved, DiscardOp
<1>2. StoreInv'
  BY <1>1, DiscardKeeps
<1>3. /\ DOMAIN outbox' = DOMAIN outbox /\ DOMAIN events' = DOMAIN events
      /\ UNCHANGED nextOp /\ outbox[o].state # "sending"
  BY <1>1 DEF Discard
<1>4. \A p \in DOMAIN outbox :
        /\ SameRow(p)
        /\ outbox'[p].state =
             IF p = o THEN "done"
             ELSE IF outbox[p].dep = o /\ outbox[p].state \in QueuedStates \cup {"blocked"}
             THEN "blocked" ELSE outbox[p].state
  BY <1>1, DiscardIs
<1>5. FlightOK'
  BY <1>1, <1>3, <1>4, OthersFlight, StatesAre
<1>6. SourceOK'
  <2>1. ASSUME Undecided, NEW p \in DOMAIN outbox, outbox[p].event = Source
        PROVE  /\ outbox'[p].state # "sending"
               /\ outbox'[outbox[p].dep].state = "done" => outbox'[p].state \in {"blocked", "done"}
    <3>1. SourceRowOK(p)
      BY <2>1, Undecideds
    <3>2. /\ outbox[p].state \in ActiveStates \cup {"done"}
          /\ outbox[p].state # "sending"
          /\ outbox[p].dep \in DOMAIN outbox
      BY <3>1, RowIs DEF SourceRowOK
    <3>3. outbox'[p].state # "sending"
      BY <1>4, <3>2
    <3>4. CASE outbox[p].dep = o
      BY <1>4, <3>2, <3>4, StatesAre
    <3>5. CASE outbox[p].dep # o
      <4>1. outbox'[outbox[p].dep].state = "done" => outbox[outbox[p].dep].state = "done"
        BY <1>4, <3>2, <3>5
      <4>2. outbox'[p].state \in {"done", "blocked", outbox[p].state}
        BY <1>4
      <4> QED
        BY <3>1, <3>3, <4>1, <4>2 DEF SourceRowOK
    <3> QED
      BY <3>3, <3>4, <3>5
  <2>2. Undecided' <=> Undecided
    BY <1>1 DEF Undecided
  <2> QED
    BY <1>1, <1>3, <1>4, <2>1, <2>2, Undecideds, SourceKept
<1>7. MoveTypeOK'
  BY <1>1, <1>2, MoveAssumption DEF MoveInv, MoveTypeOK, StoreInv, CommandAllowed
<1> QED
  BY <1>2, <1>5, <1>6, <1>7 DEF MoveInv, StoreInv

\* A retry of the removal releases it when its prerequisite is no longer there
\* to wait for; any other retry changes nothing for the source.
LEMMA RetryMovedStep ==
    ASSUME MoveInv, NEW o, RetryMoved(o)
    PROVE  MoveInv'
<1> USE StorePart
<1>1. /\ CommandAllowed /\ SetState(o, "pending")
      /\ o \in DOMAIN outbox /\ outbox[o].state \in {"retry_wait", "blocked"}
      /\ released' = IF outbox[o].event = Source /\ DependencyMet(o)
                     THEN released \cup {"retried"} ELSE released
      /\ UNCHANGED <<remote, target, held, flight, arrived, faults>>
  BY DEF RetryMoved, Retriable
<1>2. StoreInv'
  BY <1>1, SetStateKeeps, StatesAre
<1>3. DOMAIN outbox' = DOMAIN outbox /\ UNCHANGED <<events, nextOp>>
  BY <1>1 DEF SetState
<1>4. \A p \in DOMAIN outbox :
        SameRow(p) /\ outbox'[p].state = IF p = o THEN "pending" ELSE outbox[p].state
  BY <1>1, SetStateIs
<1>5. FlightOK'
  BY <1>1, <1>3, <1>4, OthersFlight
<1>6. SourceOK'
  <2>1. ASSUME Undecided'
        PROVE  Undecided /\ ~(outbox[o].event = Source /\ DependencyMet(o))
    BY <1>1, <2>1 DEF Undecided
  <2>2. ASSUME Undecided', NEW p \in DOMAIN outbox, outbox[p].event = Source
        PROVE  /\ outbox'[p].state # "sending"
               /\ outbox'[outbox[p].dep].state = "done" => outbox'[p].state \in {"blocked", "done"}
    <3>1. SourceRowOK(p)
      BY <2>1, <2>2, Undecideds
    <3>2. outbox'[p].state # "sending"
      BY <1>4, <3>1 DEF SourceRowOK
    <3>3. ASSUME outbox'[outbox[p].dep].state = "done"
          PROVE  p # o /\ outbox[outbox[p].dep].state = "done"
      <4>1. outbox[outbox[p].dep].state = "done"
        BY <1>4, <3>1, <3>3 DEF SourceRowOK
      <4> QED
        BY <2>1, <2>2, <4>1 DEF DependencyMet
    <3> QED
      BY <1>4, <3>1, <3>2, <3>3 DEF SourceRowOK
  <2> QED
    BY <1>1, <1>3, <1>4, <2>1, <2>2, Undecideds, SourceKept
<1>7. MoveTypeOK'
  <2>1. commands' \in 0 .. MaxCommands
    BY <1>1, MoveAssumption DEF MoveInv, MoveTypeOK, CommandAllowed
  <2> QED
    BY <1>1, <1>2, <2>1 DEF MoveInv, MoveTypeOK, StoreInv
<1> QED
  BY <1>2, <1>5, <1>6, <1>7 DEF MoveInv, StoreInv

\* The target goes with its rows, and the user has given the copy up.
LEMMA RemoveTargetStep ==
    ASSUME MoveInv, RemoveTargetAccount \/ RemoveTargetCalendar
    PROVE  MoveInv'
<1> USE StorePart
<1>1. /\ CascadeTarget /\ target' = FALSE
      /\ released' \in {released \cup {"account"}, released \cup {"calendar"}}
      /\ UNCHANGED <<nextOp, edits, remote, arrived, faults, commands>>
      /\ held' \subseteq held
      /\ DOMAIN flight' \subseteq DOMAIN flight
      /\ \A e \in DOMAIN flight' : flight'[e] = flight[e]
  BY DEF RemoveTargetAccount, RemoveTargetCalendar, TargetRemoved, Restrict
<1>2. StoreInv' /\ DOMAIN outbox' \subseteq DOMAIN outbox
      /\ \A p \in DOMAIN outbox' : outbox'[p] = outbox[p]
  <2>1. CASE Target \in DOMAIN events
    <3>1. DeleteEvent(Target)
      BY <1>1, <2>1 DEF CascadeTarget
    <3> QED
      BY <1>1, <3>1, DeleteEventKeeps DEF DeleteEvent, Restrict
  <2>2. CASE Target \notin DOMAIN events
    <3>1. UNCHANGED storeVars
      BY <1>1, <2>2 DEF CascadeTarget, storeVars
    <3>2. \A e : ActiveOps(e)' = ActiveOps(e)
      BY <3>1 DEF ActiveOps, OpsOf, storeVars
    <3> QED
      BY <3>1, <3>2 DEF storeVars, StoreInv, TypeOK, EventsOK, OutboxOK, ConflictsOK,
                        CountersOK, DependencyOrder, ChainOK, HiddenOK, IsNewest
  <2> QED
    BY <2>1, <2>2
<1>3. FlightOK'
  <2>1. nextOp' \in Nat /\ nextOp <= nextOp'
    BY <1>1 DEF TypeOK, CountersOK
  <2> QED
    BY <1>1, <1>2, <2>1, FlightKept DEF SameRow
<1>4. SourceOK'
  BY <1>1 DEF SourceOK, Undecided
<1>5. MoveTypeOK'
  BY <1>1, <1>2 DEF MoveInv, MoveTypeOK, StoreInv
<1> QED
  BY <1>2, <1>3, <1>4, <1>5 DEF MoveInv, StoreInv
-----------------------------------------------------------------------------
\* A row that is sent is ready, so it is not the removal of an undecided move.
LEMMA SendStep ==
    ASSUME MoveInv, NEW o \in OpIds, Send(o)
    PROVE  MoveInv'
<1> USE StorePart
<1> DEFINE e == outbox[o].event
           request == [op |-> o, removal |-> outbox[o].op = "remove",
                       outcome |-> "travelling"]
<1>1. /\ o \in DOMAIN outbox /\ Ready(o) /\ e \in remote /\ e \notin DOMAIN flight
      /\ flight' = Put(flight, e, request) /\ SetState(o, "sending")
      /\ UNCHANGED <<remote, target, held, arrived, released, faults, commands>>
  BY DEF Send, ReadyRows
<1>2. outbox[o].state \in QueuedStates /\ DependencyMet(o) /\ o < nextOp
  BY <1>1 DEF Ready, StoreInv, DependencyOrder
<1>3. First(o)
  BY <1>1, <1>2, FirstIs, StatesAre
<1>4. StoreInv'
  BY <1>1, <1>2, <1>3, SetStateKeeps, StatesAre
<1>5. DOMAIN outbox' = DOMAIN outbox /\ UNCHANGED <<events, nextOp>>
  BY <1>1 DEF SetState
<1>6. \A p \in DOMAIN outbox :
        SameRow(p) /\ outbox'[p].state = IF p = o THEN "sending" ELSE outbox[p].state
  BY <1>1, SetStateIs
<1>7. request.op = o /\ request.removal = (outbox[o].op = "remove")
      /\ request.outcome = "travelling"
  OBVIOUS
<1>8. request \in FlightRecords
  <2>1. (outbox[o].op = "remove") \in BOOLEAN
    OBVIOUS
  <2>2. \A b \in BOOLEAN :
          [op |-> o, removal |-> b, outcome |-> "travelling"] \in FlightRecords
    BY DEF FlightRecords, Outcomes
  <2> QED
    BY <2>1, <2>2, Zenon
<1> HIDE DEF request
<1>9. /\ DOMAIN flight' = DOMAIN flight \cup {e} /\ flight'[e] = request
      /\ \A f \in DOMAIN flight : flight'[f] = flight[f]
  BY <1>1 DEF Put
<1>10. FlightOK'
  <2>1. ASSUME NEW f \in DOMAIN flight
        PROVE  /\ flight'[f].op < nextOp'
               /\ flight'[f].op \in DOMAIN outbox' =>
                    /\ outbox'[flight'[f].op].event = f
                    /\ outbox'[flight'[f].op].state = "sending"
                    /\ flight'[f].removal = (outbox'[flight'[f].op].op = "remove")
    BY <1>5, <1>6, <1>9 DEF MoveInv, FlightOK, SameRow
  <2>2. /\ flight'[e].op < nextOp'
        /\ outbox'[flight'[e].op].event = e
        /\ outbox'[flight'[e].op].state = "sending"
        /\ flight'[e].removal = (outbox'[flight'[e].op].op = "remove")
    <3>1. flight'[e].op = o /\ flight'[e].removal = (outbox[o].op = "remove")
      BY <1>7, <1>9
    <3> QED
      BY <1>1, <1>2, <1>5, <1>6, <3>1 DEF SameRow
  <2> HIDE DEF e
  <2> QED
    BY <1>9, <2>1, <2>2 DEF FlightOK
<1>11. SourceOK'
  <2>1. ASSUME Undecided PROVE e = Target /\ outbox[o].op # "remove"
    BY <1>1, <2>1, SourceNotReady, RowIs, Undecideds DEF TargetRowOK
  <2>2. ASSUME Undecided, NEW p \in DOMAIN outbox, outbox[p].event = Source
        PROVE  /\ outbox'[p].state # "sending"
               /\ outbox'[outbox[p].dep].state = "done" => outbox'[p].state \in {"blocked", "done"}
    <3>1. SourceRowOK(p) /\ p # o
      BY <2>1, <2>2, MoveAssumption, Undecideds
    <3> QED
      BY <1>6, <3>1 DEF SourceRowOK
  <2>3. Undecided' <=> Undecided
    BY <1>1 DEF Undecided
  <2>4. ASSUME Undecided
        PROVE  /\ Source \notin DOMAIN flight'
               /\ \A f \in DOMAIN flight' : ~flight'[f].removal
                                            /\ flight'[f].outcome # "applied"
    <3>1. ~request.removal /\ request.outcome # "applied"
      BY <1>7, <2>1, <2>4
    <3> QED
      BY <1>9, <2>1, <2>4, <3>1, MoveAssumption, Undecideds
  <2> HIDE DEF e
  <2> QED
    BY <1>1, <1>5, <1>6, <2>2, <2>3, <2>4, Undecideds, SourceKept
<1>12. MoveTypeOK'
  <2>1. DOMAIN flight' \subseteq remote /\ \A f \in DOMAIN flight' : flight'[f] \in FlightRecords
    BY <1>1, <1>8, <1>9 DEF MoveInv, MoveTypeOK, FlightRecords
  <2> QED
    BY <1>1, <1>4, <2>1 DEF MoveInv, MoveTypeOK, StoreInv, FlightRecords
<1> QED
  BY <1>4, <1>10, <1>11, <1>12 DEF MoveInv, StoreInv

\* The server acts on one request, or the request or its answer is lost: the
\* store does not change.  What is executed for an undecided move is the
\* creation of the copy.
LEMMA ServerStep ==
    ASSUME MoveInv, NEW e \in EventIds, Execute(e) \/ Disturb(e)
    PROVE  MoveInv'
<1> USE StorePart
<1>1. /\ UNCHANGED storeVars /\ UNCHANGED <<remote, target, released, commands>>
      /\ e \in DOMAIN flight
  BY DEF Execute, Disturb, Travelling
<1>2. PICK outcome \in Outcomes \ {"travelling"} :
        /\ flight' = [flight EXCEPT ![e].outcome = outcome]
        /\ \/ Execute(e) /\ outcome = "applied"
           \/ Disturb(e) /\ outcome # "applied"
  BY DEF Execute, Disturb, Outcomes
<1>3. /\ DOMAIN flight' = DOMAIN flight
      /\ \A f \in DOMAIN flight :
           /\ flight[f] \in FlightRecords /\ flight'[f] \in FlightRecords
           /\ flight'[f].op = flight[f].op /\ flight'[f].removal = flight[f].removal
           /\ flight'[f].outcome = IF f = e THEN outcome ELSE flight[f].outcome
  BY <1>1, <1>2 DEF MoveInv, MoveTypeOK, FlightRecords
<1>4. UNCHANGED <<events, outbox, conflicts, nextOp, edits>>
  BY <1>1 DEF storeVars
<1>5. StoreInv'
  <2>1. \A f : ActiveOps(f)' = ActiveOps(f)
    BY <1>4 DEF ActiveOps, OpsOf
  <2> QED
    BY <1>4, <2>1 DEF StoreInv, TypeOK, EventsOK, OutboxOK, ConflictsOK,
                      CountersOK, DependencyOrder, ChainOK, HiddenOK, IsNewest
<1>6. FlightOK'
  <2>1. nextOp' \in Nat /\ nextOp <= nextOp'
    BY <1>4 DEF TypeOK, CountersOK
  <2> QED
    BY <1>3, <1>4, <2>1, FlightKept DEF SameRow
<1>7. CASE Execute(e)
  <2>1. /\ held' = IF flight[e].removal THEN held \ {e} ELSE held \cup {e}
        /\ arrived' = (arrived \/ (e = Target /\ ~flight[e].removal))
        /\ UNCHANGED faults
    BY <1>7 DEF Execute
  <2>2. held' \subseteq remote /\ arrived' \in BOOLEAN
    BY <1>1, <2>1 DEF MoveInv, MoveTypeOK
  <2>3. ~Undecided'
    <3>1. Undecided => e = Target /\ ~flight[e].removal
      BY <1>1, MoveAssumption, Undecideds
    <3> QED
      BY <1>1, <2>1, <3>1 DEF Undecided
  <2>4. MoveTypeOK'
    BY <1>1, <1>3, <1>5, <2>1, <2>2 DEF MoveInv, MoveTypeOK, StoreInv, FlightRecords
  <2> QED
    BY <1>5, <1>6, <2>3, <2>4 DEF MoveInv, StoreInv, SourceOK
<1>8. CASE Disturb(e) /\ outcome # "applied"
  <2>1. UNCHANGED <<held, arrived>> /\ Fault /\ outcome # "applied"
    BY <1>8 DEF Disturb
  <2>2. faults' \in 0 .. MaxFaults
    BY <2>1, MoveAssumption DEF Fault, MoveInv, MoveTypeOK
  <2>3. MoveTypeOK'
    BY <1>1, <1>3, <1>5, <2>1, <2>2 DEF MoveInv, MoveTypeOK, StoreInv, FlightRecords
  <2>4. Undecided' <=> Undecided
    BY <1>1, <2>1 DEF Undecided
  <2>5. ASSUME Undecided, NEW p \in DOMAIN outbox, outbox[p].event = Source
        PROVE  /\ outbox[p].state # "sending"
               /\ outbox[outbox[p].dep].state = "done" => outbox[p].state \in {"blocked", "done"}
    BY <2>5, Undecideds DEF SourceRowOK
  <2>6. SourceOK'
    BY <1>1, <1>3, <1>4, <2>1, <2>4, <2>5, Undecideds, SourceKept DEF SameRow
  <2> QED
    BY <1>5, <1>6, <2>3, <2>6 DEF MoveInv, StoreInv
<1> QED
  BY <1>2, <1>7, <1>8

\* The engine takes an answer: the row it was sent for is the first of its event,
\* or is gone.  For an undecided move the answer is not that the copy was made.
LEMMA AnswerStep ==
    ASSUME MoveInv, NEW e \in EventIds, Answer(e)
    PROVE  MoveInv'
<1> USE StorePart
<1> DEFINE o == flight[e].op
<1>1. /\ e \in DOMAIN flight /\ flight' = Restrict(flight, DOMAIN flight \ {e})
      /\ UNCHANGED <<remote, target, held, arrived, released, faults, commands>>
      /\ \/ /\ flight[e].outcome = "applied"
            /\ \/ AcknowledgeRemoval(o)
               \/ \E v \in Versions : Acknowledge(o, v)
         \/ SetState(o, "retry_wait") \/ SetState(o, "blocked")
         \/ o \notin DOMAIN outbox /\ UNCHANGED storeVars
  <2>1. ASSUME NEW c \in Contents
        PROVE  [rid |-> o, etag |-> 1, content |-> c] \in Versions
    <3>1. o \in OpIds
      BY DEF Answer, MoveInv, MoveTypeOK
    <3> QED
      BY <3>1, StoreAssumption, MoveAssumption DEF Versions, OpIds, RemoteIds, Etags
  <2> QED
    BY <2>1 DEF Answer
<1>2. /\ DOMAIN flight' = DOMAIN flight \ {e}
      /\ \A f \in DOMAIN flight' : flight'[f] = flight[f]
  BY <1>1 DEF Restrict
<1>3. o \in DOMAIN outbox => outbox[o].state = "sending" /\ outbox[o].event = e
  BY <1>1 DEF MoveInv, FlightOK
<1>4. o \in DOMAIN outbox => First(o)
  BY <1>3, FirstIs, StatesAre
<1>5. StoreInv'
  <2>1. CASE o \in DOMAIN outbox /\ (AcknowledgeRemoval(o) \/ \E v \in Versions : Acknowledge(o, v))
    BY <1>3, <1>4, <2>1, AcknowledgeKeeps, StatesAre
  <2>2. CASE o \in DOMAIN outbox /\ (SetState(o, "retry_wait") \/ SetState(o, "blocked"))
    BY <1>3, <1>4, <2>2, SetStateKeeps, StatesAre
  <2>3. CASE o \notin DOMAIN outbox
    <3>1. UNCHANGED <<events, outbox, conflicts, nextOp, edits>>
      BY <1>1, <2>3 DEF Acknowledge, AcknowledgeRemoval, SetState, storeVars
    <3>2. \A f : ActiveOps(f)' = ActiveOps(f)
      BY <3>1 DEF ActiveOps, OpsOf
    <3> QED
      BY <3>1, <3>2 DEF StoreInv, TypeOK, EventsOK, OutboxOK, ConflictsOK,
                        CountersOK, DependencyOrder, ChainOK, HiddenOK, IsNewest
  <2> QED
    BY <1>1, <2>1, <2>2, <2>3
<1>6. ASSUME NEW p \in DOMAIN outbox', o \in DOMAIN outbox => p # o
      PROVE  p \in DOMAIN outbox /\ SameRow(p) /\ outbox'[p].state = outbox[p].state
  <2>1. CASE o \in DOMAIN outbox /\ AcknowledgeRemoval(o)
    BY <1>6, <2>1 DEF AcknowledgeRemoval, DeleteEvent, Restrict, SameRow
  <2>2. CASE o \in DOMAIN outbox /\ \E v \in Versions : Acknowledge(o, v)
    <3>1. PICK v \in Versions : Acknowledge(o, v)
      BY <2>2
    <3>2. CASE Purges(o)
      BY <3>1, <3>2 DEF Acknowledge, DeleteEvent, Restrict, SameRow
    <3>3. CASE ~Purges(o)
      <4>1. /\ p \in DOMAIN outbox
            /\ outbox'[p] \in {outbox[p], [outbox[p] EXCEPT !.expected = v.etag]}
        BY <1>6, <2>2, <3>1, <3>3 DEF Acknowledge
      <4>2. outbox[p] \in OutboxRows
        BY <4>1 DEF TypeOK, OutboxOK
      <4> QED
        BY <4>1, <4>2 DEF SameRow, OutboxRows
    <3> QED
      BY <3>2, <3>3
  <2>3. CASE o \in DOMAIN outbox /\ (SetState(o, "retry_wait") \/ SetState(o, "blocked"))
    <3>1. p \in DOMAIN outbox
      BY <1>6, <2>3 DEF SetState
    <3> QED
      BY <1>6, <2>3, <3>1, SetStateIs
  <2>4. CASE o \notin DOMAIN outbox
    BY <1>1, <1>6, <2>4 DEF Acknowledge, AcknowledgeRemoval, SetState, storeVars, SameRow
  <2> QED
    BY <1>1, <2>1, <2>2, <2>3, <2>4
<1>7. FlightOK'
  <2>1. nextOp' = nextOp
    BY <1>1 DEF Acknowledge, AcknowledgeRemoval, SetState, storeVars
  <2>2. ASSUME NEW f \in DOMAIN flight', flight[f].op \in DOMAIN outbox'
        PROVE  /\ flight[f].op \in DOMAIN outbox /\ SameRow(flight[f].op)
               /\ outbox'[flight[f].op].state = outbox[flight[f].op].state
    <3>1. o \in DOMAIN outbox => flight[f].op # o
      BY <1>2, <1>3, <2>2 DEF MoveInv, FlightOK
    <3> QED
      BY <1>6, <2>2, <3>1
  <2> QED
    BY <1>2, <2>1, <2>2, FlightKept DEF TypeOK, CountersOK
<1>8. SourceOK'
  <2>1. Undecided' <=> Undecided
    BY <1>1 DEF Undecided
  <2>2. ASSUME Undecided
        PROVE  /\ e = Target /\ UNCHANGED events /\ DOMAIN outbox' = DOMAIN outbox
               /\ \A p \in DOMAIN outbox :
                    /\ SameRow(p)
                    /\ \/ outbox'[p].state = outbox[p].state
                       \/ p = o /\ outbox'[p].state \in {"retry_wait", "blocked"}
    <3>1. e = Target /\ flight[e].outcome # "applied"
      BY <1>1, <2>2, MoveAssumption, Undecideds
    <3>2. CASE SetState(o, "retry_wait") \/ SetState(o, "blocked")
      <4>1. UNCHANGED events /\ DOMAIN outbox' = DOMAIN outbox
        BY <3>2 DEF SetState
      <4> QED
        BY <3>1, <3>2, <4>1, SetStateIs
    <3>3. CASE UNCHANGED storeVars
      BY <3>1, <3>3 DEF storeVars, SameRow
    <3> QED
      BY <1>1, <3>1, <3>2, <3>3
  <2>3. ASSUME Undecided, NEW p \in DOMAIN outbox, outbox[p].event = Source
        PROVE  /\ outbox'[p].state # "sending"
               /\ outbox'[outbox[p].dep].state = "done" => outbox'[p].state \in {"blocked", "done"}
    <3>1. SourceRowOK(p) /\ p # o
      BY <1>3, <2>2, <2>3, MoveAssumption, Undecideds
    <3> QED
      BY <2>2, <2>3, <3>1 DEF SourceRowOK
  <2> HIDE DEF o
  <2> QED
    BY <1>1, <1>2, <2>1, <2>2, <2>3, Undecideds, SourceKept
<1>9. MoveTypeOK'
  BY <1>1, <1>2, <1>5 DEF MoveInv, MoveTypeOK, StoreInv
<1> QED
  BY <1>5, <1>7, <1>8, <1>9 DEF MoveInv, StoreInv

\* The device-only account makes the copy at once: a ready row of an undecided
\* move is the creation of the copy.
LEMMA DrainLocalStep ==
    ASSUME MoveInv, NEW o \in OpIds, DrainLocal(o)
    PROVE  MoveInv'
<1> USE StorePart
<1>1. /\ o \in DOMAIN outbox /\ Ready(o) /\ outbox[o].event \notin remote
      /\ UNCHANGED <<remote, target, held, flight, released, commands>>
  BY DEF DrainLocal, ReadyRows
<1>2. outbox[o].state \in QueuedStates /\ DependencyMet(o)
  BY <1>1 DEF Ready
<1>3. First(o) /\ outbox[o].state \in ActiveStates
  BY <1>1, <1>2, FirstIs, StatesAre
<1>4. Undecided => outbox[o].op = "create" /\ outbox[o].event = Target
  BY <1>1, SourceNotReady, RowIs, Undecideds DEF TargetRowOK
<1>5. ASSUME NEW e \in DOMAIN flight, flight[e].op \in DOMAIN outbox
      PROVE  flight[e].op # o /\ outbox[flight[e].op].state = "sending"
  BY <1>2, <1>5, StatesAre DEF MoveInv, FlightOK
<1>6. CASE /\ AcknowledgeRemoval(o) /\ UNCHANGED faults
           /\ arrived' = (arrived \/ outbox[o].op = "create")
  <2>1. StoreInv'
    BY <1>1, <1>3, <1>6, AcknowledgeKeeps
  <2>2. nextOp' = nextOp
    BY <1>6 DEF AcknowledgeRemoval
  <2>3. ASSUME NEW p \in DOMAIN outbox', p # o
        PROVE  p \in DOMAIN outbox /\ outbox'[p] = outbox[p]
    BY <1>6, <2>3 DEF AcknowledgeRemoval, DeleteEvent, Restrict
  <2>4. FlightOK'
    <3>1. nextOp' \in Nat /\ nextOp <= nextOp'
      BY <2>2 DEF TypeOK, CountersOK
    <3>2. ASSUME NEW e \in DOMAIN flight, flight[e].op \in DOMAIN outbox'
          PROVE  /\ flight[e].op \in DOMAIN outbox
                 /\ outbox'[flight[e].op] = outbox[flight[e].op]
      <4>1. DOMAIN outbox' \subseteq DOMAIN outbox
        BY <1>6 DEF AcknowledgeRemoval, DeleteEvent, Restrict
      <4> QED
        BY <1>5, <2>3, <3>2, <4>1
    <3> QED
      BY <1>1, <3>1, <3>2, FlightKept DEF SameRow
  <2>5. SourceOK'
    BY <1>1, <1>4, <1>6 DEF SourceOK, Undecided
  <2>6. arrived' \in BOOLEAN
    BY <1>6
  <2>7. MoveTypeOK'
    BY <1>1, <1>6, <2>1, <2>6 DEF MoveInv, MoveTypeOK, StoreInv
  <2> QED
    BY <2>1, <2>4, <2>5, <2>7 DEF MoveInv, StoreInv
<1>7. CASE Fault /\ SetState(o, "retry_wait") /\ UNCHANGED arrived
  <2>1. StoreInv'
    BY <1>1, <1>3, <1>7, SetStateKeeps, StatesAre
  <2>2. DOMAIN outbox' = DOMAIN outbox /\ UNCHANGED <<events, nextOp>>
    BY <1>7 DEF SetState
  <2>3. \A p \in DOMAIN outbox :
          SameRow(p) /\ outbox'[p].state = IF p = o THEN "retry_wait" ELSE outbox[p].state
    BY <1>7, SetStateIs
  <2>4. FlightOK'
    BY <1>1, <1>2, <2>2, <2>3, OthersFlight, StatesAre
  <2>5. ASSUME Undecided, NEW p \in DOMAIN outbox, outbox[p].event = Source
        PROVE  /\ outbox'[p].state # "sending"
               /\ outbox'[outbox[p].dep].state = "done" => outbox'[p].state \in {"blocked", "done"}
    <3>1. SourceRowOK(p) /\ p # o
      BY <1>4, <2>5, MoveAssumption, Undecideds
    <3> QED
      BY <2>3, <2>5, <3>1 DEF SourceRowOK
  <2>6. SourceOK'
    <3>1. Undecided' <=> Undecided
      BY <1>1, <1>7 DEF Undecided
    <3> QED
      BY <1>1, <2>2, <2>3, <2>5, <3>1, Undecideds, SourceKept
  <2>7. faults' \in 0 .. MaxFaults
    BY <1>7, MoveAssumption DEF Fault, MoveInv, MoveTypeOK
  <2>8. MoveTypeOK'
    BY <1>1, <1>7, <2>1, <2>7 DEF MoveInv, MoveTypeOK, StoreInv
  <2> QED
    BY <2>1, <2>4, <2>6, <2>8 DEF MoveInv, StoreInv
<1> QED
  BY <1>6, <1>7 DEF DrainLocal

\* A deadline passes.
LEMMA TimePassesStep ==
    ASSUME MoveInv, NEW o, TimePasses(o)
    PROVE  MoveInv'
<1> USE StorePart
<1>1. (GraceOver(o) \/ BackoffOver(o)) /\ UNCHANGED moveVars
  BY DEF TimePasses
<1>2. StoreInv'
  BY <1>1, QueueKeeps
<1>3. DOMAIN outbox' = DOMAIN outbox /\ UNCHANGED <<events, nextOp>>
  BY <1>1 DEF GraceOver, BackoffOver
<1>4. ASSUME NEW p \in DOMAIN outbox
      PROVE  SameRow(p) /\ outbox'[p].state = outbox[p].state
  <2>1. outbox[p] \in OutboxRows
    BY DEF TypeOK, OutboxOK
  <2> QED
    BY <1>1, <2>1 DEF GraceOver, BackoffOver, SameRow, OutboxRows
<1>5. UNCHANGED <<remote, target, held, flight, arrived, released, faults, commands>>
  BY <1>1 DEF moveVars
<1>6. FlightOK'
  BY <1>3, <1>4, <1>5, OthersFlight
<1>7. SourceOK'
  <2>1. Undecided' <=> Undecided
    BY <1>5 DEF Undecided
  <2>2. ASSUME Undecided, NEW p \in DOMAIN outbox, outbox[p].event = Source
        PROVE  /\ outbox'[p].state # "sending"
               /\ outbox'[outbox[p].dep].state = "done" => outbox'[p].state \in {"blocked", "done"}
    BY <1>4, <2>2, Undecideds DEF SourceRowOK
  <2> QED
    BY <1>3, <1>4, <1>5, <2>1, <2>2, Undecideds, SourceKept
<1>8. MoveTypeOK'
  BY <1>2, <1>5 DEF MoveInv, MoveTypeOK, StoreInv
<1> QED
  BY <1>2, <1>6, <1>7, <1>8 DEF MoveInv, StoreInv

\* The daemon starts again: no request is left, and the rows that were being sent
\* wait again, none of which is a removal of an undecided move.
LEMMA RestartStep ==
    ASSUME MoveInv, Restart
    PROVE  MoveInv'
<1> USE StorePart
<1>1. /\ Fault /\ Recover /\ DOMAIN flight' = {}
      /\ UNCHANGED <<remote, target, held, arrived, released, commands>>
  BY DEF Restart, Empty
<1>2. StoreInv'
  BY <1>1, QueueKeeps
<1>3. DOMAIN outbox' = DOMAIN outbox /\ UNCHANGED <<events, nextOp>>
  BY <1>1 DEF Recover
<1>4. \A p \in DOMAIN outbox :
        /\ SameRow(p)
        /\ \/ outbox'[p].state = outbox[p].state
           \/ outbox[p].state = "sending" /\ outbox'[p].state = "pending"
  BY <1>1, QueueIs
<1>5. FlightOK'
  BY <1>1 DEF FlightOK
<1>6. SourceOK'
  <2>1. Undecided' <=> Undecided
    BY <1>1 DEF Undecided
  <2>2. ASSUME Undecided, NEW p \in DOMAIN outbox, outbox[p].event = Source
        PROVE  /\ outbox'[p].state # "sending"
               /\ outbox'[outbox[p].dep].state = "done" => outbox'[p].state \in {"blocked", "done"}
    <3>1. SourceRowOK(p)
      BY <2>2, Undecideds
    <3>2. outbox'[p].state = outbox[p].state /\ outbox[p].state # "sending"
      BY <1>4, <3>1 DEF SourceRowOK
    <3>3. outbox'[outbox[p].dep].state = "done" => outbox[outbox[p].dep].state = "done"
      BY <1>4, <3>1 DEF SourceRowOK
    <3> QED
      BY <3>1, <3>2, <3>3 DEF SourceRowOK
  <2> QED
    BY <1>1, <1>3, <1>4, <2>1, <2>2, Undecideds, SourceKept
<1>7. faults' \in 0 .. MaxFaults
  BY <1>1, MoveAssumption DEF Fault, MoveInv, MoveTypeOK
<1>8. MoveTypeOK'
  BY <1>1, <1>2, <1>7 DEF MoveInv, MoveTypeOK, StoreInv
<1> QED
  BY <1>2, <1>5, <1>6, <1>8 DEF MoveInv, StoreInv
-----------------------------------------------------------------------------
(* The theorems.                                                           *)

\* Nothing is queued or asked for at the start.
LEMMA MoveInitOK ==
    ASSUME Init
    PROVE  MoveInv
<1> USE DEF Init
<1>1. DOMAIN outbox = {} /\ DOMAIN conflicts = {} /\ DOMAIN flight = {}
  BY DEF Empty
<1>2. DOMAIN events = {Source} /\ events[Source] \in EventRows /\ ~events[Source].deleted
  <2> DEFINE row == [rid |-> IF Source \in remote THEN MaxOps + 1 ELSE None,
                     etag |-> IF Source \in remote THEN 1 ELSE None,
                     content |-> CHOOSE c \in Contents : TRUE,
                     dirty |-> FALSE, deleted |-> FALSE]
  <2>1. (CHOOSE c \in Contents : TRUE) \in Contents
    BY MoveAssumption
  <2>2. MaxOps + 1 \in RemoteIds /\ 1 \in Etags
    BY StoreAssumption, MoveAssumption DEF RemoteIds, Etags
  <2>3. row \in EventRows /\ ~row.deleted
    BY <2>1, <2>2 DEF EventRows
  <2>4. events = [e \in {Source} |-> row]
    OBVIOUS
  <2> HIDE DEF row
  <2> QED
    BY <2>3, <2>4
<1> /\ nextOp = 1 /\ edits = 0 /\ faults = 0 /\ commands = 0
    /\ remote \subseteq EventIds /\ held \subseteq remote
    /\ Source \in remote => Source \in held
    /\ target = TRUE /\ arrived = FALSE /\ released = {}
  OBVIOUS
<1> HIDE DEF Init
<1>3. TypeOK
  <2>1. EventsOK
    BY <1>2, MoveAssumption DEF EventsOK
  <2>2. OutboxOK /\ ConflictsOK
    BY <1>1 DEF OutboxOK, ConflictsOK
  <2>3. CountersOK
    BY StoreAssumption DEF CountersOK
  <2> QED
    BY <2>1, <2>2, <2>3 DEF TypeOK
<1>4. DependencyOrder /\ ChainOK /\ HiddenOK /\ FlightOK
  BY <1>1, <1>2 DEF DependencyOrder, ChainOK, HiddenOK, FlightOK
<1>5. MoveTypeOK
  <2>1. target \in BOOLEAN /\ arrived \in BOOLEAN
    OBVIOUS
  <2>2. faults \in 0 .. MaxFaults /\ commands \in 0 .. MaxCommands
    BY MoveAssumption
  <2>3. DOMAIN flight \subseteq remote
        /\ \A e \in DOMAIN flight :
             flight[e] \in [op : OpIds, removal : BOOLEAN, outcome : Outcomes]
    BY <1>1
  <2>4. released \subseteq {"deleted", "retried", "calendar", "account"}
    OBVIOUS
  <2> QED
    BY <1>3, <2>1, <2>2, <2>3, <2>4 DEF MoveTypeOK
<1>6. SourceOK
  BY <1>1, <1>2 DEF SourceOK
<1> QED
  BY <1>3, <1>4, <1>5, <1>6 DEF MoveInv

\* Every step keeps the invariant.
LEMMA MoveNextOK ==
    ASSUME MoveInv, [Next]_vars
    PROVE  MoveInv'
<1>1. CASE UNCHANGED vars
  <2>1. UNCHANGED <<events, outbox, conflicts, nextOp, edits, remote, target, held,
                    flight, arrived, released, faults, commands>>
    BY <1>1 DEF vars, storeVars, moveVars
  <2>2. \A e : ActiveOps(e)' = ActiveOps(e)
    BY <2>1 DEF ActiveOps, OpsOf
  <2>3. MoveTypeOK'
    BY <2>1 DEF MoveInv, MoveTypeOK, TypeOK, EventsOK, OutboxOK, ConflictsOK, CountersOK
  <2>4. DependencyOrder' /\ FlightOK' /\ ChainOK' /\ HiddenOK'
    BY <2>1, <2>2 DEF MoveInv, DependencyOrder, FlightOK, ChainOK, HiddenOK, IsNewest
  <2>5. SourceOK'
    BY <2>1 DEF MoveInv, SourceOK, Undecided, SourceRowOK, TargetRowOK
  <2> QED
    BY <2>3, <2>4, <2>5 DEF MoveInv
<1>2. CASE Move
  BY <1>2, MoveStep
<1>3. CASE EditCopy
  BY <1>3, EditCopyStep
<1>4. CASE DeleteCopy
  BY <1>4, DeleteCopyStep
<1>5. CASE Restart
  BY <1>5, RestartStep
<1>6. CASE RemoveTargetAccount \/ RemoveTargetCalendar
  BY <1>6, RemoveTargetStep
<1>7. CASE \E o \in OpIds : DiscardMoved(o) \/ RetryMoved(o)
  BY <1>7, DiscardMovedStep, RetryMovedStep
<1>8. CASE \E e \in EventIds : Disturb(e) \/ Execute(e)
  BY <1>8, ServerStep
<1>9. CASE \E e \in EventIds : Answer(e)
  BY <1>9, AnswerStep
<1>10. CASE \E o \in OpIds : Send(o)
  BY <1>10, SendStep
<1>11. CASE \E o \in OpIds : DrainLocal(o)
  BY <1>11, DrainLocalStep
<1>12. CASE \E o \in OpIds : TimePasses(o)
  BY <1>12, TimePassesStep
<1> QED
  BY <1>1, <1>2, <1>3, <1>4, <1>5, <1>6, <1>7, <1>8, <1>9, <1>10, <1>11, <1>12
     DEF Next, EngineRuns

\* The invariant holds in every state of a move.
THEOREM MoveCorrect == Spec => []MoveInv
<1>1. Init => MoveInv
  BY MoveInitOK
<1>2. MoveInv /\ [Next]_vars => MoveInv'
  BY MoveNextOK
<1> QED
  BY <1>1, <1>2, PTL DEF Spec

\* The tables, the requests and the counters keep their types, and every row
\* belongs to an event that exists.
THEOREM MoveTypeCorrect == Spec => []MoveTypeOK
<1>1. MoveInv => MoveTypeOK
  BY DEF MoveInv
<1> QED
  BY <1>1, MoveCorrect, PTL

\* Database::moveEventAcrossAccounts: the source of a move is not destroyed
\* before the copy exists, whatever the two engines, the servers and a restart
\* do, unless the user gives the copy up.
THEOREM SourceOutlivesCorrect == Spec => []SourceOutlivesMove
<1>1. MoveInv => SourceOutlivesMove
  BY DEF MoveInv, SourceOK, Undecided, SourceOutlivesMove, SourceStands
<1> QED
  BY <1>1, MoveCorrect, PTL

\* Database::discardOutbox, completeOutbox and the cascade of the schema: a
\* hidden event always has an unfinished operation.
THEOREM HiddenCorrect == Spec => []HiddenHasOperation
<1>1. MoveInv => HiddenHasOperation
  BY DEF MoveInv, HiddenOK, HiddenHasOperation
<1> QED
  BY <1>1, MoveCorrect, PTL

\* Database::readyOutbox: the two queues of a move cannot wait for each other;
\* while a row is unfinished, some unfinished row waits for no other.
THEOREM MoveNeverDeadlocked == Spec => []NoDependencyDeadlock
<1>1. MoveInv => NoDependencyDeadlock
  BY OrderMeansProgress DEF MoveInv, MoveTypeOK
<1> QED
  BY <1>1, MoveCorrect, PTL
=============================================================================
